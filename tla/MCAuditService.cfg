SPECIFICATION AuditFairSpec
CONSTANTS
  Administrator = {o1}
  ZeroAddress = ZeroAddress
  Gateway = {g1, g2}
  Service = g1
  d1 = d1
  d2 = d2
  DecisionId = {d1, d2}
  ZeroDecision = ZeroDecision
  EmptyCid = EmptyCid
  NoDecision = NoDecision
  q1 = q1
  q2 = q2
  other = other
  QueueId = {q1, q2}
  DecisionOf <- MCSameDecision
  NoItem = NoItem
  Nothing = Nothing
  OtherCid = {other}
  Foreign <- MCForeignFew
  MaxDiskErrors = 1
  MaxCrashes = 1
INVARIANTS AcceptedSurvives EvidenceFirst OneEventPerDecision
PROPERTIES EvidenceArrives
