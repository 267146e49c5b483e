SPECIFICATION AuditFairSpec
CONSTANTS
  Administrator = {o1}
  ZeroAddress = ZeroAddress
  Gateway = {g1}
  Service = g1
  d1 = d1
  d2 = d2
  DecisionId = {d1, d2}
  ZeroDecision = ZeroDecision
  EmptyCid = EmptyCid
  NoDecision = NoDecision
  q1 = q1
  q2 = q2
  other = other
  QueueId = {q1}
  DecisionOf <- MCTwoDecisions
  NoItem = NoItem
  Nothing = Nothing
  OtherCid = {other}
  Foreign <- MCNoForeign
  MaxDiskErrors = 0
  MaxCrashes = 0
PROPERTIES WorkedOff
