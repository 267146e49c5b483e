SPECIFICATION SharedSpec
CONSTANTS
  i1 = i1
  i2 = i2
  Item = {i1, i2}
  r1 = r1
  r2 = r2
  Reviewer = {r1, r2}
  Nobody = Nobody
  Replica = {w1, w2}
  NoRecord = NoRecord
  LockTtl = 1
  ScanLimit = 2
  MaxTime = 3
  MaxFailures = 1
  Submissions <- MCSubmissions
  RightsGraph <- MCRightsGraph
  Asset = {a1, a2}
  User = {u1, u2}
  Content = {picture}
  Extractor = {"visual", "semantic"}
  TopK = 1
  Hamming = 20
  Endpoint = {"fingerprint_audio", "onboard_image", "match_audio", "match_image", "slow_gate"}
  MaxRequests = 3
  MaxFaults = 1
INVARIANTS NeverLost OwnCopyFound ReferencesResolve
PROPERTIES ImplementsLease KnownConflictsKept
SYMMETRY MCSymmetry
CHECK_DEADLOCK FALSE
