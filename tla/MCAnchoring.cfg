SPECIFICATION AnchoringSpec
CONSTANTS
  Administrator = {o1}
  ZeroAddress = ZeroAddress
  Gateway = {g1, g2}
  Coordinator = g1
  ZeroRoot = ZeroRoot
  Replica = {r1, r2}
  Decision = {1, 2}
  Builds = {TRUE, FALSE}
  MaxFaults = 1
  NoRow = NoRow
  Interval = 1
  MaxTime = 2
  Supplied = {3}
  Leaf = {a, b}
  MaxLeaves = 7
SYMMETRY ReplicaSymmetry
INVARIANTS
  LeavesPointBack WindowsDisjoint WindowComplete OnChainIsPersisted
  RootIsCanonical RowsProve RootBindsLeaves
PROPERTIES ImplementsLedger
