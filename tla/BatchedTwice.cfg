SPECIFICATION Spec
CONSTANTS
  Administrator = {o1}
  ZeroAddress = ZeroAddress
  Gateway = {g1}
  Coordinator = g1
  ZeroRoot = ZeroRoot
  Replica = {r1, r2}
  Decision = {1, 2}
  NoRow = NoRow
  Interval = 1
  Builds = {FALSE}
  MaxTime = 2
  Supplied = {}
  MaxFaults = 0
INVARIANTS BatchedOnce
