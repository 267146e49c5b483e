SPECIFICATION LearningSpec

CONSTANTS
  Sample = {s1, s2}
  Threshold = 1
  MaxRetries = 2
  ShardTotal = 1
  Model = {old, new}
  NoModel = NoModel
  Quality <- MCQuality
  MaxAsked = 1
  MaxFaults = 1
  Client = {c1, c2}
  Party = {p1, p2}
  LastParty = p2
  P = 31
  MinClients = 2
  Value <- MCValue
  Spacing <- MCSpacing
  SingleLimit = 4
  DoubleLimit = 8
  Misshapen = Misshapen
  None = None
  Capacity = 3
  Window = 2
  Return = {0, 1}
  MaxEpisodes = 5
  MaxBatch = 3
  Asset = {a1, a2}
  Utility <- MCUtility
  Confidence = {5}
  MaxEntries = 1
  MaxErrors = 1
  Feature <- MCFeature
  Initial <- MCInitial
  MaxSamples = 2
  MaxSteps = 4

INVARIANTS
  SamplesGoOnce
  SumIsExact
  ReplayAligned
  ShadowTellsTruth
  JudgedInItsState

PROPERTIES
  PromotionGuarded
  LearningGoesOn

CHECK_DEADLOCK FALSE
