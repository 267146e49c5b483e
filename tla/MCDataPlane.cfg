SPECIFICATION PlaneSpec

CONSTANTS
  m1 = m1
  m2 = m2
  Message = {m1, m2}
  Unnamed = {m2}
  Web = {m1}
  MaxRetries = 1
  ReadCount = 2
  ReviewRetries = 1
  Score = {1, 2}
  MaxFaults = 1
  IngestMessage = {m1, m2}
  NoUrl = {m2}
  Consumer = {c1, c2}
  Producer = p
  ReadMax = 2
  BufferMax = 1
  StreamLimit = 1
  Similarity = {25, 30, 80}
  LogoScore = {0, 100}
  Threshold = 85
  Job = {j1, j2}
  NoTerms = {j2}
  NoJob = NoJob
  Url <- MCUrl
  Domain = {"h", "u", "x"}
  DomainOf <- MCDomainOf
  Links <- MCLinks
  Target <- MCTarget
  UrlTerms <- MCUrlTerms
  PageTerms <- MCPageTerms
  Seeds = {"home", "front"}
  Disallowed = {"closed"}
  Priority = 85
  Tier = 40
  AllowedDomains = {}
  BlockedDomains = {"x"}
  RequireAllowlist = FALSE
  MaxDepth = 2
  MaxPages = 3
  MinEmit = 55
  MinFollow = 35
  Contested = {i1}
  r2 = r2
  Reviewer = {r1, r2}
  Nobody = Nobody
  Replica = {w1, w2}
  NoRecord = NoRecord
  LockTtl = 1
  ScanLimit = 1
  MaxTime = 3
  MaxFailures = 1
  Submissions <- MCSubmissions
  RightsGraph <- MCRightsGraph

INVARIANTS
  AckedIsSettled
  DeadWasRetried
  AckedWasDecided
  ResemblanceIsSeen
  LinksFollowed

PROPERTIES
  EverythingSettles
  OfferedAgain

CHECK_DEADLOCK FALSE
