SPECIFICATION MCSpec
CONSTANTS
  NoValue = NoValue
  Rule <- MCRule
  MaxRules = 2
  Signal <- MCSignal
  Regions <- MCRegions
  Condition = {"necessary"}
  Recommendation <- MCRecommendation
  HostsForVendor <- MCHostsForVendor
  Hosts <- MCHosts
  Payload <- MCPayload
  RedactionRule <- MCRedactionRule
  MaxDepth = 3
  MaxNodes = 9
  RobotsRule <- MCRobotsRule
  AgentNames = {"rift", "bot", "*"}
  Ours = {"rift"}
  Paths <- MCPaths
  Row <- MCRow
  MaxRows = 2
  Whole = 3
  KeyOrder <- MCKeyOrder
  Key = {"k1", "k2", "k3"}
  MaxRequests = 5
  MaxGap = 2
  Limit = 2
  WindowLength = 2
  MaxTrackedKeys = 2
  Technology <- MCTechnology
  Override <- MCOverride
  Decision <- MCDecision
  Environment <- MCEnvironment
  MaxDecisions = 3
  MaxDeployments = 2
  Null = Null
  Url <- MCUrl
  Start = "home"
  Href <- MCHref
  Resolve <- MCResolve
  Site <- MCSite
  Limits <- MCLimits
  Nowhere = Nowhere
  ParsedUrl <- MCParsedUrl
  Tracking <- MCTracking
  MaxQueryParameters = 2
  SortedKeys <- MCSortedKeys
  IndexFile = {"index"}
  NonPage = {"pdf"}
  PageHost <- MCPageHost
  RequestHost <- MCRequestHost
  MaxSeen = 3
  Script = {"s1"}
  Cookie = {"k1"}
  Signatures <- MCSignatures
  Catalogue <- MCCatalogue
  HomeCountry = "in"
  HostOfScript <- MCHostOfScript
  MaxEvidence = 2
  SiteEvidence <- MCEvidence
  SpeltIn <- MCSpeltIn
  Slug <- MCSlug
  SiteId = "site"
  MaxNeighbourhood = 3
  Caps <- MCCaps
  Happened <- MCHappened
  Rules <- MCRules
  ScenarioChange <- MCScenarioChange
  MaxChanges = 2
  Scan = {1, 2}
  Worker = {w1, w2}
  Bounded = {w2}
  Canceller = {c1}
  MaxScans = 1
  MaxClaimFailures = 1
  MaxPages = 2
  Concurrency = 2
  PageCap = 2
  MaxFaults = 1
  None = None
INVARIANTS
  ProofsTell
  SilenceNeverPermits
  WiderNeverLooser
  OrderDecidesNothing
  WindowsHold
  CrawlHonest
  ReportsAgree
  OneWorkerEach
  CompletedIsWhole
  ConflictIsFinal
PROPERTIES
  ProgressForward
CHECK_DEADLOCK FALSE
