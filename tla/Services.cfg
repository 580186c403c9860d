SPECIFICATION Spec
CONSTANTS
  Scenes = {"sources", "server", "scip", "comparison", "tests", "containment", "learning",
            "memory", "resume", "store", "schema", "truth", "thought", "remember",
            "observer", "ui", "program", "types", "promotion", "experiment",
            "slo", "serving", "shared", "selection", "proof", "tree"}
  Paths = {"p", "q"}
  Texts = {"x", "y"}
  NoText = "none"
  MaxClock = 2
  MaxQueue = 1
  MaxReads = 1
  SourceHazards = {}
  Modules = {"a", "b", "t"}
  ModuleTexts = {"caller", "handler", "plain", "other", "renamed"}
  ParsedAs <- MCParsedAs
  StartTree <- MCStartTree
  MaxRewritten = 3
  TestModules = {"t"}
  IndexHazards = {}
  MaxSaves = 2
  MaxDrifts = 1
  Askers = {"asker"}
  Viewers = {"viewer"}
  MaxRequests = 1
  MaxSessions = 2
  MaxEdits = 1
  MaxPending = 1
  MaxNotes = 1
  Patience = 1
  ServerHazards = {}
  MaxChanges = 2
  MaxIndexes = 2
  ScipHazards = {}
  PyTests = {"a", "b"}
  JsTests = {"js"}
  Providers = {"trusted-local", "network-contained", "filesystem-contained"}
  MaxNamed = 1
  MaxFlips = 1
  MaxRuns = 2
  ResourceLimits = {"nofile", "fsize", "nproc"}
  Hosts <- MCHosts
  MaxReceiptChanges = 2
  TruthPaths = {"p"}
  Targets <- MCTargets
  Limits = {2, 9}
  MaxTruthEdits = 2
  MaxRecords = 2
  TruthHazards = {}
  ProviderCount = 3
  SubjectCount = 2
  ClaimValues <- MCClaimValues
  RelationSubjects = {2}
  MostClaims = 2
  MaxProviders = 2
  MaxClaims = 3
  MaxDisagreements = 1
  PageSize <- MCPageSize
  Capacities = {1, 2}
  MaxPageBytes = 3
  MaxPageEdits = 1
  ContextHazards = {}
  Statements = {"s"}
  Agents = {"a"}
  MaxMemories = 3
  MaxRevision = 2
  Hypotheses = {"g", "h"}
  ThoughtPaths = {"p"}
  ItemWindow = 1
  PlanLimits = {1, 8}
  MaxItems = 2
  ThoughtHazards = {}
  PolicyVersions = {"v0", "v1", "v2"}
  PolicyCandidates = {"a", "b"}
  Processes = {"p"}
  Measures = {"m"}
  Reports = {"tests"}
  Reviewers = {"reviewer"}
  PipelineFiles <- MCPipelineFiles
  NoPipelineFile <- MCNoFile
  ReleaseCommit = "head"
  MaxRewrites = 1
  Conditions = {"filesystem", "habitat", "ablated"}
  Seeds = {1, 2}
  Environments = {"planned", "other"}
  MaxReceipts = 2
  Sampled <- MCSampled
  Cycles = 1
  Tolerance = 2
  MaxSamples = 2
  Elements = {1, 2, 3}
  Keys <- MCKeys
  MaxPage = 3
  MaxUiEdits = 3
  MaxObserved = 3
  MaxBlocks = 3
  MaxWrites = 2
  Openers = {"a", "b"}
  MaxOpens = 3
  MaxRows = 1
  MigrationHazards = {}
  Runtimes = {"r", "s"}
  Main = "r"
  Ring = 2
  Limit = 2
  Window = 1
  MaxFrames = 3
  MaxEvents = 3
  MaxPages = 1
  MaxCrashes = 1
  StreamHazards = {}
  Servers = {"s", "t"}
  Sends <- MCSends
  MaxLines = 3
  Pieces = 3
  KeptRows = 1
  Watched = TRUE
  Batch = 2
  MaxCalls = 3
  ServingHazards = {}
  Tenants = {"c", "d", "e"}
  RootOf <- MCRootOf
  MaxServices = 1
  MaxProcs = 2
  MaxTypeEdits = 1
  TypeScriptHazards = {}
CHECK_DEADLOCK FALSE
INVARIANTS
  TypeOK  ResumedWorldIsKnown ContainmentIsReal PromotionsAreEarned DatabaseHolds
     BrowserHolds 
PROPERTIES
  ReadIsIndexed DeepRefreshHeals AnswerIsCurrent AnswersAreAboutSources 
