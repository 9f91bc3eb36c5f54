CONSTANTS
  None = None
  MaxPublications = 2
  Missing = Missing
  Torn = Torn
  ExperimentSources = {1, 2, 3, 4, 5}
  Configurations <- MCConfigurations
  BlobAttempts = 3
  MaxCandidates = 4
  MaxPreparations = 2
  Keys = {"search", "blob"}
  Searches = {"search"}
  Concurrent = 2
  RequestLimit = 4
  PageLimit = 1
  RunRetries = 1
  MaxWait = 1
  MaxTotalWait = 1
  Waits = {1}
  MaxStages = 2
  Repositories <- MCRepositories
  Subtree <- MCSubtree
  Rules <- MCRules
  Supported = {"x.ts", "y.ts"}
  Excluded = {"docs"}
  LicenceNames = {"LICENSE"}
  MaxTreeEntries = 7
  MaxSelectedBlobs = 5
  MaxRequests = 7
  MaxResponseBytes = 8
  Sizes = {1, 9}
  MaxPauses = 1
  MaxDiffLines = 3
  Ineligible = {"#"}
  ContextLines = 0
  MaxExcerpt = 2
  DraftInputs <- MCDraftInputs
  Catalogues <- MCCatalogues
  CandidateSets = {1, 2}
  Records <- MCRecords
  NameLists <- MCNameLists
  Opinions <- MCOpinions
  Selections = {"licensed-github-vs-project-controlled", "project-owned-fallback"}
  MaxReviews = 5
  MaxResults = 2
  Requests = {"q", "r"}
  Entries <- MCEntries
  Registers <- MCRegisters
  Bindings <- MCBindings
  Regimes <- MCRegimes
  Skew = 1
  MaxTime = 3
  MaxRuns = 2
  Players = {"p1", "p2"}
  BetaDays = {1, 2}
  Plans <- MCPlans
  RoundMode <- MCRoundMode
  OpportunitySets <- MCOpportunitySets
  MaxInstant = 1
SPECIFICATION Spec
INVARIANTS
  MaterialIsWhole
  RequestsAreAccountedFor
  InventoryIsReviewed
  RunsAreAuthorized
  MeasuresAreSound
CHECK_DEADLOCK FALSE
