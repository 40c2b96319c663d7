CONSTANTS
  Parts = {"line"}
  NodeIds = {1, 2, 3}
  Ports = {port}
  Contracts = {contract}
  Schemas = {schema}
  Versions = {0, 1}
  Links <- MCLinks
  Refs <- MCRefs
  None = None
  Parents <- ConnectedParents
  Fingerprints = {f1, f2}
  MaxEdits = 2
  MaxReports = 2
  Sources <- MCSources
  Feedbacks <- MCFeedbacks
  Proposals <- MCLineProposals
  Alterations <- MCAlterations
  RewordedScreens = {"item"}
  ActiveScreens = {"item"}
  ChangedScreens = {"item", "report"}
  Anchors <- MCAnchors
  MaxRequests = 1
  MaxRewrites = 1
  Documents <- MCDocuments
  Inputs <- MCInputs
  Patches <- MCPatches
  FixtureLists <- MCFixtureLists
  Places = {here, elsewhere}
  MaxPrepared = 2
  MaxBuilt = 1
  MaxBundles = 1
  MaxVerified = 1
  MaxDelivered = 1
SPECIFICATION MCSpec
INVARIANT ApprovedIsVerified
CHECK_DEADLOCK FALSE
