CONSTANTS
  Parts = {"impact", "revision", "line", "delivery"}
  NodeIds = {1, 2, 3}
  Ports = {port}
  Contracts = {contract}
  Schemas = {schema}
  Versions = {0, 1}
  Links <- MCLinks
  Refs <- MCRefs
  None = None
  Parents <- ConnectedParents
  Fingerprints = {f1, f2}
  MaxEdits = 2
  MaxReports = 2
  Sources <- MCSources
  Feedbacks <- MCFeedbacks
  Proposals <- MCProposals
  Alterations <- MCAlterations
  RewordedScreens = {"item"}
  ActiveScreens = {"item"}
  ChangedScreens = {"item", "report"}
  Anchors <- MCAnchors
  MaxRequests = 2
  MaxRewrites = 1
  Documents <- MCDocuments
  Inputs <- MCInputs
  Patches <- MCPatches
  FixtureLists <- MCFixtureLists
  Places = {here, elsewhere}
  MaxPrepared = 2
  MaxBuilt = 1
  MaxBundles = 1
  MaxVerified = 1
  MaxDelivered = 1
SPECIFICATION MCSpec
INVARIANT ReuseIsSound
INVARIANT InvalidationIsTheClosure
INVARIANT ApprovedIsWhatWasAsked
INVARIANT NothingIsLost
INVARIANT CleanSpecsCanBeShown
INVARIANT NoBlockerIsLost
INVARIANT DeliveredIsProven
CHECK_DEADLOCK FALSE
