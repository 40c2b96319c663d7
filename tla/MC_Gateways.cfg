CONSTANTS
  Workers = {w1, w2}
  BranchIds = {1, 2, 3, 4}
  Partitions = {1, 2, 3, 4}
  Evidence = {e1}
  FirstBranches <- MCFirstBranches
  LaterBranches <- MCLaterBranches
  Budget = 2
  MaxBranches = 2
  MinGain = 4
  MaxVersions = 5
  e1 = e1
  Tokens = {0, 50000, 200000}
  Counts = {0, 1, 3, 8}
  Seconds = {0, 1800, 7200}
  Units = {0, 84, 168}
  Budgets = {0, 1}
  ObservationIds = {1}
  MaxObservations = 1
  Calls = {c1, c2}
  Names = {n1, n2}
  ProviderClasses = {"CAPACITY", "PROVIDER_TIMEOUT", "CANCELLED", "SCHEMA_VIOLATION"}
  Pending = Pending
  Aborted = Aborted
  Returned = Returned
  NumPaths = 2
  Outside = Outside
  Missing = Missing
  Origins = {o1, o2}
  References = {s1, s2}
  Variables = {v1, v2}
  Requests <- MCRequests
  MaxMoves = 2
  o1 = o1
  o2 = o2
  s1 = s1
  s2 = s2
SPECIFICATION Spec
INVARIANT BranchesHaveOneWorker
INVARIANT DecisionsAreMonotone
INVARIANT SpansTellTheOutcome
INVARIANT SandboxesGetWhatWasGranted
PROPERTY ModelCallsSettle
CHECK_DEADLOCK FALSE
