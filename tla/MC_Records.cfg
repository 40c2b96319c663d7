CONSTANTS
  Contents = {c1, c2}
  Uploads = {u1, u2, u3}
  CacheKeys = {q1}
  Absent = Absent
  Damaged = Damaged
  Partial = Partial
  MaxPuts = 1
  t1 = t1
  t2 = t2
  a1 = a1
  a2 = a2
  a3 = a3
  a4 = a4
  a5 = a5
  h1 = h1
  h2 = h2
  h3 = h3
  Tenants = {t1, t2}
  ArtifactIds = {a1, a2, a3, a4, a5}
  RunIds = {r1}
  EventKeys = {k1, k2}
  SecretKeys = {k2}
  BundleIds = {b1}
  TenantOf <- MCTenantOf
  HashOf <- MCHashOf
  MaxRecords = 4
  Unread = Unread
  Approvals = {p1}
  CostLimit = 1
  MaxLogLength = 5
  Workflows <- MCWorkflows
  NodeEdits <- MCNodeEdits
  EdgeEdits <- MCEdgeEdits
  Contracts <- MCContracts
  MaxNodes = 4
SPECIFICATION Spec
INVARIANT AcknowledgedAreServed
INVARIANT LineageIsAnOrder
INVARIANT BackupsRestoreFaithfully
INVARIANT RetentionLeavesAWhole
INVARIANT CommandsMatchTheLog
INVARIANT DocumentsCanBeRun
INVARIANT ChangesAccountForEdits
INVARIANT FollowsSimulation
INVARIANT StallsOnlyOnCycles
CHECK_DEADLOCK FALSE
