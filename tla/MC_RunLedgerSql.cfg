CONSTANTS
  Tenants = {"t1", "t2"}
  Runs = {"r1"}
  Keys = {"k1", "k2"}
  Branches = {"b1"}
  Sessions = {s1, s2}
  RunTenant <- MCRunTenant
  None = None
  Expectations <- MCExpectations
  MaxCalls = 2
SPECIFICATION Spec
PROPERTY WritersTakeTurns
PROPERTY ImplementsLedger
PROPERTY CallsReturn
CHECK_DEADLOCK FALSE
