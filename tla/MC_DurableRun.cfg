CONSTANTS
  Nodes = {1, 2, 3, 4}
  Upstream <- MCUpstream
  WaitNodes = {3}
  ApprovalNodes = {2}
  SideEffectNodes = {1, 4}
  Operation <- MCOperation
  MaxAttempts <- MCMaxAttempts
SPECIFICATION Spec
INVARIANT SinksTellTheRun
INVARIANT ApprovalsGateExecution
INVARIANT ExecutionsWithinBudget
PROPERTY CancelledStartsNothing
PROPERTY ImplementsDagRun
PROPERTY RunSettles
CHECK_DEADLOCK FALSE
