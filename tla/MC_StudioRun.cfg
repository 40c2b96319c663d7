CONSTANTS
  Runs = {r1, r2}
  LauncherRuns = {r1}
  StepCount = 2
  NoRecord = NoRecord
  MaxFaults = 2
  MaxCrashes = 1
SPECIFICATION Spec
PROPERTY EveryRunLeavesActive
INVARIANT HistoryComesFirst
INVARIANT RunsEndOnRecord
CHECK_DEADLOCK FALSE
