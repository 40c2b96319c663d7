CONSTANTS
  Runs = {r1, r2}
  LauncherRuns = {r1}
  StepCount = 2
  NoRecord = NoRecord
  MaxFaults = 2
  MaxCrashes = 1
SPECIFICATION Spec
INVARIANT SingleActiveRun
CHECK_DEADLOCK FALSE
