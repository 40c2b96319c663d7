CONSTANTS
  Runs = {r1, r2}
  Calls = {c1, c2, c3}
  NoRun = NoRun
  MaxFaults = 1
  MaxCrashes = 1
SPECIFICATION Spec
INVARIANT AtMostOneOnboarded
INVARIANT OnboardedDemoIsWhole
PROPERTY OnboardingsEnd
CHECK_DEADLOCK FALSE
