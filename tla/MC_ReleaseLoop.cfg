CONSTANTS
  FindingIds = {1, 2, 3, 4}
  HarnessFailure = 2
  PolicyFailure = 3
  GateIds = {"build", "e2e"}
  EvidenceIds = {"report"}
  Paths = {"src"}
  Contents = {c0, c1}
  Verifiers = {v1}
  Branches = {main, b1, b2}
  RequiredGates = {"build"}
  MaxBlocking = 0
  MaxRounds = 2
  MaxRepeatedFinding = 1
  Main = main
  Outputs <- MCOutputs
  RequiredOf <- MCRequiredOf
  Promoters = {p1, p2}
  Careless = {p2}
  NoBundle = NoBundle
  MaxGeneration = 2
SYMMETRY MCSymmetry
SPECIFICATION Spec
INVARIANT ReleasesWithinLimits
PROPERTY CarefulNeverRegresses
CHECK_DEADLOCK FALSE
