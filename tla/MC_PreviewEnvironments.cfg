CONSTANTS
  Envs = {e1}
  Calls = {c1, c2, c3, c4}
  Keys = {k1}
  Digests = {d1, d2}
  None = None
  MaxVersion = 1
  MaxFaults = 1
SYMMETRY MCSymmetry
SPECIFICATION Spec
INVARIANT AnswersStand
PROPERTY EndsAreClean
CHECK_DEADLOCK FALSE
