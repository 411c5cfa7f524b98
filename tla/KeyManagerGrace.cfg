SPECIFICATION Spec
CONSTANTS
  Keys = {k1, k2, k3}
  Handlers = {h1}
  None = None
  MaxTime = 2
  Expiries = {0, 1}
  Graces = {1}
  MaxFaults = 0
  InputGates = TRUE
SYMMETRY Symmetry
INVARIANT GraceHonoured
