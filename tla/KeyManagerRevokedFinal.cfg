SPECIFICATION Spec
CONSTANTS
  Keys = {k1, k2, k3}
  Handlers = {h1, h2}
  None = None
  MaxTime = 2
  Expiries = {0, 1}
  Graces = {0, 1}
  MaxFaults = 0
  InputGates = TRUE
SYMMETRY Symmetry
PROPERTY RevokedIsFinal
