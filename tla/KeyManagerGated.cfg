SPECIFICATION Spec
CONSTANTS
  Keys = {k1, k2, k3}
  Handlers = {h1, h2}
  None = None
  MaxTime = 2
  Expiries = {1}
  Graces = {0}
  MaxFaults = 1
  InputGates = TRUE
SYMMETRY Symmetry
INVARIANTS
  IndexExact
  SignatureKept
  LinksResolve
  ActiveKeyFindable
  RotationRetiresOldKey
PROPERTIES
  LifecycleSpec
  RevocationOutlivesAllButRotation
  AcceptedKeyIsLive
