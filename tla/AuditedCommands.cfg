SPECIFICATION Spec
CONSTANTS
  Admins = {a1, a2}
  Targets = {t1}
  LogIds = {l1, l2}
  Handlers = {h1, h2}
  None = None
  MaxDay = 2
  MaxFaults = 1
SYMMETRY Symmetry
INVARIANTS
  TypeOK
  IndexesResolve
  AnsweredIsLogged
  UnloggedNeedsFault
