SPECIFICATION Spec
CONSTANTS
  Admins = {a1, a2}
  Handlers = {h1, h2, h3}
  None = None
SYMMETRY Symmetry
INVARIANTS
  TypeOK
  DeliveredComplete
  SetupAccounted
PROPERTY RevocationSettles
