SPECIFICATION Spec
CONSTANTS
  Settings = {"key", "secret", "versioning", "supported", "format"}
  Secrets = {"key", "secret"}
  WithDefault = {"versioning", "supported"}
  Nameable = {"key", "secret", "versioning", "supported", "format"}
  WithLegacy = {"secret", "versioning", "supported"}
  ValueOf <- MCValueOf
  Segments <- MCSegments
  Asked <- MCAsked
  Extra <- MCExtra
  ScopeSets <- MCScopeSets
  None = None
INVARIANTS
  TypeOK
  LayersRespected
  AnswerJustified
PROPERTY StableRoutes
