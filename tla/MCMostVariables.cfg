\* Resources that fit the same path of three components.
CONSTANTS
  Component <- MCComponent
  Variable = Variable
  NoResource = NoResource
  Templates <- LongTemplates
  Paths <- LongPaths
  MaxResources = 2
SPECIFICATION Spec
INVARIANTS MostVariablesFirst
CHECK_DEADLOCK FALSE
