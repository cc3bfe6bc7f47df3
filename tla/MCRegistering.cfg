\* A resource is added while its path is matched.
CONSTANTS
  Component <- MCComponent
  Variable = Variable
  NoResource = NoResource
  Templates <- LongTemplates
  Paths <- LongPaths
  MaxResources = 1
SPECIFICATION Spec
INVARIANTS MethodsComeAlong
CHECK_DEADLOCK FALSE
