\* Any three templates, and the paths they fit, matched while they are added.
CONSTANTS
  Component <- MCComponent
  Variable = Variable
  NoResource = NoResource
  Templates <- AllTemplates
  Paths <- AllPaths
  MaxResources = 3
SPECIFICATION Spec
INVARIANTS TypeOK MatchedFits RegisteredOnce BestIsReturned ClearedChildrenFirst
CHECK_DEADLOCK FALSE
