\* A second request on a connection is built on top of the first.
CONSTANTS
  Conns = {c1}
  Instances = {"app"}
  NBases = 1
  IntMax = 0
  SizeValues = 2
  Faults = {}
  Token <- MCToken
  Conversations <- InARow
  Resources <- MCResources
SPECIFICATION Spec
INVARIANTS InvokedWithItsPath
CHECK_DEADLOCK FALSE
