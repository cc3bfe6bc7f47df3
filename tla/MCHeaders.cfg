\* The last header of a request does not reach the handler.
CONSTANTS
  Conns = {c1}
  Instances = {"app"}
  NBases = 1
  IntMax = 0
  SizeValues = 2
  Faults = {}
  Token <- MCToken
  Conversations <- EachRequest
  Resources <- MCResources
SPECIFICATION Spec
INVARIANTS HeadersAvailable
CHECK_DEADLOCK FALSE
