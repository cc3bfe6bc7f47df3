\* Three connections to two instances on four workers, with resets, and a counter of
\* eight values.
CONSTANTS
  Conns = {c1, c2, c3}
  Instances = {"app", "admin"}
  NBases = 4
  IntMax = 3
  SizeValues = 8
  Faults = {"reset"}
  Token <- MCToken
  Conversations <- Silence
  Resources <- MCResources
SPECIFICATION Spec
INVARIANTS RoundRobin
SYMMETRY ConnSymmetry
CHECK_DEADLOCK FALSE
