\* A connection is going on when the server is stopped.
CONSTANTS
  Conns = {c1}
  Waiters = {}
  NBases = 1
  MaxStarts = 1
  MaxAdmins = 0
  BindFails = FALSE
SPECIFICATION Spec
INVARIANTS OngoingCompletes
CHECK_DEADLOCK FALSE
