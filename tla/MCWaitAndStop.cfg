\* A thread waits while the owner stops the server.
CONSTANTS
  Conns = {}
  Waiters = {t1}
  NBases = 1
  MaxStarts = 1
  MaxAdmins = 0
  BindFails = FALSE
SPECIFICATION Spec
INVARIANTS WaitAndStopReturn
CHECK_DEADLOCK FALSE
