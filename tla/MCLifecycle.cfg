\* Every call, two waiters, binds that fail, fair threads.
CONSTANTS
  Conns = {c1, c2}
  Waiters = {t1, t2}
  NBases = 2
  MaxStarts = 2
  MaxAdmins = 2
  BindFails = TRUE
SPECIFICATION FairSpec
INVARIANTS TypeOK StoppedIsStopped OnlyAdminDangles WorkersOfOneStart EndsForAReason
PROPERTIES NothingAcceptedOnceStopped CallsReturn
CHECK_DEADLOCK FALSE
