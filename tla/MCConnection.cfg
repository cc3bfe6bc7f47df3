\* One request of every kind and two in a row, cut in every way, with every fault
\* a client may make, on fair event loops.
CONSTANTS
  Conns = {c1}
  Instances = {"app", "admin"}
  NBases = 1
  IntMax = 0
  SizeValues = 2
  Faults = {"truncate", "garbage", "reset"}
  Token <- MCToken
  Conversations <- EachAndInARow
  Resources <- MCResources
SPECIFICATION FairSpec
INVARIANTS TypeOK FirstRequestDispatchedAsSent OrphansNeverBegan NoUseAfterFree
PROPERTIES KeepsContract ServedIsReleased BrokenOffIsReleased HalfCloseIsAnswered
CHECK_DEADLOCK FALSE
