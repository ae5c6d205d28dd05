SPECIFICATION ManagerLiveSpec
CONSTANTS
  Seats = {s1, s2}
  MaxEvents = 5
  PostCap = 2
CHECK_DEADLOCK FALSE
INVARIANTS
  LineInStep
  ResolvedReachOnce
  DropOnlyRepeats
  FeedIsComplete
PROPERTY ManagerReturns
