SPECIFICATION FrontEndSpec
CONSTANTS
  Calls = {c1, c2, c3}
  Changeable = {"capture", "active", "overlay", "bot"}
  MaxCrashes = 1
  MaxOrders = 2
  Keys = {k1, k2}
  Records = {r1, r2}
  NoKey = NoKey
  MaxReviews = 2
  MaxSwitches = 2
  MaxRelaunches = 1
SYMMETRY Symmetry
CHECK_DEADLOCK FALSE
INVARIANTS
  
  
  ShownIsCurrent
  KeyIsKept
  
  
