SPECIFICATION PageSpec
CONSTANTS
  Tabs = {t1, t2}
  Sockets = {s1, s2}
  NoFlow = NoFlow
  MaxFrames = 2
SYMMETRY Symmetry
CHECK_DEADLOCK FALSE
INVARIANTS
  
  OneBridge
