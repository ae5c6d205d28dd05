SPECIFICATION CaptureLiveSpec
CONSTANTS
  Callers = {c1, c2, c3}
  MaxRuns = 2
  StatusBusCap = 2
CHECK_DEADLOCK FALSE
INVARIANTS
  SlotNamesLiveRun
  QuietStatusIsFinal
PROPERTY StopsEnd
