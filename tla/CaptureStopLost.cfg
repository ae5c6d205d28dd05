SPECIFICATION CaptureLiveSpec
CONSTANTS
  Callers = {c1}
  MaxRuns = 2
  StatusBusCap = 2
CHECK_DEADLOCK FALSE
PROPERTY SentLeadsToExit
