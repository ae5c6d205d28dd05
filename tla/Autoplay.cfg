SPECIFICATION LiveSpec
CONSTANTS
  MaxWindows = 2
  Retries = 2
  ReloadAfter = 2
INVARIANTS
  PressAnswersItsWindow
  TenhouAnswersOnce
PROPERTIES
  HandlerReturns
