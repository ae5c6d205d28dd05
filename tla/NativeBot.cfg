SPECIFICATION NativeSpec
CONSTANTS
  Settings = {"a"}
  MaxWait = 4
  MaxChanges = 2
  MaxOutages = 2
  MaxRetries = 2
  MaxGames = 2
  MaxToasts = 2
CHECK_DEADLOCK FALSE
INVARIANTS
  OutageShownIsKnown
  RetryIsHonoured
PROPERTIES
  ServerIsUsedAgain
