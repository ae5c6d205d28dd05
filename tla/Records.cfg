SPECIFICATION RecordsSpec
CONSTANTS
  MaxId = 4
  MaxRequests = 3
  Addresses = {h1, h2}
  MaxExchanges = 4
  MaxGames = 2
  MaxRounds = 3
  HandLen = 2
  MaxLeaves = 2
  BusCap = 4
  BufCap = 10
  Workers = {w1, w2}
  Games = {g1, g2, g3}
  Faults = {"crash", "io_error", "torn"}
CHECK_DEADLOCK FALSE
INVARIANTS
  OneSequence
  SendersAreToldApart
  AnsweredUnderOwn
  RecordsAreWhole
  
  
 
