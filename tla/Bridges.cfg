SPECIFICATION Spec
CONSTANTS
  Seatings <- MCSeatings
  MaxMoves = 8
  MaxHands = 2
  MaxGames = 2
  MaxDora = 3
  Platforms = {"tenhou", "majsoul", "riichi_city"}
  Rejoins = 1
  RejoinBy = 5
  SanmaRejoins = FALSE
INVARIANTS ViewIsTheTable  ScoresFollowTheTable
PROPERTY StreamIsLegal
CHECK_DEADLOCK FALSE
