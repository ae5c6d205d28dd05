SPECIFICATION InjectSpec
CONSTANTS
  MaxOffers = 2
  MaxHands = 2
  MaxPlayer = 1
  Tasks = {t1, t2}
  Resends = 1
  MailCap = 1
  NetCap = 1
SYMMETRY TaskSymmetry
CHECK_DEADLOCK FALSE
INVARIANTS
  FirstFrameAnswersItsDecision
  QuietHandAdvanced
