---------------------------- MODULE MCBotManager ----------------------------
(* Model values for BotManager: seats are interchangeable.                  *)
EXTENDS BotManager, TLC

SeatSymmetry == Permutations(Seats)
=============================================================================
