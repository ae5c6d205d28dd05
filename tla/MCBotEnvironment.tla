--------------------------- MODULE MCBotEnvironment ---------------------------
(* Instance of BotEnvironment for TLC: the tasks are interchangeable.         *)
EXTENDS BotEnvironment, TLC

JobSymmetry == Permutations(Jobs)
=============================================================================
