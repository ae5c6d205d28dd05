--------------------------- MODULE MCRiichiInject ---------------------------
(* Instance of RiichiInject for TLC: the tasks are interchangeable.          *)
EXTENDS RiichiInject, TLC

TaskSymmetry == Permutations(Tasks)
=============================================================================
