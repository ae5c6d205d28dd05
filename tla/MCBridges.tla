------------------------------ MODULE MCBridges ------------------------------
(* Model-checking definitions for Bridges: a three-player table and one of four. *)
EXTENDS Bridges

MCSeatings == {[n |-> 3, me |-> 1, shift |-> 2], [n |-> 4, me |-> 2, shift |-> 1]}
=============================================================================
