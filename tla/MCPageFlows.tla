----------------------------- MODULE MCPageFlows -----------------------------
(* Instance of PageFlows for TLC: tabs and sockets are interchangeable.      *)
EXTENDS PageFlows, TLC

Symmetry == Permutations(Tabs) \cup Permutations(Sockets)
=============================================================================
