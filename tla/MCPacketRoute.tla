----------------------------- MODULE MCPacketRoute -----------------------------
(* Instance of PacketRoute for TLC: the addresses are interchangeable.       *)
EXTENDS PacketRoute, TLC

ClientSymmetry == Permutations(Clients)
=============================================================================
