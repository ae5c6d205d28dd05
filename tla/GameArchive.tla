----------------------------- MODULE GameArchive -----------------------------
(***************************************************************************)
(* What the history store promises (src/src/history/store.rs), whatever     *)
(* fails: a game enters the archive once and leaves it by being removed, or *)
(* because a write that stopped half-way damaged its record; what has left  *)
(* never comes back.                                                        *)
(***************************************************************************)
CONSTANT Games

VARIABLES listing,   \* games that are listed and sound
          removed,   \* games that were deleted
          damaged    \* games whose record an interrupted write spoilt

archive == <<listing, removed, damaged>>

Init == listing = {} /\ removed = {} /\ damaged = {}

Add(g) ==
  /\ g \notin listing \cup removed \cup damaged
  /\ listing' = listing \cup {g}
  /\ UNCHANGED <<removed, damaged>>

Remove(g) ==
  /\ g \notin removed
  /\ listing' = listing \ {g} /\ removed' = removed \cup {g}
  /\ UNCHANGED damaged

Damage(D) ==
  /\ D \cap (removed \cup damaged) = {}
  /\ listing' = listing \ D /\ damaged' = damaged \cup D
  /\ UNCHANGED removed

Next == \/ \E g \in Games : Add(g) \/ Remove(g)
        \/ \E D \in SUBSET Games : Damage(D)

Spec == Init /\ [][Next]_archive
=============================================================================
