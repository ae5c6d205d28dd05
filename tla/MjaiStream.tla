------------------------------ MODULE MjaiStream ------------------------------
(***************************************************************************)
(* What every consumer of the MjaiBus relies on: a stream of mjai events in  *)
(* which each event may follow the ones before it.  The three bridges are    *)
(* shown to produce such a stream (Bridges).                                 *)
(***************************************************************************)
EXTENDS MjaiView

VARIABLE view

(* The specification: one legal event after another.  Scores, and the player *)
(* number of a start_kyoku, do not change a view.                            *)
Says(e) == Legal(view, e) /\ view' = After(view, e)

Init == view = NoView
Next ==
  \/ \E n \in {3, 4}, s \in 0..3 : Says([Ev("start_game", s) EXCEPT !.players = n])
  \/ \E a \in 0..3 : Says([Ev("start_kyoku", a) EXCEPT !.players = view.players])
  \/ \E a \in 0..3, g \in BOOLEAN : Says([Ev("dahai", a) EXCEPT !.giri = g])
  \/ \E a \in 0..3, type \in {"tsumo", "reach", "reach_accepted"} \cup OwnKans : Says(Ev(type, a))
  \/ \E a, t \in 0..3, type \in {"hora"} \cup Calls : Says([Ev(type, a) EXCEPT !.target = t])
  \/ \E type \in {"dora", "ryukyoku", "end_kyoku", "end_game"} : Says(Ev(type, 0))

Spec == Init /\ [][Next]_view
=============================================================================
