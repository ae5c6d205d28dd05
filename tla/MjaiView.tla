------------------------------- MODULE MjaiView -------------------------------
(***************************************************************************)
(* The mjai events (src/src/schema/mjai/mod.rs) and what a reader of the     *)
(* stream knows of the table: src/src/game_state/tracker.rs hands the events *)
(* to the riichi engine, src/src/history/aggregator.rs folds them.           *)
(*                                                                         *)
(* Seats are 0, 1, 2 and in yonma 3.  Tiles are left out.  A view records    *)
(* who holds the turn and whether he drew for it, who draws next, whose tile *)
(* lies open, a riichi that is declared and not accepted, the number of dora *)
(* indicators, and whom the last win was taken from.                         *)
(***************************************************************************)
EXTENDS Naturals, Sequences

Nobody == 9
Calls == {"chi", "pon", "daiminkan"}
OwnKans == {"ankan", "kakan", "kita"}

NoView == [phase |-> "off", players |-> 0, seat |-> Nobody, holder |-> Nobody, drew |-> FALSE,
           next |-> Nobody, floor |-> Nobody, claimable |-> FALSE, reach |-> Nobody,
           accepted |-> {}, dora |-> 0, giri |-> FALSE, target |-> Nobody]

(* An event; the fields a kind of event does not have keep the default.  A   *)
(* start_kyoku carries the scores, a hora or ryukyoku the changes, an        *)
(* end_game the final scores if the platform tells them.                     *)
Ev(type, actor) == [type |-> type, actor |-> actor, target |-> actor, giri |-> FALSE,
                    players |-> 0, scores |-> <<>>]

InPlay(v) == v.phase = "hand"
Free(v) == InPlay(v) /\ v.holder = Nobody /\ v.reach = Nobody
Holds(v, a) == InPlay(v) /\ v.holder = a

(* May event e come next?  A start_game may always come: a client joins, or  *)
(* joins again.  A hand that several players win is won once for each, and   *)
(* may be ended once for each.                                               *)
Legal(v, e) ==
  CASE e.type = "start_game"   -> TRUE
    [] e.type = "start_kyoku"  -> v.phase \in {"game", "ended"} /\ e.players = v.players
    [] e.type = "tsumo"        -> Free(v) /\ e.actor = v.next
    [] e.type = "reach"        -> /\ Holds(v, e.actor) /\ v.drew
                                  /\ v.reach = Nobody /\ e.actor \notin v.accepted
    [] e.type = "dahai"        -> Holds(v, e.actor) /\ v.reach \in {Nobody, e.actor}
    [] e.type = "reach_accepted" -> InPlay(v) /\ v.holder = Nobody /\ v.reach = e.actor
    [] e.type \in Calls        -> Free(v) /\ v.claimable /\ e.target = v.floor /\ e.actor # v.floor
    [] e.type \in OwnKans      -> Holds(v, e.actor) /\ v.drew /\ v.reach = Nobody
    [] e.type = "dora"         -> InPlay(v)
    [] e.type = "hora"         -> v.phase \in {"hand", "won", "ended"} /\ (v.drew \/ v.holder = Nobody)
    [] e.type = "ryukyoku"     -> InPlay(v) /\ (v.drew \/ Free(v))
    [] e.type = "end_kyoku"    -> v.phase = "won"
    [] e.type = "end_game"     -> v.phase # "off"

(* What its reader knows after it.                                          *)
After(v, e) ==
  CASE e.type = "start_game"   -> [NoView EXCEPT !.phase = "game", !.players = e.players,
                                                 !.seat = e.actor]
    [] e.type = "start_kyoku"  -> [NoView EXCEPT !.phase = "hand", !.players = v.players,
                                                 !.seat = v.seat, !.next = e.actor, !.dora = 1]
    [] e.type = "tsumo"        -> [v EXCEPT !.holder = e.actor, !.drew = TRUE, !.next = Nobody,
                                            !.floor = Nobody, !.claimable = FALSE]
    [] e.type = "reach"        -> [v EXCEPT !.reach = e.actor]
    [] e.type = "dahai"        -> [v EXCEPT !.holder = Nobody, !.drew = FALSE, !.floor = e.actor,
                                            !.claimable = TRUE, !.giri = e.giri,
                                            !.next = (e.actor + 1) % v.players]
    [] e.type = "reach_accepted" -> [v EXCEPT !.reach = Nobody, !.accepted = @ \cup {e.actor}]
    [] e.type \in Calls        -> LET rinshan == e.type = "daiminkan"
                                  IN [v EXCEPT !.claimable = FALSE, !.floor = Nobody,
                                               !.holder = IF rinshan THEN Nobody ELSE e.actor,
                                               !.next = IF rinshan THEN e.actor ELSE Nobody]
    [] e.type \in OwnKans      -> [v EXCEPT !.holder = Nobody, !.drew = FALSE, !.floor = e.actor,
                                            !.next = e.actor]
    [] e.type = "dora"         -> [v EXCEPT !.dora = @ + 1]
    [] e.type = "hora"         -> [v EXCEPT !.phase = "won", !.target = e.target]
    [] e.type = "ryukyoku"     -> [v EXCEPT !.phase = "won"]
    [] e.type = "end_kyoku"    -> [v EXCEPT !.phase = "ended"]
    [] e.type = "end_game"     -> NoView
=============================================================================
