---------------------------- MODULE MajsoulBridge ----------------------------
(***************************************************************************)
(* MajsoulBridge (src/src/bridge/majsoul): the messages a Majsoul server     *)
(* sends for a move, and what the bridge makes of each.  A message carries   *)
(* the whole list of dora indicators, of which only the length is kept, and  *)
(* says whether an operation list is addressed to us: that opens our         *)
(* decision window.  A client that joins a running game is sent the actions  *)
(* of the hand so far in one response.                                      *)
(***************************************************************************)
EXTENDS Integers, Sequences, SequencesExt, MjaiView

(* ---- the server ---- *)
Action(name, t, seat) == [type |-> "action", name |-> name, seat |-> seat, doras |-> t.shown,
                          op |-> t.offer \/ (t.stage = "act" /\ t.turn = t.me),
                          scores |-> <<>>, moqie |-> FALSE, liqi |-> FALSE, kind |-> "none", from |-> Nobody,
                          hules |-> <<>>, zimo |-> FALSE, deltas |-> <<>>]
Join(t) == <<[type |-> "authGame", seat |-> t.me, players |-> t.n]>>

(* early: the indicator of an added or open kan comes with the rinshan draw  *)
(* already, not with the tile given up after it.                             *)
Frames(before, t, m, early) ==
  CASE m.kind = "sit"  -> Join(t)
    [] m.kind = "deal" -> <<[Action("NewRound", t, t.oya) EXCEPT !.doras = 1, !.scores = t.score]>>
    [] m.kind = "draw" -> <<[Action("DealTile", t, t.turn) EXCEPT !.doras = @ + (IF early THEN t.due ELSE 0)]>>
    [] m.kind = "discard" -> <<[Action("DiscardTile", t, m.seat) EXCEPT !.moqie = m.giri, !.liqi = m.riichi]>>
    [] m.kind = "call" -> <<[Action("ChiPengGang", t, m.seat) EXCEPT !.kind = m.call, !.from = m.from]>>
    [] m.kind = "kan" /\ m.call = "kita" -> <<Action("BaBei", t, m.seat)>>
    [] m.kind = "kan" /\ m.call # "kita" ->
         <<[Action("AnGangAddGang", before, m.seat) EXCEPT !.op = t.offer, !.kind = m.call]>>
    [] m.kind = "win"  ->
         <<[Action("Hule", t, 0) EXCEPT !.hules = m.winners, !.zimo = m.winners = <<m.from>>, !.deltas = m.total]>>
    [] m.kind = "exhaust" ->
         <<IF m.call = "wall" THEN [Action("NoTile", t, 0) EXCEPT !.deltas = m.total] ELSE Action("LiuJu", t, 0)>>
    [] m.kind = "terminate" -> <<[type |-> "NotifyGameTerminate"]>>

(* The last hand of a game is followed by its result.                        *)
Result(t, m) == IF m.final THEN <<[type |-> "NotifyGameEndResult", scores |-> t.score]>> ELSE <<>>

(* ---- the bridge ---- *)
Fresh == [seat |-> Nobody, players |-> 4, doras |-> 0, timing |-> "none", deferred |-> 0,
          pending_reach |-> Nobody, revealed |-> Nobody, replaying |-> FALSE,
          restore_window |-> FALSE, window |-> FALSE]

Out(b, events) == [bridge |-> b, events |-> events]
Times(k, e) == [i \in 1..k |-> e]
DoraEvents(k) == Times(k, Ev("dora", 0))

(* How many indicators the message adds to those reported so far.            *)
new_doras(b, f) == IF f.doras > b.doras THEN f.doras - b.doras ELSE 0

consumed(b, f) == [b EXCEPT !.doras = @ + new_doras(b, f)]

handle_auth_game_response(b, f) ==
  Out([b EXCEPT !.seat = f.seat, !.players = f.players, !.window = FALSE],
      <<[Ev("start_game", f.seat) EXCEPT !.players = f.players]>>)

update_time_budget(b, f) ==
  IF b.seat = Nobody THEN b
  ELSE LET open == f.op /\ f.name \in {"NewRound", "DealTile", "DiscardTile", "ChiPengGang", "AnGangAddGang", "BaBei"}
       IN IF b.replaying THEN [b EXCEPT !.restore_window = open] ELSE [b EXCEPT !.window = open]

build_start_kyoku(b, f) ==
  Out([b EXCEPT !.doras = 1, !.timing = "none", !.deferred = 0, !.revealed = Nobody, !.pending_reach = Nobody],
      <<[Ev("start_kyoku", f.seat) EXCEPT !.players = b.players, !.scores = f.scores], Ev("tsumo", f.seat)>>)

build_tsumo(b, f) ==
  LET k == new_doras(b, f)
      c == [consumed(b, f) EXCEPT !.timing = "none"]
      drawn == <<Ev("tsumo", f.seat)>>
  IN IF b.timing = "after" THEN Out([c EXCEPT !.deferred = @ + k], drawn)
     ELSE Out(c, DoraEvents(k) \o drawn)

(* Mutant: the riichi is declared after the tile.                            *)
build_dahai_late(b, f) ==
  Out([consumed(b, f) EXCEPT !.deferred = 0, !.revealed = f.seat,
                             !.pending_reach = IF f.liqi THEN f.seat ELSE @],
      DoraEvents(b.deferred + new_doras(b, f))
      \o <<[Ev("dahai", f.seat) EXCEPT !.giri = f.moqie]>>
      \o (IF f.liqi THEN <<Ev("reach", f.seat)>> ELSE <<>>))

build_dahai(b, f) ==
  Out([consumed(b, f) EXCEPT !.deferred = 0, !.revealed = f.seat,
                             !.pending_reach = IF f.liqi THEN f.seat ELSE @],
      DoraEvents(b.deferred + new_doras(b, f))
      \o (IF f.liqi THEN <<Ev("reach", f.seat)>> ELSE <<>>)
      \o <<[Ev("dahai", f.seat) EXCEPT !.giri = f.moqie]>>)

build_chi_peng_gang(b, f) ==
  IF f.kind = "chi" /\ b.players = 3 THEN Out(b, <<>>)
  ELSE Out([b EXCEPT !.timing = IF f.kind = "daiminkan" THEN "after" ELSE @],
           <<[Ev(f.kind, f.seat) EXCEPT !.target = f.from]>>)

build_an_gang_add_gang(b, f) ==
  LET k == new_doras(b, f)
      c == [consumed(b, f) EXCEPT !.revealed = f.seat]
      kan == <<Ev(f.kind, f.seat)>>
  IN IF f.kind = "kakan" THEN Out([c EXCEPT !.timing = "after", !.deferred = @ + k], kan)
     ELSE Out([c EXCEPT !.timing = IF k = 0 THEN "before" ELSE @], kan \o DoraEvents(k))

build_kita(b, f) ==
  Out([consumed(b, f) EXCEPT !.deferred = 0, !.revealed = f.seat],
      DoraEvents(b.deferred + new_doras(b, f)) \o <<Ev("kita", f.seat)>>)

build_hule(b, f) ==
  Out(b, [i \in 1..Len(f.hules) |->
            [Ev("hora", f.hules[i]) EXCEPT !.target = IF f.zimo THEN f.hules[i] ELSE b.revealed, !.scores = f.deltas]]
         \o <<Ev("end_kyoku", 0)>>)

build_no_tile(b, f) == Out(b, <<[Ev("ryukyoku", 0) EXCEPT !.scores = f.deltas], Ev("end_kyoku", 0)>>)
build_liu_ju(b) == Out(b, <<Ev("ryukyoku", 0), Ev("end_kyoku", 0)>>)

build(b, f) ==
  CASE f.name = "NewRound"      -> build_start_kyoku(b, f)
    [] f.name = "DealTile"      -> build_tsumo(b, f)
    [] f.name = "DiscardTile"   -> build_dahai(b, f)
    [] f.name = "ChiPengGang"   -> build_chi_peng_gang(b, f)
    [] f.name = "AnGangAddGang" -> build_an_gang_add_gang(b, f)
    [] f.name = "NoTile"        -> build_no_tile(b, f)
    [] f.name = "LiuJu"         -> build_liu_ju(b)
    [] f.name = "Hule"          -> build_hule(b, f)
    [] f.name = "BaBei"         -> build_kita(b, f)

(* A declared riichi is accepted by the first message that is no win on the  *)
(* declaration tile.                                                        *)
Drains(f) == f.name \notin {"Hule", "DiscardTile"}

handle_action_prototype(b, f) ==
  LET c == update_time_budget(b, f)
      drained == Drains(f) /\ c.pending_reach # Nobody
      result == build([c EXCEPT !.pending_reach = IF f.name = "DiscardTile" THEN @ ELSE Nobody], f)
  IN IF drained THEN [result EXCEPT !.events = <<Ev("reach_accepted", c.pending_reach)>> \o @] ELSE result

handle_game_restore(b, f) ==
  LET played[i \in 0..Len(f.actions)] ==
        IF i = 0 THEN Out([b EXCEPT !.replaying = TRUE, !.restore_window = FALSE], <<>>)
        ELSE LET s == handle_action_prototype(played[i - 1].bridge, f.actions[i])
             IN Out(s.bridge, played[i - 1].events \o s.events)
      r == played[Len(f.actions)]
      c == r.bridge
  IN IF f.actions = <<>> THEN Out(b, <<>>)
     ELSE Out([c EXCEPT !.replaying = FALSE, !.window = c.restore_window, !.restore_window = FALSE], r.events)

Parse(b, f) ==
  CASE f.type = "authGame"  -> handle_auth_game_response(b, f)
    [] f.type = "syncGame"  -> handle_game_restore(b, f)
    [] f.type = "action"    -> handle_action_prototype(b, f)
    [] f.type = "NotifyGameEndResult" ->
         Out([b EXCEPT !.window = FALSE], <<[Ev("end_game", 0) EXCEPT !.scores = f.scores]>>)
    [] f.type = "NotifyGameTerminate" -> Out([b EXCEPT !.window = FALSE], <<Ev("end_game", 0)>>)
=============================================================================
