----------------------------- MODULE TenhouBridge -----------------------------
(***************************************************************************)
(* TenhouBridge (src/src/bridge/tenhou): the frames a Tenhou server sends    *)
(* for a move, and what the bridge makes of each.  The wire speaks of seats  *)
(* relative to ours in a cycle of four, in sanma as well, where the fourth   *)
(* seat is a ghost.                                                         *)
(***************************************************************************)
EXTENDS Integers, Sequences, SequencesExt, MjaiView

(* ---- the server ---- *)
Rel(t, a) == (a + 4 - t.me) % 4
(* Four numbers in wire order, the ghost's being 0.                          *)
Four(t, f) == [r \in 0..3 |-> LET a == (r + t.me) % 4 IN IF a \in 0..(t.n - 1) THEN f[a] ELSE 0]
Passed(t, m) == IF m.accepts = Nobody THEN <<>> ELSE <<[tag |-> "REACH", who |-> Rel(t, m.accepts), step |-> 2]>>
DoraFrame == [tag |-> "DORA"]
DrawFrame(t) == [tag |-> "T", who |-> Rel(t, t.turn), tile |-> IF t.turn = t.me THEN Last(t.rack) ELSE 0]
(* The indicators the move before showed: the table shows them with a        *)
(* discard or a north, and of a closed kan at once.                          *)
Doras(before, t) == [i \in 1..(t.shown - before.shown) |-> DoraFrame]

Frames(before, t, m) ==
  CASE m.kind = "sit"  -> <<[tag |-> "TAIKYOKU", oya |-> Rel(t, 0)]>>
    [] m.kind = "deal" -> <<[tag |-> "INIT", opening |-> t.hands = 1, ten |-> Four(t, t.score), oya |-> Rel(t, t.oya),
                             hai |-> SubSeq(t.rack, 1, 13)], DrawFrame(t)>>
    [] m.kind = "draw" -> Passed(t, m) \o <<DrawFrame(t)>>
    [] m.kind = "discard" ->
         (IF m.riichi THEN <<[tag |-> "REACH", who |-> Rel(t, m.seat), step |-> 1]>> ELSE <<>>)
         \o Doras(before, t)
         \o <<[tag |-> "D", who |-> Rel(t, m.seat), tile |-> IF m.seat = t.me THEN CHOOSE x \in m.taken : TRUE ELSE 0,
               upper |-> m.giri, t |-> t.offer]>>
    [] m.kind \in {"call", "kan"} ->
         Passed(t, m)
         \o (IF m.call = "kita" THEN Doras(before, t) ELSE <<>>)
         \o <<[tag |-> "N", who |-> Rel(t, m.seat), kind |-> m.call, t |-> t.offer, exposed |-> m.taken,
               from |-> IF m.from = Nobody THEN 0 ELSE (m.from + 4 - m.seat) % 4]>>
         \o (IF m.call = "ankan" THEN Doras(before, t) ELSE <<>>)
    [] m.kind = "win" ->
         [i \in 1..Len(m.winners) |-> [tag |-> "AGARI", who |-> Rel(t, m.winners[i]), from |-> Rel(t, m.from),
                                       sc |-> Four(t, m.deltas[i]), owari |-> m.final /\ i = Len(m.winners)]]
    [] m.kind = "exhaust" ->
         Passed(t, m) \o <<[tag |-> "RYUUKYOKU", sc |-> Four(t, m.deltas[1]), owari |-> m.final]>>

(* ---- the bridge ---- *)
Fresh == [seat |-> 0, players |-> 4, is_3p |-> FALSE, pending_start |-> FALSE, hand |-> <<>>,
          is_tsumo |-> FALSE, window |-> FALSE]

rel_to_abs(b, rel) == (rel + b.seat) % 4
ghost(b, abs) == b.is_3p /\ abs = 3
Out(b, events) == [bridge |-> b, events |-> events]
Silent(b) == Out(b, <<>>)
(* Wire numbers in mjai order, without the ghost's.                          *)
by_seat(b, four) == [a \in 0..(b.players - 1) |-> four[(a + 4 - b.seat) % 4]]
without(hand, tiles) ==
  LET rest[i \in 0..Len(hand)] == IF i = 0 THEN <<>>
                                  ELSE IF hand[i] \in tiles THEN rest[i - 1] ELSE Append(rest[i - 1], hand[i])
  IN rest[Len(hand)]

on_taikyoku(b, f) ==
  Silent([b EXCEPT !.players = 4, !.is_3p = FALSE, !.seat = (4 - f.oya) % 4, !.pending_start = TRUE])

reset_for_kyoku(b) == [b EXCEPT !.hand = <<>>, !.is_tsumo = FALSE, !.window = FALSE]

on_init(b, f) ==
  LET sanma == f.opening /\ \E r \in 0..3 : f.ten[r] = 0
      c == [reset_for_kyoku(b) EXCEPT !.is_3p = @ \/ sanma, !.players = IF sanma THEN 3 ELSE @,
                                      !.hand = f.hai, !.pending_start = FALSE]
      kyoku == [Ev("start_kyoku", rel_to_abs(c, f.oya)) EXCEPT !.players = c.players, !.scores = by_seat(c, f.ten)]
      game == [Ev("start_game", c.seat) EXCEPT !.players = c.players]
  IN Out(c, IF b.pending_start THEN <<game, kyoku>> ELSE <<kyoku>>)

(* Mutant: another player's draw leaves our window open.                     *)
on_tsumo_keeps(b, f, actor) ==
  LET ours == actor = b.seat
  IN Out([b EXCEPT !.hand = IF ours THEN Append(@, f.tile) ELSE @, !.is_tsumo = @ \/ ours, !.window = @ \/ ours],
          <<Ev("tsumo", actor)>>)

on_tsumo(b, f, actor) ==
  LET ours == actor = b.seat
  IN Out([b EXCEPT !.hand = IF ours THEN Append(@, f.tile) ELSE @, !.is_tsumo = @ \/ ours, !.window = ours],
          <<Ev("tsumo", actor)>>)

on_dahai(b, f, actor) ==
  LET ours == actor = b.seat
      giri == IF ours THEN b.is_tsumo /\ Last(b.hand) = f.tile ELSE f.upper
  IN Out([b EXCEPT !.is_tsumo = FALSE, !.hand = IF ours THEN without(@, {f.tile}) ELSE @,
                    !.window = ~ours /\ f.t],
          <<[Ev("dahai", actor) EXCEPT !.giri = giri]>>)

on_meld(b, f, actor) ==
  LET ours == actor = b.seat
      target == CASE f.kind = "chi" -> (actor + 3) % 4
                  [] f.kind \in {"pon", "daiminkan"} -> (actor + f.from) % 4
                  [] OTHER -> actor
  IN Out([b EXCEPT !.is_tsumo = FALSE, !.hand = IF ours THEN without(@, f.exposed) ELSE @,
                    !.window = IF ours THEN f.kind \in {"chi", "pon"} ELSE f.t],
          <<[Ev(f.kind, actor) EXCEPT !.target = target]>>)

on_reach(b, f, actor) ==
  IF f.step = 1 THEN Out([b EXCEPT !.window = @ \/ actor = b.seat], <<Ev("reach", actor)>>)
  ELSE Out(b, <<Ev("reach_accepted", actor)>>)

ending(f) == <<Ev("end_kyoku", 0)>> \o (IF f.owari THEN <<Ev("end_game", 0)>> ELSE <<>>)

on_agari(b, f, actor) ==
  Out([b EXCEPT !.window = FALSE],
       <<[Ev("hora", actor) EXCEPT !.target = rel_to_abs(b, f.from), !.scores = by_seat(b, f.sc)]>> \o ending(f))

on_ryukyoku(b, f) ==
  Out([b EXCEPT !.window = FALSE], <<[Ev("ryukyoku", 0) EXCEPT !.scores = by_seat(b, f.sc)]>> \o ending(f))

Parse(b, f) ==
  LET actor == rel_to_abs(b, f.who)
      seated(result) == IF ghost(b, actor) THEN Silent(b) ELSE result
  IN CASE f.tag = "TAIKYOKU"  -> on_taikyoku(b, f)
       [] f.tag = "INIT"      -> on_init(b, f)
       [] f.tag = "T"         -> seated(on_tsumo(b, f, actor))
       [] f.tag = "D"         -> seated(on_dahai(b, f, actor))
       [] f.tag = "N"         -> seated(on_meld(b, f, actor))
       [] f.tag = "REACH"     -> seated(on_reach(b, f, actor))
       [] f.tag = "DORA"      -> Out(b, <<Ev("dora", 0)>>)
       [] f.tag = "AGARI"     -> seated(on_agari(b, f, actor))
       [] f.tag = "RYUUKYOKU" -> on_ryukyoku(b, f)
=============================================================================
