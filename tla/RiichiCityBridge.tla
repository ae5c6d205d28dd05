--------------------------- MODULE RiichiCityBridge ---------------------------
(***************************************************************************)
(* RiichiCityBridge (src/src/bridge/riichi_city): the messages a Riichi City *)
(* server sends for a move, and what the bridge makes of each.  The wire     *)
(* names players by user id; here an id is the player's place in the room.   *)
(* Whether a tile given up is the one just drawn is read off its place in    *)
(* the rack, whose size follows from the number of melds.                    *)
(***************************************************************************)
EXTENDS Integers, Sequences, SequencesExt, MjaiView

(* ---- the server ---- *)
Uid(t, a) == (a + t.shift) % t.n
ByUid(t, f) == [u \in 0..(t.n - 1) |-> f[(u + t.n - t.shift) % t.n]]
Act(t, m, action) == [cmd |-> "cmd_game_action_brc", user |-> Uid(t, m.seat), action |-> action,
                      slot |-> 0, li_zhi |-> FALSE]
Prompt(in_card) == <<[cmd |-> "cmd_send_current_action", in_card |-> in_card]>>
Offer(t) == IF t.offer THEN <<[cmd |-> "cmd_send_other_action"]>> ELSE <<>>
Rack(t, a) == 13 - 3 * t.melds[a] + 1

Frames(before, t, m) ==
  CASE m.kind = "sit"  -> <<[cmd |-> "auth", uid |-> Uid(t, t.me)],
                            [cmd |-> "cmd_enter_room", list |-> [i \in 1..t.n |-> i - 1], room |-> t.games]>>
    [] m.kind = "deal" -> <<[cmd |-> "cmd_game_start", dealer |-> Uid(t, t.oya), points |-> ByUid(t, t.score),
                             cards |-> Len(t.rack)]>>
    [] m.kind = "draw" ->
         (IF m.call \notin {"none", "kita"} THEN <<[cmd |-> "cmd_gang_bao_brc"]>> ELSE <<>>)
         \o (IF m.seat = t.me THEN Prompt(TRUE) ELSE <<[cmd |-> "cmd_in_card_brc", user |-> Uid(t, m.seat)]>>)
    [] m.kind = "discard" ->
         <<[Act(t, m, "dahai") EXCEPT !.li_zhi = m.riichi, !.slot = Rack(t, m.seat) - (IF m.last THEN 0 ELSE 1)]>> \o Offer(t)
    [] m.kind = "call" ->
         <<Act(t, m, m.call)>> \o (IF m.call # "daiminkan" /\ m.seat = t.me THEN Prompt(FALSE) ELSE <<>>)
    [] m.kind = "kan"  -> <<Act(t, m, m.call)>> \o Offer(t)
    [] m.kind = "win"  ->
         <<Act(t, m, "win"),
           [cmd |-> "cmd_game_end", tsumo |-> m.winners = <<m.from>>, profit |-> ByUid(t, m.total),
            winners |-> [i \in 1..Len(m.winners) |-> Uid(t, m.winners[i])]]>>
    [] m.kind = "exhaust" ->
         <<[cmd |-> "cmd_game_end", tsumo |-> FALSE, profit |-> ByUid(t, m.total), winners |-> <<>>]>>

Result(t, m) == IF m.final THEN <<[cmd |-> "cmd_room_end"]>> ELSE <<>>

(* ---- the bridge ---- *)
NoStatus == [seat |-> 0, list |-> <<>>, players |-> 4, shift |-> 0, room |-> 0, last_dahai |-> Nobody,
             drawn_by |-> Nobody, melds |-> [a \in 0..3 |-> 0], pending_reach |-> Nobody,
             pending_dora |-> 0, owes_start |-> FALSE]
Fresh == [status |-> NoStatus, uid |-> 0, window |-> FALSE]

Out(b, events) == [bridge |-> b, events |-> events]
actor_of(s, user) == (CHOOSE i \in 1..Len(s.list) : s.list[i] = user) - 1
by_actor(s, f) == [a \in 0..(s.players - 1) |-> f[s.list[a + 1]]]
rotate_left(list, mid) == SubSeq(list, mid + 1, Len(list)) \o SubSeq(list, 1, mid)

(* A deferred riichi acceptance goes out with the next message.              *)
flushed(b) == [b EXCEPT !.status.pending_reach = Nobody]
flush_pending_reach(b) ==
  IF b.status.pending_reach = Nobody THEN <<>> ELSE <<Ev("reach_accepted", b.status.pending_reach)>>

on_enter_room(b, f) ==
  IF b.status.room = f.room /\ b.status.list # <<>> THEN Out(b, <<>>)
  ELSE Out([b EXCEPT !.status = [NoStatus EXCEPT !.owes_start = TRUE, !.players = Len(f.list),
                                                 !.list = f.list, !.room = f.room]], <<>>)

resolve_seat(b, f) ==
  LET list == rotate_left(b.status.list, f.dealer % Len(b.status.list))
      s == [b.status EXCEPT !.list = list]
  IN [s EXCEPT !.seat = actor_of(s, b.uid), !.shift = f.dealer, !.owes_start = FALSE]

on_game_start(b, f) ==
  LET s == IF b.status.owes_start THEN resolve_seat(b, f) ELSE b.status
      oya == (f.dealer - s.shift) % s.players
      first == IF f.cards = 14 THEN s.seat ELSE oya
      game == IF b.status.owes_start THEN <<[Ev("start_game", s.seat) EXCEPT !.players = s.players]>> ELSE <<>>
  IN Out([b EXCEPT !.status = [s EXCEPT !.pending_dora = 0, !.pending_reach = Nobody,
                                        !.melds = [a \in 0..3 |-> 0], !.drawn_by = first]],
         game \o <<[Ev("start_kyoku", oya) EXCEPT !.players = s.players, !.scores = by_actor(s, f.points)],
                   Ev("tsumo", first)>>)

on_in_card_brc(b, f) ==
  LET actor == actor_of(b.status, f.user)
  IN Out([flushed(b) EXCEPT !.status.drawn_by = actor], flush_pending_reach(b) \o <<Ev("tsumo", actor)>>)

on_send_current_action(b, f) ==
  IF ~f.in_card THEN Out(flushed(b), flush_pending_reach(b))
  ELSE Out([flushed(b) EXCEPT !.status.drawn_by = b.status.seat],
           flush_pending_reach(b) \o <<Ev("tsumo", b.status.seat)>>)

(* Mutant: a closed kan is not counted.                                      *)
countedNoAnkan(s, actor, action) ==
  IF action \in {"chi", "pon", "daiminkan"} THEN [s EXCEPT !.melds[actor] = @ + 1] ELSE s

(* Chi, pon, open and closed kan shrink the caller's rack by one set.        *)
counted(s, actor, action) ==
  IF action \in {"chi", "pon", "daiminkan", "ankan"} THEN [s EXCEPT !.melds[actor] = @ + 1] ELSE s

discarded(b, f, actor) ==
  LET s == b.status
      giri == s.drawn_by = actor /\ f.slot = 13 - 3 * s.melds[actor] + 1
  IN Out([b EXCEPT !.status.drawn_by = Nobody, !.status.last_dahai = actor, !.status.pending_dora = 0,
                   !.status.pending_reach = IF f.li_zhi THEN actor ELSE @],
         (IF f.li_zhi THEN <<Ev("reach", actor)>> ELSE <<>>)
         \o <<[Ev("dahai", actor) EXCEPT !.giri = giri]>>
         \o [i \in 1..s.pending_dora |-> Ev("dora", 0)])

on_game_action_brc(b, f) ==
  LET c == flushed(b)
      s == c.status
      actor == actor_of(s, f.user)
      d == [c EXCEPT !.status = counted(s, actor, f.action)]
      target == CASE f.action = "chi" -> (actor + s.players - 1) % s.players
                  [] f.action \in {"pon", "daiminkan"} /\ s.last_dahai # Nobody -> s.last_dahai
                  [] OTHER -> actor
      result == CASE f.action = "win" -> Out(c, <<>>)
                  [] f.action = "dahai" -> discarded(c, f, actor)
                  [] OTHER -> Out(d, <<[Ev(f.action, actor) EXCEPT !.target = target]>>)
  IN [result EXCEPT !.events = flush_pending_reach(b) \o @]

on_gang_bao_brc(b) == Out([b EXCEPT !.status.pending_dora = @ + 1], <<>>)

on_game_end(b, f) ==
  LET s == b.status
      target(w) == IF f.tsumo \/ s.last_dahai = Nobody THEN w ELSE s.last_dahai
      profit == by_actor(s, f.profit)
      hora(w) == [Ev("hora", w) EXCEPT !.target = target(w), !.scores = profit]
      result == IF f.winners = <<>> THEN <<[Ev("ryukyoku", 0) EXCEPT !.scores = profit]>>
                ELSE [i \in 1..Len(f.winners) |-> hora(actor_of(s, f.winners[i]))]
  IN Out(flushed(b), flush_pending_reach(b) \o result \o <<Ev("end_kyoku", 0)>>)

on_room_end(b) == Out([b EXCEPT !.status = NoStatus], <<Ev("end_game", 0)>>)

(* note_window and note_window_closed: an offer opens our window, and only   *)
(* what resolves play closes it again.                                      *)
note_window(b, f) ==
  CASE f.cmd \in {"cmd_send_current_action", "cmd_send_other_action"} -> [b EXCEPT !.window = TRUE]
    [] f.cmd \in {"cmd_game_action_brc", "cmd_game_end", "cmd_room_end", "cmd_game_start"} -> [b EXCEPT !.window = FALSE]
    [] OTHER -> b

Parse(before, f) ==
  LET b == note_window(before, f)
  IN CASE f.cmd = "auth"                    -> Out([b EXCEPT !.uid = f.uid], <<>>)
       [] f.cmd = "cmd_enter_room"          -> on_enter_room(b, f)
       [] f.cmd = "cmd_game_start"          -> on_game_start(b, f)
       [] f.cmd = "cmd_in_card_brc"         -> on_in_card_brc(b, f)
       [] f.cmd = "cmd_send_current_action" -> on_send_current_action(b, f)
       [] f.cmd = "cmd_send_other_action"   -> Out(b, <<>>)
       [] f.cmd = "cmd_game_action_brc"     -> on_game_action_brc(b, f)
       [] f.cmd = "cmd_gang_bao_brc"        -> on_gang_bao_brc(b)
       [] f.cmd = "cmd_game_end"            -> on_game_end(b, f)
       [] f.cmd = "cmd_room_end"            -> on_room_end(b)
=============================================================================
