-------------------------------- MODULE Table --------------------------------
(***************************************************************************)
(* A mahjong table as its server runs it: the environment of the bridges.    *)
(* Nothing here is code of the repository; the rules are the ones its        *)
(* bridges rely on.  Seats are mjai seats (0 is the first dealer).  Only our *)
(* own rack has tiles, numbered in the order in which they come.  A turn is  *)
(* "draw" -> "act" -> "open" (a tile lies open and may be claimed) -> the    *)
(* next draw.  Points are counted in thousands, every hand is worth the same.*)
(***************************************************************************)
EXTENDS Integers, Sequences, FiniteSets, SequencesExt

CONSTANTS
  Seatings,   (* [n, me, shift]: players, our seat, the first dealer's place  *)
  MaxMoves, MaxHands, MaxGames, MaxDora    (* bounds                          *)

ASSUME TableAssumption ==
  /\ Seatings \subseteq [n : {3, 4}, me : 0..3, shift : 0..3]
  /\ \A s \in Seatings : s.me < s.n /\ s.shift < s.n
  /\ MaxMoves \in Nat /\ MaxHands \in Nat /\ MaxGames \in Nat /\ MaxDora \in Nat

VARIABLES
  table,   (* what is true at the table                                       *)
  move     (* the last thing that happened there                              *)

tableVars == <<table, move>>

None == 9   (* no seat *)
NoMove == [kind |-> "none", seat |-> 0, last |-> FALSE, giri |-> FALSE, riichi |-> FALSE,
           call |-> "none", from |-> None, winners |-> <<>>, deltas |-> <<>>, total |-> <<>>, final |-> FALSE,
           accepts |-> None, voided |-> FALSE, taken |-> {}]
Mv(kind, seat) == [NoMove EXCEPT !.kind = kind, !.seat = seat]

StartScore(n) == IF n = 3 THEN 35 ELSE 25
Empty(s, games) ==
  [n |-> s.n, me |-> s.me, shift |-> s.shift, stage |-> "seated", turn |-> 0, drew |-> FALSE,
   rack |-> <<>>, melds |-> [a \in 0..(s.n - 1) |-> 0], opened |-> {}, pending |-> None,
   accepted |-> {}, kan |-> "none", shown |-> 1, due |-> 0, offer |-> FALSE, oya |-> 0,
   score |-> [a \in 0..(s.n - 1) |-> StartScore(s.n)], sticks |-> 0, hands |-> 0,
   games |-> games, moves |-> 0]

Players(t) == 0..(t.n - 1)
NextSeat(t) == (t.turn + 1) % t.n
Ahead(score, a, b) == score[a] > score[b] \/ (score[a] = score[b] /\ a <= b)
Leader(t) == CHOOSE a \in Players(t) : \A b \in Players(t) : Ahead(t.score, a, b)
Reaching(t) == IF t.pending = None THEN t.accepted ELSE t.accepted \cup {t.pending}

(* A riichi stands once its tile has passed; then its stick is paid.         *)
Settled(t) ==
  IF t.pending = None THEN t
  ELSE [t EXCEPT !.accepted = @ \cup {t.pending}, !.score[t.pending] = @ - 1,
                 !.sticks = @ + 1, !.pending = None]

Running == table.moves < MaxMoves
Step(t, m) == table' = [t EXCEPT !.moves = @ + 1] /\ move' = m
(* On somebody else's tile the server may offer us a claim.                  *)
Offers(t, o) == o => t.turn # t.me

Init == \E s \in Seatings : table = Empty(s, 0) /\ move = NoMove

Sit ==
  /\ Running /\ (table.games = 0 \/ table.stage = "over") /\ table.games < MaxGames
  /\ \E s \in Seatings :
       /\ table.games = 0 => s = [n |-> table.n, me |-> table.me, shift |-> table.shift]
       /\ Step([Empty(s, table.games + 1) EXCEPT !.moves = table.moves], Mv("sit", 0))

Deal ==
  /\ Running /\ table.games > 0 /\ table.hands < MaxHands
  /\ table.stage \in {"seated", "between"}
  /\ \E oya \in IF table.hands = 0 THEN {0} ELSE {table.oya, (table.oya + 1) % table.n} :
       Step([table EXCEPT !.stage = "act", !.turn = oya, !.oya = oya, !.drew = TRUE,
                          !.rack = [i \in 1..(IF oya = table.me THEN 14 ELSE 13) |-> i],
                          !.melds = [a \in Players(table) |-> 0], !.opened = {}, !.pending = None,
                          !.accepted = {}, !.kan = "none", !.shown = 1, !.due = 0,
                          !.offer = FALSE, !.hands = @ + 1], Mv("deal", oya))

Draw ==
  /\ Running /\ table.stage = "open"
  /\ LET who == IF table.kan = "none" THEN NextSeat(table) ELSE table.turn
         t == Settled(table)
     IN Step([t EXCEPT !.stage = "act", !.turn = who, !.drew = TRUE, !.kan = "none", !.offer = FALSE,
                       !.rack = IF who = t.me THEN Append(@, 20 + t.moves) ELSE @],
             [Mv("draw", who) EXCEPT !.accepts = table.pending, !.call = table.kan])

Discard ==
  /\ Running /\ table.stage = "act"
  /\ \E last \in BOOLEAN, riichi \in BOOLEAN, offer \in BOOLEAN :
       LET a == table.turn
           ours == a = table.me
           r == table.rack
       IN /\ a \in table.accepted => last /\ ~riichi
          /\ riichi => table.drew /\ a \notin table.opened
          /\ Offers(table, offer)
          /\ Step([table EXCEPT !.stage = "open", !.drew = FALSE, !.offer = offer,
                                !.pending = IF riichi THEN a ELSE None,
                                !.shown = @ + table.due, !.due = 0,
                                !.rack = IF ~ours THEN @ ELSE IF last THEN Front(r) ELSE Tail(r)],
                  [Mv("discard", a) EXCEPT !.last = last, !.giri = last /\ table.drew, !.riichi = riichi,
                     !.taken = IF ~ours THEN {} ELSE {IF last THEN Last(r) ELSE Head(r)}])

(* Chi, pon or open kan of the tile that lies open.  Four melds are the most *)
(* a hand holds.                                                             *)
Called(t, a, c) ==
  LET used == IF c = "daiminkan" THEN 3 ELSE 2
      kan == c = "daiminkan"
  IN /\ c = "chi" => t.n = 4 /\ a = NextSeat(t)
     /\ t.melds[a] < 4
     /\ a = t.me => t.offer
     /\ kan => t.shown + t.due < MaxDora
     /\ Step([t EXCEPT !.turn = a, !.stage = IF kan THEN "open" ELSE "act", !.offer = FALSE,
                       !.drew = FALSE, !.kan = IF kan THEN c ELSE "none",
                       !.melds[a] = @ + 1, !.opened = @ \cup {a}, !.due = @ + (IF kan THEN 1 ELSE 0),
                       !.rack = IF a = t.me THEN SubSeq(@, used + 1, Len(@)) ELSE @],
             [Mv("call", a) EXCEPT !.call = c, !.from = t.turn, !.accepts = table.pending,
                !.taken = IF a = t.me THEN ToSet(SubSeq(t.rack, 1, used)) ELSE {}])

Call ==
  /\ Running /\ table.stage = "open" /\ table.kan = "none"
  /\ \E a \in Players(table) \ ({table.turn} \cup table.accepted), c \in {"chi", "pon", "daiminkan"} :
       Called(Settled(table), a, c)

(* A kan of the player's own, or a north set aside.  Only a closed kan shows *)
(* its indicator at once; the others show it with the next tile given up.    *)
OwnKan ==
  /\ Running /\ table.stage = "act" /\ table.drew
  /\ \E c \in {"ankan", "kakan", "kita"}, offer \in BOOLEAN :
       LET a == table.turn
           r == table.rack
           used == IF c = "ankan" THEN 4 ELSE 1
           front == c # "kakan"
       IN /\ c = "kita" => table.n = 3
          /\ c = "kakan" => a \in table.opened
          /\ c = "ankan" => table.melds[a] < 4
          /\ a \in table.accepted => c # "kakan"
          /\ c # "kita" => table.shown + table.due < MaxDora
          /\ Offers(table, offer) /\ (offer => c # "ankan")
          /\ Step([table EXCEPT !.stage = "open", !.drew = FALSE, !.kan = c, !.offer = offer,
                     !.melds[a] = IF c = "ankan" THEN @ + 1 ELSE @,
                     !.shown = IF c = "ankan" THEN @ + 1 ELSE IF c = "kita" THEN @ + table.due ELSE @,
                     !.due = IF c = "kita" THEN 0 ELSE IF c = "kakan" THEN @ + 1 ELSE @,
                     !.rack = IF a # table.me THEN @ ELSE IF front THEN SubSeq(@, used + 1, Len(@)) ELSE Front(@)],
                  [Mv("kan", a) EXCEPT !.call = c,
                     !.taken = IF a # table.me THEN {} ELSE IF front THEN ToSet(SubSeq(r, 1, used)) ELSE {Last(r)}])

(* What each seat gets or pays in all, by one entry or two.                  *)
InAll(t, deltas) ==
  [a \in Players(t) |-> IF Len(deltas) = 2 THEN deltas[1][a] + deltas[2][a] ELSE deltas[1][a]]

(* The hand is over: what each winner gets, or what a draw pays.  The final  *)
(* hand ends the game, and the sticks left on the table go to its leader.    *)
Ends(t, m, final) ==
  LET total == InAll(t, m.deltas)
      paid == [t EXCEPT !.stage = IF final THEN "over" ELSE "between", !.offer = FALSE, !.pending = None,
                        !.score = [a \in Players(t) |-> t.score[a] + total[a]],
                        !.sticks = IF m.kind = "win" THEN 0 ELSE @]
  IN Step(IF final THEN [paid EXCEPT !.score[Leader(paid)] = @ + paid.sticks, !.sticks = 0] ELSE paid,
          [m EXCEPT !.final = final, !.total = total])

Gain(t, w, payers, each, first) ==
  [a \in Players(t) |-> IF a = w THEN each * Cardinality(payers) + (IF first THEN t.sticks ELSE 0)
                        ELSE IF a \in payers THEN -each ELSE 0]

Tsumo ==
  /\ Running /\ table.stage = "act" /\ table.drew
  /\ \E final \in BOOLEAN :
       Ends(table, [Mv("win", table.turn) EXCEPT !.winners = <<table.turn>>, !.from = table.turn,
                      !.deltas = <<Gain(table, table.turn, Players(table) \ {table.turn}, 2, TRUE)>>], final)

(* Ron, by one player or two, of a discard or of an added kan or north.  A   *)
(* riichi declared with that tile does not stand.                            *)
Ron ==
  /\ Running /\ table.stage = "open" /\ table.kan \in {"none", "kakan", "kita"}
  /\ \E a, b \in Players(table) \ {table.turn}, final \in BOOLEAN :
       LET t == table
           away(w) == (w + t.n - t.turn) % t.n
           ws == IF a = b THEN <<a>> ELSE <<a, b>>
       IN /\ a # b => away(a) < away(b)
          /\ Ends(t, [Mv("win", t.turn) EXCEPT !.winners = ws, !.from = t.turn, !.call = t.kan,
                         !.voided = t.pending # None,
                         !.deltas = [i \in 1..Len(ws) |-> Gain(t, ws[i], {t.turn}, 4, i = 1)]], final)

(* The wall is empty and the one ready player is paid, or the hand is        *)
(* aborted, on a draw (nine terminals) or after a discard.                   *)
Exhaust ==
  /\ Running /\ table.kan = "none"
  /\ \E final \in BOOLEAN, pays \in BOOLEAN :
       LET t == Settled(table)
       IN /\ table.stage = "open" \/ (~pays /\ ~final /\ table.stage = "act" /\ table.drew)
          /\ Ends(t, [Mv("exhaust", t.turn) EXCEPT !.accepts = table.pending, !.call = IF pays THEN "wall" ELSE "none",
                        !.deltas = <<IF pays THEN Gain(t, t.turn, Players(t) \ {t.turn}, 1, FALSE)
                                     ELSE [a \in Players(t) |-> 0]>>], final)

(* The platform breaks the game off.                                         *)
Terminate ==
  /\ Running /\ table.games > 0 /\ table.stage # "over"
  /\ Step([table EXCEPT !.stage = "over", !.offer = FALSE], Mv("terminate", 0))
=============================================================================
