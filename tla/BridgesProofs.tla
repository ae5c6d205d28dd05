---------------------------- MODULE BridgesProofs -----------------------------
(*****************************************************************************)
(* Theorems of Bridges, for any tables, any bounds and any of the platforms, *)
(* where no client joins a three-player game of Tenhou again (SanmaRejoins). *)
(* Majsoul comes first, which can be sent a hand once more: its log replays  *)
(* to where the live bridge is. Then the invariant: read to the end,         *)
(* whatever is under way tells the table's state. Then what follows from it. *)
(*****************************************************************************)
EXTENDS TenhouRiichiCityProofs

(* ------ Majsoul ---------------------------------------------------------- *)

MajBridges ==
  [seat : 0..9, players : 3..4, doras : Nat, timing : {"none", "before", "after"}, deferred : Nat,
   pending_reach : 0..9, revealed : 0..9, replaying : BOOLEAN, restore_window : BOOLEAN, window : BOOLEAN]

(* The window a message opens or closes: while a hand is replayed, the one   *)
(* to be restored.                                                          *)
Asked(b) == (b.replaying /\ b.restore_window) \/ (~b.replaying /\ b.window)

(* The bridge knows the declared riichi, how many indicators there can be,   *)
(* whose tile lies open, and whether we are asked.                           *)
MajGood(t, b) ==
  /\ b \in MajBridges
  /\ t.games > 0 /\ t.stage # "over" => b.seat = t.me /\ b.players = t.n
  /\ t.stage \in {"act", "open"} =>
       /\ Asked(b) <=> OwedAt(t)
       /\ b.pending_reach = t.pending /\ b.doras <= t.shown + t.due
       /\ t.stage = "open" /\ t.kan # "daiminkan" => b.revealed = t.turn
  /\ t.stage \notin {"act", "open"} => ~b.window
  /\ t.stage \in {"seated", "between"} => b.pending_reach = Nobody

(* The indicators reported so far have been published, or are deferred.      *)
MajSeen(t, m, b, v, r) ==
  /\ MajGood(t, b) /\ ViewGood("majsoul", t, m, v, r)
  /\ t.stage \in {"act", "open"} => v.dora + b.deferred = b.doras

LEMMA MajEv ==
  ASSUME NEW type, NEW a
  PROVE  Majsoul!Ev(type, a) = Ev(type, a)
BY DEF Majsoul!Ev, Ev

LEMMA MajNobody == Majsoul!Nobody = Nobody /\ Nobody = 9 /\ None = 9
BY DEF Majsoul!Nobody, Nobody, None

MajOpens == {"NewRound", "DealTile", "DiscardTile", "ChiPengGang", "AnGangAddGang", "BaBei"}
MajNames == MajOpens \cup {"Hule", "NoTile", "LiuJu"}
MajOpen(f) == f.op /\ f.name \in MajOpens

(* What the time budget leaves alone.                                        *)
MajLike(b, c) ==
  /\ c \in MajBridges /\ c.seat = b.seat /\ c.players = b.players /\ c.doras = b.doras
  /\ c.timing = b.timing
  /\ c.deferred = b.deferred /\ c.revealed = b.revealed /\ (c.replaying <=> b.replaying)

(* The bridge as the message finds it: c, the window noted.                  *)
MajNoted(b, f, c) ==
  c = Majsoul!update_time_budget(b, f) /\ MajLike(b, c) /\ c.pending_reach = b.pending_reach /\ (Asked(c) <=> MajOpen(f))

LEMMA MajBudget ==
  ASSUME NEW b, b \in MajBridges, b.seat # Nobody, NEW f, f.op \in BOOLEAN
  PROVE  \E c : MajNoted(b, f, c)
<1>1. PICK o, c : o = (f.op /\ f.name \in MajOpens) /\ c = Majsoul!update_time_budget(b, f)
  OBVIOUS
<1>2. o \in BOOLEAN /\ (o <=> MajOpen(f))
  BY <1>1 DEF MajOpen
<1>3. c = IF b.replaying THEN [b EXCEPT !.restore_window = o] ELSE [b EXCEPT !.window = o]
  BY <1>1, MajNobody, Zenon DEF Majsoul!update_time_budget, MajOpens
<1>4. CASE b.replaying
  <2>1. c = [b EXCEPT !.restore_window = o]
    BY <1>3, <1>4
  <2>2. c \in MajBridges
    BY <1>2, <2>1 DEF MajBridges
  <2>3. /\ c.seat = b.seat /\ c.players = b.players /\ c.doras = b.doras /\ c.timing = b.timing
        /\ c.deferred = b.deferred /\ c.revealed = b.revealed /\ c.replaying = b.replaying
        /\ c.pending_reach = b.pending_reach
        /\ c.restore_window = o
    BY <2>1 DEF MajBridges
  <2>4. MajLike(b, c) /\ (Asked(c) <=> MajOpen(f))
    BY <1>2, <1>4, <2>2, <2>3 DEF MajLike, Asked
  <2>. QED
    BY <1>1, <2>3, <2>4 DEF MajNoted
<1>5. CASE ~b.replaying
  <2>1. c = [b EXCEPT !.window = o]
    BY <1>3, <1>5
  <2>2. c \in MajBridges
    BY <1>2, <2>1 DEF MajBridges
  <2>3. /\ c.seat = b.seat /\ c.players = b.players /\ c.doras = b.doras /\ c.timing = b.timing
        /\ c.deferred = b.deferred /\ c.revealed = b.revealed /\ c.replaying = b.replaying
        /\ c.pending_reach = b.pending_reach
        /\ c.window = o
    BY <2>1 DEF MajBridges
  <2>4. MajLike(b, c) /\ (Asked(c) <=> MajOpen(f))
    BY <1>2, <1>5, <2>2, <2>3 DEF MajLike, Asked
  <2>. QED
    BY <1>1, <2>3, <2>4 DEF MajNoted
<1>. QED
  BY <1>4, <1>5

(* A message other than a win or a tile given up: the acceptance goes out    *)
(* first, then what the message says, to a bridge with nothing pending.      *)
MajCleared(b, f, d) ==
  MajLike(b, d) /\ d.pending_reach = Nobody /\ (Asked(d) <=> MajOpen(f))
MajSays(d, f, b2, es) == Majsoul!build(d, f) = RiichiDone(b2, es) /\ IsSeq(es)

LEMMA MajDrains ==
  ASSUME NEW b, b \in MajBridges, b.seat # Nobody, NEW f, f.op \in BOOLEAN, f.type = "action",
         f.name \in MajNames \ {"Hule", "DiscardTile"}
  PROVE  \E d : /\ MajCleared(b, f, d)
                /\ \A b2, es : MajSays(d, f, b2, es) => Becomes("majsoul", b, f, b2, Accepts(b.pending_reach) \o es)
<1>1. PICK c : MajNoted(b, f, c)
  BY MajBudget
<1>2. c = Majsoul!update_time_budget(b, f) /\ MajLike(b, c) /\ c.pending_reach = b.pending_reach /\ (Asked(c) <=> MajOpen(f))
  BY <1>1 DEF MajNoted
<1>3. PICK d : d = [c EXCEPT !.pending_reach = Nobody]
  OBVIOUS
<1>4. c \in MajBridges
  BY <1>2 DEF MajLike
<1>5. d \in MajBridges
  BY <1>3, <1>4, MajNobody DEF MajBridges
<1>6. /\ d.seat = c.seat /\ d.players = c.players /\ d.doras = c.doras /\ d.timing = c.timing
      /\ d.deferred = c.deferred /\ d.revealed = c.revealed /\ d.replaying = c.replaying
      /\ d.pending_reach = Nobody
      /\ d.window = c.window /\ d.restore_window = c.restore_window
  BY <1>3, <1>4 DEF MajBridges
<1>7. MajCleared(b, f, d)
  BY <1>2, <1>5, <1>6 DEF MajCleared, MajLike, Asked
<1>8. ASSUME NEW b2, NEW es, MajSays(d, f, b2, es)
      PROVE  Becomes("majsoul", b, f, b2, Accepts(b.pending_reach) \o es)
  <2>1. Majsoul!build(d, f) = [bridge |-> b2, events |-> es] /\ IsSeq(es)
    BY <1>8 DEF MajSays, RiichiDone
  <2>2. ParseOf("majsoul", b, f) = Majsoul!handle_action_prototype(b, f)
    BY DEF ParseOf, Majsoul!Parse
  <2>3. [c EXCEPT !.pending_reach = IF f.name = "DiscardTile" THEN @ ELSE Majsoul!Nobody] = d
    BY <1>3, MajNobody
  <2>4. Majsoul!handle_action_prototype(b, f) =
          IF c.pending_reach # Majsoul!Nobody
          THEN [Majsoul!build(d, f) EXCEPT !.events = <<Majsoul!Ev("reach_accepted", c.pending_reach)>> \o @]
          ELSE Majsoul!build(d, f)
    BY <1>2, <2>3 DEF Majsoul!handle_action_prototype, Majsoul!Drains
  <2>5. CASE b.pending_reach = None
    <3>1. Accepts(b.pending_reach) = <<>>
      BY <2>5 DEF Accepts
    <3>2. <<>> \o es = es
      BY <2>1, NothingElse
    <3>3. Majsoul!handle_action_prototype(b, f) = [bridge |-> b2, events |-> es]
      BY <1>2, <2>1, <2>4, <2>5, MajNobody
    <3>. QED
      BY <2>2, <3>1, <3>2, <3>3 DEF Becomes
  <2>6. CASE b.pending_reach # None
    <3>1. PICK e : e = Ev("reach_accepted", b.pending_reach)
      OBVIOUS
    <3>2. Accepts(b.pending_reach) = <<e>> /\ Majsoul!Ev("reach_accepted", c.pending_reach) = e
      BY <1>2, <2>6, <3>1, MajEv DEF Accepts
    <3>3. Majsoul!handle_action_prototype(b, f) = [[bridge |-> b2, events |-> es] EXCEPT !.events = <<e>> \o @]
      BY <1>2, <2>1, <2>4, <2>6, <3>2, MajNobody
    <3>. QED
      BY <2>2, <3>2, <3>3 DEF Becomes
  <2>. QED
    BY <2>5, <2>6
<1>. QED
  BY <1>7, <1>8

(* The tile given up, and the win: no acceptance goes out.                   *)
LEMMA MajKeeps ==
  ASSUME NEW b, b \in MajBridges, b.seat # Nobody, NEW f, f.op \in BOOLEAN, f.type = "action",
         f.name = "DiscardTile"
  PROVE  \E c : /\ MajNoted(b, f, c)
                /\ \A b2, es : MajSays(c, f, b2, es) => Becomes("majsoul", b, f, b2, es)
<1>1. PICK c : MajNoted(b, f, c)
  BY MajBudget
<1>2. c = Majsoul!update_time_budget(b, f) /\ MajLike(b, c)
  BY <1>1 DEF MajNoted
<1>3. c \in MajBridges
  BY <1>2 DEF MajLike
<1>4. [c EXCEPT !.pending_reach = IF f.name = "DiscardTile" THEN @ ELSE Majsoul!Nobody] = c
  BY <1>3 DEF MajBridges
<1>5. Majsoul!handle_action_prototype(b, f) = Majsoul!build(c, f)
  BY <1>2, <1>4 DEF Majsoul!handle_action_prototype, Majsoul!Drains
<1>6. ParseOf("majsoul", b, f) = Majsoul!build(c, f)
  BY <1>5 DEF ParseOf, Majsoul!Parse
<1>. QED
  BY <1>1, <1>6 DEF MajSays, RiichiDone, Becomes

LEMMA MajForgets ==
  ASSUME NEW b, b \in MajBridges, b.seat # Nobody, NEW f, f.op \in BOOLEAN, f.type = "action",
         f.name = "Hule"
  PROVE  \E d : /\ MajCleared(b, f, d)
                /\ \A b2, es : MajSays(d, f, b2, es) => Becomes("majsoul", b, f, b2, es)
<1>1. PICK c : MajNoted(b, f, c)
  BY MajBudget
<1>2. c = Majsoul!update_time_budget(b, f) /\ MajLike(b, c) /\ (Asked(c) <=> MajOpen(f))
  BY <1>1 DEF MajNoted
<1>3. PICK d : d = [c EXCEPT !.pending_reach = Nobody]
  OBVIOUS
<1>4. c \in MajBridges
  BY <1>2 DEF MajLike
<1>5. d \in MajBridges
  BY <1>3, <1>4, MajNobody DEF MajBridges
<1>6. /\ d.seat = c.seat /\ d.players = c.players /\ d.doras = c.doras /\ d.timing = c.timing
      /\ d.deferred = c.deferred /\ d.revealed = c.revealed /\ d.replaying = c.replaying
      /\ d.pending_reach = Nobody
      /\ d.window = c.window /\ d.restore_window = c.restore_window
  BY <1>3, <1>4 DEF MajBridges
<1>7. MajCleared(b, f, d)
  BY <1>2, <1>5, <1>6 DEF MajCleared, MajLike, Asked
<1>8. [c EXCEPT !.pending_reach = IF f.name = "DiscardTile" THEN @ ELSE Majsoul!Nobody] = d
  BY <1>3, MajNobody
<1>9. Majsoul!handle_action_prototype(b, f) = Majsoul!build(d, f)
  BY <1>2, <1>8 DEF Majsoul!handle_action_prototype, Majsoul!Drains
<1>10. ParseOf("majsoul", b, f) = Majsoul!build(d, f)
  BY <1>9 DEF ParseOf, Majsoul!Parse
<1>. QED
  BY <1>7, <1>10 DEF MajSays, RiichiDone, Becomes

(* A move of a hand is one message, whose events the reader follows.         *)
MajStep(b, v, r, w, b2, v2, r2) ==
  /\ \E f, es : w = <<f>> /\ f.type = "action" /\ Becomes("majsoul", b, f, b2, es) /\ Plays(v, r, es, v2, r2)
  /\ b2.replaying <=> b.replaying

LEMMA MajStepRuns ==
  ASSUME NEW b, NEW v, NEW r, NEW w, NEW b2, NEW v2, NEW r2, MajStep(b, v, r, w, b2, v2, r2)
  PROVE  Runs("majsoul", b, v, r, w, b2, v2, r2)
BY RunsFrame DEF MajStep

(* The indicators a message adds.                                            *)
MajNew(b, f) == IF f.doras > b.doras THEN f.doras - b.doras ELSE 0
LEMMA MajDoras ==
  ASSUME NEW b, b \in MajBridges, NEW f, f.doras \in Nat
  PROVE  /\ Majsoul!new_doras(b, f) = MajNew(b, f) /\ MajNew(b, f) \in Nat
         /\ MajNew(b, f) + b.doras \in Nat
         /\ MajNew(b, f) + b.doras = IF f.doras > b.doras THEN f.doras ELSE b.doras
         /\ Majsoul!consumed(b, f) = [b EXCEPT !.doras = MajNew(b, f) + b.doras]
<1>1. PICK k : k = MajNew(b, f)
  OBVIOUS
<1>2. b.doras \in Nat
  BY DEF MajBridges
<1>3. k \in Nat /\ k + b.doras \in Nat /\ k + b.doras = IF f.doras > b.doras THEN f.doras ELSE b.doras
  BY <1>1, <1>2 DEF MajNew
<1>4. Majsoul!new_doras(b, f) = k
  BY <1>1 DEF Majsoul!new_doras, MajNew
<1>5. b.doras + k = k + b.doras
  BY <1>2, <1>3
<1>6. Majsoul!consumed(b, f) = [b EXCEPT !.doras = k + b.doras]
  BY <1>4, <1>5 DEF Majsoul!consumed
<1>. QED
  BY <1>1, <1>3, <1>4, <1>6

LEMMA MajIndicators ==
  ASSUME NEW k, k \in Nat
  PROVE  Majsoul!DoraEvents(k) = Indicators(k) /\ IsSeq(Indicators(k))
<1>1. Majsoul!DoraEvents(k) = Indicators(k)
  BY MajEv DEF Majsoul!DoraEvents, Majsoul!Times, Indicators, Dora
<1>2. IsSeq(Indicators(k))
  BY TimesIsSeq DEF Indicators
<1>. QED
  BY <1>1, <1>2

LEMMA MajPlays ==
  ASSUME NEW t2, NEW m2, t2.stage \in {"act", "open"}, NEW b2, MajGood(t2, b2), NEW v2, NEW r2,
         Hand(t2, t2.pending, v2, r2),
         m2.kind = "discard" => v2.floor = m2.seat /\ v2.dora = t2.shown /\ v2.giri = m2.giri,
         v2.dora + b2.deferred = b2.doras
  PROVE  MajSeen(t2, m2, b2, v2, r2)
BY DEF MajSeen, ViewGood, Playing

(* The bridge in a hand.                                                     *)
LEMMA MajInHand ==
  ASSUME NEW t, TableOK(t), t.stage \in {"act", "open"}, NEW m, NEW b, NEW v, NEW r,
         MajSeen(t, m, b, v, r)
  PROVE  /\ b \in MajBridges /\ b.seat = t.me /\ b.seat # Nobody /\ b.players = t.n
         /\ b.pending_reach = t.pending
         /\ Hand(t, t.pending, v, r) /\ v.dora \in Nat /\ b.deferred \in Nat /\ b.doras \in Nat
         /\ v.dora + b.deferred = b.doras /\ b.doras <= t.shown + t.due /\ t.shown \in Nat
         /\ t.due \in Nat
<1>1. MajGood(t, b) /\ Hand(t, t.pending, v, r) /\ v.dora + b.deferred = b.doras
  BY DEF MajSeen, ViewGood, Playing
<1>2. t.games > 0 /\ t.stage # "over"
  BY DEF TableOK, Stage
<1>3. b \in MajBridges /\ b.seat = t.me /\ b.players = t.n /\ b.pending_reach = t.pending /\ b.doras <= t.shown + t.due
  BY <1>1, <1>2 DEF MajGood
<1>4. b.deferred \in Nat /\ b.doras \in Nat
  BY <1>3 DEF MajBridges
<1>5. v.dora \in Nat
  BY <1>1 DEF Hand, Views
<1>6. t.me # Nobody /\ t.shown \in Nat /\ t.due \in Nat
  BY TableFields, SeatSpan
<1>. QED
  BY <1>1, <1>3, <1>4, <1>5, <1>6

(* The message of a move: what all of them share.                            *)
MajAction(t, f, name, seat, doras) ==
  /\ f.type = "action" /\ f.name = name /\ f.seat = seat /\ f.doras = doras /\ f.op \in BOOLEAN
  /\ f.op <=> t.offer \/ (t.stage = "act" /\ t.turn = t.me)

LEMMA MajAsks ==
  ASSUME NEW t, TableOK(t), t.stage \in {"act", "open"}, NEW f, NEW name, NEW seat, NEW doras,
         MajAction(t, f, name, seat, doras),
         name \in MajOpens
  PROVE  MajOpen(f) <=> OwedAt(t)
BY DEF MajAction, MajOpen, OwedAt

(* ------ a hand is dealt -------------------------------------------------- *)
MajRound(t2) == [Majsoul!Action("NewRound", t2, t2.oya) EXCEPT !.doras = 1, !.scores = t2.score]
MajBegun(d) == [d EXCEPT !.doras = 1, !.timing = "none", !.deferred = 0, !.revealed = Nobody, !.pending_reach = Nobody]

LEMMA MajDeals ==
  ASSUME NEW t, NEW t2, NEW m, NEW m2, TableOK(t), TableOK(t2), HasDealt(t, t2, m2), NEW b, NEW v,
         NEW r, MajSeen(t, m, b, v, r),
         NEW early, early \in BOOLEAN
  PROVE  \E b2, v2, r2 : MajStep(b, v, r, Majsoul!Frames(t, t2, m2, early), b2, v2, r2) /\ MajSeen(t2, m2, b2, v2, r2)
<1>1. /\ t.stage \in {"seated", "between"} /\ t.games > 0 /\ t2.n = t.n /\ t2.me = t.me
      /\ t2.stage = "act" /\ t2.turn = t2.oya /\ t2.pending = None
      /\ t2.shown = 1 /\ t2.due = 0 /\ t2.score = t.score /\ m2.kind = "deal"
      /\ t2.offer \in BOOLEAN
      /\ t.n \in 3..4 /\ t.me \in 0..(t.n - 1)
  BY TableFields DEF HasDealt, SameGame
<1>2. b \in MajBridges /\ b.seat = t.me /\ b.players = t.n /\ b.pending_reach = Nobody /\ t.me # Nobody
  BY <1>1, SeatSpan DEF MajSeen, MajGood
<1>3. Waiting(t, v, r)
  BY <1>1 DEF MajSeen, ViewGood, Between
<1>4. PICK f, a, sc, n : f = MajRound(t2) /\ a = t2.oya /\ sc = t2.score /\ n = t.n
  OBVIOUS
<1>5. MajAction(t2, f, "NewRound", a, 1) /\ f.scores = sc
  BY <1>1, <1>4 DEF MajRound, Majsoul!Action, MajAction
<1>6. PICK d : /\ MajCleared(b, f, d)
               /\ \A b2, es : MajSays(d, f, b2, es) => Becomes("majsoul", b, f, b2, Accepts(b.pending_reach) \o es)
  BY <1>2, <1>5, MajDrains DEF MajAction, MajNames, MajOpens
<1>7. PICK b2, kyoku, tsumo : b2 = MajBegun(d) /\ kyoku = KyokuOf(a, n, sc) /\ tsumo = Ev("tsumo", a)
  OBVIOUS
<1>8. d \in MajBridges /\ d.players = n /\ d.seat = t.me /\ (d.replaying <=> b.replaying) /\ (Asked(d) <=> MajOpen(f))
  BY <1>2, <1>4, <1>6 DEF MajCleared, MajLike
<1>9. PICK es : es = <<kyoku>> \o <<tsumo>>
  OBVIOUS
<1>10. MajSays(d, f, b2, es)
  <2>1. f.name = "NewRound" /\ f.seat = a /\ f.scores = sc
    BY <1>5 DEF MajAction
  <2>2. Majsoul!build(d, f) = Majsoul!build_start_kyoku(d, f)
    BY <2>1 DEF Majsoul!build
  <2>3. [Majsoul!Ev("start_kyoku", f.seat) EXCEPT !.players = d.players, !.scores = f.scores] = kyoku /\ Majsoul!Ev("tsumo", f.seat) = tsumo
    BY <1>7, <1>8, <2>1, MajEv DEF KyokuOf
  <2>4. Majsoul!build_start_kyoku(d, f) = [bridge |-> b2, events |-> <<kyoku, tsumo>>]
    BY <1>7, <2>3, MajNobody, Zenon DEF Majsoul!build_start_kyoku, Majsoul!Out, MajBegun
  <2>5. <<kyoku, tsumo>> = es
    BY <1>9, TwoFrames
  <2>6. IsSeq(es)
    BY <1>9, OneIsSeq, Joined
  <2>. QED
    BY <2>2, <2>4, <2>5, <2>6 DEF MajSays, RiichiDone
<1>11. Becomes("majsoul", b, f, b2, Accepts(b.pending_reach) \o es)
  BY <1>6, <1>10
<1>12. PICK v1, r1 : Plays(v, r, <<kyoku>>, v1, r1) /\ Dealing(t2, v1, r1)
  <2>1. kyoku = [Ev("start_kyoku", t2.oya) EXCEPT !.players = t.n, !.scores = t.score]
    BY <1>1, <1>4, <1>7 DEF KyokuOf
  <2>. QED
    BY <1>3, <2>1, SeeStartKyoku
<1>13. PICK v2 : Plays(v1, r1, <<tsumo>>, v2, r1) /\ Hand(t2, None, v2, r1) /\ v2.dora = 1
  <2>1. tsumo = Ev("tsumo", t2.turn)
    BY <1>1, <1>4, <1>7
  <2>. QED
    BY <1>12, <2>1, SeeFirstTsumo
<1>14. Plays(v, r, Accepts(b.pending_reach) \o es, v2, r1)
  <2>1. Accepts(b.pending_reach) = <<>>
    BY <1>2, MajNobody DEF Accepts
  <2>2. Plays(v, r, Accepts(b.pending_reach), v, r)
    BY <2>1, PlaysNothing
  <2>3. Plays(v, r, es, v2, r1)
    BY <1>9, <1>12, <1>13, PlaysBoth
  <2>. QED
    BY <2>2, <2>3, PlaysBoth
<1>15. /\ b2 \in MajBridges /\ b2.seat = d.seat /\ b2.players = d.players
       /\ b2.replaying = d.replaying /\ b2.window = d.window
       /\ b2.restore_window = d.restore_window /\ b2.doras = 1 /\ b2.deferred = 0
       /\ b2.pending_reach = Nobody
  <2>1. 1 \in Nat /\ 0 \in Nat /\ Nobody \in 0..9 /\ "none" \in {"none", "before", "after"}
    BY MajNobody
  <2>. QED
    BY <1>7, <1>8, <2>1 DEF MajBegun, MajBridges
<1>16. MajGood(t2, b2)
  <2>1. MajOpen(f) <=> OwedAt(t2)
    BY <1>1, <1>5, MajAsks DEF MajOpens
  <2>2. Asked(b2) <=> Asked(d)
    BY <1>15 DEF Asked
  <2>. QED
    BY <1>1, <1>4, <1>8, <1>15, <2>1, <2>2, MajNobody DEF MajGood
<1>17. MajSeen(t2, m2, b2, v2, r1)
  <2>1. v2.dora + b2.deferred = b2.doras
    BY <1>13, <1>15
  <2>. QED
    BY <1>1, <1>13, <1>16, <2>1, MajPlays
<1>18. Majsoul!Frames(t, t2, m2, early) = <<f>>
  BY <1>1, <1>4 DEF Majsoul!Frames, MajRound
<1>19. MajStep(b, v, r, Majsoul!Frames(t, t2, m2, early), b2, v2, r1)
  BY <1>5, <1>8, <1>11, <1>14, <1>15, <1>18 DEF MajStep, MajAction
<1>. QED
  BY <1>17, <1>19

(* ------ a tile is drawn -------------------------------------------------- *)
MajTile(t2, early) == [Majsoul!Action("DealTile", t2, t2.turn) EXCEPT !.doras = @ + (IF early THEN t2.due ELSE 0)]

(* After an added or open kan its indicator waits for the next tile.         *)
MajTook(d, k, wait) == [d EXCEPT !.doras = k + d.doras, !.timing = "none", !.deferred = IF wait THEN d.deferred + k ELSE d.deferred]

(* What the indicators leave alone.                                          *)
MajKept(d, b2) ==
  /\ b2 \in MajBridges /\ b2.seat = d.seat /\ b2.players = d.players
  /\ (b2.replaying <=> d.replaying)
  /\ (Asked(b2) <=> Asked(d))

LEMMA MajTakes ==
  ASSUME NEW d, d \in MajBridges, NEW f, f.name = "DealTile", f.doras \in Nat, NEW a, f.seat = a,
         NEW k, k = MajNew(d, f)
  PROVE  \E b2, j : /\ MajSays(d, f, b2, Indicators(j) \o <<Ev("tsumo", a)>>) /\ j \in Nat
                    /\ MajKept(d, b2) /\ b2.pending_reach = d.pending_reach
                    /\ b2.doras = k + d.doras /\ j + b2.deferred = k + d.deferred
<1>1. PICK wait : wait = (d.timing = "after")
  OBVIOUS
<1>2. PICK b2 : b2 = MajTook(d, k, wait)
  OBVIOUS
<1>3. k \in Nat /\ k + d.doras \in Nat /\ Majsoul!new_doras(d, f) = k /\ Majsoul!consumed(d, f) = [d EXCEPT !.doras = k + d.doras]
  BY MajDoras
<1>4. d.doras \in Nat /\ d.deferred \in Nat /\ wait \in BOOLEAN
  BY <1>1 DEF MajBridges
<1>5. b2 \in MajBridges
  <2>1. (IF wait THEN d.deferred + k ELSE d.deferred) \in Nat /\ k + d.doras \in Nat /\ "none" \in {"none", "before", "after"}
    BY <1>3, <1>4
  <2>. QED
    BY <1>2, <2>1 DEF MajTook, MajBridges
<1>6. /\ b2.seat = d.seat /\ b2.players = d.players /\ b2.replaying = d.replaying
      /\ b2.window = d.window /\ b2.revealed = d.revealed
      /\ b2.restore_window = d.restore_window /\ b2.doras = k + d.doras
      /\ b2.pending_reach = d.pending_reach
      /\ b2.deferred = IF wait THEN d.deferred + k ELSE d.deferred
  BY <1>2 DEF MajTook, MajBridges
<1>7. Asked(b2) <=> Asked(d)
  BY <1>6 DEF Asked
<1>8. MajKept(d, b2)
  BY <1>5, <1>6, <1>7 DEF MajKept
<1>9. Majsoul!build(d, f) = Majsoul!build_tsumo(d, f) /\ Majsoul!Ev("tsumo", f.seat) = Ev("tsumo", a)
  BY MajEv DEF Majsoul!build
<1>10. PICK c, e : c = [Majsoul!consumed(d, f) EXCEPT !.timing = "none"] /\ e = Ev("tsumo", a)
  OBVIOUS
<1>11. Majsoul!build_tsumo(d, f) =
         IF d.timing = "after" THEN [bridge |-> [c EXCEPT !.deferred = @ + k], events |-> <<e>>]
         ELSE [bridge |-> c, events |-> Indicators(k) \o <<e>>]
  BY <1>3, <1>9, <1>10, MajIndicators DEF Majsoul!build_tsumo, Majsoul!Out
<1>12. CASE wait
  <2>1. [c EXCEPT !.deferred = @ + k] = b2
    BY <1>2, <1>3, <1>10, <1>12 DEF MajTook, MajBridges
  <2>2. PICK zero : zero = 0
    OBVIOUS
  <2>3. Indicators(zero) = <<>>
    BY <2>2 DEF Indicators
  <2>4. Indicators(zero) \o <<e>> = <<e>> /\ IsSeq(<<e>>)
    BY <2>3, OneIsSeq, NothingElse
  <2>5. MajSays(d, f, b2, Indicators(zero) \o <<Ev("tsumo", a)>>)
    BY <1>1, <1>9, <1>10, <1>11, <1>12, <2>1, <2>4 DEF MajSays, RiichiDone
  <2>6. zero \in Nat /\ zero + b2.deferred = k + d.deferred
    BY <1>3, <1>4, <1>6, <1>12, <2>2
  <2>. QED
    BY <1>6, <1>8, <2>5, <2>6
<1>13. CASE ~wait
  <2>1. c = b2
    BY <1>2, <1>3, <1>10, <1>13 DEF MajTook, MajBridges
  <2>2. IsSeq(Indicators(k) \o <<e>>)
    BY <1>3, MajIndicators, OneIsSeq, Joined
  <2>3. MajSays(d, f, b2, Indicators(k) \o <<Ev("tsumo", a)>>)
    BY <1>1, <1>9, <1>10, <1>11, <1>13, <2>1, <2>2 DEF MajSays, RiichiDone
  <2>4. k + b2.deferred = k + d.deferred
    BY <1>6, <1>13
  <2>. QED
    BY <1>3, <1>6, <1>8, <2>3, <2>4
<1>. QED
  BY <1>4, <1>12, <1>13

(* The bridge after a move of the hand.                                      *)
MajFits(t2, b, b2) ==
  /\ b2 \in MajBridges /\ b2.seat = b.seat /\ b2.players = b.players /\ (Asked(b2) <=> OwedAt(t2))
  /\ b2.pending_reach = t2.pending /\ b2.doras <= t2.shown + t2.due
  /\ t2.stage = "open" /\ t2.kan # "daiminkan" => b2.revealed = t2.turn

LEMMA MajFitsGood ==
  ASSUME NEW t, TableOK(t), NEW t2, SameGame(t, t2), t.stage \in {"act", "open"},
         t2.stage \in {"act", "open"}, NEW b,
         b.seat = t.me, b.players = t.n, NEW b2, MajFits(t2, b, b2)
  PROVE  MajGood(t2, b2)
BY DEF SameGame, MajFits, MajGood

LEMMA MajDraws ==
  ASSUME NEW t, NEW t2, NEW m, NEW m2, TableOK(t), TableOK(t2), HasDrawn(t, t2, m2), NEW b, NEW v,
         NEW r, MajSeen(t, m, b, v, r),
         NEW early, early \in BOOLEAN
  PROVE  \E b2, v2, r2 : MajStep(b, v, r, Majsoul!Frames(t, t2, m2, early), b2, v2, r2) /\ MajSeen(t2, m2, b2, v2, r2)
<1>1. /\ t.stage = "open" /\ t2.stage = "act" /\ t2.shown = t.shown /\ t2.due = t.due
      /\ t2.offer \in BOOLEAN
      /\ m2.kind = "draw" /\ t2.pending = None /\ SameGame(t, t2)
  BY TableFields DEF HasDrawn, SameHand
<1>2. /\ b \in MajBridges /\ b.seat = t.me /\ b.seat # Nobody /\ b.players = t.n
      /\ b.pending_reach = t.pending
      /\ Hand(t, t.pending, v, r) /\ v.dora \in Nat /\ b.deferred \in Nat /\ b.doras \in Nat
      /\ v.dora + b.deferred = b.doras /\ b.doras <= t.shown + t.due /\ t.shown \in Nat
      /\ t.due \in Nat
  BY <1>1, MajInHand
<1>3. PICK f, a, x : f = MajTile(t2, early) /\ a = t2.turn /\ x = t2.shown + (IF early THEN t2.due ELSE 0)
  OBVIOUS
<1>4. x \in Nat /\ x <= t2.shown + t2.due
  BY <1>1, <1>2, <1>3
<1>5. MajAction(t2, f, "DealTile", a, x)
  BY <1>1, <1>3 DEF MajTile, Majsoul!Action, MajAction
<1>6. f.type = "action" /\ f.name = "DealTile" /\ f.seat = a /\ f.doras = x /\ f.op \in BOOLEAN
  BY <1>5 DEF MajAction
<1>7. PICK d : /\ MajCleared(b, f, d)
               /\ \A b2, es : MajSays(d, f, b2, es) => Becomes("majsoul", b, f, b2, Accepts(b.pending_reach) \o es)
  BY <1>2, <1>6, MajDrains DEF MajNames, MajOpens
<1>8. /\ d \in MajBridges /\ d.seat = b.seat /\ d.players = b.players /\ d.doras = b.doras
      /\ d.deferred = b.deferred
      /\ (d.replaying <=> b.replaying) /\ (Asked(d) <=> MajOpen(f)) /\ d.pending_reach = Nobody
  BY <1>7 DEF MajCleared, MajLike
<1>9. PICK k : k = MajNew(d, f)
  OBVIOUS
<1>10. k \in Nat /\ k + d.doras = IF f.doras > d.doras THEN f.doras ELSE d.doras
  BY <1>4, <1>6, <1>8, <1>9, MajDoras
<1>11. PICK b2, j : /\ MajSays(d, f, b2, Indicators(j) \o <<Ev("tsumo", a)>>) /\ j \in Nat
                    /\ MajKept(d, b2) /\ b2.pending_reach = d.pending_reach
                    /\ b2.doras = k + d.doras /\ j + b2.deferred = k + d.deferred
  BY <1>4, <1>6, <1>8, <1>9, MajTakes
<1>12. b2 \in MajBridges /\ b2.seat = d.seat /\ b2.players = d.players /\ (b2.replaying <=> d.replaying) /\ (Asked(b2) <=> Asked(d))
  BY <1>11 DEF MajKept
<1>13. PICK tsumo : tsumo = Ev("tsumo", a)
  OBVIOUS
<1>14. Becomes("majsoul", b, f, b2, Accepts(t.pending) \o (Indicators(j) \o <<tsumo>>))
  BY <1>2, <1>7, <1>11, <1>13
<1>15. PICK v1, r1 : Plays(v, r, Accepts(t.pending), v1, r1) /\ Hand(Settled(t), None, v1, r1) /\ Same(v, v1)
  BY <1>1, <1>2, SeePassed
<1>16. PICK v2 : Plays(v1, r1, Indicators(j), v2, r1) /\ Hand(Settled(t), None, v2, r1) /\ v2.dora = v1.dora + j
  BY <1>11, <1>15, SeeDoras
<1>17. PICK v3 : Plays(v2, r1, <<tsumo>>, v3, r1) /\ Hand(t2, None, v3, r1) /\ v3.dora = v2.dora
  BY <1>3, <1>13, <1>16, SeeTsumo
<1>18. Plays(v, r, Accepts(t.pending) \o (Indicators(j) \o <<tsumo>>), v3, r1)
  <2>1. Plays(v1, r1, Indicators(j) \o <<tsumo>>, v3, r1)
    BY <1>16, <1>17, PlaysBoth
  <2>. QED
    BY <1>15, <2>1, PlaysBoth
<1>19. MajOpen(f) <=> OwedAt(t2)
  BY <1>1, <1>5, MajAsks DEF MajOpens
<1>20. b2.doras <= t2.shown + t2.due
  BY <1>1, <1>2, <1>4, <1>6, <1>8, <1>10, <1>11
<1>21. MajFits(t2, b, b2)
  BY <1>1, <1>8, <1>11, <1>12, <1>19, <1>20, MajNobody DEF MajFits
<1>22. MajGood(t2, b2)
  BY <1>1, <1>2, <1>21, MajFitsGood
<1>23. v3.dora + b2.deferred = b2.doras
  <2>1. b2.deferred \in Nat
    BY <1>12 DEF MajBridges
  <2>2. v3.dora = v.dora + j
    BY <1>15, <1>16, <1>17 DEF Same
  <2>. QED
    BY <1>2, <1>8, <1>10, <1>11, <2>1, <2>2
<1>24. MajSeen(t2, m2, b2, v3, r1)
  BY <1>1, <1>17, <1>22, <1>23, MajPlays
<1>25. Majsoul!Frames(t, t2, m2, early) = <<f>>
  BY <1>1, <1>3 DEF Majsoul!Frames, MajTile
<1>26. MajStep(b, v, r, Majsoul!Frames(t, t2, m2, early), b2, v3, r1)
  BY <1>6, <1>8, <1>12, <1>14, <1>18, <1>25 DEF MajStep
<1>. QED
  BY <1>24, <1>26

(* ------ a tile is given up ----------------------------------------------- *)
MajDahai(t2, m2) == [Majsoul!Action("DiscardTile", t2, m2.seat) EXCEPT !.moqie = m2.giri, !.liqi = m2.riichi]
MajGave(c, k, a, p) == [c EXCEPT !.doras = k + c.doras, !.deferred = 0, !.revealed = a, !.pending_reach = p]

(* First the indicators, those deferred and the new ones; then the riichi.   *)
LEMMA MajGives ==
  ASSUME NEW c, c \in MajBridges, c.pending_reach = None, NEW f, f.name = "DiscardTile",
         f.doras \in Nat,
         NEW a, a \in 0..9, f.seat = a, NEW riichi, riichi \in BOOLEAN, f.liqi = riichi, NEW giri,
         f.moqie = giri,
         NEW k, k = MajNew(c, f), NEW p, p = (IF riichi THEN a ELSE None)
  PROVE  \E b2, j : /\ MajSays(c, f, b2, Indicators(j) \o (Announced(riichi, a) \o <<DahaiOf(a, giri)>>))
                    /\ j \in Nat /\ j = c.deferred + k
                    /\ MajKept(c, b2) /\ b2.pending_reach = p
                    /\ b2.revealed = a /\ b2.doras = k + c.doras /\ b2.deferred = 0
<1>1. PICK b2, j : b2 = MajGave(c, k, a, p) /\ j = c.deferred + k
  OBVIOUS
<1>2. k \in Nat /\ k + c.doras \in Nat /\ Majsoul!new_doras(c, f) = k /\ Majsoul!consumed(c, f) = [c EXCEPT !.doras = k + c.doras]
  BY MajDoras
<1>3. c.deferred \in Nat
  BY DEF MajBridges
<1>4. j \in Nat
  BY <1>1, <1>2, <1>3
<1>5. p \in 0..9 /\ 0 \in Nat
  BY MajNobody
<1>6. b2 \in MajBridges
  BY <1>1, <1>2, <1>5 DEF MajGave, MajBridges
<1>7. /\ b2.seat = c.seat /\ b2.players = c.players /\ b2.replaying = c.replaying
      /\ b2.window = c.window
      /\ b2.restore_window = c.restore_window /\ b2.doras = k + c.doras /\ b2.pending_reach = p
      /\ b2.deferred = 0 /\ b2.revealed = a
  BY <1>1 DEF MajGave, MajBridges
<1>8. MajKept(c, b2)
  <2>1. Asked(b2) <=> Asked(c)
    BY <1>7 DEF Asked
  <2>. QED
    BY <1>6, <1>7, <2>1 DEF MajKept
<1>9. PICK es, dahai : es = Announced(riichi, a) /\ dahai = DahaiOf(a, giri)
  OBVIOUS
<1>10. (IF f.liqi THEN <<Majsoul!Ev("reach", f.seat)>> ELSE <<>>) = es
  BY <1>9, MajEv DEF Announced
<1>11. [Majsoul!Ev("dahai", f.seat) EXCEPT !.giri = f.moqie] = dahai
  BY <1>9, MajEv DEF DahaiOf
<1>12. Majsoul!DoraEvents(c.deferred + Majsoul!new_doras(c, f)) = Indicators(j) /\ IsSeq(Indicators(j))
  BY <1>1, <1>2, <1>4, MajIndicators
<1>13. IsSeq(es) /\ IsSeq(<<dahai>>)
  BY <1>9, EmptyIsSeq, OneIsSeq DEF Announced
<1>14. [Majsoul!consumed(c, f) EXCEPT !.deferred = 0, !.revealed = f.seat, !.pending_reach = IF f.liqi THEN f.seat ELSE @] = b2
  BY <1>1, <1>2 DEF MajGave, MajBridges
<1>15. Majsoul!build(c, f) = Majsoul!build_dahai(c, f)
  BY DEF Majsoul!build
<1>16. Majsoul!build_dahai(c, f) = [bridge |-> b2, events |-> (Indicators(j) \o es) \o <<dahai>>]
  BY <1>10, <1>11, <1>12, <1>14, Zenon DEF Majsoul!build_dahai, Majsoul!Out
<1>17. (Indicators(j) \o es) \o <<dahai>> = Indicators(j) \o (es \o <<dahai>>) /\ IsSeq(Indicators(j) \o (es \o <<dahai>>))
  BY <1>12, <1>13, Joined
<1>18. MajSays(c, f, b2, Indicators(j) \o (es \o <<dahai>>))
  BY <1>15, <1>16, <1>17 DEF MajSays, RiichiDone
<1>. QED
  BY <1>1, <1>4, <1>7, <1>8, <1>9, <1>18

LEMMA MajDiscards ==
  ASSUME NEW t, NEW t2, NEW m, NEW m2, TableOK(t), TableOK(t2), HasDiscarded(t, t2, m2), NEW b,
         NEW v, NEW r, MajSeen(t, m, b, v, r),
         NEW early, early \in BOOLEAN
  PROVE  \E b2, v2, r2 : MajStep(b, v, r, Majsoul!Frames(t, t2, m2, early), b2, v2, r2) /\ MajSeen(t2, m2, b2, v2, r2)
<1>1. /\ t.stage = "act" /\ t2.stage = "open" /\ t2.shown = t.shown + t.due /\ t2.due = 0
      /\ t2.offer \in BOOLEAN
      /\ m2.kind = "discard" /\ t.pending = None /\ SameGame(t, t2) /\ m2.seat = t.turn
      /\ t2.turn = t.turn
      /\ m2.riichi \in BOOLEAN /\ t2.pending = (IF m2.riichi THEN t.turn ELSE None)
      /\ t.turn \in 0..(t.n - 1) /\ t2.kan = "none"
  BY TableFields DEF HasDiscarded, SameHand, TableOK, Stage
<1>2. /\ b \in MajBridges /\ b.seat = t.me /\ b.seat # Nobody /\ b.players = t.n
      /\ b.pending_reach = t.pending
      /\ Hand(t, t.pending, v, r) /\ v.dora \in Nat /\ b.deferred \in Nat /\ b.doras \in Nat
      /\ v.dora + b.deferred = b.doras /\ b.doras <= t.shown + t.due /\ t.shown \in Nat
      /\ t.due \in Nat
  BY <1>1, MajInHand
<1>3. PICK f, a, x, riichi, giri, p : /\ f = MajDahai(t2, m2) /\ a = t.turn /\ x = t2.shown /\ riichi = m2.riichi /\ giri = m2.giri
                                      /\ p = t2.pending
  OBVIOUS
<1>4. x \in Nat /\ x = t.shown + t.due /\ a \in 0..9 /\ riichi \in BOOLEAN /\ p = (IF riichi THEN a ELSE None)
  BY <1>1, <1>2, <1>3, SeatSpan
<1>5. MajAction(t2, f, "DiscardTile", a, x) /\ f.liqi = riichi /\ f.moqie = giri
  BY <1>1, <1>3 DEF MajDahai, Majsoul!Action, MajAction
<1>6. f.type = "action" /\ f.name = "DiscardTile" /\ f.seat = a /\ f.doras = x /\ f.op \in BOOLEAN
  BY <1>5 DEF MajAction
<1>7. PICK c : /\ MajNoted(b, f, c)
               /\ \A b2, es : MajSays(c, f, b2, es) => Becomes("majsoul", b, f, b2, es)
  BY <1>2, <1>6, MajKeeps
<1>8. /\ c \in MajBridges /\ c.seat = b.seat /\ c.players = b.players /\ c.doras = b.doras
      /\ c.deferred = b.deferred
      /\ (c.replaying <=> b.replaying) /\ (Asked(c) <=> MajOpen(f)) /\ c.pending_reach = None
  BY <1>1, <1>2, <1>7 DEF MajNoted, MajLike
<1>9. PICK k : k = MajNew(c, f)
  OBVIOUS
<1>10. k \in Nat /\ k + c.doras = IF f.doras > c.doras THEN f.doras ELSE c.doras
  BY <1>4, <1>6, <1>8, <1>9, MajDoras
<1>11. PICK b2, j : /\ MajSays(c, f, b2, Indicators(j) \o (Announced(riichi, a) \o <<DahaiOf(a, giri)>>))
                    /\ j \in Nat /\ j = c.deferred + k
                    /\ MajKept(c, b2) /\ b2.pending_reach = p
                    /\ b2.revealed = a /\ b2.doras = k + c.doras /\ b2.deferred = 0
  BY <1>4, <1>5, <1>6, <1>8, <1>9, MajGives
<1>12. b2 \in MajBridges /\ b2.seat = c.seat /\ b2.players = c.players /\ (b2.replaying <=> c.replaying) /\ (Asked(b2) <=> Asked(c))
  BY <1>11 DEF MajKept
<1>13. PICK dahai, says : dahai = DahaiOf(a, giri) /\ says = Announced(riichi, a)
  OBVIOUS
<1>14. Becomes("majsoul", b, f, b2, Indicators(j) \o (says \o <<dahai>>))
  BY <1>7, <1>11, <1>13
<1>15. PICK v1 : Plays(v, r, Indicators(j), v1, r) /\ Hand(t, None, v1, r) /\ v1.dora = v.dora + j
  <2>1. PICK none : none = t.pending
    OBVIOUS
  <2>2. Hand(t, none, v, r) /\ j \in Nat
    BY <1>2, <1>11, <2>1
  <2>3. \E v1 : Plays(v, r, Indicators(j), v1, r) /\ Hand(t, none, v1, r) /\ v1.dora = v.dora + j
    BY <2>2, SeeDoras
  <2>. QED
    BY <1>1, <2>1, <2>3
<1>16. PICK v2 : Plays(v1, r, says, v2, r) /\ Hand(t, Declared(t, m2), v2, r) /\ Same(v1, v2)
  BY <1>3, <1>13, <1>15, SeeDeclared
<1>17. PICK v3 : Plays(v2, r, <<dahai>>, v3, r) /\ Hand(t2, t2.pending, v3, r) /\ v3.dora = v2.dora /\ v3.floor = a /\ v3.giri = giri
  <2>1. dahai = [Ev("dahai", t.turn) EXCEPT !.giri = m2.giri]
    BY <1>3, <1>13 DEF DahaiOf
  <2>. QED
    BY <1>3, <1>16, <2>1, SeeDahai
<1>18. Plays(v, r, Indicators(j) \o (says \o <<dahai>>), v3, r)
  <2>1. Plays(v1, r, says \o <<dahai>>, v3, r)
    BY <1>16, <1>17, PlaysBoth
  <2>. QED
    BY <1>15, <2>1, PlaysBoth
<1>19. MajOpen(f) <=> OwedAt(t2)
  BY <1>1, <1>5, MajAsks DEF MajOpens
<1>20. b2.doras = t2.shown
  BY <1>1, <1>2, <1>3, <1>4, <1>6, <1>8, <1>10, <1>11
<1>21. b2.doras <= t2.shown + t2.due
  BY <1>1, <1>3, <1>4, <1>20
<1>22. MajFits(t2, b, b2)
  BY <1>1, <1>3, <1>8, <1>11, <1>12, <1>19, <1>21 DEF MajFits
<1>23. MajGood(t2, b2)
  BY <1>1, <1>2, <1>22, MajFitsGood
<1>24. v3.dora + b2.deferred = b2.doras /\ v3.dora = t2.shown
  <2>1. v3.dora = v.dora + j
    BY <1>15, <1>16, <1>17 DEF Same
  <2>2. v3.dora = b2.doras
    BY <1>2, <1>8, <1>10, <1>11, <2>1
  <2>3. t2.shown \in Nat
    BY <1>3, <1>4
  <2>. QED
    BY <1>11, <1>20, <2>2, <2>3
<1>25. MajSeen(t2, m2, b2, v3, r)
  BY <1>1, <1>3, <1>17, <1>23, <1>24, MajPlays
<1>26. Majsoul!Frames(t, t2, m2, early) = <<f>>
  BY <1>1, <1>3 DEF Majsoul!Frames, MajDahai
<1>27. MajStep(b, v, r, Majsoul!Frames(t, t2, m2, early), b2, v3, r)
  BY <1>6, <1>8, <1>12, <1>14, <1>18, <1>26 DEF MajStep
<1>. QED
  BY <1>25, <1>27

(* ------ a tile is called ------------------------------------------------- *)
MajCall(t2, m2) == [Majsoul!Action("ChiPengGang", t2, m2.seat) EXCEPT !.kind = m2.call, !.from = m2.from]
MajMelded(d, c) == [d EXCEPT !.timing = IF c = "daiminkan" THEN "after" ELSE @]

LEMMA MajMelds ==
  ASSUME NEW d, d \in MajBridges, NEW f, f.name = "ChiPengGang", NEW c, f.kind = c, NEW a,
         f.seat = a, NEW g, f.from = g,
         c # "chi" \/ d.players # 3
  PROVE  \E b2 : /\ MajSays(d, f, b2, <<MeldOf(c, a, g)>>)
                 /\ MajKept(d, b2) /\ b2.pending_reach = d.pending_reach /\ b2.doras = d.doras
                 /\ b2.deferred = d.deferred
                 /\ b2.revealed = d.revealed
<1>1. PICK b2, e, tm : b2 = MajMelded(d, c) /\ e = MeldOf(c, a, g) /\ tm = IF c = "daiminkan" THEN "after" ELSE d.timing
  OBVIOUS
<1>2. b2 = [d EXCEPT !.timing = tm] /\ tm \in {"none", "before", "after"}
  BY <1>1 DEF MajMelded, MajBridges
<1>3. b2 \in MajBridges
  BY <1>2 DEF MajBridges
<1>4. /\ b2.seat = d.seat /\ b2.players = d.players /\ b2.replaying = d.replaying
      /\ b2.window = d.window
      /\ b2.restore_window = d.restore_window /\ b2.doras = d.doras
      /\ b2.pending_reach = d.pending_reach
      /\ b2.deferred = d.deferred /\ b2.revealed = d.revealed
  BY <1>2 DEF MajBridges
<1>5. MajKept(d, b2)
  BY <1>3, <1>4 DEF MajKept, Asked
<1>6. [Majsoul!Ev(f.kind, f.seat) EXCEPT !.target = f.from] = e
  BY <1>1, MajEv DEF MeldOf
<1>7. ~(f.kind = "chi" /\ d.players = 3)
  OBVIOUS
<1>8. [d EXCEPT !.timing = IF f.kind = "daiminkan" THEN "after" ELSE @] = b2
  BY <1>1 DEF MajMelded
<1>9. Majsoul!build(d, f) = Majsoul!build_chi_peng_gang(d, f)
  BY DEF Majsoul!build
<1>10. Majsoul!build_chi_peng_gang(d, f) = [bridge |-> b2, events |-> <<e>>]
  BY <1>6, <1>7, <1>8, Zenon DEF Majsoul!build_chi_peng_gang, Majsoul!Out
<1>11. MajSays(d, f, b2, <<e>>)
  BY <1>9, <1>10, OneIsSeq DEF MajSays, RiichiDone
<1>. QED
  BY <1>1, <1>4, <1>5, <1>11

LEMMA MajCalls ==
  ASSUME NEW t, NEW t2, NEW m, NEW m2, TableOK(t), TableOK(t2), HasCalled(t, t2, m2), NEW b, NEW v,
         NEW r, MajSeen(t, m, b, v, r),
         NEW early, early \in BOOLEAN
  PROVE  \E b2, v2, r2 : MajStep(b, v, r, Majsoul!Frames(t, t2, m2, early), b2, v2, r2) /\ MajSeen(t2, m2, b2, v2, r2)
<1>1. /\ t.stage = "open" /\ t2.stage = (IF m2.call = "daiminkan" THEN "open" ELSE "act")
      /\ t2.shown = t.shown
      /\ t2.due = t.due + (IF m2.call = "daiminkan" THEN 1 ELSE 0) /\ t2.offer \in BOOLEAN
      /\ m2.kind = "call" /\ t2.pending = None /\ SameGame(t, t2) /\ m2.from = t.turn
      /\ m2.call \in Calls /\ (m2.call = "chi" => t.n = 4)
      /\ t2.kan = IF m2.call = "daiminkan" THEN "daiminkan" ELSE "none"
  BY TableFields DEF HasCalled, SameHand
<1>2. /\ b \in MajBridges /\ b.seat = t.me /\ b.seat # Nobody /\ b.players = t.n
      /\ b.pending_reach = t.pending
      /\ Hand(t, t.pending, v, r) /\ v.dora \in Nat /\ b.deferred \in Nat /\ b.doras \in Nat
      /\ v.dora + b.deferred = b.doras /\ b.doras <= t.shown + t.due /\ t.shown \in Nat
      /\ t.due \in Nat
  BY <1>1, MajInHand
<1>3. PICK f, a, g, x, call : f = MajCall(t2, m2) /\ a = m2.seat /\ g = t.turn /\ x = t2.shown /\ call = m2.call
  OBVIOUS
<1>4. MajAction(t2, f, "ChiPengGang", a, x) /\ f.kind = call /\ f.from = g
  BY <1>1, <1>3 DEF MajCall, Majsoul!Action, MajAction
<1>5. f.type = "action" /\ f.name = "ChiPengGang" /\ f.seat = a /\ f.op \in BOOLEAN
  BY <1>4 DEF MajAction
<1>6. PICK d : /\ MajCleared(b, f, d)
               /\ \A b2, es : MajSays(d, f, b2, es) => Becomes("majsoul", b, f, b2, Accepts(b.pending_reach) \o es)
  <2>1. f.name \in MajNames \ {"Hule", "DiscardTile"}
    BY <1>5 DEF MajNames, MajOpens
  <2>. QED
    BY <1>2, <1>5, <2>1, MajDrains
<1>7. /\ d \in MajBridges /\ d.seat = b.seat /\ d.players = b.players /\ d.doras = b.doras
      /\ d.deferred = b.deferred
      /\ (d.replaying <=> b.replaying) /\ (Asked(d) <=> MajOpen(f)) /\ d.pending_reach = Nobody
  BY <1>6 DEF MajCleared, MajLike
<1>8. call # "chi" \/ d.players # 3
  BY <1>1, <1>2, <1>3, <1>7
<1>9. PICK b2 : /\ MajSays(d, f, b2, <<MeldOf(call, a, g)>>)
                /\ MajKept(d, b2) /\ b2.pending_reach = d.pending_reach /\ b2.doras = d.doras
                /\ b2.deferred = d.deferred
  BY <1>4, <1>5, <1>7, <1>8, MajMelds
<1>10. b2 \in MajBridges /\ b2.seat = d.seat /\ b2.players = d.players /\ (b2.replaying <=> d.replaying) /\ (Asked(b2) <=> Asked(d))
  BY <1>9 DEF MajKept
<1>11. PICK e : e = MeldOf(call, a, g)
  OBVIOUS
<1>12. Becomes("majsoul", b, f, b2, Accepts(t.pending) \o <<e>>)
  BY <1>2, <1>6, <1>9, <1>11
<1>13. PICK v1, r1 : Plays(v, r, Accepts(t.pending), v1, r1) /\ Hand(Settled(t), None, v1, r1) /\ Same(v, v1)
  BY <1>1, <1>2, SeePassed
<1>14. PICK v2 : Plays(v1, r1, <<e>>, v2, r1) /\ Hand(t2, None, v2, r1) /\ v2.dora = v1.dora
  <2>1. e = [Ev(m2.call, m2.seat) EXCEPT !.target = t.turn]
    BY <1>3, <1>11 DEF MeldOf
  <2>. QED
    BY <1>13, <2>1, SeeCall
<1>15. Plays(v, r, Accepts(t.pending) \o <<e>>, v2, r1)
  BY <1>13, <1>14, PlaysBoth
<1>16. MajOpen(f) <=> OwedAt(t2)
  <2>1. t2.stage \in {"act", "open"} /\ "ChiPengGang" \in MajOpens
    BY <1>1 DEF MajOpens
  <2>. QED
    BY <1>4, <2>1, MajAsks
<1>17. b2.doras <= t2.shown + t2.due
  BY <1>1, <1>2, <1>7, <1>9
<1>18. t2.stage = "open" => t2.kan = "daiminkan"
  BY <1>1
<1>19. MajFits(t2, b, b2)
  BY <1>1, <1>7, <1>9, <1>10, <1>16, <1>17, <1>18, MajNobody DEF MajFits
<1>20. MajGood(t2, b2)
  <2>1. t2.stage \in {"act", "open"}
    BY <1>1
  <2>. QED
    BY <1>1, <1>2, <1>19, <2>1, MajFitsGood
<1>21. v2.dora + b2.deferred = b2.doras
  BY <1>2, <1>7, <1>9, <1>13, <1>14 DEF Same
<1>22. MajSeen(t2, m2, b2, v2, r1)
  <2>1. t2.stage \in {"act", "open"} /\ m2.kind # "discard"
    BY <1>1
  <2>. QED
    BY <1>1, <1>14, <1>20, <1>21, <2>1, MajPlays
<1>23. Majsoul!Frames(t, t2, m2, early) = <<f>>
  BY <1>1, <1>3 DEF Majsoul!Frames, MajCall
<1>24. MajStep(b, v, r, Majsoul!Frames(t, t2, m2, early), b2, v2, r1)
  BY <1>5, <1>7, <1>10, <1>12, <1>15, <1>23 DEF MajStep
<1>. QED
  BY <1>22, <1>24

(* ------ a seat's own kan ------------------------------------------------- *)
MajNorth(d, k, a) == [d EXCEPT !.doras = k + d.doras, !.deferred = 0, !.revealed = a]

LEMMA MajNorths ==
  ASSUME NEW d, d \in MajBridges, NEW f, f.name = "BaBei", f.doras \in Nat, NEW a, a \in 0..9,
         f.seat = a, NEW k, k = MajNew(d, f)
  PROVE  \E b2, j : /\ MajSays(d, f, b2, Indicators(j) \o <<Ev("kita", a)>>) /\ j \in Nat /\ j = d.deferred + k
                    /\ MajKept(d, b2) /\ b2.pending_reach = d.pending_reach
                    /\ b2.revealed = a /\ b2.doras = k + d.doras /\ b2.deferred = 0
<1>1. PICK b2, j, e : b2 = MajNorth(d, k, a) /\ j = d.deferred + k /\ e = Ev("kita", a)
  OBVIOUS
<1>2. k \in Nat /\ k + d.doras \in Nat /\ Majsoul!new_doras(d, f) = k /\ Majsoul!consumed(d, f) = [d EXCEPT !.doras = k + d.doras]
  BY MajDoras
<1>3. j \in Nat
  BY <1>1, <1>2 DEF MajBridges
<1>4. b2 \in MajBridges
  <2>1. 0 \in Nat
    OBVIOUS
  <2>. QED
    BY <1>1, <1>2, <2>1 DEF MajNorth, MajBridges
<1>5. /\ b2.seat = d.seat /\ b2.players = d.players /\ b2.replaying = d.replaying
      /\ b2.window = d.window
      /\ b2.restore_window = d.restore_window /\ b2.doras = k + d.doras
      /\ b2.pending_reach = d.pending_reach
      /\ b2.deferred = 0 /\ b2.revealed = a
  BY <1>1 DEF MajNorth, MajBridges
<1>6. MajKept(d, b2)
  BY <1>4, <1>5 DEF MajKept, Asked
<1>7. Majsoul!DoraEvents(d.deferred + Majsoul!new_doras(d, f)) = Indicators(j) /\ IsSeq(Indicators(j)) /\ Majsoul!Ev("kita", f.seat) = e
  BY <1>1, <1>2, <1>3, MajIndicators, MajEv
<1>8. [Majsoul!consumed(d, f) EXCEPT !.deferred = 0, !.revealed = f.seat] = b2
  BY <1>1, <1>2 DEF MajNorth, MajBridges
<1>9. Majsoul!build(d, f) = Majsoul!build_kita(d, f)
  BY DEF Majsoul!build
<1>10. Majsoul!build_kita(d, f) = [bridge |-> b2, events |-> Indicators(j) \o <<e>>]
  BY <1>7, <1>8, Zenon DEF Majsoul!build_kita, Majsoul!Out
<1>11. IsSeq(Indicators(j) \o <<e>>)
  BY <1>7, OneIsSeq, Joined
<1>12. MajSays(d, f, b2, Indicators(j) \o <<e>>)
  BY <1>9, <1>10, <1>11 DEF MajSays, RiichiDone
<1>. QED
  BY <1>1, <1>3, <1>5, <1>6, <1>12

MajFour(d, k, a, c) ==
  IF c = "kakan" THEN [d EXCEPT !.doras = k + d.doras, !.revealed = a, !.timing = "after", !.deferred = d.deferred + k]
  ELSE [d EXCEPT !.doras = k + d.doras, !.revealed = a, !.timing = IF k = 0 THEN "before" ELSE d.timing]

LEMMA MajFours ==
  ASSUME NEW d, d \in MajBridges, NEW f, f.name = "AnGangAddGang", f.doras \in Nat, NEW a,
         a \in 0..9, f.seat = a,
         NEW c, c \in {"kakan", "ankan"}, f.kind = c, NEW k, k = MajNew(d, f)
  PROVE  \E b2, j : /\ MajSays(d, f, b2, <<Ev(c, a)>> \o Indicators(j)) /\ j \in Nat /\ j + b2.deferred = k + d.deferred
                    /\ MajKept(d, b2) /\ b2.pending_reach = d.pending_reach
                    /\ b2.revealed = a /\ b2.doras = k + d.doras
<1>1. PICK b2, e : b2 = MajFour(d, k, a, c) /\ e = Ev(c, a)
  OBVIOUS
<1>2. k \in Nat /\ k + d.doras \in Nat /\ Majsoul!new_doras(d, f) = k /\ Majsoul!consumed(d, f) = [d EXCEPT !.doras = k + d.doras]
  BY MajDoras
<1>3. d.deferred \in Nat /\ d.deferred + k \in Nat
  BY <1>2 DEF MajBridges
<1>4. Majsoul!DoraEvents(k) = Indicators(k) /\ IsSeq(Indicators(k)) /\ Majsoul!Ev(f.kind, f.seat) = e /\ IsSeq(<<e>>)
  BY <1>1, <1>2, MajIndicators, MajEv, OneIsSeq
<1>5. Majsoul!build(d, f) = Majsoul!build_an_gang_add_gang(d, f)
  BY DEF Majsoul!build
<1>6. PICK x : x = [Majsoul!consumed(d, f) EXCEPT !.revealed = f.seat]
  OBVIOUS
<1>7. Majsoul!build_an_gang_add_gang(d, f) =
        IF c = "kakan" THEN [bridge |-> [x EXCEPT !.timing = "after", !.deferred = @ + k], events |-> <<e>>]
        ELSE [bridge |-> [x EXCEPT !.timing = IF k = 0 THEN "before" ELSE @], events |-> <<e>> \o Indicators(k)]
  BY <1>2, <1>4, <1>6 DEF Majsoul!build_an_gang_add_gang, Majsoul!Out
<1>8. CASE c = "kakan"
  <2>1. b2 = [d EXCEPT !.doras = k + d.doras, !.revealed = a, !.timing = "after", !.deferred = d.deferred + k]
    BY <1>1, <1>8 DEF MajFour
  <2>2. b2 \in MajBridges
    BY <1>2, <1>3, <2>1 DEF MajBridges
  <2>3. /\ b2.seat = d.seat /\ b2.players = d.players /\ b2.replaying = d.replaying
        /\ b2.window = d.window
        /\ b2.restore_window = d.restore_window /\ b2.doras = k + d.doras
        /\ b2.pending_reach = d.pending_reach
        /\ b2.deferred = d.deferred + k /\ b2.revealed = a
    BY <2>1 DEF MajBridges
  <2>4. MajKept(d, b2)
    BY <2>2, <2>3 DEF MajKept, Asked
  <2>5. [x EXCEPT !.timing = "after", !.deferred = @ + k] = b2
    BY <1>2, <1>6, <2>1 DEF MajBridges
  <2>6. PICK zero : zero = 0
    OBVIOUS
  <2>7. Indicators(zero) = <<>>
    BY <2>6 DEF Indicators
  <2>8. <<e>> \o <<>> = <<e>>
    BY <1>4, NothingElse
  <2>9. MajSays(d, f, b2, <<e>> \o Indicators(zero))
    BY <1>4, <1>5, <1>7, <1>8, <2>5, <2>7, <2>8 DEF MajSays, RiichiDone
  <2>10. zero \in Nat /\ zero + b2.deferred = k + d.deferred
    BY <1>2, <1>3, <2>3, <2>6
  <2>. QED
    BY <1>1, <2>3, <2>4, <2>9, <2>10
<1>9. CASE c = "ankan"
  <2>0. PICK tm : tm = IF k = 0 THEN "before" ELSE d.timing
    OBVIOUS
  <2>1. b2 = [d EXCEPT !.doras = k + d.doras, !.revealed = a, !.timing = tm] /\ tm \in {"none", "before", "after"}
    BY <1>1, <1>9, <2>0 DEF MajFour, MajBridges
  <2>2. b2 \in MajBridges
    BY <1>2, <1>3, <2>1 DEF MajBridges
  <2>3. /\ b2.seat = d.seat /\ b2.players = d.players /\ b2.replaying = d.replaying
        /\ b2.window = d.window
        /\ b2.restore_window = d.restore_window /\ b2.doras = k + d.doras
        /\ b2.pending_reach = d.pending_reach
        /\ b2.deferred = d.deferred /\ b2.revealed = a
    BY <2>1 DEF MajBridges
  <2>4. MajKept(d, b2)
    BY <2>2, <2>3 DEF MajKept, Asked
  <2>5. [x EXCEPT !.timing = IF k = 0 THEN "before" ELSE @] = b2
    BY <1>2, <1>6, <2>0, <2>1 DEF MajBridges
  <2>6. IsSeq(<<e>> \o Indicators(k))
    BY <1>4, Joined
  <2>7. MajSays(d, f, b2, <<e>> \o Indicators(k))
    BY <1>5, <1>7, <1>9, <2>5, <2>6 DEF MajSays, RiichiDone
  <2>. QED
    BY <1>1, <1>2, <2>3, <2>4, <2>7
<1>. QED
  BY <1>8, <1>9

LEMMA MajKitas ==
  ASSUME NEW t, NEW t2, NEW m, NEW m2, TableOK(t), TableOK(t2), HasKan(t, t2, m2), m2.call = "kita",
         NEW b, NEW v, NEW r,
         MajSeen(t, m, b, v, r), NEW early, early \in BOOLEAN
  PROVE  \E b2, v2, r2 : MajStep(b, v, r, Majsoul!Frames(t, t2, m2, early), b2, v2, r2) /\ MajSeen(t2, m2, b2, v2, r2)
<1>1. /\ t.stage = "act" /\ t2.stage = "open" /\ t2.shown = t.shown + t.due /\ t2.due = 0
      /\ t2.offer \in BOOLEAN
      /\ m2.kind = "kan" /\ t.pending = None /\ t2.pending = None /\ SameGame(t, t2)
      /\ m2.seat = t.turn /\ t2.turn = t.turn
      /\ t.turn \in 0..(t.n - 1)
  BY TableFields DEF HasKan, SameHand, TableOK, Stage
<1>2. /\ b \in MajBridges /\ b.seat = t.me /\ b.seat # Nobody /\ b.players = t.n
      /\ b.pending_reach = t.pending
      /\ Hand(t, t.pending, v, r) /\ v.dora \in Nat /\ b.deferred \in Nat /\ b.doras \in Nat
      /\ v.dora + b.deferred = b.doras /\ b.doras <= t.shown + t.due /\ t.shown \in Nat
      /\ t.due \in Nat
  BY <1>1, MajInHand
<1>3. PICK f, a, x : f = Majsoul!Action("BaBei", t2, m2.seat) /\ a = t.turn /\ x = t2.shown
  OBVIOUS
<1>4. x \in Nat /\ x = t.shown + t.due /\ a \in 0..9
  BY <1>1, <1>2, <1>3, SeatSpan
<1>5. MajAction(t2, f, "BaBei", a, x)
  BY <1>1, <1>3 DEF Majsoul!Action, MajAction
<1>6. f.type = "action" /\ f.name = "BaBei" /\ f.seat = a /\ f.doras = x /\ f.op \in BOOLEAN
  BY <1>5 DEF MajAction
<1>7. PICK d : /\ MajCleared(b, f, d)
               /\ \A b2, es : MajSays(d, f, b2, es) => Becomes("majsoul", b, f, b2, Accepts(b.pending_reach) \o es)
  <2>1. f.name \in MajNames \ {"Hule", "DiscardTile"}
    BY <1>6 DEF MajNames, MajOpens
  <2>. QED
    BY <1>2, <1>6, <2>1, MajDrains
<1>8. /\ d \in MajBridges /\ d.seat = b.seat /\ d.players = b.players /\ d.doras = b.doras
      /\ d.deferred = b.deferred
      /\ (d.replaying <=> b.replaying) /\ (Asked(d) <=> MajOpen(f)) /\ d.pending_reach = Nobody
  BY <1>7 DEF MajCleared, MajLike
<1>9. PICK k : k = MajNew(d, f)
  OBVIOUS
<1>10. k \in Nat /\ k + d.doras = IF f.doras > d.doras THEN f.doras ELSE d.doras
  <2>1. f.doras \in Nat /\ d \in MajBridges
    BY <1>4, <1>6, <1>8
  <2>. QED
    BY <1>9, <2>1, MajDoras
<1>11. PICK b2, j : /\ MajSays(d, f, b2, Indicators(j) \o <<Ev("kita", a)>>) /\ j \in Nat /\ j = d.deferred + k
                    /\ MajKept(d, b2) /\ b2.pending_reach = d.pending_reach
                    /\ b2.revealed = a /\ b2.doras = k + d.doras /\ b2.deferred = 0
  BY <1>4, <1>6, <1>8, <1>9, MajNorths
<1>12. b2 \in MajBridges /\ b2.seat = d.seat /\ b2.players = d.players /\ (b2.replaying <=> d.replaying) /\ (Asked(b2) <=> Asked(d))
  BY <1>11 DEF MajKept
<1>13. PICK e : e = Ev("kita", a)
  OBVIOUS
<1>14. Becomes("majsoul", b, f, b2, Accepts(b.pending_reach) \o (Indicators(j) \o <<e>>))
  BY <1>7, <1>11, <1>13
<1>15. PICK v1 : Plays(v, r, Indicators(j), v1, r) /\ Hand(t, None, v1, r) /\ v1.dora = v.dora + j
  <2>1. PICK none : none = t.pending
    OBVIOUS
  <2>2. Hand(t, none, v, r) /\ j \in Nat
    BY <1>2, <1>11, <2>1
  <2>3. \E v1 : Plays(v, r, Indicators(j), v1, r) /\ Hand(t, none, v1, r) /\ v1.dora = v.dora + j
    BY <2>2, SeeDoras
  <2>. QED
    BY <1>1, <2>1, <2>3
<1>16. PICK v2 : Plays(v1, r, <<e>>, v2, r) /\ Hand(t2, None, v2, r) /\ v2.dora = v1.dora
  <2>1. e = Ev(m2.call, m2.seat)
    BY <1>1, <1>3, <1>13
  <2>. QED
    BY <1>15, <2>1, SeeKan
<1>17. Plays(v, r, Accepts(b.pending_reach) \o (Indicators(j) \o <<e>>), v2, r)
  <2>1. Accepts(b.pending_reach) = <<>>
    BY <1>1, <1>2 DEF Accepts
  <2>2. Plays(v, r, Accepts(b.pending_reach), v, r)
    BY <2>1, PlaysNothing
  <2>3. Plays(v, r, Indicators(j) \o <<e>>, v2, r)
    BY <1>15, <1>16, PlaysBoth
  <2>. QED
    BY <2>2, <2>3, PlaysBoth
<1>18. MajOpen(f) <=> OwedAt(t2)
  <2>1. "BaBei" \in MajOpens /\ t2.stage \in {"act", "open"}
    BY <1>1 DEF MajOpens
  <2>. QED
    BY <1>5, <2>1, MajAsks
<1>19. b2.doras = t2.shown
  BY <1>1, <1>2, <1>3, <1>4, <1>6, <1>8, <1>10, <1>11
<1>20. b2.doras <= t2.shown + t2.due
  BY <1>1, <1>3, <1>4, <1>19
<1>21. MajFits(t2, b, b2)
  BY <1>1, <1>3, <1>8, <1>11, <1>12, <1>18, <1>20, MajNobody DEF MajFits
<1>22. MajGood(t2, b2)
  BY <1>1, <1>2, <1>21, MajFitsGood
<1>23. v2.dora + b2.deferred = b2.doras
  <2>1. v2.dora = v.dora + j
    BY <1>15, <1>16
  <2>. QED
    BY <1>2, <1>8, <1>10, <1>11, <2>1
<1>24. MajSeen(t2, m2, b2, v2, r)
  BY <1>1, <1>16, <1>22, <1>23, MajPlays
<1>25. Majsoul!Frames(t, t2, m2, early) = <<f>>
  BY <1>1, <1>3 DEF Majsoul!Frames
<1>26. MajStep(b, v, r, Majsoul!Frames(t, t2, m2, early), b2, v2, r)
  BY <1>6, <1>8, <1>12, <1>14, <1>17, <1>25 DEF MajStep
<1>. QED
  BY <1>24, <1>26

MajGang(t, t2, m2) == [Majsoul!Action("AnGangAddGang", t, m2.seat) EXCEPT !.op = t2.offer, !.kind = m2.call]

LEMMA MajFourKans ==
  ASSUME NEW t, NEW t2, NEW m, NEW m2, TableOK(t), TableOK(t2), HasKan(t, t2, m2), m2.call # "kita",
         NEW b, NEW v, NEW r,
         MajSeen(t, m, b, v, r), NEW early, early \in BOOLEAN
  PROVE  \E b2, v2, r2 : MajStep(b, v, r, Majsoul!Frames(t, t2, m2, early), b2, v2, r2) /\ MajSeen(t2, m2, b2, v2, r2)
<1>1. /\ t.stage = "act" /\ t2.stage = "open" /\ t2.offer \in BOOLEAN
      /\ m2.kind = "kan" /\ t.pending = None /\ t2.pending = None /\ SameGame(t, t2)
      /\ m2.seat = t.turn /\ t2.turn = t.turn
      /\ t.turn \in 0..(t.n - 1) /\ m2.call \in {"kakan", "ankan"}
      /\ t2.shown + t2.due = (t.shown + t.due) + 1
  <2>1. m2.call \in {"kakan", "ankan"}
    BY DEF HasKan, OwnKans
  <2>2. t.shown \in Nat /\ t.due \in Nat
    BY TableFields
  <2>3. t2.shown + t2.due = (t.shown + t.due) + 1
    BY <2>1, <2>2 DEF HasKan
  <2>. QED
    BY <2>1, <2>3, TableFields DEF HasKan, SameHand, TableOK, Stage
<1>2. /\ b \in MajBridges /\ b.seat = t.me /\ b.seat # Nobody /\ b.players = t.n
      /\ b.pending_reach = t.pending
      /\ Hand(t, t.pending, v, r) /\ v.dora \in Nat /\ b.deferred \in Nat /\ b.doras \in Nat
      /\ v.dora + b.deferred = b.doras /\ b.doras <= t.shown + t.due /\ t.shown \in Nat
      /\ t.due \in Nat
  BY <1>1, MajInHand
<1>3. PICK f, a, x, c : f = MajGang(t, t2, m2) /\ a = t.turn /\ x = t.shown /\ c = m2.call
  OBVIOUS
<1>4. x \in Nat /\ a \in 0..9 /\ c \in {"kakan", "ankan"}
  BY <1>1, <1>2, <1>3, SeatSpan
<1>5. MajAction(t2, f, "AnGangAddGang", a, x) /\ f.kind = c
  BY <1>1, <1>3 DEF MajGang, Majsoul!Action, MajAction
<1>6. f.type = "action" /\ f.name = "AnGangAddGang" /\ f.seat = a /\ f.doras = x /\ f.op \in BOOLEAN
  BY <1>5 DEF MajAction
<1>7. PICK d : /\ MajCleared(b, f, d)
               /\ \A b2, es : MajSays(d, f, b2, es) => Becomes("majsoul", b, f, b2, Accepts(b.pending_reach) \o es)
  <2>1. f.name \in MajNames \ {"Hule", "DiscardTile"}
    BY <1>6 DEF MajNames, MajOpens
  <2>. QED
    BY <1>2, <1>6, <2>1, MajDrains
<1>8. /\ d \in MajBridges /\ d.seat = b.seat /\ d.players = b.players /\ d.doras = b.doras
      /\ d.deferred = b.deferred
      /\ (d.replaying <=> b.replaying) /\ (Asked(d) <=> MajOpen(f)) /\ d.pending_reach = Nobody
  BY <1>7 DEF MajCleared, MajLike
<1>9. PICK k : k = MajNew(d, f)
  OBVIOUS
<1>10. k \in Nat /\ k + d.doras = IF f.doras > d.doras THEN f.doras ELSE d.doras
  <2>1. f.doras \in Nat /\ d \in MajBridges
    BY <1>4, <1>6, <1>8
  <2>. QED
    BY <1>9, <2>1, MajDoras
<1>11. PICK b2, j : /\ MajSays(d, f, b2, <<Ev(c, a)>> \o Indicators(j)) /\ j \in Nat /\ j + b2.deferred = k + d.deferred
                    /\ MajKept(d, b2) /\ b2.pending_reach = d.pending_reach
                    /\ b2.revealed = a /\ b2.doras = k + d.doras
  BY <1>4, <1>5, <1>6, <1>8, <1>9, MajFours
<1>12. b2 \in MajBridges /\ b2.seat = d.seat /\ b2.players = d.players /\ (b2.replaying <=> d.replaying) /\ (Asked(b2) <=> Asked(d))
  BY <1>11 DEF MajKept
<1>13. PICK e : e = Ev(c, a)
  OBVIOUS
<1>14. Becomes("majsoul", b, f, b2, Accepts(b.pending_reach) \o (<<e>> \o Indicators(j)))
  BY <1>7, <1>11, <1>13
<1>15. PICK v1 : Plays(v, r, <<e>>, v1, r) /\ Hand(t2, None, v1, r) /\ v1.dora = v.dora
  <2>1. e = Ev(m2.call, m2.seat) /\ Hand(t, None, v, r)
    BY <1>1, <1>2, <1>3, <1>13
  <2>. QED
    BY <2>1, SeeKan
<1>16. PICK v2 : Plays(v1, r, Indicators(j), v2, r) /\ Hand(t2, None, v2, r) /\ v2.dora = v1.dora + j
  <2>1. PICK none : none = t2.pending
    OBVIOUS
  <2>2. Hand(t2, none, v1, r) /\ j \in Nat
    BY <1>1, <1>11, <1>15, <2>1
  <2>3. PICK w : w = v1
    OBVIOUS
  <2>4. Hand(t2, none, w, r)
    BY <2>2, <2>3
  <2>5. PICK v2 : Plays(w, r, Indicators(j), v2, r) /\ Hand(t2, none, v2, r) /\ v2.dora = w.dora + j
    BY <2>2, <2>4, SeeDoras
  <2>. QED
    BY <1>1, <2>1, <2>3, <2>5
<1>17. Plays(v, r, Accepts(b.pending_reach) \o (<<e>> \o Indicators(j)), v2, r)
  <2>1. Accepts(b.pending_reach) = <<>>
    BY <1>1, <1>2 DEF Accepts
  <2>2. Plays(v, r, Accepts(b.pending_reach), v, r)
    BY <2>1, PlaysNothing
  <2>3. Plays(v, r, <<e>> \o Indicators(j), v2, r)
    BY <1>15, <1>16, PlaysBoth
  <2>. QED
    BY <2>2, <2>3, PlaysBoth
<1>18. MajOpen(f) <=> OwedAt(t2)
  <2>1. "AnGangAddGang" \in MajOpens /\ t2.stage \in {"act", "open"}
    BY <1>1 DEF MajOpens
  <2>. QED
    BY <1>5, <2>1, MajAsks
<1>19. b2.doras <= t2.shown + t2.due
  BY <1>1, <1>2, <1>3, <1>4, <1>6, <1>8, <1>10, <1>11
<1>20. MajFits(t2, b, b2)
  BY <1>1, <1>3, <1>8, <1>11, <1>12, <1>18, <1>19, MajNobody DEF MajFits
<1>21. MajGood(t2, b2)
  BY <1>1, <1>2, <1>20, MajFitsGood
<1>22. v2.dora + b2.deferred = b2.doras
  <2>1. v2.dora = v.dora + j
    BY <1>15, <1>16
  <2>2. b2.deferred \in Nat
    BY <1>12 DEF MajBridges
  <2>. QED
    BY <1>2, <1>8, <1>10, <1>11, <2>1, <2>2
<1>23. MajSeen(t2, m2, b2, v2, r)
  BY <1>1, <1>16, <1>21, <1>22, MajPlays
<1>24. Majsoul!Frames(t, t2, m2, early) = <<f>>
  BY <1>1, <1>3 DEF Majsoul!Frames, MajGang
<1>25. MajStep(b, v, r, Majsoul!Frames(t, t2, m2, early), b2, v2, r)
  BY <1>6, <1>8, <1>12, <1>14, <1>17, <1>24 DEF MajStep
<1>. QED
  BY <1>23, <1>25

(* ------ the end of a hand ------------------------------------------------ *)
(* The hand is told; at the end of the game its result follows.              *)
MajPaid(t2, m2, r) == m2.final \/ r.running = t2.score \/ TwiceAt("majsoul", m2)
MajEnded(t2, m2, b, v, r) ==
  /\ b \in MajBridges /\ ~b.replaying /\ ~b.window /\ b.pending_reach = Nobody /\ b.seat = t2.me
  /\ b.players = t2.n
  /\ Closing(t2, v, r) /\ v.phase = "ended" /\ MajPaid(t2, m2, r)
  /\ m2.kind = "win" => v.target = m2.from

(* Between two messages of a live hand.                                      *)
MajLive(t, m, b, v, r) == MajSeen(t, m, b, v, r) /\ ~b.replaying

LEMMA MajLeaves ==
  ASSUME NEW t, NEW t2, NEW m2, TableOK(t), TableOK(t2), HasEnded(t, t2, m2), m2.final \in BOOLEAN,
         NEW b, NEW v, NEW r,
         MajEnded(t2, m2, b, v, r)
  PROVE  \E b2, v2, r2 : Runs("majsoul", b, v, r, Majsoul!Result(t2, m2), b2, v2, r2) /\ MajLive(t2, m2, b2, v2, r2)
<1>1. /\ b \in MajBridges /\ ~b.replaying /\ ~b.window /\ b.pending_reach = Nobody
      /\ b.seat = t2.me /\ b.players = t2.n
      /\ Closing(t2, v, r) /\ v.phase = "ended" /\ MajPaid(t2, m2, r)
      /\ (m2.kind = "win" => v.target = m2.from)
  BY DEF MajEnded
<1>2. t2.n \in 3..4 /\ t2.games > 0 /\ t2.stage = (IF m2.final THEN "over" ELSE "between")
  <2>1. t2.n \in 3..4 /\ Stage(t) /\ t.stage \in {"act", "open"} /\ t2.games = t.games
    BY TableFields DEF TableOK, HasEnded, SameHand, SameGame
  <2>. QED
    BY <2>1 DEF Stage, HasEnded
<1>3. CASE ~m2.final
  <2>1. Majsoul!Result(t2, m2) = <<>>
    BY <1>3 DEF Majsoul!Result
  <2>2. Runs("majsoul", b, v, r, <<>>, b, v, r)
    BY RunsNothing
  <2>3. t2.stage = "between"
    BY <1>2, <1>3
  <2>4. MajGood(t2, b)
    BY <1>1, <1>2, <2>3 DEF MajGood
  <2>5. r.running = t2.score \/ TwiceAt("majsoul", m2)
    BY <1>1, <1>3 DEF MajPaid
  <2>6. Between("majsoul", t2, m2, v, r)
    BY <1>1, <2>5 DEF Between, Waiting, Closing
  <2>7. MajSeen(t2, m2, b, v, r)
    BY <2>3, <2>4, <2>6 DEF MajSeen, ViewGood
  <2>. QED
    BY <1>1, <2>1, <2>2, <2>7 DEF MajLive
<1>4. CASE m2.final
  <2>1. PICK f, e, b2 : /\ f = [type |-> "NotifyGameEndResult", scores |-> t2.score]
                        /\ e = [Ev("end_game", 0) EXCEPT !.scores = t2.score]
                        /\ b2 = [b EXCEPT !.window = FALSE]
    OBVIOUS
  <2>2. Majsoul!Result(t2, m2) = <<f>> /\ f.type = "NotifyGameEndResult" /\ f.scores = t2.score
    BY <1>4, <2>1 DEF Majsoul!Result
  <2>3. b2 \in MajBridges /\ ~b2.window /\ ~b2.replaying
    BY <1>1, <2>1 DEF MajBridges
  <2>4. Becomes("majsoul", b, f, b2, <<e>>)
    <3>1. Majsoul!Parse(b, f) = [bridge |-> b2, events |-> <<e>>]
      BY <2>1, <2>2, MajEv DEF Majsoul!Parse, Majsoul!Out
    <3>. QED
      BY <3>1 DEF Becomes, ParseOf
  <2>5. e.type = "end_game" /\ Shaped(e) /\ e.scores = t2.score
    BY <2>1 DEF Ev, Shaped, EventTypes
  <2>6. PICK r2 : r2 = [r EXCEPT !.final = Scores!final_scores(r.running, e.scores)]
    OBVIOUS
  <2>7. Plays(v, r, <<e>>, NoView, r2)
    BY <1>1, <2>5, <2>6, SeeEndGame
  <2>8. Runs("majsoul", b, v, r, <<f>>, b2, NoView, r2)
    BY <2>4, <2>7, RunsFrame
  <2>9. t2.stage = "over"
    BY <1>2, <1>4
  <2>10. MajGood(t2, b2)
    BY <2>3, <2>9 DEF MajGood
  <2>11. r2.final = t2.score
    <3>1. t2.score # <<>>
      <4>1. PICK n, sc : n = t2.n /\ sc = t2.score
        OBVIOUS
      <4>2. n \in 3..4 /\ sc \in [0..(n - 1) -> Int]
        BY <1>2, <4>1 DEF TableOK
      <4>. QED
        BY <4>1, <4>2, SomePoints
    <3>2. Scores!final_scores(r.running, e.scores) = t2.score
      BY <2>5, <3>1 DEF Scores!final_scores
    <3>. QED
      BY <1>1, <2>6, <3>2 DEF Closing, IsRecord
  <2>12. MajSeen(t2, m2, b2, NoView, r2)
    BY <2>9, <2>10, <2>11 DEF MajSeen, ViewGood, Over
  <2>. QED
    BY <2>2, <2>3, <2>8, <2>12 DEF MajLive
<1>. QED
  BY <1>3, <1>4

(* The whole of the last hand's frames.                                      *)
LEMMA MajCloses ==
  ASSUME NEW t, NEW t2, NEW m2, TableOK(t), TableOK(t2), HasEnded(t, t2, m2), m2.final \in BOOLEAN,
         NEW b, NEW v, NEW r, NEW w,
         NEW b1, NEW v1, NEW r1, Runs("majsoul", b, v, r, w, b1, v1, r1),
         MajEnded(t2, m2, b1, v1, r1)
  PROVE  \E b2, v2, r2 : Runs("majsoul", b, v, r, w \o Majsoul!Result(t2, m2), b2, v2, r2) /\ MajLive(t2, m2, b2, v2, r2)
<1>1. PICK b2, v2, r2 : Runs("majsoul", b1, v1, r1, Majsoul!Result(t2, m2), b2, v2, r2) /\ MajLive(t2, m2, b2, v2, r2)
  BY MajLeaves
<1>2. Runs("majsoul", b, v, r, w \o Majsoul!Result(t2, m2), b2, v2, r2)
  BY <1>1, RunsBoth
<1>. QED
  BY <1>1, <1>2

MajWon(t2, m2) ==
  [Majsoul!Action("Hule", t2, 0) EXCEPT !.hules = m2.winners, !.zimo = m2.winners = <<m2.from>>, !.deltas = m2.total]
MajGivers(ws, zimo, g) == [i \in 1..Len(ws) |-> IF zimo THEN ws[i] ELSE g]

LEMMA MajHules ==
  ASSUME NEW d, NEW f, f.name = "Hule", NEW ws, f.hules = ws, NEW zimo, f.zimo <=> zimo, NEW total,
         f.deltas = total, Len(ws) \in Nat,
         NEW g, d.revealed = g
  PROVE  MajSays(d, f, d, RiichiHoras(ws, MajGivers(ws, zimo, g), total) \o <<Ev("end_kyoku", 0)>>)
<1>1. PICK gs, es, e : gs = MajGivers(ws, zimo, g) /\ es = RiichiHoras(ws, gs, total) /\ e = Ev("end_kyoku", 0)
  OBVIOUS
<1>2. IsSeq(es) /\ IsSeq(<<e>>)
  <2>1. es \in Seq({es[i] : i \in 1..Len(ws)})
    BY <1>1 DEF RiichiHoras
  <2>. QED
    BY <2>1, OneIsSeq DEF IsSeq
<1>3. [i \in 1..Len(f.hules) |->
            [Majsoul!Ev("hora", f.hules[i]) EXCEPT !.target = IF f.zimo THEN f.hules[i] ELSE d.revealed, !.scores = f.deltas]] = es
  <2>1. ASSUME NEW i \in 1..Len(ws)
        PROVE  [Majsoul!Ev("hora", f.hules[i]) EXCEPT !.target = IF f.zimo THEN f.hules[i] ELSE d.revealed, !.scores = f.deltas]
                 = HoraOf(ws[i], gs[i], total)
    <3>1. gs[i] = IF zimo THEN ws[i] ELSE g
      BY <1>1 DEF MajGivers
    <3>2. gs[i] = IF f.zimo THEN f.hules[i] ELSE d.revealed
      BY <3>1
    <3>. QED
      BY <3>2, MajEv DEF HoraOf
  <2>. QED
    BY <1>1, <2>1 DEF RiichiHoras
<1>4. Majsoul!build(d, f) = Majsoul!build_hule(d, f)
  BY DEF Majsoul!build
<1>5. Majsoul!build_hule(d, f) = [bridge |-> d, events |-> es \o <<e>>]
  BY <1>1, <1>3, MajEv, Zenon DEF Majsoul!build_hule, Majsoul!Out
<1>6. IsSeq(es \o <<e>>)
  BY <1>2, Joined
<1>. QED
  BY <1>1, <1>4, <1>5, <1>6 DEF MajSays, RiichiDone

(* Every winner is paid by the seat whose tile lies open, or draws it.       *)
OwnWin(m2, zimo) == zimo <=> m2.winners = <<m2.from>>
Revealed(t, g) == t.stage = "open" /\ t.kan # "daiminkan" => g = t.turn

LEMMA MajTargets ==
  ASSUME NEW t, NEW t2, NEW m2, TableOK(t), TableOK(t2), HasWon(t, t2, m2), NEW zimo,
         OwnWin(m2, zimo), NEW g, Revealed(t, g),
         NEW i, i \in 1..Len(m2.winners)
  PROVE  MajGivers(m2.winners, zimo, g)[i] = m2.from /\ m2.from \in 0..(t.n - 1)
<1>1. PICK ws, x : ws = m2.winners /\ x = MajGivers(m2.winners, zimo, g)[i]
  OBVIOUS
<1>2. x = IF zimo THEN ws[i] ELSE g
  BY <1>1 DEF MajGivers
<1>3. m2.from = t.turn /\ t.turn \in 0..(t.n - 1) /\ t.stage \in {"act", "open"} /\ (zimo <=> ws = <<t.turn>>)
  BY <1>1, TableFields DEF HasWon, HasEnded, OwnWin
<1>4. PICK a : a = t.turn
  OBVIOUS
<1>5. CASE zimo
  <2>1. ws = <<a>> /\ i \in 1..Len(ws)
    BY <1>1, <1>3, <1>4, <1>5
  <2>2. Len(<<a>>) = 1 /\ <<a>>[1] = a
    OBVIOUS
  <2>3. ws[i] = a
    BY <2>1, <2>2
  <2>. QED
    BY <1>1, <1>2, <1>3, <1>4, <1>5, <2>3
<1>6. CASE ~zimo
  <2>1. t.stage = "open"
    BY <1>1, <1>3, <1>6 DEF HasWon
  <2>2. t.kan # "daiminkan"
    BY <2>1 DEF HasWon
  <2>. QED
    BY <1>1, <1>2, <1>3, <1>6, <2>1, <2>2 DEF Revealed
<1>. QED
  BY <1>5, <1>6

LEMMA MajWins ==
  ASSUME NEW t, NEW t2, NEW m, NEW m2, TableOK(t), TableOK(t2), HasWon(t, t2, m2), NEW b, NEW v,
         NEW r, MajLive(t, m, b, v, r), NEW early
  PROVE  \E b2, v2, r2 : /\ Runs("majsoul", b, v, r, Majsoul!Frames(t, t2, m2, early) \o Majsoul!Result(t2, m2), b2, v2, r2)
                         /\ MajLive(t2, m2, b2, v2, r2)
<1>1. /\ t.stage \in {"act", "open"} /\ SameGame(t, t2) /\ t2.n = t.n /\ t2.me = t.me
      /\ m2.kind = "win" /\ m2.final \in BOOLEAN
      /\ HasEnded(t, t2, m2) /\ HasPaid(t, t2, m2) /\ (t.stage = "act" => t.drew)
      /\ t2.stage \notin {"act", "open"} /\ t2.offer \in BOOLEAN
  BY TableFields DEF HasWon, HasEnded, SameHand, SameGame
<1>2. MajSeen(t, m, b, v, r) /\ MajGood(t, b) /\ ~b.replaying
  BY DEF MajLive, MajSeen
<1>3. /\ b \in MajBridges /\ b.seat = t.me /\ b.seat # Nobody /\ b.players = t.n
      /\ Hand(t, t.pending, v, r)
  BY <1>1, <1>2, MajInHand
<1>4. Revealed(t, b.revealed)
  BY <1>1, <1>2 DEF Revealed, MajGood
<1>5. PICK f, zimo, ws, total, g : /\ f = MajWon(t2, m2) /\ zimo = (m2.winners = <<m2.from>>) /\ ws = m2.winners /\ total = m2.total
                                   /\ g = b.revealed
  OBVIOUS
<1>6. /\ f.type = "action" /\ f.name = "Hule" /\ f.op \in BOOLEAN /\ f.hules = ws
      /\ (f.zimo <=> zimo) /\ f.deltas = total
  BY <1>1, <1>5 DEF MajWon, Majsoul!Action
<1>7. PICK d : /\ MajCleared(b, f, d)
               /\ \A b2, es : MajSays(d, f, b2, es) => Becomes("majsoul", b, f, b2, es)
  BY <1>3, <1>6, MajForgets
<1>8. /\ d \in MajBridges /\ d.seat = b.seat /\ d.players = b.players /\ d.revealed = g
      /\ ~d.replaying /\ ~Asked(d) /\ d.pending_reach = Nobody
  <2>1. ~MajOpen(f)
    BY <1>6 DEF MajOpen, MajOpens
  <2>. QED
    BY <1>2, <1>5, <1>7, <2>1 DEF MajCleared, MajLike
<1>9. Len(ws) \in {1, 2} /\ total \in [0..(t2.n - 1) -> Int] /\ \A i \in 1..Len(ws) : ws[i] \in 0..(t2.n - 1)
  <2>1. Len(ws) \in {1, 2} /\ \A i \in 1..Len(ws) : ws[i] \in 0..(t2.n - 1)
    BY <1>1, <1>5, WinTotals
  <2>2. total \in [0..(t2.n - 1) -> Int]
    BY <1>1, <1>5 DEF HasPaid, Paid
  <2>. QED
    BY <2>1, <2>2
<1>10. PICK gs : gs = MajGivers(ws, zimo, g)
  OBVIOUS
<1>11. \A i \in 1..Len(ws) : gs[i] = m2.from /\ gs[i] \in 0..(t2.n - 1)
  <2>1. ASSUME NEW i \in 1..Len(ws)
        PROVE  gs[i] = m2.from /\ gs[i] \in 0..(t2.n - 1)
    <3>1. i \in 1..Len(m2.winners) /\ OwnWin(m2, zimo) /\ Revealed(t, g)
      BY <1>4, <1>5 DEF OwnWin
    <3>2. MajGivers(m2.winners, zimo, g)[i] = m2.from /\ m2.from \in 0..(t.n - 1)
      BY <3>1, MajTargets
    <3>. QED
      BY <1>1, <1>5, <1>10, <3>2
  <2>. QED
    BY <2>1
<1>12. PICK es, e : es = RiichiHoras(ws, gs, total) /\ e = Ev("end_kyoku", 0)
  OBVIOUS
<1>13. Becomes("majsoul", b, f, d, es \o <<e>>)
  <2>1. Len(ws) \in Nat
    BY <1>9
  <2>2. MajSays(d, f, d, RiichiHoras(ws, MajGivers(ws, zimo, g), total) \o <<Ev("end_kyoku", 0)>>)
    BY <1>6, <1>8, <2>1, MajHules
  <2>3. MajSays(d, f, d, es \o <<e>>)
    BY <1>10, <1>12, <2>2
  <2>. QED
    BY <1>7, <2>3
<1>14. Closing(t2, v, r) /\ v.phase = "hand" /\ r.running = t.score
  <2>1. PICK p : p = t.pending
    OBVIOUS
  <2>2. Hand(t, p, v, r)
    BY <1>3, <2>1
  <2>3. Closing(t, v, r) /\ v.phase = "hand"
    BY <1>1, <2>2, HandCloses
  <2>. QED
    BY <1>1, <2>2, <2>3, ClosingAs DEF Hand
<1>15. PICK v1, r1 : SeenWon(t2, v, r, ws, gs, total, v1, r1)
  <2>1. Paying(t2, ws, gs)
    BY <1>9, <1>11 DEF Paying
  <2>. QED
    BY <1>9, <1>14, <2>1, RiichiSeesWins
<1>16. /\ Plays(v, r, es, v1, r1) /\ Closing(t2, v1, r1) /\ v1.phase = "won" /\ v1.target = m2.from
       /\ (Len(ws) = 1 => r1.running = Summed(t2.n, r.running, total))
  BY <1>11, <1>12, <1>15 DEF SeenWon
<1>17. PICK v2 : Plays(v1, r1, <<e>>, v2, r1) /\ Closing(t2, v2, r1) /\ v2.phase = "ended" /\ v2.target = v1.target
  BY <1>12, <1>16, SeeEndKyoku
<1>18. Runs("majsoul", b, v, r, <<f>>, d, v2, r1)
  <2>1. Plays(v, r, es \o <<e>>, v2, r1)
    BY <1>16, <1>17, PlaysBoth
  <2>. QED
    BY <1>13, <2>1, RunsFrame
<1>19. Majsoul!Frames(t, t2, m2, early) = <<f>>
  BY <1>1, <1>5 DEF Majsoul!Frames, MajWon
<1>20. MajPaid(t2, m2, r1)
  <2>1. CASE m2.final
    BY <2>1 DEF MajPaid
  <2>2. CASE ~m2.final /\ Len(ws) = 1
    <3>1. r1.running = Summed(t.n, t.score, m2.total)
      BY <1>1, <1>5, <1>14, <1>16, <2>2
    <3>2. r1.running = t2.score
      BY <1>1, <2>2, <3>1 DEF HasPaid, Paid, Summed
    <3>. QED
      BY <3>2 DEF MajPaid
  <2>3. CASE Len(ws) = 2
    BY <1>5, <2>3 DEF MajPaid, TwiceAt
  <2>. QED
    BY <1>1, <1>9, <2>1, <2>2, <2>3
<1>21. MajEnded(t2, m2, d, v2, r1)
  <2>1. ~d.window
    BY <1>8 DEF Asked
  <2>. QED
    BY <1>1, <1>3, <1>8, <1>16, <1>17, <1>20, <2>1 DEF MajEnded
<1>. QED
  BY <1>1, <1>18, <1>19, <1>21, MajCloses

MajDrawn(t2, m2) ==
  IF m2.call = "wall" THEN [Majsoul!Action("NoTile", t2, 0) EXCEPT !.deltas = m2.total] ELSE Majsoul!Action("LiuJu", t2, 0)

LEMMA MajDrawnSays ==
  ASSUME NEW d, NEW f, f.name \in {"NoTile", "LiuJu"}, f.name = "LiuJu" => f.deltas = <<>>
  PROVE  MajSays(d, f, d, <<[Ev("ryukyoku", 0) EXCEPT !.scores = f.deltas]>> \o <<Ev("end_kyoku", 0)>>)
<1>1. PICK x, e : x = [Ev("ryukyoku", 0) EXCEPT !.scores = f.deltas] /\ e = Ev("end_kyoku", 0)
  OBVIOUS
<1>2. <<x, e>> = <<x>> \o <<e>> /\ IsSeq(<<x>> \o <<e>>)
  BY TwoFrames, OneIsSeq, Joined
<1>3. CASE f.name = "NoTile"
  <2>1. Majsoul!build(d, f) = Majsoul!build_no_tile(d, f)
    BY <1>3 DEF Majsoul!build
  <2>2. Majsoul!build_no_tile(d, f) = [bridge |-> d, events |-> <<x, e>>]
    BY <1>1, MajEv DEF Majsoul!build_no_tile, Majsoul!Out
  <2>. QED
    BY <1>1, <1>2, <2>1, <2>2 DEF MajSays, RiichiDone
<1>4. CASE f.name = "LiuJu"
  <2>1. Majsoul!build(d, f) = Majsoul!build_liu_ju(d)
    BY <1>4 DEF Majsoul!build
  <2>2. Ev("ryukyoku", 0) = x
    BY <1>1, <1>4 DEF Ev
  <2>3. Majsoul!build_liu_ju(d) = [bridge |-> d, events |-> <<x, e>>]
    BY <1>1, <2>2, MajEv DEF Majsoul!build_liu_ju, Majsoul!Out
  <2>. QED
    BY <1>1, <1>2, <2>1, <2>3 DEF MajSays, RiichiDone
<1>. QED
  BY <1>3, <1>4

(* The points of a drawn hand, which an abort does not change.               *)
DrawnFor(n, m2, ds) == (m2.call = "wall" /\ ds = m2.total) \/ (m2.call = "none" /\ ds = <<>> /\ m2.total = [a \in 0..(n - 1) |-> 0])
LEMMA MajShares ==
  ASSUME NEW n, n \in 3..4, NEW sc, sc \in [0..(n - 1) -> Int], NEW m2,
         m2.total \in [0..(n - 1) -> Int], NEW ds, DrawnFor(n, m2, ds)
  PROVE  Scores!add_deltas(sc, ds) = Summed(n, sc, m2.total)
<1>1. CASE m2.call = "wall" /\ ds = m2.total
  BY <1>1, Added DEF Summed
<1>2. CASE ds = <<>> /\ m2.total = [a \in 0..(n - 1) |-> 0]
  <2>1. Scores!add_deltas(sc, ds) = sc
    BY <1>2 DEF Scores!add_deltas
  <2>2. Summed(n, sc, m2.total) = sc
    BY <1>2 DEF Summed
  <2>. QED
    BY <2>1, <2>2
<1>. QED
  BY <1>1, <1>2 DEF DrawnFor

LEMMA MajExhausts ==
  ASSUME NEW t, NEW t2, NEW m, NEW m2, TableOK(t), TableOK(t2), HasExhausted(t, t2, m2), NEW b,
         NEW v, NEW r, MajLive(t, m, b, v, r),
         NEW early
  PROVE  \E b2, v2, r2 : /\ Runs("majsoul", b, v, r, Majsoul!Frames(t, t2, m2, early) \o Majsoul!Result(t2, m2), b2, v2, r2)
                         /\ MajLive(t2, m2, b2, v2, r2)
<1>1. /\ t.stage \in {"act", "open"} /\ SameGame(t, t2) /\ t2.n = t.n /\ t2.me = t.me
      /\ m2.kind = "exhaust" /\ m2.final \in BOOLEAN
      /\ HasEnded(t, t2, m2) /\ HasPaid(Settled(t), t2, m2) /\ (t.stage = "act" => t.drew)
      /\ t2.offer \in BOOLEAN
  BY TableFields DEF HasExhausted, HasEnded, SameHand, SameGame
<1>2. MajSeen(t, m, b, v, r) /\ ~b.replaying
  BY DEF MajLive
<1>3. /\ b \in MajBridges /\ b.seat = t.me /\ b.seat # Nobody /\ b.players = t.n
      /\ b.pending_reach = t.pending /\ Hand(t, t.pending, v, r)
  BY <1>1, <1>2, MajInHand
<1>4. PICK f : f = MajDrawn(t2, m2)
  OBVIOUS
<1>5. PICK n, ds : n = t.n /\ ds = f.deltas
  OBVIOUS
<1>6. /\ f.type = "action" /\ f.op \in BOOLEAN /\ f.name \in {"NoTile", "LiuJu"}
      /\ (f.name = "LiuJu" => f.deltas = <<>>)
      /\ DrawnFor(n, m2, ds)
  <2>1. CASE m2.call = "wall"
    <3>1. f = [Majsoul!Action("NoTile", t2, 0) EXCEPT !.deltas = m2.total]
      BY <1>4, <2>1 DEF MajDrawn
    <3>2. f.type = "action" /\ f.op \in BOOLEAN /\ f.name = "NoTile" /\ f.deltas = m2.total
      BY <1>1, <3>1 DEF Majsoul!Action
    <3>. QED
      BY <1>5, <2>1, <3>2 DEF DrawnFor
  <2>2. CASE m2.call # "wall"
    <3>1. f = Majsoul!Action("LiuJu", t2, 0)
      BY <1>4, <2>2 DEF MajDrawn
    <3>2. f.type = "action" /\ f.op \in BOOLEAN /\ f.name = "LiuJu" /\ f.deltas = <<>>
      BY <1>1, <3>1 DEF Majsoul!Action
    <3>3. m2.call = "none" /\ m2.total = [a \in 0..(t.n - 1) |-> 0]
      BY <2>2 DEF HasExhausted
    <3>. QED
      BY <1>5, <3>2, <3>3 DEF DrawnFor
  <2>. QED
    BY <2>1, <2>2
<1>7. PICK d : /\ MajCleared(b, f, d)
               /\ \A b2, es : MajSays(d, f, b2, es) => Becomes("majsoul", b, f, b2, Accepts(b.pending_reach) \o es)
  <2>1. f.name \in MajNames \ {"Hule", "DiscardTile"}
    BY <1>6 DEF MajNames
  <2>. QED
    BY <1>3, <1>6, <2>1, MajDrains
<1>8. /\ d \in MajBridges /\ d.seat = b.seat /\ d.players = b.players /\ ~d.replaying /\ ~d.window
      /\ d.pending_reach = Nobody
  <2>1. ~MajOpen(f)
    BY <1>6 DEF MajOpen, MajOpens
  <2>. QED
    BY <1>2, <1>7, <2>1 DEF MajCleared, MajLike, Asked
<1>9. PICK x, e : x = [Ev("ryukyoku", 0) EXCEPT !.scores = ds] /\ e = Ev("end_kyoku", 0)
  OBVIOUS
<1>10. Becomes("majsoul", b, f, d, Accepts(t.pending) \o (<<x>> \o <<e>>))
  <2>1. MajSays(d, f, d, <<[Ev("ryukyoku", 0) EXCEPT !.scores = f.deltas]>> \o <<Ev("end_kyoku", 0)>>)
    BY <1>6, MajDrawnSays
  <2>2. MajSays(d, f, d, <<x>> \o <<e>>)
    BY <1>5, <1>9, <2>1
  <2>. QED
    BY <1>3, <1>7, <2>2
<1>11. PICK v1, r1 : Plays(v, r, Accepts(t.pending), v1, r1) /\ Hand(Settled(t), None, v1, r1)
  BY <1>1, <1>3, SeePassed
<1>12. PICK s, total : s = Settled(t) /\ total = m2.total
  OBVIOUS
<1>13. TableOK(s) /\ s.stage = t.stage /\ s.drew = t.drew /\ s.n = n /\ SameGame(s, t2) /\ s.score \in [0..(n - 1) -> Int]
  <2>1. TableOK(s) /\ s.stage = t.stage /\ s.drew = t.drew /\ SameHand(t, s)
    BY <1>1, <1>12, SettledOK
  <2>2. SameGame(s, t2) /\ s.n = n
    BY <1>1, <1>5, <2>1 DEF SameHand, SameGame
  <2>. QED
    BY <2>1, <2>2 DEF TableOK
<1>14. total \in [0..(n - 1) -> Int] /\ n \in 3..4
  BY <1>1, <1>5, <1>12, <1>13, TableFields DEF HasPaid, Paid
<1>15. PICK v2, r2 : Plays(v1, r1, <<x>>, v2, r2) /\ Closing(s, v2, r2) /\ v2.phase = "won" /\ r2.running = Scores!add_deltas(r1.running, ds)
  <2>1. Hand(s, None, v1, r1)
    BY <1>11, <1>12
  <2>2. ds \in [0..(s.n - 1) -> Int] \/ ds = <<>>
    BY <1>6, <1>12, <1>13, <1>14 DEF DrawnFor
  <2>3. \E v2, r2 : /\ Plays(v1, r1, <<[Ev("ryukyoku", 0) EXCEPT !.scores = ds]>>, v2, r2)
                    /\ Closing(s, v2, r2) /\ v2.phase = "won"
                    /\ r2.running = Scores!add_deltas(r1.running, ds)
    BY <1>1, <1>13, <2>1, <2>2, SeeRyukyoku
  <2>. QED
    BY <1>9, <2>3
<1>16. r2.running = Summed(n, s.score, total)
  <2>1. r1.running = s.score
    BY <1>11, <1>12 DEF Hand
  <2>2. PICK sc : sc = s.score
    OBVIOUS
  <2>3. Scores!add_deltas(sc, ds) = Summed(n, sc, m2.total)
    <3>1. n \in 3..4 /\ m2.total \in [0..(n - 1) -> Int]
      BY <1>12, <1>14
    <3>2. sc \in [0..(n - 1) -> Int]
      BY <1>13, <2>2
    <3>3. DrawnFor(n, m2, ds)
      BY <1>6
    <3>. QED
      BY <3>1, <3>2, <3>3, MajShares
  <2>. QED
    BY <1>12, <1>15, <2>1, <2>2, <2>3
<1>17. Closing(t2, v2, r2)
  BY <1>13, <1>15, ClosingAs
<1>18. PICK v3 : Plays(v2, r2, <<e>>, v3, r2) /\ Closing(t2, v3, r2) /\ v3.phase = "ended"
  BY <1>9, <1>15, <1>17, SeeEndKyoku
<1>19. Runs("majsoul", b, v, r, <<f>>, d, v3, r2)
  <2>1. Plays(v1, r1, <<x>> \o <<e>>, v3, r2)
    BY <1>15, <1>18, PlaysBoth
  <2>2. Plays(v, r, Accepts(t.pending) \o (<<x>> \o <<e>>), v3, r2)
    BY <1>11, <2>1, PlaysBoth
  <2>. QED
    BY <1>10, <2>2, RunsFrame
<1>20. Majsoul!Frames(t, t2, m2, early) = <<f>>
  BY <1>1, <1>4 DEF Majsoul!Frames, MajDrawn
<1>21. MajPaid(t2, m2, r2)
  <2>1. ~m2.final => r2.running = t2.score
    BY <1>1, <1>5, <1>12, <1>13, <1>16 DEF HasPaid, Paid, Summed
  <2>. QED
    BY <2>1 DEF MajPaid
<1>22. MajEnded(t2, m2, d, v3, r2)
  BY <1>1, <1>3, <1>8, <1>18, <1>21 DEF MajEnded
<1>. QED
  BY <1>1, <1>19, <1>20, <1>22, MajCloses

LEMMA MajTerminates ==
  ASSUME NEW t, NEW t2, NEW m, NEW m2, TableOK(t), TableOK(t2), HasTerminated(t, t2, m2), NEW b,
         NEW v, NEW r, MajLive(t, m, b, v, r),
         NEW early
  PROVE  \E b2, v2, r2 : /\ Runs("majsoul", b, v, r, Majsoul!Frames(t, t2, m2, early), b2, v2, r2)
                         /\ MajLive(t2, m2, b2, v2, r2)
<1>1. /\ t.games > 0 /\ t.stage # "over" /\ t2.stage = "over" /\ m2.kind = "terminate" /\ ~m2.final
  BY DEF HasTerminated
<1>2. b \in MajBridges /\ ~b.replaying /\ ViewGood("majsoul", t, m, v, r)
  BY DEF MajLive, MajSeen, MajGood
<1>3. v.phase # "off"
  <2>1. t.stage \in {"seated", "act", "open", "between"}
    BY <1>1, TableFields DEF Stages
  <2>2. (\E x : Waiting(x, v, r)) \/ (\E x, p : Hand(x, p, v, r))
    BY <1>1, <1>2, <2>1 DEF ViewGood, Playing, Between
  <2>. QED
    BY <2>2 DEF Waiting, Hand
<1>4. PICK f, e, b2 : f = [type |-> "NotifyGameTerminate"] /\ e = Ev("end_game", 0) /\ b2 = [b EXCEPT !.window = FALSE]
  OBVIOUS
<1>5. f.type = "NotifyGameTerminate"
  BY <1>4
<1>6. b2 \in MajBridges /\ ~b2.window /\ ~b2.replaying
  BY <1>2, <1>4 DEF MajBridges
<1>7. Becomes("majsoul", b, f, b2, <<e>>)
  <2>1. Majsoul!Parse(b, f) = [bridge |-> b2, events |-> <<e>>]
    BY <1>4, <1>5, MajEv DEF Majsoul!Parse, Majsoul!Out
  <2>. QED
    BY <2>1 DEF Becomes, ParseOf
<1>8. e.type = "end_game" /\ Shaped(e)
  BY <1>4 DEF Ev, Shaped, EventTypes
<1>9. PICK r2 : r2 = [r EXCEPT !.final = Scores!final_scores(r.running, e.scores)]
  OBVIOUS
<1>10. Plays(v, r, <<e>>, NoView, r2)
  BY <1>3, <1>8, <1>9, SeeEndGame
<1>11. Runs("majsoul", b, v, r, <<f>>, b2, NoView, r2)
  BY <1>7, <1>10, RunsFrame
<1>12. MajLive(t2, m2, b2, NoView, r2)
  <2>1. MajGood(t2, b2)
    BY <1>1, <1>6 DEF MajGood
  <2>2. ViewGood("majsoul", t2, m2, NoView, r2)
    BY <1>1 DEF ViewGood, Over
  <2>. QED
    BY <1>1, <1>6, <2>1, <2>2 DEF MajLive, MajSeen
<1>13. Majsoul!Frames(t, t2, m2, early) = <<f>>
  BY <1>1, <1>4 DEF Majsoul!Frames
<1>. QED
  BY <1>11, <1>12, <1>13

(* ------ a connection is made --------------------------------------------- *)
(* What the bridge and the reader know then.                                 *)
MajBase(t) == [Majsoul!Fresh EXCEPT !.seat = t.me, !.players = t.n]
GameView(t) == [NoView EXCEPT !.phase = "game", !.players = t.n, !.seat = t.me]
GameRecord(t) == [running |-> [a \in 0..(t.n - 1) |-> 0], final |-> <<>>]
MajOpened(w) == [Majsoul!Fresh EXCEPT !.window = w]

MajBlank(seat, n, w) ==
  [seat |-> seat, players |-> n, doras |-> 0, timing |-> "none", deferred |-> 0, pending_reach |-> Nobody, revealed |-> Nobody,
   replaying |-> FALSE, restore_window |-> FALSE, window |-> w]

LEMMA MajBlankIs ==
  ASSUME NEW seat, seat \in 0..9, NEW n, n \in 3..4, NEW w, w \in BOOLEAN
  PROVE  /\ MajBlank(seat, n, w) \in MajBridges /\ MajBlank(seat, n, w).seat = seat
         /\ MajBlank(seat, n, w).players = n
         /\ (MajBlank(seat, n, w).window <=> w) /\ ~MajBlank(seat, n, w).replaying
         /\ ~MajBlank(seat, n, w).restore_window
         /\ MajBlank(seat, n, w).pending_reach = Nobody
<1>1. Nobody \in 0..9 /\ 0 \in Nat /\ "none" \in {"none", "before", "after"} /\ FALSE \in BOOLEAN
  BY MajNobody
<1>. QED
  BY <1>1 DEF MajBlank, MajBridges

LEMMA MajFreshIs ==
  /\ Majsoul!Fresh \in MajBridges
  /\ ~Majsoul!Fresh.window /\ ~Majsoul!Fresh.replaying /\ ~Majsoul!Fresh.restore_window
  /\ Majsoul!Fresh.pending_reach = Nobody
<1>1. PICK four, w : four = 4 /\ w = FALSE
  OBVIOUS
<1>2. Majsoul!Fresh = MajBlank(Nobody, four, w)
  BY <1>1, MajNobody, Zenon DEF Majsoul!Fresh, MajBlank
<1>3. four \in 3..4 /\ w \in BOOLEAN /\ Nobody \in 0..9 /\ ~w
  <2>1. w \in BOOLEAN /\ ~w
    BY <1>1, Zenon
  <2>2. four \in 3..4 /\ Nobody \in 0..9
    BY <1>1, MajNobody
  <2>. QED
    BY <2>1, <2>2
<1>. QED
  BY <1>2, <1>3, MajBlankIs

LEMMA MajFresh ==
  ASSUME NEW w, w \in BOOLEAN
  PROVE  MajOpened(w) \in MajBridges
BY MajFreshIs DEF MajOpened, MajBridges

LEMMA MajBaseIs ==
  ASSUME NEW t, TableOK(t)
  PROVE  /\ MajBase(t) \in MajBridges /\ MajBase(t).seat = t.me /\ MajBase(t).players = t.n
         /\ ~MajBase(t).window
         /\ ~MajBase(t).replaying /\ ~MajBase(t).restore_window /\ MajBase(t).pending_reach = Nobody
<1>1. PICK n, me : n = t.n /\ me = t.me
  OBVIOUS
<1>2. n \in 3..4 /\ me \in 0..9
  BY <1>1, TableFields, SeatSpan
<1>3. PICK b : b = MajBase(t)
  OBVIOUS
<1>4. b = [Majsoul!Fresh EXCEPT !.seat = me, !.players = n]
  BY <1>1, <1>3 DEF MajBase
<1>5. PICK f : f = Majsoul!Fresh
  OBVIOUS
<1>6. f \in MajBridges /\ ~f.window /\ ~f.replaying /\ ~f.restore_window /\ f.pending_reach = Nobody
  BY <1>5, MajFreshIs
<1>7. b = [f EXCEPT !.seat = me, !.players = n]
  BY <1>4, <1>5
<1>8. b \in MajBridges
  BY <1>2, <1>6, <1>7 DEF MajBridges
<1>9. /\ b.seat = me /\ b.players = n /\ b.window = f.window /\ b.replaying = f.replaying
      /\ b.restore_window = f.restore_window
      /\ b.pending_reach = f.pending_reach
  BY <1>6, <1>7 DEF MajBridges
<1>. QED
  BY <1>1, <1>3, <1>6, <1>8, <1>9

LEMMA MajJoins ==
  ASSUME NEW t, TableOK(t), NEW w, w \in BOOLEAN, NEW v, NEW r
  PROVE  /\ Runs("majsoul", MajOpened(w), v, r, Majsoul!Join(t), MajBase(t), GameView(t), GameRecord(t))
         /\ Waiting(t, GameView(t), GameRecord(t)) /\ GameView(t).phase = "game"
<1>1. PICK b, f, e : /\ b = MajOpened(w) /\ f = [type |-> "authGame", seat |-> t.me, players |-> t.n]
                     /\ e = [Ev("start_game", t.me) EXCEPT !.players = t.n]
  OBVIOUS
<1>2. f.type = "authGame" /\ f.seat = t.me /\ f.players = t.n /\ Majsoul!Join(t) = <<f>>
  BY <1>1 DEF Majsoul!Join
<1>3. PICK v2, r2 : /\ Plays(v, r, <<e>>, v2, r2) /\ Waiting(t, v2, r2) /\ v2.phase = "game"
                    /\ v2 = [NoView EXCEPT !.phase = "game", !.players = t.n, !.seat = t.me]
                    /\ r2 = [running |-> [a \in 0..(t.n - 1) |-> 0], final |-> <<>>]
  <2>1. PICK v2, r2 : /\ Plays(v, r, <<[Ev("start_game", t.me) EXCEPT !.players = t.n]>>, v2, r2)
                      /\ Waiting(t, v2, r2) /\ v2.phase = "game"
                      /\ v2 = [NoView EXCEPT !.phase = "game", !.players = t.n, !.seat = t.me]
                      /\ r2 = [running |-> [a \in 0..(t.n - 1) |-> 0], final |-> <<>>]
    BY SeeStartGame
  <2>. QED
    BY <1>1, <2>1
<1>4. v2 = GameView(t) /\ r2 = GameRecord(t)
  BY <1>3 DEF GameView, GameRecord
<1>5. Becomes("majsoul", b, f, MajBase(t), <<e>>)
  <2>1. [b EXCEPT !.seat = f.seat, !.players = f.players, !.window = FALSE] = MajBase(t)
    BY <1>1, <1>2, MajFreshIs DEF MajOpened, MajBase, MajBridges
  <2>2. Majsoul!handle_auth_game_response(b, f) = [bridge |-> MajBase(t), events |-> <<e>>]
    BY <1>1, <1>2, <2>1, MajEv DEF Majsoul!handle_auth_game_response, Majsoul!Out
  <2>3. Majsoul!Parse(b, f) = Majsoul!handle_auth_game_response(b, f)
    BY <1>2 DEF Majsoul!Parse
  <2>. QED
    BY <2>2, <2>3 DEF Becomes, ParseOf
<1>6. Runs("majsoul", b, v, r, <<f>>, MajBase(t), v2, r2)
  BY <1>3, <1>5, RunsFrame
<1>. QED
  BY <1>1, <1>2, <1>3, <1>4, <1>6

(* Between two hands that is all there is to know.                           *)
LEMMA MajRests ==
  ASSUME NEW t, TableOK(t), NEW m, t.games > 0, t.stage \in {"seated", "between"}
  PROVE  MajLive(t, m, MajBase(t), GameView(t), GameRecord(t))
<1>1. PICK b, v, r : b = MajBase(t) /\ v = GameView(t) /\ r = GameRecord(t)
  OBVIOUS
<1>2. /\ b \in MajBridges /\ b.seat = t.me /\ b.players = t.n /\ ~b.window
      /\ ~b.replaying /\ ~b.restore_window /\ b.pending_reach = Nobody
  BY <1>1, MajBaseIs
<1>3. Waiting(t, v, r) /\ v.phase = "game"
  <2>1. TRUE \in BOOLEAN
    OBVIOUS
  <2>2. PICK w : w \in BOOLEAN
    BY <2>1
  <2>. QED
    BY <1>1, <2>2, MajJoins
<1>4. MajGood(t, b)
  BY <1>2 DEF MajGood
<1>5. ViewGood("majsoul", t, m, v, r)
  <2>1. Between("majsoul", t, m, v, r)
    BY <1>3 DEF Between
  <2>. QED
    BY <1>3, <2>1 DEF ViewGood
<1>6. MajSeen(t, m, b, v, r)
  BY <1>4, <1>5 DEF MajSeen
<1>. QED
  BY <1>1, <1>2, <1>6 DEF MajLive

LEMMA MajSits ==
  ASSUME NEW t, NEW t2, NEW m2, TableOK(t), TableOK(t2), HasSat(t, t2, m2), NEW b, b \in MajBridges,
         NEW v, NEW r, NEW early
  PROVE  \E b2, v2, r2 : /\ Runs("majsoul", MajOpened(b.window), v, r, Majsoul!Frames(t, t2, m2, early), b2, v2, r2)
                         /\ MajLive(t2, m2, b2, v2, r2)
<1>1. t2.games > 0 /\ t2.stage = "seated" /\ m2.kind = "sit"
  BY TableFields DEF HasSat
<1>2. PICK w : w = b.window /\ w \in BOOLEAN
  BY DEF MajBridges
<1>3. Runs("majsoul", MajOpened(w), v, r, Majsoul!Join(t2), MajBase(t2), GameView(t2), GameRecord(t2))
  BY <1>2, MajJoins
<1>4. MajLive(t2, m2, MajBase(t2), GameView(t2), GameRecord(t2))
  BY <1>1, MajRests
<1>5. Majsoul!Frames(t, t2, m2, early) = Majsoul!Join(t2)
  BY <1>1 DEF Majsoul!Frames
<1>. QED
  BY <1>2, <1>3, <1>4, <1>5

(* ------ joining a running hand ------------------------------------------- *)
(* The bridge c after the actions of w, the reader after their events.       *)
Handled(b, f) == Majsoul!handle_action_prototype(b, f)
Replayed(b0, w, P) ==
  /\ IsSeq(w) /\ P = [i \in 0..Len(w) |-> P[i]]
  /\ P[0] = RiichiDone(b0, <<>>)
  /\ \A i \in 1..Len(w) :
       /\ w[i].type = "action"
       /\ P[i] = RiichiDone(Handled(P[i - 1].bridge, w[i]).bridge, P[i - 1].events \o Handled(P[i - 1].bridge, w[i]).events)
Replay(b0, v0, r0, w, b, v, r) ==
  \E P, es : Replayed(b0, w, P) /\ P[Len(w)] = RiichiDone(b, es) /\ Plays(v0, r0, es, v, r)

LEMMA ReplayNothing ==
  ASSUME NEW b0, NEW v0, NEW r0
  PROVE  Replay(b0, v0, r0, <<>>, b0, v0, r0)
<1>1. PICK P : P = [i \in 0..0 |-> RiichiDone(b0, <<>>)]
  OBVIOUS
<1>2. P = [i \in 0..0 |-> P[i]] /\ P[0] = RiichiDone(b0, <<>>)
  BY <1>1
<1>3. Plays(v0, r0, <<>>, v0, r0) /\ IsSeq(<<>>) /\ Len(<<>>) = 0
  BY PlaysNothing, EmptyIsSeq
<1>4. Replayed(b0, <<>>, P)
  BY <1>2, <1>3 DEF Replayed
<1>. QED
  BY <1>2, <1>3, <1>4 DEF Replay

(* One more action, with its events.                                         *)
Extended(P, n, x) == [i \in 0..(n + 1) |-> IF i <= n THEN P[i] ELSE x]
LEMMA ExtendedIs ==
  ASSUME NEW P, NEW n, n \in Nat, NEW x
  PROVE  /\ Extended(P, n, x)[n + 1] = x
         /\ \A i \in 0..n : Extended(P, n, x)[i] = P[i]
         /\ Extended(P, n, x) = [i \in 0..(n + 1) |-> Extended(P, n, x)[i]]
<1>1. n + 1 \in 0..(n + 1) /\ ~(n + 1 <= n) /\ \A i \in 0..n : i \in 0..(n + 1) /\ i <= n
  OBVIOUS
<1>. QED
  BY <1>1 DEF Extended

LEMMA ReplayMore ==
  ASSUME NEW b0, NEW v0, NEW r0, NEW w, NEW b, NEW v, NEW r, Replay(b0, v0, r0, w, b, v, r),
         NEW x, NEW b2, NEW v2, NEW r2, MajStep(b, v, r, x, b2, v2, r2)
  PROVE  Replay(b0, v0, r0, w \o x, b2, v2, r2) /\ w \o x # <<>>
<1>1. PICK P, es : Replayed(b0, w, P) /\ P[Len(w)] = RiichiDone(b, es) /\ Plays(v0, r0, es, v, r)
  BY DEF Replay
<1>2. PICK f, fs : x = <<f>> /\ f.type = "action" /\ Becomes("majsoul", b, f, b2, fs) /\ Plays(v, r, fs, v2, r2)
  BY DEF MajStep
<1>3. IsSeq(w) /\ IsSeq(x) /\ Len(w) \in Nat /\ Len(x) = 1 /\ x[1] = f
  BY <1>1, <1>2, OneIsSeq, SeqLen DEF Replayed
<1>4. PICK n, y : n = Len(w) /\ y = w \o x
  OBVIOUS
<1>5. /\ IsSeq(y) /\ Len(y) = n + 1 /\ y[n + 1] = f /\ n \in Nat
      /\ \A i \in 1..n : y[i] = w[i]
  <2>1. IsSeq(w \o x) /\ Len(w \o x) = Len(w) + Len(x)
    BY <1>3, Joined
  <2>2. \A i \in 1..Len(w) : (w \o x)[i] = w[i]
    BY <1>3, Joined
  <2>3. (w \o x)[Len(w) + 1] = x[1]
    <3>1. 1 \in 1..Len(x)
      BY <1>3
    <3>. QED
      BY <1>3, <3>1, Joined
  <2>. QED
    BY <1>3, <1>4, <2>1, <2>2, <2>3
<1>6. Plays(v0, r0, es \o fs, v2, r2)
  BY <1>1, <1>2, PlaysBoth
<1>7. PICK z, Q : z = RiichiDone(b2, es \o fs) /\ Q = Extended(P, n, z)
  OBVIOUS
<1>8. Q[n + 1] = z /\ (\A i \in 0..n : Q[i] = P[i]) /\ Q = [i \in 0..(n + 1) |-> Q[i]]
  <2>1. PICK R : R = Extended(P, n, z)
    OBVIOUS
  <2>2. R[n + 1] = z
    <3>1. n + 1 \in 0..(n + 1) /\ ~(n + 1 <= n)
      BY <1>5
    <3>. QED
      BY <2>1, <3>1 DEF Extended
  <2>3. \A i \in 0..n : R[i] = P[i]
    BY <1>5, <2>1 DEF Extended
  <2>4. R = [i \in 0..(n + 1) |-> R[i]]
    <3>1. Extended(P, n, z) = [i \in 0..(n + 1) |-> Extended(P, n, z)[i]]
      BY <1>5, ExtendedIs
    <3>. QED
      BY <2>1, <3>1
  <2>. QED
    BY <1>7, <2>1, <2>2, <2>3, <2>4
<1>9. Handled(b, f).bridge = b2 /\ Handled(b, f).events = fs
  BY <1>2 DEF Becomes, ParseOf, Majsoul!Parse, Handled
<1>10. Replayed(b0, y, Q)
  <2>1. P[0] = RiichiDone(b0, <<>>) /\ Q[0] = P[0]
    <3>1. 0 \in 0..n
      BY <1>5
    <3>. QED
      BY <1>1, <1>8, <3>1 DEF Replayed
  <2>2. ASSUME NEW i \in 1..Len(y)
        PROVE  /\ y[i].type = "action"
               /\ Q[i] = RiichiDone(Handled(Q[i - 1].bridge, y[i]).bridge, Q[i - 1].events \o Handled(Q[i - 1].bridge, y[i]).events)
    <3>1. CASE i \in 1..n
      <4>1. i \in 0..n /\ i - 1 \in 0..n
        BY <1>5, <3>1
      <4>2. /\ w[i].type = "action"
            /\ P[i] = RiichiDone(Handled(P[i - 1].bridge, w[i]).bridge, P[i - 1].events \o Handled(P[i - 1].bridge, w[i]).events)
        BY <1>1, <1>4, <3>1 DEF Replayed
      <4>3. Q[i] = P[i] /\ Q[i - 1] = P[i - 1] /\ y[i] = w[i]
        BY <1>5, <1>8, <3>1, <4>1
      <4>. QED
        BY <4>2, <4>3
    <3>2. CASE i = n + 1
      <4>1. i - 1 = n /\ n \in 0..n
        BY <1>5, <3>2
      <4>2. Q[i] = z /\ Q[i - 1] = P[n] /\ y[i] = f
        BY <1>5, <1>8, <3>2, <4>1
      <4>3. P[n].bridge = b /\ P[n].events = es
        BY <1>1, <1>4 DEF RiichiDone
      <4>. QED
        BY <1>2, <1>7, <1>9, <4>2, <4>3
    <3>. QED
      BY <1>5, <3>1, <3>2
  <2>. QED
    BY <1>5, <1>8, <2>1, <2>2 DEF Replayed
<1>11. y # <<>>
  BY <1>5, EmptyIsSeq
<1>. QED
  BY <1>4, <1>5, <1>6, <1>7, <1>8, <1>10, <1>11 DEF Replay

(* What the bridge plays again is that very sequence.                        *)
MajStarts(b, b0) == [b EXCEPT !.replaying = TRUE, !.restore_window = FALSE] = b0
MajRestored(c) == [c EXCEPT !.replaying = FALSE, !.window = c.restore_window, !.restore_window = FALSE]
LEMMA ReplayIs ==
  ASSUME NEW b0, NEW w, NEW P, Replayed(b0, w, P), NEW f, f.actions = w, NEW b, MajStarts(b, b0),
         w # <<>>
  PROVE  Majsoul!handle_game_restore(b, f) = RiichiDone(MajRestored(P[Len(w)].bridge), P[Len(w)].events)
<1> DEFINE G(g) == [i \in 0..Len(f.actions) |->
        IF i = 0 THEN Majsoul!Out([b EXCEPT !.replaying = TRUE, !.restore_window = FALSE], <<>>)
        ELSE LET s == Majsoul!handle_action_prototype(g[i - 1].bridge, f.actions[i])
             IN Majsoul!Out(s.bridge, g[i - 1].events \o s.events)]
       g == CHOOSE g : g = G(g)
<1>1. /\ IsSeq(w) /\ P = [i \in 0..Len(w) |-> P[i]]
      /\ P[0] = RiichiDone(b0, <<>>)
      /\ \A i \in 1..Len(w) :
           P[i] = RiichiDone(Handled(P[i - 1].bridge, w[i]).bridge, P[i - 1].events \o Handled(P[i - 1].bridge, w[i]).events)
  BY DEF Replayed
<1>2. Len(w) \in Nat
  BY <1>1, SeqLen
<1>3. P = G(P)
  <2>1. ASSUME NEW i \in 0..Len(w)
        PROVE  P[i] = IF i = 0 THEN Majsoul!Out([b EXCEPT !.replaying = TRUE, !.restore_window = FALSE], <<>>)
                      ELSE LET s == Majsoul!handle_action_prototype(P[i - 1].bridge, f.actions[i])
                           IN Majsoul!Out(s.bridge, P[i - 1].events \o s.events)
    <3>1. CASE i = 0
      BY <1>1, <3>1 DEF Majsoul!Out, RiichiDone, MajStarts
    <3>2. CASE i # 0
      <4>1. i \in 1..Len(w)
        BY <1>2, <3>2
      <4>. QED
        BY <1>1, <3>2, <4>1 DEF Majsoul!Out, RiichiDone, Handled
    <3>. QED
      BY <3>1, <3>2
  <2>. QED
    BY <1>1, <2>1
<1>4. g = G(g)
  <2> HIDE DEF G
  <2>. QED
    BY <1>3, Zenon
<1>5. StepAlike(Len(w), g, P)
  <2>1. 0 \in 0..Len(w)
    BY <1>2
  <2>2. g[0] = P[0]
    <3>1. g[0] = Majsoul!Out([b EXCEPT !.replaying = TRUE, !.restore_window = FALSE], <<>>)
      <4> HIDE DEF g
      <4>. QED
        BY <1>4, <2>1
    <3>. QED
      BY <1>1, <3>1 DEF Majsoul!Out, RiichiDone, MajStarts
  <2>3. ASSUME NEW i \in 1..Len(w), g[i - 1] = P[i - 1]
        PROVE  g[i] = P[i]
    <3>1. i \in 0..Len(w) /\ i # 0
      BY <1>2
    <3>2. g[i] = LET s == Majsoul!handle_action_prototype(g[i - 1].bridge, f.actions[i])
                 IN Majsoul!Out(s.bridge, g[i - 1].events \o s.events)
      <4> HIDE DEF g
      <4>. QED
        BY <1>4, <3>1
    <3>. QED
      BY <1>1, <2>3, <3>2 DEF Majsoul!Out, RiichiDone, Handled
  <2> HIDE DEF g
  <2>. QED
    BY <1>2, <2>2, <2>3 DEF StepAlike
<1>6. g[Len(w)] = P[Len(w)]
  <2> HIDE DEF g
  <2>1. Len(w) \in 0..Len(w)
    BY <1>2
  <2>. QED
    BY <1>5, <2>1, SameSteps
<1>7. PICK x, c : x = g[Len(w)] /\ c = x.bridge
  OBVIOUS
<1>8. Majsoul!handle_game_restore(b, f) =
        Majsoul!Out([x.bridge EXCEPT !.replaying = FALSE, !.window = x.bridge.restore_window, !.restore_window = FALSE], x.events)
  BY <1>7 DEF Majsoul!handle_game_restore
<1>. QED
  BY <1>6, <1>7, <1>8 DEF Majsoul!Out, RiichiDone, MajRestored

(* ------ the log of the running hand -------------------------------------- *)
(* While it runs, a bridge of its own that reads the log would be where the  *)
(* live one is.                                                              *)
MajAgain(t) == [MajBase(t) EXCEPT !.replaying = TRUE, !.restore_window = FALSE]
MajLogged(t, m, log0) ==
  \E b, v, r : Replay(MajAgain(t), GameView(t), GameRecord(t), log0, b, v, r) /\ MajSeen(t, m, b, v, r) /\ b.replaying /\ log0 # <<>>

(* A move within a hand, the deal included.                                  *)
Played(t, t2, m2) ==
  HasDealt(t, t2, m2) \/ HasDrawn(t, t2, m2) \/ HasDiscarded(t, t2, m2) \/ HasCalled(t, t2, m2) \/ HasKan(t, t2, m2)

LEMMA MajSteps ==
  ASSUME NEW t, NEW t2, NEW m, NEW m2, TableOK(t), TableOK(t2), Played(t, t2, m2), NEW b, NEW v,
         NEW r, MajSeen(t, m, b, v, r),
         NEW early, early \in BOOLEAN
  PROVE  \E b2, v2, r2 : MajStep(b, v, r, Majsoul!Frames(t, t2, m2, early), b2, v2, r2) /\ MajSeen(t2, m2, b2, v2, r2)
<1>1. CASE HasDealt(t, t2, m2)
  BY <1>1, MajDeals
<1>2. CASE HasDrawn(t, t2, m2)
  BY <1>2, MajDraws
<1>3. CASE HasDiscarded(t, t2, m2)
  BY <1>3, MajDiscards
<1>4. CASE HasCalled(t, t2, m2)
  BY <1>4, MajCalls
<1>5. CASE HasKan(t, t2, m2)
  <2>1. CASE m2.call = "kita"
    BY <1>5, <2>1, MajKitas
  <2>2. CASE m2.call # "kita"
    BY <1>5, <2>2, MajFourKans
  <2>. QED
    BY <2>1, <2>2
<1>. QED
  BY <1>1, <1>2, <1>3, <1>4, <1>5, Zenon DEF Played

LEMMA MajAgainIs ==
  ASSUME NEW t, TableOK(t), NEW m, t.games > 0, t.stage \in {"seated", "between"}
  PROVE  MajSeen(t, m, MajAgain(t), GameView(t), GameRecord(t)) /\ MajAgain(t).replaying
<1>1. PICK b, c : b = MajBase(t) /\ c = MajAgain(t)
  OBVIOUS
<1>2. /\ b \in MajBridges /\ b.seat = t.me /\ b.players = t.n /\ ~b.window
      /\ ~b.replaying /\ ~b.restore_window /\ b.pending_reach = Nobody
  BY <1>1, MajBaseIs
<1>3. c = [b EXCEPT !.replaying = TRUE, !.restore_window = FALSE]
  BY <1>1 DEF MajAgain
<1>4. c \in MajBridges /\ c.replaying
  BY <1>2, <1>3 DEF MajBridges
<1>5. c.seat = b.seat /\ c.players = b.players /\ c.window = b.window /\ c.pending_reach = b.pending_reach
  BY <1>2, <1>3 DEF MajBridges
<1>6. MajGood(t, c)
  BY <1>2, <1>4, <1>5 DEF MajGood
<1>7. MajLive(t, m, MajBase(t), GameView(t), GameRecord(t))
  BY MajRests
<1>8. ViewGood("majsoul", t, m, GameView(t), GameRecord(t))
  BY <1>7 DEF MajLive, MajSeen
<1>. QED
  BY <1>1, <1>4, <1>6, <1>8 DEF MajSeen

LEMMA MajAgainSame ==
  ASSUME NEW t, NEW t2, SameGame(t, t2)
  PROVE  MajAgain(t2) = MajAgain(t) /\ GameView(t2) = GameView(t) /\ GameRecord(t2) = GameRecord(t)
BY DEF SameGame, MajAgain, MajBase, GameView, GameRecord

LEMMA MajLogs ==
  ASSUME NEW t, NEW t2, NEW m, NEW m2, TableOK(t), TableOK(t2), HasDealt(t, t2, m2), NEW early,
         early \in BOOLEAN
  PROVE  MajLogged(t2, m2, Majsoul!Frames(t, t2, m2, early))
<1>1. t.games > 0 /\ t.stage \in {"seated", "between"} /\ SameGame(t, t2) /\ Played(t, t2, m2)
  BY DEF HasDealt, Played
<1>2. PICK b, v, r, w : b = MajAgain(t) /\ v = GameView(t) /\ r = GameRecord(t) /\ w = Majsoul!Frames(t, t2, m2, early)
  OBVIOUS
<1>3. MajSeen(t, m, b, v, r) /\ b.replaying
  BY <1>1, <1>2, MajAgainIs
<1>4. PICK b2, v2, r2 : MajStep(b, v, r, w, b2, v2, r2) /\ MajSeen(t2, m2, b2, v2, r2)
  BY <1>1, <1>2, <1>3, MajSteps
<1>5. Replay(b, v, r, <<>>, b, v, r)
  BY ReplayNothing
<1>6. Replay(b, v, r, <<>> \o w, b2, v2, r2) /\ <<>> \o w # <<>>
  BY <1>4, <1>5, ReplayMore
<1>7. <<>> \o w = w
  BY <1>4, OneIsSeq, NothingElse DEF MajStep
<1>8. b2.replaying
  BY <1>3, <1>4 DEF MajStep
<1>9. b = MajAgain(t2) /\ v = GameView(t2) /\ r = GameRecord(t2)
  BY <1>1, <1>2, MajAgainSame
<1>10. Replay(MajAgain(t2), GameView(t2), GameRecord(t2), w, b2, v2, r2) /\ w # <<>>
  BY <1>6, <1>7, <1>9
<1>. QED
  BY <1>2, <1>4, <1>8, <1>10 DEF MajLogged

LEMMA MajLogsOn ==
  ASSUME NEW t, NEW t2, NEW m, NEW m2, TableOK(t), TableOK(t2), Played(t, t2, m2),
         ~HasDealt(t, t2, m2), NEW early, early \in BOOLEAN,
         NEW log0, MajLogged(t, m, log0)
  PROVE  MajLogged(t2, m2, log0 \o Majsoul!Frames(t, t2, m2, early))
<1>1. SameGame(t, t2)
  BY DEF Played, HasDrawn, HasDiscarded, HasCalled, HasKan, SameHand
<1>2. PICK w : w = Majsoul!Frames(t, t2, m2, early)
  OBVIOUS
<1>3. PICK b, v, r : Replay(MajAgain(t), GameView(t), GameRecord(t), log0, b, v, r) /\ MajSeen(t, m, b, v, r) /\ b.replaying
  BY DEF MajLogged
<1>4. PICK b2, v2, r2 : MajStep(b, v, r, w, b2, v2, r2) /\ MajSeen(t2, m2, b2, v2, r2)
  BY <1>2, <1>3, MajSteps
<1>5. Replay(MajAgain(t), GameView(t), GameRecord(t), log0 \o w, b2, v2, r2) /\ log0 \o w # <<>>
  BY <1>3, <1>4, ReplayMore
<1>6. b2.replaying
  BY <1>3, <1>4 DEF MajStep
<1>7. MajAgain(t2) = MajAgain(t) /\ GameView(t2) = GameView(t) /\ GameRecord(t2) = GameRecord(t)
  BY <1>1, MajAgainSame
<1>. QED
  BY <1>2, <1>4, <1>5, <1>6, <1>7 DEF MajLogged

(* ------ a client that joins again ---------------------------------------- *)

(* What the bridge does of the actions it is sent in one response.           *)
MajSync(w) == [type |-> "syncGame", actions |-> w]
MajRejoin(t, w) == Majsoul!Join(t) \o <<MajSync(w)>>

LEMMA MajSyncIs ==
  ASSUME NEW b, NEW w
  PROVE  /\ MajSync(w).actions = w
         /\ ParseOf("majsoul", b, MajSync(w)) = Majsoul!handle_game_restore(b, MajSync(w))
BY DEF MajSync, ParseOf, Majsoul!Parse

LEMMA MajSyncNothing ==
  ASSUME NEW b, NEW v, NEW r
  PROVE  Runs("majsoul", b, v, r, <<MajSync(<<>>)>>, b, v, r)
<1>1. PICK f : f = MajSync(<<>>)
  OBVIOUS
<1>2. f.actions = <<>> /\ ParseOf("majsoul", b, f) = Majsoul!handle_game_restore(b, f)
  BY <1>1, MajSyncIs
<1>3. Majsoul!handle_game_restore(b, f) = [bridge |-> b, events |-> <<>>]
  BY <1>2 DEF Majsoul!handle_game_restore, Majsoul!Out
<1>4. ParseOf("majsoul", b, f).bridge = b /\ ParseOf("majsoul", b, f).events = <<>>
  BY <1>2, <1>3
<1>5. Plays(v, r, <<>>, v, r)
  BY PlaysNothing
<1>6. Reads("majsoul", b, v, r, f, b, v, r)
  BY <1>4, <1>5 DEF Reads
<1>. QED
  BY <1>1, <1>6, RunsOne

(* Where the replay ends, the live bridge is.                                *)
LEMMA MajRestoredIs ==
  ASSUME NEW c, c \in MajBridges
  PROVE  /\ MajRestored(c) \in MajBridges /\ ~MajRestored(c).replaying
         /\ (MajRestored(c).window <=> c.restore_window)
         /\ MajRestored(c).seat = c.seat /\ MajRestored(c).players = c.players
         /\ MajRestored(c).doras = c.doras
         /\ MajRestored(c).deferred = c.deferred /\ MajRestored(c).pending_reach = c.pending_reach
         /\ MajRestored(c).revealed = c.revealed
BY DEF MajRestored, MajBridges

LEMMA MajRestores ==
  ASSUME NEW t, t.stage \in {"act", "open"}, NEW m, NEW c, NEW v, NEW r, MajSeen(t, m, c, v, r),
         c.replaying
  PROVE  MajLive(t, m, MajRestored(c), v, r)
<1>1. c \in MajBridges /\ MajGood(t, c) /\ ViewGood("majsoul", t, m, v, r) /\ v.dora + c.deferred = c.doras
  BY DEF MajSeen, MajGood
<1>2. PICK d : d = MajRestored(c)
  OBVIOUS
<1>3. /\ d \in MajBridges /\ ~d.replaying /\ (d.window <=> c.restore_window)
      /\ d.seat = c.seat /\ d.players = c.players /\ d.doras = c.doras
      /\ d.deferred = c.deferred /\ d.pending_reach = c.pending_reach
      /\ d.revealed = c.revealed
  BY <1>1, <1>2, MajRestoredIs
<1>4. Asked(d) <=> Asked(c)
  BY <1>3 DEF Asked
<1>5. MajGood(t, d)
  BY <1>1, <1>3, <1>4 DEF MajGood
<1>6. MajSeen(t, m, d, v, r)
  BY <1>1, <1>3, <1>5 DEF MajSeen
<1>. QED
  BY <1>2, <1>3, <1>6 DEF MajLive

LEMMA MajSyncs ==
  ASSUME NEW t, t.stage \in {"act", "open"}, NEW m, NEW w, MajLogged(t, m, w), NEW b, b = MajBase(t)
  PROVE  \E b2, v2, r2 : /\ Runs("majsoul", b, GameView(t), GameRecord(t), <<MajSync(w)>>, b2, v2, r2)
                         /\ MajLive(t, m, b2, v2, r2)
<1>1. PICK b0, f : b0 = MajAgain(t) /\ f = MajSync(w)
  OBVIOUS
<1>2. PICK v0, r0 : v0 = GameView(t) /\ r0 = GameRecord(t)
  OBVIOUS
<1>3. PICK c, v, r : Replay(b0, v0, r0, w, c, v, r) /\ MajSeen(t, m, c, v, r) /\ c.replaying /\ w # <<>>
  BY <1>1, <1>2 DEF MajLogged
<1>4. PICK P, es : Replayed(b0, w, P) /\ P[Len(w)] = RiichiDone(c, es) /\ Plays(v0, r0, es, v, r)
  BY <1>3 DEF Replay
<1>5. P[Len(w)].bridge = c /\ P[Len(w)].events = es
  BY <1>4 DEF RiichiDone
<1>6. MajStarts(b, b0)
  BY <1>1 DEF MajAgain, MajStarts
<1>7. f.actions = w /\ ParseOf("majsoul", b, f) = Majsoul!handle_game_restore(b, f)
  BY <1>1, MajSyncIs
<1>8. Majsoul!handle_game_restore(b, f) = RiichiDone(MajRestored(c), es)
  <2>1. Majsoul!handle_game_restore(b, f) = RiichiDone(MajRestored(P[Len(w)].bridge), P[Len(w)].events)
    BY <1>3, <1>4, <1>6, <1>7, ReplayIs
  <2>. QED
    BY <2>1, <1>5
<1>9. PICK d : d = MajRestored(c)
  OBVIOUS
<1>10. ParseOf("majsoul", b, f).bridge = d /\ ParseOf("majsoul", b, f).events = es
  BY <1>7, <1>8, <1>9 DEF RiichiDone
<1>11. Reads("majsoul", b, v0, r0, f, d, v, r)
  BY <1>4, <1>10 DEF Reads
<1>12. Runs("majsoul", b, v0, r0, <<f>>, d, v, r)
  BY <1>11, RunsOne
<1>13. MajLive(t, m, d, v, r)
  BY <1>3, <1>9, MajRestores
<1>. QED
  BY <1>1, <1>2, <1>12, <1>13

LEMMA MajRejoins ==
  ASSUME NEW t, TableOK(t), t.games > 0, t.stage # "over", NEW m, NEW w,
         t.stage \in {"act", "open"} => MajLogged(t, m, w), t.stage \notin {"act", "open"} => w = <<>>,
         NEW win, win \in BOOLEAN, NEW v, NEW r
  PROVE  \E b2, v2, r2 : /\ Runs("majsoul", MajOpened(win), v, r, MajRejoin(t, w), b2, v2, r2)
                         /\ MajLive(t, m, b2, v2, r2)
<1>1. PICK b, v1, r1 : b = MajBase(t) /\ v1 = GameView(t) /\ r1 = GameRecord(t)
  OBVIOUS
<1>2. Runs("majsoul", MajOpened(win), v, r, Majsoul!Join(t), b, v1, r1)
  BY <1>1, MajJoins
<1>3. \E b2, v2, r2 : Runs("majsoul", b, v1, r1, <<MajSync(w)>>, b2, v2, r2) /\ MajLive(t, m, b2, v2, r2)
  <2>1. CASE t.stage \in {"act", "open"}
    <3>1. MajLogged(t, m, w)
      BY <2>1
    <3>. QED
      BY <1>1, <2>1, <3>1, MajSyncs
  <2>2. CASE t.stage \notin {"act", "open"}
    <3>1. w = <<>>
      BY <2>2
    <3>2. t.stage \in {"seated", "between"}
      BY <2>2, TableFields DEF Stages
    <3>3. MajLive(t, m, b, v1, r1)
      BY <1>1, <3>2, MajRests
    <3>4. Runs("majsoul", b, v1, r1, <<MajSync(w)>>, b, v1, r1)
      BY <3>1, MajSyncNothing
    <3>. QED
      BY <3>3, <3>4
  <2>. QED
    BY <2>1, <2>2
<1>4. PICK b2, v2, r2 : Runs("majsoul", b, v1, r1, <<MajSync(w)>>, b2, v2, r2) /\ MajLive(t, m, b2, v2, r2)
  BY <1>3
<1>5. PICK x, y, o : x = Majsoul!Join(t) /\ y = <<MajSync(w)>> /\ o = MajOpened(win)
  OBVIOUS
<1>6. Runs("majsoul", o, v, r, x \o y, b2, v2, r2)
  BY <1>2, <1>4, <1>5, RunsBoth
<1>. QED
  BY <1>4, <1>5, <1>6 DEF MajRejoin

(* ------ every move of a Majsoul table ------------------------------------ *)
MajSent(t, t2, m2, early) == Majsoul!Frames(t, t2, m2, early) \o Majsoul!Result(t2, m2)
LEMMA MajNoResult ==
  ASSUME NEW t2, NEW m2, ~m2.final
  PROVE  Majsoul!Result(t2, m2) = <<>>
BY DEF Majsoul!Result

LEMMA RunsSame ==
  ASSUME NEW b, NEW v, NEW r, NEW w, NEW b2, NEW v2, NEW r2, Runs("majsoul", b, v, r, w, b2, v2, r2)
  PROVE  w \o <<>> = w
<1>1. IsSeq(w)
  BY DEF Runs
<1>. QED
  BY <1>1, NothingElse

LEMMA MajRuns ==
  ASSUME NEW t, NEW t2, NEW m, NEW m2, TableOK(t), TableOK(t2), Played(t, t2, m2), NEW b, NEW v,
         NEW r, MajLive(t, m, b, v, r),
         NEW early, early \in BOOLEAN
  PROVE  \E b2, v2, r2 : /\ Runs("majsoul", b, v, r, MajSent(t, t2, m2, early), b2, v2, r2)
                         /\ MajLive(t2, m2, b2, v2, r2)
<1>1. MajSeen(t, m, b, v, r) /\ ~b.replaying
  BY DEF MajLive
<1>2. PICK w : w = Majsoul!Frames(t, t2, m2, early)
  OBVIOUS
<1>3. PICK b2, v2, r2 : MajStep(b, v, r, w, b2, v2, r2) /\ MajSeen(t2, m2, b2, v2, r2)
  BY <1>1, <1>2, MajSteps
<1>4. Runs("majsoul", b, v, r, w, b2, v2, r2)
  BY <1>3, MajStepRuns
<1>5. ~b2.replaying
  BY <1>1, <1>3 DEF MajStep
<1>6. ~m2.final
  BY DEF Played, HasDealt, HasDrawn, HasDiscarded, HasCalled, HasKan
<1>7. MajSent(t, t2, m2, early) = w
  BY <1>2, <1>4, <1>6, MajNoResult, RunsSame DEF MajSent
<1>8. MajLive(t2, m2, b2, v2, r2)
  BY <1>3, <1>5 DEF MajLive
<1>9. Runs("majsoul", b, v, r, MajSent(t, t2, m2, early), b2, v2, r2)
  BY <1>4, <1>7
<1>. QED
  BY <1>8, <1>9

(* ------ the moves are counted -------------------------------------------- *)
Counted(t, k) == "moves" \in DOMAIN t /\ t.moves = k

LEMMA StepCounts ==
  ASSUME NEW t, NEW k, k \in Nat, Counted(t, k), NEW m, Step(t, m)
  PROVE  table'.moves = k + 1
BY DEF Step, Counted

LEMMA TableCounts ==
  ASSUME NEW t, TableOK(t)
  PROVE  Counted(t, t.moves) /\ t.moves \in Nat
<1>1. t \in Tables /\ t.moves \in Nat
  BY TableFields
<1>. QED
  BY <1>1 DEF Tables, Counted

LEMMA SettledCounts ==
  ASSUME NEW t, NEW k, Counted(t, k)
  PROVE  Counted(Settled(t), k)
BY DEF Settled, Counted

LEMMA EndsCounts ==
  ASSUME NEW t, NEW k, k \in Nat, Counted(t, k), NEW m, NEW final, Ends(t, m, final)
  PROVE  table'.moves = k + 1
<1>1. PICK st, of, pe, sc, su, p :
        /\ p = [t EXCEPT !.stage = st, !.offer = of, !.pending = pe, !.score = sc, !.sticks = su]
        /\ \E m2 : Step(IF final THEN [p EXCEPT !.score[Leader(p)] = @ + p.sticks, !.sticks = 0] ELSE p, m2)
  BY Zenon DEF Ends
<1>2. Counted(p, k)
  BY <1>1 DEF Counted
<1>3. PICK q, m2 : q = (IF final THEN [p EXCEPT !.score[Leader(p)] = @ + p.sticks, !.sticks = 0] ELSE p) /\ Step(q, m2)
  BY <1>1
<1>4. Counted(q, k)
  BY <1>2, <1>3 DEF Counted
<1>. QED
  BY <1>3, <1>4, StepCounts

LEMMA MovesCount ==
  ASSUME TableOK(table),
         Sit \/ Deal \/ Draw \/ Discard \/ Call \/ OwnKan \/ Tsumo \/ Ron \/ Exhaust \/ Terminate
  PROVE  table'.moves = table.moves + 1
<1>1. PICK t, k : t = table /\ k = table.moves
  OBVIOUS
<1>2. Counted(t, k) /\ k \in Nat /\ Counted(Settled(t), k)
  BY <1>1, TableCounts, SettledCounts
<1>3. CASE Sit
  <2>1. PICK s, g, m : Step([Empty(s, g) EXCEPT !.moves = k], m)
    BY <1>1, <1>3 DEF Sit
  <2>2. PICK q : q = [Empty(s, g) EXCEPT !.moves = k]
    OBVIOUS
  <2>3. Counted(q, k)
    BY <2>2 DEF Counted, Empty
  <2>4. Step(q, m)
    BY <2>1, <2>2
  <2>5. table'.moves = k + 1
    BY <1>2, <2>3, <2>4, StepCounts
  <2>. QED
    BY <1>1, <2>5
<1>4. CASE Deal
  <2>1. PICK oya : 
       Step([t EXCEPT !.stage = "act", !.turn = oya, !.oya = oya, !.drew = TRUE,
                          !.rack = [i \in 1..(IF oya = t.me THEN 14 ELSE 13) |-> i],
                          !.melds = [a \in Players(t) |-> 0], !.opened = {}, !.pending = None,
                          !.accepted = {}, !.kan = "none", !.shown = 1, !.due = 0,
                          !.offer = FALSE, !.hands = @ + 1], Mv("deal", oya))
    BY <1>1, <1>4, Zenon DEF Deal
  <2>2. PICK q : q = [t EXCEPT !.stage = "act", !.turn = oya, !.oya = oya, !.drew = TRUE,
                          !.rack = [i \in 1..(IF oya = t.me THEN 14 ELSE 13) |-> i],
                          !.melds = [a \in Players(t) |-> 0], !.opened = {}, !.pending = None,
                          !.accepted = {}, !.kan = "none", !.shown = 1, !.due = 0,
                          !.offer = FALSE, !.hands = @ + 1]
    OBVIOUS
  <2>3. PICK m : m = Mv("deal", oya)
    OBVIOUS
  <2>4. Counted(q, k)
    BY <1>2, <2>2 DEF Counted
  <2>5. Step(q, m)
    BY <2>1, <2>2, <2>3
  <2>6. table'.moves = k + 1
    BY <1>2, <2>4, <2>5, StepCounts
  <2>. QED
    BY <1>1, <2>6
<1>5. CASE Draw
  <2>1. PICK s, who, r, m : /\ s = Settled(t)
                            /\ Step([s EXCEPT !.stage = "act", !.turn = who, !.drew = TRUE, !.kan = "none", !.offer = FALSE, !.rack = r], m)
    BY <1>1, <1>5, Zenon DEF Draw
  <2>2. PICK q : q = [s EXCEPT !.stage = "act", !.turn = who, !.drew = TRUE, !.kan = "none", !.offer = FALSE, !.rack = r]
    OBVIOUS
  <2>3. Counted(q, k)
    BY <1>2, <2>1, <2>2 DEF Counted
  <2>4. Step(q, m)
    BY <2>1, <2>2
  <2>5. table'.moves = k + 1
    BY <1>2, <2>3, <2>4, StepCounts
  <2>. QED
    BY <1>1, <2>5
<1>6. CASE Discard
  <2>1. PICK last \in BOOLEAN, riichi \in BOOLEAN, offer \in BOOLEAN :
          /\ table.turn \in table.accepted => last /\ ~riichi
          /\ riichi => table.drew /\ table.turn \notin table.opened
          /\ Offers(table, offer)
          /\ Step([table EXCEPT !.stage = "open", !.drew = FALSE, !.offer = offer,
                                !.pending = IF riichi THEN table.turn ELSE None,
                                !.shown = @ + table.due, !.due = 0,
                                !.rack = IF ~(table.turn = table.me) THEN @ ELSE IF last THEN Front(table.rack) ELSE Tail(table.rack)],
                  [Mv("discard", table.turn) EXCEPT !.last = last, !.giri = last /\ table.drew, !.riichi = riichi,
                     !.taken = IF ~(table.turn = table.me) THEN {} ELSE {IF last THEN Last(table.rack) ELSE Head(table.rack)}])
    BY <1>6, Zenon DEF Discard
  <2>2. PICK q, m :
          /\ q = [table EXCEPT !.stage = "open", !.drew = FALSE, !.offer = offer,
                                !.pending = IF riichi THEN table.turn ELSE None,
                                !.shown = @ + table.due, !.due = 0,
                                !.rack = IF ~(table.turn = table.me) THEN @ ELSE IF last THEN Front(table.rack) ELSE Tail(table.rack)]
          /\ m = [Mv("discard", table.turn) EXCEPT !.last = last, !.giri = last /\ table.drew, !.riichi = riichi,
                     !.taken = IF ~(table.turn = table.me) THEN {} ELSE {IF last THEN Last(table.rack) ELSE Head(table.rack)}]
    BY Zenon
  <2>3. PICK o, p, d, r : q = [t EXCEPT !.stage = "open", !.drew = FALSE, !.offer = o, !.pending = p, !.shown = d, !.due = 0, !.rack = r]
    BY <1>1, <2>2, Zenon
  <2>4. Counted(q, k)
    BY <1>2, <2>3 DEF Counted
  <2>5. Step(q, m)
    BY <2>1, <2>2, Zenon
  <2>6. table'.moves = k + 1
    BY <1>2, <2>4, <2>5, StepCounts
  <2>. QED
    BY <1>1, <2>6
<1>7. CASE Call
  <2>1. PICK s, a, c : s = Settled(t) /\ Called(s, a, c)
    BY <1>1, <1>7 DEF Call
  <2>2. Step([s EXCEPT !.turn = a, !.stage = IF c = "daiminkan" THEN "open" ELSE "act", !.offer = FALSE,
                       !.drew = FALSE, !.kan = IF c = "daiminkan" THEN c ELSE "none",
                       !.melds[a] = @ + 1, !.opened = @ \cup {a}, !.due = @ + (IF c = "daiminkan" THEN 1 ELSE 0),
                       !.rack = IF a = s.me THEN SubSeq(@, (IF c = "daiminkan" THEN 3 ELSE 2) + 1, Len(@)) ELSE @],
             [Mv("call", a) EXCEPT !.call = c, !.from = s.turn, !.accepts = table.pending,
                !.taken = IF a = s.me THEN ToSet(SubSeq(s.rack, 1, IF c = "daiminkan" THEN 3 ELSE 2)) ELSE {}])
    BY <2>1, Zenon DEF Called
  <2>3. PICK q, m :
          /\ q = [s EXCEPT !.turn = a, !.stage = IF c = "daiminkan" THEN "open" ELSE "act", !.offer = FALSE,
                       !.drew = FALSE, !.kan = IF c = "daiminkan" THEN c ELSE "none",
                       !.melds[a] = @ + 1, !.opened = @ \cup {a}, !.due = @ + (IF c = "daiminkan" THEN 1 ELSE 0),
                       !.rack = IF a = s.me THEN SubSeq(@, (IF c = "daiminkan" THEN 3 ELSE 2) + 1, Len(@)) ELSE @]
          /\ m = [Mv("call", a) EXCEPT !.call = c, !.from = s.turn, !.accepts = table.pending,
                !.taken = IF a = s.me THEN ToSet(SubSeq(s.rack, 1, IF c = "daiminkan" THEN 3 ELSE 2)) ELSE {}]
    BY Zenon
  <2>4. PICK st, ka, me, op, du, ra :
          q = [s EXCEPT !.turn = a, !.stage = st, !.offer = FALSE, !.drew = FALSE, !.kan = ka,
                         !.melds[a] = me, !.opened = op, !.due = du, !.rack = ra]
    BY <2>3, Zenon
  <2>5. Counted(q, k)
    BY <1>2, <2>1, <2>4 DEF Counted
  <2>6. Step(q, m)
    BY <2>2, <2>3, Zenon
  <2>7. table'.moves = k + 1
    BY <1>2, <2>5, <2>6, StepCounts
  <2>. QED
    BY <1>1, <2>7
<1>8. CASE OwnKan
  <2>1. PICK c \in {"ankan", "kakan", "kita"}, offer \in BOOLEAN :
          /\ c = "kita" => table.n = 3
          /\ c = "kakan" => table.turn \in table.opened
          /\ c = "ankan" => table.melds[table.turn] < 4
          /\ table.turn \in table.accepted => c # "kakan"
          /\ c # "kita" => table.shown + table.due < MaxDora
          /\ Offers(table, offer) /\ (offer => c # "ankan")
          /\ Step([table EXCEPT !.stage = "open", !.drew = FALSE, !.kan = c, !.offer = offer,
                     !.melds[table.turn] = IF c = "ankan" THEN @ + 1 ELSE @,
                     !.shown = IF c = "ankan" THEN @ + 1 ELSE IF c = "kita" THEN @ + table.due ELSE @,
                     !.due = IF c = "kita" THEN 0 ELSE IF c = "kakan" THEN @ + 1 ELSE @,
                     !.rack = IF table.turn # table.me THEN @ ELSE IF c # "kakan" THEN SubSeq(@, (IF c = "ankan" THEN 4 ELSE 1) + 1, Len(@)) ELSE Front(@)],
                  [Mv("kan", table.turn) EXCEPT !.call = c,
                     !.taken = IF table.turn # table.me THEN {} ELSE IF c # "kakan" THEN ToSet(SubSeq(table.rack, 1, IF c = "ankan" THEN 4 ELSE 1)) ELSE {Last(table.rack)}])
    BY <1>8, Zenon DEF OwnKan
  <2>2. PICK q, m :
          /\ q = [table EXCEPT !.stage = "open", !.drew = FALSE, !.kan = c, !.offer = offer,
                     !.melds[table.turn] = IF c = "ankan" THEN @ + 1 ELSE @,
                     !.shown = IF c = "ankan" THEN @ + 1 ELSE IF c = "kita" THEN @ + table.due ELSE @,
                     !.due = IF c = "kita" THEN 0 ELSE IF c = "kakan" THEN @ + 1 ELSE @,
                     !.rack = IF table.turn # table.me THEN @ ELSE IF c # "kakan" THEN SubSeq(@, (IF c = "ankan" THEN 4 ELSE 1) + 1, Len(@)) ELSE Front(@)]
          /\ m = [Mv("kan", table.turn) EXCEPT !.call = c,
                     !.taken = IF table.turn # table.me THEN {} ELSE IF c # "kakan" THEN ToSet(SubSeq(table.rack, 1, IF c = "ankan" THEN 4 ELSE 1)) ELSE {Last(table.rack)}]
    BY Zenon
  <2>3. PICK me, sh, du, ra :
          q = [t EXCEPT !.stage = "open", !.drew = FALSE, !.kan = c, !.offer = offer, !.melds[t.turn] = me,
                         !.shown = sh, !.due = du, !.rack = ra]
    BY <1>1, <2>2, Zenon
  <2>4. Counted(q, k)
    BY <1>2, <2>3 DEF Counted
  <2>5. Step(q, m)
    BY <2>1, <2>2, Zenon
  <2>6. table'.moves = k + 1
    BY <1>2, <2>4, <2>5, StepCounts
  <2>. QED
    BY <1>1, <2>6
<1>9. CASE Tsumo
  <2>1. PICK m, final : Ends(t, m, final)
    BY <1>1, <1>9, Zenon DEF Tsumo
  <2>2. table'.moves = k + 1
    BY <1>2, <2>1, EndsCounts
  <2>. QED
    BY <1>1, <2>2
<1>10. CASE Ron
  <2>1. PICK m, final : Ends(t, m, final)
    BY <1>1, <1>10, Zenon DEF Ron
  <2>2. table'.moves = k + 1
    BY <1>2, <2>1, EndsCounts
  <2>. QED
    BY <1>1, <2>2
<1>11. CASE Exhaust
  <2>1. PICK s, m, final : s = Settled(t) /\ Ends(s, m, final)
    BY <1>1, <1>11, Zenon DEF Exhaust
  <2>2. Counted(s, k)
    BY <1>2, <2>1
  <2>3. table'.moves = k + 1
    BY <1>2, <2>1, <2>2, EndsCounts
  <2>. QED
    BY <1>1, <2>3
<1>12. CASE Terminate
  <2>1. PICK m : Step([t EXCEPT !.stage = "over", !.offer = FALSE], m)
    BY <1>1, <1>12 DEF Terminate
  <2>2. PICK q : q = [t EXCEPT !.stage = "over", !.offer = FALSE]
    OBVIOUS
  <2>3. Counted(q, k)
    BY <1>2, <2>2 DEF Counted
  <2>4. Step(q, m)
    BY <2>1, <2>2
  <2>5. table'.moves = k + 1
    BY <1>2, <2>3, <2>4, StepCounts
  <2>. QED
    BY <1>1, <2>5
<1>. QED
  BY <1>3, <1>4, <1>5, <1>6, <1>7, <1>8, <1>9, <1>10, <1>11, <1>12

(* ------ any of the three platforms --------------------------------------- *)
Good(p, t, m, b, v, r) ==
  /\ p = "tenhou" => TenhouSeen(t, m, b, v, r)
  /\ p = "majsoul" => MajLive(t, m, b, v, r)
  /\ p = "riichi_city" => RiichiSeen(t, m, b, v, r)

(* Once the frames of w are read, all is known.                              *)
Coming(p, t, m, b, v, r, w) == \E b2, v2, r2 : Runs(p, b, v, r, w, b2, v2, r2) /\ Good(p, t, m, b2, v2, r2)

SentOf(p, t, t2, m2, early) ==
  CASE p = "tenhou"  -> Tenhou!Frames(t, t2, m2)
    [] p = "majsoul" -> MajSent(t, t2, m2, early)
    [] OTHER         -> RiichiCity!Frames(t, t2, m2) \o RiichiCity!Result(t2, m2)

(* The bridge that reads them.                                               *)
ConnectedOf(p, b, m2) == IF m2.kind = "sit" /\ p = "majsoul" THEN MajOpened(b.window) ELSE b

MoveOf(p, t, t2, m2) == Moved(t, t2, m2) \/ (p = "majsoul" /\ HasTerminated(t, t2, m2))
Platform(p) == p \in {"tenhou", "majsoul", "riichi_city"}

LEMMA MajTold ==
  ASSUME NEW t, NEW t2, NEW m, NEW m2, TableOK(t), TableOK(t2), MoveOf("majsoul", t, t2, m2), NEW b,
         NEW v, NEW r, MajLive(t, m, b, v, r),
         NEW early, early \in BOOLEAN, NEW c, c = ConnectedOf("majsoul", b, m2)
  PROVE  \E b2, v2, r2 : Runs("majsoul", c, v, r, MajSent(t, t2, m2, early), b2, v2, r2) /\ MajLive(t2, m2, b2, v2, r2)
<1>1. CASE HasSat(t, t2, m2)
  <2>1. m2.kind = "sit" /\ ~m2.final /\ b \in MajBridges
    BY <1>1 DEF HasSat, MajLive, MajSeen, MajGood
  <2>2. c = MajOpened(b.window)
    BY <2>1 DEF ConnectedOf
  <2>3. PICK w : w = Majsoul!Frames(t, t2, m2, early)
    OBVIOUS
  <2>4. PICK b2, v2, r2 : Runs("majsoul", MajOpened(b.window), v, r, w, b2, v2, r2) /\ MajLive(t2, m2, b2, v2, r2)
    BY <1>1, <2>1, <2>3, MajSits
  <2>5. Runs("majsoul", c, v, r, w, b2, v2, r2)
    BY <2>2, <2>4
  <2>6. MajSent(t, t2, m2, early) = w
    BY <2>1, <2>3, <2>5, MajNoResult, RunsSame DEF MajSent
  <2>. QED
    BY <2>4, <2>5, <2>6
<1>2. CASE ~HasSat(t, t2, m2)
  <2>1. c = b
    <3>1. m2.kind # "sit"
      BY <1>2 DEF MoveOf, Moved, HasDealt, HasDrawn, HasDiscarded, HasCalled, HasKan, HasWon,
         HasExhausted, HasTerminated
    <3>. QED
      BY <3>1 DEF ConnectedOf
  <2>2. \E b2, v2, r2 : Runs("majsoul", b, v, r, MajSent(t, t2, m2, early), b2, v2, r2) /\ MajLive(t2, m2, b2, v2, r2)
    <3>1. CASE Played(t, t2, m2)
      BY <3>1, MajRuns
    <3>2. CASE HasWon(t, t2, m2)
      BY <3>2, MajWins DEF MajSent
    <3>3. CASE HasExhausted(t, t2, m2)
      BY <3>3, MajExhausts DEF MajSent
    <3>4. CASE HasTerminated(t, t2, m2)
      <4>1. PICK w : w = Majsoul!Frames(t, t2, m2, early)
        OBVIOUS
      <4>2. PICK b2, v2, r2 : Runs("majsoul", b, v, r, w, b2, v2, r2) /\ MajLive(t2, m2, b2, v2, r2)
        BY <3>4, <4>1, MajTerminates
      <4>3. ~m2.final
        BY <3>4 DEF HasTerminated
      <4>4. MajSent(t, t2, m2, early) = w
        BY <4>1, <4>2, <4>3, MajNoResult, RunsSame DEF MajSent
      <4>. QED
        BY <4>2, <4>4
    <3>. QED
      BY <1>2, <3>1, <3>2, <3>3, <3>4 DEF MoveOf, Moved, Played
  <2>. QED
    BY <2>1, <2>2
<1>. QED
  BY <1>1, <1>2

LEMMA AllTold ==
  ASSUME NEW p, Platform(p), NEW t, NEW t2, NEW m, NEW m2, TableOK(t), TableOK(t2),
         MoveOf(p, t, t2, m2), NEW b, NEW v, NEW r,
         Good(p, t, m, b, v, r), NEW early, early \in BOOLEAN
  PROVE  Coming(p, t2, m2, ConnectedOf(p, b, m2), v, r, SentOf(p, t, t2, m2, early))
<1>1. CASE p = "majsoul"
  <2>1. PICK c : c = ConnectedOf("majsoul", b, m2)
    OBVIOUS
  <2>2. MajLive(t, m, b, v, r) /\ MoveOf("majsoul", t, t2, m2)
    BY <1>1 DEF Good
  <2>3. \E b2, v2, r2 : Runs("majsoul", c, v, r, MajSent(t, t2, m2, early), b2, v2, r2) /\ MajLive(t2, m2, b2, v2, r2)
    BY <2>1, <2>2, MajTold
  <2>4. SentOf(p, t, t2, m2, early) = MajSent(t, t2, m2, early)
    BY <1>1 DEF SentOf
  <2>5. PICK w : w = MajSent(t, t2, m2, early)
    OBVIOUS
  <2>6. PICK b2, v2, r2 : Runs("majsoul", c, v, r, w, b2, v2, r2) /\ MajLive(t2, m2, b2, v2, r2)
    BY <2>3, <2>5
  <2>7. Good(p, t2, m2, b2, v2, r2)
    BY <1>1, <2>6 DEF Good
  <2>8. Coming(p, t2, m2, c, v, r, w)
    BY <1>1, <2>6, <2>7 DEF Coming
  <2>. QED
    BY <1>1, <2>1, <2>4, <2>5, <2>8
<1>2. CASE p = "tenhou"
  <2>1. TenhouSeen(t, m, b, v, r) /\ Moved(t, t2, m2)
    BY <1>2 DEF Good, MoveOf
  <2>2. PICK w : w = Tenhou!Frames(t, t2, m2)
    OBVIOUS
  <2>3. PICK b2, v2, r2 : Runs("tenhou", b, v, r, w, b2, v2, r2) /\ TenhouSeen(t2, m2, b2, v2, r2)
    BY <2>1, <2>2, TenhouMoves
  <2>4. Good(p, t2, m2, b2, v2, r2)
    BY <1>2, <2>3 DEF Good
  <2>5. Coming(p, t2, m2, b, v, r, w)
    BY <1>2, <2>3, <2>4 DEF Coming
  <2>6. SentOf(p, t, t2, m2, early) = w /\ ConnectedOf(p, b, m2) = b
    BY <1>2, <2>2 DEF SentOf, ConnectedOf
  <2>. QED
    BY <2>5, <2>6
<1>3. CASE p = "riichi_city"
  <2>1. RiichiSeen(t, m, b, v, r) /\ Moved(t, t2, m2)
    BY <1>3 DEF Good, MoveOf
  <2>2. PICK w : w = RiichiCity!Frames(t, t2, m2) \o RiichiCity!Result(t2, m2)
    OBVIOUS
  <2>3. PICK b2, v2, r2 : Runs("riichi_city", b, v, r, w, b2, v2, r2) /\ RiichiSeen(t2, m2, b2, v2, r2)
    BY <2>1, <2>2, RiichiMoves
  <2>4. Good(p, t2, m2, b2, v2, r2)
    BY <1>3, <2>3 DEF Good
  <2>5. Coming(p, t2, m2, b, v, r, w)
    BY <1>3, <2>3, <2>4 DEF Coming
  <2>6. SentOf(p, t, t2, m2, early) = w /\ ConnectedOf(p, b, m2) = b
    BY <1>3, <2>2 DEF SentOf, ConnectedOf
  <2>. QED
    BY <2>5, <2>6
<1>. QED
  BY <1>1, <1>2, <1>3 DEF Platform

(* ------ what the server keeps to send it again --------------------------- *)
Kept(p, t, m, l, k) ==
  p = "majsoul" =>
    /\ t.stage \notin {"act", "open"} => l = <<>>
    /\ t.stage \in {"act", "open"} /\ k > 0 /\ t.moves <= RejoinBy => MajLogged(t, m, l)
LoggedOf(p, t2, m2, l, k, w) ==
  IF p # "majsoul" \/ k = 0 \/ t2.moves > RejoinBy \/ m2.kind \in {"sit", "win", "exhaust", "terminate"} THEN <<>>
  ELSE IF m2.kind = "deal" THEN w ELSE l \o w

LEMMA MajPlain ==
  ASSUME NEW t, NEW t2, NEW m, NEW m2, TableOK(t), TableOK(t2), Played(t, t2, m2), NEW b, NEW v,
         NEW r, MajLive(t, m, b, v, r),
         NEW early, early \in BOOLEAN
  PROVE  MajSent(t, t2, m2, early) = Majsoul!Frames(t, t2, m2, early)
<1>1. MajSeen(t, m, b, v, r)
  BY DEF MajLive
<1>2. PICK w : w = Majsoul!Frames(t, t2, m2, early)
  OBVIOUS
<1>3. PICK b2, v2, r2 : MajStep(b, v, r, w, b2, v2, r2)
  BY <1>1, <1>2, MajSteps
<1>4. Runs("majsoul", b, v, r, w, b2, v2, r2)
  BY <1>3, MajStepRuns
<1>5. ~m2.final
  BY DEF Played, HasDealt, HasDrawn, HasDiscarded, HasCalled, HasKan
<1>. QED
  BY <1>2, <1>4, <1>5, MajNoResult, RunsSame DEF MajSent

LEMMA KeptOn ==
  ASSUME NEW p, NEW t, NEW t2, NEW m, NEW m2, TableOK(t), TableOK(t2), MoveOf(p, t, t2, m2),
         t2.moves = t.moves + 1, NEW b, NEW v, NEW r,
         Good(p, t, m, b, v, r), NEW early, early \in BOOLEAN, NEW l, NEW k, k \in Nat, Kept(p, t, m, l, k)
  PROVE  Kept(p, t2, m2, LoggedOf(p, t2, m2, l, k, SentOf(p, t, t2, m2, early)), k)
<1>1. CASE p # "majsoul"
  BY <1>1 DEF Kept
<1>2. CASE p = "majsoul"
  <2>1. PICK w, x : w = Majsoul!Frames(t, t2, m2, early) /\ x = SentOf(p, t, t2, m2, early)
    OBVIOUS
  <2>2. PICK l2 : l2 = LoggedOf(p, t2, m2, l, k, x)
    OBVIOUS
  <2>3. MajLive(t, m, b, v, r) /\ RejoinBy \in Nat /\ t.moves \in Nat /\ t2.moves \in Nat
    BY <1>2, BridgesAssumption, TableFields DEF Good
  <2>4. CASE Played(t, t2, m2)
    <3>1. x = w
      BY <1>2, <2>1, <2>3, <2>4, MajPlain DEF SentOf
    <3>2. t2.stage \in {"act", "open"} /\ m2.kind \notin {"sit", "win", "exhaust", "terminate"} /\ (m2.kind = "deal" <=> HasDealt(t, t2, m2))
      BY <2>4 DEF Played, HasDealt, HasDrawn, HasDiscarded, HasCalled, HasKan
    <3>3. ASSUME k > 0, t2.moves <= RejoinBy PROVE MajLogged(t2, m2, l2)
      <4>1. ~(t2.moves > RejoinBy) /\ k # 0 /\ t.moves <= RejoinBy
        BY <2>3, <3>3
      <4>2. CASE HasDealt(t, t2, m2)
        <5>1. l2 = w
          BY <1>2, <2>2, <3>1, <3>2, <4>1, <4>2 DEF LoggedOf
        <5>2. MajLogged(t2, m2, w)
          BY <2>1, <4>2, MajLogs
        <5>. QED
          BY <5>1, <5>2
      <4>3. CASE ~HasDealt(t, t2, m2)
        <5>1. l2 = l \o w
          BY <1>2, <2>2, <3>1, <3>2, <4>1, <4>3 DEF LoggedOf
        <5>2. t.stage \in {"act", "open"}
          BY <2>4, <4>3 DEF Played, HasDrawn, HasDiscarded, HasCalled, HasKan
        <5>3. MajLogged(t, m, l)
          BY <1>2, <3>3, <4>1, <5>2 DEF Kept
        <5>4. MajLogged(t2, m2, l \o w)
          BY <2>1, <2>4, <4>3, <5>3, MajLogsOn
        <5>. QED
          BY <5>1, <5>4
      <4>. QED
        BY <4>2, <4>3
    <3>. QED
      BY <2>1, <2>2, <3>2, <3>3 DEF Kept
  <2>5. CASE ~Played(t, t2, m2)
    <3>1. HasSat(t, t2, m2) \/ HasWon(t, t2, m2) \/ HasExhausted(t, t2, m2) \/ HasTerminated(t, t2, m2)
      BY <2>5 DEF MoveOf, Moved, Played
    <3>2. m2.kind \in {"sit", "win", "exhaust", "terminate"}
      BY <3>1 DEF HasSat, HasWon, HasExhausted, HasTerminated
    <3>3. t2.stage \notin {"act", "open"}
      BY <3>1 DEF HasSat, HasWon, HasExhausted, HasEnded, HasTerminated
    <3>4. l2 = <<>>
      BY <2>2, <3>2 DEF LoggedOf
    <3>. QED
      BY <2>1, <2>2, <3>3, <3>4 DEF Kept
  <2>. QED
    BY <2>4, <2>5
<1>. QED
  BY <1>1, <1>2

(* ------ at first --------------------------------------------------------- *)
LEMMA FirstView ==
  ASSUME NEW p, NEW t, t.games = 0, t.stage = "seated", NEW m, NEW v, v = NoView, NEW r
  PROVE  ViewGood(p, t, m, v, r)
<1>1. t.stage = "seated" => IF p = "majsoul" /\ t.games > 0 THEN Waiting(t, v, r) ELSE v = NoView
  <2>1. ~(t.games > 0)
    OBVIOUS
  <2>. QED
    BY <2>1
<1>2. t.stage \notin {"act", "open"} /\ t.stage # "between" /\ t.stage # "over"
  OBVIOUS
<1>3. /\ t.stage \in {"act", "open"} => Playing(t, m, v, r)
      /\ t.stage = "between" => Between(p, t, m, v, r)
      /\ t.stage = "over" => Over(p, t, m, v, r)
  BY <1>2
<1>. QED
  BY <1>1, <1>3 DEF ViewGood

LEMMA TenhouFreshIs == Tenhou!Fresh \in TenhouBridges /\ ~Tenhou!Fresh.window
<1>1. <<>> \in Seq(Nat)
  OBVIOUS
<1>. QED
  BY <1>1 DEF Tenhou!Fresh, TenhouBridges

LEMMA RiichiFreshIs == RiichiCity!Fresh \in RiichiBridges /\ ~RiichiCity!Fresh.window /\ RiichiCity!Fresh.status = RiichiCity!NoStatus
<1>1. RiichiCity!NoStatus \in RiichiStatuses
  <2>1. <<>> \in Seq(0..3)
    OBVIOUS
  <2>. QED
    BY <2>1 DEF RiichiCity!NoStatus, RiichiStatuses, RiichiCity!Nobody
<1>. QED
  BY <1>1 DEF RiichiCity!Fresh, RiichiBridges

FreshOf(p) == CASE p = "tenhou" -> Tenhou!Fresh [] p = "majsoul" -> Majsoul!Fresh [] OTHER -> RiichiCity!Fresh

LEMMA FirstGood ==
  ASSUME NEW p, Platform(p), NEW t, t.games = 0, t.stage = "seated", ~t.offer, NEW m, NEW r
  PROVE  Good(p, t, m, FreshOf(p), NoView, r)
<1>0. ViewGood("tenhou", t, m, NoView, r) /\ ViewGood("majsoul", t, m, NoView, r) /\ ViewGood("riichi_city", t, m, NoView, r)
  <2>1. PICK v : v = NoView
    OBVIOUS
  <2>2. \A q : ViewGood(q, t, m, v, r)
    BY <2>1, FirstView
  <2>. QED
    BY <2>1, <2>2
<1>1. CASE p = "tenhou"
  <2>1. PICK b : b = Tenhou!Fresh
    OBVIOUS
  <2>2. TenhouGood(t, b)
    BY <2>1, TenhouFreshIs DEF TenhouGood, OwedAt
  <2>3. TenhouSeen(t, m, b, NoView, r)
    BY <1>0, <2>2 DEF TenhouSeen
  <2>. QED
    BY <1>1, <2>1, <2>3 DEF Good, FreshOf
<1>2. CASE p = "majsoul"
  <2>1. PICK b : b = Majsoul!Fresh
    OBVIOUS
  <2>2. MajGood(t, b) /\ ~b.replaying
    BY <2>1, MajFreshIs DEF MajGood
  <2>3. MajLive(t, m, b, NoView, r)
    BY <1>0, <2>2 DEF MajSeen, MajLive
  <2>. QED
    BY <1>2, <2>1, <2>3 DEF Good, FreshOf
<1>3. CASE p = "riichi_city"
  <2>1. PICK b : b = RiichiCity!Fresh
    OBVIOUS
  <2>2. RiichiGood(t, m, b)
    BY <2>1, RiichiFreshIs DEF RiichiGood
  <2>3. RiichiSeen(t, m, b, NoView, r)
    BY <1>0, <2>2 DEF RiichiSeen
  <2>. QED
    BY <1>3, <2>1, <2>3 DEF Good, FreshOf
<1>. QED
  BY <1>1, <1>2, <1>3 DEF Platform

(* ------ the client joins again ------------------------------------------- *)
MayRejoin(p, t, m, l, b, c, w) ==
  \/ /\ p = "majsoul" /\ t.games > 0 /\ t.stage # "over" /\ b.window \in BOOLEAN
     /\ t.stage \in {"act", "open"} => MajLogged(t, m, l)
     /\ t.stage \notin {"act", "open"} => l = <<>>
     /\ c = MajOpened(b.window) /\ w = MajRejoin(t, l)
  \/ /\ p = "tenhou" /\ t.stage = "between" /\ t.n = 4
     /\ c = Tenhou!Fresh /\ w = Tenhou!Frames(t, t, Mv("sit", 0))

LEMMA AllRejoin ==
  ASSUME NEW p, NEW t, TableOK(t), NEW m, NEW l, NEW b, NEW v, NEW r, Good(p, t, m, b, v, r), NEW c,
         NEW w, MayRejoin(p, t, m, l, b, c, w)
  PROVE  Coming(p, t, m, c, v, r, w)
<1>1. CASE p = "majsoul"
  <2>1. /\ t.games > 0 /\ t.stage # "over" /\ b.window \in BOOLEAN
        /\ t.stage \in {"act", "open"} => MajLogged(t, m, l)
        /\ t.stage \notin {"act", "open"} => l = <<>>
        /\ c = MajOpened(b.window) /\ w = MajRejoin(t, l)
    BY <1>1 DEF MayRejoin
  <2>2. PICK win : win = b.window
    OBVIOUS
  <2>3. PICK b2, v2, r2 : Runs("majsoul", MajOpened(win), v, r, MajRejoin(t, l), b2, v2, r2) /\ MajLive(t, m, b2, v2, r2)
    BY <2>1, <2>2, MajRejoins
  <2>4. Runs(p, c, v, r, w, b2, v2, r2) /\ Good(p, t, m, b2, v2, r2)
    BY <1>1, <2>1, <2>2, <2>3 DEF Good
  <2>. QED
    BY <2>4 DEF Coming
<1>2. CASE p = "tenhou"
  <2>1. t.stage = "between" /\ t.n = 4 /\ c = Tenhou!Fresh /\ w = Tenhou!Frames(t, t, Mv("sit", 0)) /\ TenhouSeen(t, m, b, v, r)
    BY <1>2 DEF MayRejoin, Good
  <2>2. \E b2 : Runs("tenhou", Tenhou!Fresh, v, r, Tenhou!Frames(t, t, Mv("sit", 0)), b2, v, r) /\ TenhouSeen(t, m, b2, v, r)
    BY <2>1, TenhouRejoining
  <2>3. PICK b2 : Runs(p, c, v, r, w, b2, v, r) /\ Good(p, t, m, b2, v, r)
    BY <1>2, <2>1, <2>2 DEF Good
  <2>. QED
    BY <2>3 DEF Coming
<1>. QED
  BY <1>1, <1>2 DEF MayRejoin

(* ------ an event is one of the stream's ---------------------------------- *)
LEMMA StreamIs ==
  /\ \A type, a : Stream!Ev(type, a) = Ev(type, a)
  /\ \A v, e : (Stream!Legal(v, e) <=> Legal(v, e)) /\ Stream!After(v, e) = After(v, e)
  /\ Stream!Calls = Calls /\ Stream!OwnKans = OwnKans /\ Stream!NoView = NoView
<1>1. \A type, a : Stream!Ev(type, a) = Ev(type, a)
  BY DEF Stream!Ev, Ev
<1>2. Stream!Calls = Calls /\ Stream!OwnKans = OwnKans /\ Stream!NoView = NoView
  BY DEF Stream!Calls, Calls, Stream!OwnKans, OwnKans, Stream!NoView, NoView, Stream!Nobody, Nobody
<1>3. ASSUME NEW v, NEW e PROVE Stream!Legal(v, e) <=> Legal(v, e)
  BY <1>2, Zenon DEF Stream!Legal, Legal, Stream!Free, Free, Stream!InPlay, InPlay, Stream!Holds,
     Holds, Stream!Nobody, Nobody
<1>4. ASSUME NEW v, NEW e PROVE Stream!After(v, e) = After(v, e)
  BY <1>2, Zenon DEF Stream!After, After, Stream!Nobody, Nobody
<1>. QED
  BY <1>1, <1>2, <1>3, <1>4

LEMMA SeatEvents ==
  ASSUME NEW v, NEW e, NEW f, f.type = e.type, f.actor = e.actor,
         e.type \in {"tsumo", "reach", "reach_accepted"} \cup OwnKans
  PROVE  (Legal(v, f) <=> Legal(v, e)) /\ After(v, f) = After(v, e)
<1>1. CASE e.type = "tsumo"
  BY <1>1 DEF Legal, After
<1>2. CASE e.type = "reach"
  BY <1>2 DEF Legal, After
<1>3. CASE e.type = "reach_accepted"
  BY <1>3 DEF Legal, After
<1>4. CASE e.type \in OwnKans
  BY <1>4 DEF Legal, After, OwnKans, Calls
<1>. QED
  BY <1>1, <1>2, <1>3, <1>4

LEMMA OfferEvents ==
  ASSUME NEW v, NEW e, NEW f, f.type = e.type, f.actor = e.actor, f.target = e.target,
         e.type \in {"hora"} \cup Calls
  PROVE  (Legal(v, f) <=> Legal(v, e)) /\ After(v, f) = After(v, e)
<1>1. CASE e.type = "hora"
  BY <1>1 DEF Legal, After, OwnKans, Calls
<1>2. CASE e.type \in Calls
  BY <1>2 DEF Legal, After, OwnKans, Calls
<1>. QED
  BY <1>1, <1>2

LEMMA BareEvents ==
  ASSUME NEW v, NEW e, NEW f, f.type = e.type,
         e.type \in {"dora", "ryukyoku", "end_kyoku", "end_game"}
  PROVE  (Legal(v, f) <=> Legal(v, e)) /\ After(v, f) = After(v, e)
<1>1. CASE e.type = "dora"
  BY <1>1 DEF Legal, After, OwnKans, Calls
<1>2. CASE e.type = "ryukyoku"
  BY <1>2 DEF Legal, After, OwnKans, Calls
<1>3. CASE e.type = "end_kyoku"
  BY <1>3 DEF Legal, After, OwnKans, Calls
<1>4. CASE e.type = "end_game"
  BY <1>4 DEF Legal, After, OwnKans, Calls
<1>. QED
  BY <1>1, <1>2, <1>3, <1>4

LEMMA OtherEvents ==
  ASSUME NEW v, NEW e, NEW f, f.type = e.type, f.actor = e.actor
  PROVE  /\ e.type = "start_game" /\ f.players = e.players => (Legal(v, f) <=> Legal(v, e)) /\ After(v, f) = After(v, e)
         /\ e.type = "start_kyoku" /\ Legal(v, e) /\ f.players = v.players => Legal(v, f) /\ After(v, f) = After(v, e)
         /\ e.type = "dahai" /\ f.giri = e.giri => (Legal(v, f) <=> Legal(v, e)) /\ After(v, f) = After(v, e)
<1>1. ASSUME e.type = "start_game", f.players = e.players PROVE (Legal(v, f) <=> Legal(v, e)) /\ After(v, f) = After(v, e)
  BY <1>1 DEF Legal, After
<1>2. ASSUME e.type = "start_kyoku", Legal(v, e), f.players = v.players PROVE Legal(v, f) /\ After(v, f) = After(v, e)
  <2>1. v.phase \in {"game", "ended"}
    BY <1>2 DEF Legal, Calls, OwnKans
  <2>2. Legal(v, f)
    BY <1>2, <2>1 DEF Legal, Calls, OwnKans
  <2>3. After(v, f) = After(v, e)
    BY <1>2 DEF After
  <2>. QED
    BY <2>2, <2>3
<1>3. ASSUME e.type = "dahai", f.giri = e.giri PROVE (Legal(v, f) <=> Legal(v, e)) /\ After(v, f) = After(v, e)
  <2>1. Legal(v, f) <=> Legal(v, e)
    BY <1>3 DEF Legal
  <2>2. After(v, f) = After(v, e)
    BY <1>3 DEF After
  <2>. QED
    BY <2>1, <2>2
<1>. QED
  BY <1>1, <1>2, <1>3

(* Every event that may come next is a step of the stream.                   *)
LEMMA StreamSteps ==
  ASSUME NEW e, Says(view, e), view' = After(view, e)
  PROVE  Stream!Next
<1>1. Shaped(e) /\ Legal(view, e)
  BY DEF Says
<1>2. ASSUME NEW f, Legal(view, f), After(view, f) = After(view, e)
      PROVE  Stream!Says(f)
  BY <1>2, StreamIs DEF Stream!Says
<1>3. e.actor \in 0..3 /\ e.target \in 0..3 /\ e.giri \in BOOLEAN
  BY <1>1 DEF Shaped
<1>4. CASE e.type = "start_game"
  <2>1. PICK n, s : n = e.players /\ s = e.actor
    OBVIOUS
  <2>2. n \in {3, 4} /\ s \in 0..3
    BY <1>1, <1>4, <2>1 DEF Shaped
  <2>3. PICK f : f = [Ev("start_game", s) EXCEPT !.players = n]
    OBVIOUS
  <2>4. f.type = e.type /\ f.actor = e.actor /\ f.players = e.players
    BY <1>4, <2>1, <2>3 DEF Ev
  <2>5. Legal(view, f) /\ After(view, f) = After(view, e)
    BY <1>1, <1>4, <2>4, OtherEvents
  <2>6. Stream!Says([Stream!Ev("start_game", s) EXCEPT !.players = n])
    BY <1>2, <2>3, <2>5, StreamIs
  <2>. QED
    BY <2>2, <2>6 DEF Stream!Next
<1>5. CASE e.type = "start_kyoku"
  <2>1. PICK s : s = e.actor
    OBVIOUS
  <2>3. PICK f : f = [Ev("start_kyoku", s) EXCEPT !.players = view.players]
    OBVIOUS
  <2>4. f.type = e.type /\ f.actor = e.actor /\ f.players = view.players
    BY <1>5, <2>1, <2>3 DEF Ev
  <2>5. Legal(view, f) /\ After(view, f) = After(view, e)
    BY <1>1, <1>5, <2>4, OtherEvents
  <2>6. Stream!Says([Stream!Ev("start_kyoku", s) EXCEPT !.players = view.players])
    BY <1>2, <2>3, <2>5, StreamIs
  <2>. QED
    BY <1>3, <2>1, <2>6 DEF Stream!Next
<1>6. CASE e.type = "dahai"
  <2>1. PICK s, g : s = e.actor /\ g = e.giri
    OBVIOUS
  <2>3. PICK f : f = [Ev("dahai", s) EXCEPT !.giri = g]
    OBVIOUS
  <2>4. f.type = e.type /\ f.actor = e.actor /\ f.giri = e.giri
    BY <1>6, <2>1, <2>3 DEF Ev
  <2>5. Legal(view, f) /\ After(view, f) = After(view, e)
    BY <1>1, <1>6, <2>4, OtherEvents
  <2>6. Stream!Says([Stream!Ev("dahai", s) EXCEPT !.giri = g])
    BY <1>2, <2>3, <2>5, StreamIs
  <2>. QED
    BY <1>3, <2>1, <2>6 DEF Stream!Next
<1>7. CASE e.type \in {"tsumo", "reach", "reach_accepted"} \cup OwnKans
  <2>1. PICK s, type : s = e.actor /\ type = e.type
    OBVIOUS
  <2>3. PICK f : f = Ev(type, s)
    OBVIOUS
  <2>4. f.type = e.type /\ f.actor = e.actor
    BY <2>1, <2>3 DEF Ev
  <2>5. Legal(view, f) /\ After(view, f) = After(view, e)
    BY <1>1, <1>7, <2>4, SeatEvents
  <2>6. Stream!Says(Stream!Ev(type, s))
    BY <1>2, <2>3, <2>5, StreamIs
  <2>7. type \in {"tsumo", "reach", "reach_accepted"} \cup Stream!OwnKans
    BY <1>7, <2>1, StreamIs
  <2>. QED
    BY <1>3, <2>1, <2>6, <2>7 DEF Stream!Next
<1>8. CASE e.type \in {"hora"} \cup Calls
  <2>1. PICK s, type, g : s = e.actor /\ type = e.type /\ g = e.target
    OBVIOUS
  <2>3. PICK f : f = [Ev(type, s) EXCEPT !.target = g]
    OBVIOUS
  <2>4. f.type = e.type /\ f.actor = e.actor /\ f.target = e.target
    BY <2>1, <2>3 DEF Ev
  <2>5. Legal(view, f) /\ After(view, f) = After(view, e)
    BY <1>1, <1>8, <2>4, OfferEvents
  <2>6. Stream!Says([Stream!Ev(type, s) EXCEPT !.target = g])
    BY <1>2, <2>3, <2>5, StreamIs
  <2>7. type \in {"hora"} \cup Stream!Calls
    BY <1>8, <2>1, StreamIs
  <2>. QED
    BY <1>3, <2>1, <2>6, <2>7 DEF Stream!Next
<1>9. CASE e.type \in {"dora", "ryukyoku", "end_kyoku", "end_game"}
  <2>1. PICK type : type = e.type
    OBVIOUS
  <2>3. PICK f : f = Ev(type, 0)
    OBVIOUS
  <2>4. f.type = e.type
    BY <2>1, <2>3 DEF Ev
  <2>5. Legal(view, f) /\ After(view, f) = After(view, e)
    BY <1>1, <1>9, <2>4, BareEvents
  <2>6. Stream!Says(Stream!Ev(type, 0))
    BY <1>2, <2>3, <2>5, StreamIs
  <2>. QED
    BY <1>9, <2>1, <2>6 DEF Stream!Next
<1>10. e.type \in {"start_game", "start_kyoku", "dahai"} \cup ({"tsumo", "reach", "reach_accepted"} \cup OwnKans) \cup ({"hora"} \cup Calls)
                   \cup {"dora", "ryukyoku", "end_kyoku", "end_game"}
  BY <1>1 DEF Shaped, EventTypes
<1>. QED
  BY <1>4, <1>5, <1>6, <1>7, <1>8, <1>9, <1>10

(* ------ the inductive invariant ------------------------------------------ *)
(* When all that is under way has been read, everything is known.            *)
Due(p, t, m, b, v, r, o, w) == \E u, q : Plays(v, r, o, u, q) /\ Coming(p, t, m, b, u, q, w)

(* The last move fits the stage.                                             *)
Fitting(t, m) == (t.stage = "seated" => m.kind \in {"none", "sit"}) /\ (m.final => t.stage = "over")

Inv ==
  /\ Platform(platform) /\ rejoins \in Nat /\ TableOK(table) /\ Fitting(table, move)
  /\ Due(platform, table, move, bridge, view, record, out, wire)
  /\ Kept(platform, table, move, log, rejoins)

(* With nothing under way, everything is known.                              *)
LEMMA DueNothing ==
  ASSUME NEW p, NEW t, NEW m, NEW b, NEW v, NEW r, NEW o, o = <<>>, NEW w, w = <<>>
  PROVE  Due(p, t, m, b, v, r, o, w) <=> Good(p, t, m, b, v, r)
<1>1. ASSUME Due(p, t, m, b, v, r, o, w) PROVE Good(p, t, m, b, v, r)
  <2>1. PICK u, q : Plays(v, r, <<>>, u, q) /\ Coming(p, t, m, b, u, q, <<>>)
    BY <1>1 DEF Due
  <2>2. u = v /\ q = r
    BY <2>1, PlaysNothing
  <2>3. PICK b2, v2, r2 : Runs(p, b, u, q, <<>>, b2, v2, r2) /\ Good(p, t, m, b2, v2, r2)
    BY <2>1 DEF Coming
  <2>4. b2 = b /\ v2 = u /\ r2 = q
    BY <2>3, RunsNothing
  <2>. QED
    BY <2>2, <2>3, <2>4
<1>2. ASSUME Good(p, t, m, b, v, r) PROVE Due(p, t, m, b, v, r, o, w)
  <2>1. Plays(v, r, <<>>, v, r)
    BY PlaysNothing
  <2>2. Runs(p, b, v, r, <<>>, b, v, r)
    BY RunsNothing
  <2>. QED
    BY <1>2, <2>1, <2>2 DEF Due, Coming
<1>. QED
  BY <1>1, <1>2

(* With no event under way, frames are.                                      *)
LEMMA DueComing ==
  ASSUME NEW p, NEW t, NEW m, NEW b, NEW v, NEW r, NEW o, o = <<>>, NEW w
  PROVE  Due(p, t, m, b, v, r, o, w) <=> Coming(p, t, m, b, v, r, w)
<1>1. ASSUME Due(p, t, m, b, v, r, o, w) PROVE Coming(p, t, m, b, v, r, w)
  <2>1. PICK u, q : Plays(v, r, <<>>, u, q) /\ Coming(p, t, m, b, u, q, w)
    BY <1>1 DEF Due
  <2>2. u = v /\ q = r
    BY <2>1, PlaysNothing
  <2>. QED
    BY <2>1, <2>2
<1>2. ASSUME Coming(p, t, m, b, v, r, w) PROVE Due(p, t, m, b, v, r, o, w)
  <2>1. Plays(v, r, <<>>, v, r)
    BY PlaysNothing
  <2>. QED
    BY <1>2, <2>1 DEF Due
<1>. QED
  BY <1>1, <1>2

(* A frame is read.                                                          *)
LEMMA DueParse ==
  ASSUME NEW p, NEW t, NEW m, NEW b, NEW v, NEW r, NEW o, o = <<>>, NEW w, w # <<>>,
         Due(p, t, m, b, v, r, o, w),
         NEW c, c = ParseOf(p, b, Head(w)).bridge, NEW es, es = ParseOf(p, b, Head(w)).events
  PROVE  Due(p, t, m, c, v, r, es, Tail(w))
<1>1. Coming(p, t, m, b, v, r, w)
  BY DueComing
<1>2. PICK b2, v2, r2 : Runs(p, b, v, r, w, b2, v2, r2) /\ Good(p, t, m, b2, v2, r2)
  BY <1>1 DEF Coming
<1>3. PICK b1, v1, r1 : Reads(p, b, v, r, Head(w), b1, v1, r1) /\ Runs(p, b1, v1, r1, Tail(w), b2, v2, r2)
  BY <1>2, RunsFirst
<1>4. b1 = c /\ Plays(v, r, es, v1, r1)
  BY <1>3 DEF Reads
<1>. QED
  BY <1>2, <1>3, <1>4 DEF Due, Coming

(* An event is published.                                                    *)
LEMMA DuePublish ==
  ASSUME NEW p, NEW t, NEW m, NEW b, NEW v, NEW r, NEW o, o # <<>>, NEW w,
         Due(p, t, m, b, v, r, o, w)
  PROVE  Says(v, Head(o)) /\ Due(p, t, m, b, After(v, Head(o)), Scores!Record(r, Head(o)), Tail(o), w)
<1>1. PICK u, q : Plays(v, r, o, u, q) /\ Coming(p, t, m, b, u, q, w)
  BY DEF Due
<1>2. Says(v, Head(o)) /\ Plays(After(v, Head(o)), Scores!Record(r, Head(o)), Tail(o), u, q)
  BY <1>1, PlaysFirst
<1>. QED
  BY <1>1, <1>2 DEF Due

LEMMA InvInit ==
  ASSUME BridgesInit
  PROVE  Inv
<1>1. TableOK(table) /\ table.games = 0 /\ table.stage = "seated" /\ ~table.offer
  BY InitFacts DEF BridgesInit
<1>2. Platform(platform) /\ rejoins \in Nat /\ log = <<>> /\ wire = <<>> /\ out = <<>> /\ bridge = FreshOf(platform) /\ view = NoView
  BY BridgesAssumption DEF BridgesInit, Platform, Fresh, FreshOf
<1>3. Good(platform, table, move, FreshOf(platform), NoView, record)
  BY <1>1, <1>2, FirstGood
<1>4. Due(platform, table, move, bridge, view, record, out, wire)
  BY <1>2, <1>3, DueNothing
<1>5. Kept(platform, table, move, log, rejoins)
  BY <1>1, <1>2 DEF Kept
<1>6. Fitting(table, move)
  BY <1>1, InitFacts DEF BridgesInit, Fitting, NoMove
<1>. QED
  BY <1>1, <1>2, <1>4, <1>5, <1>6 DEF Inv

(* The server tells of a move.                                               *)
LEMMA TellsOn ==
  ASSUME Inv, Tells, TableOK(table'), MoveOf(platform, table, table', move'),
         Fitting(table', move'), table'.moves = table.moves + 1
  PROVE  Inv'
<1>1. PICK p, t, m, b, v, r, l, k, t2, m2 :
        /\ p = platform /\ t = table /\ m = move /\ b = bridge /\ v = view /\ r = record /\ l = log
        /\ k = rejoins
        /\ t2 = table' /\ m2 = move'
  OBVIOUS
<1>2. Platform(p) /\ k \in Nat /\ TableOK(t) /\ TableOK(t2) /\ MoveOf(p, t, t2, m2) /\ t2.moves = t.moves + 1 /\ Kept(p, t, m, l, k)
  BY <1>1 DEF Inv
<1>3. wire = <<>> /\ out = <<>>
  BY DEF Tells, Quiet
<1>4. Good(p, t, m, b, v, r)
  BY <1>1, <1>3, DueNothing DEF Inv
<1>5. PICK early \in BOOLEAN : wire' = Sent(early) /\ log' = Logged(Sent(early))
  BY DEF Tells
<1>6. platform' = p /\ rejoins' = k /\ out' = <<>> /\ view' = v /\ record' = r
  BY <1>1, <1>3 DEF Tells
<1>7. PICK x : x = SentOf(p, t, t2, m2, early)
  OBVIOUS
<1>8. wire' = x
  BY <1>1, <1>5, <1>7 DEF Sent, SentOf, MajSent
<1>9. log' = LoggedOf(p, t2, m2, l, k, x)
  BY <1>1, <1>5, <1>8 DEF Logged, LoggedOf
<1>10. PICK c : c = ConnectedOf(p, b, m2)
  OBVIOUS
<1>11. bridge' = c
  <2>1. bridge' = IF move'.kind = "sit" THEN Connected ELSE bridge
    BY DEF Tells
  <2>2. CASE p = "majsoul"
    BY <1>1, <1>10, <2>1, <2>2 DEF Connected, ConnectedOf, Fresh, MajOpened
  <2>3. CASE p # "majsoul"
    BY <1>1, <1>10, <2>1, <2>3 DEF Connected, ConnectedOf
  <2>. QED
    BY <2>2, <2>3
<1>12. Coming(p, t2, m2, c, v, r, x)
  BY <1>2, <1>4, <1>7, <1>10, AllTold
<1>13. Kept(p, t2, m2, LoggedOf(p, t2, m2, l, k, x), k)
  BY <1>2, <1>4, <1>7, KeptOn
<1>14. Due(p, t2, m2, c, v, r, <<>>, x)
  BY <1>12, DueComing
<1>15. /\ Platform(platform') /\ rejoins' \in Nat /\ TableOK(table') /\ Fitting(table', move')
       /\ Due(platform', table', move', bridge', view', record', out', wire')
       /\ Kept(platform', table', move', log', rejoins')
  BY <1>1, <1>2, <1>6, <1>8, <1>9, <1>11, <1>13, <1>14
<1>. QED
  BY <1>15 DEF Inv

(* The moves of the table, one by one.                                       *)
LEMMA MovesFit ==
  ASSUME NEW p, NEW t, NEW t2, NEW m2, MoveOf(p, t, t2, m2)
  PROVE  Fitting(t2, m2)
<1>1. CASE HasSat(t, t2, m2)
  BY <1>1 DEF HasSat, Fitting
<1>2. CASE HasWon(t, t2, m2) \/ HasExhausted(t, t2, m2)
  BY <1>2 DEF HasWon, HasExhausted, HasEnded, Fitting
<1>3. CASE Played(t, t2, m2)
  BY <1>3 DEF Played, HasDealt, HasDrawn, HasDiscarded, HasCalled, HasKan, Fitting
<1>4. CASE HasTerminated(t, t2, m2)
  BY <1>4 DEF HasTerminated, Fitting
<1>. QED
  BY <1>1, <1>2, <1>3, <1>4 DEF MoveOf, Moved, Played

LEMMA ServerOn ==
  ASSUME Inv, Tells, TableOK(table'), MoveOf(platform, table, table', move'),
         table'.moves = table.moves + 1
  PROVE  Inv'
<1>1. PICK t2, m2 : t2 = table' /\ m2 = move'
  OBVIOUS
<1>2. Fitting(t2, m2)
  BY <1>1, MovesFit
<1>3. Fitting(table', move')
  BY <1>1, <1>2
<1>. QED
  BY <1>3, TellsOn

(* The moves of the table, one by one.                                       *)
LEMMA InvServer ==
  ASSUME Inv,
         ServerSits \/ ServerDeals \/ ServerDraws \/ ServerDiscards \/ ServerCalls \/ ServerKans
           \/ ServerTsumo \/ ServerRon \/ ServerExhausts \/ ServerTerminates
  PROVE  Inv'
<1>0. TableOK(table)
  BY DEF Inv
<1>1. CASE ServerSits
  <2>1. Sit /\ Tells
    BY <1>1 DEF ServerSits
  <2>2. TableOK(table') /\ HasSat(table, table', move') /\ table'.moves = table.moves + 1
    BY <1>0, <2>1, SitFacts, MovesCount
  <2>. QED
    BY <2>1, <2>2, ServerOn DEF MoveOf, Moved
<1>2. CASE ServerDeals
  <2>1. Deal /\ Tells
    BY <1>2 DEF ServerDeals
  <2>2. TableOK(table') /\ HasDealt(table, table', move') /\ table'.moves = table.moves + 1
    BY <1>0, <2>1, DealFacts, MovesCount
  <2>. QED
    BY <2>1, <2>2, ServerOn DEF MoveOf, Moved
<1>3. CASE ServerDraws
  <2>1. Draw /\ Tells
    BY <1>3 DEF ServerDraws
  <2>2. TableOK(table') /\ HasDrawn(table, table', move') /\ table'.moves = table.moves + 1
    BY <1>0, <2>1, DrawFacts, MovesCount
  <2>. QED
    BY <2>1, <2>2, ServerOn DEF MoveOf, Moved
<1>4. CASE ServerDiscards
  <2>1. Discard /\ Tells
    BY <1>4 DEF ServerDiscards
  <2>2. TableOK(table') /\ HasDiscarded(table, table', move') /\ table'.moves = table.moves + 1
    BY <1>0, <2>1, DiscardFacts, MovesCount
  <2>. QED
    BY <2>1, <2>2, ServerOn DEF MoveOf, Moved
<1>5. CASE ServerCalls
  <2>1. Call /\ Tells
    BY <1>5 DEF ServerCalls
  <2>2. TableOK(table') /\ HasCalled(table, table', move') /\ table'.moves = table.moves + 1
    BY <1>0, <2>1, CallFacts, MovesCount
  <2>. QED
    BY <2>1, <2>2, ServerOn DEF MoveOf, Moved
<1>6. CASE ServerKans
  <2>1. OwnKan /\ Tells
    BY <1>6 DEF ServerKans
  <2>2. TableOK(table') /\ HasKan(table, table', move') /\ table'.moves = table.moves + 1
    BY <1>0, <2>1, KanFacts, MovesCount
  <2>. QED
    BY <2>1, <2>2, ServerOn DEF MoveOf, Moved
<1>7. CASE ServerTsumo
  <2>1. Tsumo /\ Tells
    BY <1>7 DEF ServerTsumo
  <2>2. TableOK(table') /\ HasWon(table, table', move') /\ table'.moves = table.moves + 1
    BY <1>0, <2>1, TsumoFacts, MovesCount
  <2>. QED
    BY <2>1, <2>2, ServerOn DEF MoveOf, Moved
<1>8. CASE ServerRon
  <2>1. Ron /\ Tells
    BY <1>8 DEF ServerRon
  <2>2. TableOK(table') /\ HasWon(table, table', move') /\ table'.moves = table.moves + 1
    BY <1>0, <2>1, RonFacts, MovesCount
  <2>. QED
    BY <2>1, <2>2, ServerOn DEF MoveOf, Moved
<1>9. CASE ServerExhausts
  <2>1. Exhaust /\ Tells
    BY <1>9 DEF ServerExhausts
  <2>2. TableOK(table') /\ HasExhausted(table, table', move') /\ table'.moves = table.moves + 1
    BY <1>0, <2>1, ExhaustFacts, MovesCount
  <2>. QED
    BY <2>1, <2>2, ServerOn DEF MoveOf, Moved
<1>10. CASE ServerTerminates
  <2>1. platform = "majsoul" /\ Terminate /\ Tells
    BY <1>10 DEF ServerTerminates
  <2>2. TableOK(table') /\ HasTerminated(table, table', move') /\ table'.moves = table.moves + 1
    BY <1>0, <2>1, TerminateFacts, MovesCount
  <2>. QED
    BY <2>1, <2>2, ServerOn DEF MoveOf
<1>. QED
  BY <1>1, <1>2, <1>3, <1>4, <1>5, <1>6, <1>7, <1>8, <1>9, <1>10

(* The client joins again.                                                   *)
LEMMA InvRejoin ==
  ASSUME Inv, Rejoin, ~SanmaRejoins
  PROVE  Inv'
<1>1. PICK p, t, m, b, v, r, l, k, c, w :
        /\ p = platform /\ t = table /\ m = move /\ b = bridge /\ v = view /\ r = record /\ l = log
        /\ k = rejoins
        /\ c = bridge' /\ w = wire'
  OBVIOUS
<1>2. Platform(p) /\ k \in Nat /\ TableOK(t) /\ Fitting(t, m) /\ Kept(p, t, m, l, k)
  BY <1>1 DEF Inv
<1>3. /\ wire = <<>> /\ out = <<>> /\ k > 0 /\ t.moves <= RejoinBy
      /\ table' = t /\ move' = m /\ platform' = p /\ rejoins' = k - 1 /\ log' = l /\ out' = <<>>
      /\ view' = v /\ record' = r
  BY <1>1 DEF Rejoin, Quiet
<1>4. Good(p, t, m, b, v, r)
  BY <1>1, <1>3, DueNothing DEF Inv
<1>5. MayRejoin(p, t, m, l, b, c, w)
  <2>1. CASE MajsoulRejoins
    <3>1. p = "majsoul" /\ t.games > 0 /\ t.stage # "over" /\ w = MajRejoin(t, l)
      BY <1>1, <2>1 DEF MajsoulRejoins, MajRejoin, MajSync
    <3>2. c = MajOpened(b.window)
      BY <1>1, <2>1, <3>1 DEF MajsoulRejoins, Connected, Fresh, MajOpened
    <3>3. b.window \in BOOLEAN
      <4>1. b \in MajBridges
        BY <1>4, <3>1 DEF Good, MajLive, MajSeen, MajGood
      <4>. QED
        BY <4>1 DEF MajBridges
    <3>4. (t.stage \in {"act", "open"} => MajLogged(t, m, l)) /\ (t.stage \notin {"act", "open"} => l = <<>>)
      BY <1>2, <1>3, <3>1 DEF Kept
    <3>. QED
      BY <3>1, <3>2, <3>3, <3>4 DEF MayRejoin
  <2>2. CASE TenhouRejoins
    <3>1. p = "tenhou" /\ t.stage = "between" /\ t.n # 3 /\ w = Tenhou!Frames(t, t, Mv("sit", 0)) /\ c = Tenhou!Fresh
      BY <1>1, <2>2 DEF TenhouRejoins, Fresh
    <3>2. t.n = 4
      BY <1>2, <3>1, TableFields
    <3>. QED
      BY <3>1, <3>2 DEF MayRejoin
  <2>. QED
    BY <2>1, <2>2 DEF Rejoin
<1>6. Coming(p, t, m, c, v, r, w)
  BY <1>2, <1>4, <1>5, AllRejoin
<1>7. Due(p, t, m, c, v, r, <<>>, w)
  BY <1>6, DueComing
<1>8. Kept(p, t, m, l, k - 1) /\ k - 1 \in Nat
  BY <1>2, <1>3 DEF Kept
<1>. QED
  BY <1>1, <1>2, <1>3, <1>7, <1>8 DEF Inv

LEMMA InvParse ==
  ASSUME Inv, Parse
  PROVE  Inv'
<1>1. PICK c, es, w : c = bridge' /\ es = out' /\ w = wire'
  OBVIOUS
<1>2. /\ wire # <<>> /\ out = <<>> /\ w = Tail(wire)
      /\ c = ParseOf(platform, bridge, Head(wire)).bridge
      /\ es = ParseOf(platform, bridge, Head(wire)).events
      /\ table' = table /\ move' = move /\ platform' = platform /\ rejoins' = rejoins /\ log' = log
      /\ view' = view /\ record' = record
  BY <1>1 DEF Parse, Parsed, ParseOf
<1>3. Due(platform, table, move, bridge, view, record, out, wire)
  BY DEF Inv
<1>4. Due(platform, table, move, c, view, record, es, Tail(wire))
  BY <1>2, <1>3, DueParse
<1>. QED
  BY <1>1, <1>2, <1>4 DEF Inv

LEMMA InvPublish ==
  ASSUME Inv, Publish
  PROVE  Inv' /\ Says(view, Head(out)) /\ view' = After(view, Head(out))
<1>1. /\ out # <<>> /\ out' = Tail(out) /\ view' = After(view, Head(out))
      /\ record' = Scores!Record(record, Head(out))
      /\ table' = table /\ move' = move /\ platform' = platform /\ rejoins' = rejoins /\ log' = log
      /\ wire' = wire /\ bridge' = bridge
  BY DEF Publish
<1>2. Due(platform, table, move, bridge, view, record, out, wire)
  BY DEF Inv
<1>3. /\ Says(view, Head(out))
      /\ Due(platform, table, move, bridge, After(view, Head(out)), Scores!Record(record, Head(out)), Tail(out), wire)
  BY <1>1, <1>2, DuePublish
<1>. QED
  BY <1>1, <1>3 DEF Inv

LEMMA InvNext ==
  ASSUME Inv, ~SanmaRejoins, [Next]_vars
  PROVE  Inv'
<1>1. CASE UNCHANGED vars
  BY <1>1 DEF Inv, vars, bridgeVars
<1>2. CASE Next
  BY <1>2, InvServer, InvRejoin, InvParse, InvPublish DEF Next
<1>. QED
  BY <1>1, <1>2

(* Of whatever is under way, in the bridge's input or in its output, the end *)
(* is that everything is known; and the log that a Majsoul client which      *)
(* joins again is sent replays to where the live bridge is.                  *)
THEOREM InvHolds ==
  ASSUME ~SanmaRejoins
  PROVE  Spec => []Inv
<1>1. BridgesInit => Inv
  BY InvInit
<1>2. Inv /\ [Next]_vars => Inv'
  BY InvNext
<1>. QED
  BY <1>1, <1>2, PTL DEF Spec

(* ------ the properties --------------------------------------------------- *)
LEMMA GoodView ==
  ASSUME NEW p, Platform(p), NEW t, NEW m, NEW b, NEW v, NEW r, Good(p, t, m, b, v, r)
  PROVE  ViewGood(p, t, m, v, r)
BY DEF Platform, Good, TenhouSeen, MajLive, MajSeen, RiichiSeen

(* What the invariant says when nothing is under way.                        *)
LEMMA AtRest ==
  ASSUME Inv, Quiet
  PROVE  /\ Platform(platform) /\ TableOK(table) /\ Fitting(table, move)
         /\ Good(platform, table, move, bridge, view, record)
         /\ ViewGood(platform, table, move, view, record)
<1>1. /\ Platform(platform) /\ TableOK(table) /\ Fitting(table, move) /\ wire = <<>> /\ out = <<>>
      /\ Due(platform, table, move, bridge, view, record, out, wire)
  BY DEF Inv, Quiet
<1>2. Good(platform, table, move, bridge, view, record)
  BY <1>1, DueNothing
<1>. QED
  BY <1>1, <1>2, GoodView

(* Whatever the players, the server and a client that joins again do: once   *)
(* everything is read, the stream has told its readers the table's state, on *)
(* each platform (see ViewIsTheTable in Bridges).                            *)
THEOREM ViewIsTheTableHolds ==
  ASSUME ~SanmaRejoins
  PROVE  Spec => []ViewIsTheTable
<1>1. Inv => ViewIsTheTable
  <2> SUFFICES ASSUME Inv, Quiet
               PROVE  /\ InHand => /\ view.phase = "hand" /\ view.players = table.n /\ view.seat = table.me
                                   /\ view.holder = IF table.stage = "act" THEN table.turn ELSE Nobody
                                   /\ table.stage = "act" => view.drew = table.drew
                                   /\ view.accepted = table.accepted /\ view.reach = table.pending
                      /\ move.kind = "discard" /\ InHand =>
                           view.floor = move.seat /\ view.dora = table.shown /\ view.giri = move.giri
                      /\ move.kind = "win" /\ view.phase = "ended" => view.target = move.from \/ Robbed
    BY DEF ViewIsTheTable
  <2>1. ViewGood(platform, table, move, view, record) /\ Fitting(table, move) /\ table.stage \in Stages
    BY AtRest, TableFields
  <2>2. ASSUME InHand
        PROVE  Hand(table, table.pending, view, record)
               /\ (move.kind = "discard" => view.floor = move.seat /\ view.dora = table.shown /\ view.giri = move.giri)
    BY <2>1, <2>2 DEF InHand, ViewGood, Playing
  <2>3. ASSUME InHand
        PROVE  /\ view.phase = "hand" /\ view.players = table.n /\ view.seat = table.me
               /\ view.holder = IF table.stage = "act" THEN table.turn ELSE Nobody
               /\ table.stage = "act" => view.drew = table.drew
               /\ view.accepted = table.accepted /\ view.reach = table.pending
    BY <2>2, <2>3 DEF InHand, Hand
  <2>4. ASSUME move.kind = "win", view.phase = "ended"
        PROVE  view.target = move.from \/ Robbed
    <3>1. table.stage \notin {"act", "open"}
      BY <2>3, <2>4 DEF InHand
    <3>2. table.stage # "over"
      BY <2>1, <2>4 DEF ViewGood, Over, NoView
    <3>3. table.stage # "seated"
      BY <2>1, <2>4 DEF Fitting
    <3>4. table.stage = "between"
      BY <2>1, <3>1, <3>2, <3>3 DEF Stages
    <3>. QED
      BY <2>1, <2>4, <3>4 DEF ViewGood, Between, Robbed
  <2>. QED
    BY <2>2, <2>3, <2>4
<1>2. Spec => []Inv
  BY InvHolds
<1>. QED
  BY <1>1, <1>2, PTL

(* Once everything is read, a bridge has a decision window open just when    *)
(* the server waits for us (WindowWhenOwed), also after a replayed hand.     *)
THEOREM WindowWhenOwedHolds ==
  ASSUME ~SanmaRejoins
  PROVE  Spec => []WindowWhenOwed
<1>1. Inv => WindowWhenOwed
  <2> SUFFICES ASSUME Inv, Quiet
               PROVE  /\ Owed => bridge.window \/ (platform = "riichi_city" /\ move.kind = "deal")
                      /\ bridge.window => Owed \/ (platform = "riichi_city" /\ move.kind = "draw")
    BY DEF WindowWhenOwed
  <2>1. Good(platform, table, move, bridge, view, record) /\ Platform(platform)
    BY AtRest
  <2>2. Owed <=> OwedAt(table)
    BY DEF Owed, InHand, OwedAt
  <2>3. CASE platform = "tenhou"
    BY <2>1, <2>2, <2>3 DEF Good, TenhouSeen, TenhouGood
  <2>4. CASE platform = "majsoul"
    <3>1. MajGood(table, bridge) /\ ~bridge.replaying
      BY <2>1, <2>4 DEF Good, MajLive, MajSeen
    <3>2. bridge.window <=> OwedAt(table)
      BY <3>1 DEF MajGood, Asked, OwedAt
    <3>. QED
      BY <2>2, <3>2
  <2>5. CASE platform = "riichi_city"
    <3>1. RiichiGood(table, move, bridge)
      BY <2>1, <2>5 DEF Good, RiichiSeen
    <3>. QED
      BY <2>2, <2>5, <3>1 DEF RiichiGood, OwedAt
  <2>. QED
    BY <2>1, <2>3, <2>4, <2>5 DEF Platform
<1>2. Spec => []Inv
  BY InvHolds
<1>. QED
  BY <1>1, <1>2, PTL

(* The scores that the history aggregates from the stream are the table's at *)
(* the end of every hand and game, but for the exceptions named in           *)
(* ScoresFollowTheTable.                                                     *)
THEOREM ScoresFollowTheTableHolds ==
  ASSUME ~SanmaRejoins
  PROVE  Spec => []ScoresFollowTheTable
<1>1. Inv => ScoresFollowTheTable
  <2> SUFFICES ASSUME Inv, Quiet, move.kind \in {"win", "exhaust"}
               PROVE  /\ view.phase = "ended" => record.running = table.score \/ Twice \/ Charged
                      /\ move.final => record.final = table.score \/ (platform = "riichi_city" /\ (Twice \/ Charged))
    BY DEF ScoresFollowTheTable
  <2>1. ViewGood(platform, table, move, view, record) /\ Fitting(table, move) /\ table.stage \in Stages
    BY AtRest, TableFields
  <2>2. (TwiceAt(platform, move) <=> Twice) /\ (ChargedAt(platform, move) <=> Charged)
    BY DEF TwiceAt, Twice, ChargedAt, Charged
  <2>3. ASSUME view.phase = "ended"
        PROVE  record.running = table.score \/ Twice \/ Charged
    <3>1. table.stage \notin {"act", "open"}
      BY <2>1, <2>3 DEF ViewGood, Playing, Hand
    <3>2. table.stage # "over"
      BY <2>1, <2>3 DEF ViewGood, Over, NoView
    <3>3. table.stage # "seated"
      BY <2>1 DEF Fitting
    <3>4. table.stage = "between"
      BY <2>1, <3>1, <3>2, <3>3 DEF Stages
    <3>. QED
      BY <2>1, <2>2, <2>3, <3>4 DEF ViewGood, Between
  <2>4. ASSUME move.final
        PROVE  record.final = table.score \/ (platform = "riichi_city" /\ (Twice \/ Charged))
    <3>1. table.stage = "over"
      BY <2>1, <2>4 DEF Fitting
    <3>2. Over(platform, table, move, view, record)
      BY <2>1, <3>1 DEF ViewGood
    <3>. QED
      BY <2>2, <2>4, <3>2 DEF Over
  <2>. QED
    BY <2>3, <2>4
<1>2. Spec => []Inv
  BY InvHolds
<1>. QED
  BY <1>1, <1>2, PTL

(* Bridges implements MjaiStream: a bridge publishes each event only where   *)
(* the grammar of the stream has it, and nothing else touches the stream.    *)
THEOREM StreamIsLegalHolds ==
  ASSUME ~SanmaRejoins
  PROVE  Spec => StreamIsLegal
<1>1. BridgesInit => Stream!Init
  BY StreamIs DEF BridgesInit, Stream!Init
<1>2. Inv /\ [Next]_vars => [Stream!Next]_view
  <2> SUFFICES ASSUME Inv, [Next]_vars PROVE [Stream!Next]_view
    OBVIOUS
  <2>1. CASE UNCHANGED vars
    BY <2>1 DEF vars, bridgeVars
  <2>2. CASE Publish
    BY <2>2, InvPublish, StreamSteps
  <2>3. CASE Rejoin \/ Parse
    BY <2>3 DEF Rejoin, Parse
  <2>4. CASE Next /\ ~Publish /\ ~Rejoin /\ ~Parse
    <3>1. Tells
      BY <2>4 DEF Next, ServerSits, ServerDeals, ServerDraws, ServerDiscards, ServerCalls,
         ServerKans, ServerTsumo, ServerRon,
                  ServerExhausts, ServerTerminates
    <3>. QED
      BY <3>1 DEF Tells
  <2>. QED
    BY <2>1, <2>2, <2>3, <2>4
<1>3. Spec => []Inv
  BY InvHolds
<1>. QED
  BY <1>1, <1>2, <1>3, PTL DEF Spec, StreamIsLegal, Stream!Spec
===============================================================================
