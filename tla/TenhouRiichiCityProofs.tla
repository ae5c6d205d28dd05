------------------------ MODULE TenhouRiichiCityProofs ------------------------
(*****************************************************************************)
(* Tenhou and Riichi City, which are told each move once: whatever the table *)
(* does, the frames of the move, read by a bridge that knows the table       *)
(* before it, give events the stream may have next, and leave bridge, reader *)
(* and history knowing the table after it.                                   *)
(*****************************************************************************)
EXTENDS TableProofs

(* ------ Tenhou ----------------------------------------------------------- *)

(* A set of numbers has a least one.                                         *)
LEMMA LeastOf ==
  ASSUME NEW M, M \subseteq Nat, M # {}
  PROVE  \E k \in M : \A j \in M : k <= j
<1>1. IsWellFoundedOn(OpToRel(<, Nat), Nat)
  BY NatLessThanWellFounded
<1>2. PICK k \in M : \A j \in M : ~(<<j, k>> \in OpToRel(<, Nat))
  BY <1>1, WFMin
<1>3. \A j \in M : j < k => <<j, k>> \in OpToRel(<, Nat)
  BY DEF OpToRel
<1>4. \A j \in M : ~(j < k)
  BY <1>2, <1>3
<1>5. \A j \in M : k \in Nat /\ j \in Nat
  OBVIOUS
<1>. QED
  BY <1>4, <1>5

(* Two functions that agree at 0 and take the same steps are one.            *)
StepAlike(n, f, g) ==
  /\ n \in Nat /\ f[0] = g[0]
  /\ \A i \in 1..n : f[i - 1] = g[i - 1] => f[i] = g[i]

LEMMA SameSteps ==
  ASSUME NEW n, NEW f, NEW g, StepAlike(n, f, g)
  PROVE  \A i \in 0..n : f[i] = g[i]
<1>0. /\ n \in Nat /\ f[0] = g[0]
      /\ \A i \in 1..n : f[i - 1] = g[i - 1] => f[i] = g[i]
  BY DEF StepAlike
<1>1. SUFFICES ASSUME {i \in 0..n : f[i] # g[i]} # {} PROVE FALSE
  OBVIOUS
<1> DEFINE Bad == {i \in 0..n : f[i] # g[i]}
<1>2. Bad \subseteq Nat /\ Bad # {}
  BY <1>0, <1>1
<1>3. PICK k \in Bad : \A j \in Bad : k <= j
  <2> HIDE DEF Bad
  <2>. QED
    BY <1>2, LeastOf
<1>4. k \in 0..n /\ f[k] # g[k] /\ k # 0
  BY <1>0, <1>3
<1>5. k \in 1..n /\ k - 1 \in 0..n /\ ~(k <= k - 1)
  BY <1>0, <1>4
<1>6. k - 1 \notin Bad
  BY <1>3, <1>5
<1>. QED
  BY <1>0, <1>4, <1>5, <1>6

(* The part of a sequence between lo and hi, as it is built up.              *)
PartOf(r, lo, hi, i) == SubSeq(r, lo, IF i < hi THEN i ELSE hi)

LEMMA PartSteps ==
  ASSUME NEW r \in Seq(Nat), NEW lo \in Nat, NEW hi \in Nat, 1 <= lo, lo <= hi + 1, hi <= Len(r),
         NEW i \in 1..Len(r)
  PROVE  /\ PartOf(r, lo, hi, 0) = <<>>
         /\ lo <= i /\ i <= hi => PartOf(r, lo, hi, i) = Append(PartOf(r, lo, hi, i - 1), r[i])
         /\ ~(lo <= i /\ i <= hi) => PartOf(r, lo, hi, i) = PartOf(r, lo, hi, i - 1)
<1>1. \A a \in Nat, b \in Nat : 1 <= a /\ b <= Len(r) /\ a <= b + 1 =>
        SubSeq(r, a, b) \in Seq(Nat) /\ Len(SubSeq(r, a, b)) = b - a + 1 /\ \A j \in 1..(b - a + 1) : SubSeq(r, a, b)[j] = r[a + j - 1]
  OBVIOUS
<1>2. \A a \in Nat, b \in Nat : b < a => SubSeq(r, a, b) = <<>>
  OBVIOUS
<1>3. PartOf(r, lo, hi, 0) = <<>>
  <2>1. (IF 0 < hi THEN 0 ELSE hi) = 0
    OBVIOUS
  <2>. QED
    BY <1>2, <2>1 DEF PartOf
<1>4. ASSUME lo <= i, i <= hi PROVE PartOf(r, lo, hi, i) = Append(PartOf(r, lo, hi, i - 1), r[i])
  <2>1. (IF i < hi THEN i ELSE hi) = i /\ (IF i - 1 < hi THEN i - 1 ELSE hi) = i - 1
    BY <1>4
  <2>2. PICK s, u : s = SubSeq(r, lo, i - 1) /\ u = SubSeq(r, lo, i)
    OBVIOUS
  <2>3. s \in Seq(Nat) /\ Len(s) = i - lo /\ \A j \in 1..(i - lo) : s[j] = r[lo + j - 1]
    <3>1. i - 1 \in Nat /\ (i - 1) - lo + 1 = i - lo /\ lo <= (i - 1) + 1 /\ i - 1 <= Len(r)
      BY <1>4
    <3>. QED
      BY <1>1, <2>2, <3>1
  <2>4. u \in Seq(Nat) /\ Len(u) = i - lo + 1 /\ \A j \in 1..(i - lo + 1) : u[j] = r[lo + j - 1]
    <3>1. i \in Nat /\ lo <= i + 1 /\ i <= Len(r)
      BY <1>4
    <3>. QED
      BY <1>1, <2>2, <3>1
  <2>5. r[i] \in Nat
    OBVIOUS
  <2>6. Append(s, r[i]) \in Seq(Nat) /\ Len(Append(s, r[i])) = i - lo + 1
        /\ \A j \in 1..(i - lo) : Append(s, r[i])[j] = s[j]
        /\ Append(s, r[i])[i - lo + 1] = r[i]
    <3>1. PICK n, x : n = i - lo /\ x = r[i]
      OBVIOUS
    <3>2. n \in Nat /\ n + 1 = i - lo + 1 /\ x \in Nat /\ Len(s) = n /\ s \in Seq(Nat)
      BY <1>4, <2>3, <2>5, <3>1
    <3>3. Append(s, x) \in Seq(Nat) /\ Len(Append(s, x)) = n + 1
          /\ (\A j \in 1..n : Append(s, x)[j] = s[j]) /\ Append(s, x)[n + 1] = x
      BY <3>2
    <3>. QED
      BY <3>1, <3>2, <3>3
  <2>7. \A j \in 1..(i - lo + 1) : u[j] = Append(s, r[i])[j]
    <3>. TAKE j \in 1..(i - lo + 1)
    <3>1. CASE j = i - lo + 1
      <4>1. lo + j - 1 = i
        BY <3>1
      <4>. QED
        BY <2>4, <2>6, <3>1, <4>1
    <3>2. CASE j # i - lo + 1
      <4>1. j \in 1..(i - lo)
        BY <3>2
      <4>. QED
        BY <2>3, <2>4, <2>6, <4>1
    <3>. QED
      BY <3>1, <3>2
  <2>8. u = Append(s, r[i])
    <3>1. PICK z, n : z = Append(s, r[i]) /\ n = i - lo + 1
      OBVIOUS
    <3>2. u \in Seq(Nat) /\ z \in Seq(Nat) /\ Len(u) = n /\ Len(z) = n /\ \A j \in 1..n : u[j] = z[j]
      BY <2>4, <2>6, <2>7, <3>1
    <3>3. u = z
      BY <3>2
    <3>. QED
      BY <3>1, <3>3
  <2>. QED
    BY <2>1, <2>2, <2>8 DEF PartOf
<1>5. ASSUME ~(lo <= i /\ i <= hi) PROVE PartOf(r, lo, hi, i) = PartOf(r, lo, hi, i - 1)
  <2>1. CASE hi < i
    <3>1. (IF i < hi THEN i ELSE hi) = hi /\ (IF i - 1 < hi THEN i - 1 ELSE hi) = hi
      BY <2>1
    <3>. QED
      BY <3>1 DEF PartOf
  <2>2. CASE i < lo
    <3>1. (IF i < hi THEN i ELSE hi) \in Nat /\ (IF i < hi THEN i ELSE hi) < lo
          /\ (IF i - 1 < hi THEN i - 1 ELSE hi) \in Nat /\ (IF i - 1 < hi THEN i - 1 ELSE hi) < lo
      BY <2>2
    <3>. QED
      BY <3>1, <1>2 DEF PartOf
  <2>. QED
    BY <1>5, <2>1, <2>2
<1>. QED
  BY <1>3, <1>4, <1>5

(* Tiles at one end of the rack are taken out of it.                         *)
LEMMA WithoutEnd ==
  ASSUME NEW r \in Seq(Nat), NEW lo \in Nat, NEW hi \in Nat, 1 <= lo, lo <= hi + 1, hi <= Len(r),
         NEW tiles,
         \A i \in 1..Len(r) : r[i] \in tiles <=> ~(lo <= i /\ i <= hi)
  PROVE  Tenhou!without(r, tiles) = SubSeq(r, lo, hi)
<1>1. Len(r) \in Nat
  OBVIOUS
<1> DEFINE G(h) == [i \in 0..Len(r) |-> IF i = 0 THEN <<>> ELSE IF r[i] \in tiles THEN h[i - 1] ELSE Append(h[i - 1], r[i])]
           w == [i \in 0..Len(r) |-> PartOf(r, lo, hi, i)]
           rest == CHOOSE h : h = G(h)
<1>2. w = G(w)
  <2>1. ASSUME NEW i \in 0..Len(r) PROVE w[i] = G(w)[i]
    <3>1. CASE i = 0
      <4>1. PartOf(r, lo, hi, 0) = <<>>
        <5>1. (IF 0 < hi THEN 0 ELSE hi) = 0 /\ 0 < lo
          OBVIOUS
        <5>. QED
          BY <5>1 DEF PartOf
      <4>. QED
        BY <3>1, <4>1
    <3>2. CASE i # 0
      <4>1. i \in 1..Len(r) /\ i - 1 \in 0..Len(r)
        BY <3>2
      <4>2. w[i] = PartOf(r, lo, hi, i) /\ w[i - 1] = PartOf(r, lo, hi, i - 1)
        BY <4>1
      <4>3. CASE r[i] \in tiles
        <5>1. PartOf(r, lo, hi, i) = PartOf(r, lo, hi, i - 1)
          BY <4>1, <4>3, PartSteps
        <5>. QED
          BY <3>2, <4>1, <4>2, <4>3, <5>1
      <4>4. CASE r[i] \notin tiles
        <5>1. PartOf(r, lo, hi, i) = Append(PartOf(r, lo, hi, i - 1), r[i])
          BY <4>1, <4>4, PartSteps
        <5>. QED
          BY <3>2, <4>1, <4>2, <4>4, <5>1
      <4>. QED
        BY <4>3, <4>4
    <3>. QED
      BY <3>1, <3>2
  <2>. QED
    BY <2>1
<1>3. rest = G(rest)
  <2> HIDE DEF w, G
  <2>. QED
    BY <1>2
<1>4. \A i \in 0..Len(r) : rest[i] = w[i]
  <2> HIDE DEF rest, w
  <2>1. /\ rest[0] = <<>> /\ w[0] = <<>>
        /\ \A i \in 1..Len(r) : /\ rest[i] = IF r[i] \in tiles THEN rest[i - 1] ELSE Append(rest[i - 1], r[i])
                                /\ w[i] = IF r[i] \in tiles THEN w[i - 1] ELSE Append(w[i - 1], r[i])
    <3>1. ASSUME NEW h, h = G(h)
          PROVE  h[0] = <<>> /\ \A i \in 1..Len(r) : h[i] = IF r[i] \in tiles THEN h[i - 1] ELSE Append(h[i - 1], r[i])
      <4>1. 0 \in 0..Len(r) /\ \A i \in 1..Len(r) : i \in 0..Len(r) /\ i # 0
        BY <1>1
      <4>2. G(h)[0] = <<>> /\ \A i \in 1..Len(r) : G(h)[i] = IF r[i] \in tiles THEN h[i - 1] ELSE Append(h[i - 1], r[i])
        BY <4>1
      <4>. QED
        BY <3>1, <4>2
    <3>. QED
      BY <1>2, <1>3, <3>1
  <2>2. PICK n, h, g : n = Len(r) /\ h = rest /\ g = w
    OBVIOUS
  <2>3. \A i \in 1..n : h[i - 1] = g[i - 1] => h[i] = g[i]
    BY <2>1, <2>2
  <2>4. n \in Nat /\ h[0] = g[0]
    BY <1>1, <2>1, <2>2
  <2>5. \A i \in 0..n : h[i] = g[i]
    <3>1. StepAlike(n, h, g)
      BY <2>3, <2>4 DEF StepAlike
    <3>. QED
      BY <3>1, SameSteps
  <2>. QED
    BY <2>2, <2>5
<1>5. w[Len(r)] = SubSeq(r, lo, hi)
  <2>1. (IF Len(r) < hi THEN Len(r) ELSE hi) = hi /\ Len(r) \in 0..Len(r)
    BY <1>1
  <2>. QED
    BY <2>1 DEF PartOf
<1>6. Tenhou!without(r, tiles) = rest[Len(r)]
  BY DEF Tenhou!without
<1> HIDE DEF rest, w
<1>7. Len(r) \in 0..Len(r)
  BY <1>1
<1>. QED
  BY <1>4, <1>5, <1>6, <1>7

OwedAt(t) == t.stage \in {"act", "open"} /\ ((t.stage = "act" /\ t.turn = t.me) \/ t.offer)

TenhouBridges ==
  [seat : 0..3, players : 3..4, is_3p : BOOLEAN, pending_start : BOOLEAN, hand : Seq(Nat),
   is_tsumo : BOOLEAN, window : BOOLEAN]

(* The bridge knows our hand, whether we drew, and whether we are asked.     *)
TenhouGood(t, b) ==
  /\ b \in TenhouBridges /\ (b.window <=> OwedAt(t))
  /\ t.games > 0 => b.seat = t.me
  /\ t.stage = "seated" /\ t.games > 0 => b.pending_start /\ b.players = 4 /\ ~b.is_3p
  /\ t.stage \in {"act", "open", "between"} => b.players = t.n /\ (b.is_3p <=> t.n = 3)
  /\ t.stage \in {"act", "open"} => b.hand = t.rack /\ (b.is_tsumo <=> t.stage = "act" /\ t.turn = t.me /\ t.drew)

(* Frames whose events are those of es, one for each, leave the bridge alone. *)
LEMMA RunsSteady ==
  ASSUME NEW p, NEW b, NEW v, NEW r, NEW es, NEW v2, NEW r2, Plays(v, r, es, v2, r2),
         NEW w, IsSeq(w), Len(w) = Len(es),
         \A i \in 1..Len(es) : ParseOf(p, b, w[i]).bridge = b /\ ParseOf(p, b, w[i]).events = <<es[i]>>
  PROVE  Runs(p, b, v, r, w, b, v2, r2)
<1>1. PICK vs, rs :
        /\ vs[0] = v /\ rs[0] = r /\ vs[Len(es)] = v2 /\ rs[Len(es)] = r2
        /\ \A i \in 1..Len(es) : /\ Says(vs[i - 1], es[i])
                                 /\ vs[i] = After(vs[i - 1], es[i])
                                 /\ rs[i] = Scores!Record(rs[i - 1], es[i])
  BY DEF Plays
<1> DEFINE bs == [i \in 0..Len(es) |-> b]
<1>2. Len(es) \in Nat
  BY SeqLen DEF Plays
<1>3. \A i \in 0..Len(es) : bs[i] = b
  OBVIOUS
<1> HIDE DEF bs
<1>4. ASSUME NEW i \in 1..Len(es) PROVE Reads(p, bs[i - 1], vs[i - 1], rs[i - 1], w[i], bs[i], vs[i], rs[i])
  <2>1. bs[i - 1] = b /\ bs[i] = b
    BY <1>2, <1>3
  <2>2. Plays(vs[i - 1], rs[i - 1], <<es[i]>>, vs[i], rs[i])
    BY <1>1, PlaysOne
  <2>. QED
    BY <2>1, <2>2 DEF Reads
<1>5. bs[0] = b /\ bs[Len(es)] = b
  BY <1>2, <1>3
<1>. QED
  BY <1>1, <1>4, <1>5, Zenon DEF Runs

(* A frame the bridge b turns into the events es, and itself into b2.        *)
Becomes(p, b, f, b2, es) == ParseOf(p, b, f).bridge = b2 /\ ParseOf(p, b, f).events = es

LEMMA RunsFrame ==
  ASSUME NEW p, NEW b, NEW v, NEW r, NEW f, NEW b2, NEW es, NEW v2, NEW r2,
         Becomes(p, b, f, b2, es), Plays(v, r, es, v2, r2)
  PROVE  Runs(p, b, v, r, <<f>>, b2, v2, r2)
<1>1. Reads(p, b, v, r, f, b2, v2, r2)
  BY DEF Becomes, Reads
<1>. QED
  BY <1>1, RunsOne

(* A sequence of one element or two.                                         *)
LEMMA OneOrTwo ==
  ASSUME NEW s, IsSeq(s)
  PROVE  /\ Len(s) = 1 => s = <<s[1]>>
         /\ Len(s) = 2 => s = <<s[1]>> \o <<s[2]>>
<1>1. PICK S : s \in Seq(S)
  BY DEF IsSeq
<1>2. \A U : \A u \in Seq(U) : Len(u) = 1 => u = <<u[1]>>
  OBVIOUS
<1>3. ASSUME Len(s) = 2 PROVE s = <<s[1]>> \o <<s[2]>>
  <2>1. PICK x, y : x = s[1] /\ y = s[2]
    OBVIOUS
  <2>2. x \in S /\ y \in S
    BY <1>1, <1>3, <2>1
  <2>3. PICK z : z = <<x>> \o <<y>>
    OBVIOUS
  <2>4. z \in Seq(S) /\ Len(z) = 2 /\ z[1] = x /\ z[2] = y
    BY <2>2, <2>3
  <2>5. \A i \in 1..2 : s[i] = z[i]
    <3>1. \A i \in 1..2 : i = 1 \/ i = 2
      OBVIOUS
    <3>. QED
      BY <2>1, <2>4, <3>1
  <2>6. s = z
    BY <1>1, <1>3, <2>4, <2>5
  <2>. QED
    BY <2>1, <2>3, <2>6
<1>. QED
  BY <1>1, <1>2, <1>3

(* Nothing before or after.                                                  *)
LEMMA NothingElse ==
  ASSUME NEW s, IsSeq(s)
  PROVE  <<>> \o s = s /\ s \o <<>> = s
<1>1. PICK S : s \in Seq(S)
  BY DEF IsSeq
<1>2. \A U : \A u \in Seq(U) : <<>> \o u = u /\ u \o <<>> = u
  OBVIOUS
<1>. QED
  BY <1>1, <1>2

LEMMA TenhouSeat ==
  ASSUME NEW t, TableOK(t), NEW b, b.seat = t.me, NEW a, a \in 0..(t.n - 1)
  PROVE  Tenhou!rel_to_abs(b, Tenhou!Rel(t, a)) = a /\ Tenhou!Rel(t, a) \in 0..3
<1>1. PICK me : me = t.me
  OBVIOUS
<1>2. me \in 0..3 /\ a \in 0..3
  BY <1>1, SeatSpan, TableFields
<1>3. (((a + 4 - me) % 4) + me) % 4 = a /\ (a + 4 - me) % 4 \in 0..3
  BY <1>2
<1>. QED
  BY <1>1, <1>3 DEF Tenhou!rel_to_abs, Tenhou!Rel

(* The frames that name a seat reach the handler of their kind.              *)
LEMMA TenhouParse ==
  ASSUME NEW t, TableOK(t), NEW b, b.seat = t.me, b.is_3p <=> t.n = 3, NEW a, a \in 0..(t.n - 1),
         NEW f, f.who = Tenhou!Rel(t, a)
  PROVE  /\ f.tag = "T" => ParseOf("tenhou", b, f) = Tenhou!on_tsumo(b, f, a)
         /\ f.tag = "D" => ParseOf("tenhou", b, f) = Tenhou!on_dahai(b, f, a)
         /\ f.tag = "N" => ParseOf("tenhou", b, f) = Tenhou!on_meld(b, f, a)
         /\ f.tag = "REACH" => ParseOf("tenhou", b, f) = Tenhou!on_reach(b, f, a)
         /\ f.tag = "AGARI" => ParseOf("tenhou", b, f) = Tenhou!on_agari(b, f, a)
<1>1. Tenhou!rel_to_abs(b, f.who) = a
  BY TenhouSeat
<1>2. ~Tenhou!ghost(b, a)
  <2>1. t.n \in 3..4
    BY TableFields
  <2>. QED
    <3>1. CASE t.n = 3
      <4>1. a # 3
        BY <3>1
      <4>. QED
        BY <4>1 DEF Tenhou!ghost
    <3>2. CASE t.n = 4
      <4>1. ~b.is_3p
        BY <3>2
      <4>. QED
        BY <4>1 DEF Tenhou!ghost
    <3>. QED
      BY <2>1, <3>1, <3>2
<1>. QED
  BY <1>1, <1>2 DEF ParseOf, Tenhou!Parse

LEMMA TenhouEv ==
  ASSUME NEW type, NEW a
  PROVE  Tenhou!Ev(type, a) = Ev(type, a)
BY DEF Tenhou!Ev, Ev

LEMMA TenhouPassed ==
  ASSUME NEW t2, TableOK(t2), NEW b, b.seat = t2.me, b.is_3p <=> t2.n = 3, NEW m2, m2.accepts = None \/ m2.accepts \in 0..(t2.n - 1),
         NEW v, NEW r, NEW v2, NEW r2, Plays(v, r, Accepts(m2.accepts), v2, r2)
  PROVE  Runs("tenhou", b, v, r, Tenhou!Passed(t2, m2), b, v2, r2)
<1>1. CASE m2.accepts = None
  <2>1. Tenhou!Passed(t2, m2) = <<>> /\ Accepts(m2.accepts) = <<>>
    BY <1>1 DEF Tenhou!Passed, Accepts, Tenhou!Nobody, None
  <2>. QED
    BY <2>1, PlaysNothing, RunsNothing
<1>2. CASE m2.accepts # None
  <2>1. PICK a : a = m2.accepts
    OBVIOUS
  <2>2. a \in 0..(t2.n - 1)
    BY <1>2, <2>1
  <2>3. PICK f : f = [tag |-> "REACH", who |-> Tenhou!Rel(t2, a), step |-> 2]
    OBVIOUS
  <2>4. f.tag = "REACH" /\ f.who = Tenhou!Rel(t2, a) /\ f.step = 2
    BY <2>3
  <2>5. ParseOf("tenhou", b, f) = Tenhou!on_reach(b, f, a)
    BY <2>2, <2>4, TenhouParse
  <2>6. Becomes("tenhou", b, f, b, <<Ev("reach_accepted", a)>>)
    <3>1. Tenhou!on_reach(b, f, a) = [bridge |-> b, events |-> <<Tenhou!Ev("reach_accepted", a)>>]
      BY <2>4 DEF Tenhou!on_reach, Tenhou!Out
    <3>. QED
      BY <2>5, <3>1, TenhouEv DEF Becomes
  <2>7. Tenhou!Passed(t2, m2) = <<f>> /\ Accepts(m2.accepts) = <<Ev("reach_accepted", a)>>
    BY <1>2, <2>1, <2>3 DEF Tenhou!Passed, Accepts, Tenhou!Nobody, None
  <2>. QED
    BY <2>6, <2>7, RunsFrame
<1>. QED
  BY <1>1, <1>2

LEMMA PendingSeat ==
  ASSUME NEW t, TableOK(t), t.stage \in {"act", "open"}
  PROVE  t.pending = None \/ t.pending \in 0..(t.n - 1)
<1>1. t.pending = None \/ t.pending = t.turn
  BY DEF TableOK, Stage
<1>. QED
  BY <1>1, TableFields

LEMMA TenhouDraws ==
  ASSUME NEW t, NEW t2, NEW m2, TableOK(t), TableOK(t2), HasDrawn(t, t2, m2), NEW b,
         TenhouGood(t, b),
         NEW v, NEW r, Hand(t, t.pending, v, r), v.dora = t.shown
  PROVE  \E b2, v2, r2 : /\ Runs("tenhou", b, v, r, Tenhou!Frames(t, t2, m2), b2, v2, r2)
                         /\ TenhouGood(t2, b2) /\ Hand(t2, t2.pending, v2, r2) /\ v2.dora = t2.shown
<1>1. t.stage = "open" /\ t2.stage = "act" /\ t2.n = t.n /\ t2.me = t.me /\ t2.games = t.games /\ t2.pending = None /\ t2.offer = FALSE /\ t2.drew = TRUE
  BY TableFields DEF HasDrawn, SameHand, SameGame
<1>2. PICK v1, r1 : Plays(v, r, Accepts(t.pending), v1, r1) /\ Hand(Settled(t), None, v1, r1) /\ v1.dora = v.dora
  BY <1>1, SeePassed DEF Same
<1>3. PICK v2 : Plays(v1, r1, <<Ev("tsumo", t2.turn)>>, v2, r1) /\ Hand(t2, None, v2, r1) /\ v2.dora = v1.dora
  BY <1>2, SeeTsumo
<1>4. t.games > 0
  BY <1>1 DEF TableOK, Stage
<1>5. b \in TenhouBridges /\ b.seat = t.me /\ b.players = t.n /\ (b.is_3p <=> t.n = 3) /\ b.hand = t.rack /\ b.is_tsumo = FALSE
  BY <1>1, <1>4 DEF TenhouGood, TenhouBridges
<1>6. m2.kind = "draw" /\ m2.accepts = t.pending
  BY DEF HasDrawn
<1>7. Runs("tenhou", b, v, r, Tenhou!Passed(t2, m2), b, v1, r1)
  <2>1. t.pending = None \/ t.pending \in 0..(t2.n - 1)
    BY <1>1, PendingSeat
  <2>. QED
    BY <1>1, <1>2, <1>5, <1>6, <2>1, TenhouPassed
<1>8. PICK a, f : a = t2.turn /\ f = Tenhou!DrawFrame(t2)
  OBVIOUS
<1>9. f.tag = "T" /\ f.who = Tenhou!Rel(t2, a) /\ f.tile = (IF a = t.me THEN Last(t2.rack) ELSE 0) /\ a \in 0..(t2.n - 1)
  BY <1>1, <1>8, TableFields DEF Tenhou!DrawFrame, Tenhou!Last, Last
<1>10. ParseOf("tenhou", b, f) = Tenhou!on_tsumo(b, f, a)
  BY <1>1, <1>5, <1>9, TenhouParse
<1>11. PICK b2 : b2 = Tenhou!on_tsumo(b, f, a).bridge
  OBVIOUS
<1>12. Becomes("tenhou", b, f, b2, <<Ev("tsumo", a)>>)
  <2>1. Tenhou!on_tsumo(b, f, a).events = <<Tenhou!Ev("tsumo", a)>>
    BY DEF Tenhou!on_tsumo, Tenhou!Out
  <2>. QED
    BY <1>10, <1>11, <2>1, TenhouEv DEF Becomes
<1>13. TenhouGood(t2, b2)
  <2>1. CASE a = t.me
    <3>1. PICK x : x = 20 + t.moves
      OBVIOUS
    <3>2. x \in Nat /\ t.rack \in Seq(Nat)
      BY <3>1, TableFields
    <3>3. t2.rack = Append(t.rack, x)
      BY <1>8, <2>1, <3>1 DEF HasDrawn
    <3>4. f.tile = x
      <4>1. Last(Append(t.rack, x)) = x
        BY <3>2 DEF Last
      <4>. QED
        BY <1>9, <2>1, <3>3, <4>1
    <3>5. b2 = [b EXCEPT !.hand = Append(t.rack, x), !.is_tsumo = TRUE, !.window = TRUE]
      BY <1>5, <1>11, <2>1, <3>4 DEF Tenhou!on_tsumo, Tenhou!Out
    <3>6. /\ b2 \in TenhouBridges /\ b2.hand = t2.rack /\ b2.is_tsumo = TRUE /\ b2.window = TRUE
          /\ b2.seat = b.seat /\ b2.players = b.players /\ b2.is_3p = b.is_3p
      <4>1. Append(t.rack, x) \in Seq(Nat)
        BY <3>2
      <4>. QED
        BY <1>5, <3>3, <3>5, <4>1 DEF TenhouBridges
    <3>. QED
      BY <1>1, <1>5, <1>8, <2>1, <3>6 DEF TenhouGood, OwedAt
  <2>2. CASE a # t.me
    <3>1. t2.rack = t.rack
      BY <1>8, <2>2 DEF HasDrawn
    <3>5. b2 = [b EXCEPT !.hand = t.rack, !.is_tsumo = FALSE, !.window = FALSE]
      BY <1>5, <1>11, <2>2 DEF Tenhou!on_tsumo, Tenhou!Out
    <3>6. /\ b2 \in TenhouBridges /\ b2.hand = t2.rack /\ b2.is_tsumo = FALSE /\ b2.window = FALSE
          /\ b2.seat = b.seat /\ b2.players = b.players /\ b2.is_3p = b.is_3p
      BY <1>5, <3>1, <3>5, TableFields DEF TenhouBridges
    <3>. QED
      BY <1>1, <1>5, <1>8, <2>2, <3>6 DEF TenhouGood, OwedAt
  <2>. QED
    BY <2>1, <2>2
<1>14. Tenhou!Frames(t, t2, m2) = Tenhou!Passed(t2, m2) \o <<f>>
  BY <1>6, <1>8 DEF Tenhou!Frames
<1>15. Runs("tenhou", b, v1, r1, <<f>>, b2, v2, r1)
  BY <1>3, <1>8, <1>12, RunsFrame
<1>16. Runs("tenhou", b, v, r, Tenhou!Frames(t, t2, m2), b2, v2, r1)
  BY <1>7, <1>14, <1>15, RunsBoth
<1>17. v2.dora = t2.shown
  BY <1>2, <1>3 DEF HasDrawn
<1>. QED
  BY <1>1, <1>3, <1>13, <1>16, <1>17

LEMMA TenhouDoras ==
  ASSUME NEW k, k \in Nat, NEW b, NEW v, NEW r, NEW v2, NEW r2, Plays(v, r, Indicators(k), v2, r2)
  PROVE  Runs("tenhou", b, v, r, [i \in 1..k |-> Tenhou!DoraFrame], b, v2, r2)
<1>1. PICK es, w : es = [i \in 1..k |-> Dora] /\ w = [i \in 1..k |-> Tenhou!DoraFrame]
  OBVIOUS
<1>2. Len(es) = k /\ \A i \in 1..k : es[i] = Dora
  BY <1>1, TimesIsSeq
<1>3. IsSeq(w) /\ Len(w) = k /\ \A i \in 1..k : w[i] = Tenhou!DoraFrame
  BY <1>1, TimesIsSeq
<1>4. ParseOf("tenhou", b, Tenhou!DoraFrame).bridge = b /\ ParseOf("tenhou", b, Tenhou!DoraFrame).events = <<Dora>>
  <2>1. Tenhou!DoraFrame.tag = "DORA"
    BY DEF Tenhou!DoraFrame
  <2>2. ParseOf("tenhou", b, Tenhou!DoraFrame) = [bridge |-> b, events |-> <<Tenhou!Ev("dora", 0)>>]
    BY <2>1 DEF ParseOf, Tenhou!Parse, Tenhou!Out
  <2>3. Tenhou!Ev("dora", 0) = Dora
    BY TenhouEv DEF Dora
  <2>. QED
    BY <2>2, <2>3
<1>5. \A i \in 1..Len(es) : ParseOf("tenhou", b, w[i]).bridge = b /\ ParseOf("tenhou", b, w[i]).events = <<es[i]>>
  BY <1>2, <1>3, <1>4
<1>6. Plays(v, r, es, v2, r2)
  BY <1>1 DEF Indicators
<1>. QED
  BY <1>1, <1>2, <1>3, <1>5, <1>6, RunsSteady

LEMMA Distinct ==
  ASSUME NEW c, NEW r, Rising(r, c), NEW i \in 1..Len(r), NEW j \in 1..Len(r), r[i] = r[j]
  PROVE  i = j
<1>1. r[i] \in Nat /\ r[j] \in Nat
  BY DEF Rising
<1>2. ~(i < j) /\ ~(j < i)
  BY <1>1 DEF Rising
<1>. QED
  BY <1>2

LEMMA WithoutTaken ==
  ASSUME NEW c, NEW r, Rising(r, c), NEW used \in Nat, used <= Len(r)
  PROVE  Tenhou!without(r, ToSet(SubSeq(r, 1, used))) = SubSeq(r, used + 1, Len(r))
<1>1. r \in Seq(Nat) /\ Len(r) \in Nat
  BY DEF Rising
<1>2. PICK s, n, k : s = SubSeq(r, 1, used) /\ n = Len(r) /\ k = used + 1
  OBVIOUS
<1>3. s \in Seq(Nat) /\ Len(s) = used /\ \A i \in 1..used : s[i] = r[i]
  <2>1. Len(s) = used /\ s \in Seq(Nat)
    BY <1>1, <1>2
  <2>2. \A i \in 1..used : s[i] = r[1 + i - 1] /\ 1 + i - 1 = i
    BY <1>1, <1>2
  <2>. QED
    BY <2>1, <2>2
<1>4. PICK tiles : tiles = ToSet(s)
  OBVIOUS
<1>5. tiles = {s[i] : i \in 1..used}
  BY <1>3, <1>4 DEF ToSet
<1>6. ASSUME NEW i \in 1..n PROVE r[i] \in tiles <=> ~(k <= i /\ i <= n)
  <2>1. CASE i <= used
    <3>1. i \in 1..used
      BY <1>1, <1>2, <2>1
    <3>2. r[i] \in tiles
      BY <1>3, <1>5, <3>1
    <3>. QED
      BY <1>1, <1>2, <2>1, <3>2
  <2>2. CASE ~(i <= used)
    <3>1. r[i] \notin tiles
      <4>1. SUFFICES ASSUME r[i] \in tiles PROVE FALSE
        OBVIOUS
      <4>2. PICK j \in 1..used : r[i] = s[j]
        BY <1>5, <4>1
      <4>3. j \in 1..Len(r) /\ i \in 1..Len(r) /\ r[i] = r[j]
        BY <1>1, <1>2, <1>3, <4>2
      <4>4. i = j
        BY <4>3, Distinct
      <4>. QED
        BY <2>2, <4>2, <4>4
    <3>. QED
      BY <1>1, <1>2, <2>2, <3>1
  <2>. QED
    BY <2>1, <2>2
<1>7. Tenhou!without(r, tiles) = SubSeq(r, k, n)
  <2>1. k \in Nat /\ n \in Nat /\ 1 <= k /\ k <= n + 1 /\ n <= Len(r)
    BY <1>1, <1>2
  <2>2. \A i \in 1..Len(r) : r[i] \in tiles <=> ~(k <= i /\ i <= n)
    BY <1>2, <1>6
  <2>. QED
    BY <1>1, <2>1, <2>2, WithoutEnd
<1>. QED
  BY <1>2, <1>4, <1>7

LEMMA WithoutLast ==
  ASSUME NEW c, NEW r, Rising(r, c), Len(r) >= 1
  PROVE  /\ Tenhou!without(r, {r[Len(r)]}) = SubSeq(r, 1, Len(r) - 1)
         /\ Tenhou!without(r, {r[1]}) = SubSeq(r, 2, Len(r))
<1>1. r \in Seq(Nat) /\ Len(r) \in Nat
  BY DEF Rising
<1>2. PICK n : n = Len(r)
  OBVIOUS
<1>3. n \in Nat /\ n >= 1 /\ n \in 1..Len(r) /\ 1 \in 1..Len(r)
  BY <1>1, <1>2
<1>4. \A i \in 1..Len(r) : (r[i] = r[n] <=> i = n) /\ (r[i] = r[1] <=> i = 1)
  BY <1>3, Distinct
<1>5. \A i \in 1..Len(r) : r[i] \in {r[n]} <=> ~(1 <= i /\ i <= n - 1)
  BY <1>2, <1>3, <1>4
<1>6. \A i \in 1..Len(r) : r[i] \in {r[1]} <=> ~(2 <= i /\ i <= n)
  BY <1>2, <1>3, <1>4
<1>7. PICK tiles, k, l : tiles = {r[n]} /\ k = n - 1 /\ l = 1
  OBVIOUS
<1>8. k \in Nat /\ l \in Nat /\ 1 <= l /\ l <= k + 1 /\ k <= Len(r)
  BY <1>2, <1>3, <1>7
<1>9. \A i \in 1..Len(r) : r[i] \in tiles <=> ~(l <= i /\ i <= k)
  BY <1>5, <1>7
<1>10. Tenhou!without(r, tiles) = SubSeq(r, l, k)
  BY <1>1, <1>8, <1>9, WithoutEnd
<1>11. PICK firsts : firsts = {r[1]}
  OBVIOUS
<1>12. \A i \in 1..Len(r) : r[i] \in firsts <=> ~(2 <= i /\ i <= n)
  BY <1>6, <1>11
<1>13. 2 \in Nat /\ n \in Nat /\ 1 <= 2 /\ 2 <= n + 1 /\ n <= Len(r)
  BY <1>2, <1>3
<1>14. Tenhou!without(r, firsts) = SubSeq(r, 2, n)
  BY <1>1, <1>12, <1>13, WithoutEnd
<1>. QED
  BY <1>2, <1>7, <1>10, <1>11, <1>14

(* Our tile goes out of the hand, and is the one we drew if it is the last.  *)
LEMMA TenhouGives ==
  ASSUME NEW t, NEW t2, NEW m2, TableOK(t), TableOK(t2), HasDiscarded(t, t2, m2), t.turn = t.me
  PROVE  \E x : /\ m2.taken = {x} /\ Tenhou!without(t.rack, {x}) = t2.rack
                /\ (Last(t.rack) = x <=> m2.last)
<1>1. t.stage = "act" /\ m2.last \in BOOLEAN
  BY DEF HasDiscarded
<1>2. PICK r, k, c : r = t.rack /\ k = t.melds[t.me] /\ c = 20 + t.moves
  OBVIOUS
<1>3. k \in 0..4 /\ r \in Seq(Nat) /\ Rising(r, c) /\ Len(r) = 13 - 3 * k + 1 /\ c \in Nat
  BY <1>1, <1>2, RackLen, TableFields
<1>4. Len(r) \in Nat /\ Len(r) >= 2
  BY <1>3
<1>5. Last(r) = r[Len(r)] /\ Head(r) = r[1]
  BY <1>3, <1>4 DEF Last
<1>6. r[Len(r)] # r[1]
  <2>1. PICK n, l : n = Len(r) /\ l = 1
    OBVIOUS
  <2>2. n \in 1..Len(r) /\ l \in 1..Len(r) /\ n # l
    BY <1>4, <2>1
  <2>3. r[n] # r[l]
    BY <1>3, <2>2, Distinct
  <2>. QED
    BY <2>1, <2>3
<1>7. Tail(r) = SubSeq(r, 2, Len(r)) /\ Front(r) = SubSeq(r, 1, Len(r) - 1)
  <2>1. t.moves \in Nat /\ Rising(r, 20 + t.moves) /\ Len(r) >= 1
    BY <1>2, <1>3, <1>4, TableFields
  <2>. QED
    BY <2>1, TailFront
<1>8. /\ Tenhou!without(r, {r[Len(r)]}) = SubSeq(r, 1, Len(r) - 1)
      /\ Tenhou!without(r, {r[1]}) = SubSeq(r, 2, Len(r))
  <2>1. Len(r) >= 1
    BY <1>4
  <2>. QED
    BY <1>3, <2>1, WithoutLast
<1>9. CASE m2.last
  <2>1. m2.taken = {r[Len(r)]} /\ t2.rack = Front(r)
    BY <1>2, <1>5, <1>9 DEF HasDiscarded
  <2>. QED
    BY <1>2, <1>5, <1>7, <1>8, <1>9, <2>1
<1>10. CASE ~m2.last
  <2>1. m2.taken = {r[1]} /\ t2.rack = Tail(r)
    BY <1>2, <1>5, <1>10 DEF HasDiscarded
  <2>2. PICK x : x = r[1]
    OBVIOUS
  <2>3. Last(t.rack) # x
    BY <1>2, <1>5, <1>6, <2>2
  <2>4. Tenhou!without(t.rack, {x}) = t2.rack
    BY <1>2, <1>7, <1>8, <2>1, <2>2
  <2>5. m2.taken = {x}
    BY <2>1, <2>2
  <2>. QED
    BY <1>10, <2>3, <2>4, <2>5
<1>. QED
  BY <1>9, <1>10

TenhouTile(t2, m2) ==
  [tag |-> "D", who |-> Tenhou!Rel(t2, m2.seat), tile |-> IF m2.seat = t2.me THEN CHOOSE x \in m2.taken : TRUE ELSE 0,
   upper |-> m2.giri, t |-> t2.offer]

LEMMA TenhouDahai ==
  ASSUME NEW t, NEW t2, NEW m2, TableOK(t), TableOK(t2), HasDiscarded(t, t2, m2), NEW b,
         TenhouGood(t, b)
  PROVE  \E b2 : Becomes("tenhou", b, TenhouTile(t2, m2), b2, <<[Ev("dahai", t.turn) EXCEPT !.giri = m2.giri]>>) /\ TenhouGood(t2, b2)
<1>0. PICK f : f = TenhouTile(t2, m2)
  OBVIOUS
<1>1. /\ t.stage = "act" /\ t2.stage = "open" /\ t2.n = t.n /\ t2.me = t.me /\ t2.games = t.games
      /\ t2.turn = t.turn /\ m2.seat = t.turn
      /\ m2.giri \in BOOLEAN /\ m2.giri = (m2.last /\ t.drew) /\ t2.offer \in BOOLEAN
      /\ t2.drew = FALSE /\ t.drew \in BOOLEAN /\ m2.last \in BOOLEAN
  BY TableFields DEF HasDiscarded, SameHand, SameGame
<1>2. t.games > 0
  BY <1>1 DEF TableOK, Stage
<1>3. b \in TenhouBridges /\ b.seat = t.me /\ b.players = t.n /\ (b.is_3p <=> t.n = 3) /\ b.hand = t.rack
  BY <1>1, <1>2 DEF TenhouGood
<1>4. PICK a : a = t.turn
  OBVIOUS
<1>5. f.tag = "D" /\ f.who = Tenhou!Rel(t2, a) /\ a \in 0..(t2.n - 1) /\ f.upper = m2.giri /\ f.t = t2.offer
      /\ f.tile = (IF a = t2.me THEN CHOOSE x \in m2.taken : TRUE ELSE 0)
  BY <1>0, <1>1, <1>4, TableFields DEF TenhouTile
<1>6. ParseOf("tenhou", b, f) = Tenhou!on_dahai(b, f, a)
  BY <1>1, <1>3, <1>5, TenhouParse
<1>7. CASE a = t.me
  <2>1. PICK x : m2.taken = {x} /\ Tenhou!without(t.rack, {x}) = t2.rack /\ (Last(t.rack) = x <=> m2.last)
    BY <1>4, <1>7, TenhouGives
  <2>2. f.tile = x
    BY <1>1, <1>5, <1>7, <2>1
  <2>3. b.is_tsumo = t.drew
    BY <1>1, <1>3, <1>4, <1>7 DEF TenhouGood, TenhouBridges
  <2>4. PICK g : g = (b.is_tsumo /\ Tenhou!Last(b.hand) = f.tile)
    OBVIOUS
  <2>5. g = m2.giri
    <3>1. Tenhou!Last(b.hand) = f.tile <=> m2.last
      BY <1>3, <2>1, <2>2 DEF Tenhou!Last, Last
    <3>. QED
      BY <1>1, <2>3, <2>4, <3>1
  <2>6. Tenhou!on_dahai(b, f, a) =
          [bridge |-> [b EXCEPT !.is_tsumo = FALSE, !.hand = Tenhou!without(b.hand, {f.tile}), !.window = FALSE],
           events |-> <<[Tenhou!Ev("dahai", a) EXCEPT !.giri = g]>>]
    BY <1>3, <1>7, <2>4 DEF Tenhou!on_dahai, Tenhou!Out
  <2>7. PICK b2 : b2 = [b EXCEPT !.is_tsumo = FALSE, !.hand = t2.rack, !.window = FALSE]
    OBVIOUS
  <2>8. Becomes("tenhou", b, f, b2, <<[Ev("dahai", t.turn) EXCEPT !.giri = m2.giri]>>)
    <3>1. [Tenhou!Ev("dahai", a) EXCEPT !.giri = g] = [Ev("dahai", t.turn) EXCEPT !.giri = m2.giri]
      BY <1>4, <2>5, TenhouEv
    <3>2. b2 = [b EXCEPT !.is_tsumo = FALSE, !.hand = Tenhou!without(b.hand, {f.tile}), !.window = FALSE]
      BY <1>3, <2>1, <2>2, <2>7
    <3>. QED
      BY <1>6, <2>6, <3>1, <3>2 DEF Becomes
  <2>9. /\ b2 \in TenhouBridges /\ b2.hand = t2.rack /\ b2.is_tsumo = FALSE /\ b2.window = FALSE
        /\ b2.seat = b.seat /\ b2.players = b.players /\ b2.is_3p = b.is_3p
    BY <1>3, <2>7, TableFields DEF TenhouBridges
  <2>10. ~t2.offer
    BY <1>1, <1>4, <1>7 DEF HasDiscarded
  <2>11. ~OwedAt(t2)
    BY <1>1, <2>10 DEF OwedAt
  <2>12. TenhouGood(t2, b2)
    BY <1>1, <1>3, <2>9, <2>11 DEF TenhouGood
  <2>. QED
    BY <1>0, <2>8, <2>12
<1>8. CASE a # t.me
  <2>6. Tenhou!on_dahai(b, f, a) =
          [bridge |-> [b EXCEPT !.is_tsumo = FALSE, !.hand = b.hand, !.window = t2.offer],
           events |-> <<[Tenhou!Ev("dahai", a) EXCEPT !.giri = m2.giri]>>]
    BY <1>1, <1>3, <1>5, <1>8 DEF Tenhou!on_dahai, Tenhou!Out
  <2>7. PICK b2 : b2 = [b EXCEPT !.is_tsumo = FALSE, !.hand = b.hand, !.window = t2.offer]
    OBVIOUS
  <2>8. Becomes("tenhou", b, f, b2, <<[Ev("dahai", t.turn) EXCEPT !.giri = m2.giri]>>)
    <3>1. [Tenhou!Ev("dahai", a) EXCEPT !.giri = m2.giri] = [Ev("dahai", t.turn) EXCEPT !.giri = m2.giri]
      BY <1>4, TenhouEv
    <3>. QED
      BY <1>6, <2>6, <2>7, <3>1 DEF Becomes
  <2>9. /\ b2 \in TenhouBridges /\ b2.hand = t.rack /\ b2.is_tsumo = FALSE /\ b2.window = t2.offer
        /\ b2.seat = b.seat /\ b2.players = b.players /\ b2.is_3p = b.is_3p
    BY <1>1, <1>3, <2>7 DEF TenhouBridges
  <2>10. t2.rack = t.rack
    BY <1>4, <1>8 DEF HasDiscarded
  <2>11. OwedAt(t2) <=> t2.offer
    BY <1>1 DEF OwedAt
  <2>12. TenhouGood(t2, b2)
    BY <1>1, <1>3, <2>9, <2>10, <2>11 DEF TenhouGood
  <2>. QED
    BY <1>0, <2>8, <2>12
<1>. QED
  BY <1>0, <1>7, <1>8

LEMMA TenhouDiscards ==
  ASSUME NEW t, NEW t2, NEW m2, TableOK(t), TableOK(t2), HasDiscarded(t, t2, m2), NEW b,
         TenhouGood(t, b),
         NEW v, NEW r, Hand(t, t.pending, v, r), v.dora = t.shown
  PROVE  \E b2, v2 : /\ Runs("tenhou", b, v, r, Tenhou!Frames(t, t2, m2), b2, v2, r)
                     /\ TenhouGood(t2, b2) /\ Hand(t2, t2.pending, v2, r)
                     /\ v2.dora = t2.shown /\ v2.floor = m2.seat /\ v2.giri = m2.giri
<1>1. /\ t.stage = "act" /\ t2.n = t.n /\ t2.me = t.me /\ t.pending = None /\ m2.riichi \in BOOLEAN
      /\ t.shown \in Nat /\ t.due \in Nat /\ t2.shown = t.shown + t.due /\ m2.kind = "discard"
      /\ m2.seat = t.turn
  BY TableFields DEF HasDiscarded, TableOK, Stage, SameHand, SameGame
<1>2. b.seat = t.me /\ (b.is_3p <=> t.n = 3)
  <2>1. t.games > 0
    BY <1>1 DEF TableOK, Stage
  <2>. QED
    BY <1>1, <2>1 DEF TenhouGood
<1>3. PICK A : A = (IF m2.riichi THEN <<[tag |-> "REACH", who |-> Tenhou!Rel(t2, m2.seat), step |-> 1]>> ELSE <<>>)
  BY Zenon
<1>4. PICK f : f = TenhouTile(t2, m2)
  OBVIOUS
<1>5. Tenhou!Frames(t, t2, m2) = (A \o Tenhou!Doras(t, t2)) \o <<f>>
  BY <1>1, <1>3, <1>4 DEF Tenhou!Frames, TenhouTile
<1>6. PICK b1, v1 : /\ Runs("tenhou", b, v, r, A, b1, v1, r) /\ TenhouGood(t, b1)
                    /\ Hand(t, Declared(t, m2), v1, r) /\ v1.dora = v.dora
  <2>1. CASE m2.riichi
    <3>1. t.drew /\ t.turn \notin t.accepted
      BY <2>1 DEF HasDiscarded
    <3>2. PICK v1 : Plays(v, r, <<Ev("reach", t.turn)>>, v1, r) /\ Hand(t, t.turn, v1, r) /\ Same(v, v1)
      BY <1>1, <3>1, SeeReach
    <3>3. PICK g : g = [tag |-> "REACH", who |-> Tenhou!Rel(t2, m2.seat), step |-> 1]
      OBVIOUS
    <3>4. g.tag = "REACH" /\ g.who = Tenhou!Rel(t2, t.turn) /\ g.step = 1 /\ t.turn \in 0..(t2.n - 1)
      BY <1>1, <3>3, TableFields
    <3>5. ParseOf("tenhou", b, g) = Tenhou!on_reach(b, g, t.turn)
      BY <1>1, <1>2, <3>4, TenhouParse
    <3>6. PICK b1 : b1 = [b EXCEPT !.window = b.window \/ t.turn = b.seat]
      OBVIOUS
    <3>7. Tenhou!on_reach(b, g, t.turn) = [bridge |-> b1, events |-> <<Tenhou!Ev("reach", t.turn)>>]
      BY <3>4, <3>6 DEF Tenhou!on_reach, Tenhou!Out
    <3>8. Becomes("tenhou", b, g, b1, <<Ev("reach", t.turn)>>)
      BY <3>5, <3>7, TenhouEv DEF Becomes
    <3>9. b1 = b
      <4>1. b \in TenhouBridges /\ (b.window <=> t.turn = t.me \/ t.offer)
        BY <1>1 DEF TenhouGood, OwedAt
      <4>2. b.window = (b.window \/ t.turn = b.seat)
        BY <1>2, <4>1 DEF TenhouBridges
      <4>3. b1 = [b EXCEPT !.window = b.window]
        BY <3>6, <4>2
      <4>. QED
        BY <4>1, <4>3 DEF TenhouBridges
    <3>10. Runs("tenhou", b, v, r, A, b, v1, r)
      BY <1>3, <2>1, <3>2, <3>3, <3>8, <3>9, RunsFrame
    <3>. QED
      <4>1. Declared(t, m2) = t.turn
        BY <2>1 DEF Declared
      <4>. QED
        BY <1>1, <1>2, <3>2, <3>10, <4>1 DEF Same
  <2>2. CASE ~m2.riichi
    <3>1. Runs("tenhou", b, v, r, A, b, v, r)
      BY <1>3, <2>2, RunsNothing
    <3>2. Declared(t, m2) = t.pending
      BY <1>1, <2>2 DEF Declared
    <3>. QED
      BY <3>1, <3>2
  <2>. QED
    BY <2>1, <2>2
<1>7. PICK k : k = t2.shown - t.shown
  OBVIOUS
<1>8. k \in Nat /\ t.shown + k = t2.shown
  BY <1>1, <1>7
<1>9. PICK v2 : /\ Plays(v1, r, Indicators(k), v2, r) /\ Hand(t, Declared(t, m2), v2, r)
                /\ v2.dora = v1.dora + k
  BY <1>6, <1>8, SeeDoras
<1>10. Runs("tenhou", b1, v1, r, Tenhou!Doras(t, t2), b1, v2, r)
  <2>1. Tenhou!Doras(t, t2) = [i \in 1..k |-> Tenhou!DoraFrame]
    BY <1>7 DEF Tenhou!Doras
  <2>. QED
    BY <1>8, <1>9, <2>1, TenhouDoras
<1>11. PICK v3 : /\ Plays(v2, r, <<[Ev("dahai", t.turn) EXCEPT !.giri = m2.giri]>>, v3, r) /\ Hand(t2, t2.pending, v3, r)
                 /\ v3.dora = v2.dora /\ v3.floor = t.turn /\ v3.giri = m2.giri
  BY <1>9, SeeDahai
<1>12. PICK b2 : Becomes("tenhou", b1, f, b2, <<[Ev("dahai", t.turn) EXCEPT !.giri = m2.giri]>>) /\ TenhouGood(t2, b2)
  BY <1>4, <1>6, TenhouDahai
<1>13. Runs("tenhou", b1, v2, r, <<f>>, b2, v3, r)
  BY <1>11, <1>12, RunsFrame
<1>14. Runs("tenhou", b, v, r, A \o Tenhou!Doras(t, t2), b1, v2, r)
  BY <1>6, <1>10, RunsBoth
<1>15. Runs("tenhou", b, v, r, Tenhou!Frames(t, t2, m2), b2, v3, r)
  BY <1>5, <1>13, <1>14, RunsBoth
<1>16. v3.dora = t2.shown
  BY <1>6, <1>8, <1>9, <1>11
<1>. QED
  BY <1>1, <1>11, <1>12, <1>15, <1>16

(* The indicators that a move shows.                                         *)
TenhouShown(t, t2, b, h, pend, v, r, v2) ==
  /\ Runs("tenhou", b, v, r, Tenhou!Doras(t, t2), b, v2, r) /\ Hand(h, pend, v2, r)
  /\ v2.dora = v.dora + (t2.shown - t.shown)

LEMMA TenhouShows ==
  ASSUME NEW t, NEW t2, t.shown \in Nat, t2.shown \in Nat, t.shown <= t2.shown, NEW b, NEW h,
         NEW pend, NEW v, NEW r, Hand(h, pend, v, r)
  PROVE  \E v2 : TenhouShown(t, t2, b, h, pend, v, r, v2)
<1>1. PICK k : k = t2.shown - t.shown
  OBVIOUS
<1>2. k \in Nat
  BY <1>1
<1>3. PICK v2 : /\ Plays(v, r, Indicators(k), v2, r) /\ Hand(h, pend, v2, r) /\ v2.dora = v.dora + k
  BY <1>2, SeeDoras
<1>4. Tenhou!Doras(t, t2) = [i \in 1..k |-> Tenhou!DoraFrame]
  BY <1>1 DEF Tenhou!Doras
<1>5. Runs("tenhou", b, v, r, Tenhou!Doras(t, t2), b, v2, r)
  BY <1>2, <1>3, <1>4, TenhouDoras
<1>6. TenhouShown(t, t2, b, h, pend, v, r, v2)
  BY <1>1, <1>3, <1>5 DEF TenhouShown
<1>. QED
  BY <1>6

TenhouMeld(t2, m2) ==
  [tag |-> "N", who |-> Tenhou!Rel(t2, m2.seat), kind |-> m2.call, t |-> t2.offer, exposed |-> m2.taken,
   from |-> IF m2.from = Nobody THEN 0 ELSE (m2.from + 4 - m2.seat) % 4]

(* Whom a meld was taken from.                                               *)
TakenFrom(t, m2, g) ==
  \/ m2.call = "chi" /\ t.n = 4 /\ m2.seat = (g + 1) % t.n
  \/ m2.call \in {"pon", "daiminkan"} /\ m2.from = g
  \/ m2.call \in OwnKans /\ g = m2.seat

(* What the bridge makes of it: whose hand it is decides.                    *)
MeldRead(t2, m2, g, b, h, w) ==
  /\ Becomes("tenhou", b, TenhouMeld(t2, m2), [b EXCEPT !.is_tsumo = FALSE, !.hand = h, !.window = w],
             <<[Ev(m2.call, m2.seat) EXCEPT !.target = g]>>)
  /\ m2.seat = t2.me => h = Tenhou!without(b.hand, m2.taken) /\ w = (m2.call \in {"chi", "pon"})
  /\ m2.seat # t2.me => h = b.hand /\ w = t2.offer

LEMMA TenhouMelds ==
  ASSUME NEW t2, TableOK(t2), NEW m2, m2.seat \in 0..(t2.n - 1), NEW g, g \in 0..(t2.n - 1),
         TakenFrom(t2, m2, g),
         NEW b, b \in TenhouBridges, b.seat = t2.me, b.is_3p <=> t2.n = 3
  PROVE  \E h, w : MeldRead(t2, m2, g, b, h, w)
<1>0. PICK f : f = TenhouMeld(t2, m2)
  OBVIOUS
<1>1. PICK a, c : a = m2.seat /\ c = m2.call
  OBVIOUS
<1>2. f.tag = "N" /\ f.who = Tenhou!Rel(t2, a) /\ f.kind = c /\ f.t = t2.offer /\ f.exposed = m2.taken
      /\ f.from = IF m2.from = Nobody THEN 0 ELSE (m2.from + 4 - a) % 4
  BY <1>0, <1>1 DEF TenhouMeld
<1>3. a \in 0..(t2.n - 1) /\ a \in 0..3 /\ g \in 0..3
  BY <1>1, SeatSpan
<1>4. ParseOf("tenhou", b, f) = Tenhou!on_meld(b, f, a)
  BY <1>2, <1>3, TenhouParse
<1>5. PICK h, w : /\ h = (IF a = b.seat THEN Tenhou!without(b.hand, f.exposed) ELSE b.hand)
                  /\ w = (IF a = b.seat THEN f.kind \in {"chi", "pon"} ELSE f.t)
  BY Zenon
<1>6. PICK tg : tg = CASE f.kind = "chi" -> (a + 3) % 4
                       [] f.kind \in {"pon", "daiminkan"} -> (a + f.from) % 4
                       [] OTHER -> a
  BY Zenon
<1>7. tg = g
  <2>1. CASE c = "chi"
    <3>1. t2.n = 4 /\ a = (g + 1) % 4
      BY <1>1, <2>1 DEF TakenFrom, OwnKans
    <3>2. tg = (a + 3) % 4
      BY <1>2, <1>6, <2>1
    <3>. QED
      BY <1>3, <3>1, <3>2
  <2>2. CASE c \in {"pon", "daiminkan"}
    <3>1. m2.from = g
      BY <1>1, <2>2 DEF TakenFrom, OwnKans
    <3>2. f.from = (g + 4 - a) % 4
      BY <1>2, <1>3, <3>1 DEF Nobody
    <3>3. c # "chi"
      BY <2>2
    <3>4. tg = (a + f.from) % 4
      BY <1>2, <1>6, <2>2, <3>3
    <3>. QED
      BY <1>3, <3>2, <3>4
  <2>3. CASE c \in OwnKans
    <3>1. g = a
      BY <1>1, <2>3 DEF TakenFrom, OwnKans
    <3>2. c # "chi" /\ c \notin {"pon", "daiminkan"}
      BY <2>3 DEF OwnKans
    <3>3. tg = a
      BY <1>2, <1>6, <3>2
    <3>. QED
      BY <3>1, <3>3
  <2>. QED
    BY <1>1, <2>1, <2>2, <2>3 DEF TakenFrom
<1>8. Tenhou!on_meld(b, f, a) = [bridge |-> [b EXCEPT !.is_tsumo = FALSE, !.hand = h, !.window = w],
                                 events |-> <<[Tenhou!Ev(c, a) EXCEPT !.target = tg]>>]
  BY <1>2, <1>5, <1>6, Zenon DEF Tenhou!on_meld, Tenhou!Out
<1>9. [Tenhou!Ev(c, a) EXCEPT !.target = tg] = [Ev(m2.call, m2.seat) EXCEPT !.target = g]
  BY <1>1, <1>7, TenhouEv
<1>10. Becomes("tenhou", b, f, [b EXCEPT !.is_tsumo = FALSE, !.hand = h, !.window = w],
               <<[Ev(m2.call, m2.seat) EXCEPT !.target = g]>>)
  BY <1>4, <1>8, <1>9 DEF Becomes
<1>11. m2.seat = t2.me => h = Tenhou!without(b.hand, m2.taken) /\ w = (m2.call \in {"chi", "pon"})
  BY <1>1, <1>2, <1>5
<1>12. m2.seat # t2.me => h = b.hand /\ w = t2.offer
  BY <1>1, <1>2, <1>5
<1>13. MeldRead(t2, m2, g, b, h, w)
  BY <1>0, <1>10, <1>11, <1>12 DEF MeldRead
<1>. QED
  BY <1>13

LEMMA TenhouCalls ==
  ASSUME NEW t, NEW t2, NEW m2, TableOK(t), TableOK(t2), HasCalled(t, t2, m2), NEW b,
         TenhouGood(t, b),
         NEW v, NEW r, Hand(t, t.pending, v, r), v.dora = t.shown
  PROVE  \E b2, v2, r2 : /\ Runs("tenhou", b, v, r, Tenhou!Frames(t, t2, m2), b2, v2, r2)
                         /\ TenhouGood(t2, b2) /\ Hand(t2, t2.pending, v2, r2) /\ v2.dora = t2.shown
<1>1. /\ t.stage = "open" /\ t2.n = t.n /\ t2.me = t.me /\ t2.games = t.games /\ t2.pending = None
      /\ t2.offer = FALSE /\ t2.drew = FALSE
      /\ m2.seat \in 0..(t.n - 1) /\ m2.call \in Calls /\ t2.turn = m2.seat
      /\ t2.stage = (IF m2.call = "daiminkan" THEN "open" ELSE "act")
      /\ m2.kind = "call" /\ m2.accepts = t.pending /\ m2.from = t.turn /\ t2.shown = t.shown
  BY TableFields DEF HasCalled, SameHand, SameGame
<1>2. PICK v1, r1 : Plays(v, r, Accepts(t.pending), v1, r1) /\ Hand(Settled(t), None, v1, r1) /\ v1.dora = v.dora
  BY <1>1, SeePassed DEF Same
<1>3. PICK v2 : Plays(v1, r1, <<[Ev(m2.call, m2.seat) EXCEPT !.target = t.turn]>>, v2, r1) /\ Hand(t2, None, v2, r1) /\ v2.dora = v1.dora
  BY <1>2, SeeCall
<1>4. t.games > 0
  BY <1>1 DEF TableOK, Stage
<1>5. b \in TenhouBridges /\ b.seat = t.me /\ b.players = t.n /\ (b.is_3p <=> t.n = 3) /\ b.hand = t.rack
  BY <1>1, <1>4 DEF TenhouGood, TenhouBridges
<1>6. Runs("tenhou", b, v, r, Tenhou!Passed(t2, m2), b, v1, r1)
  <2>1. t.pending = None \/ t.pending \in 0..(t2.n - 1)
    BY <1>1, PendingSeat
  <2>. QED
    BY <1>1, <1>2, <1>5, <2>1, TenhouPassed
<1>7. t.turn \in 0..(t2.n - 1) /\ TakenFrom(t2, m2, t.turn)
  <2>1. m2.call = "chi" => t.n = 4 /\ m2.seat = (t.turn + 1) % t.n
    BY DEF HasCalled
  <2>2. t.turn \in 0..(t2.n - 1)
    BY <1>1, TableFields
  <2>3. CASE m2.call = "chi"
    BY <1>1, <2>1, <2>2, <2>3 DEF TakenFrom
  <2>4. CASE m2.call # "chi"
    BY <1>1, <2>2, <2>4 DEF TakenFrom, Calls
  <2>. QED
    BY <2>3, <2>4
<1>8. PICK h, w : /\ Becomes("tenhou", b, TenhouMeld(t2, m2), [b EXCEPT !.is_tsumo = FALSE, !.hand = h, !.window = w],
                              <<[Ev(m2.call, m2.seat) EXCEPT !.target = t.turn]>>)
                  /\ m2.seat = t2.me => h = Tenhou!without(b.hand, m2.taken) /\ w = (m2.call \in {"chi", "pon"})
                  /\ m2.seat # t2.me => h = b.hand /\ w = t2.offer
  <2>1. PICK h, w : MeldRead(t2, m2, t.turn, b, h, w)
    BY <1>1, <1>5, <1>7, TenhouMelds
  <2>. QED
    BY <2>1 DEF MeldRead
<1>9. h = t2.rack
  <2>1. CASE m2.seat = t.me
    <3>1. PICK used \in 2..3 : /\ used <= Len(t.rack) /\ t2.rack = SubSeq(t.rack, used + 1, Len(t.rack))
                               /\ m2.taken = ToSet(SubSeq(t.rack, 1, used))
      BY <2>1 DEF HasCalled
    <3>2. Rising(t.rack, 20 + t.moves) /\ used \in Nat
      BY RackLen
    <3>3. PICK rack, c : rack = t.rack /\ c = 20 + t.moves
      OBVIOUS
    <3>4. Tenhou!without(rack, ToSet(SubSeq(rack, 1, used))) = SubSeq(rack, used + 1, Len(rack))
      BY <3>1, <3>2, <3>3, WithoutTaken
    <3>. QED
      BY <1>1, <1>5, <1>8, <2>1, <3>1, <3>3, <3>4
  <2>2. CASE m2.seat # t.me
    BY <1>1, <1>5, <1>8, <2>2 DEF HasCalled
  <2>. QED
    BY <2>1, <2>2
<1>10. w \in BOOLEAN /\ (w <=> OwedAt(t2))
  <2>1. CASE m2.seat = t.me
    <3>1. w = (m2.call \in {"chi", "pon"})
      BY <1>1, <1>8, <2>1
    <3>2. CASE m2.call = "daiminkan"
      <4>1. w \in BOOLEAN
        BY <3>1
      <4>2. ~w
        <5>1. m2.call \notin {"chi", "pon"}
          BY <3>2
        <5>. QED
          BY <3>1, <5>1
      <4>3. ~OwedAt(t2)
        BY <1>1, <3>2 DEF OwedAt
      <4>. QED
        BY <4>1, <4>2, <4>3
    <3>3. CASE m2.call # "daiminkan"
      BY <1>1, <2>1, <3>1, <3>3 DEF OwedAt, Calls
    <3>. QED
      BY <3>2, <3>3
  <2>2. CASE m2.seat # t.me
    BY <1>1, <1>8, <2>2 DEF OwedAt
  <2>. QED
    BY <2>1, <2>2
<1>11. PICK b2 : b2 = [b EXCEPT !.is_tsumo = FALSE, !.hand = h, !.window = w]
  OBVIOUS
<1>12. /\ b2 \in TenhouBridges /\ b2.hand = t2.rack /\ b2.is_tsumo = FALSE /\ b2.window = w
       /\ b2.seat = b.seat /\ b2.players = b.players /\ b2.is_3p = b.is_3p
  BY <1>5, <1>9, <1>10, <1>11, TableFields DEF TenhouBridges
<1>13. TenhouGood(t2, b2)
  BY <1>1, <1>5, <1>10, <1>12 DEF TenhouGood
<1>14. Tenhou!Frames(t, t2, m2) = Tenhou!Passed(t2, m2) \o <<TenhouMeld(t2, m2)>>
  <2>1. m2.call # "kita" /\ m2.call # "ankan"
    BY <1>1 DEF Calls
  <2>2. PICK A : A = Tenhou!Passed(t2, m2)
    OBVIOUS
  <2>3. IsSeq(A)
    BY <1>6, <2>2 DEF Runs
  <2>4. PICK N : N = <<TenhouMeld(t2, m2)>>
    OBVIOUS
  <2>5. Tenhou!Frames(t, t2, m2) = ((A \o <<>>) \o N) \o <<>>
    BY <1>1, <2>1, <2>2, <2>4 DEF Tenhou!Frames, TenhouMeld, Tenhou!Nobody, Nobody
  <2>6. A \o <<>> = A
    BY <2>3, NothingElse
  <2>7. IsSeq(A \o N)
    BY <2>3, <2>4, OneIsSeq, Joined
  <2>8. (A \o N) \o <<>> = A \o N
    BY <2>7, NothingElse
  <2>. QED
    BY <2>2, <2>4, <2>5, <2>6, <2>8
<1>15. Runs("tenhou", b, v1, r1, <<TenhouMeld(t2, m2)>>, b2, v2, r1)
  BY <1>3, <1>8, <1>11, RunsFrame
<1>16. Runs("tenhou", b, v, r, Tenhou!Frames(t, t2, m2), b2, v2, r1)
  BY <1>6, <1>14, <1>15, RunsBoth
<1>17. v2.dora = t2.shown
  BY <1>1, <1>2, <1>3
<1>. QED
  BY <1>1, <1>3, <1>13, <1>16, <1>17

LEMMA OwnTarget ==
  ASSUME NEW c, NEW a
  PROVE  [Ev(c, a) EXCEPT !.target = a] = Ev(c, a)
<1>1. PICK e : e = Ev(c, a)
  OBVIOUS
<1>2. e = [type |-> c, actor |-> a, target |-> a, giri |-> FALSE, players |-> 0, scores |-> <<>>]
  BY <1>1 DEF Ev
<1>3. e.target = a
  BY <1>2
<1>4. [e EXCEPT !.target = e.target] = e
  BY <1>2
<1>. QED
  BY <1>1, <1>3, <1>4

LEMMA TenhouKans ==
  ASSUME NEW t, NEW t2, NEW m2, TableOK(t), TableOK(t2), HasKan(t, t2, m2), NEW b, TenhouGood(t, b),
         NEW v, NEW r, Hand(t, t.pending, v, r), v.dora = t.shown
  PROVE  \E b2, v2 : /\ Runs("tenhou", b, v, r, Tenhou!Frames(t, t2, m2), b2, v2, r)
                     /\ TenhouGood(t2, b2) /\ Hand(t2, t2.pending, v2, r) /\ v2.dora = t2.shown
<1>1. /\ t.stage = "act" /\ t.pending = None /\ t2.n = t.n /\ t2.me = t.me /\ t2.games = t.games
      /\ t2.pending = None /\ t2.drew = FALSE
      /\ m2.seat = t.turn /\ m2.call \in OwnKans /\ t2.turn = t.turn /\ t2.stage = "open"
      /\ t2.offer \in BOOLEAN
      /\ m2.kind = "kan" /\ m2.accepts = None /\ m2.from = None /\ t.turn \in 0..(t2.n - 1)
  BY TableFields DEF HasKan, SameHand, SameGame, TableOK, Stage
<1>2. t.shown \in Nat /\ t.due \in Nat /\ t2.shown \in Nat
  BY TableFields
<1>3. PICK A, B : /\ A = (IF m2.call = "kita" THEN Tenhou!Doras(t, t2) ELSE <<>>)
                  /\ B = (IF m2.call = "ankan" THEN Tenhou!Doras(t, t2) ELSE <<>>)
  BY Zenon
<1>4. PICK v1 : /\ Runs("tenhou", b, v, r, A, b, v1, r) /\ Hand(t, None, v1, r)
                /\ v1.dora = IF m2.call = "kita" THEN t2.shown ELSE t.shown
  <2>1. CASE m2.call = "kita"
    <3>1. t2.shown = t.shown + t.due
      BY <2>1 DEF HasKan
    <3>2. t.shown <= t2.shown
      BY <1>2, <3>1
    <3>3. PICK v1 : Runs("tenhou", b, v, r, A, b, v1, r) /\ Hand(t, None, v1, r) /\ v1.dora = v.dora + (t2.shown - t.shown)
      <4>1. PICK v1 : TenhouShown(t, t2, b, t, None, v, r, v1)
        BY <1>1, <1>2, <3>2, TenhouShows
      <4>. QED
        BY <1>3, <2>1, <4>1 DEF TenhouShown
    <3>4. v1.dora = t2.shown
      BY <1>2, <3>3
    <3>. QED
      BY <2>1, <3>3, <3>4
  <2>2. CASE m2.call # "kita"
    BY <1>1, <1>3, <2>2, RunsNothing
  <2>. QED
    BY <2>1, <2>2
<1>5. PICK v2 : Plays(v1, r, <<Ev(m2.call, m2.seat)>>, v2, r) /\ Hand(t2, None, v2, r) /\ v2.dora = v1.dora
  BY <1>4, SeeKan
<1>6. t.games > 0
  BY <1>1 DEF TableOK, Stage
<1>7. b \in TenhouBridges /\ b.seat = t.me /\ b.players = t.n /\ (b.is_3p <=> t.n = 3) /\ b.hand = t.rack
  BY <1>1, <1>6 DEF TenhouGood, TenhouBridges
<1>8. PICK h, w : /\ Becomes("tenhou", b, TenhouMeld(t2, m2), [b EXCEPT !.is_tsumo = FALSE, !.hand = h, !.window = w],
                              <<[Ev(m2.call, m2.seat) EXCEPT !.target = t.turn]>>)
                  /\ m2.seat = t2.me => h = Tenhou!without(b.hand, m2.taken) /\ w = (m2.call \in {"chi", "pon"})
                  /\ m2.seat # t2.me => h = b.hand /\ w = t2.offer
  <2>1. TakenFrom(t2, m2, t.turn)
    BY <1>1 DEF TakenFrom
  <2>2. PICK h, w : MeldRead(t2, m2, t.turn, b, h, w)
    BY <1>1, <1>7, <2>1, TenhouMelds
  <2>. QED
    BY <2>2 DEF MeldRead
<1>9. h = t2.rack
  <2>1. CASE t.turn = t.me
    <3>1. \/ \E used \in {1, 4} : /\ used <= Len(t.rack) /\ t2.rack = SubSeq(t.rack, used + 1, Len(t.rack))
                                  /\ m2.taken = ToSet(SubSeq(t.rack, 1, used))
          \/ t2.rack = Front(t.rack) /\ m2.taken = {Last(t.rack)}
      BY <2>1 DEF HasKan
    <3>2. PICK rack, c : rack = t.rack /\ c = 20 + t.moves
      OBVIOUS
    <3>3. Rising(rack, c) /\ rack \in Seq(Nat) /\ Len(rack) >= 1
      <4>1. t.melds[t.me] \in 0..4 /\ t.rack \in Seq(Nat) /\ Rising(t.rack, 20 + t.moves)
            /\ Len(t.rack) = 13 - 3 * t.melds[t.me] + 1
        BY <1>1, <2>1, RackLen
      <4>. QED
        BY <3>2, <4>1
    <3>4. CASE \E used \in {1, 4} : /\ used <= Len(t.rack) /\ t2.rack = SubSeq(t.rack, used + 1, Len(t.rack))
                                    /\ m2.taken = ToSet(SubSeq(t.rack, 1, used))
      <4>1. PICK used \in {1, 4} : /\ used <= Len(t.rack) /\ t2.rack = SubSeq(t.rack, used + 1, Len(t.rack))
                                   /\ m2.taken = ToSet(SubSeq(t.rack, 1, used))
        BY <3>4
      <4>2. used \in Nat
        OBVIOUS
      <4>3. Tenhou!without(rack, ToSet(SubSeq(rack, 1, used))) = SubSeq(rack, used + 1, Len(rack))
        BY <3>2, <3>3, <4>1, <4>2, WithoutTaken
      <4>. QED
        BY <1>1, <1>7, <1>8, <2>1, <3>2, <4>1, <4>3
    <3>5. CASE t2.rack = Front(t.rack) /\ m2.taken = {Last(t.rack)}
      <4>1. Tenhou!without(rack, {rack[Len(rack)]}) = SubSeq(rack, 1, Len(rack) - 1)
        BY <3>3, WithoutLast
      <4>2. Last(rack) = rack[Len(rack)]
        BY DEF Last
      <4>3. Front(rack) = SubSeq(rack, 1, Len(rack) - 1)
        <5>1. t.moves \in Nat /\ Rising(rack, 20 + t.moves)
          BY <3>2, <3>3, TableFields
        <5>. QED
          BY <3>3, <5>1, TailFront
      <4>. QED
        BY <1>1, <1>7, <1>8, <2>1, <3>2, <3>5, <4>1, <4>2, <4>3
    <3>. QED
      BY <3>1, <3>4, <3>5
  <2>2. CASE t.turn # t.me
    BY <1>1, <1>7, <1>8, <2>2 DEF HasKan
  <2>. QED
    BY <2>1, <2>2
<1>10. w \in BOOLEAN /\ (w <=> OwedAt(t2))
  <2>1. CASE t.turn = t.me
    <3>1. ~t2.offer
      BY <2>1 DEF HasKan
    <3>2. m2.call \notin {"chi", "pon"}
      BY <1>1 DEF OwnKans
    <3>. QED
      BY <1>1, <1>8, <2>1, <3>1, <3>2 DEF OwedAt
  <2>2. CASE t.turn # t.me
    BY <1>1, <1>8, <2>2 DEF OwedAt
  <2>. QED
    BY <2>1, <2>2
<1>11. PICK b2 : b2 = [b EXCEPT !.is_tsumo = FALSE, !.hand = h, !.window = w]
  OBVIOUS
<1>12. /\ b2 \in TenhouBridges /\ b2.hand = t2.rack /\ b2.is_tsumo = FALSE /\ b2.window = w
       /\ b2.seat = b.seat /\ b2.players = b.players /\ b2.is_3p = b.is_3p
  BY <1>7, <1>9, <1>10, <1>11, TableFields DEF TenhouBridges
<1>13. TenhouGood(t2, b2)
  BY <1>1, <1>7, <1>10, <1>12 DEF TenhouGood
<1>14. PICK N : N = <<TenhouMeld(t2, m2)>>
  OBVIOUS
<1>15. Runs("tenhou", b, v1, r, N, b2, v2, r)
  <2>1. [Ev(m2.call, m2.seat) EXCEPT !.target = t.turn] = Ev(m2.call, m2.seat)
    <3>1. [Ev(m2.call, m2.seat) EXCEPT !.target = m2.seat] = Ev(m2.call, m2.seat)
      BY OwnTarget
    <3>. QED
      BY <1>1, <3>1
  <2>2. Becomes("tenhou", b, TenhouMeld(t2, m2), b2, <<Ev(m2.call, m2.seat)>>)
    BY <1>8, <1>11, <2>1
  <2>. QED
    BY <1>5, <1>14, <2>2, RunsFrame
<1>16. PICK v3 : /\ Runs("tenhou", b2, v2, r, B, b2, v3, r) /\ Hand(t2, None, v3, r) /\ v3.dora = t2.shown
  <2>1. CASE m2.call = "ankan"
    <3>1. t2.shown = t.shown + 1
      BY <2>1 DEF HasKan
    <3>2. t.shown <= t2.shown
      BY <1>2, <3>1
    <3>3. PICK v3 : Runs("tenhou", b2, v2, r, B, b2, v3, r) /\ Hand(t2, None, v3, r) /\ v3.dora = v2.dora + (t2.shown - t.shown)
      <4>1. PICK v3 : TenhouShown(t, t2, b2, t2, None, v2, r, v3)
        BY <1>2, <1>5, <3>2, TenhouShows
      <4>. QED
        BY <1>3, <2>1, <4>1 DEF TenhouShown
    <3>4. v2.dora = t.shown
      BY <1>4, <1>5, <2>1
    <3>5. v3.dora = t2.shown
      BY <1>2, <3>3, <3>4
    <3>. QED
      BY <3>3, <3>5
  <2>2. CASE m2.call # "ankan"
    <3>1. Runs("tenhou", b2, v2, r, B, b2, v2, r)
      BY <1>3, <2>2, RunsNothing
    <3>2. v2.dora = t2.shown
      <4>1. CASE m2.call = "kita"
        BY <1>4, <1>5, <4>1
      <4>2. CASE m2.call = "kakan"
        <5>1. t2.shown = t.shown
          BY <4>2 DEF HasKan
        <5>. QED
          BY <1>4, <1>5, <4>2, <5>1
      <4>. QED
        BY <1>1, <2>2, <4>1, <4>2 DEF OwnKans
    <3>. QED
      BY <1>5, <3>1, <3>2
  <2>. QED
    BY <2>1, <2>2
<1>17. Tenhou!Frames(t, t2, m2) = (A \o N) \o B
  <2>1. Tenhou!Passed(t2, m2) = <<>>
    BY <1>1 DEF Tenhou!Passed, None, Tenhou!Nobody
  <2>2. Tenhou!Frames(t, t2, m2) = ((<<>> \o A) \o N) \o B
    BY <1>1, <1>3, <1>14, <2>1 DEF Tenhou!Frames, TenhouMeld, Tenhou!Nobody, Nobody
  <2>3. IsSeq(A)
    BY <1>4 DEF Runs
  <2>4. <<>> \o A = A
    BY <2>3, NothingElse
  <2>. QED
    BY <2>2, <2>4
<1>18. Runs("tenhou", b, v, r, A \o N, b2, v2, r)
  BY <1>4, <1>15, RunsBoth
<1>19. Runs("tenhou", b, v, r, Tenhou!Frames(t, t2, m2), b2, v3, r)
  BY <1>16, <1>17, <1>18, RunsBoth
<1>. QED
  BY <1>1, <1>13, <1>16, <1>19

(* ------ the history's last scores ---------------------------------------- *)

LEMMA SameSize ==
  ASSUME NEW S
  PROVE  Scores!Cardinality(S) = Cardinality(S)
BY DEF Scores!Cardinality, Cardinality

(* The sum the history takes, seat by seat.                                  *)
LEMMA SumIs ==
  ASSUME NEW n, n \in 3..4, NEW sc, sc \in [0..(n - 1) -> Int]
  PROVE  Cardinality(DOMAIN sc) = n /\ Scores!Sum(sc) = Points(n, sc)
<1>1. Cardinality(DOMAIN sc) = n
  <2>1. DOMAIN sc = 0..(n - 1) /\ 0 \in Int /\ n - 1 \in Int /\ 0 <= n - 1
    OBVIOUS
  <2>2. PICK m : m = n - 1
    OBVIOUS
  <2>3. Cardinality(0..m) = m - 0 + 1
    <3>1. m \in Int /\ ~(0 > m)
      BY <2>2
    <3>2. Cardinality(0..m) = IF 0 > m THEN 0 ELSE m - 0 + 1
      BY <3>1, FS_Interval
    <3>. QED
      BY <3>1, <3>2
  <2>. QED
    BY <2>1, <2>2, <2>3
<1> DEFINE G(h) == [k \in 0..n |-> IF k = 0 THEN 0 ELSE h[k - 1] + sc[k - 1]]
           one == sc[0]
           two == sc[0] + sc[1]
           three == sc[0] + sc[1] + sc[2]
           w == [k \in 0..n |-> CASE k = 0 -> 0 [] k = 1 -> one [] k = 2 -> two [] k = 3 -> three [] OTHER -> three + sc[3]]
           upto == CHOOSE h : h = G(h)
<1>2. sc[0] \in Int /\ sc[1] \in Int /\ sc[2] \in Int /\ (n = 4 => sc[3] \in Int)
  OBVIOUS
<1>3. w = G(w)
  <2>1. ASSUME NEW k \in 0..n PROVE w[k] = G(w)[k]
    <3>1. w[0] = 0 /\ w[1] = one /\ w[2] = two /\ w[3] = three /\ (n = 4 => w[4] = three + sc[3])
      BY <1>2
    <3>2. CASE k = 0
      BY <3>1, <3>2
    <3>3. CASE k = 1
      BY <1>2, <3>1, <3>3
    <3>4. CASE k = 2
      BY <1>2, <3>1, <3>4
    <3>5. CASE k = 3
      BY <1>2, <3>1, <3>5
    <3>6. CASE k = 4 /\ n = 4
      BY <1>2, <3>1, <3>6
    <3>. QED
      BY <3>2, <3>3, <3>4, <3>5, <3>6
  <2>. QED
    BY <2>1
<1>4. upto = G(upto)
  <2> HIDE DEF w, G
  <2>. QED
    BY <1>3
<1>5. /\ upto[0] = 0 /\ upto[1] = upto[0] + sc[0] /\ upto[2] = upto[1] + sc[1]
      /\ upto[3] = upto[2] + sc[2]
      /\ n = 4 => upto[4] = upto[3] + sc[3]
  <2> HIDE DEF upto
  <2>1. \A k \in 0..n : upto[k] = IF k = 0 THEN 0 ELSE upto[k - 1] + sc[k - 1]
    BY <1>4
  <2>. QED
    BY <2>1
<1>6. upto[n] = Points(n, sc)
  <2> HIDE DEF upto
  <2>. QED
    BY <1>2, <1>5 DEF Points
<1>7. Scores!Sum(sc) = upto[n]
  <2>1. Scores!Cardinality(DOMAIN sc) = n
    BY <1>1, SameSize
  <2>. QED
    BY <2>1 DEF Scores!Sum
<1>. QED
  BY <1>1, <1>6, <1>7

LEMMA TopIs ==
  ASSUME NEW n, n \in 3..4, NEW sc, sc \in [0..(n - 1) -> Int], NEW a, IsLeader(n, sc, a)
  PROVE  Scores!Top(sc) = a
<1>1. DOMAIN sc = 0..(n - 1) /\ a \in 0..(n - 1) /\ \A c \in 0..(n - 1) : sc[c] \in Int
  BY DEF IsLeader
<1>2. PICK S : S = {x \in DOMAIN sc : \A y \in DOMAIN sc : sc[x] >= sc[y]}
  OBVIOUS
<1>3. a \in S
  BY <1>1, <1>2 DEF IsLeader
<1>4. \A y \in S : a <= y /\ y \in Int /\ a \in Int
  BY <1>1, <1>2 DEF IsLeader
<1>5. Scores!Top(sc) = CHOOSE x \in S : \A y \in S : x <= y
  BY <1>2 DEF Scores!Top, Scores!Min
<1>. QED
  BY <1>3, <1>4, <1>5

ToppedUp(sc, a, s) == [sc EXCEPT ![a] = @ + s]
Lacks(n, sc, s) == s \in Nat /\ Points(n, sc) + s = FullScore(n)

(* The leader is topped up to the fixed total.                               *)
LEMMA TopUp ==
  ASSUME NEW n, n \in 3..4, NEW sc, sc \in [0..(n - 1) -> Int], NEW a, IsLeader(n, sc, a),
         NEW s, Lacks(n, sc, s)
  PROVE  Scores!final_scores(sc, <<>>) = ToppedUp(sc, a, s)
<1>0. s \in Nat /\ Points(n, sc) + s = FullScore(n)
  BY DEF Lacks
<1>1. Cardinality(DOMAIN sc) = n /\ Scores!Sum(sc) = Points(n, sc) /\ Scores!Top(sc) = a
  BY SumIs, TopIs
<1>2. PICK p, f : p = Points(n, sc) /\ f = FullScore(n)
  OBVIOUS
<1>3. p \in Int /\ f \in Int
  <2>1. a \in 0..(n - 1) /\ 0 \in Int
    BY DEF IsLeader
  <2>. QED
    BY <1>2, <2>1, PointsOf
<1>4. a \in 0..(n - 1) /\ sc[a] \in Int
  BY DEF IsLeader
<1>5. /\ p < f => Scores!final_scores(sc, <<>>) = [sc EXCEPT ![a] = sc[a] + (f - p)]
      /\ ~(p < f) => Scores!final_scores(sc, <<>>) = sc
  <2>1. Scores!Cardinality(DOMAIN sc) = n
    BY <1>1, SameSize
  <2>2. PICK q, top, u : q = Scores!Sum(sc) /\ top = Scores!Top(sc) /\ u = FullScore(Scores!Cardinality(DOMAIN sc))
    OBVIOUS
  <2>3. q = p /\ top = a /\ u = f
    BY <1>1, <1>2, <2>1, <2>2
  <2>4. Scores!final_scores(sc, <<>>) = IF q < u THEN [sc EXCEPT ![top] = sc[top] + (u - q)] ELSE sc
    <3>1. PICK A : A = (IF Scores!Sum(sc) < FullScore(Scores!Cardinality(DOMAIN sc))
                        THEN [sc EXCEPT ![Scores!Top(sc)] = @ + FullScore(Scores!Cardinality(DOMAIN sc)) - Scores!Sum(sc)]
                        ELSE sc)
      BY Zenon
    <3>2. Scores!final_scores(sc, <<>>) = IF <<>> # <<>> THEN <<>> ELSE A
      BY <3>1, Zenon DEF Scores!final_scores
    <3>3. Scores!final_scores(sc, <<>>) = A
      BY <3>2
    <3>4. A = (IF q < u THEN [sc EXCEPT ![top] = sc[top] + (u - q)] ELSE sc)
      BY <2>2, <3>1
    <3>. QED
      BY <3>3, <3>4, Zenon
  <2>. QED
    BY <2>3, <2>4
<1>6. CASE p < f
  <2>1. sc[a] + (f - p) = sc[a] + s
    BY <1>0, <1>2, <1>3, <1>4
  <2>2. [sc EXCEPT ![a] = sc[a] + (f - p)] = [sc EXCEPT ![a] = sc[a] + s]
    BY <2>1
  <2>. QED
    BY <1>5, <1>6, <2>2 DEF ToppedUp
<1>7. CASE ~(p < f)
  <2>1. s = 0 /\ sc[a] + s = sc[a]
    BY <1>0, <1>2, <1>3, <1>4, <1>7
  <2>2. [sc EXCEPT ![a] = sc[a]] = sc
    OBVIOUS
  <2>. QED
    BY <1>5, <1>7, <2>1, <2>2 DEF ToppedUp
<1>. QED
  BY <1>6, <1>7

(* The points of the last hand, topped up, are the table's.                  *)
PaidLast(n, t, t2, total) ==
  n \in 3..4 /\ t.n = n /\ t.score \in [0..(n - 1) -> Int] /\ Paid(t, t2, total, TRUE)

LEMMA FinalIs ==
  ASSUME NEW n, NEW t, NEW t2, NEW total, PaidLast(n, t, t2, total)
  PROVE  Scores!final_scores(Summed(n, t.score, total), <<>>) = t2.score
<1>. n \in 3..4 /\ t.n = n /\ t.score \in [0..(n - 1) -> Int] /\ Paid(t, t2, total, TRUE)
  BY DEF PaidLast
<1>0. PICK paid : paid = Summed(n, t.score, total)
  OBVIOUS
<1>1. paid = [x \in 0..(n - 1) |-> t.score[x] + total[x]]
  BY <1>0 DEF Summed
<1>2. total \in [0..(n - 1) -> Int]
  BY DEF Paid
<1>3. paid \in [0..(n - 1) -> Int]
  BY <1>1, <1>2
<1>4. PICK a, s : s \in Nat /\ IsLeader(n, paid, a) /\ Points(n, paid) + s = FullScore(n) /\ t2.score = [paid EXCEPT ![a] = @ + s]
  BY <1>1 DEF Paid
<1>5. Scores!final_scores(paid, <<>>) = ToppedUp(paid, a, s)
  <2>1. Lacks(n, paid, s)
    BY <1>4 DEF Lacks
  <2>. QED
    BY <1>3, <1>4, <2>1, TopUp
<1>. QED
  BY <1>0, <1>4, <1>5 DEF ToppedUp

(* ------ what holds once all is read -------------------------------------- *)

(* The two disagreements of the history's scores with the table's.           *)
TwiceAt(p, m) == p # "tenhou" /\ Len(m.winners) = 2
ChargedAt(p, m) == p = "riichi_city" /\ m.voided

(* What the reader knows, stage by stage.                                    *)
Playing(t, m, v, r) ==
  /\ Hand(t, t.pending, v, r)
  /\ m.kind = "discard" => v.floor = m.seat /\ v.dora = t.shown /\ v.giri = m.giri

Between(p, t, m, v, r) ==
  /\ Waiting(t, v, r)
  /\ m.kind = "win" /\ v.phase = "ended" => v.target = m.from \/ (p = "riichi_city" /\ m.call # "none")
  /\ v.phase = "ended" => r.running = t.score \/ TwiceAt(p, m) \/ ChargedAt(p, m)

Over(p, t, m, v, r) ==
  /\ v = NoView
  /\ m.final => r.final = t.score \/ (p = "riichi_city" /\ (TwiceAt(p, m) \/ ChargedAt(p, m)))

ViewGood(p, t, m, v, r) ==
  /\ t.stage \in {"act", "open"} => Playing(t, m, v, r)
  /\ t.stage = "seated" => IF p = "majsoul" /\ t.games > 0 THEN Waiting(t, v, r) ELSE v = NoView
  /\ t.stage = "between" => Between(p, t, m, v, r)
  /\ t.stage = "over" => Over(p, t, m, v, r)

(* Tenhou's reader knows the indicators at any time.                         *)
TenhouSeen(t, m, b, v, r) ==
  /\ TenhouGood(t, b) /\ ViewGood("tenhou", t, m, v, r)
  /\ t.stage \in {"act", "open"} => v.dora = t.shown

LEMMA SeatBack ==
  ASSUME NEW me, me \in 0..3
  PROVE  (4 - ((0 + 4 - me) % 4)) % 4 = me
OBVIOUS

(* A game begins: the bridge learns our seat.                                *)
LEMMA TenhouSeats ==
  ASSUME NEW t2, TableOK(t2), NEW t, NEW m2, m2.kind = "sit", NEW b, b \in TenhouBridges, ~b.window,
         NEW v, NEW r
  PROVE  \E b2 : /\ Runs("tenhou", b, v, r, Tenhou!Frames(t, t2, m2), b2, v, r)
                 /\ b2 \in TenhouBridges /\ ~b2.window /\ b2.seat = t2.me /\ b2.pending_start
                 /\ b2.players = 4 /\ ~b2.is_3p
<1>1. PICK me : me = t2.me
  OBVIOUS
<1>2. me \in 0..3
  BY <1>1, SeatSpan, TableFields
<1>3. PICK f : f = [tag |-> "TAIKYOKU", oya |-> Tenhou!Rel(t2, 0)]
  OBVIOUS
<1>4. Tenhou!Frames(t, t2, m2) = <<f>>
  BY <1>3 DEF Tenhou!Frames
<1>5. f.tag = "TAIKYOKU" /\ f.oya = (0 + 4 - me) % 4
  BY <1>1, <1>3 DEF Tenhou!Rel
<1>6. (4 - f.oya) % 4 = me
  BY <1>2, <1>5, SeatBack
<1>7. PICK b2 : b2 = [b EXCEPT !.players = 4, !.is_3p = FALSE, !.seat = me, !.pending_start = TRUE]
  OBVIOUS
<1>8. ParseOf("tenhou", b, f) = [bridge |-> b2, events |-> <<>>]
  <2>1. ParseOf("tenhou", b, f) = Tenhou!on_taikyoku(b, f)
    BY <1>5 DEF ParseOf, Tenhou!Parse
  <2>2. Tenhou!on_taikyoku(b, f) = [bridge |-> [b EXCEPT !.players = 4, !.is_3p = FALSE, !.seat = (4 - f.oya) % 4, !.pending_start = TRUE],
                                    events |-> <<>>]
    BY Zenon DEF Tenhou!on_taikyoku, Tenhou!Silent, Tenhou!Out
  <2>. QED
    BY <1>6, <1>7, <2>1, <2>2
<1>9. Runs("tenhou", b, v, r, <<f>>, b2, v, r)
  <2>1. Becomes("tenhou", b, f, b2, <<>>)
    BY <1>8 DEF Becomes
  <2>2. Plays(v, r, <<>>, v, r)
    BY PlaysNothing
  <2>. QED
    BY <2>1, <2>2, RunsFrame
<1>10. /\ b2 \in TenhouBridges /\ ~b2.window /\ b2.seat = me /\ b2.pending_start /\ b2.players = 4
       /\ ~b2.is_3p
  <2>1. b2.window = b.window /\ b2.seat = me /\ b2.pending_start = TRUE /\ b2.players = 4 /\ b2.is_3p = FALSE
    BY <1>7 DEF TenhouBridges
  <2>2. b2 \in TenhouBridges
    <3>1. PICK n : n = 4
      OBVIOUS
    <3>2. n \in 3..4
      BY <3>1
    <3>3. b2 = [b EXCEPT !.players = n, !.is_3p = FALSE, !.seat = me, !.pending_start = TRUE]
      BY <1>7, <3>1
    <3>. QED
      BY <1>2, <3>2, <3>3 DEF TenhouBridges
  <2>. QED
    BY <2>1, <2>2
<1>. QED
  BY <1>1, <1>4, <1>9, <1>10

LEMMA TenhouSits ==
  ASSUME NEW t, NEW t2, NEW m, NEW m2, TableOK(t), TableOK(t2), HasSat(t, t2, m2), NEW b, NEW v,
         NEW r, TenhouSeen(t, m, b, v, r)
  PROVE  \E b2 : Runs("tenhou", b, v, r, Tenhou!Frames(t, t2, m2), b2, v, r) /\ TenhouSeen(t2, m2, b2, v, r)
<1>1. /\ t.games = 0 \/ t.stage = "over"
      /\ t2.stage = "seated" /\ ~t2.offer /\ m2.kind = "sit" /\ t2.games = t.games + 1
      /\ t.games \in Nat
  BY TableFields DEF HasSat
<1>2. t.stage = "seated" \/ t.stage = "over"
  BY <1>1, TableFields DEF TableOK, Stage, Stages
<1>3. v = NoView
  BY <1>2 DEF TenhouSeen, ViewGood, Over
<1>4. b \in TenhouBridges /\ ~b.window
  BY <1>2 DEF TenhouSeen, TenhouGood, OwedAt
<1>5. PICK b2 : /\ Runs("tenhou", b, v, r, Tenhou!Frames(t, t2, m2), b2, v, r)
                /\ b2 \in TenhouBridges /\ ~b2.window /\ b2.seat = t2.me /\ b2.pending_start
                /\ b2.players = 4 /\ ~b2.is_3p
  BY <1>1, <1>4, TenhouSeats
<1>6. TenhouGood(t2, b2)
  BY <1>1, <1>5 DEF TenhouGood, OwedAt
<1>7. ViewGood("tenhou", t2, m2, v, r)
  BY <1>1, <1>3 DEF ViewGood
<1>. QED
  BY <1>1, <1>5, <1>6, <1>7 DEF TenhouSeen

(* The client joins again between two hands of a game of four.               *)
LEMMA TenhouRejoining ==
  ASSUME NEW t, TableOK(t), NEW m, t.stage = "between", t.n = 4, NEW b, NEW v, NEW r,
         TenhouSeen(t, m, b, v, r)
  PROVE  \E b2 : Runs("tenhou", Tenhou!Fresh, v, r, Tenhou!Frames(t, t, Mv("sit", 0)), b2, v, r) /\ TenhouSeen(t, m, b2, v, r)
<1>1. Tenhou!Fresh \in TenhouBridges /\ ~Tenhou!Fresh.window
  <2>1. <<>> \in Seq(Nat)
    OBVIOUS
  <2>. QED
    BY <2>1 DEF Tenhou!Fresh, TenhouBridges
<1>2. PICK m2 : m2 = Mv("sit", 0)
  OBVIOUS
<1>3. m2.kind = "sit"
  BY <1>2 DEF Mv, NoMove
<1>4. PICK b2 : /\ Runs("tenhou", Tenhou!Fresh, v, r, Tenhou!Frames(t, t, m2), b2, v, r)
                /\ b2 \in TenhouBridges /\ ~b2.window /\ b2.seat = t.me /\ b2.pending_start
                /\ b2.players = 4 /\ ~b2.is_3p
  BY <1>1, <1>3, TenhouSeats
<1>5. TenhouGood(t, b2)
  BY <1>4 DEF TenhouGood, OwedAt, TableOK, Stage
<1>. QED
  BY <1>2, <1>4, <1>5 DEF TenhouSeen

(* The scores and changes a frame tells are the ones of the table.           *)
LEMMA TenhouBySeat ==
  ASSUME NEW t, TableOK(t), NEW d, d \in [0..(t.n - 1) -> Int], NEW b, b.seat = t.me,
         b.players = t.n
  PROVE  Tenhou!by_seat(b, Tenhou!Four(t, d)) = d
<1>1. PICK me, n : me = t.me /\ n = t.n
  OBVIOUS
<1>2. me \in 0..3 /\ n \in 3..4
  BY <1>1, SeatSpan, TableFields
<1>3. PICK f : f = Tenhou!Four(t, d)
  OBVIOUS
<1>4. \A x \in 0..3 : f[x] = IF (x + me) % 4 \in 0..(n - 1) THEN d[(x + me) % 4] ELSE 0
  BY <1>1, <1>3 DEF Tenhou!Four
<1>5. \A a \in 0..(n - 1) : (a + 4 - me) % 4 \in 0..3 /\ (((a + 4 - me) % 4) + me) % 4 = a
  BY <1>2
<1>6. \A a \in 0..(n - 1) : f[(a + 4 - me) % 4] = d[a]
  BY <1>4, <1>5
<1>7. Tenhou!by_seat(b, f) = [a \in 0..(n - 1) |-> f[(a + 4 - me) % 4]]
  BY <1>1 DEF Tenhou!by_seat
<1>8. d \in [0..(n - 1) -> Int]
  BY <1>1
<1>. QED
  BY <1>3, <1>6, <1>7, <1>8

(* Only a sanma game has a seat without points at its first hand.            *)
LEMMA TenhouGhost ==
  ASSUME NEW t, TableOK(t)
  PROVE  /\ t.n = 3 => \E x \in 0..3 : Tenhou!Four(t, t.score)[x] = 0
         /\ t.n = 4 /\ t.score = [a \in 0..(t.n - 1) |-> StartScore(t.n)] => \A x \in 0..3 : Tenhou!Four(t, t.score)[x] # 0
<1>1. PICK me, n : me = t.me /\ n = t.n
  OBVIOUS
<1>2. me \in 0..3 /\ n \in 3..4
  BY <1>1, SeatSpan, TableFields
<1>3. PICK f : f = Tenhou!Four(t, t.score)
  OBVIOUS
<1>4. \A x \in 0..3 : f[x] = IF (x + me) % 4 \in 0..(n - 1) THEN t.score[(x + me) % 4] ELSE 0
  BY <1>1, <1>3 DEF Tenhou!Four
<1>5. ASSUME n = 3 PROVE \E x \in 0..3 : f[x] = 0
  <2>1. PICK x : x = (3 + 4 - me) % 4
    OBVIOUS
  <2>2. x \in 0..3 /\ (x + me) % 4 = 3
    BY <1>2, <2>1
  <2>. QED
    BY <1>4, <1>5, <2>2
<1>6. ASSUME n = 4, t.score = [a \in 0..(t.n - 1) |-> StartScore(t.n)] PROVE \A x \in 0..3 : f[x] # 0
  <2>. TAKE x \in 0..3
  <2>1. (x + me) % 4 \in 0..(n - 1)
    BY <1>2, <1>6
  <2>2. StartScore(n) = 25
    BY <1>6 DEF StartScore
  <2>3. f[x] = 25
    <3>1. PICK y, sc : y = (x + me) % 4 /\ sc = t.score
      OBVIOUS
    <3>2. sc = [a \in 0..(n - 1) |-> 25]
      BY <1>1, <1>6, <2>2, <3>1
    <3>3. y \in 0..(n - 1) /\ f[x] = IF y \in 0..(n - 1) THEN sc[y] ELSE 0
      BY <1>4, <2>1, <3>1
    <3>. QED
      BY <3>2, <3>3
  <2>. QED
    BY <2>3
<1>. QED
  BY <1>1, <1>3, <1>5, <1>6

LEMMA PairIs ==
  ASSUME NEW x, NEW y
  PROVE  <<x, y>> = <<x>> \o <<y>>
<1>1. PICK s : s = <<x, y>>
  OBVIOUS
<1>2. s \in Seq({x, y}) /\ Len(s) = 2 /\ s[1] = x /\ s[2] = y
  BY <1>1
<1>3. IsSeq(s)
  BY <1>2 DEF IsSeq
<1>. QED
  BY <1>1, <1>2, <1>3, OneOrTwo

TenhouInit(t2) ==
  [tag |-> "INIT", opening |-> t2.hands = 1, ten |-> Tenhou!Four(t2, t2.score), oya |-> Tenhou!Rel(t2, t2.oya),
   hai |-> SubSeq(t2.rack, 1, 13)]

(* Before the first tsumo.                                                   *)
TenhouDealt(t2, c) ==
  /\ c \in TenhouBridges /\ c.seat = t2.me /\ c.players = t2.n /\ (c.is_3p <=> t2.n = 3)
  /\ c.window = FALSE /\ c.is_tsumo = FALSE /\ c.hand = SubSeq(t2.rack, 1, 13)

LEMMA TenhouKnowsPlayers ==
  ASSUME NEW t, NEW t2, NEW m2, TableOK(t), TableOK(t2), HasDealt(t, t2, m2), NEW b,
         TenhouGood(t, b),
         NEW sanma, sanma \in BOOLEAN, sanma <=> t2.hands = 1 /\ \E x \in 0..3 : Tenhou!Four(t2, t2.score)[x] = 0
  PROVE  ((b.is_3p \/ sanma) <=> t2.n = 3) /\ (IF sanma THEN 3 ELSE b.players) = t2.n
<1>1. /\ t2.n = t.n /\ t.stage \in {"seated", "between"} /\ t.games > 0 /\ t2.hands = t.hands + 1
      /\ t2.score = t.score
      /\ t.hands \in Nat /\ t.n \in 3..4
  BY TableFields DEF HasDealt, SameGame
<1>2. CASE t.stage = "seated"
  <2>1. t.hands = 0 /\ t2.hands = 1
    BY <1>1, <1>2 DEF TableOK, Stage
  <2>2. t2.score = [a \in 0..(t2.n - 1) |-> StartScore(t2.n)]
    BY <1>1, <2>1 DEF TableOK, Score
  <2>3. b.is_3p = FALSE /\ b.players = 4
    BY <1>1, <1>2 DEF TenhouGood, TenhouBridges
  <2>4. CASE t2.n = 3
    <3>1. sanma
      BY <2>1, <2>4, TenhouGhost
    <3>. QED
      BY <2>4, <3>1
  <2>5. CASE t2.n = 4
    <3>1. ~sanma
      BY <2>1, <2>2, <2>5, TenhouGhost
    <3>. QED
      BY <2>3, <2>5, <3>1
  <2>. QED
    BY <1>1, <2>4, <2>5
<1>3. CASE t.stage = "between"
  <2>1. t.hands > 0 /\ t2.hands # 1
    BY <1>1, <1>3 DEF TableOK, Stage
  <2>2. ~sanma
    BY <2>1
  <2>. QED
    BY <1>1, <1>3, <2>2 DEF TenhouGood
<1>. QED
  BY <1>1, <1>2, <1>3

(* The dealt hand: thirteen tiles, and the dealer's fourteenth by a draw.    *)
LEMMA DealtRack ==
  ASSUME NEW k, k \in {13, 14}, NEW r, r = [i \in 1..k |-> i]
  PROVE  /\ r \in Seq(Nat) /\ Len(r) = k /\ SubSeq(r, 1, 13) \in Seq(Nat)
         /\ k = 13 => SubSeq(r, 1, 13) = r
         /\ k = 14 => Last(r) = 14 /\ Append(SubSeq(r, 1, 13), 14) = r
<1>1. r \in Seq(Nat) /\ Len(r) = k /\ \A i \in 1..k : r[i] = i
  OBVIOUS
<1>2. PICK s : s = SubSeq(r, 1, 13)
  OBVIOUS
<1>3. s \in Seq(Nat) /\ Len(s) = 13 /\ \A i \in 1..13 : s[i] = i
  BY <1>1, <1>2
<1>4. ASSUME k = 13 PROVE s = r
  BY <1>1, <1>3, <1>4
<1>5. ASSUME k = 14 PROVE Last(r) = 14 /\ Append(s, 14) = r
  <2>1. Last(r) = 14
    BY <1>1, <1>5 DEF Last
  <2>2. PICK z : z = Append(s, 14)
    OBVIOUS
  <2>3. z \in Seq(Nat) /\ Len(z) = 14 /\ (\A i \in 1..13 : z[i] = s[i]) /\ z[14] = 14
    <3>1. PICK x : x = 14
      OBVIOUS
    <3>2. x \in Nat /\ z = Append(s, x)
      BY <2>2, <3>1
    <3>3. z \in Seq(Nat) /\ Len(z) = 14 /\ (\A i \in 1..13 : z[i] = s[i]) /\ z[14] = x
      <4>1. PICK n : n = Len(s)
        OBVIOUS
      <4>2. n = 13 /\ n \in Nat /\ n + 1 = 14
        BY <1>3, <4>1
      <4>3. Append(s, x) \in Seq(Nat) /\ Len(Append(s, x)) = n + 1
            /\ (\A i \in 1..n : Append(s, x)[i] = s[i]) /\ Append(s, x)[n + 1] = x
        <5>1. s \in Seq(Nat)
          BY <1>3
        <5>2. n \in Nat /\ Len(s) = n
          BY <4>1, <4>2
        <5>3. x \in Nat
          BY <3>2
        <5>. QED
          BY <5>1, <5>2, <5>3
      <4>. QED
        BY <3>2, <4>2, <4>3
    <3>. QED
      BY <3>1, <3>3
  <2>4. \A i \in 1..14 : z[i] = r[i]
    <3>. TAKE i \in 1..14
    <3>1. CASE i = 14
      BY <1>1, <1>5, <2>3, <3>1
    <3>2. CASE i # 14
      <4>1. i \in 1..13
        BY <3>2
      <4>. QED
        BY <1>1, <1>3, <1>5, <2>3, <4>1
    <3>. QED
      BY <3>1, <3>2
  <2>5. z = r
    BY <1>1, <1>5, <2>3, <2>4
  <2>. QED
    BY <2>1, <2>2, <2>5
<1>. QED
  BY <1>1, <1>2, <1>3, <1>4, <1>5

TenhouSanma(f) == f.opening /\ \E r \in 0..3 : f.ten[r] = 0
TenhouStarted(b, f) ==
  [Tenhou!reset_for_kyoku(b) EXCEPT !.is_3p = @ \/ TenhouSanma(f), !.players = IF TenhouSanma(f) THEN 3 ELSE @,
                                    !.hand = f.hai, !.pending_start = FALSE]
TenhouKyoku(c, f) ==
  [Tenhou!Ev("start_kyoku", Tenhou!rel_to_abs(c, f.oya)) EXCEPT !.players = c.players, !.scores = Tenhou!by_seat(c, f.ten)]
TenhouGame(c) == [Tenhou!Ev("start_game", c.seat) EXCEPT !.players = c.players]

LEMMA TenhouOnInit ==
  ASSUME NEW b, NEW f
  PROVE  Tenhou!on_init(b, f) =
           [bridge |-> TenhouStarted(b, f),
            events |-> IF b.pending_start THEN <<TenhouGame(TenhouStarted(b, f)), TenhouKyoku(TenhouStarted(b, f), f)>>
                       ELSE <<TenhouKyoku(TenhouStarted(b, f), f)>>]
BY Zenon DEF Tenhou!on_init, Tenhou!Out, TenhouStarted, TenhouSanma, TenhouKyoku, TenhouGame

LEMMA TenhouStarts ==
  ASSUME NEW t, NEW t2, NEW m, NEW m2, TableOK(t), TableOK(t2), HasDealt(t, t2, m2), NEW b, NEW v,
         NEW r, TenhouSeen(t, m, b, v, r)
  PROVE  \E c, v1, r1 : /\ Runs("tenhou", b, v, r, <<TenhouInit(t2)>>, c, v1, r1)
                        /\ TenhouDealt(t2, c) /\ Dealing(t2, v1, r1)
<1>1. /\ t2.n = t.n /\ t2.me = t.me /\ t.stage \in {"seated", "between"} /\ t.games > 0
      /\ t2.score = t.score
      /\ t2.n \in 3..4 /\ t2.oya \in 0..(t2.n - 1) /\ t.score \in [0..(t2.n - 1) -> Int]
      /\ t2.rack \in Seq(Nat)
  BY TableFields DEF HasDealt, SameGame, TableOK
<1>2. TenhouGood(t, b) /\ b \in TenhouBridges /\ b.seat = t.me
  BY <1>1 DEF TenhouSeen, TenhouGood
<1>3. PICK f : f = TenhouInit(t2)
  OBVIOUS
<1>4. /\ f.tag = "INIT" /\ f.opening = (t2.hands = 1) /\ f.ten = Tenhou!Four(t2, t2.score)
      /\ f.oya = Tenhou!Rel(t2, t2.oya)
      /\ f.hai = SubSeq(t2.rack, 1, 13)
  BY <1>3 DEF TenhouInit
<1>5. PICK sanma : sanma = TenhouSanma(f)
  OBVIOUS
<1>6. sanma \in BOOLEAN /\ (sanma <=> t2.hands = 1 /\ \E x \in 0..3 : Tenhou!Four(t2, t2.score)[x] = 0)
  BY <1>4, <1>5 DEF TenhouSanma
<1>7. ((b.is_3p \/ sanma) <=> t2.n = 3) /\ (IF sanma THEN 3 ELSE b.players) = t2.n
  BY <1>2, <1>6, TenhouKnowsPlayers
<1>8. PICK c : c = [Tenhou!reset_for_kyoku(b) EXCEPT !.is_3p = @ \/ sanma, !.players = IF sanma THEN 3 ELSE @,
                                                     !.hand = f.hai, !.pending_start = FALSE]
                /\ c = TenhouStarted(b, f)
  BY <1>5, Zenon DEF TenhouStarted
<1>9. TenhouDealt(t2, c)
  <2>1. PICK x, y, h : x = (b.is_3p \/ sanma) /\ y = (IF sanma THEN 3 ELSE b.players) /\ h = f.hai
    BY Zenon
  <2>2. c = [b EXCEPT !.is_3p = x, !.players = y, !.hand = h, !.pending_start = FALSE, !.is_tsumo = FALSE, !.window = FALSE]
    BY <1>2, <1>8, <2>1 DEF Tenhou!reset_for_kyoku, TenhouBridges
  <2>3. x \in BOOLEAN /\ y \in 3..4 /\ h \in Seq(Nat) /\ y = t2.n /\ (x <=> t2.n = 3)
    <3>1. SubSeq(t2.rack, 1, 13) \in Seq(Nat)
      <4>1. PICK k, rack : k = (IF t2.oya = t.me THEN 14 ELSE 13) /\ rack = [i \in 1..k |-> i]
        BY Zenon
      <4>2. t2.rack = rack
        BY <4>1 DEF HasDealt
      <4>3. k \in {13, 14}
        BY <4>1
      <4>4. SubSeq(rack, 1, 13) \in Seq(Nat)
        BY <4>1, <4>3, DealtRack
      <4>. QED
        BY <4>2, <4>4
    <3>2. x \in BOOLEAN
      BY <2>1
    <3>. QED
      BY <1>1, <1>4, <1>7, <2>1, <3>1, <3>2
  <2>4. c \in TenhouBridges
    BY <1>2, <2>2, <2>3 DEF TenhouBridges
  <2>5. c.seat = b.seat /\ c.players = y /\ c.is_3p = x /\ c.window = FALSE /\ c.is_tsumo = FALSE /\ c.hand = h
    BY <1>2, <2>2 DEF TenhouBridges
  <2>. QED
    BY <1>1, <1>2, <1>4, <2>1, <2>3, <2>4, <2>5 DEF TenhouDealt
<1>10. PICK kyoku, game : /\ kyoku = [Tenhou!Ev("start_kyoku", Tenhou!rel_to_abs(c, f.oya)) EXCEPT !.players = c.players, !.scores = Tenhou!by_seat(c, f.ten)]
                          /\ game = [Tenhou!Ev("start_game", c.seat) EXCEPT !.players = c.players]
                          /\ kyoku = TenhouKyoku(c, f) /\ game = TenhouGame(c)
  BY Zenon DEF TenhouKyoku, TenhouGame
<1>11. ParseOf("tenhou", b, f) = [bridge |-> c, events |-> IF b.pending_start THEN <<game, kyoku>> ELSE <<kyoku>>]
  <2>1. ParseOf("tenhou", b, f) = Tenhou!on_init(b, f)
    BY <1>4 DEF ParseOf, Tenhou!Parse
  <2>2. Tenhou!on_init(b, f) = [bridge |-> c, events |-> IF b.pending_start THEN <<game, kyoku>> ELSE <<kyoku>>]
    BY <1>8, <1>10, TenhouOnInit
  <2>. QED
    BY <2>1, <2>2
<1>12. game = [Ev("start_game", t.me) EXCEPT !.players = t.n]
  <2>1. c.seat = t.me /\ c.players = t.n
    BY <1>1, <1>9 DEF TenhouDealt
  <2>. QED
    BY <1>10, <2>1, TenhouEv
<1>13. kyoku = [Ev("start_kyoku", t2.oya) EXCEPT !.players = t.n, !.scores = t.score]
  <2>1. c.seat = t2.me /\ c.players = t2.n
    BY <1>9 DEF TenhouDealt
  <2>2. Tenhou!rel_to_abs(c, f.oya) = t2.oya
    <3>1. t2.oya \in 0..(t2.n - 1)
      BY <1>1
    <3>2. Tenhou!rel_to_abs(c, Tenhou!Rel(t2, t2.oya)) = t2.oya
      BY <2>1, <3>1, TenhouSeat
    <3>. QED
      BY <1>4, <3>2
  <2>3. Tenhou!by_seat(c, f.ten) = t.score
    <3>1. t2.score \in [0..(t2.n - 1) -> Int]
      BY <1>1
    <3>2. Tenhou!by_seat(c, Tenhou!Four(t2, t2.score)) = t2.score
      BY <2>1, <3>1, TenhouBySeat
    <3>. QED
      BY <1>1, <1>4, <3>2
  <2>4. Tenhou!Ev("start_kyoku", t2.oya) = Ev("start_kyoku", t2.oya)
    BY TenhouEv
  <2>. QED
    BY <1>1, <1>10, <2>1, <2>2, <2>3, <2>4
<1>14. CASE b.pending_start
  <2>1. PICK v1, r1 : Plays(v, r, <<game>>, v1, r1) /\ Waiting(t, v1, r1)
    BY <1>12, SeeStartGame
  <2>2. PICK v2, r2 : Plays(v1, r1, <<kyoku>>, v2, r2) /\ Dealing(t2, v2, r2)
    BY <1>13, <2>1, SeeStartKyoku
  <2>3. Plays(v, r, <<game, kyoku>>, v2, r2)
    BY <2>1, <2>2, PlaysBoth, PairIs
  <2>4. Becomes("tenhou", b, f, c, <<game, kyoku>>)
    BY <1>11, <1>14 DEF Becomes
  <2>5. Runs("tenhou", b, v, r, <<f>>, c, v2, r2)
    BY <2>3, <2>4, RunsFrame
  <2>. QED
    BY <1>3, <1>9, <2>2, <2>5
<1>15. CASE ~b.pending_start
  <2>1. Waiting(t, v, r)
    <3>1. t.stage = "between"
      BY <1>1, <1>2, <1>15 DEF TenhouGood
    <3>. QED
      BY <3>1 DEF TenhouSeen, ViewGood, Between
  <2>2. PICK v2, r2 : Plays(v, r, <<kyoku>>, v2, r2) /\ Dealing(t2, v2, r2)
    BY <1>13, <2>1, SeeStartKyoku
  <2>4. Becomes("tenhou", b, f, c, <<kyoku>>)
    BY <1>11, <1>15 DEF Becomes
  <2>5. Runs("tenhou", b, v, r, <<f>>, c, v2, r2)
    BY <2>2, <2>4, RunsFrame
  <2>. QED
    BY <1>3, <1>9, <2>2, <2>5
<1>. QED
  BY <1>14, <1>15

LEMMA TenhouDeals ==
  ASSUME NEW t, NEW t2, NEW m, NEW m2, TableOK(t), TableOK(t2), HasDealt(t, t2, m2), NEW b, NEW v,
         NEW r, TenhouSeen(t, m, b, v, r)
  PROVE  \E b2, v2, r2 : Runs("tenhou", b, v, r, Tenhou!Frames(t, t2, m2), b2, v2, r2) /\ TenhouSeen(t2, m2, b2, v2, r2)
<1>1. PICK c, v1, r1 : /\ Runs("tenhou", b, v, r, <<TenhouInit(t2)>>, c, v1, r1)
                       /\ TenhouDealt(t2, c) /\ Dealing(t2, v1, r1)
  BY TenhouStarts
<1>2. PICK v2 : Plays(v1, r1, <<Ev("tsumo", t2.turn)>>, v2, r1) /\ Hand(t2, None, v2, r1) /\ v2.dora = 1
  BY <1>1, SeeFirstTsumo
<1>3. /\ t2.stage = "act" /\ t2.turn \in 0..(t2.n - 1) /\ t2.pending = None /\ t2.offer = FALSE
      /\ t2.drew = TRUE /\ t2.shown = 1
      /\ m2.kind = "deal" /\ t2.games > 0 /\ t2.me = t.me /\ t2.turn = t2.oya
  BY TableFields DEF HasDealt, SameGame
<1>4. PICK a, f : a = t2.turn /\ f = Tenhou!DrawFrame(t2)
  OBVIOUS
<1>5. f.tag = "T" /\ f.who = Tenhou!Rel(t2, a) /\ f.tile = (IF a = t2.me THEN Last(t2.rack) ELSE 0)
  BY <1>4 DEF Tenhou!DrawFrame, Tenhou!Last, Last
<1>6. /\ c \in TenhouBridges /\ c.seat = t2.me /\ c.players = t2.n /\ (c.is_3p <=> t2.n = 3)
      /\ c.window = FALSE /\ c.is_tsumo = FALSE /\ c.hand = SubSeq(t2.rack, 1, 13)
  BY <1>1 DEF TenhouDealt
<1>7. ParseOf("tenhou", c, f) = Tenhou!on_tsumo(c, f, a)
  BY <1>3, <1>4, <1>5, <1>6, TenhouParse
<1>8. PICK b2 : b2 = Tenhou!on_tsumo(c, f, a).bridge
  OBVIOUS
<1>9. Becomes("tenhou", c, f, b2, <<Ev("tsumo", a)>>)
  <2>1. Tenhou!on_tsumo(c, f, a).events = <<Tenhou!Ev("tsumo", a)>>
    BY DEF Tenhou!on_tsumo, Tenhou!Out
  <2>. QED
    BY <1>7, <1>8, <2>1, TenhouEv DEF Becomes
<1>10. TenhouGood(t2, b2)
  <2>1. CASE a = t2.me
    <3>1. PICK k : k = 14
      OBVIOUS
    <3>2. t2.rack = [i \in 1..k |-> i]
      BY <1>3, <1>4, <2>1, <3>1 DEF HasDealt
    <3>3. Last(t2.rack) = 14 /\ Append(SubSeq(t2.rack, 1, 13), 14) = t2.rack /\ t2.rack \in Seq(Nat)
      <4>1. k \in {13, 14}
        BY <3>1
      <4>. QED
        BY <3>1, <3>2, <4>1, DealtRack
    <3>4. b2 = [c EXCEPT !.hand = t2.rack, !.is_tsumo = TRUE, !.window = TRUE]
      <4>1. f.tile = 14
        BY <1>5, <2>1, <3>3
      <4>2. b2 = [c EXCEPT !.hand = Append(c.hand, f.tile), !.is_tsumo = TRUE, !.window = TRUE]
        BY <1>6, <1>8, <2>1 DEF Tenhou!on_tsumo, Tenhou!Out
      <4>3. Append(c.hand, f.tile) = t2.rack
        BY <1>6, <3>3, <4>1
      <4>. QED
        BY <4>2, <4>3
    <3>5. /\ b2 \in TenhouBridges /\ b2.hand = t2.rack /\ b2.is_tsumo = TRUE /\ b2.window = TRUE
          /\ b2.seat = c.seat /\ b2.players = c.players /\ b2.is_3p = c.is_3p
      BY <1>6, <3>3, <3>4 DEF TenhouBridges
    <3>. QED
      BY <1>3, <1>4, <1>6, <2>1, <3>5 DEF TenhouGood, OwedAt
  <2>2. CASE a # t2.me
    <3>1. PICK k : k = 13
      OBVIOUS
    <3>2. t2.rack = [i \in 1..k |-> i]
      BY <1>3, <1>4, <2>2, <3>1 DEF HasDealt
    <3>3. SubSeq(t2.rack, 1, 13) = t2.rack /\ t2.rack \in Seq(Nat)
      <4>1. k \in {13, 14}
        BY <3>1
      <4>. QED
        BY <3>1, <3>2, <4>1, DealtRack
    <3>4. b2 = [c EXCEPT !.hand = t2.rack, !.is_tsumo = FALSE, !.window = FALSE]
      BY <1>5, <1>6, <1>8, <2>2, <3>3 DEF Tenhou!on_tsumo, Tenhou!Out
    <3>5. /\ b2 \in TenhouBridges /\ b2.hand = t2.rack /\ b2.is_tsumo = FALSE /\ b2.window = FALSE
          /\ b2.seat = c.seat /\ b2.players = c.players /\ b2.is_3p = c.is_3p
      BY <1>6, <3>3, <3>4 DEF TenhouBridges
    <3>. QED
      BY <1>3, <1>4, <1>6, <2>2, <3>5 DEF TenhouGood, OwedAt
  <2>. QED
    BY <2>1, <2>2
<1>11. Tenhou!Frames(t, t2, m2) = <<TenhouInit(t2)>> \o <<f>>
  <2>1. Tenhou!Frames(t, t2, m2) = <<TenhouInit(t2), f>>
    BY <1>3, <1>4 DEF Tenhou!Frames, TenhouInit
  <2>. QED
    BY <2>1, PairIs
<1>12. Runs("tenhou", c, v1, r1, <<f>>, b2, v2, r1)
  BY <1>2, <1>4, <1>9, RunsFrame
<1>13. Runs("tenhou", b, v, r, Tenhou!Frames(t, t2, m2), b2, v2, r1)
  BY <1>1, <1>11, <1>12, RunsBoth
<1>14. TenhouSeen(t2, m2, b2, v2, r1)
  BY <1>2, <1>3, <1>10 DEF TenhouSeen, ViewGood, Playing
<1>. QED
  BY <1>13, <1>14

(* The hand is over, and the game if it is the final one: sum are the points *)
(* of the hand, g gave the tile.                                             *)
Closed(t, final, v, r, g, sum) ==
  /\ final => v = NoView /\ r.final = Scores!final_scores(sum, <<>>)
  /\ ~final => Closing(t, v, r) /\ v.phase = "ended" /\ v.target = g /\ r.running = sum

LEMMA TenhouEnding ==
  ASSUME NEW t, NEW v, NEW r, Closing(t, v, r), v.phase = "won", NEW f
  PROVE  \E v2, r2 : Plays(v, r, Tenhou!ending(f), v2, r2) /\ Closed(t, f.owari, v2, r2, v.target, r.running)
<1>1. PICK v1 : Plays(v, r, <<Ev("end_kyoku", 0)>>, v1, r) /\ Closing(t, v1, r) /\ v1.phase = "ended" /\ v1.target = v.target
  BY SeeEndKyoku
<1>2. PICK A : A = (IF f.owari THEN <<Tenhou!Ev("end_game", 0)>> ELSE <<>>)
  BY Zenon
<1>3. Tenhou!ending(f) = <<Ev("end_kyoku", 0)>> \o A
  BY <1>2, TenhouEv DEF Tenhou!ending
<1>4. CASE f.owari
  <2>1. PICK e, r2 : e = Ev("end_game", 0) /\ r2 = [r EXCEPT !.final = Scores!final_scores(r.running, e.scores)]
    OBVIOUS
  <2>2. e.type = "end_game" /\ Shaped(e) /\ e.scores = <<>>
    <3>1. "end_game" \in EventTypes \ {"start_game"} /\ 0 \in 0..3
      BY DEF EventTypes
    <3>2. e.type = "end_game" /\ e.scores = <<>>
      BY <2>1 DEF Ev
    <3>. QED
      BY <2>1, <3>1, <3>2, Shapes
  <2>3. Plays(v1, r, <<e>>, NoView, r2)
    BY <1>1, <2>1, <2>2, SeeEndGame
  <2>4. r2.final = Scores!final_scores(r.running, <<>>)
    <3>1. r = [running |-> r.running, final |-> r.final]
      BY DEF Closing, IsRecord
    <3>. QED
      BY <2>1, <2>2, <3>1
  <2>5. Plays(v, r, Tenhou!ending(f), NoView, r2)
    <3>1. A = <<e>>
      BY <1>2, <1>4, <2>1, TenhouEv
    <3>. QED
      BY <1>1, <1>3, <2>3, <3>1, PlaysBoth
  <2>. QED
    BY <1>4, <2>4, <2>5 DEF Closed
<1>5. CASE ~f.owari
  <2>1. Plays(v1, r, A, v1, r)
    BY <1>2, <1>5, PlaysNothing
  <2>2. Plays(v, r, Tenhou!ending(f), v1, r)
    BY <1>1, <1>3, <2>1, PlaysBoth
  <2>. QED
    BY <1>1, <1>5, <2>2 DEF Closed
<1>. QED
  BY <1>4, <1>5

TenhouAgari(t2, m2, i) ==
  [tag |-> "AGARI", who |-> Tenhou!Rel(t2, m2.winners[i]), from |-> Tenhou!Rel(t2, m2.from),
   sc |-> Tenhou!Four(t2, m2.deltas[i]), owari |-> m2.final /\ i = Len(m2.winners)]

(* The bridge at the end of a hand.                                          *)
TenhouClosed(t, b) ==
  b \in TenhouBridges /\ b.seat = t.me /\ b.players = t.n /\ (b.is_3p <=> t.n = 3) /\ b.window = FALSE

TenhouKnows(t, b) ==
  b \in TenhouBridges /\ b.seat = t.me /\ b.players = t.n /\ (b.is_3p <=> t.n = 3)

LEMMA TenhouHora ==
  ASSUME NEW t2, TableOK(t2), NEW m2, NEW i, m2.winners[i] \in 0..(t2.n - 1),
         m2.from \in 0..(t2.n - 1),
         m2.deltas[i] \in [0..(t2.n - 1) -> Int], NEW b, TenhouKnows(t2, b),
         NEW v, NEW r, Closing(t2, v, r), v.phase \in {"hand", "won", "ended"}
  PROVE  \E b2, v2, r2 : /\ Runs("tenhou", b, v, r, <<TenhouAgari(t2, m2, i)>>, b2, v2, r2) /\ TenhouClosed(t2, b2)
                         /\ Closed(t2, m2.final /\ i = Len(m2.winners), v2, r2, m2.from, Summed(t2.n, r.running, m2.deltas[i]))
<1>1. PICK f, a, g, d : f = TenhouAgari(t2, m2, i) /\ a = m2.winners[i] /\ g = m2.from /\ d = m2.deltas[i]
  OBVIOUS
<1>2. /\ f.tag = "AGARI" /\ f.who = Tenhou!Rel(t2, a) /\ f.from = Tenhou!Rel(t2, g)
      /\ f.sc = Tenhou!Four(t2, d)
      /\ f.owari = (m2.final /\ i = Len(m2.winners))
  BY <1>1, Zenon DEF TenhouAgari
<1>3. a \in 0..(t2.n - 1) /\ g \in 0..(t2.n - 1) /\ d \in [0..(t2.n - 1) -> Int]
  BY <1>1
<1>4. b \in TenhouBridges /\ b.seat = t2.me /\ b.players = t2.n /\ (b.is_3p <=> t2.n = 3)
  BY DEF TenhouKnows
<1>5. ParseOf("tenhou", b, f) = Tenhou!on_agari(b, f, a)
  BY <1>2, <1>3, <1>4, TenhouParse
<1>6. PICK v1, r1 : /\ Plays(v, r, <<HoraOf(a, g, d)>>, v1, r1)
                    /\ Closing(t2, v1, r1) /\ v1.phase = "won" /\ v1.target = g
                    /\ r1.running = Summed(t2.n, r.running, d)
  <2>1. PICK v1, r1 : WonFor(t2, v, r, a, g, d, v1, r1)
    BY <1>3, SeeHora
  <2>. QED
    BY <2>1 DEF WonFor
<1>7. PICK v2, r2 : Plays(v1, r1, Tenhou!ending(f), v2, r2) /\ Closed(t2, f.owari, v2, r2, v1.target, r1.running)
  BY <1>6, TenhouEnding
<1>8. PICK b2 : b2 = [b EXCEPT !.window = FALSE]
  OBVIOUS
<1>9. Becomes("tenhou", b, f, b2, <<HoraOf(a, g, d)>> \o Tenhou!ending(f))
  <2>1. Tenhou!rel_to_abs(b, f.from) = g
    BY <1>2, <1>3, <1>4, TenhouSeat
  <2>2. Tenhou!by_seat(b, f.sc) = d
    BY <1>2, <1>3, <1>4, TenhouBySeat
  <2>3. Tenhou!Ev("hora", a) = Ev("hora", a)
    BY TenhouEv
  <2>4. Tenhou!on_agari(b, f, a) =
          [bridge |-> b2, events |-> <<[Tenhou!Ev("hora", a) EXCEPT !.target = Tenhou!rel_to_abs(b, f.from),
                                                                    !.scores = Tenhou!by_seat(b, f.sc)]>> \o Tenhou!ending(f)]
    BY <1>8, Zenon DEF Tenhou!on_agari, Tenhou!Out
  <2>5. Tenhou!on_agari(b, f, a) =
          [bridge |-> b2, events |-> <<HoraOf(a, g, d)>> \o Tenhou!ending(f)]
    BY <2>1, <2>2, <2>3, <2>4 DEF HoraOf
  <2>. QED
    BY <1>5, <2>5 DEF Becomes
<1>10. Runs("tenhou", b, v, r, <<f>>, b2, v2, r2)
  <2>1. Plays(v, r, <<HoraOf(a, g, d)>> \o Tenhou!ending(f), v2, r2)
    BY <1>6, <1>7, PlaysBoth
  <2>. QED
    BY <1>9, <2>1, RunsFrame
<1>11. TenhouClosed(t2, b2)
  BY <1>4, <1>8 DEF TenhouClosed, TenhouBridges
<1>12. Closed(t2, m2.final /\ i = Len(m2.winners), v2, r2, m2.from, Summed(t2.n, r.running, m2.deltas[i]))
  BY <1>1, <1>2, <1>6, <1>7
<1>. QED
  BY <1>1, <1>10, <1>11, <1>12

(* The end of a hand, as the bridge and the reader know it.                  *)
LEMMA TenhouEnds ==
  ASSUME NEW t, NEW t2, NEW m2, TableOK(t), TableOK(t2), HasEnded(t, t2, m2), m2.final \in BOOLEAN,
         NEW b, TenhouClosed(t2, b),
         NEW s, s.n = t.n, s.score \in [0..(t.n - 1) -> Int], HasPaid(s, t2, m2),
         NEW v, NEW r, NEW g, g = m2.from \/ m2.kind # "win", Closed(t2, m2.final, v, r, g, Summed(t2.n, s.score, m2.total))
  PROVE  TenhouSeen(t2, m2, b, v, r)
<1>1. t2.stage = (IF m2.final THEN "over" ELSE "between") /\ ~t2.offer /\ t2.n = t.n
  BY DEF HasEnded, SameHand, SameGame
<1>2. TenhouGood(t2, b)
  BY <1>1 DEF TenhouClosed, TenhouGood, OwedAt
<1>3. PICK sum : sum = Summed(t2.n, s.score, m2.total)
  OBVIOUS
<1>4. sum = [x \in 0..(t.n - 1) |-> s.score[x] + m2.total[x]] /\ t.n \in 3..4
  BY <1>1, <1>3, TableFields DEF Summed
<1>5. CASE m2.final
  <2>1. v = NoView /\ r.final = Scores!final_scores(sum, <<>>)
    BY <1>3, <1>5 DEF Closed
  <2>2. Paid(s, t2, m2.total, TRUE)
    BY <1>5 DEF HasPaid
  <2>3. Scores!final_scores(sum, <<>>) = t2.score
    <3>1. PICK n, total : n = t.n /\ total = m2.total
      OBVIOUS
    <3>2. n \in 3..4 /\ s.n = n /\ s.score \in [0..(n - 1) -> Int]
      BY <1>4, <3>1
    <3>3. Paid(s, t2, total, TRUE)
      BY <2>2, <3>1
    <3>4. Scores!final_scores(Summed(n, s.score, total), <<>>) = t2.score
      <4>1. PaidLast(n, s, t2, total)
        BY <3>2, <3>3 DEF PaidLast
      <4>. QED
        BY <4>1, FinalIs
    <3>. QED
      BY <1>1, <1>3, <3>1, <3>4
  <2>4. ViewGood("tenhou", t2, m2, v, r)
    BY <1>1, <1>5, <2>1, <2>3 DEF ViewGood, Over
  <2>. QED
    BY <1>1, <1>2, <1>5, <2>4 DEF TenhouSeen
<1>6. CASE ~m2.final
  <2>1. Closing(t2, v, r) /\ v.phase = "ended" /\ v.target = g /\ r.running = sum
    BY <1>3, <1>6 DEF Closed
  <2>2. t2.score = sum
    <3>1. Paid(s, t2, m2.total, FALSE)
      BY <1>6 DEF HasPaid
    <3>. QED
      BY <1>4, <3>1 DEF Paid
  <2>3. Waiting(t2, v, r)
    BY <2>1 DEF Closing, Waiting
  <2>4. ViewGood("tenhou", t2, m2, v, r)
    BY <1>1, <1>6, <2>1, <2>2, <2>3 DEF ViewGood, Between
  <2>. QED
    BY <1>1, <1>2, <1>6, <2>4 DEF TenhouSeen
<1>. QED
  BY <1>5, <1>6

(* The hand as it is won: the first win takes it from the table.             *)
LEMMA ClosingAs ==
  ASSUME NEW t, NEW t2, SameGame(t, t2), NEW v, NEW r, Closing(t, v, r)
  PROVE  Closing(t2, v, r)
BY DEF SameGame, Closing

(* What two winners get, and one.                                            *)
LEMMA InAllIs ==
  ASSUME NEW t, t.n \in 3..4, NEW deltas, Len(deltas) \in {1, 2}, NEW sc,
         sc \in [0..(t.n - 1) -> Int],
         \A i \in 1..Len(deltas) : deltas[i] \in [0..(t.n - 1) -> Int]
  PROVE  /\ Len(deltas) = 1 => Summed(t.n, sc, InAll(t, deltas)) = Summed(t.n, sc, deltas[1])
         /\ Len(deltas) = 2 => Summed(t.n, sc, InAll(t, deltas)) = Summed(t.n, Summed(t.n, sc, deltas[1]), deltas[2])
<1>1. PICK n, d, e, total : n = t.n /\ d = deltas[1] /\ e = deltas[2] /\ total = InAll(t, deltas)
  OBVIOUS
<1>2. n \in 3..4 /\ \A x \in 0..(n - 1) : sc[x] \in Int
  BY <1>1
<1>3. ASSUME Len(deltas) = 1 PROVE Summed(n, sc, total) = Summed(n, sc, d)
  <2>1. total = [x \in 0..(n - 1) |-> d[x]]
    BY <1>1, <1>3 DEF InAll, Players
  <2>. QED
    BY <2>1 DEF Summed
<1>4. ASSUME Len(deltas) = 2 PROVE Summed(n, sc, total) = Summed(n, Summed(n, sc, d), e)
  <2>1. total = [x \in 0..(n - 1) |-> d[x] + e[x]]
    BY <1>1, <1>4 DEF InAll, Players
  <2>2. d \in [0..(n - 1) -> Int] /\ e \in [0..(n - 1) -> Int]
    BY <1>1, <1>4
  <2>3. \A x \in 0..(n - 1) : sc[x] + (d[x] + e[x]) = (sc[x] + d[x]) + e[x]
    BY <1>2, <2>2
  <2>4. Summed(n, sc, total) = [x \in 0..(n - 1) |-> sc[x] + (d[x] + e[x])]
    BY <2>1 DEF Summed
  <2>5. Summed(n, Summed(n, sc, d), e) = [x \in 0..(n - 1) |-> (sc[x] + d[x]) + e[x]]
    BY DEF Summed
  <2>. QED
    BY <2>3, <2>4, <2>5
<1>. QED
  BY <1>1, <1>3, <1>4

(* The deltas of a win are those of two winners or one.                      *)
LEMMA WinTotals ==
  ASSUME NEW t, NEW t2, NEW m2, TableOK(t), HasWon(t, t2, m2)
  PROVE  /\ t2.n = t.n /\ t.score \in [0..(t.n - 1) -> Int]
         /\ Len(m2.winners) \in {1, 2} /\ m2.from \in 0..(t.n - 1)
         /\ \A i \in 1..Len(m2.winners) : m2.winners[i] \in 0..(t.n - 1) /\ m2.deltas[i] \in [0..(t.n - 1) -> Int]
         /\ Len(m2.winners) = 1 => Summed(t.n, t.score, m2.total) = Summed(t.n, t.score, m2.deltas[1])
         /\ Len(m2.winners) = 2 =>
              Summed(t.n, t.score, m2.total) = Summed(t.n, Summed(t.n, t.score, m2.deltas[1]), m2.deltas[2])
<1>1. /\ Len(m2.winners) \in {1, 2} /\ m2.winners \in Seq(0..(t.n - 1))
      /\ Len(m2.deltas) = Len(m2.winners)
      /\ \A i \in 1..Len(m2.deltas) : m2.deltas[i] \in [0..(t.n - 1) -> Int]
      /\ m2.total = InAll(t, m2.deltas) /\ m2.from = t.turn /\ t2.n = t.n
  BY DEF HasWon, HasEnded, SameHand, SameGame
<1>2. t.n \in 3..4 /\ t.turn \in 0..(t.n - 1) /\ t.score \in [0..(t.n - 1) -> Int]
  BY TableFields DEF TableOK
<1>3. \A i \in 1..Len(m2.winners) : m2.winners[i] \in 0..(t.n - 1)
  <2>1. PICK ws, S : ws = m2.winners /\ S = 0..(t.n - 1)
    OBVIOUS
  <2>2. ws \in Seq(S)
    BY <1>1, <2>1
  <2>3. \A i \in 1..Len(ws) : ws[i] \in S
    BY <2>2
  <2>. QED
    BY <2>1, <2>3
<1>4. PICK ds, sc : ds = m2.deltas /\ sc = t.score
  OBVIOUS
<1>5. Len(ds) \in {1, 2} /\ sc \in [0..(t.n - 1) -> Int] /\ \A i \in 1..Len(ds) : ds[i] \in [0..(t.n - 1) -> Int]
  BY <1>1, <1>2, <1>4
<1>6. /\ Len(ds) = 1 => Summed(t.n, sc, InAll(t, ds)) = Summed(t.n, sc, ds[1])
      /\ Len(ds) = 2 => Summed(t.n, sc, InAll(t, ds)) = Summed(t.n, Summed(t.n, sc, ds[1]), ds[2])
  BY <1>2, <1>5, InAllIs
<1>. QED
  BY <1>1, <1>2, <1>3, <1>4, <1>6

LEMMA TenhouWinFrames ==
  ASSUME NEW t, NEW t2, NEW m2, m2.kind = "win"
  PROVE  /\ Len(m2.winners) = 1 => Tenhou!Frames(t, t2, m2) = <<TenhouAgari(t2, m2, 1)>>
         /\ Len(m2.winners) = 2 => Tenhou!Frames(t, t2, m2) = <<TenhouAgari(t2, m2, 1)>> \o <<TenhouAgari(t2, m2, 2)>>
<1>1. PICK s, k : k = Len(m2.winners) /\ s = [i \in 1..k |-> TenhouAgari(t2, m2, i)]
  OBVIOUS
<1>2. Tenhou!Frames(t, t2, m2) = s
  BY <1>1 DEF Tenhou!Frames, TenhouAgari
<1>3. ASSUME k \in Nat PROVE IsSeq(s) /\ Len(s) = k /\ \A i \in 1..k : s[i] = TenhouAgari(t2, m2, i)
  <2>1. \A i \in 1..k : s[i] = TenhouAgari(t2, m2, i)
    BY <1>1
  <2>2. PICK S : S = {TenhouAgari(t2, m2, i) : i \in 1..k}
    OBVIOUS
  <2>3. s \in [1..k -> S]
    BY <1>1, <2>2
  <2>4. s \in Seq(S) /\ Len(s) = k
    BY <1>3, <2>3
  <2>. QED
    BY <2>1, <2>4 DEF IsSeq
<1>4. ASSUME k = 1 PROVE s = <<TenhouAgari(t2, m2, 1)>>
  <2>1. k \in Nat /\ 1 \in 1..k
    BY <1>4
  <2>. QED
    BY <1>3, <1>4, <2>1, OneOrTwo
<1>5. ASSUME k = 2 PROVE s = <<TenhouAgari(t2, m2, 1)>> \o <<TenhouAgari(t2, m2, 2)>>
  <2>1. k \in Nat /\ 1 \in 1..k /\ 2 \in 1..k
    BY <1>5
  <2>. QED
    BY <1>3, <1>5, <2>1, OneOrTwo
<1>. QED
  BY <1>1, <1>2, <1>4, <1>5

LEMMA TenhouWins ==
  ASSUME NEW t, NEW t2, NEW m, NEW m2, TableOK(t), TableOK(t2), HasWon(t, t2, m2), NEW b, NEW v,
         NEW r, TenhouSeen(t, m, b, v, r)
  PROVE  \E b2, v2, r2 : Runs("tenhou", b, v, r, Tenhou!Frames(t, t2, m2), b2, v2, r2) /\ TenhouSeen(t2, m2, b2, v2, r2)
<1>1. /\ t.stage \in {"act", "open"} /\ SameGame(t, t2) /\ t2.n = t.n /\ t2.me = t.me
      /\ m2.kind = "win" /\ m2.final \in BOOLEAN
      /\ HasEnded(t, t2, m2) /\ HasPaid(t, t2, m2) /\ (t.stage = "act" => t.drew)
  BY DEF HasWon, HasEnded, SameHand, SameGame
<1>2. Hand(t, t.pending, v, r) /\ TenhouGood(t, b)
  BY <1>1 DEF TenhouSeen, ViewGood, Playing
<1>3. Closing(t2, v, r) /\ v.phase = "hand" /\ r.running = t.score
  <2>1. Closing(t, v, r) /\ v.phase = "hand"
    BY <1>1, <1>2, HandCloses
  <2>. QED
    BY <1>1, <1>2, <2>1, ClosingAs DEF Hand
<1>4. TenhouKnows(t2, b)
  <2>1. t.games > 0
    BY <1>1 DEF TableOK, Stage
  <2>. QED
    BY <1>1, <1>2, <2>1 DEF TenhouGood, TenhouKnows
<1>5. /\ t.score \in [0..(t.n - 1) -> Int]
      /\ Len(m2.winners) \in {1, 2} /\ m2.from \in 0..(t2.n - 1)
      /\ \A i \in 1..Len(m2.winners) : m2.winners[i] \in 0..(t2.n - 1) /\ m2.deltas[i] \in [0..(t2.n - 1) -> Int]
  BY <1>1, WinTotals
<1>6. PICK ones, twos : ones = 1 /\ twos = 2
  OBVIOUS
<1>7. CASE Len(m2.winners) = 1
  <2>1. m2.winners[ones] \in 0..(t2.n - 1) /\ m2.deltas[ones] \in [0..(t2.n - 1) -> Int]
    BY <1>5, <1>6, <1>7
  <2>2. PICK b2, v2, r2 : /\ Runs("tenhou", b, v, r, <<TenhouAgari(t2, m2, ones)>>, b2, v2, r2) /\ TenhouClosed(t2, b2)
                          /\ Closed(t2, m2.final /\ ones = Len(m2.winners), v2, r2, m2.from, Summed(t2.n, r.running, m2.deltas[ones]))
    BY <1>3, <1>4, <1>5, <2>1, TenhouHora
  <2>3. Summed(t2.n, r.running, m2.deltas[ones]) = Summed(t2.n, t.score, m2.total)
    BY <1>1, <1>3, <1>6, <1>7, WinTotals
  <2>4. Closed(t2, m2.final, v2, r2, m2.from, Summed(t2.n, t.score, m2.total))
    <3>1. (m2.final /\ ones = Len(m2.winners)) = m2.final
      BY <1>1, <1>6, <1>7
    <3>. QED
      BY <2>2, <2>3, <3>1
  <2>5. TenhouSeen(t2, m2, b2, v2, r2)
    BY <1>1, <1>5, <2>2, <2>4, TenhouEnds
  <2>6. Tenhou!Frames(t, t2, m2) = <<TenhouAgari(t2, m2, ones)>>
    BY <1>1, <1>6, <1>7, TenhouWinFrames
  <2>. QED
    BY <2>2, <2>5, <2>6
<1>8. CASE Len(m2.winners) = 2
  <2>1. /\ m2.winners[ones] \in 0..(t2.n - 1) /\ m2.deltas[ones] \in [0..(t2.n - 1) -> Int]
        /\ m2.winners[twos] \in 0..(t2.n - 1) /\ m2.deltas[twos] \in [0..(t2.n - 1) -> Int]
    <3>1. ones \in 1..Len(m2.winners) /\ twos \in 1..Len(m2.winners)
      BY <1>6, <1>8
    <3>. QED
      BY <1>5, <3>1
  <2>2. PICK b1, v1, r1 : /\ Runs("tenhou", b, v, r, <<TenhouAgari(t2, m2, ones)>>, b1, v1, r1) /\ TenhouClosed(t2, b1)
                          /\ Closed(t2, m2.final /\ ones = Len(m2.winners), v1, r1, m2.from, Summed(t2.n, r.running, m2.deltas[ones]))
    BY <1>3, <1>4, <1>5, <2>1, TenhouHora
  <2>3. Closing(t2, v1, r1) /\ v1.phase = "ended" /\ r1.running = Summed(t2.n, r.running, m2.deltas[ones])
    <3>1. ~(m2.final /\ ones = Len(m2.winners))
      BY <1>6, <1>8
    <3>. QED
      BY <2>2, <3>1 DEF Closed
  <2>4. TenhouKnows(t2, b1)
    BY <2>2 DEF TenhouClosed, TenhouKnows
  <2>5. PICK b2, v2, r2 : /\ Runs("tenhou", b1, v1, r1, <<TenhouAgari(t2, m2, twos)>>, b2, v2, r2) /\ TenhouClosed(t2, b2)
                          /\ Closed(t2, m2.final /\ twos = Len(m2.winners), v2, r2, m2.from, Summed(t2.n, r1.running, m2.deltas[twos]))
    BY <1>5, <2>1, <2>3, <2>4, TenhouHora
  <2>6. Summed(t2.n, r1.running, m2.deltas[twos]) = Summed(t2.n, t.score, m2.total)
    BY <1>1, <1>3, <1>6, <1>8, <2>3, WinTotals
  <2>7. Closed(t2, m2.final, v2, r2, m2.from, Summed(t2.n, t.score, m2.total))
    <3>1. (m2.final /\ twos = Len(m2.winners)) = m2.final
      BY <1>1, <1>6, <1>8
    <3>. QED
      BY <2>5, <2>6, <3>1
  <2>8. TenhouSeen(t2, m2, b2, v2, r2)
    BY <1>1, <1>5, <2>5, <2>7, TenhouEnds
  <2>9. Tenhou!Frames(t, t2, m2) = <<TenhouAgari(t2, m2, ones)>> \o <<TenhouAgari(t2, m2, twos)>>
    BY <1>1, <1>6, <1>8, TenhouWinFrames
  <2>10. Runs("tenhou", b, v, r, Tenhou!Frames(t, t2, m2), b2, v2, r2)
    BY <2>2, <2>5, <2>9, RunsBoth
  <2>. QED
    BY <2>8, <2>10
<1>. QED
  BY <1>5, <1>7, <1>8

TenhouRyukyoku(t2, m2) == [tag |-> "RYUUKYOKU", sc |-> Tenhou!Four(t2, m2.deltas[1]), owari |-> m2.final]

LEMMA TenhouExhausts ==
  ASSUME NEW t, NEW t2, NEW m, NEW m2, TableOK(t), TableOK(t2), HasExhausted(t, t2, m2), NEW b,
         NEW v, NEW r, TenhouSeen(t, m, b, v, r)
  PROVE  \E b2, v2, r2 : Runs("tenhou", b, v, r, Tenhou!Frames(t, t2, m2), b2, v2, r2) /\ TenhouSeen(t2, m2, b2, v2, r2)
<1>1. /\ t.stage \in {"act", "open"} /\ SameGame(t, t2) /\ t2.n = t.n /\ t2.me = t.me
      /\ m2.kind = "exhaust" /\ m2.final \in BOOLEAN
      /\ HasEnded(t, t2, m2) /\ HasPaid(Settled(t), t2, m2) /\ (t.stage = "act" => t.drew)
      /\ m2.accepts = t.pending /\ m2.deltas[1] = m2.total
  BY DEF HasExhausted, HasEnded, SameHand, SameGame
<1>2. Hand(t, t.pending, v, r) /\ TenhouGood(t, b)
  BY <1>1 DEF TenhouSeen, ViewGood, Playing
<1>3. TenhouKnows(t2, b)
  <2>1. t.games > 0
    BY <1>1 DEF TableOK, Stage
  <2>. QED
    BY <1>1, <1>2, <2>1 DEF TenhouGood, TenhouKnows
<1>4. PICK v1, r1 : Plays(v, r, Accepts(t.pending), v1, r1) /\ Hand(Settled(t), None, v1, r1)
  BY <1>1, <1>2, SeePassed
<1>5. Runs("tenhou", b, v, r, Tenhou!Passed(t2, m2), b, v1, r1)
  <2>1. t.pending = None \/ t.pending \in 0..(t2.n - 1)
    BY <1>1, PendingSeat
  <2>2. b.seat = t2.me /\ (b.is_3p <=> t2.n = 3)
    BY <1>3 DEF TenhouKnows
  <2>. QED
    BY <1>1, <1>4, <2>1, <2>2, TenhouPassed
<1>6. PICK s, d : s = Settled(t) /\ d = m2.total
  OBVIOUS
<1>7. TableOK(s) /\ s.stage = t.stage /\ s.drew = t.drew /\ s.n = t.n /\ SameGame(s, t2) /\ s.score \in [0..(t.n - 1) -> Int]
  <2>1. TableOK(s) /\ s.stage = t.stage /\ s.drew = t.drew /\ SameHand(t, s)
    BY <1>1, <1>6, SettledOK
  <2>2. SameGame(s, t2) /\ s.n = t.n
    BY <1>1, <2>1 DEF SameHand, SameGame
  <2>. QED
    BY <2>1, <2>2 DEF TableOK
<1>8. d \in [0..(t.n - 1) -> Int] /\ t.n \in 3..4
  BY <1>1, <1>6, <1>7, TableFields DEF HasPaid, Paid
<1>9. PICK v2, r2 : /\ Plays(v1, r1, <<[Ev("ryukyoku", 0) EXCEPT !.scores = d]>>, v2, r2)
                    /\ Closing(s, v2, r2) /\ v2.phase = "won"
                    /\ r2.running = Scores!add_deltas(r1.running, d)
  BY <1>1, <1>4, <1>6, <1>7, <1>8, SeeRyukyoku
<1>10. r2.running = Summed(t2.n, s.score, m2.total)
  <2>1. r1.running = s.score
    BY <1>4, <1>6 DEF Hand
  <2>2. PICK n, x : n = t.n /\ x = s.score
    OBVIOUS
  <2>3. n \in 3..4 /\ x \in [0..(n - 1) -> Int] /\ d \in [0..(n - 1) -> Int]
    BY <1>7, <1>8, <2>2
  <2>4. Scores!add_deltas(x, d) = [a \in 0..(n - 1) |-> x[a] + d[a]]
    BY <2>3, Added
  <2>. QED
    BY <1>1, <1>6, <1>9, <2>1, <2>2, <2>4 DEF Summed
<1>11. Closing(t2, v2, r2)
  BY <1>7, <1>9, ClosingAs
<1>12. PICK f, b2 : f = TenhouRyukyoku(t2, m2) /\ b2 = [b EXCEPT !.window = FALSE]
  OBVIOUS
<1>13. f.tag = "RYUUKYOKU" /\ f.sc = Tenhou!Four(t2, d) /\ f.owari = m2.final
  BY <1>1, <1>6, <1>12 DEF TenhouRyukyoku
<1>14. PICK v3, r3 : Plays(v2, r2, Tenhou!ending(f), v3, r3) /\ Closed(t2, f.owari, v3, r3, v2.target, r2.running)
  BY <1>9, <1>11, TenhouEnding
<1>21. PICK es : es = <<[Ev("ryukyoku", 0) EXCEPT !.scores = d]>> \o Tenhou!ending(f)
  OBVIOUS
<1>15. Becomes("tenhou", b, f, b2, es)
  <2>1. ParseOf("tenhou", b, f) = Tenhou!on_ryukyoku(b, f)
    BY <1>13 DEF ParseOf, Tenhou!Parse
  <2>2. Tenhou!by_seat(b, f.sc) = d
    <3>1. b.seat = t2.me /\ b.players = t2.n /\ d \in [0..(t2.n - 1) -> Int]
      BY <1>1, <1>3, <1>8 DEF TenhouKnows
    <3>. QED
      BY <1>13, <3>1, TenhouBySeat
  <2>3. Tenhou!Ev("ryukyoku", 0) = Ev("ryukyoku", 0)
    BY TenhouEv
  <2>4. Tenhou!on_ryukyoku(b, f) =
          [bridge |-> b2, events |-> <<[Tenhou!Ev("ryukyoku", 0) EXCEPT !.scores = Tenhou!by_seat(b, f.sc)]>> \o Tenhou!ending(f)]
    BY <1>12, Zenon DEF Tenhou!on_ryukyoku, Tenhou!Out
  <2>5. Tenhou!on_ryukyoku(b, f) =
          [bridge |-> b2, events |-> es]
    BY <1>21, <2>2, <2>3, <2>4
  <2>. QED
    BY <2>1, <2>5 DEF Becomes
<1>16. Runs("tenhou", b, v1, r1, <<f>>, b2, v3, r3)
  <2>1. Plays(v1, r1, es, v3, r3)
    BY <1>9, <1>14, <1>21, PlaysBoth
  <2>. QED
    BY <1>15, <2>1, RunsFrame
<1>17. TenhouClosed(t2, b2)
  BY <1>3, <1>12 DEF TenhouKnows, TenhouClosed, TenhouBridges
<1>18. TenhouSeen(t2, m2, b2, v3, r3)
  <2>1. Closed(t2, m2.final, v3, r3, v2.target, Summed(t2.n, s.score, m2.total))
    BY <1>10, <1>13, <1>14
  <2>2. HasPaid(s, t2, m2) /\ s.n = t.n /\ s.score \in [0..(t.n - 1) -> Int] /\ m2.kind # "win"
    BY <1>1, <1>6, <1>7
  <2>. QED
    BY <1>1, <1>17, <2>1, <2>2, TenhouEnds
<1>19. Tenhou!Frames(t, t2, m2) = Tenhou!Passed(t2, m2) \o <<f>>
  BY <1>1, <1>12 DEF Tenhou!Frames, TenhouRyukyoku
<1>20. Runs("tenhou", b, v, r, Tenhou!Frames(t, t2, m2), b2, v3, r3)
  BY <1>5, <1>16, <1>19, RunsBoth
<1>. QED
  BY <1>18, <1>20

(* A move in the hand that leaves it running, as its reader knows it.        *)
LEMMA TenhouPlays ==
  ASSUME NEW t2, NEW m2, t2.stage \in {"act", "open"}, NEW b2, TenhouGood(t2, b2), NEW v2, NEW r2,
         Hand(t2, t2.pending, v2, r2),
         v2.dora = t2.shown, m2.kind = "discard" => v2.floor = m2.seat /\ v2.giri = m2.giri
  PROVE  TenhouSeen(t2, m2, b2, v2, r2)
BY DEF TenhouSeen, ViewGood, Playing

(* One of the moves of a hand or of a game.                                  *)
Moved(t, t2, m2) ==
  \/ HasSat(t, t2, m2) \/ HasDealt(t, t2, m2) \/ HasDrawn(t, t2, m2) \/ HasDiscarded(t, t2, m2)
  \/ HasCalled(t, t2, m2) \/ HasKan(t, t2, m2) \/ HasWon(t, t2, m2) \/ HasExhausted(t, t2, m2)

LEMMA TenhouMoves ==
  ASSUME NEW t, NEW t2, NEW m, NEW m2, TableOK(t), TableOK(t2), Moved(t, t2, m2), NEW b, NEW v,
         NEW r, TenhouSeen(t, m, b, v, r)
  PROVE  \E b2, v2, r2 : Runs("tenhou", b, v, r, Tenhou!Frames(t, t2, m2), b2, v2, r2) /\ TenhouSeen(t2, m2, b2, v2, r2)
<1>1. ASSUME t.stage \in {"act", "open"} PROVE TenhouGood(t, b) /\ Hand(t, t.pending, v, r) /\ v.dora = t.shown
  BY <1>1 DEF TenhouSeen, ViewGood, Playing
<1>2. CASE HasSat(t, t2, m2)
  BY <1>2, TenhouSits
<1>3. CASE HasDealt(t, t2, m2)
  BY <1>3, TenhouDeals
<1>4. CASE HasDrawn(t, t2, m2)
  <2>1. t.stage = "open" /\ t2.stage = "act" /\ m2.kind = "draw"
    BY <1>4 DEF HasDrawn
  <2>2. PICK b2, v2, r2 : /\ Runs("tenhou", b, v, r, Tenhou!Frames(t, t2, m2), b2, v2, r2)
                          /\ TenhouGood(t2, b2) /\ Hand(t2, t2.pending, v2, r2)
                          /\ v2.dora = t2.shown
    BY <1>1, <1>4, <2>1, TenhouDraws
  <2>. QED
    BY <2>1, <2>2, TenhouPlays
<1>5. CASE HasDiscarded(t, t2, m2)
  <2>1. t.stage = "act" /\ t2.stage = "open"
    BY <1>5 DEF HasDiscarded
  <2>2. PICK b2, v2 : /\ Runs("tenhou", b, v, r, Tenhou!Frames(t, t2, m2), b2, v2, r)
                      /\ TenhouGood(t2, b2) /\ Hand(t2, t2.pending, v2, r)
                      /\ v2.dora = t2.shown /\ v2.floor = m2.seat /\ v2.giri = m2.giri
    BY <1>1, <1>5, <2>1, TenhouDiscards
  <2>. QED
    BY <2>1, <2>2, TenhouPlays
<1>6. CASE HasCalled(t, t2, m2)
  <2>1. t.stage = "open" /\ t2.stage \in {"act", "open"} /\ m2.kind = "call"
    BY <1>6 DEF HasCalled
  <2>2. PICK b2, v2, r2 : /\ Runs("tenhou", b, v, r, Tenhou!Frames(t, t2, m2), b2, v2, r2)
                          /\ TenhouGood(t2, b2) /\ Hand(t2, t2.pending, v2, r2)
                          /\ v2.dora = t2.shown
    BY <1>1, <1>6, <2>1, TenhouCalls
  <2>. QED
    BY <2>1, <2>2, TenhouPlays
<1>7. CASE HasKan(t, t2, m2)
  <2>1. t.stage = "act" /\ t2.stage = "open" /\ m2.kind = "kan"
    BY <1>7 DEF HasKan
  <2>2. PICK b2, v2 : /\ Runs("tenhou", b, v, r, Tenhou!Frames(t, t2, m2), b2, v2, r)
                      /\ TenhouGood(t2, b2) /\ Hand(t2, t2.pending, v2, r) /\ v2.dora = t2.shown
    BY <1>1, <1>7, <2>1, TenhouKans
  <2>. QED
    BY <2>1, <2>2, TenhouPlays
<1>8. CASE HasWon(t, t2, m2)
  BY <1>8, TenhouWins
<1>9. CASE HasExhausted(t, t2, m2)
  BY <1>9, TenhouExhausts
<1>. QED
  BY <1>2, <1>3, <1>4, <1>5, <1>6, <1>7, <1>8, <1>9, Zenon DEF Moved

(* ------ Riichi City ------------------------------------------------------ *)

(* The user ids in the order of the seats.                                   *)
Places(t) == [i \in 1..t.n |-> RiichiCity!Uid(t, i - 1)]

RiichiStatuses ==
  [seat : 0..3, list : Seq(0..3), players : 3..4, shift : 0..3, room : Nat, last_dahai : 0..9, drawn_by : 0..9,
   melds : [0..3 -> Nat], pending_reach : 0..9, pending_dora : Nat, owes_start : BOOLEAN]
RiichiBridges == [status : RiichiStatuses, uid : 0..3, window : BOOLEAN]

(* The bridge waits for the first hand of a game.                            *)
RiichiWaits(t, b) ==
  /\ b.uid = RiichiCity!Uid(t, t.me)
  /\ b.status = [RiichiCity!NoStatus EXCEPT !.owes_start = TRUE, !.players = t.n, !.list = [i \in 1..t.n |-> i - 1],
                                            !.room = t.games]
(* It knows who sits where.                                                  *)
RiichiKnows(t, s) ==
  /\ s.seat = t.me /\ s.players = t.n /\ s.shift = t.shift /\ s.list = Places(t)
  /\ s.owes_start = FALSE
  /\ s.last_dahai \in 0..(t.n - 1) \cup {Nobody}
(* It knows the melds, the declared riichi, who drew and who discarded last. *)
RiichiHand(t, s) ==
  /\ \A a \in 0..(t.n - 1) : s.melds[a] = t.melds[a]
  /\ s.pending_reach = t.pending
  /\ t.stage = "act" => s.drawn_by = IF t.drew THEN t.turn ELSE Nobody
  /\ t.stage = "open" /\ t.kan = "none" => s.drawn_by = Nobody /\ s.last_dahai = t.turn

RiichiGood(t, m, b) ==
  /\ b \in RiichiBridges
  /\ t.stage \in {"act", "open"} =>
       /\ RiichiKnows(t, b.status) /\ RiichiHand(t, b.status)
       /\ OwedAt(t) => b.window \/ m.kind = "deal"
       /\ b.window => OwedAt(t) \/ m.kind = "draw"
  /\ t.stage \notin {"act", "open"} => ~b.window
  /\ t.stage = "between" => RiichiKnows(t, b.status) /\ b.status.pending_reach = Nobody
  /\ t.stage = "seated" /\ t.games > 0 => RiichiWaits(t, b)
  /\ t.stage = "over" \/ t.games = 0 => b.status = RiichiCity!NoStatus

(* An indicator follows the tile drawn for a kan.                            *)
Late(t) == IF t.stage = "open" /\ t.kan \in {"ankan", "kakan", "daiminkan"} THEN 1 ELSE 0

RiichiSeen(t, m, b, v, r) ==
  /\ RiichiGood(t, m, b) /\ ViewGood("riichi_city", t, m, v, r)
  /\ t.stage \in {"act", "open"} => v.dora + b.status.pending_dora + Late(t) = t.shown + t.due

LEMMA RiichiEv ==
  ASSUME NEW type, NEW a
  PROVE  RiichiCity!Ev(type, a) = Ev(type, a)
BY DEF RiichiCity!Ev, Ev

LEMMA RiichiNobody == RiichiCity!Nobody = Nobody /\ Nobody = 9 /\ None = 9
BY DEF RiichiCity!Nobody, Nobody, None

Opened(b) == [b EXCEPT !.window = TRUE]
Shut(b) == [b EXCEPT !.window = FALSE]
Auth(b, uid) == [b EXCEPT !.uid = uid]
(* A frame without events.                                                   *)
Told(b) == [bridge |-> b, events |-> <<>>]

(* Each frame reaches its handler, the window noted.                         *)
LEMMA RiichiParse ==
  ASSUME NEW b, NEW f
  PROVE  /\ f.cmd = "auth" => ParseOf("riichi_city", b, f) = Told(Auth(b, f.uid))
         /\ f.cmd = "cmd_send_other_action" => ParseOf("riichi_city", b, f) = Told(Opened(b))
         /\ f.cmd = "cmd_enter_room" => ParseOf("riichi_city", b, f) = RiichiCity!on_enter_room(b, f)
         /\ f.cmd = "cmd_game_start" => ParseOf("riichi_city", b, f) = RiichiCity!on_game_start(Shut(b), f)
         /\ f.cmd = "cmd_in_card_brc" => ParseOf("riichi_city", b, f) = RiichiCity!on_in_card_brc(b, f)
         /\ f.cmd = "cmd_send_current_action" => ParseOf("riichi_city", b, f) = RiichiCity!on_send_current_action(Opened(b), f)
         /\ f.cmd = "cmd_game_action_brc" => ParseOf("riichi_city", b, f) = RiichiCity!on_game_action_brc(Shut(b), f)
         /\ f.cmd = "cmd_gang_bao_brc" => ParseOf("riichi_city", b, f) = RiichiCity!on_gang_bao_brc(b)
         /\ f.cmd = "cmd_game_end" => ParseOf("riichi_city", b, f) = RiichiCity!on_game_end(Shut(b), f)
         /\ f.cmd = "cmd_room_end" => ParseOf("riichi_city", b, f) = RiichiCity!on_room_end(Shut(b))
<1>1. ParseOf("riichi_city", b, f) = RiichiCity!Parse(b, f)
  BY DEF ParseOf
<1>2. /\ f.cmd \in {"cmd_send_current_action", "cmd_send_other_action"} => RiichiCity!note_window(b, f) = Opened(b)
      /\ f.cmd \in {"cmd_game_action_brc", "cmd_game_end", "cmd_room_end", "cmd_game_start"} => RiichiCity!note_window(b, f) = Shut(b)
      /\ f.cmd \in {"auth", "cmd_enter_room", "cmd_in_card_brc", "cmd_gang_bao_brc"} => RiichiCity!note_window(b, f) = b
  BY DEF RiichiCity!note_window, Opened, Shut
<1>. QED
  BY <1>1, <1>2 DEF RiichiCity!Parse, RiichiCity!Out, Auth, Told

LEMMA RiichiUid ==
  ASSUME NEW t, TableOK(t), NEW a, a \in 0..(t.n - 1)
  PROVE  /\ RiichiCity!Uid(t, a) \in 0..(t.n - 1)
         /\ (RiichiCity!Uid(t, a) + t.n - t.shift) % t.n = a
         /\ (RiichiCity!Uid(t, a) - t.shift) % t.n = a
         /\ \A c \in 0..(t.n - 1) : RiichiCity!Uid(t, a) = RiichiCity!Uid(t, c) => a = c
<1>1. t.n \in 3..4 /\ t.shift \in 0..(t.n - 1)
  BY TableFields
<1>2. PICK n, k : n = t.n /\ k = t.shift
  OBVIOUS
<1>3. \A c : RiichiCity!Uid(t, c) = (c + k) % n
  BY <1>2 DEF RiichiCity!Uid
<1>4. CASE n = 3
  <2>1. k \in 0..2 /\ a \in 0..2
    BY <1>1, <1>2, <1>4
  <2>2. /\ (a + k) % 3 \in 0..2 /\ (((a + k) % 3) + 3 - k) % 3 = a /\ (((a + k) % 3) - k) % 3 = a
        /\ \A c \in 0..2 : (a + k) % 3 = (c + k) % 3 => a = c
    BY <2>1
  <2>. QED
    BY <1>2, <1>3, <1>4, <2>2
<1>5. CASE n = 4
  <2>1. k \in 0..3 /\ a \in 0..3
    BY <1>1, <1>2, <1>5
  <2>2. /\ (a + k) % 4 \in 0..3 /\ (((a + k) % 4) + 4 - k) % 4 = a /\ (((a + k) % 4) - k) % 4 = a
        /\ \A c \in 0..3 : (a + k) % 4 = (c + k) % 4 => a = c
    BY <2>1
  <2>. QED
    BY <1>2, <1>3, <1>5, <2>2
<1>. QED
  BY <1>1, <1>2, <1>4, <1>5

(* The bridge finds every seat.                                              *)
LEMMA RiichiActor ==
  ASSUME NEW t, TableOK(t), NEW s, s.list = Places(t), NEW a, a \in 0..(t.n - 1)
  PROVE  RiichiCity!actor_of(s, RiichiCity!Uid(t, a)) = a
<1>1. t.n \in 3..4
  BY TableFields
<1>2. PICK n, u, l : n = t.n /\ u = RiichiCity!Uid(t, a) /\ l = Places(t)
  OBVIOUS
<1>3. Len(l) = n /\ \A i \in 1..n : l[i] = RiichiCity!Uid(t, i - 1)
  BY <1>1, <1>2 DEF Places
<1>4. \A i \in 1..n : l[i] = u <=> i = a + 1
  <2>. TAKE i \in 1..n
  <2>1. i - 1 \in 0..(t.n - 1) /\ l[i] = RiichiCity!Uid(t, i - 1)
    BY <1>1, <1>2, <1>3
  <2>2. l[i] = u <=> i - 1 = a
    BY <1>2, <2>1, RiichiUid
  <2>. QED
    BY <1>1, <1>2, <2>1, <2>2
<1>5. a + 1 \in 1..n
  BY <1>1, <1>2
<1>6. (CHOOSE i \in 1..n : l[i] = u) = a + 1
  BY <1>4, <1>5
<1>7. RiichiCity!actor_of(s, u) = (CHOOSE i \in 1..n : l[i] = u) - 1
  BY <1>2, <1>3 DEF RiichiCity!actor_of
<1>8. (a + 1) - 1 = a
  BY <1>1
<1>9. RiichiCity!actor_of(s, u) = (a + 1) - 1
  BY <1>6, <1>7, Zenon
<1>. QED
  BY <1>2, <1>8, <1>9

(* Numbers by user id are put in the order of the seats.                     *)
LEMMA RiichiByActor ==
  ASSUME NEW t, TableOK(t), NEW s, s.list = Places(t), s.players = t.n, NEW d,
         d \in [0..(t.n - 1) -> Int]
  PROVE  RiichiCity!by_actor(s, RiichiCity!ByUid(t, d)) = d
<1>1. t.n \in 3..4 /\ t.shift \in 0..(t.n - 1)
  BY TableFields
<1>2. ASSUME NEW a \in 0..(t.n - 1) PROVE RiichiCity!ByUid(t, d)[s.list[a + 1]] = d[a]
  <2>1. PICK u : u = RiichiCity!Uid(t, a)
    OBVIOUS
  <2>2. s.list[a + 1] = u
    BY <1>1, <2>1 DEF Places
  <2>3. u \in 0..(t.n - 1) /\ (u + t.n - t.shift) % t.n = a
    BY <2>1, RiichiUid
  <2>. QED
    BY <2>2, <2>3 DEF RiichiCity!ByUid
<1>3. RiichiCity!by_actor(s, RiichiCity!ByUid(t, d)) = [a \in 0..(t.n - 1) |-> RiichiCity!ByUid(t, d)[s.list[a + 1]]]
  BY DEF RiichiCity!by_actor
<1>. QED
  BY <1>2, <1>3

(* What the bridge owes to an announced riichi.                              *)
LEMMA RiichiFlush ==
  ASSUME NEW b, NEW p, b.status.pending_reach = p
  PROVE  RiichiCity!flush_pending_reach(b) = Accepts(p)
BY RiichiEv, RiichiNobody DEF RiichiCity!flush_pending_reach, Accepts

(* A bridge whose status is replaced.                                        *)
Status(b, s) == [b EXCEPT !.status = s]

LEMMA RiichiStatus ==
  ASSUME NEW b, b \in RiichiBridges, NEW s, s \in RiichiStatuses
  PROVE  Status(b, s) \in RiichiBridges /\ Status(b, s).status = s /\ Status(b, s).window = b.window /\ Status(b, s).uid = b.uid
BY DEF RiichiBridges, Status

LEMMA RiichiWindow ==
  ASSUME NEW b, b \in RiichiBridges
  PROVE  /\ Opened(b) \in RiichiBridges /\ Opened(b).status = b.status /\ Opened(b).window
         /\ Opened(b).uid = b.uid
         /\ Shut(b) \in RiichiBridges /\ Shut(b).status = b.status /\ ~Shut(b).window
         /\ Shut(b).uid = b.uid
BY DEF RiichiBridges, Opened, Shut

(* The acceptance has gone out.                                              *)
Calm(s) == [s EXCEPT !.pending_reach = Nobody]

LEMMA RiichiCalm ==
  ASSUME NEW b, b \in RiichiBridges
  PROVE  /\ RiichiCity!flushed(b) = Status(b, Calm(b.status))
         /\ Calm(b.status) \in RiichiStatuses /\ Calm(b.status).pending_reach = Nobody
         /\ Calm(b.status).list = b.status.list /\ Calm(b.status).seat = b.status.seat
         /\ Calm(b.status).players = b.status.players
         /\ Calm(b.status).shift = b.status.shift /\ Calm(b.status).owes_start = b.status.owes_start
         /\ Calm(b.status).last_dahai = b.status.last_dahai
         /\ Calm(b.status).drawn_by = b.status.drawn_by
         /\ Calm(b.status).melds = b.status.melds
         /\ Calm(b.status).pending_dora = b.status.pending_dora
<1>1. b.status \in RiichiStatuses /\ Nobody \in 0..9
  BY DEF RiichiBridges, Nobody
<1>. QED
  BY <1>1, RiichiNobody DEF RiichiCity!flushed, Calm, Status, RiichiStatuses

(* A seat draws.                                                             *)
Drawn(s, a) == [s EXCEPT !.drawn_by = a]

LEMMA RiichiDrawn ==
  ASSUME NEW t, NEW t2, NEW m2, TableOK(t), TableOK(t2), HasDrawn(t, t2, m2), NEW s,
         s \in RiichiStatuses,
         RiichiKnows(t, s), RiichiHand(t, s)
  PROVE  /\ Drawn(Calm(s), t2.turn) \in RiichiStatuses
         /\ RiichiKnows(t2, Drawn(Calm(s), t2.turn)) /\ RiichiHand(t2, Drawn(Calm(s), t2.turn))
         /\ Drawn(Calm(s), t2.turn).pending_dora = s.pending_dora
<1>1. t2.turn \in 0..3 /\ t2.turn \in 0..9 /\ Nobody \in 0..9 /\ Nobody = None
  BY TableFields, SeatSpan, RiichiNobody
<1>2. PICK u, s2 : u = t2.turn /\ s2 = Drawn(Calm(s), u)
  OBVIOUS
<1>3. /\ s2 \in RiichiStatuses /\ s2.pending_reach = Nobody /\ s2.list = s.list /\ s2.seat = s.seat
      /\ s2.players = s.players
      /\ s2.shift = s.shift /\ s2.owes_start = s.owes_start /\ s2.last_dahai = s.last_dahai
      /\ s2.drawn_by = u
      /\ s2.melds = s.melds /\ s2.pending_dora = s.pending_dora
  BY <1>1, <1>2 DEF RiichiStatuses, Drawn, Calm
<1>4. /\ t2.n = t.n /\ t2.me = t.me /\ t2.shift = t.shift /\ t2.melds = t.melds /\ t2.stage = "act"
      /\ t2.drew = TRUE /\ t2.pending = None
  BY DEF HasDrawn, SameHand, SameGame
<1>5. Places(t2) = Places(t)
  BY <1>4 DEF Places, RiichiCity!Uid
<1>6. RiichiKnows(t2, s2)
  BY <1>3, <1>4, <1>5 DEF RiichiKnows
<1>7. RiichiHand(t2, s2)
  BY <1>1, <1>2, <1>3, <1>4 DEF RiichiHand
<1>. QED
  BY <1>2, <1>3, <1>6, <1>7

RiichiBao(c) == IF c \notin {"none", "kita"} THEN <<[cmd |-> "cmd_gang_bao_brc"]>> ELSE <<>>

(* The indicator of a kan is told with the tile drawn for it.                *)
LEMMA RiichiKanDora ==
  ASSUME NEW t, TableOK(t), t.stage = "open", NEW b, b \in RiichiBridges, RiichiKnows(t, b.status),
         RiichiHand(t, b.status),
         NEW v, NEW r, v \in Views, v.dora + b.status.pending_dora + Late(t) = t.shown + t.due
  PROVE  \E b1 : /\ Runs("riichi_city", b, v, r, RiichiBao(t.kan), b1, v, r)
                 /\ b1 \in RiichiBridges /\ b1.window = b.window
                 /\ RiichiKnows(t, b1.status) /\ RiichiHand(t, b1.status)
                 /\ v.dora + b1.status.pending_dora = t.shown + t.due
<1>1. t.kan \in Kans /\ b.status \in RiichiStatuses /\ v.dora \in Nat /\ b.status.pending_dora \in Nat
  BY TableFields DEF RiichiBridges, RiichiStatuses, Views
<1>2. CASE t.kan \in {"none", "kita"}
  <2>1. Late(t) = 0 /\ RiichiBao(t.kan) = <<>>
    BY <1>2 DEF Late, RiichiBao
  <2>2. Runs("riichi_city", b, v, r, <<>>, b, v, r)
    BY RunsNothing
  <2>. QED
    BY <1>1, <2>1, <2>2
<1>3. CASE t.kan \in {"ankan", "kakan", "daiminkan"}
  <2>1. PICK f : f = [cmd |-> "cmd_gang_bao_brc"]
    OBVIOUS
  <2>2. Late(t) = 1 /\ RiichiBao(t.kan) = <<f>>
    BY <1>3, <2>1 DEF Late, RiichiBao
  <2>3. PICK s, k : s = [b.status EXCEPT !.pending_dora = k] /\ k = b.status.pending_dora + 1
    OBVIOUS
  <2>4. /\ s \in RiichiStatuses /\ s.pending_dora = b.status.pending_dora + 1
        /\ s.list = b.status.list /\ s.seat = b.status.seat
        /\ s.players = b.status.players /\ s.shift = b.status.shift
        /\ s.owes_start = b.status.owes_start
        /\ s.last_dahai = b.status.last_dahai /\ s.drawn_by = b.status.drawn_by
        /\ s.melds = b.status.melds
        /\ s.pending_reach = b.status.pending_reach
    <3>1. k \in Nat
      BY <1>1, <2>3
    <3>. QED
      BY <1>1, <2>3, <3>1 DEF RiichiStatuses
  <2>5. RiichiKnows(t, s) /\ RiichiHand(t, s)
    BY <2>4 DEF RiichiKnows, RiichiHand
  <2>6. RiichiCity!on_gang_bao_brc(b) = [bridge |-> Status(b, s), events |-> <<>>]
    BY <1>1, <2>3 DEF RiichiCity!on_gang_bao_brc, RiichiCity!Out, Status, RiichiBridges
  <2>7. Becomes("riichi_city", b, f, Status(b, s), <<>>)
    <3>1. f.cmd = "cmd_gang_bao_brc"
      BY <2>1
    <3>. QED
      BY <3>1, <2>6, RiichiParse DEF Becomes
  <2>8. Runs("riichi_city", b, v, r, <<f>>, Status(b, s), v, r)
    <3>1. Plays(v, r, <<>>, v, r)
      BY PlaysNothing
    <3>. QED
      BY <2>7, <3>1, RunsFrame
  <2>9. /\ Status(b, s) \in RiichiBridges /\ Status(b, s).status = s
        /\ Status(b, s).window = b.window
    BY <2>4, RiichiStatus
  <2>10. v.dora + s.pending_dora = t.shown + t.due
    BY <1>1, <2>2, <2>4
  <2>. QED
    BY <2>2, <2>5, <2>8, <2>9, <2>10
<1>. QED
  BY <1>1, <1>2, <1>3 DEF Kans, OwnKans

(* The tile itself: our prompt, or word that another seat drew.              *)
RiichiTile(t2, m2) ==
  IF m2.seat = t2.me THEN [cmd |-> "cmd_send_current_action", in_card |-> TRUE]
  ELSE [cmd |-> "cmd_in_card_brc", user |-> RiichiCity!Uid(t2, m2.seat)]

LEMMA RiichiTakes ==
  ASSUME NEW t, NEW t2, NEW m2, TableOK(t), TableOK(t2), HasDrawn(t, t2, m2), NEW b,
         b \in RiichiBridges,
         RiichiKnows(t, b.status), RiichiHand(t, b.status)
  PROVE  \E b2 : /\ Becomes("riichi_city", b, RiichiTile(t2, m2), b2, Accepts(t.pending) \o <<Ev("tsumo", t2.turn)>>)
                 /\ b2 \in RiichiBridges /\ b2.status = Drawn(Calm(b.status), t2.turn)
                 /\ (t2.turn = t2.me => b2.window)
<1>1. /\ t2.n = t.n /\ t2.me = t.me /\ t2.shift = t.shift /\ t2.turn \in 0..(t.n - 1)
      /\ m2.seat = t2.turn
  BY TableFields DEF HasDrawn, SameHand, SameGame
<1>2. PICK a, f, s : a = t2.turn /\ f = RiichiTile(t2, m2) /\ s = Drawn(Calm(b.status), a)
  OBVIOUS
<1>3. b.status \in RiichiStatuses /\ s \in RiichiStatuses
  BY <1>2, RiichiDrawn DEF RiichiBridges
<1>4. RiichiCity!flush_pending_reach(b) = Accepts(t.pending) /\ RiichiCity!flush_pending_reach(Opened(b)) = Accepts(t.pending)
  <2>1. b.status.pending_reach = t.pending /\ Opened(b).status.pending_reach = t.pending
    BY RiichiWindow DEF RiichiHand
  <2>. QED
    BY <2>1, RiichiFlush
<1>5. RiichiCity!Ev("tsumo", a) = Ev("tsumo", a)
  BY RiichiEv
<1>6. CASE a = t2.me
  <2>1. f = [cmd |-> "cmd_send_current_action", in_card |-> TRUE]
    BY <1>1, <1>2, <1>6 DEF RiichiTile
  <2>2. f.cmd = "cmd_send_current_action" /\ f.in_card
    BY <2>1
  <2>3. PICK c, b2 : c = Opened(b) /\ b2 = Status(c, s)
    OBVIOUS
  <2>4. c \in RiichiBridges /\ c.status = b.status /\ c.window
    BY <2>3, RiichiWindow
  <2>5. b2 \in RiichiBridges /\ b2.status = s /\ b2.window
    BY <1>3, <2>3, <2>4, RiichiStatus
  <2>6. RiichiCity!flushed(c) = Status(c, Calm(c.status)) /\ c.status.seat = a
    <3>1. b.status.seat = t.me
      BY DEF RiichiKnows
    <3>. QED
      BY <1>1, <1>6, <2>4, <3>1, RiichiCalm
  <2>7. [RiichiCity!flushed(c) EXCEPT !.status.drawn_by = c.status.seat] = b2
    <3>1. [Status(c, Calm(c.status)) EXCEPT !.status.drawn_by = a] = Status(c, Drawn(Calm(c.status), a))
      BY <2>4 DEF Status, Drawn, RiichiBridges
    <3>. QED
      BY <1>2, <2>3, <2>4, <2>6, <3>1
  <2>8. RiichiCity!on_send_current_action(c, f) =
          [bridge |-> b2, events |-> Accepts(t.pending) \o <<Ev("tsumo", a)>>]
    BY <1>4, <1>5, <2>2, <2>3, <2>6, <2>7 DEF RiichiCity!on_send_current_action, RiichiCity!Out
  <2>9. ParseOf("riichi_city", b, f) = RiichiCity!on_send_current_action(c, f)
    BY <2>2, <2>3, RiichiParse
  <2>10. Becomes("riichi_city", b, f, b2, Accepts(t.pending) \o <<Ev("tsumo", a)>>)
    BY <2>8, <2>9 DEF Becomes
  <2>. QED
    BY <1>2, <2>5, <2>10
<1>7. CASE a # t2.me
  <2>1. f = [cmd |-> "cmd_in_card_brc", user |-> RiichiCity!Uid(t2, a)]
    BY <1>1, <1>2, <1>7 DEF RiichiTile
  <2>2. f.cmd = "cmd_in_card_brc" /\ f.user = RiichiCity!Uid(t2, a)
    BY <2>1
  <2>3. PICK b2 : b2 = Status(b, s)
    OBVIOUS
  <2>4. b2 \in RiichiBridges /\ b2.status = s
    BY <1>3, <2>3, RiichiStatus
  <2>5. RiichiCity!actor_of(b.status, f.user) = a
    <3>1. RiichiCity!Uid(t2, a) = RiichiCity!Uid(t, a) /\ b.status.list = Places(t)
      BY <1>1 DEF RiichiCity!Uid, RiichiKnows
    <3>. QED
      BY <1>1, <1>2, <2>2, <3>1, RiichiActor
  <2>6. RiichiCity!flushed(b) = Status(b, Calm(b.status))
    BY RiichiCalm
  <2>7. [RiichiCity!flushed(b) EXCEPT !.status.drawn_by = a] = b2
    <3>1. [Status(b, Calm(b.status)) EXCEPT !.status.drawn_by = a] = Status(b, Drawn(Calm(b.status), a))
      BY DEF Status, Drawn, RiichiBridges
    <3>. QED
      BY <1>2, <2>3, <2>6, <3>1
  <2>8. RiichiCity!on_in_card_brc(b, f) =
          [bridge |-> b2, events |-> Accepts(t.pending) \o <<Ev("tsumo", a)>>]
    BY <1>4, <1>5, <2>5, <2>7 DEF RiichiCity!on_in_card_brc, RiichiCity!Out
  <2>9. ParseOf("riichi_city", b, f) = RiichiCity!on_in_card_brc(b, f)
    BY <2>2, RiichiParse
  <2>10. Becomes("riichi_city", b, f, b2, Accepts(t.pending) \o <<Ev("tsumo", a)>>)
    BY <2>8, <2>9 DEF Becomes
  <2>. QED
    BY <1>2, <1>7, <2>4, <2>10
<1>. QED
  BY <1>6, <1>7

LEMMA RiichiPlays ==
  ASSUME NEW t2, NEW m2, t2.stage \in {"act", "open"}, NEW b2, RiichiGood(t2, m2, b2), NEW v2,
         NEW r2, Hand(t2, t2.pending, v2, r2),
         m2.kind = "discard" => v2.floor = m2.seat /\ v2.dora = t2.shown /\ v2.giri = m2.giri,
         v2.dora + b2.status.pending_dora + Late(t2) = t2.shown + t2.due
  PROVE  RiichiSeen(t2, m2, b2, v2, r2)
BY DEF RiichiSeen, ViewGood, Playing

(* The bridge in a hand.                                                     *)
LEMMA RiichiInHand ==
  ASSUME NEW t, TableOK(t), t.stage \in {"act", "open"}, NEW m, NEW b, NEW v, NEW r,
         RiichiSeen(t, m, b, v, r)
  PROVE  /\ b \in RiichiBridges /\ b.status \in RiichiStatuses /\ RiichiKnows(t, b.status)
         /\ RiichiHand(t, b.status)
         /\ Hand(t, t.pending, v, r) /\ v \in Views /\ v.dora \in Nat
         /\ b.status.pending_dora \in Nat
         /\ v.dora + b.status.pending_dora + Late(t) = t.shown + t.due /\ t.shown \in Nat
         /\ t.due \in Nat
<1>1. RiichiGood(t, m, b) /\ Hand(t, t.pending, v, r) /\ v.dora + b.status.pending_dora + Late(t) = t.shown + t.due
  BY DEF RiichiSeen, ViewGood, Playing
<1>2. b \in RiichiBridges /\ RiichiKnows(t, b.status) /\ RiichiHand(t, b.status)
  BY <1>1 DEF RiichiGood
<1>. QED
  BY <1>1, <1>2, TableFields DEF RiichiBridges, RiichiStatuses, Hand, Views

LEMMA RiichiDraws ==
  ASSUME NEW t, NEW t2, NEW m, NEW m2, TableOK(t), TableOK(t2), HasDrawn(t, t2, m2), NEW b, NEW v,
         NEW r, RiichiSeen(t, m, b, v, r)
  PROVE  \E b2, v2, r2 : Runs("riichi_city", b, v, r, RiichiCity!Frames(t, t2, m2), b2, v2, r2) /\ RiichiSeen(t2, m2, b2, v2, r2)
<1>1. /\ t.stage = "open" /\ t2.stage = "act" /\ t2.n = t.n /\ t2.me = t.me /\ t2.shown = t.shown
      /\ t2.due = t.due /\ ~t2.offer
      /\ m2.kind = "draw" /\ m2.call = t.kan /\ t2.pending = None /\ m2.seat = t2.turn
      /\ t2.games = t.games /\ t.games > 0
  BY DEF HasDrawn, SameHand, SameGame, TableOK, Stage
<1>2. /\ b \in RiichiBridges /\ RiichiKnows(t, b.status) /\ RiichiHand(t, b.status)
      /\ Hand(t, t.pending, v, r) /\ v \in Views
      /\ v.dora + b.status.pending_dora + Late(t) = t.shown + t.due
  BY <1>1, RiichiInHand
<1>3. PICK b1 : /\ Runs("riichi_city", b, v, r, RiichiBao(t.kan), b1, v, r)
                /\ b1 \in RiichiBridges /\ b1.window = b.window
                /\ RiichiKnows(t, b1.status) /\ RiichiHand(t, b1.status)
                /\ v.dora + b1.status.pending_dora = t.shown + t.due
  BY <1>1, <1>2, RiichiKanDora
<1>4. PICK f, b2 : /\ f = RiichiTile(t2, m2)
                   /\ Becomes("riichi_city", b1, f, b2, Accepts(t.pending) \o <<Ev("tsumo", t2.turn)>>)
                   /\ b2 \in RiichiBridges /\ b2.status = Drawn(Calm(b1.status), t2.turn)
                   /\ (t2.turn = t2.me => b2.window)
  BY <1>3, RiichiTakes
<1>5. PICK v1, r1 : Plays(v, r, Accepts(t.pending), v1, r1) /\ Hand(Settled(t), None, v1, r1) /\ Same(v, v1)
  BY <1>1, <1>2, SeePassed
<1>6. PICK v2 : Plays(v1, r1, <<Ev("tsumo", t2.turn)>>, v2, r1) /\ Hand(t2, None, v2, r1) /\ v2.dora = v1.dora
  BY <1>5, SeeTsumo
<1>7. Runs("riichi_city", b1, v, r, <<f>>, b2, v2, r1)
  <2>1. Plays(v, r, Accepts(t.pending) \o <<Ev("tsumo", t2.turn)>>, v2, r1)
    BY <1>5, <1>6, PlaysBoth
  <2>. QED
    BY <1>4, <2>1, RunsFrame
<1>8. Runs("riichi_city", b, v, r, RiichiCity!Frames(t, t2, m2), b2, v2, r1)
  <2>1. RiichiCity!Frames(t, t2, m2) = RiichiBao(t.kan) \o <<f>>
    BY <1>1, <1>4, Zenon DEF RiichiCity!Frames, RiichiCity!Prompt, RiichiBao, RiichiTile
  <2>. QED
    BY <1>3, <1>7, <2>1, RunsBoth
<1>9. /\ RiichiKnows(t2, b2.status) /\ RiichiHand(t2, b2.status)
      /\ b2.status.pending_dora = b1.status.pending_dora
  <2>1. b1.status \in RiichiStatuses
    BY <1>3 DEF RiichiBridges
  <2>. QED
    BY <1>3, <1>4, <2>1, RiichiDrawn
<1>10. RiichiGood(t2, m2, b2)
  <2>1. OwedAt(t2) => b2.window
    BY <1>1, <1>4 DEF OwedAt
  <2>. QED
    BY <1>1, <1>4, <1>9, <2>1 DEF RiichiGood
<1>11. v2.dora + b2.status.pending_dora + Late(t2) = t2.shown + t2.due
  <2>1. Late(t2) = 0 /\ v2.dora = v.dora
    BY <1>1, <1>5, <1>6 DEF Late, Same
  <2>2. b1.status.pending_dora \in Nat /\ v.dora \in Nat
    BY <1>2, <1>3 DEF RiichiBridges, RiichiStatuses, Views
  <2>. QED
    BY <1>1, <1>3, <1>9, <2>1, <2>2
<1>12. RiichiSeen(t2, m2, b2, v2, r1)
  BY <1>1, <1>6, <1>10, <1>11, RiichiPlays
<1>. QED
  BY <1>8, <1>12

RiichiDone(b, es) == [bridge |-> b, events |-> es]
RiichiTarget(s, a, action) ==
  CASE action = "chi" -> (a + s.players - 1) % s.players
    [] action \in {"pon", "daiminkan"} /\ s.last_dahai # Nobody -> s.last_dahai
    [] OTHER -> a
RiichiMelded(s, a, action) == [Ev(action, a) EXCEPT !.target = RiichiTarget(s, a, action)]

(* The actor of an action, and the acceptance that goes out before it.       *)
LEMMA RiichiActing ==
  ASSUME NEW b, b \in RiichiBridges, NEW user, NEW a, RiichiCity!actor_of(b.status, user) = a,
         NEW c, c = RiichiCity!flushed(b)
  PROVE  /\ RiichiCity!actor_of(c.status, user) = a
         /\ c.status.players = b.status.players /\ c.status.last_dahai = b.status.last_dahai
         /\ IsSeq(RiichiCity!flush_pending_reach(b))
<1>1. c = Status(b, Calm(b.status)) /\ Calm(b.status) \in RiichiStatuses
  BY RiichiCalm
<1>2. c \in RiichiBridges /\ c.status = Calm(b.status)
  BY <1>1, RiichiStatus
<1>3. /\ c.status.list = b.status.list /\ c.status.players = b.status.players
      /\ c.status.last_dahai = b.status.last_dahai
  BY <1>2, RiichiCalm
<1>4. RiichiCity!actor_of(c.status, user) = a
  BY <1>3 DEF RiichiCity!actor_of
<1>5. IsSeq(RiichiCity!flush_pending_reach(b))
  <2>1. PICK es : es = RiichiCity!flush_pending_reach(b)
    OBVIOUS
  <2>2. es = <<>> \/ \E x : es = <<x>>
    BY <2>1 DEF RiichiCity!flush_pending_reach
  <2>. QED
    BY <2>1, <2>2, EmptyIsSeq, OneIsSeq
<1>. QED
  BY <1>3, <1>4, <1>5

LEMMA RiichiOnWin ==
  ASSUME NEW b, b \in RiichiBridges, NEW f, NEW a, RiichiCity!actor_of(b.status, f.user) = a,
         f.action = "win"
  PROVE  RiichiCity!on_game_action_brc(b, f) = RiichiDone(RiichiCity!flushed(b), RiichiCity!flush_pending_reach(b))
<1>1. PICK c, es : c = RiichiCity!flushed(b) /\ es = RiichiCity!flush_pending_reach(b)
  OBVIOUS
<1>2. IsSeq(es)
  BY <1>1, RiichiActing
<1>3. es \o <<>> = es
  BY <1>2, NothingElse
<1>4. RiichiCity!on_game_action_brc(b, f) = [RiichiCity!Out(c, <<>>) EXCEPT !.events = es \o @]
  BY <1>1 DEF RiichiCity!on_game_action_brc
<1>. QED
  BY <1>1, <1>3, <1>4 DEF RiichiCity!Out, RiichiDone

LEMMA RiichiOnDahai ==
  ASSUME NEW b, b \in RiichiBridges, NEW f, NEW a, RiichiCity!actor_of(b.status, f.user) = a,
         f.action = "dahai", NEW d,
         d = RiichiCity!discarded(RiichiCity!flushed(b), f, a)
  PROVE  RiichiCity!on_game_action_brc(b, f) = RiichiDone(d.bridge, RiichiCity!flush_pending_reach(b) \o d.events)
<1>1. PICK c, es : c = RiichiCity!flushed(b) /\ es = RiichiCity!flush_pending_reach(b)
  OBVIOUS
<1>2. RiichiCity!actor_of(c.status, f.user) = a
  BY <1>1, RiichiActing
<1>3. d = [bridge |-> d.bridge, events |-> d.events]
  BY DEF RiichiCity!discarded, RiichiCity!Out
<1>4. RiichiCity!on_game_action_brc(b, f) = [d EXCEPT !.events = es \o @]
  BY <1>1, <1>2 DEF RiichiCity!on_game_action_brc
<1>. QED
  BY <1>1, <1>3, <1>4 DEF RiichiDone

LEMMA RiichiOnMeld ==
  ASSUME NEW b, b \in RiichiBridges, NEW f, NEW a, RiichiCity!actor_of(b.status, f.user) = a,
         f.action \in Calls \cup OwnKans, NEW c,
         c = RiichiCity!flushed(b)
  PROVE  RiichiCity!on_game_action_brc(b, f) =
           RiichiDone(Status(c, RiichiCity!counted(c.status, a, f.action)),
                      RiichiCity!flush_pending_reach(b) \o <<RiichiMelded(b.status, a, f.action)>>)
<1>1. /\ RiichiCity!actor_of(c.status, f.user) = a
      /\ c.status.players = b.status.players /\ c.status.last_dahai = b.status.last_dahai
  BY RiichiActing
<1>2. PICK k, es : k = f.action /\ es = RiichiCity!flush_pending_reach(b)
  OBVIOUS
<1>3. k \in {"chi", "pon", "daiminkan", "ankan", "kakan", "kita"} /\ k # "win" /\ k # "dahai"
  BY <1>2 DEF Calls, OwnKans
<1>4. PICK g : g = RiichiTarget(b.status, a, k)
  OBVIOUS
<1>5. g = CASE f.action = "chi" -> (a + c.status.players - 1) % c.status.players
            [] f.action \in {"pon", "daiminkan"} /\ c.status.last_dahai # RiichiCity!Nobody -> c.status.last_dahai
            [] OTHER -> a
  BY <1>1, <1>2, <1>4, RiichiNobody DEF RiichiTarget
<1>6. RiichiCity!on_game_action_brc(b, f) =
        [RiichiCity!Out([c EXCEPT !.status = RiichiCity!counted(c.status, a, f.action)], <<[RiichiCity!Ev(f.action, a) EXCEPT !.target = g]>>)
           EXCEPT !.events = es \o @]
  BY <1>1, <1>2, <1>3, <1>5 DEF RiichiCity!on_game_action_brc
<1>7. RiichiMelded(b.status, a, f.action) = [RiichiCity!Ev(f.action, a) EXCEPT !.target = g]
  BY <1>2, <1>4, RiichiEv DEF RiichiMelded
<1>. QED
  BY <1>2, <1>6, <1>7 DEF RiichiCity!Out, RiichiDone, Status

(* A tile is given up.                                                       *)
Gave(s, a, p) == [s EXCEPT !.drawn_by = Nobody, !.last_dahai = a, !.pending_dora = 0, !.pending_reach = p]

LEMMA RiichiGave ==
  ASSUME NEW t, NEW t2, NEW m2, TableOK(t), TableOK(t2), HasDiscarded(t, t2, m2), NEW s,
         s \in RiichiStatuses,
         RiichiKnows(t, s), RiichiHand(t, s)
  PROVE  /\ Gave(s, t.turn, t2.pending) \in RiichiStatuses
         /\ RiichiKnows(t2, Gave(s, t.turn, t2.pending))
         /\ RiichiHand(t2, Gave(s, t.turn, t2.pending))
         /\ Gave(s, t.turn, t2.pending).pending_dora = 0
<1>1. t.turn \in 0..(t.n - 1) /\ t.turn \in 0..9 /\ Nobody \in 0..9 /\ t2.pending \in 0..9
  BY TableFields, SeatSpan, RiichiNobody
<1>2. PICK a, p, s2 : a = t.turn /\ p = t2.pending /\ s2 = Gave(s, a, p)
  OBVIOUS
<1>3. /\ s2 \in RiichiStatuses /\ s2.pending_reach = p /\ s2.list = s.list /\ s2.seat = s.seat
      /\ s2.players = s.players
      /\ s2.shift = s.shift /\ s2.owes_start = s.owes_start /\ s2.last_dahai = a
      /\ s2.drawn_by = Nobody
      /\ s2.melds = s.melds /\ s2.pending_dora = 0
  BY <1>1, <1>2 DEF RiichiStatuses, Gave
<1>4. /\ t2.n = t.n /\ t2.me = t.me /\ t2.shift = t.shift /\ t2.melds = t.melds
      /\ t2.stage = "open" /\ t2.turn = t.turn
  BY DEF HasDiscarded, SameHand, SameGame
<1>5. Places(t2) = Places(t)
  BY <1>4 DEF Places, RiichiCity!Uid
<1>6. RiichiKnows(t2, s2)
  BY <1>1, <1>2, <1>3, <1>4, <1>5 DEF RiichiKnows
<1>7. RiichiHand(t2, s2)
  BY <1>2, <1>3, <1>4 DEF RiichiHand
<1>. QED
  BY <1>2, <1>3, <1>6, <1>7

RiichiDahai(t2, m2) ==
  [RiichiCity!Act(t2, m2, "dahai") EXCEPT !.li_zhi = m2.riichi, !.slot = RiichiCity!Rack(t2, m2.seat) - (IF m2.last THEN 0 ELSE 1)]
Announced(riichi, a) == IF riichi THEN <<Ev("reach", a)>> ELSE <<>>
DahaiOf(a, giri) == [Ev("dahai", a) EXCEPT !.giri = giri]

(* The events of a discard: its riichi, the tile, the indicators due.        *)
LEMMA RiichiGives ==
  ASSUME NEW t, NEW t2, NEW m2, TableOK(t), TableOK(t2), HasDiscarded(t, t2, m2), NEW b,
         b \in RiichiBridges,
         RiichiKnows(t, b.status), RiichiHand(t, b.status), NEW k, k = b.status.pending_dora
  PROVE  \E b2 : /\ Becomes("riichi_city", b, RiichiDahai(t2, m2), b2,
                            Announced(m2.riichi, t.turn) \o <<DahaiOf(t.turn, m2.giri)>> \o Indicators(k))
                 /\ b2 \in RiichiBridges /\ b2.status = Gave(b.status, t.turn, t2.pending)
                 /\ ~b2.window
<1>1. /\ t2.n = t.n /\ t2.me = t.me /\ t2.shift = t.shift /\ t2.melds = t.melds
      /\ t.turn \in 0..(t.n - 1) /\ m2.seat = t.turn
      /\ t.stage = "act" /\ t.pending = None /\ t2.pending = (IF m2.riichi THEN t.turn ELSE None)
      /\ m2.last \in BOOLEAN /\ m2.riichi \in BOOLEAN /\ m2.giri \in BOOLEAN
      /\ m2.giri = (m2.last /\ t.drew)
  BY TableFields DEF HasDiscarded, SameHand, SameGame, TableOK, Stage
<1>2. PICK a, f, s, c : a = t.turn /\ f = RiichiDahai(t2, m2) /\ s = b.status /\ c = Shut(b)
  OBVIOUS
<1>3. c \in RiichiBridges /\ c.status = s /\ ~c.window /\ s \in RiichiStatuses
  BY <1>2, RiichiWindow DEF RiichiBridges
<1>4. RiichiCity!flush_pending_reach(c) = <<>>
  <2>1. c.status.pending_reach = None
    BY <1>1, <1>2, <1>3 DEF RiichiHand
  <2>2. RiichiCity!flush_pending_reach(c) = Accepts(None)
    BY <2>1, RiichiFlush
  <2>. QED
    BY <2>2 DEF Accepts
<1>5. /\ f.cmd = "cmd_game_action_brc" /\ f.user = RiichiCity!Uid(t2, a) /\ f.action = "dahai"
      /\ f.li_zhi = m2.riichi
      /\ f.slot = (13 - 3 * t.melds[a] + 1) - (IF m2.last THEN 0 ELSE 1)
  <2>1. PICK x, y : x = m2.riichi /\ y = RiichiCity!Rack(t2, m2.seat) - (IF m2.last THEN 0 ELSE 1)
    OBVIOUS
  <2>2. f = [[cmd |-> "cmd_game_action_brc", user |-> RiichiCity!Uid(t2, m2.seat), action |-> "dahai", slot |-> 0, li_zhi |-> FALSE]
               EXCEPT !.li_zhi = x, !.slot = y]
    BY <1>2, <2>1 DEF RiichiDahai, RiichiCity!Act
  <2>3. /\ f.cmd = "cmd_game_action_brc" /\ f.user = RiichiCity!Uid(t2, m2.seat)
        /\ f.action = "dahai" /\ f.li_zhi = x /\ f.slot = y
    BY <2>2
  <2>4. y = (13 - 3 * t.melds[a] + 1) - (IF m2.last THEN 0 ELSE 1)
    BY <1>1, <1>2, <2>1 DEF RiichiCity!Rack
  <2>. QED
    BY <1>1, <1>2, <2>1, <2>3, <2>4
<1>6. RiichiCity!actor_of(c.status, f.user) = a
  <2>1. RiichiCity!Uid(t2, a) = RiichiCity!Uid(t, a) /\ s.list = Places(t)
    BY <1>1, <1>2 DEF RiichiCity!Uid, RiichiKnows
  <2>. QED
    BY <1>1, <1>2, <1>3, <1>5, <2>1, RiichiActor
<1>7. PICK d : d = RiichiCity!flushed(c)
  OBVIOUS
<1>8. d = Status(c, Calm(s)) /\ Calm(s) \in RiichiStatuses
  BY <1>3, <1>7, RiichiCalm
<1>9. d \in RiichiBridges /\ d.status = Calm(s) /\ ~d.window
  BY <1>3, <1>8, RiichiStatus
<1>10. Calm(s).drawn_by = s.drawn_by /\ Calm(s).melds = s.melds /\ Calm(s).pending_dora = k
  BY <1>2, <1>3, RiichiCalm
<1>11. PICK es : es = Announced(m2.riichi, a) \o <<DahaiOf(a, m2.giri)>> \o Indicators(k)
  OBVIOUS
<1>12. PICK b2, s2 : s2 = Gave(s, a, t2.pending) /\ b2 = Status(c, s2)
  OBVIOUS
<1>13. s2 \in RiichiStatuses
  BY <1>2, <1>3, <1>12, RiichiGave
<1>14. b2 \in RiichiBridges /\ b2.status = s2 /\ ~b2.window
  BY <1>3, <1>12, <1>13, RiichiStatus
<1>15. m2.giri <=> d.status.drawn_by = a /\ f.slot = 13 - 3 * d.status.melds[a] + 1
  <2>1. s.melds[a] = t.melds[a] /\ (s.drawn_by = a <=> t.drew) /\ t.melds[a] \in 0..4
    <3>1. a # Nobody /\ t.melds[a] \in 0..4 /\ t.drew \in BOOLEAN
      BY <1>1, <1>2, SeatSpan, TableFields, RackLen
    <3>. QED
      BY <1>1, <1>2, <3>1 DEF RiichiHand
  <2>2. f.slot = 13 - 3 * t.melds[a] + 1 <=> m2.last
    BY <1>1, <1>5, <2>1
  <2>. QED
    BY <1>1, <1>9, <1>10, <2>1, <2>2
<1>16. RiichiCity!discarded(d, f, a).bridge = b2
  <2>1. [d EXCEPT !.status.drawn_by = RiichiCity!Nobody, !.status.last_dahai = a, !.status.pending_dora = 0,
                  !.status.pending_reach = IF f.li_zhi THEN a ELSE @] = Status(d, [Calm(s) EXCEPT !.drawn_by = Nobody, !.last_dahai = a, !.pending_dora = 0,
                  !.pending_reach = IF f.li_zhi THEN a ELSE @])
    BY <1>9, RiichiNobody DEF Status, RiichiBridges
  <2>2. [Calm(s) EXCEPT !.drawn_by = Nobody, !.last_dahai = a, !.pending_dora = 0,
                  !.pending_reach = IF f.li_zhi THEN a ELSE @] = Gave(s, a, t2.pending)
    <3>1. t2.pending = IF f.li_zhi THEN a ELSE Nobody
      BY <1>1, <1>2, <1>5, RiichiNobody
    <3>. QED
      BY <1>3, <3>1 DEF Calm, Gave, RiichiStatuses
  <2>3. Status(d, s2) = Status(c, s2)
    BY <1>3, <1>8 DEF Status, RiichiBridges
  <2>4. RiichiCity!discarded(d, f, a).bridge = [d EXCEPT !.status.drawn_by = RiichiCity!Nobody, !.status.last_dahai = a, !.status.pending_dora = 0,
                  !.status.pending_reach = IF f.li_zhi THEN a ELSE @]
    BY DEF RiichiCity!discarded, RiichiCity!Out
  <2>. QED
    BY <1>12, <2>1, <2>2, <2>3, <2>4
<1>17. RiichiCity!discarded(d, f, a).events = es
  <2>1. PICK g : g = (d.status.drawn_by = a /\ f.slot = 13 - 3 * d.status.melds[a] + 1)
    OBVIOUS
  <2>2. g = m2.giri
    BY <1>1, <1>15, <2>1
  <2>3. RiichiCity!discarded(d, f, a).events =
          (IF f.li_zhi THEN <<RiichiCity!Ev("reach", a)>> ELSE <<>>) \o <<[RiichiCity!Ev("dahai", a) EXCEPT !.giri = g]>>
            \o [i \in 1..d.status.pending_dora |-> RiichiCity!Ev("dora", 0)]
    BY <2>1, Zenon DEF RiichiCity!discarded, RiichiCity!Out
  <2>4. (IF f.li_zhi THEN <<RiichiCity!Ev("reach", a)>> ELSE <<>>) = Announced(m2.riichi, a)
    BY <1>5, RiichiEv DEF Announced
  <2>5. [RiichiCity!Ev("dahai", a) EXCEPT !.giri = g] = DahaiOf(a, m2.giri)
    BY <2>2, RiichiEv DEF DahaiOf
  <2>6. [i \in 1..d.status.pending_dora |-> RiichiCity!Ev("dora", 0)] = Indicators(k)
    BY <1>9, <1>10, RiichiEv DEF Indicators, Dora
  <2>. QED
    BY <1>11, <2>3, <2>4, <2>5, <2>6
<1>18. RiichiCity!on_game_action_brc(c, f) = RiichiDone(b2, <<>> \o es)
  <2>1. PICK e0 : e0 = RiichiCity!flush_pending_reach(c)
    OBVIOUS
  <2>2. RiichiCity!on_game_action_brc(c, f) = RiichiDone(RiichiCity!discarded(d, f, a).bridge, e0 \o RiichiCity!discarded(d, f, a).events)
    BY <1>3, <1>5, <1>6, <1>7, <2>1, RiichiOnDahai
  <2>. QED
    BY <1>4, <1>16, <1>17, <2>1, <2>2
<1>19. <<>> \o es = es
  <2>1. IsSeq(es)
    <3>1. k \in Nat
      BY <1>2, <1>3 DEF RiichiStatuses
    <3>2. IsSeq(Indicators(k))
      BY <3>1, TimesIsSeq DEF Indicators
    <3>3. IsSeq(Announced(m2.riichi, a))
      BY EmptyIsSeq, OneIsSeq DEF Announced
    <3>. QED
      BY <1>11, <3>2, <3>3, OneIsSeq, Joined
  <2>. QED
    BY <2>1, NothingElse
<1>20. Becomes("riichi_city", b, f, b2, es)
  <2>1. ParseOf("riichi_city", b, f) = RiichiCity!on_game_action_brc(c, f)
    BY <1>2, <1>5, RiichiParse
  <2>. QED
    BY <1>18, <1>19, <2>1 DEF Becomes, RiichiDone
<1>. QED
  BY <1>2, <1>11, <1>12, <1>14, <1>20

(* A tile that is offered to us opens the window.                            *)
LEMMA RiichiOffers ==
  ASSUME NEW t, t.offer \in BOOLEAN, NEW b, b \in RiichiBridges, ~b.window, NEW v, NEW r
  PROVE  \E b2 : /\ Runs("riichi_city", b, v, r, RiichiCity!Offer(t), b2, v, r)
                 /\ b2 \in RiichiBridges /\ b2.status = b.status /\ (b2.window <=> t.offer)
<1>1. CASE t.offer
  <2>1. PICK f : f = [cmd |-> "cmd_send_other_action"]
    OBVIOUS
  <2>2. RiichiCity!Offer(t) = <<f>> /\ f.cmd = "cmd_send_other_action"
    BY <1>1, <2>1 DEF RiichiCity!Offer
  <2>3. Becomes("riichi_city", b, f, Opened(b), <<>>)
    BY <2>2, RiichiParse DEF Becomes, Told
  <2>4. Runs("riichi_city", b, v, r, <<f>>, Opened(b), v, r)
    <3>1. Plays(v, r, <<>>, v, r)
      BY PlaysNothing
    <3>. QED
      BY <2>3, <3>1, RunsFrame
  <2>. QED
    BY <1>1, <2>2, <2>4, RiichiWindow
<1>2. CASE ~t.offer
  <2>1. RiichiCity!Offer(t) = <<>>
    BY <1>2 DEF RiichiCity!Offer
  <2>2. Runs("riichi_city", b, v, r, <<>>, b, v, r)
    BY RunsNothing
  <2>. QED
    BY <1>2, <2>1, <2>2
<1>. QED
  BY <1>1, <1>2

LEMMA SeeDeclared ==
  ASSUME NEW t, NEW t2, NEW m2, TableOK(t), HasDiscarded(t, t2, m2), NEW v, NEW r,
         Hand(t, None, v, r)
  PROVE  \E v1 : Plays(v, r, Announced(m2.riichi, t.turn), v1, r) /\ Hand(t, Declared(t, m2), v1, r) /\ Same(v, v1)
<1>1. m2.riichi \in BOOLEAN /\ t.stage = "act" /\ (m2.riichi => t.drew /\ t.turn \notin t.accepted)
  BY DEF HasDiscarded
<1>2. CASE m2.riichi
  <2>1. Announced(m2.riichi, t.turn) = <<Ev("reach", t.turn)>> /\ Declared(t, m2) = t.turn
    BY <1>2 DEF Announced, Declared
  <2>. QED
    BY <1>1, <1>2, <2>1, SeeReach
<1>3. CASE ~m2.riichi
  <2>1. Announced(m2.riichi, t.turn) = <<>> /\ Declared(t, m2) = None
    BY <1>3 DEF Announced, Declared
  <2>2. Plays(v, r, <<>>, v, r) /\ Same(v, v)
    BY PlaysNothing DEF Same
  <2>. QED
    BY <2>1, <2>2
<1>. QED
  BY <1>1, <1>2, <1>3

LEMMA RiichiDiscards ==
  ASSUME NEW t, NEW t2, NEW m, NEW m2, TableOK(t), TableOK(t2), HasDiscarded(t, t2, m2), NEW b,
         NEW v, NEW r, RiichiSeen(t, m, b, v, r)
  PROVE  \E b2, v2, r2 : Runs("riichi_city", b, v, r, RiichiCity!Frames(t, t2, m2), b2, v2, r2) /\ RiichiSeen(t2, m2, b2, v2, r2)
<1>1. /\ t.stage = "act" /\ t2.stage = "open" /\ t2.shown = t.shown + t.due /\ t2.due = 0
      /\ t2.kan = "none"
      /\ m2.kind = "discard" /\ m2.seat = t.turn /\ t2.turn = t.turn /\ t2.games = t.games
      /\ t.games > 0 /\ t.pending = None
      /\ t2.offer \in BOOLEAN
  BY TableFields DEF HasDiscarded, SameHand, SameGame, TableOK, Stage
<1>2. PICK k : k = b.status.pending_dora
  OBVIOUS
<1>3. /\ b \in RiichiBridges /\ RiichiKnows(t, b.status) /\ RiichiHand(t, b.status)
      /\ b.status \in RiichiStatuses
      /\ Hand(t, None, v, r) /\ v.dora \in Nat /\ k \in Nat
      /\ v.dora + k + Late(t) = t.shown + t.due /\ t.shown \in Nat /\ t.due \in Nat
  BY <1>1, <1>2, RiichiInHand
<1>4. PICK f, b1 : /\ f = RiichiDahai(t2, m2)
                   /\ Becomes("riichi_city", b, f, b1, Announced(m2.riichi, t.turn) \o <<DahaiOf(t.turn, m2.giri)>> \o Indicators(k))
                   /\ b1 \in RiichiBridges /\ b1.status = Gave(b.status, t.turn, t2.pending)
                   /\ ~b1.window
  BY <1>2, <1>3, RiichiGives
<1>5. PICK v1 : Plays(v, r, Announced(m2.riichi, t.turn), v1, r) /\ Hand(t, Declared(t, m2), v1, r) /\ Same(v, v1)
  BY <1>3, SeeDeclared
<1>6. PICK v2 : /\ Plays(v1, r, <<DahaiOf(t.turn, m2.giri)>>, v2, r) /\ Hand(t2, t2.pending, v2, r)
                /\ v2.dora = v1.dora /\ v2.floor = t.turn /\ v2.giri = m2.giri
  BY <1>5, SeeDahai DEF DahaiOf
<1>7. PICK v3 : /\ Plays(v2, r, Indicators(k), v3, r) /\ Hand(t2, t2.pending, v3, r)
                /\ v3.dora = v2.dora + k /\ v3.floor = v2.floor /\ v3.giri = v2.giri
  BY <1>3, <1>6, SeeDoras
<1>8. Runs("riichi_city", b, v, r, <<f>>, b1, v3, r)
  <2>1. Plays(v, r, Announced(m2.riichi, t.turn) \o <<DahaiOf(t.turn, m2.giri)>>, v2, r)
    BY <1>5, <1>6, PlaysBoth
  <2>2. Plays(v, r, Announced(m2.riichi, t.turn) \o <<DahaiOf(t.turn, m2.giri)>> \o Indicators(k), v3, r)
    BY <1>7, <2>1, PlaysBoth
  <2>. QED
    BY <1>4, <2>2, RunsFrame
<1>9. PICK b2 : /\ Runs("riichi_city", b1, v3, r, RiichiCity!Offer(t2), b2, v3, r)
                /\ b2 \in RiichiBridges /\ b2.status = b1.status /\ (b2.window <=> t2.offer)
  BY <1>1, <1>4, RiichiOffers
<1>10. Runs("riichi_city", b, v, r, RiichiCity!Frames(t, t2, m2), b2, v3, r)
  <2>1. RiichiCity!Frames(t, t2, m2) = <<f>> \o RiichiCity!Offer(t2)
    BY <1>1, <1>4, Zenon DEF RiichiCity!Frames, RiichiDahai
  <2>. QED
    BY <1>8, <1>9, <2>1, RunsBoth
<1>11. RiichiKnows(t2, b2.status) /\ RiichiHand(t2, b2.status) /\ b2.status.pending_dora = 0
  BY <1>3, <1>4, <1>9, RiichiGave
<1>12. RiichiGood(t2, m2, b2)
  <2>1. OwedAt(t2) <=> t2.offer
    BY <1>1 DEF OwedAt
  <2>. QED
    BY <1>1, <1>9, <1>11, <2>1 DEF RiichiGood
<1>13. v3.dora = t2.shown /\ v3.dora + b2.status.pending_dora + Late(t2) = t2.shown + t2.due
  <2>1. Late(t) = 0 /\ Late(t2) = 0 /\ v3.dora = v.dora + k
    BY <1>1, <1>5, <1>6, <1>7 DEF Late, Same
  <2>. QED
    BY <1>1, <1>3, <1>11, <2>1
<1>14. RiichiSeen(t2, m2, b2, v3, r)
  BY <1>1, <1>6, <1>7, <1>12, <1>13, RiichiPlays
<1>. QED
  BY <1>10, <1>14

(* A meld is counted if it makes the rack shorter.                           *)
Counts(c) == c \in {"chi", "pon", "daiminkan", "ankan"}
MeldOf(c, a, g) == [Ev(c, a) EXCEPT !.target = g]

(* What the bridge knows after a meld.                                       *)
RiichiMeldKnown(t, t2, s, s2) ==
  /\ s2 \in RiichiStatuses /\ RiichiKnows(t2, s2) /\ \A a \in 0..(t.n - 1) : s2.melds[a] = t2.melds[a]
  /\ s2.pending_reach = Nobody /\ s2.drawn_by = s.drawn_by /\ s2.pending_dora = s.pending_dora

LEMMA RiichiMelds ==
  ASSUME NEW t, NEW t2, NEW m2, TableOK(t), TableOK(t2), SameHand(t, t2), NEW a, a = m2.seat,
         a \in 0..(t.n - 1),
         NEW c, c = m2.call, c \in Calls \cup OwnKans,
         t2.melds = IF Counts(c) THEN [t.melds EXCEPT ![a] = @ + 1] ELSE t.melds,
         NEW b, b \in RiichiBridges, RiichiKnows(t, b.status), RiichiHand(t, b.status),
         NEW g, RiichiTarget(b.status, a, c) = g
  PROVE  \E b2 : /\ Becomes("riichi_city", b, RiichiCity!Act(t2, m2, c), b2, Accepts(t.pending) \o <<MeldOf(c, a, g)>>)
                 /\ b2 \in RiichiBridges /\ ~b2.window
                 /\ RiichiMeldKnown(t, t2, b.status, b2.status)
<1>1. /\ t2.n = t.n /\ t2.me = t.me /\ t2.shift = t.shift /\ t.n \in 3..4
  BY TableFields DEF SameHand, SameGame
<1>2. PICK f, s, d : f = RiichiCity!Act(t2, m2, c) /\ s = b.status /\ d = Shut(b)
  OBVIOUS
<1>3. d \in RiichiBridges /\ d.status = s /\ ~d.window /\ s \in RiichiStatuses
  BY <1>2, RiichiWindow DEF RiichiBridges
<1>4. RiichiCity!flush_pending_reach(d) = Accepts(t.pending)
  <2>1. d.status.pending_reach = t.pending
    BY <1>2, <1>3 DEF RiichiHand
  <2>. QED
    BY <2>1, RiichiFlush
<1>5. f.cmd = "cmd_game_action_brc" /\ f.user = RiichiCity!Uid(t2, a) /\ f.action = c
  BY <1>2 DEF RiichiCity!Act
<1>6. RiichiCity!actor_of(d.status, f.user) = a
  <2>1. RiichiCity!Uid(t2, a) = RiichiCity!Uid(t, a) /\ s.list = Places(t)
    BY <1>1, <1>2 DEF RiichiCity!Uid, RiichiKnows
  <2>. QED
    BY <1>1, <1>2, <1>3, <1>5, <2>1, RiichiActor
<1>7. PICK e : e = RiichiCity!flushed(d)
  OBVIOUS
<1>8. e = Status(d, Calm(s)) /\ Calm(s) \in RiichiStatuses
  BY <1>3, <1>7, RiichiCalm
<1>9. e \in RiichiBridges /\ e.status = Calm(s) /\ ~e.window
  BY <1>3, <1>8, RiichiStatus
<1>10. PICK s2, b2 : s2 = RiichiCity!counted(e.status, a, c) /\ b2 = Status(e, s2)
  OBVIOUS
<1>11. /\ s2 \in RiichiStatuses /\ s2.list = s.list /\ s2.seat = s.seat /\ s2.players = s.players
       /\ s2.shift = s.shift /\ s2.owes_start = s.owes_start /\ s2.last_dahai = s.last_dahai
       /\ s2.drawn_by = s.drawn_by
       /\ s2.pending_reach = Nobody /\ s2.pending_dora = s.pending_dora
       /\ s2.melds = IF Counts(c) THEN [s.melds EXCEPT ![a] = @ + 1] ELSE s.melds
  <2>1. PICK z : z = Calm(s)
    OBVIOUS
  <2>2. /\ z \in RiichiStatuses /\ z.pending_reach = Nobody /\ z.list = s.list /\ z.seat = s.seat
        /\ z.players = s.players
        /\ z.shift = s.shift /\ z.owes_start = s.owes_start
        /\ z.last_dahai = s.last_dahai /\ z.drawn_by = s.drawn_by
        /\ z.melds = s.melds /\ z.pending_dora = s.pending_dora
    BY <1>3, <2>1, RiichiCalm
  <2>3. s2 = IF Counts(c) THEN [z EXCEPT !.melds[a] = @ + 1] ELSE z
    BY <1>9, <1>10, <2>1 DEF RiichiCity!counted, Counts
  <2>4. CASE ~Counts(c)
    BY <2>2, <2>3, <2>4
  <2>5. CASE Counts(c)
    <3>1. PICK ml : ml = [s.melds EXCEPT ![a] = @ + 1]
      OBVIOUS
    <3>2. ml \in [0..3 -> Nat]
      <4>1. s.melds \in [0..3 -> Nat] /\ a \in 0..3
        BY <1>1, <1>3 DEF RiichiStatuses
      <4>. QED
        BY <3>1, <4>1
    <3>3. s2 = [z EXCEPT !.melds = ml]
      BY <2>2, <2>3, <2>5, <3>1
    <3>. QED
      BY <2>2, <2>5, <3>1, <3>2, <3>3 DEF RiichiStatuses
  <2>. QED
    BY <2>4, <2>5
<1>12. b2 \in RiichiBridges /\ b2.status = s2 /\ ~b2.window
  BY <1>9, <1>10, <1>11, RiichiStatus
<1>13. \A x \in 0..(t.n - 1) : s2.melds[x] = t2.melds[x]
  <2>1. s.melds \in [0..3 -> Nat] /\ t.melds \in [0..(t.n - 1) -> 0..4] /\ \A x \in 0..(t.n - 1) : s.melds[x] = t.melds[x]
    BY <1>2, <1>3 DEF RiichiStatuses, TableOK, RiichiHand
  <2>. QED
    BY <1>1, <1>11, <2>1
<1>14. RiichiKnows(t2, s2)
  <2>1. Places(t2) = Places(t)
    BY <1>1 DEF Places, RiichiCity!Uid
  <2>. QED
    BY <1>1, <1>2, <1>11, <2>1 DEF RiichiKnows
<1>15. RiichiMeldKnown(t, t2, s, s2)
  BY <1>11, <1>13, <1>14 DEF RiichiMeldKnown
<1>16. Becomes("riichi_city", b, f, b2, Accepts(t.pending) \o <<MeldOf(c, a, g)>>)
  <2>1. ParseOf("riichi_city", b, f) = RiichiCity!on_game_action_brc(d, f)
    BY <1>2, <1>5, RiichiParse
  <2>2. RiichiMelded(d.status, a, f.action) = MeldOf(c, a, g)
    BY <1>2, <1>3, <1>5 DEF RiichiMelded, MeldOf
  <2>3. RiichiCity!on_game_action_brc(d, f) =
           RiichiDone(Status(e, RiichiCity!counted(e.status, a, f.action)),
                      RiichiCity!flush_pending_reach(d) \o <<RiichiMelded(d.status, a, f.action)>>)
    BY <1>3, <1>5, <1>6, <1>7, RiichiOnMeld
  <2>4. RiichiCity!on_game_action_brc(d, f) = RiichiDone(b2, Accepts(t.pending) \o <<MeldOf(c, a, g)>>)
    BY <1>4, <1>5, <1>10, <2>2, <2>3
  <2>. QED
    BY <2>1, <2>4 DEF Becomes, RiichiDone
<1>. QED
  BY <1>2, <1>12, <1>15, <1>16

(* Our own call of a tile is answered with a prompt that brings none.        *)
RiichiAsked(t2, m2) == IF m2.call # "daiminkan" /\ m2.seat = t2.me THEN RiichiCity!Prompt(FALSE) ELSE <<>>

LEMMA RiichiAsks ==
  ASSUME NEW t2, NEW m2, NEW b, b \in RiichiBridges, ~b.window, b.status.pending_reach = Nobody,
         NEW v, NEW r
  PROVE  \E b2 : /\ Runs("riichi_city", b, v, r, RiichiAsked(t2, m2), b2, v, r)
                 /\ b2 \in RiichiBridges /\ b2.status = b.status
                 /\ (b2.window <=> m2.call # "daiminkan" /\ m2.seat = t2.me)
<1>1. CASE m2.call # "daiminkan" /\ m2.seat = t2.me
  <2>1. PICK f, c : f = [cmd |-> "cmd_send_current_action", in_card |-> FALSE] /\ c = Opened(b)
    OBVIOUS
  <2>2. RiichiAsked(t2, m2) = <<f>> /\ f.cmd = "cmd_send_current_action" /\ ~f.in_card
    BY <1>1, <2>1 DEF RiichiAsked, RiichiCity!Prompt
  <2>3. c \in RiichiBridges /\ c.status = b.status /\ c.window
    BY <2>1, RiichiWindow
  <2>4. RiichiCity!flushed(c) = c
    <3>1. RiichiCity!flushed(c) = Status(c, Calm(c.status))
      BY <2>3, RiichiCalm
    <3>2. Calm(c.status) = c.status
      BY <2>3 DEF Calm, RiichiBridges, RiichiStatuses
    <3>. QED
      BY <2>3, <3>1, <3>2 DEF Status, RiichiBridges
  <2>5. RiichiCity!flush_pending_reach(c) = <<>>
    BY <2>3, RiichiNobody DEF RiichiCity!flush_pending_reach
  <2>6. RiichiCity!on_send_current_action(c, f) = Told(c)
    BY <2>2, <2>4, <2>5 DEF RiichiCity!on_send_current_action, RiichiCity!Out, Told
  <2>7. Becomes("riichi_city", b, f, c, <<>>)
    BY <2>1, <2>2, <2>6, RiichiParse DEF Becomes, Told
  <2>8. Runs("riichi_city", b, v, r, <<f>>, c, v, r)
    <3>1. Plays(v, r, <<>>, v, r)
      BY PlaysNothing
    <3>. QED
      BY <2>7, <3>1, RunsFrame
  <2>. QED
    BY <1>1, <2>2, <2>3, <2>8
<1>2. CASE ~(m2.call # "daiminkan" /\ m2.seat = t2.me)
  <2>1. RiichiAsked(t2, m2) = <<>>
    BY <1>2 DEF RiichiAsked
  <2>2. Runs("riichi_city", b, v, r, <<>>, b, v, r)
    BY RunsNothing
  <2>. QED
    BY <1>2, <2>1, <2>2
<1>. QED
  BY <1>1, <1>2

LEMMA RiichiCalls ==
  ASSUME NEW t, NEW t2, NEW m, NEW m2, TableOK(t), TableOK(t2), HasCalled(t, t2, m2), NEW b, NEW v,
         NEW r, RiichiSeen(t, m, b, v, r)
  PROVE  \E b2, v2, r2 : Runs("riichi_city", b, v, r, RiichiCity!Frames(t, t2, m2), b2, v2, r2) /\ RiichiSeen(t2, m2, b2, v2, r2)
<1>1. /\ t.stage = "open" /\ t2.shown = t.shown /\ t.kan = "none"
      /\ m2.kind = "call" /\ t2.turn = m2.seat /\ t2.games = t.games /\ t.games > 0
      /\ t2.pending = None /\ SameHand(t, t2)
      /\ ~t2.offer /\ m2.call \in Calls /\ m2.seat \in 0..(t.n - 1) /\ ~t2.drew /\ t2.me = t.me
      /\ t2.melds = [t.melds EXCEPT ![m2.seat] = @ + 1] /\ t.turn \in 0..(t.n - 1) /\ t.n \in 3..4
      /\ t2.n = t.n
      /\ (m2.call = "chi" => t.n = 4 /\ m2.seat = (t.turn + 1) % t.n)
  BY TableFields DEF HasCalled, SameHand, SameGame, TableOK, Stage
<1>2. PICK k, a, c, g : k = b.status.pending_dora /\ a = m2.seat /\ c = m2.call /\ g = t.turn
  OBVIOUS
<1>3. /\ b \in RiichiBridges /\ RiichiKnows(t, b.status) /\ RiichiHand(t, b.status)
      /\ b.status \in RiichiStatuses
      /\ Hand(t, t.pending, v, r) /\ v.dora \in Nat /\ k \in Nat
      /\ v.dora + k + Late(t) = t.shown + t.due /\ t.shown \in Nat /\ t.due \in Nat
  BY <1>1, <1>2, RiichiInHand
<1>4. RiichiTarget(b.status, a, c) = g
  <2>1. b.status.last_dahai = g /\ g # Nobody /\ b.status.players = t.n
    BY <1>1, <1>2, <1>3, SeatSpan DEF RiichiHand, RiichiKnows
  <2>2. CASE c = "chi"
    <3>1. t.n = 4 /\ a = (g + 1) % 4 /\ g \in 0..3
      BY <1>1, <1>2, <2>2
    <3>2. (a + 4 - 1) % 4 = g
      BY <3>1
    <3>. QED
      BY <2>1, <2>2, <3>1, <3>2 DEF RiichiTarget
  <2>3. CASE c \in {"pon", "daiminkan"}
    BY <2>1, <2>3 DEF RiichiTarget
  <2>. QED
    BY <1>1, <1>2, <2>2, <2>3 DEF Calls
<1>5. PICK f, b1 : /\ f = RiichiCity!Act(t2, m2, c)
                   /\ Becomes("riichi_city", b, f, b1, Accepts(t.pending) \o <<MeldOf(c, a, g)>>)
                   /\ b1 \in RiichiBridges /\ ~b1.window
                   /\ RiichiMeldKnown(t, t2, b.status, b1.status)
  <2>1. c \in Calls \cup OwnKans
    BY <1>1, <1>2
  <2>2. t2.melds = IF Counts(c) THEN [t.melds EXCEPT ![a] = @ + 1] ELSE t.melds
    BY <1>1, <1>2 DEF Counts, Calls
  <2>. QED
    BY <1>1, <1>2, <1>3, <1>4, <2>1, <2>2, RiichiMelds
<1>6. PICK v1, r1 : Plays(v, r, Accepts(t.pending), v1, r1) /\ Hand(Settled(t), None, v1, r1) /\ Same(v, v1)
  BY <1>1, <1>3, SeePassed
<1>7. PICK v2 : Plays(v1, r1, <<MeldOf(c, a, g)>>, v2, r1) /\ Hand(t2, None, v2, r1) /\ v2.dora = v1.dora
  BY <1>2, <1>6, SeeCall DEF MeldOf
<1>8. Runs("riichi_city", b, v, r, <<f>>, b1, v2, r1)
  <2>1. Plays(v, r, Accepts(t.pending) \o <<MeldOf(c, a, g)>>, v2, r1)
    BY <1>6, <1>7, PlaysBoth
  <2>. QED
    BY <1>5, <2>1, RunsFrame
<1>9. PICK b2 : /\ Runs("riichi_city", b1, v2, r1, RiichiAsked(t2, m2), b2, v2, r1)
                /\ b2 \in RiichiBridges /\ b2.status = b1.status
                /\ (b2.window <=> m2.call # "daiminkan" /\ m2.seat = t2.me)
  <2>1. b1.status.pending_reach = Nobody
    BY <1>5 DEF RiichiMeldKnown
  <2>. QED
    BY <1>5, <2>1, RiichiAsks
<1>10. Runs("riichi_city", b, v, r, RiichiCity!Frames(t, t2, m2), b2, v2, r1)
  <2>1. RiichiCity!Frames(t, t2, m2) = <<f>> \o RiichiAsked(t2, m2)
    BY <1>1, <1>2, <1>5, Zenon DEF RiichiCity!Frames, RiichiAsked
  <2>. QED
    BY <1>8, <1>9, <2>1, RunsBoth
<1>11. /\ t2.stage = (IF c = "daiminkan" THEN "open" ELSE "act")
       /\ t2.kan = (IF c = "daiminkan" THEN "daiminkan" ELSE "none")
       /\ t2.due = t.due + (IF c = "daiminkan" THEN 1 ELSE 0)
  BY <1>2 DEF HasCalled
<1>12. /\ RiichiKnows(t2, b2.status) /\ b2.status.pending_dora = k
       /\ b2.status.drawn_by = b.status.drawn_by /\ b2.status.pending_reach = Nobody
       /\ \A x \in 0..(t2.n - 1) : b2.status.melds[x] = t2.melds[x]
  BY <1>1, <1>2, <1>5, <1>9 DEF RiichiMeldKnown
<1>13. RiichiHand(t2, b2.status)
  <2>1. b.status.drawn_by = Nobody
    BY <1>1, <1>3 DEF RiichiHand
  <2>2. t2.stage = "open" => t2.kan # "none"
    BY <1>11
  <2>. QED
    BY <1>1, <1>12, <2>1, <2>2, RiichiNobody DEF RiichiHand
<1>14. RiichiGood(t2, m2, b2)
  <2>1. OwedAt(t2) <=> b2.window
    BY <1>1, <1>2, <1>9, <1>11 DEF OwedAt
  <2>2. t2.stage \in {"act", "open"}
    BY <1>11
  <2>. QED
    BY <1>1, <1>9, <1>12, <1>13, <2>1, <2>2 DEF RiichiGood
<1>15. v2.dora + b2.status.pending_dora + Late(t2) = t2.shown + t2.due
  <2>1. Late(t) = 0 /\ v2.dora = v.dora
    BY <1>1, <1>6, <1>7 DEF Late, Same
  <2>2. Late(t2) = IF c = "daiminkan" THEN 1 ELSE 0
    BY <1>11 DEF Late
  <2>. QED
    BY <1>1, <1>3, <1>11, <1>12, <2>1, <2>2
<1>16. RiichiSeen(t2, m2, b2, v2, r1)
  <2>1. t2.stage \in {"act", "open"} /\ m2.kind # "discard" /\ Hand(t2, t2.pending, v2, r1)
    BY <1>1, <1>7, <1>11
  <2>. QED
    BY <1>14, <1>15, <2>1, RiichiPlays
<1>. QED
  BY <1>10, <1>16

LEMMA RiichiKans ==
  ASSUME NEW t, NEW t2, NEW m, NEW m2, TableOK(t), TableOK(t2), HasKan(t, t2, m2), NEW b, NEW v,
         NEW r, RiichiSeen(t, m, b, v, r)
  PROVE  \E b2, v2, r2 : Runs("riichi_city", b, v, r, RiichiCity!Frames(t, t2, m2), b2, v2, r2) /\ RiichiSeen(t2, m2, b2, v2, r2)
<1>1. /\ t.stage = "act" /\ t2.stage = "open" /\ t2.kan = m2.call /\ t.pending = None
      /\ m2.kind = "kan" /\ m2.seat = t.turn /\ t2.turn = t.turn /\ t2.games = t.games
      /\ t.games > 0 /\ t2.pending = None /\ SameHand(t, t2)
      /\ t2.offer \in BOOLEAN /\ m2.call \in OwnKans /\ m2.seat \in 0..(t.n - 1) /\ ~t2.drew
      /\ t2.melds = (IF m2.call = "ankan" THEN [t.melds EXCEPT ![t.turn] = @ + 1] ELSE t.melds)
      /\ t2.n = t.n
  BY TableFields DEF HasKan, SameHand, SameGame, TableOK, Stage
<1>2. PICK k, a, c : k = b.status.pending_dora /\ a = m2.seat /\ c = m2.call
  OBVIOUS
<1>3. /\ b \in RiichiBridges /\ RiichiKnows(t, b.status) /\ RiichiHand(t, b.status)
      /\ b.status \in RiichiStatuses
      /\ Hand(t, None, v, r) /\ v.dora \in Nat /\ k \in Nat
      /\ v.dora + k + Late(t) = t.shown + t.due /\ t.shown \in Nat /\ t.due \in Nat
  BY <1>1, <1>2, RiichiInHand
<1>4. RiichiTarget(b.status, a, c) = a
  BY <1>1, <1>2 DEF RiichiTarget, OwnKans
<1>5. PICK f, b1 : /\ f = RiichiCity!Act(t2, m2, c)
                   /\ Becomes("riichi_city", b, f, b1, Accepts(t.pending) \o <<MeldOf(c, a, a)>>)
                   /\ b1 \in RiichiBridges /\ ~b1.window
                   /\ RiichiMeldKnown(t, t2, b.status, b1.status)
  <2>1. c \in Calls \cup OwnKans
    BY <1>1, <1>2
  <2>2. t2.melds = IF Counts(c) THEN [t.melds EXCEPT ![a] = @ + 1] ELSE t.melds
    BY <1>1, <1>2 DEF Counts, OwnKans
  <2>. QED
    BY <1>1, <1>2, <1>3, <1>4, <2>1, <2>2, RiichiMelds
<1>6. PICK v2 : Plays(v, r, <<Ev(c, a)>>, v2, r) /\ Hand(t2, None, v2, r) /\ v2.dora = v.dora
  BY <1>2, <1>3, SeeKan
<1>7. Runs("riichi_city", b, v, r, <<f>>, b1, v2, r)
  <2>1. MeldOf(c, a, a) = Ev(c, a)
    BY OwnTarget DEF MeldOf
  <2>2. PICK es : es = <<Ev(c, a)>>
    OBVIOUS
  <2>3. Accepts(t.pending) \o es = es
    BY <1>1, <2>2, OneIsSeq, NothingElse DEF Accepts
  <2>. QED
    BY <1>5, <1>6, <2>1, <2>2, <2>3, RunsFrame
<1>8. PICK b2 : /\ Runs("riichi_city", b1, v2, r, RiichiCity!Offer(t2), b2, v2, r)
                /\ b2 \in RiichiBridges /\ b2.status = b1.status /\ (b2.window <=> t2.offer)
  BY <1>1, <1>5, RiichiOffers
<1>9. Runs("riichi_city", b, v, r, RiichiCity!Frames(t, t2, m2), b2, v2, r)
  <2>1. RiichiCity!Frames(t, t2, m2) = <<f>> \o RiichiCity!Offer(t2)
    BY <1>1, <1>2, <1>5, Zenon DEF RiichiCity!Frames
  <2>. QED
    BY <1>7, <1>8, <2>1, RunsBoth
<1>10. /\ RiichiKnows(t2, b2.status) /\ b2.status.pending_dora = k
       /\ b2.status.pending_reach = Nobody
       /\ \A x \in 0..(t2.n - 1) : b2.status.melds[x] = t2.melds[x]
  BY <1>1, <1>2, <1>5, <1>8 DEF RiichiMeldKnown
<1>11. RiichiHand(t2, b2.status)
  <2>1. t2.kan # "none"
    BY <1>1 DEF OwnKans
  <2>. QED
    BY <1>1, <1>10, <2>1, RiichiNobody DEF RiichiHand
<1>12. RiichiGood(t2, m2, b2)
  <2>1. OwedAt(t2) <=> t2.offer
    BY <1>1 DEF OwedAt
  <2>. QED
    BY <1>1, <1>8, <1>10, <1>11, <2>1 DEF RiichiGood
<1>13. v2.dora + b2.status.pending_dora + Late(t2) = t2.shown + t2.due
  <2>1. Late(t) = 0
    BY <1>1 DEF Late
  <2>2. Late(t2) = IF c = "kita" THEN 0 ELSE 1
    BY <1>1, <1>2 DEF Late, OwnKans
  <2>3. /\ t2.shown = CASE c = "ankan" -> t.shown + 1
                        [] c = "kita"  -> t.shown + t.due
                        [] c = "kakan" -> t.shown
        /\ t2.due = CASE c = "ankan" -> t.due
                      [] c = "kita"  -> 0
                      [] c = "kakan" -> t.due + 1
    BY <1>2 DEF HasKan
  <2>4. c \in {"ankan", "kakan", "kita"}
    BY <1>1, <1>2 DEF OwnKans
  <2>5. CASE c = "ankan"
    BY <1>3, <1>6, <1>10, <2>1, <2>2, <2>3, <2>5
  <2>6. CASE c = "kakan"
    BY <1>3, <1>6, <1>10, <2>1, <2>2, <2>3, <2>6
  <2>7. CASE c = "kita"
    BY <1>3, <1>6, <1>10, <2>1, <2>2, <2>3, <2>7
  <2>. QED
    BY <2>4, <2>5, <2>6, <2>7
<1>14. RiichiSeen(t2, m2, b2, v2, r)
  <2>1. t2.stage \in {"act", "open"} /\ m2.kind # "discard" /\ Hand(t2, t2.pending, v2, r)
    BY <1>1, <1>6
  <2>. QED
    BY <1>12, <1>13, <2>1, RiichiPlays
<1>. QED
  BY <1>9, <1>14

(* The players of a room in the order of their user ids.                     *)
Room(n) == [i \in 1..n |-> i - 1]
Waits(n, room) ==
  [RiichiCity!NoStatus EXCEPT !.owes_start = TRUE, !.players = n, !.list = Room(n), !.room = room]

LEMMA RiichiWaitsIs ==
  ASSUME NEW n, n \in 3..4, NEW room, room \in Nat
  PROVE  /\ Waits(n, room) \in RiichiStatuses /\ Waits(n, room).list = Room(n)
         /\ Waits(n, room).players = n
         /\ Waits(n, room).owes_start /\ Waits(n, room).last_dahai = Nobody
         /\ Room(n) \in Seq(0..3) /\ Len(Room(n)) = n
<1>1. Room(n) \in Seq(0..3) /\ Len(Room(n)) = n
  BY DEF Room
<1>2. /\ RiichiCity!NoStatus \in [seat : 0..3, list : Seq(0..3), players : 3..4, shift : 0..3, room : Nat, last_dahai : 0..9, drawn_by : 0..9,
                                  melds : [0..3 -> Nat], pending_reach : 0..9, pending_dora : Nat, owes_start : BOOLEAN]
      /\ RiichiCity!NoStatus.last_dahai = Nobody /\ RiichiCity!NoStatus.list = <<>>
  BY DEF RiichiCity!NoStatus, RiichiCity!Nobody, Nobody
<1>. QED
  BY <1>1, <1>2 DEF Waits, RiichiStatuses

LEMMA RiichiNoStatus ==
  RiichiCity!NoStatus \in RiichiStatuses /\ RiichiCity!NoStatus.list = <<>>
BY DEF RiichiCity!NoStatus, RiichiCity!Nobody, RiichiStatuses

LEMMA RiichiSits ==
  ASSUME NEW t, NEW t2, NEW m, NEW m2, TableOK(t), TableOK(t2), HasSat(t, t2, m2), NEW b, NEW v,
         NEW r, RiichiSeen(t, m, b, v, r)
  PROVE  \E b2, v2, r2 : Runs("riichi_city", b, v, r, RiichiCity!Frames(t, t2, m2), b2, v2, r2) /\ RiichiSeen(t2, m2, b2, v2, r2)
<1>1. /\ m2.kind = "sit" /\ t2.stage = "seated" /\ t2.games > 0 /\ t2.n \in 3..4
      /\ t2.me \in 0..(t2.n - 1) /\ t2.games \in Nat
      /\ (t.stage = "over" \/ t.games = 0) /\ t.games \in Nat
  BY TableFields DEF HasSat
<1>2. t.stage \in {"seated", "over"}
  <2>1. t.stage \in Stages /\ t.games \in Nat
    BY TableFields
  <2>2. Stage(t)
    BY DEF TableOK
  <2>. QED
    BY <1>1, <2>1, <2>2 DEF Stage, Stages
<1>3. b \in RiichiBridges /\ b.status = RiichiCity!NoStatus /\ ~b.window /\ v = NoView
  <2>1. RiichiGood(t, m, b) /\ ViewGood("riichi_city", t, m, v, r)
    BY DEF RiichiSeen
  <2>2. b \in RiichiBridges /\ b.status = RiichiCity!NoStatus /\ ~b.window
    BY <1>1, <1>2, <2>1 DEF RiichiGood
  <2>3. v = NoView
    BY <1>2, <2>1 DEF ViewGood, Over
  <2>. QED
    BY <2>2, <2>3
<1>4. PICK uid, n, room : uid = RiichiCity!Uid(t2, t2.me) /\ n = t2.n /\ room = t2.games
  OBVIOUS
<1>5. PICK f, g : f = [cmd |-> "auth", uid |-> uid] /\ g = [cmd |-> "cmd_enter_room", list |-> Room(n), room |-> room]
  OBVIOUS
<1>6. f.cmd = "auth" /\ f.uid = uid /\ g.cmd = "cmd_enter_room" /\ g.list = Room(n) /\ g.room = room
  BY <1>5
<1>7. RiichiCity!Frames(t, t2, m2) = <<f>> \o <<g>>
  <2>1. RiichiCity!Frames(t, t2, m2) = <<f, g>>
    BY <1>1, <1>4, <1>5, Zenon DEF RiichiCity!Frames, Room
  <2>. QED
    BY <2>1, PairIs
<1>8. uid \in 0..3
  BY <1>1, <1>4, RiichiUid
<1>9. PICK b1 : b1 = Auth(b, uid)
  OBVIOUS
<1>10. b1 \in RiichiBridges /\ b1.status = RiichiCity!NoStatus /\ ~b1.window /\ b1.uid = uid
  BY <1>3, <1>8, <1>9 DEF Auth, RiichiBridges
<1>11. Becomes("riichi_city", b, f, b1, <<>>)
  BY <1>6, <1>9, RiichiParse DEF Becomes, Told
<1>12. PICK s, b2 : s = Waits(n, room) /\ b2 = Status(b1, s)
  OBVIOUS
<1>13. s \in RiichiStatuses
  BY <1>1, <1>4, <1>12, RiichiWaitsIs
<1>14. b2 \in RiichiBridges /\ b2.status = s /\ ~b2.window /\ b2.uid = uid
  BY <1>10, <1>12, <1>13, RiichiStatus
<1>15. Becomes("riichi_city", b1, g, b2, <<>>)
  <2>1. RiichiCity!on_enter_room(b1, g) = [bridge |-> b2, events |-> <<>>]
    <3>1. b1.status.list = <<>>
      BY <1>10, RiichiNoStatus
    <3>2. Len(g.list) = n
      BY <1>1, <1>4, <1>6, RiichiWaitsIs
    <3>. QED
      BY <1>6, <1>12, <3>1, <3>2 DEF RiichiCity!on_enter_room, RiichiCity!Out, Status, Waits
  <2>2. ParseOf("riichi_city", b1, g) = RiichiCity!on_enter_room(b1, g)
    BY <1>6, RiichiParse
  <2>. QED
    BY <2>1, <2>2 DEF Becomes
<1>16. Runs("riichi_city", b, v, r, RiichiCity!Frames(t, t2, m2), b2, v, r)
  <2>1. Plays(v, r, <<>>, v, r)
    BY PlaysNothing
  <2>2. Runs("riichi_city", b, v, r, <<f>>, b1, v, r) /\ Runs("riichi_city", b1, v, r, <<g>>, b2, v, r)
    BY <1>11, <1>15, <2>1, RunsFrame
  <2>. QED
    BY <1>7, <2>2, RunsBoth
<1>17. RiichiWaits(t2, b2)
  BY <1>4, <1>12, <1>14 DEF RiichiWaits, Waits, Room
<1>18. RiichiSeen(t2, m2, b2, v, r)
  <2>1. RiichiGood(t2, m2, b2)
    BY <1>1, <1>14, <1>17 DEF RiichiGood
  <2>. QED
    BY <1>1, <1>3, <2>1 DEF RiichiSeen, ViewGood
<1>. QED
  BY <1>16, <1>18

(* The room's list, turned to begin with the first dealer.                   *)
LEMMA RiichiTurned ==
  ASSUME NEW t, TableOK(t), NEW n, n = t.n
  PROVE  RiichiCity!rotate_left(Room(n), RiichiCity!Uid(t, 0) % n) = Places(t)
<1>1. n \in 3..4 /\ t.shift \in 0..(n - 1)
  BY TableFields
<1>2. PICK k : k = t.shift
  OBVIOUS
<1>3. RiichiCity!Uid(t, 0) % n = k
  <2>1. n \in {3, 4} /\ k \in 0..3 /\ k < n
    BY <1>1, <1>2
  <2>2. ((0 + k) % n) % n = k
    BY <2>1
  <2>. QED
    BY <1>2, <2>2 DEF RiichiCity!Uid
<1>4. PICK l : l = Room(n)
  OBVIOUS
<1>5. l \in Seq(0..3) /\ Len(l) = n /\ \A i \in 1..n : l[i] = i - 1
  BY <1>1, <1>4 DEF Room
<1>6. PICK a, c : a = SubSeq(l, k + 1, n) /\ c = SubSeq(l, 1, k)
  OBVIOUS
<1>7. /\ a \in Seq(0..3) /\ Len(a) = n - k /\ \A i \in 1..(n - k) : a[i] = l[k + i]
      /\ c \in Seq(0..3) /\ Len(c) = k /\ \A i \in 1..k : c[i] = l[i]
  <2>1. k \in 0..3 /\ n \in 3..4 /\ k < n
    BY <1>1, <1>2
  <2>2. a \in Seq(0..3) /\ Len(a) = n - k
    BY <1>5, <1>6, <2>1
  <2>3. \A i \in 1..(n - k) : a[i] = l[k + i]
    <3>. TAKE i \in 1..(n - k)
    <3>1. a[i] = l[(k + 1) + i - 1]
      BY <1>5, <1>6, <2>1
    <3>2. (k + 1) + i - 1 = k + i
      BY <2>1
    <3>. QED
      BY <3>1, <3>2
  <2>4. c \in Seq(0..3) /\ Len(c) = k
    BY <1>5, <1>6, <2>1
  <2>5. \A i \in 1..k : c[i] = l[i]
    BY <1>5, <1>6, <2>1
  <2>. QED
    BY <2>2, <2>3, <2>4, <2>5
<1>8. a \o c \in Seq(0..3) /\ Len(a \o c) = n
  BY <1>1, <1>2, <1>7
<1>9. Places(t) \in Seq(0..3) /\ Len(Places(t)) = n
  <2>1. \A i \in 1..n : RiichiCity!Uid(t, i - 1) \in 0..3
    <3>. TAKE i \in 1..n
    <3>1. i - 1 \in 0..(t.n - 1)
      BY <1>1
    <3>2. RiichiCity!Uid(t, i - 1) \in 0..(t.n - 1)
      BY <3>1, RiichiUid
    <3>. QED
      BY <1>1, <3>2
  <2>. QED
    BY <1>1, <2>1 DEF Places
<1>10. \A i \in 1..n : (a \o c)[i] = Places(t)[i]
  <2>. TAKE i \in 1..n
  <2>1. Places(t)[i] = ((i - 1) + k) % n
    BY <1>2 DEF Places, RiichiCity!Uid
  <2>2. CASE i <= n - k
    <3>1. (a \o c)[i] = a[i] /\ a[i] = l[k + i] /\ k + i \in 1..n
      BY <1>1, <1>2, <1>7, <2>2
    <3>2. l[k + i] = (k + i) - 1
      BY <1>5, <3>1
    <3>3. ((i - 1) + k) % n = (k + i) - 1
      <4>1. n \in {3, 4} /\ k \in 0..3 /\ i \in 1..4 /\ k + i <= n
        BY <1>1, <1>2, <2>2
      <4>. QED
        BY <4>1
    <3>. QED
      BY <2>1, <3>1, <3>2, <3>3
  <2>3. CASE i > n - k
    <3>1. PICK j : j = i - (n - k)
      OBVIOUS
    <3>2. j \in 1..k /\ i = (n - k) + j
      BY <1>1, <1>2, <2>3, <3>1
    <3>3. (a \o c)[i] = c[j] /\ c[j] = l[j] /\ l[j] = j - 1
      <4>1. n \in 3..4 /\ k \in 0..3 /\ k < n
        BY <1>1, <1>2
      <4>2. (a \o c)[i] = c[j]
        <5>1. IsSeq(a) /\ IsSeq(c)
          BY <1>7 DEF IsSeq
        <5>2. (a \o c)[Len(a) + j] = c[j]
          BY <1>7, <3>2, <5>1, Joined
        <5>. QED
          BY <1>7, <3>2, <5>2
      <4>3. j \in 1..n
        BY <3>2, <4>1
      <4>. QED
        BY <1>5, <1>7, <3>2, <4>2, <4>3
    <3>4. ((i - 1) + k) % n = j - 1
      <4>1. n \in {3, 4} /\ k \in 0..3 /\ i \in 1..4 /\ i <= n /\ i > n - k /\ k < n
        BY <1>1, <1>2, <2>3
      <4>. QED
        BY <3>1, <4>1
    <3>. QED
      BY <2>1, <3>3, <3>4
  <2>4. i <= n - k \/ i > n - k
    BY <1>1, <1>2
  <2>. QED
    BY <2>2, <2>3, <2>4
<1>11. a \o c = Places(t)
  <2>1. PICK x, y : x = a \o c /\ y = Places(t)
    OBVIOUS
  <2>2. x \in Seq(0..3) /\ y \in Seq(0..3) /\ Len(x) = Len(y) /\ \A i \in 1..Len(x) : x[i] = y[i]
    BY <1>8, <1>9, <1>10, <2>1
  <2>3. x = y
    BY <2>2
  <2>. QED
    BY <2>1, <2>3
<1>12. RiichiCity!rotate_left(l, k) = a \o c
  BY <1>5, <1>6 DEF RiichiCity!rotate_left
<1>. QED
  BY <1>3, <1>4, <1>11, <1>12

(* The first hand tells who sits where, and the game begins.                 *)
RiichiGame(t) == IF t.stage = "seated" THEN <<[Ev("start_game", t.me) EXCEPT !.players = t.n]>> ELSE <<>>
RiichiSeats(b, f) == IF b.status.owes_start THEN RiichiCity!resolve_seat(b, f) ELSE b.status

LEMMA RiichiResolves ==
  ASSUME NEW t, NEW t2, NEW m, NEW m2, TableOK(t), TableOK(t2), HasDealt(t, t2, m2), NEW b,
         b \in RiichiBridges, RiichiGood(t, m, b),
         NEW f, f.dealer = RiichiCity!Uid(t2, t2.oya)
  PROVE  /\ RiichiSeats(b, f) \in RiichiStatuses /\ RiichiKnows(t2, RiichiSeats(b, f))
         /\ (b.status.owes_start <=> t.stage = "seated")
<1>1. /\ t2.n = t.n /\ t2.me = t.me /\ t2.shift = t.shift /\ t.n \in 3..4 /\ t.games > 0
      /\ t.stage \in {"seated", "between"}
      /\ t2.games = t.games /\ t.me \in 0..(t.n - 1) /\ t.shift \in 0..3 /\ t.games \in Nat
  <2>1. t.n \in 3..4 /\ t.me \in 0..(t.n - 1) /\ t.shift \in 0..(t.n - 1) /\ t.games \in Nat
    BY TableFields
  <2>2. /\ t2.n = t.n /\ t2.me = t.me /\ t2.shift = t.shift /\ t.games > 0
        /\ t.stage \in {"seated", "between"}
        /\ t2.games = t.games
    BY DEF HasDealt, SameGame
  <2>. QED
    BY <2>1, <2>2
<1>2. Places(t2) = Places(t) /\ RiichiCity!Uid(t2, t2.oya) = RiichiCity!Uid(t, t2.oya)
  BY <1>1 DEF Places, RiichiCity!Uid
<1>3. CASE t.stage = "between"
  <2>1. RiichiKnows(t, b.status) /\ b.status \in RiichiStatuses
    BY <1>3 DEF RiichiGood, RiichiBridges
  <2>2. ~b.status.owes_start
    BY <2>1 DEF RiichiKnows
  <2>3. RiichiSeats(b, f) = b.status
    BY <2>2 DEF RiichiSeats
  <2>. QED
    BY <1>1, <1>2, <1>3, <2>1, <2>2, <2>3 DEF RiichiKnows
<1>4. CASE t.stage = "seated"
  <2>1. RiichiWaits(t, b)
    BY <1>1, <1>4 DEF RiichiGood
  <2>2. PICK n, s, u : n = t.n /\ s = b.status /\ u = b.uid
    OBVIOUS
  <2>3. s = Waits(n, t.games) /\ u = RiichiCity!Uid(t, t.me)
    BY <2>1, <2>2 DEF RiichiWaits, Waits, Room
  <2>4. s \in RiichiStatuses /\ s.list = Room(n) /\ s.players = n /\ s.owes_start /\ s.last_dahai = Nobody
        /\ Len(Room(n)) = n
    BY <1>1, <2>2, <2>3, RiichiWaitsIs
  <2>5. t2.oya = 0
    BY <1>4 DEF HasDealt, TableOK, Stage
  <2>6. PICK d, l : d = f.dealer /\ l = RiichiCity!rotate_left(s.list, d % Len(s.list))
    OBVIOUS
  <2>7. d = RiichiCity!Uid(t, 0)
    BY <1>2, <2>5, <2>6
  <2>8. l = Places(t)
    BY <2>2, <2>4, <2>6, <2>7, RiichiTurned
  <2>9. PICK s1, a : s1 = [s EXCEPT !.list = l] /\ a = RiichiCity!actor_of(s1, u)
    OBVIOUS
  <2>10. a = t.me
    <3>1. s1.list = Places(t)
      BY <2>4, <2>8, <2>9 DEF RiichiStatuses
    <3>. QED
      BY <1>1, <2>3, <2>9, <3>1, RiichiActor
  <2>11. d = t.shift
    <3>1. t.n \in {3, 4} /\ t.shift \in 0..(t.n - 1)
      BY <1>1, TableFields
    <3>2. (0 + t.shift) % t.n = t.shift
      BY <3>1
    <3>. QED
      BY <2>7, <3>2 DEF RiichiCity!Uid
  <2>12. PICK s2 : s2 = [s1 EXCEPT !.seat = a, !.shift = d, !.owes_start = FALSE]
    OBVIOUS
  <2>13. RiichiSeats(b, f) = s2
    BY <2>2, <2>4, <2>6, <2>9, <2>12 DEF RiichiSeats, RiichiCity!resolve_seat
  <2>14. l \in Seq(0..3)
    <3>1. \A i \in 1..n : RiichiCity!Uid(t, i - 1) \in 0..3
      <4>. TAKE i \in 1..n
      <4>1. i - 1 \in 0..(t.n - 1)
        BY <1>1, <2>2
      <4>2. RiichiCity!Uid(t, i - 1) \in 0..(t.n - 1)
        BY <4>1, RiichiUid
      <4>. QED
        BY <1>1, <4>2
    <3>. QED
      BY <1>1, <2>2, <2>8, <3>1 DEF Places
  <2>15. s1 \in RiichiStatuses /\ s1.list = l /\ s1.players = n /\ s1.last_dahai = Nobody
    BY <2>4, <2>9, <2>14 DEF RiichiStatuses
  <2>16. a \in 0..3 /\ d \in 0..3
    BY <1>1, <2>10, <2>11
  <2>17. s2 \in RiichiStatuses /\ s2.list = l /\ s2.players = n /\ s2.last_dahai = Nobody /\ s2.seat = a /\ s2.shift = d /\ s2.owes_start = FALSE
    BY <2>12, <2>15, <2>16 DEF RiichiStatuses
  <2>18. RiichiKnows(t2, s2)
    BY <1>1, <1>2, <2>2, <2>8, <2>10, <2>11, <2>17 DEF RiichiKnows
  <2>. QED
    BY <1>4, <2>2, <2>4, <2>13, <2>17, <2>18
<1>. QED
  BY <1>1, <1>3, <1>4

RiichiStart(t2) ==
  [cmd |-> "cmd_game_start", dealer |-> RiichiCity!Uid(t2, t2.oya), points |-> RiichiCity!ByUid(t2, t2.score),
   cards |-> Len(t2.rack)]
KyokuOf(a, n, scores) == [Ev("start_kyoku", a) EXCEPT !.players = n, !.scores = scores]
Began(s, a) == [s EXCEPT !.pending_dora = 0, !.pending_reach = Nobody, !.melds = [x \in 0..3 |-> 0], !.drawn_by = a]

LEMMA RiichiBegins ==
  ASSUME NEW t, NEW t2, NEW m, NEW m2, TableOK(t), TableOK(t2), HasDealt(t, t2, m2), NEW b,
         b \in RiichiBridges, RiichiGood(t, m, b)
  PROVE  \E b2 : /\ Becomes("riichi_city", b, RiichiStart(t2), b2,
                            RiichiGame(t) \o (<<KyokuOf(t2.oya, t.n, t2.score)>> \o <<Ev("tsumo", t2.turn)>>))
                 /\ b2 \in RiichiBridges /\ ~b2.window /\ RiichiKnows(t2, b2.status)
                 /\ RiichiHand(t2, b2.status)
                 /\ b2.status.pending_dora = 0
<1>1. /\ t2.n = t.n /\ t2.me = t.me /\ t2.turn = t2.oya /\ t2.stage = "act" /\ t2.drew
      /\ t2.pending = None
      /\ t2.oya \in 0..(t.n - 1) /\ t2.score \in [0..(t.n - 1) -> Int] /\ t2.n \in 3..4
      /\ t2.rack = [i \in 1..(IF t2.oya = t.me THEN 14 ELSE 13) |-> i]
      /\ t2.melds = [a \in 0..(t.n - 1) |-> 0]
  BY TableFields DEF HasDealt, SameGame, TableOK
<1>2. PICK f, d, a : f = RiichiStart(t2) /\ d = Shut(b) /\ a = t2.oya
  OBVIOUS
<1>3. /\ f.cmd = "cmd_game_start" /\ f.dealer = RiichiCity!Uid(t2, t2.oya)
      /\ f.points = RiichiCity!ByUid(t2, t2.score)
      /\ f.cards = Len(t2.rack)
  BY <1>2 DEF RiichiStart
<1>4. d \in RiichiBridges /\ d.status = b.status /\ ~d.window
  BY <1>2, RiichiWindow
<1>5. PICK s : s = RiichiSeats(b, f)
  OBVIOUS
<1>6. s \in RiichiStatuses /\ RiichiKnows(t2, s) /\ (b.status.owes_start <=> t.stage = "seated")
  BY <1>3, <1>5, RiichiResolves
<1>7. (IF d.status.owes_start THEN RiichiCity!resolve_seat(d, f) ELSE d.status) = s
  <2>1. RiichiCity!resolve_seat(d, f) = RiichiCity!resolve_seat(b, f)
    BY <1>2, <1>4 DEF RiichiCity!resolve_seat, Shut, RiichiBridges
  <2>. QED
    BY <1>4, <1>5, <2>1 DEF RiichiSeats
<1>8. s.players = t.n /\ s.seat = t.me /\ s.list = Places(t2) /\ s.shift = t2.shift
  BY <1>1, <1>6 DEF RiichiKnows
<1>9. (f.dealer - s.shift) % s.players = a
  BY <1>1, <1>2, <1>3, <1>8, RiichiUid
<1>10. (IF f.cards = 14 THEN s.seat ELSE a) = a
  <2>1. f.cards = IF a = t.me THEN 14 ELSE 13
    <3>1. PICK k : k = IF t2.oya = t.me THEN 14 ELSE 13
      OBVIOUS
    <3>2. k \in {13, 14} /\ t2.rack = [i \in 1..k |-> i]
      BY <1>1, <3>1
    <3>3. Len(t2.rack) = k
      BY <3>2, DealtRack
    <3>. QED
      BY <1>2, <1>3, <3>1, <3>3
  <2>. QED
    BY <1>8, <2>1
<1>11. RiichiCity!by_actor(s, f.points) = t2.score
  BY <1>1, <1>3, <1>8, RiichiByActor
<1>12. PICK s2, b2 : s2 = Began(s, a) /\ b2 = Status(d, s2)
  OBVIOUS
<1>13. a \in 0..3 /\ a \in 0..9 /\ Nobody \in 0..9
  BY <1>1, <1>2, SeatSpan, RiichiNobody
<1>14. /\ s2 \in RiichiStatuses /\ s2.pending_reach = Nobody /\ s2.list = s.list
       /\ s2.seat = s.seat /\ s2.players = s.players
       /\ s2.shift = s.shift /\ s2.owes_start = s.owes_start /\ s2.last_dahai = s.last_dahai
       /\ s2.drawn_by = a
       /\ s2.melds = [x \in 0..3 |-> 0] /\ s2.pending_dora = 0
  BY <1>6, <1>12, <1>13 DEF Began, RiichiStatuses
<1>15. b2 \in RiichiBridges /\ b2.status = s2 /\ ~b2.window
  BY <1>4, <1>12, <1>14, RiichiStatus
<1>16. RiichiKnows(t2, s2)
  BY <1>6, <1>14 DEF RiichiKnows
<1>17. RiichiHand(t2, s2)
  <2>1. \A x \in 0..(t2.n - 1) : s2.melds[x] = t2.melds[x]
    BY <1>1, <1>14
  <2>. QED
    BY <1>1, <1>2, <1>14, <2>1, RiichiNobody DEF RiichiHand
<1>18. PICK game, kyoku, tsumo : game = RiichiGame(t) /\ kyoku = KyokuOf(a, t.n, t2.score) /\ tsumo = Ev("tsumo", a)
  OBVIOUS
<1>19. RiichiCity!on_game_start(d, f) = [bridge |-> b2, events |-> game \o <<kyoku, tsumo>>]
  <2>1. (IF d.status.owes_start THEN <<[RiichiCity!Ev("start_game", s.seat) EXCEPT !.players = s.players]>> ELSE <<>>) = game
    BY <1>4, <1>6, <1>8, <1>18, RiichiEv DEF RiichiGame
  <2>2. [RiichiCity!Ev("start_kyoku", a) EXCEPT !.players = s.players, !.scores = RiichiCity!by_actor(s, f.points)] = kyoku
    BY <1>8, <1>11, <1>18, RiichiEv DEF KyokuOf
  <2>3. RiichiCity!Ev("tsumo", a) = tsumo
    BY <1>18, RiichiEv
  <2>4. [d EXCEPT !.status = [s EXCEPT !.pending_dora = 0, !.pending_reach = RiichiCity!Nobody,
                                        !.melds = [x \in 0..3 |-> 0], !.drawn_by = a]] = b2
    BY <1>12, RiichiNobody DEF Status, Began
  <2>5. RiichiCity!on_game_start(d, f) =
          [bridge |-> [d EXCEPT !.status = [s EXCEPT !.pending_dora = 0, !.pending_reach = RiichiCity!Nobody,
                                        !.melds = [x \in 0..3 |-> 0], !.drawn_by = a]],
           events |-> (IF d.status.owes_start THEN <<[RiichiCity!Ev("start_game", s.seat) EXCEPT !.players = s.players]>> ELSE <<>>)
                       \o <<[RiichiCity!Ev("start_kyoku", a) EXCEPT !.players = s.players, !.scores = RiichiCity!by_actor(s, f.points)],
                            RiichiCity!Ev("tsumo", a)>>]
    BY <1>7, <1>9, <1>10, Zenon DEF RiichiCity!on_game_start, RiichiCity!Out
  <2>. QED
    BY <2>1, <2>2, <2>3, <2>4, <2>5
<1>20. Becomes("riichi_city", b, f, b2, game \o (<<kyoku>> \o <<tsumo>>))
  <2>1. ParseOf("riichi_city", b, f) = RiichiCity!on_game_start(d, f)
    BY <1>2, <1>3, RiichiParse
  <2>2. <<kyoku, tsumo>> = <<kyoku>> \o <<tsumo>>
    BY PairIs
  <2>. QED
    BY <1>19, <2>1, <2>2 DEF Becomes
<1>. QED
  BY <1>1, <1>2, <1>14, <1>15, <1>16, <1>17, <1>18, <1>20

LEMMA RiichiDeals ==
  ASSUME NEW t, NEW t2, NEW m, NEW m2, TableOK(t), TableOK(t2), HasDealt(t, t2, m2), NEW b, NEW v,
         NEW r, RiichiSeen(t, m, b, v, r)
  PROVE  \E b2, v2, r2 : Runs("riichi_city", b, v, r, RiichiCity!Frames(t, t2, m2), b2, v2, r2) /\ RiichiSeen(t2, m2, b2, v2, r2)
<1>1. /\ t2.n = t.n /\ t2.me = t.me /\ t2.turn = t2.oya /\ t2.stage = "act" /\ t2.pending = None
      /\ t2.score = t.score
      /\ t.stage \in {"seated", "between"} /\ t2.shown = 1 /\ t2.due = 0 /\ m2.kind = "deal"
      /\ t2.games = t.games /\ t.games > 0
  BY DEF HasDealt, SameGame
<1>2. RiichiGood(t, m, b) /\ ViewGood("riichi_city", t, m, v, r) /\ b \in RiichiBridges
  BY DEF RiichiSeen, RiichiGood
<1>3. PICK f, game, kyoku, tsumo, b2 :
        /\ f = RiichiStart(t2) /\ game = RiichiGame(t) /\ kyoku = KyokuOf(t2.oya, t.n, t2.score)
        /\ tsumo = Ev("tsumo", t2.turn)
        /\ Becomes("riichi_city", b, f, b2, game \o (<<kyoku>> \o <<tsumo>>))
        /\ b2 \in RiichiBridges /\ ~b2.window /\ RiichiKnows(t2, b2.status)
        /\ RiichiHand(t2, b2.status)
        /\ b2.status.pending_dora = 0
  BY <1>2, RiichiBegins
<1>4. \E v1, r1 : Plays(v, r, game, v1, r1) /\ Waiting(t, v1, r1)
  <2>1. CASE t.stage = "seated"
    <3>1. game = <<[Ev("start_game", t.me) EXCEPT !.players = t.n]>>
      BY <1>3, <2>1 DEF RiichiGame
    <3>. QED
      BY <3>1, SeeStartGame
  <2>2. CASE t.stage = "between"
    <3>1. game = <<>>
      BY <1>3, <2>2 DEF RiichiGame
    <3>2. Waiting(t, v, r)
      BY <1>2, <2>2 DEF ViewGood, Between
    <3>3. Plays(v, r, <<>>, v, r)
      BY PlaysNothing
    <3>. QED
      BY <3>1, <3>2, <3>3
  <2>. QED
    BY <1>1, <2>1, <2>2
<1>5. PICK v1, r1 : Plays(v, r, game, v1, r1) /\ Waiting(t, v1, r1)
  BY <1>4
<1>6. PICK v2, r2 : Plays(v1, r1, <<kyoku>>, v2, r2) /\ Dealing(t2, v2, r2)
  <2>1. kyoku = [Ev("start_kyoku", t2.oya) EXCEPT !.players = t.n, !.scores = t.score]
    BY <1>1, <1>3 DEF KyokuOf
  <2>. QED
    BY <1>5, <2>1, SeeStartKyoku
<1>7. PICK v3 : Plays(v2, r2, <<tsumo>>, v3, r2) /\ Hand(t2, None, v3, r2) /\ v3.dora = 1
  BY <1>3, <1>6, SeeFirstTsumo
<1>8. Runs("riichi_city", b, v, r, <<f>>, b2, v3, r2)
  <2>1. Plays(v1, r1, <<kyoku>> \o <<tsumo>>, v3, r2)
    BY <1>6, <1>7, PlaysBoth
  <2>2. Plays(v, r, game \o (<<kyoku>> \o <<tsumo>>), v3, r2)
    BY <1>5, <2>1, PlaysBoth
  <2>. QED
    BY <1>3, <2>2, RunsFrame
<1>9. RiichiCity!Frames(t, t2, m2) = <<f>>
  BY <1>1, <1>3 DEF RiichiCity!Frames, RiichiStart
<1>10. RiichiGood(t2, m2, b2)
  BY <1>1, <1>3 DEF RiichiGood
<1>11. v3.dora + b2.status.pending_dora + Late(t2) = t2.shown + t2.due
  BY <1>1, <1>3, <1>7 DEF Late
<1>12. RiichiSeen(t2, m2, b2, v3, r2)
  BY <1>1, <1>7, <1>10, <1>11, RiichiPlays
<1>. QED
  BY <1>8, <1>9, <1>12

(* ------ the end of a hand ------------------------------------------------ *)

(* The hand is told; at the end of the game the room is left.                *)
RiichiPaid(t, t2, m2, r) ==
  \/ TwiceAt("riichi_city", m2) \/ ChargedAt("riichi_city", m2)
  \/ \E s : /\ s.n = t.n /\ s.score \in [0..(t.n - 1) -> Int] /\ HasPaid(s, t2, m2)
            /\ r.running = Summed(t.n, s.score, m2.total)
RiichiEnded(t, t2, m2, b, v, r) ==
  /\ b \in RiichiBridges /\ ~b.window /\ RiichiKnows(t2, b.status)
  /\ b.status.pending_reach = Nobody
  /\ Closing(t2, v, r) /\ v.phase = "ended" /\ RiichiPaid(t, t2, m2, r)
  /\ m2.kind = "win" => v.target = m2.from \/ m2.call # "none"

LEMMA RiichiLeaves ==
  ASSUME NEW t, NEW t2, NEW m2, TableOK(t), TableOK(t2), HasEnded(t, t2, m2), m2.final \in BOOLEAN,
         NEW b, NEW v, NEW r,
         RiichiEnded(t, t2, m2, b, v, r)
  PROVE  \E b2, v2, r2 : Runs("riichi_city", b, v, r, RiichiCity!Result(t2, m2), b2, v2, r2) /\ RiichiSeen(t2, m2, b2, v2, r2)
<1>1. /\ b \in RiichiBridges /\ ~b.window /\ RiichiKnows(t2, b.status)
      /\ b.status.pending_reach = Nobody
      /\ Closing(t2, v, r) /\ v.phase = "ended" /\ RiichiPaid(t, t2, m2, r)
      /\ (m2.kind = "win" => v.target = m2.from \/ m2.call # "none")
  BY DEF RiichiEnded
<1>2. t.n \in 3..4 /\ t2.n = t.n /\ t2.games > 0 /\ t2.stage = (IF m2.final THEN "over" ELSE "between")
  <2>1. t.n \in 3..4 /\ Stage(t) /\ t.stage \in {"act", "open"} /\ t2.games = t.games /\ t2.n = t.n
    BY TableFields DEF TableOK, HasEnded, SameHand, SameGame
  <2>. QED
    BY <2>1 DEF Stage, HasEnded
<1>3. CASE ~m2.final
  <2>1. RiichiCity!Result(t2, m2) = <<>>
    BY <1>3 DEF RiichiCity!Result
  <2>2. Runs("riichi_city", b, v, r, <<>>, b, v, r)
    BY RunsNothing
  <2>3. t2.stage = "between"
    BY <1>2, <1>3
  <2>4. RiichiGood(t2, m2, b)
    BY <1>1, <1>2, <2>3 DEF RiichiGood
  <2>5. r.running = t2.score \/ TwiceAt("riichi_city", m2) \/ ChargedAt("riichi_city", m2)
    <3>1. ASSUME NEW s, s.n = t.n, s.score \in [0..(t.n - 1) -> Int], HasPaid(s, t2, m2),
                 r.running = Summed(t.n, s.score, m2.total)
          PROVE  r.running = t2.score
      BY <1>3, <3>1 DEF HasPaid, Paid, Summed
    <3>. QED
      BY <1>1, <3>1 DEF RiichiPaid
  <2>6. Between("riichi_city", t2, m2, v, r)
    BY <1>1, <2>5 DEF Between, Waiting, Closing
  <2>7. RiichiSeen(t2, m2, b, v, r)
    BY <2>3, <2>4, <2>6 DEF RiichiSeen, ViewGood
  <2>. QED
    BY <2>1, <2>2, <2>7
<1>4. CASE m2.final
  <2>1. PICK f, e, d : f = [cmd |-> "cmd_room_end"] /\ e = Ev("end_game", 0) /\ d = Shut(b)
    OBVIOUS
  <2>2. RiichiCity!Result(t2, m2) = <<f>> /\ f.cmd = "cmd_room_end"
    BY <1>4, <2>1 DEF RiichiCity!Result
  <2>3. d \in RiichiBridges /\ ~d.window
    BY <1>1, <2>1, RiichiWindow
  <2>4. PICK b2 : b2 = Status(d, RiichiCity!NoStatus)
    OBVIOUS
  <2>5. b2 \in RiichiBridges /\ b2.status = RiichiCity!NoStatus /\ ~b2.window
    BY <2>3, <2>4, RiichiNoStatus, RiichiStatus
  <2>6. Becomes("riichi_city", b, f, b2, <<e>>)
    <3>1. ParseOf("riichi_city", b, f) = RiichiCity!on_room_end(d)
      BY <2>1, <2>2, RiichiParse
    <3>2. RiichiCity!on_room_end(d) = [bridge |-> b2, events |-> <<e>>]
      BY <2>1, <2>4, RiichiEv DEF RiichiCity!on_room_end, RiichiCity!Out, Status
    <3>. QED
      BY <3>1, <3>2 DEF Becomes
  <2>7. e.type = "end_game" /\ Shaped(e) /\ e.scores = <<>>
    BY <2>1 DEF Ev, Shaped, EventTypes
  <2>8. PICK r2 : r2 = [r EXCEPT !.final = Scores!final_scores(r.running, e.scores)]
    OBVIOUS
  <2>9. Plays(v, r, <<e>>, NoView, r2)
    BY <1>1, <2>7, <2>8, SeeEndGame
  <2>10. Runs("riichi_city", b, v, r, <<f>>, b2, NoView, r2)
    BY <2>6, <2>9, RunsFrame
  <2>11. t2.stage = "over"
    BY <1>2, <1>4
  <2>12. RiichiGood(t2, m2, b2)
    BY <2>5, <2>11 DEF RiichiGood
  <2>13. r2.final = t2.score \/ TwiceAt("riichi_city", m2) \/ ChargedAt("riichi_city", m2)
    <3>1. ASSUME NEW s, s.n = t.n, s.score \in [0..(t.n - 1) -> Int], HasPaid(s, t2, m2),
                 r.running = Summed(t.n, s.score, m2.total)
          PROVE  r2.final = t2.score
      <4>1. PICK n, total, sum : n = t.n /\ total = m2.total /\ sum = Summed(n, s.score, total)
        OBVIOUS
      <4>2. Paid(s, t2, total, TRUE)
        BY <1>4, <3>1, <4>1 DEF HasPaid
      <4>3. PaidLast(n, s, t2, total)
        BY <1>2, <3>1, <4>1, <4>2 DEF PaidLast
      <4>4. Scores!final_scores(Summed(n, s.score, total), <<>>) = t2.score
        BY <4>3, FinalIs
      <4>5. r2.final = Scores!final_scores(r.running, <<>>)
        BY <1>1, <2>7, <2>8 DEF Closing, IsRecord
      <4>. QED
        BY <3>1, <4>1, <4>4, <4>5
    <3>. QED
      BY <1>1, <3>1 DEF RiichiPaid
  <2>14. RiichiSeen(t2, m2, b2, NoView, r2)
    BY <2>11, <2>12, <2>13 DEF RiichiSeen, ViewGood, Over
  <2>. QED
    BY <2>2, <2>10, <2>14
<1>. QED
  BY <1>3, <1>4

(* The winners in order, each paid the whole of the hand.                    *)
RiichiHoras(ws, gs, d) == [i \in 1..Len(ws) |-> HoraOf(ws[i], gs[i], d)]

SeenWon(t, v, r, ws, gs, d, v2, r2) ==
  /\ Plays(v, r, RiichiHoras(ws, gs, d), v2, r2)
  /\ Closing(t, v2, r2) /\ v2.phase = "won" /\ \E i \in 1..Len(ws) : v2.target = gs[i]
  /\ Len(ws) = 1 => r2.running = Summed(t.n, r.running, d)

(* Winners, each with the seat that pays.                                    *)
Paying(t, ws, gs) == Len(ws) \in {1, 2} /\ \A i \in 1..Len(ws) : ws[i] \in 0..(t.n - 1) /\ gs[i] \in 0..(t.n - 1)

LEMMA RiichiSeesWins ==
  ASSUME NEW t, TableOK(t), NEW v, NEW r, Closing(t, v, r), v.phase = "hand", NEW ws, NEW gs,
         Paying(t, ws, gs),
         NEW d, d \in [0..(t.n - 1) -> Int]
  PROVE  \E v2, r2 : SeenWon(t, v, r, ws, gs, d, v2, r2)
<1>0. Len(ws) \in {1, 2} /\ \A i \in 1..Len(ws) : ws[i] \in 0..(t.n - 1) /\ gs[i] \in 0..(t.n - 1)
  BY DEF Paying
<1>1. PICK k, hs, ones, twos : k = Len(ws) /\ hs = RiichiHoras(ws, gs, d) /\ ones = 1 /\ twos = 2
  OBVIOUS
<1>2. k \in {1, 2} /\ ones \in 1..k
  BY <1>0, <1>1
<1>3. IsSeq(hs) /\ Len(hs) = k /\ \A i \in 1..k : hs[i] = HoraOf(ws[i], gs[i], d)
  <2>1. hs = [i \in 1..k |-> HoraOf(ws[i], gs[i], d)]
    BY <1>1 DEF RiichiHoras
  <2>2. hs \in Seq({HoraOf(ws[i], gs[i], d) : i \in 1..k})
    BY <1>2, <2>1
  <2>3. IsSeq(hs)
    BY <2>2 DEF IsSeq
  <2>4. Len(hs) = k
    BY <1>2, <2>1
  <2>5. \A i \in 1..k : hs[i] = HoraOf(ws[i], gs[i], d)
    BY <2>1
  <2>. QED
    BY <2>3, <2>4, <2>5
<1>4. PICK v1, r1 : WonFor(t, v, r, ws[ones], gs[ones], d, v1, r1)
  <2>1. ws[ones] \in 0..(t.n - 1) /\ gs[ones] \in 0..(t.n - 1)
    BY <1>0, <1>1, <1>2
  <2>. QED
    BY <2>1, SeeHora
<1>5. /\ Plays(v, r, <<HoraOf(ws[ones], gs[ones], d)>>, v1, r1)
      /\ Closing(t, v1, r1) /\ v1.phase = "won" /\ v1.target = gs[ones]
      /\ r1.running = Summed(t.n, r.running, d)
  BY <1>4 DEF WonFor
<1>6. CASE k = 1
  <2>1. hs = <<HoraOf(ws[ones], gs[ones], d)>>
    BY <1>1, <1>2, <1>3, <1>6, OneOrTwo
  <2>2. SeenWon(t, v, r, ws, gs, d, v1, r1)
    BY <1>1, <1>2, <1>5, <2>1 DEF SeenWon
  <2>. QED
    BY <2>2
<1>7. CASE k = 2
  <2>1. ones \in 1..k /\ twos \in 1..k
    BY <1>1, <1>7
  <2>2. hs = <<HoraOf(ws[ones], gs[ones], d)>> \o <<HoraOf(ws[twos], gs[twos], d)>>
    <3>1. hs = <<hs[1]>> \o <<hs[2]>>
      BY <1>3, <1>7, OneOrTwo
    <3>2. hs[1] = HoraOf(ws[ones], gs[ones], d) /\ hs[2] = HoraOf(ws[twos], gs[twos], d)
      BY <1>1, <1>3, <2>1
    <3>. QED
      BY <3>1, <3>2
  <2>3. PICK v2, r2 : WonFor(t, v1, r1, ws[twos], gs[twos], d, v2, r2)
    <3>1. ws[twos] \in 0..(t.n - 1) /\ gs[twos] \in 0..(t.n - 1)
      BY <1>0, <1>1, <2>1
    <3>. QED
      BY <1>5, <3>1, SeeHora
  <2>4. /\ Plays(v1, r1, <<HoraOf(ws[twos], gs[twos], d)>>, v2, r2)
        /\ Closing(t, v2, r2) /\ v2.phase = "won" /\ v2.target = gs[twos]
    BY <2>3 DEF WonFor
  <2>5. Plays(v, r, hs, v2, r2)
    BY <1>5, <2>2, <2>4, PlaysBoth
  <2>6. SeenWon(t, v, r, ws, gs, d, v2, r2)
    BY <1>1, <1>7, <2>1, <2>4, <2>5 DEF SeenWon
  <2>. QED
    BY <2>6
<1>. QED
  BY <1>2, <1>6, <1>7

(* The result of a hand as the bridge reads it.                              *)
RiichiTarget2(b, tsumo, w) == IF tsumo \/ b.status.last_dahai = Nobody THEN w ELSE b.status.last_dahai

RiichiResult(t, b, f, total, es) ==
  \/ f.winners = <<>> /\ es = <<[Ev("ryukyoku", 0) EXCEPT !.scores = total]>>
  \/ \E ws, gs : /\ Len(ws) \in {1, 2} /\ f.winners = [i \in 1..Len(ws) |-> RiichiCity!Uid(t, ws[i])]
                 /\ \A i \in 1..Len(ws) : ws[i] \in 0..(t.n - 1) /\ gs[i] = RiichiTarget2(b, f.tsumo, ws[i])
                 /\ es = RiichiHoras(ws, gs, total)

LEMMA RiichiOnEnd ==
  ASSUME NEW t, TableOK(t), NEW b, b \in RiichiBridges, RiichiKnows(t, b.status), NEW f,
         f.cmd = "cmd_game_end",
         NEW total, total \in [0..(t.n - 1) -> Int], f.profit = RiichiCity!ByUid(t, total),
         NEW es, RiichiResult(t, b, f, total, es)
  PROVE  \E b2 : /\ Becomes("riichi_city", b, f, b2, Accepts(b.status.pending_reach) \o es \o <<Ev("end_kyoku", 0)>>)
                 /\ b2 \in RiichiBridges /\ ~b2.window /\ RiichiKnows(t, b2.status)
                 /\ b2.status.pending_reach = Nobody
<1>1. PICK d, s : d = Shut(b) /\ s = b.status
  OBVIOUS
<1>2. d \in RiichiBridges /\ d.status = s /\ ~d.window
  BY <1>1, RiichiWindow
<1>3. RiichiCity!flush_pending_reach(d) = Accepts(b.status.pending_reach)
  BY <1>1, <1>2, RiichiFlush
<1>4. PICK b2 : b2 = Status(d, Calm(s))
  OBVIOUS
<1>5. /\ RiichiCity!flushed(d) = b2 /\ b2 \in RiichiBridges /\ b2.status = Calm(s) /\ ~b2.window
  <2>1. RiichiCity!flushed(d) = b2 /\ Calm(s) \in RiichiStatuses
    BY <1>2, <1>4, RiichiCalm
  <2>. QED
    BY <1>2, <1>4, <2>1, RiichiStatus
<1>6. RiichiKnows(t, b2.status) /\ b2.status.pending_reach = Nobody
  <2>1. /\ Calm(s).pending_reach = Nobody
        /\ Calm(s).list = s.list /\ Calm(s).seat = s.seat /\ Calm(s).players = s.players
        /\ Calm(s).shift = s.shift /\ Calm(s).owes_start = s.owes_start
        /\ Calm(s).last_dahai = s.last_dahai
    BY <1>1, RiichiCalm
  <2>. QED
    BY <1>1, <1>5, <2>1 DEF RiichiKnows
<1>7. s.list = Places(t) /\ s.players = t.n
  BY <1>1 DEF RiichiKnows
<1>8. RiichiCity!by_actor(s, f.profit) = total
  BY <1>7, RiichiByActor
<1>9. RiichiCity!Ev("end_kyoku", 0) = Ev("end_kyoku", 0) /\ RiichiCity!Ev("ryukyoku", 0) = Ev("ryukyoku", 0)
  BY RiichiEv
<1>10. RiichiCity!on_game_end(d, f) = [bridge |-> b2, events |-> Accepts(b.status.pending_reach) \o es \o <<Ev("end_kyoku", 0)>>]
  <2>1. CASE f.winners = <<>> /\ es = <<[Ev("ryukyoku", 0) EXCEPT !.scores = total]>>
    <3>1. RiichiCity!on_game_end(d, f) =
            [bridge |-> RiichiCity!flushed(d),
             events |-> RiichiCity!flush_pending_reach(d) \o <<[RiichiCity!Ev("ryukyoku", 0) EXCEPT !.scores = RiichiCity!by_actor(d.status, f.profit)]>>
                          \o <<RiichiCity!Ev("end_kyoku", 0)>>]
      BY <2>1 DEF RiichiCity!on_game_end, RiichiCity!Out
    <3>. QED
      BY <1>2, <1>3, <1>5, <1>8, <1>9, <2>1, <3>1
  <2>2. CASE \E ws, gs : /\ Len(ws) \in {1, 2} /\ f.winners = [i \in 1..Len(ws) |-> RiichiCity!Uid(t, ws[i])]
                         /\ \A i \in 1..Len(ws) : ws[i] \in 0..(t.n - 1) /\ gs[i] = RiichiTarget2(b, f.tsumo, ws[i])
                         /\ es = RiichiHoras(ws, gs, total)
    <3>1. PICK ws, gs : /\ Len(ws) \in {1, 2} /\ f.winners = [i \in 1..Len(ws) |-> RiichiCity!Uid(t, ws[i])]
                        /\ \A i \in 1..Len(ws) : ws[i] \in 0..(t.n - 1) /\ gs[i] = RiichiTarget2(b, f.tsumo, ws[i])
                        /\ es = RiichiHoras(ws, gs, total)
      BY <2>2
    <3>2. PICK k, us : k = Len(ws) /\ us = f.winners
      OBVIOUS
    <3>3. k \in {1, 2} /\ us = [i \in 1..k |-> RiichiCity!Uid(t, ws[i])]
      BY <3>1, <3>2
    <3>4. Len(us) = k /\ us # <<>>
      BY <3>3
    <3>5. PICK hs : hs = [i \in 1..Len(us) |->
                            [RiichiCity!Ev("hora", RiichiCity!actor_of(s, us[i]))
                              EXCEPT !.target = IF f.tsumo \/ s.last_dahai = RiichiCity!Nobody THEN RiichiCity!actor_of(s, us[i]) ELSE s.last_dahai,
                                     !.scores = RiichiCity!by_actor(s, f.profit)]]
      OBVIOUS
    <3>6. hs = es
      <4>1. ASSUME NEW i \in 1..k
            PROVE  [RiichiCity!Ev("hora", RiichiCity!actor_of(s, us[i]))
                      EXCEPT !.target = IF f.tsumo \/ s.last_dahai = RiichiCity!Nobody THEN RiichiCity!actor_of(s, us[i]) ELSE s.last_dahai,
                             !.scores = RiichiCity!by_actor(s, f.profit)] = HoraOf(ws[i], gs[i], total)
        <5>1. us[i] = RiichiCity!Uid(t, ws[i]) /\ ws[i] \in 0..(t.n - 1)
          BY <3>1, <3>2, <3>3
        <5>2. PICK w, g : w = ws[i] /\ g = gs[i]
          OBVIOUS
        <5>3. RiichiCity!actor_of(s, us[i]) = w
          BY <1>7, <5>1, <5>2, RiichiActor
        <5>4. g = IF f.tsumo \/ s.last_dahai = RiichiCity!Nobody THEN w ELSE s.last_dahai
          BY <1>1, <3>1, <3>2, <5>2, RiichiNobody DEF RiichiTarget2
        <5>5. RiichiCity!Ev("hora", w) = Ev("hora", w)
          BY RiichiEv
        <5>. QED
          BY <1>8, <5>2, <5>3, <5>4, <5>5 DEF HoraOf
      <4>2. es = [i \in 1..k |-> HoraOf(ws[i], gs[i], total)]
        BY <3>1, <3>2 DEF RiichiHoras
      <4>. QED
        BY <3>4, <3>5, <4>1, <4>2
    <3>7. RiichiCity!on_game_end(d, f) =
            [bridge |-> RiichiCity!flushed(d),
             events |-> RiichiCity!flush_pending_reach(d) \o hs \o <<RiichiCity!Ev("end_kyoku", 0)>>]
      BY <1>2, <3>2, <3>4, <3>5 DEF RiichiCity!on_game_end, RiichiCity!Out
    <3>. QED
      BY <1>3, <1>5, <1>9, <3>6, <3>7
  <2>. QED
    BY <2>1, <2>2 DEF RiichiResult
<1>11. Becomes("riichi_city", b, f, b2, Accepts(b.status.pending_reach) \o es \o <<Ev("end_kyoku", 0)>>)
  <2>1. ParseOf("riichi_city", b, f) = RiichiCity!on_game_end(d, f)
    BY <1>1, RiichiParse
  <2>. QED
    BY <1>10, <2>1 DEF Becomes
<1>. QED
  BY <1>5, <1>6, <1>11

(* The hand is won: what is declared stands, and the seats are paid.         *)
LEMMA RiichiWinning ==
  ASSUME NEW t, NEW t2, NEW m2, TableOK(t), TableOK(t2), HasWon(t, t2, m2), NEW b,
         b \in RiichiBridges,
         RiichiKnows(t, b.status), b.status.pending_reach = t.pending
  PROVE  \E b2 : /\ Becomes("riichi_city", b, RiichiCity!Act(t2, m2, "win"), b2, Accepts(t.pending))
                 /\ b2 \in RiichiBridges /\ b2.status = Calm(b.status)
<1>1. /\ t2.n = t.n /\ t2.me = t.me /\ t2.shift = t.shift /\ t.turn \in 0..(t.n - 1)
      /\ m2.seat = t.turn
  BY TableFields DEF HasWon, HasEnded, SameHand, SameGame
<1>2. PICK a, f, s, c : a = t.turn /\ f = RiichiCity!Act(t2, m2, "win") /\ s = b.status /\ c = Shut(b)
  OBVIOUS
<1>3. c \in RiichiBridges /\ c.status = s /\ ~c.window /\ s \in RiichiStatuses
  BY <1>2, RiichiWindow DEF RiichiBridges
<1>4. RiichiCity!flush_pending_reach(c) = Accepts(t.pending)
  BY <1>2, <1>3, RiichiFlush
<1>5. f.cmd = "cmd_game_action_brc" /\ f.user = RiichiCity!Uid(t2, a) /\ f.action = "win"
  BY <1>1, <1>2 DEF RiichiCity!Act
<1>6. RiichiCity!actor_of(c.status, f.user) = a
  <2>1. RiichiCity!Uid(t2, a) = RiichiCity!Uid(t, a) /\ s.list = Places(t)
    BY <1>1, <1>2 DEF RiichiCity!Uid, RiichiKnows
  <2>. QED
    BY <1>1, <1>2, <1>3, <1>5, <2>1, RiichiActor
<1>7. PICK d : d = RiichiCity!flushed(c)
  OBVIOUS
<1>8. d = Status(c, Calm(s)) /\ Calm(s) \in RiichiStatuses
  BY <1>3, <1>7, RiichiCalm
<1>9. d \in RiichiBridges /\ d.status = Calm(s)
  BY <1>3, <1>8, RiichiStatus
<1>10. RiichiCity!on_game_action_brc(c, f) = RiichiDone(d, Accepts(t.pending))
  BY <1>3, <1>4, <1>5, <1>6, <1>7, RiichiOnWin
<1>11. Becomes("riichi_city", b, f, d, Accepts(t.pending))
  <2>1. ParseOf("riichi_city", b, f) = RiichiCity!on_game_action_brc(c, f)
    BY <1>2, <1>5, RiichiParse
  <2>. QED
    BY <1>10, <2>1 DEF Becomes, RiichiDone
<1>. QED
  BY <1>2, <1>9, <1>11

RiichiEnd(t2, m2, tsumo) ==
  [cmd |-> "cmd_game_end", tsumo |-> tsumo, profit |-> RiichiCity!ByUid(t2, m2.total),
   winners |-> [i \in 1..Len(m2.winners) |-> RiichiCity!Uid(t2, m2.winners[i])]]

(* The seat whose tile the bridge takes the win to be.                       *)
Gave2(b, tsumo, ws) == [i \in 1..Len(ws) |-> RiichiTarget2(b, tsumo, ws[i])]
HeldBy(t, s) == RiichiKnows(t, s) /\ (t.stage = "open" /\ t.kan = "none" => s.last_dahai = t.turn)
SelfDrawn(m2, tsumo) == tsumo <=> m2.winners = <<m2.from>>
LEMMA RiichiTargets ==
  ASSUME NEW t, NEW t2, NEW m2, TableOK(t), TableOK(t2), HasWon(t, t2, m2), NEW b,
         HeldBy(t, b.status),
         NEW tsumo, SelfDrawn(m2, tsumo), NEW i, i \in 1..Len(m2.winners)
  PROVE  /\ Gave2(b, tsumo, m2.winners)[i] = RiichiTarget2(b, tsumo, m2.winners[i])
         /\ Gave2(b, tsumo, m2.winners)[i] \in 0..(t.n - 1)
         /\ Gave2(b, tsumo, m2.winners)[i] = m2.from \/ m2.call # "none"
<1>0. RiichiKnows(t, b.status) /\ (t.stage = "open" /\ t.kan = "none" => b.status.last_dahai = t.turn) /\ (tsumo <=> m2.winners = <<m2.from>>)
  BY DEF HeldBy, SelfDrawn
<1>1. PICK ws, w, g : ws = m2.winners /\ w = ws[i] /\ g = RiichiTarget2(b, tsumo, w)
  OBVIOUS
<1>2. Gave2(b, tsumo, ws)[i] = g
  BY <1>1 DEF Gave2
<1>3. w \in 0..(t.n - 1) /\ m2.from = t.turn /\ t.turn \in 0..(t.n - 1) /\ t.stage \in {"act", "open"}
  BY <1>1, WinTotals, TableFields DEF HasWon, HasEnded
<1>4. b.status.last_dahai \in 0..(t.n - 1) \cup {Nobody} /\ t.turn # Nobody
  BY <1>0, <1>3, SeatSpan DEF RiichiKnows
<1>5. g \in 0..(t.n - 1)
  BY <1>1, <1>3, <1>4 DEF RiichiTarget2
<1>6. CASE t.stage = "act"
  <2>1. ws = <<t.turn>> /\ Len(ws) \in {1, 2}
    BY <1>1, <1>6 DEF HasWon
  <2>2. Len(<<t.turn>>) = 1 /\ <<t.turn>>[1] = t.turn
    OBVIOUS
  <2>3. w = t.turn
    BY <1>1, <2>1, <2>2
  <2>4. tsumo
    BY <1>0, <1>1, <1>3, <2>1
  <2>. QED
    BY <1>1, <1>2, <1>3, <1>5, <2>3, <2>4 DEF RiichiTarget2
<1>7. CASE t.stage = "open"
  <2>1. m2.call = t.kan /\ \A j \in 1..Len(ws) : ws[j] # t.turn
    BY <1>1, <1>7 DEF HasWon
  <2>2. ~tsumo
    <3>1. ASSUME ws = <<t.turn>> PROVE FALSE
      <4>1. Len(ws) = 1 /\ ws[1] = t.turn
        BY <3>1
      <4>. QED
        BY <2>1, <4>1
    <3>. QED
      BY <1>0, <1>1, <1>3, <3>1
  <2>3. t.kan = "none" => g = t.turn
    BY <1>0, <1>1, <1>4, <1>7, <2>2 DEF RiichiTarget2
  <2>. QED
    BY <1>1, <1>2, <1>3, <1>5, <2>1, <2>3
<1>. QED
  BY <1>3, <1>6, <1>7

(* The riichi that goes out with a win is one that was called off, or none.  *)
LEMMA RiichiPays ==
  ASSUME NEW t, NEW t2, NEW m2, TableOK(t), HasWon(t, t2, m2), NEW r,
         Len(m2.winners) = 1 => r.running = Summed(t.n, Settled(t).score, m2.total)
  PROVE  RiichiPaid(t, t2, m2, r)
<1>1. CASE Len(m2.winners) = 2
  BY <1>1 DEF RiichiPaid, TwiceAt
<1>2. CASE m2.voided
  BY <1>2 DEF RiichiPaid, ChargedAt
<1>3. CASE Len(m2.winners) # 2 /\ ~m2.voided
  <2>1. Len(m2.winners) = 1
    BY <1>3 DEF HasWon
  <2>2. t.pending = None
    <3>1. t.stage = "act" => t.pending = None
      BY DEF TableOK, Stage
    <3>2. t.stage = "open" => m2.voided = (t.pending # None)
      BY DEF HasWon
    <3>3. t.stage \in {"act", "open"}
      BY DEF HasWon, HasEnded
    <3>. QED
      BY <1>3, <3>1, <3>2, <3>3
  <2>3. Settled(t) = t
    BY <2>2 DEF Settled
  <2>4. t.score \in [0..(t.n - 1) -> Int] /\ HasPaid(t, t2, m2)
    BY DEF TableOK, HasWon
  <2>. QED
    BY <2>1, <2>3, <2>4 DEF RiichiPaid
<1>. QED
  BY <1>1, <1>2, <1>3

LEMMA TwoFrames ==
  ASSUME NEW x, NEW y
  PROVE  <<x, y>> = <<x>> \o <<y>>
<1>1. PICK s : s = <<x, y>>
  OBVIOUS
<1>2. s \in Seq({x, y}) /\ Len(s) = 2 /\ s[1] = x /\ s[2] = y
  BY <1>1
<1>3. IsSeq(s)
  BY <1>2 DEF IsSeq
<1>. QED
  BY <1>1, <1>2, <1>3, OneOrTwo

LEMMA RiichiWins ==
  ASSUME NEW t, NEW t2, NEW m, NEW m2, TableOK(t), TableOK(t2), HasWon(t, t2, m2), NEW b, NEW v,
         NEW r, RiichiSeen(t, m, b, v, r)
  PROVE  \E b2, v2, r2 : /\ Runs("riichi_city", b, v, r, RiichiCity!Frames(t, t2, m2) \o RiichiCity!Result(t2, m2), b2, v2, r2)
                         /\ RiichiSeen(t2, m2, b2, v2, r2)
<1>1. /\ t.stage \in {"act", "open"} /\ SameGame(t, t2) /\ t2.n = t.n /\ t2.me = t.me
      /\ m2.kind = "win" /\ m2.final \in BOOLEAN
      /\ HasEnded(t, t2, m2) /\ HasPaid(t, t2, m2) /\ (t.stage = "act" => t.drew)
  BY DEF HasWon, HasEnded, SameHand, SameGame
<1>2. /\ b \in RiichiBridges /\ RiichiKnows(t, b.status) /\ RiichiHand(t, b.status)
      /\ Hand(t, t.pending, v, r)
  BY <1>1, RiichiInHand
<1>3. b.status.pending_reach = t.pending /\ (t.stage = "open" /\ t.kan = "none" => b.status.last_dahai = t.turn)
  BY <1>2 DEF RiichiHand
<1>4. PICK b1 : /\ Becomes("riichi_city", b, RiichiCity!Act(t2, m2, "win"), b1, Accepts(t.pending))
                /\ b1 \in RiichiBridges /\ b1.status = Calm(b.status)
  BY <1>2, <1>3, RiichiWinning
<1>5. /\ RiichiKnows(t, b1.status) /\ RiichiKnows(t2, b1.status) /\ b1.status.pending_reach = Nobody
      /\ (t.stage = "open" /\ t.kan = "none" => b1.status.last_dahai = t.turn)
  <2>1. PICK s, z : s = b.status /\ z = b1.status
    OBVIOUS
  <2>2. /\ z.pending_reach = Nobody
        /\ z.list = s.list /\ z.seat = s.seat /\ z.players = s.players
        /\ z.shift = s.shift /\ z.owes_start = s.owes_start /\ z.last_dahai = s.last_dahai
    BY <1>2, <1>4, <2>1, RiichiCalm
  <2>3. RiichiKnows(t, z)
    BY <1>2, <2>1, <2>2 DEF RiichiKnows
  <2>4. Places(t2) = Places(t) /\ t2.shift = t.shift
    BY <1>1 DEF Places, RiichiCity!Uid, SameGame
  <2>5. RiichiKnows(t2, z)
    BY <1>1, <2>3, <2>4 DEF RiichiKnows
  <2>. QED
    BY <1>3, <2>1, <2>2, <2>3, <2>5
<1>6. PICK v1, r1 : Plays(v, r, Accepts(t.pending), v1, r1) /\ Hand(Settled(t), None, v1, r1)
  BY <1>1, <1>2, SeePassed
<1>7. Closing(t2, v1, r1) /\ v1.phase = "hand" /\ r1.running = Settled(t).score
  <2>1. PICK s : s = Settled(t)
    OBVIOUS
  <2>2. TableOK(s) /\ s.stage = t.stage /\ s.drew = t.drew /\ SameHand(t, s)
    BY <1>1, <2>1, SettledOK
  <2>3. Closing(s, v1, r1) /\ v1.phase = "hand"
    BY <1>1, <1>6, <2>1, <2>2, HandCloses
  <2>4. SameGame(s, t2)
    BY <1>1, <2>2 DEF SameHand, SameGame
  <2>. QED
    BY <1>6, <2>1, <2>3, <2>4, ClosingAs DEF Hand
<1>8. PICK tsumo, ws, total : tsumo = (m2.winners = <<m2.from>>) /\ ws = m2.winners /\ total = m2.total
  OBVIOUS
<1>9. PICK gs : gs = Gave2(b1, tsumo, ws)
  OBVIOUS
<1>10. /\ Len(ws) \in {1, 2} /\ total \in [0..(t2.n - 1) -> Int]
       /\ \A i \in 1..Len(ws) : /\ ws[i] \in 0..(t2.n - 1) /\ gs[i] \in 0..(t2.n - 1) /\ gs[i] = RiichiTarget2(b1, tsumo, ws[i])
                                /\ gs[i] = m2.from \/ m2.call # "none"
  <2>1. Len(ws) \in {1, 2} /\ \A i \in 1..Len(ws) : ws[i] \in 0..(t2.n - 1)
    BY <1>1, <1>8, WinTotals
  <2>2. total \in [0..(t2.n - 1) -> Int]
    BY <1>1, <1>8 DEF HasPaid, Paid
  <2>3. ASSUME NEW i \in 1..Len(ws)
        PROVE  gs[i] \in 0..(t2.n - 1) /\ gs[i] = RiichiTarget2(b1, tsumo, ws[i]) /\ (gs[i] = m2.from \/ m2.call # "none")
    <3>1. i \in 1..Len(m2.winners) /\ SelfDrawn(m2, tsumo) /\ gs = Gave2(b1, tsumo, m2.winners)
      BY <1>8, <1>9 DEF SelfDrawn
    <3>2. HeldBy(t, b1.status)
      BY <1>5 DEF HeldBy
    <3>3. /\ Gave2(b1, tsumo, m2.winners)[i] = RiichiTarget2(b1, tsumo, m2.winners[i])
          /\ Gave2(b1, tsumo, m2.winners)[i] \in 0..(t.n - 1)
          /\ Gave2(b1, tsumo, m2.winners)[i] = m2.from \/ m2.call # "none"
      BY <3>1, <3>2, RiichiTargets
    <3>. QED
      BY <1>1, <1>8, <3>1, <3>3
  <2>. QED
    BY <2>1, <2>2, <2>3
<1>11. PICK f, es : f = RiichiEnd(t2, m2, tsumo) /\ es = RiichiHoras(ws, gs, total)
  OBVIOUS
<1>12. /\ f.cmd = "cmd_game_end" /\ f.profit = RiichiCity!ByUid(t2, total) /\ f.tsumo = tsumo
       /\ f.winners = [i \in 1..Len(ws) |-> RiichiCity!Uid(t2, ws[i])]
  BY <1>8, <1>11 DEF RiichiEnd
<1>13. PICK b2 : /\ Becomes("riichi_city", b1, f, b2, Accepts(b1.status.pending_reach) \o es \o <<Ev("end_kyoku", 0)>>)
                 /\ b2 \in RiichiBridges /\ ~b2.window /\ RiichiKnows(t2, b2.status)
                 /\ b2.status.pending_reach = Nobody
  <2>1. RiichiResult(t2, b1, f, total, es)
    BY <1>10, <1>11, <1>12 DEF RiichiResult
  <2>. QED
    BY <1>4, <1>5, <1>10, <1>12, <2>1, RiichiOnEnd
<1>14. PICK v2, r2 : SeenWon(t2, v1, r1, ws, gs, total, v2, r2)
  <2>1. Paying(t2, ws, gs)
    BY <1>10 DEF Paying
  <2>. QED
    BY <1>7, <1>10, <2>1, RiichiSeesWins
<1>15. /\ Plays(v1, r1, es, v2, r2) /\ Closing(t2, v2, r2) /\ v2.phase = "won"
       /\ (v2.target = m2.from \/ m2.call # "none")
       /\ (Len(ws) = 1 => r2.running = Summed(t2.n, r1.running, total))
  BY <1>10, <1>11, <1>14 DEF SeenWon
<1>16. PICK v3 : /\ Plays(v2, r2, <<Ev("end_kyoku", 0)>>, v3, r2)
                 /\ Closing(t2, v3, r2) /\ v3.phase = "ended" /\ v3.target = v2.target
  BY <1>15, SeeEndKyoku
<1>17. Runs("riichi_city", b1, v1, r1, <<f>>, b2, v3, r2)
  <2>1. Accepts(b1.status.pending_reach) = <<>>
    BY <1>5, RiichiNobody DEF Accepts
  <2>2. Plays(v1, r1, Accepts(b1.status.pending_reach), v1, r1)
    BY <2>1, PlaysNothing
  <2>3. Plays(v1, r1, Accepts(b1.status.pending_reach) \o es, v2, r2)
    BY <1>15, <2>2, PlaysBoth
  <2>4. Plays(v1, r1, Accepts(b1.status.pending_reach) \o es \o <<Ev("end_kyoku", 0)>>, v3, r2)
    BY <1>16, <2>3, PlaysBoth
  <2>. QED
    BY <1>13, <2>4, RunsFrame
<1>18. Runs("riichi_city", b, v, r, <<RiichiCity!Act(t2, m2, "win")>>, b1, v1, r1)
  BY <1>4, <1>6, RunsFrame
<1>19. RiichiCity!Frames(t, t2, m2) = <<RiichiCity!Act(t2, m2, "win")>> \o <<f>>
  <2>1. PICK x, y : x = RiichiCity!Act(t2, m2, "win") /\ y = f
    OBVIOUS
  <2>2. f = [cmd |-> "cmd_game_end", tsumo |-> m2.winners = <<m2.from>>, profit |-> RiichiCity!ByUid(t2, m2.total),
             winners |-> [i \in 1..Len(m2.winners) |-> RiichiCity!Uid(t2, m2.winners[i])]]
    BY <1>8, <1>11, Zenon DEF RiichiEnd
  <2>3. RiichiCity!Frames(t, t2, m2) =
          <<RiichiCity!Act(t2, m2, "win"),
            [cmd |-> "cmd_game_end", tsumo |-> m2.winners = <<m2.from>>, profit |-> RiichiCity!ByUid(t2, m2.total),
             winners |-> [i \in 1..Len(m2.winners) |-> RiichiCity!Uid(t2, m2.winners[i])]]>>
    BY <1>1 DEF RiichiCity!Frames
  <2>4. RiichiCity!Frames(t, t2, m2) = <<x, y>>
    BY <2>1, <2>2, <2>3, Zenon
  <2>5. <<x, y>> = <<x>> \o <<y>>
    BY TwoFrames
  <2>. QED
    BY <2>1, <2>4, <2>5
<1>20. RiichiEnded(t, t2, m2, b2, v3, r2)
  <2>1. RiichiPaid(t, t2, m2, r2)
    <3>1. Len(m2.winners) = 1 => r2.running = Summed(t.n, Settled(t).score, m2.total)
      BY <1>1, <1>7, <1>8, <1>15
    <3>. QED
      BY <3>1, RiichiPays
  <2>. QED
    BY <1>13, <1>15, <1>16, <2>1 DEF RiichiEnded
<1>21. PICK b3, v4, r3 : Runs("riichi_city", b2, v3, r2, RiichiCity!Result(t2, m2), b3, v4, r3) /\ RiichiSeen(t2, m2, b3, v4, r3)
  BY <1>1, <1>20, RiichiLeaves
<1>22. Runs("riichi_city", b, v, r, RiichiCity!Frames(t, t2, m2), b2, v3, r2)
  BY <1>17, <1>18, <1>19, RunsBoth
<1>23. Runs("riichi_city", b, v, r, RiichiCity!Frames(t, t2, m2) \o RiichiCity!Result(t2, m2), b3, v4, r3)
  BY <1>21, <1>22, RunsBoth
<1>. QED
  BY <1>21, <1>23

(* The hand is drawn, or aborted.                                            *)
RiichiDraw(t2, m2) == [cmd |-> "cmd_game_end", tsumo |-> FALSE, profit |-> RiichiCity!ByUid(t2, m2.total), winners |-> <<>>]

LEMMA RiichiExhausts ==
  ASSUME NEW t, NEW t2, NEW m, NEW m2, TableOK(t), TableOK(t2), HasExhausted(t, t2, m2), NEW b,
         NEW v, NEW r, RiichiSeen(t, m, b, v, r)
  PROVE  \E b2, v2, r2 : /\ Runs("riichi_city", b, v, r, RiichiCity!Frames(t, t2, m2) \o RiichiCity!Result(t2, m2), b2, v2, r2)
                         /\ RiichiSeen(t2, m2, b2, v2, r2)
<1>1. /\ t.stage \in {"act", "open"} /\ SameGame(t, t2) /\ t2.n = t.n /\ t2.me = t.me
      /\ m2.kind = "exhaust" /\ m2.final \in BOOLEAN
      /\ HasEnded(t, t2, m2) /\ HasPaid(Settled(t), t2, m2) /\ (t.stage = "act" => t.drew)
  BY DEF HasExhausted, HasEnded, SameHand, SameGame
<1>2. /\ b \in RiichiBridges /\ RiichiKnows(t, b.status) /\ RiichiHand(t, b.status)
      /\ Hand(t, t.pending, v, r)
  BY <1>1, RiichiInHand
<1>3. b.status.pending_reach = t.pending /\ RiichiKnows(t2, b.status)
  <2>1. Places(t2) = Places(t) /\ t2.shift = t.shift
    BY <1>1 DEF Places, RiichiCity!Uid, SameGame
  <2>. QED
    BY <1>1, <1>2, <2>1 DEF RiichiHand, RiichiKnows
<1>4. PICK v1, r1 : Plays(v, r, Accepts(t.pending), v1, r1) /\ Hand(Settled(t), None, v1, r1)
  BY <1>1, <1>2, SeePassed
<1>5. PICK s, d : s = Settled(t) /\ d = m2.total
  OBVIOUS
<1>6. TableOK(s) /\ s.stage = t.stage /\ s.drew = t.drew /\ s.n = t.n /\ SameGame(s, t2) /\ s.score \in [0..(t.n - 1) -> Int]
  <2>1. TableOK(s) /\ s.stage = t.stage /\ s.drew = t.drew /\ SameHand(t, s)
    BY <1>1, <1>5, SettledOK
  <2>2. SameGame(s, t2) /\ s.n = t.n
    BY <1>1, <2>1 DEF SameHand, SameGame
  <2>. QED
    BY <2>1, <2>2 DEF TableOK
<1>7. d \in [0..(t.n - 1) -> Int] /\ t.n \in 3..4
  BY <1>1, <1>5, <1>6, TableFields DEF HasPaid, Paid
<1>19. PICK v2, r2 : /\ Plays(v1, r1, <<[Ev("ryukyoku", 0) EXCEPT !.scores = d]>>, v2, r2)
                     /\ Closing(s, v2, r2) /\ v2.phase = "won"
                     /\ r2.running = Scores!add_deltas(r1.running, d)
  BY <1>1, <1>4, <1>5, <1>6, <1>7, SeeRyukyoku
<1>20. PICK e : e = [Ev("ryukyoku", 0) EXCEPT !.scores = d]
  OBVIOUS
<1>8. /\ e = [Ev("ryukyoku", 0) EXCEPT !.scores = d] /\ Plays(v1, r1, <<e>>, v2, r2)
      /\ Closing(s, v2, r2) /\ v2.phase = "won" /\ r2.running = Scores!add_deltas(r1.running, d)
  BY <1>19, <1>20
<1>9. r2.running = Summed(t.n, s.score, m2.total)
  <2>1. r1.running = s.score
    BY <1>4, <1>5 DEF Hand
  <2>2. PICK n, x : n = t.n /\ x = s.score
    OBVIOUS
  <2>3. n \in 3..4 /\ x \in [0..(n - 1) -> Int] /\ d \in [0..(n - 1) -> Int]
    BY <1>6, <1>7, <2>2
  <2>4. Scores!add_deltas(x, d) = [a \in 0..(n - 1) |-> x[a] + d[a]]
    BY <2>3, Added
  <2>. QED
    BY <1>1, <1>5, <1>8, <2>1, <2>2, <2>4 DEF Summed
<1>10. Closing(t2, v2, r2)
  BY <1>6, <1>8, ClosingAs
<1>11. PICK v3 : /\ Plays(v2, r2, <<Ev("end_kyoku", 0)>>, v3, r2)
                 /\ Closing(t2, v3, r2) /\ v3.phase = "ended" /\ v3.target = v2.target
  BY <1>8, <1>10, SeeEndKyoku
<1>12. PICK f, es : f = RiichiDraw(t2, m2) /\ es = <<e>>
  OBVIOUS
<1>13. f.cmd = "cmd_game_end" /\ f.profit = RiichiCity!ByUid(t2, d) /\ f.winners = <<>>
  BY <1>5, <1>12 DEF RiichiDraw
<1>14. PICK b2 : /\ Becomes("riichi_city", b, f, b2, Accepts(b.status.pending_reach) \o es \o <<Ev("end_kyoku", 0)>>)
                 /\ b2 \in RiichiBridges /\ ~b2.window /\ RiichiKnows(t2, b2.status)
                 /\ b2.status.pending_reach = Nobody
  <2>1. RiichiResult(t2, b, f, d, es)
    BY <1>8, <1>12, <1>13 DEF RiichiResult
  <2>2. d \in [0..(t2.n - 1) -> Int]
    BY <1>1, <1>7
  <2>. QED
    BY <1>2, <1>3, <1>13, <2>1, <2>2, RiichiOnEnd
<1>15. Runs("riichi_city", b, v, r, RiichiCity!Frames(t, t2, m2), b2, v3, r2)
  <2>1. Plays(v, r, Accepts(b.status.pending_reach), v1, r1)
    BY <1>3, <1>4
  <2>2. Plays(v, r, Accepts(b.status.pending_reach) \o es, v2, r2)
    BY <1>8, <1>12, <2>1, PlaysBoth
  <2>3. Plays(v, r, Accepts(b.status.pending_reach) \o es \o <<Ev("end_kyoku", 0)>>, v3, r2)
    BY <1>11, <2>2, PlaysBoth
  <2>4. Runs("riichi_city", b, v, r, <<f>>, b2, v3, r2)
    BY <1>14, <2>3, RunsFrame
  <2>5. RiichiCity!Frames(t, t2, m2) = <<f>>
    BY <1>1, <1>12 DEF RiichiCity!Frames, RiichiDraw
  <2>. QED
    BY <2>4, <2>5
<1>16. RiichiEnded(t, t2, m2, b2, v3, r2)
  <2>1. RiichiPaid(t, t2, m2, r2)
    BY <1>1, <1>5, <1>6, <1>9 DEF RiichiPaid
  <2>. QED
    BY <1>1, <1>11, <1>14, <2>1 DEF RiichiEnded
<1>17. PICK b3, v4, r3 : Runs("riichi_city", b2, v3, r2, RiichiCity!Result(t2, m2), b3, v4, r3) /\ RiichiSeen(t2, m2, b3, v4, r3)
  BY <1>1, <1>16, RiichiLeaves
<1>18. Runs("riichi_city", b, v, r, RiichiCity!Frames(t, t2, m2) \o RiichiCity!Result(t2, m2), b3, v4, r3)
  BY <1>15, <1>17, RunsBoth
<1>. QED
  BY <1>17, <1>18

LEMMA RiichiMoves ==
  ASSUME NEW t, NEW t2, NEW m, NEW m2, TableOK(t), TableOK(t2), Moved(t, t2, m2), NEW b, NEW v,
         NEW r, RiichiSeen(t, m, b, v, r)
  PROVE  \E b2, v2, r2 : /\ Runs("riichi_city", b, v, r, RiichiCity!Frames(t, t2, m2) \o RiichiCity!Result(t2, m2), b2, v2, r2)
                         /\ RiichiSeen(t2, m2, b2, v2, r2)
<1>1. CASE HasWon(t, t2, m2)
  BY <1>1, RiichiWins
<1>2. CASE HasExhausted(t, t2, m2)
  BY <1>2, RiichiExhausts
<1>3. CASE HasSat(t, t2, m2) \/ HasDealt(t, t2, m2) \/ HasDrawn(t, t2, m2) \/ HasDiscarded(t, t2, m2) \/ HasCalled(t, t2, m2) \/ HasKan(t, t2, m2)
  <2>1. \E b2, v2, r2 : Runs("riichi_city", b, v, r, RiichiCity!Frames(t, t2, m2), b2, v2, r2) /\ RiichiSeen(t2, m2, b2, v2, r2)
    <3>1. CASE HasSat(t, t2, m2)
      BY <3>1, RiichiSits
    <3>2. CASE HasDealt(t, t2, m2)
      BY <3>2, RiichiDeals
    <3>3. CASE HasDrawn(t, t2, m2)
      BY <3>3, RiichiDraws
    <3>4. CASE HasDiscarded(t, t2, m2)
      BY <3>4, RiichiDiscards
    <3>5. CASE HasCalled(t, t2, m2)
      BY <3>5, RiichiCalls
    <3>6. CASE HasKan(t, t2, m2)
      BY <3>6, RiichiKans
    <3>. QED
      BY <1>3, <3>1, <3>2, <3>3, <3>4, <3>5, <3>6, Zenon
  <2>2. PICK b2, v2, r2 : Runs("riichi_city", b, v, r, RiichiCity!Frames(t, t2, m2), b2, v2, r2) /\ RiichiSeen(t2, m2, b2, v2, r2)
    BY <2>1
  <2>3. ~m2.final
    BY <1>3 DEF HasSat, HasDealt, HasDrawn, HasDiscarded, HasCalled, HasKan
  <2>4. RiichiCity!Result(t2, m2) = <<>>
    BY <2>3 DEF RiichiCity!Result
  <2>5. Runs("riichi_city", b2, v2, r2, RiichiCity!Result(t2, m2), b2, v2, r2)
    BY <2>4, RunsNothing
  <2>6. Runs("riichi_city", b, v, r, RiichiCity!Frames(t, t2, m2) \o RiichiCity!Result(t2, m2), b2, v2, r2)
    BY <2>2, <2>5, RunsBoth
  <2>. QED
    BY <2>2, <2>6
<1>. QED
  BY <1>1, <1>2, <1>3, Zenon DEF Moved
===============================================================================
