----------------------------- MODULE TableProofs ------------------------------
(*****************************************************************************)
(* What the theorems about Bridges rest on, for any tables and any bounds on *)
(* moves, hands, games and indicators: what a reader makes of a sequence of  *)
(* events and a bridge of a sequence of frames (Plays, Runs), since neither  *)
(* may be a recursion here; the state of the table after each move (TableOK  *)
(* and one Has... for each action: what it does, without how the choices     *)
(* were made); and what each kind of event tells a reader who knows the      *)
(* table.                                                                    *)
(*****************************************************************************)
EXTENDS Bridges, FiniteSetTheorems, NaturalsInduction, WellFoundedInduction, TLAPS

(* ------ sequences -------------------------------------------------------- *)

IsSeq(s) == \E S : s \in Seq(S)

LEMMA EmptyIsSeq == IsSeq(<<>>) /\ Len(<<>>) = 0
<1>1. <<>> \in Seq({})
  OBVIOUS
<1>. QED
  BY <1>1 DEF IsSeq

LEMMA OneIsSeq ==
  ASSUME NEW x
  PROVE  IsSeq(<<x>>) /\ Len(<<x>>) = 1 /\ <<x>>[1] = x
<1>1. <<x>> \in Seq({x})
  OBVIOUS
<1>. QED
  BY <1>1 DEF IsSeq

(* What a sequence of one value, as often as one likes, is.                  *)
LEMMA TimesIsSeq ==
  ASSUME NEW k \in Nat, NEW x
  PROVE  LET s == [i \in 1..k |-> x] IN IsSeq(s) /\ Len(s) = k /\ \A i \in 1..k : s[i] = x
<1>1. [i \in 1..k |-> x] \in Seq({x})
  OBVIOUS
<1>2. Len([i \in 1..k |-> x]) = k
  BY <1>1
<1>. QED
  BY <1>1, <1>2 DEF IsSeq

LEMMA SeqLen ==
  ASSUME NEW s, IsSeq(s)
  PROVE  /\ Len(s) \in Nat
         /\ Len(s) = 0 => s = <<>>
         /\ s # <<>> => Len(s) >= 1
<1>1. PICK S : s \in Seq(S)
  BY DEF IsSeq
<1>. QED
  BY <1>1

LEMMA Joined ==
  ASSUME NEW s, NEW t, IsSeq(s), IsSeq(t)
  PROVE  /\ IsSeq(s \o t) /\ Len(s \o t) = Len(s) + Len(t)
         /\ \A i \in 1..Len(s) : (s \o t)[i] = s[i]
         /\ \A i \in 1..Len(t) : (s \o t)[Len(s) + i] = t[i]
<1>1. PICK S : s \in Seq(S)
  BY DEF IsSeq
<1>2. PICK T : t \in Seq(T)
  BY DEF IsSeq
<1>3. s \in Seq(S \cup T) /\ t \in Seq(S \cup T)
  <2>1. \A i \in 1..Len(s) : s[i] \in S \cup T
    BY <1>1
  <2>2. \A i \in 1..Len(t) : t[i] \in S \cup T
    BY <1>2
  <2>. QED
    BY <1>1, <1>2, <2>1, <2>2
<1>4. \A U : \A u, w \in Seq(U) : /\ u \o w \in Seq(U) /\ Len(u \o w) = Len(u) + Len(w)
                                  /\ \A i \in 1..Len(u) : (u \o w)[i] = u[i]
                                  /\ \A i \in 1..Len(w) : (u \o w)[Len(u) + i] = w[i]
  OBVIOUS
<1>. QED
  BY <1>3, <1>4 DEF IsSeq

LEMMA HeadTail ==
  ASSUME NEW s, IsSeq(s), s # <<>>
  PROVE  /\ IsSeq(Tail(s)) /\ Len(Tail(s)) = Len(s) - 1 /\ Len(s) >= 1
         /\ Head(s) = s[1]
         /\ \A i \in 1..Len(s) - 1 : Tail(s)[i] = s[i + 1]
<1>1. PICK S : s \in Seq(S)
  BY DEF IsSeq
<1>2. \A U : \A u \in Seq(U) : u # <<>> =>
         /\ Tail(u) \in Seq(U) /\ Len(Tail(u)) = Len(u) - 1 /\ Len(u) >= 1 /\ Head(u) = u[1]
         /\ \A i \in 1..Len(u) - 1 : Tail(u)[i] = u[i + 1]
  OBVIOUS
<1>. QED
  BY <1>1, <1>2 DEF IsSeq

(* ------ what a reader makes of some events ------------------------------- *)

EventTypes == {"start_game", "start_kyoku", "tsumo", "reach", "dahai", "reach_accepted", "dora",
               "hora", "ryukyoku", "end_kyoku", "end_game"} \cup Calls \cup OwnKans

Shaped(e) ==
  /\ e.type \in EventTypes /\ e.actor \in 0..3 /\ e.target \in 0..3 /\ e.giri \in BOOLEAN
  /\ e.type = "start_game" => e.players \in {3, 4}

Says(v, e) == Shaped(e) /\ Legal(v, e)

(* The events of es may follow, and turn what is known into v2 and r2.       *)
Plays(v, r, es, v2, r2) ==
  /\ IsSeq(es)
  /\ \E vs, rs :
       /\ vs[0] = v /\ rs[0] = r /\ vs[Len(es)] = v2 /\ rs[Len(es)] = r2
       /\ \A i \in 1..Len(es) : /\ Says(vs[i - 1], es[i])
                                /\ vs[i] = After(vs[i - 1], es[i])
                                /\ rs[i] = Scores!Record(rs[i - 1], es[i])

LEMMA PlaysNothing ==
  ASSUME NEW v, NEW r, NEW v2, NEW r2
  PROVE  Plays(v, r, <<>>, v2, r2) <=> v2 = v /\ r2 = r
<1>1. ASSUME v2 = v, r2 = r PROVE Plays(v, r, <<>>, v2, r2)
  <2> DEFINE vs == [i \in 0..0 |-> v]
             rs == [i \in 0..0 |-> r]
  <2>1. vs[0] = v /\ rs[0] = r /\ \A i \in 1..0 : FALSE
    OBVIOUS
  <2> HIDE DEF vs, rs
  <2>. QED
    BY <1>1, <2>1, EmptyIsSeq DEF Plays
<1>. QED
  BY <1>1, EmptyIsSeq DEF Plays

LEMMA PlaysOne ==
  ASSUME NEW v, NEW r, NEW e, Says(v, e)
  PROVE  Plays(v, r, <<e>>, After(v, e), Scores!Record(r, e))
<1> DEFINE vs == [i \in 0..1 |-> IF i = 0 THEN v ELSE After(v, e)]
           rs == [i \in 0..1 |-> IF i = 0 THEN r ELSE Scores!Record(r, e)]
<1>1. vs[0] = v /\ rs[0] = r /\ vs[1] = After(v, e) /\ rs[1] = Scores!Record(r, e)
  OBVIOUS
<1>2. \A i \in 1..1 : i = 1 /\ i - 1 = 0
  OBVIOUS
<1> HIDE DEF vs, rs
<1>. QED
  BY <1>1, <1>2, OneIsSeq DEF Plays

LEMMA PlaysBoth ==
  ASSUME NEW v, NEW r, NEW es, NEW v1, NEW r1, NEW fs, NEW v2, NEW r2,
         Plays(v, r, es, v1, r1), Plays(v1, r1, fs, v2, r2)
  PROVE  Plays(v, r, es \o fs, v2, r2)
<1>1. PICK vs, rs :
        /\ vs[0] = v /\ rs[0] = r /\ vs[Len(es)] = v1 /\ rs[Len(es)] = r1
        /\ \A i \in 1..Len(es) : /\ Says(vs[i - 1], es[i])
                                 /\ vs[i] = After(vs[i - 1], es[i])
                                 /\ rs[i] = Scores!Record(rs[i - 1], es[i])
  BY DEF Plays
<1>2. PICK ws, qs :
        /\ ws[0] = v1 /\ qs[0] = r1 /\ ws[Len(fs)] = v2 /\ qs[Len(fs)] = r2
        /\ \A i \in 1..Len(fs) : /\ Says(ws[i - 1], fs[i])
                                 /\ ws[i] = After(ws[i - 1], fs[i])
                                 /\ qs[i] = Scores!Record(qs[i - 1], fs[i])
  BY DEF Plays
<1>3. PICK m, n : m = Len(es) /\ n = Len(fs)
  OBVIOUS
<1>4. m \in Nat /\ n \in Nat /\ IsSeq(es) /\ IsSeq(fs)
  BY <1>3, SeqLen DEF Plays
<1>5. PICK gs : gs = es \o fs
  OBVIOUS
<1>6. /\ IsSeq(gs) /\ Len(gs) = m + n
      /\ \A i \in 1..m : gs[i] = es[i]
      /\ \A i \in 1..n : gs[m + i] = fs[i]
  BY <1>3, <1>4, <1>5, Joined
<1> DEFINE us == [i \in 0..m + n |-> IF i <= m THEN vs[i] ELSE ws[i - m]]
           ps == [i \in 0..m + n |-> IF i <= m THEN rs[i] ELSE qs[i - m]]
<1>7. /\ \A i \in 0..m : us[i] = vs[i] /\ ps[i] = rs[i]
      /\ \A i \in 0..n : us[m + i] = ws[i] /\ ps[m + i] = qs[i]
  <2>1. \A i \in 0..m : us[i] = vs[i] /\ ps[i] = rs[i]
    BY <1>4
  <2>2. \A i \in 0..n : i # 0 => us[m + i] = ws[i] /\ ps[m + i] = qs[i]
    <3>1. \A i \in 0..n : i # 0 => m + i \in 0..m + n /\ ~(m + i <= m) /\ (m + i) - m = i
      BY <1>4
    <3>. QED
      BY <3>1
  <2>3. us[m + 0] = ws[0] /\ ps[m + 0] = qs[0]
    <3>1. m + 0 = m /\ m \in 0..m
      BY <1>4
    <3>. QED
      BY <3>1, <2>1, <1>1, <1>2, <1>3
  <2>. QED
    BY <2>1, <2>2, <2>3
<1> HIDE DEF us, ps
<1>8. us[0] = v /\ ps[0] = r /\ us[m + n] = v2 /\ ps[m + n] = r2
  <2>1. 0 \in 0..m /\ n \in 0..n
    BY <1>4
  <2>. QED
    BY <2>1, <1>7, <1>1, <1>2, <1>3
<1>9. ASSUME NEW i \in 1..m + n
      PROVE  /\ Says(us[i - 1], gs[i])
             /\ us[i] = After(us[i - 1], gs[i])
             /\ ps[i] = Scores!Record(ps[i - 1], gs[i])
  <2>1. CASE i <= m
    <3>1. i \in 1..m /\ i \in 0..m /\ i - 1 \in 0..m
      BY <2>1, <1>4
    <3>. QED
      BY <3>1, <1>7, <1>6, <1>1, <1>3
  <2>2. CASE ~(i <= m)
    <3>1. PICK j : j = i - m
      OBVIOUS
    <3>2. j \in 1..n /\ j \in 0..n /\ j - 1 \in 0..n /\ i = m + j /\ i - 1 = m + (j - 1)
      BY <2>2, <3>1, <1>4
    <3>. QED
      BY <3>2, <1>7, <1>6, <1>2, <1>3
  <2>. QED
    BY <2>1, <2>2
<1>10. Plays(v, r, gs, v2, r2)
  BY <1>6, <1>8, <1>9 DEF Plays
<1>. QED
  BY <1>5, <1>10

(* The first of the events is published.                                     *)
LEMMA PlaysFirst ==
  ASSUME NEW v, NEW r, NEW es, NEW v2, NEW r2, Plays(v, r, es, v2, r2), es # <<>>
  PROVE  /\ Says(v, Head(es))
         /\ Plays(After(v, Head(es)), Scores!Record(r, Head(es)), Tail(es), v2, r2)
<1>1. PICK vs, rs :
        /\ vs[0] = v /\ rs[0] = r /\ vs[Len(es)] = v2 /\ rs[Len(es)] = r2
        /\ \A i \in 1..Len(es) : /\ Says(vs[i - 1], es[i])
                                 /\ vs[i] = After(vs[i - 1], es[i])
                                 /\ rs[i] = Scores!Record(rs[i - 1], es[i])
  BY DEF Plays
<1>2. PICK n : n = Len(es)
  OBVIOUS
<1>3. /\ IsSeq(Tail(es)) /\ Len(Tail(es)) = n - 1 /\ n >= 1 /\ n \in Nat
      /\ Head(es) = es[1] /\ \A i \in 1..n - 1 : Tail(es)[i] = es[i + 1]
  BY <1>2, HeadTail, SeqLen DEF Plays
<1>4. 1 \in 1..n /\ 1 - 1 = 0
  BY <1>3
<1>5. Says(v, Head(es)) /\ vs[1] = After(v, Head(es)) /\ rs[1] = Scores!Record(r, Head(es))
  BY <1>1, <1>2, <1>3, <1>4
<1> DEFINE ws == [i \in 0..n - 1 |-> vs[i + 1]]
           qs == [i \in 0..n - 1 |-> rs[i + 1]]
<1>6. \A i \in 0..n - 1 : ws[i] = vs[i + 1] /\ qs[i] = rs[i + 1]
  OBVIOUS
<1> HIDE DEF ws, qs
<1>7. 0 \in 0..n - 1 /\ n - 1 \in 0..n - 1 /\ (n - 1) + 1 = n /\ 0 + 1 = 1
  BY <1>3
<1>8. ws[0] = After(v, Head(es)) /\ qs[0] = Scores!Record(r, Head(es)) /\ ws[n - 1] = v2 /\ qs[n - 1] = r2
  BY <1>5, <1>6, <1>7, <1>1, <1>2
<1>9. ASSUME NEW i \in 1..n - 1
      PROVE  /\ Says(ws[i - 1], Tail(es)[i])
             /\ ws[i] = After(ws[i - 1], Tail(es)[i])
             /\ qs[i] = Scores!Record(qs[i - 1], Tail(es)[i])
  <2>1. i \in 0..n - 1 /\ i - 1 \in 0..n - 1 /\ i + 1 \in 1..n /\ (i + 1) - 1 = i /\ (i - 1) + 1 = i
    BY <1>3
  <2>. QED
    BY <2>1, <1>6, <1>1, <1>2, <1>3
<1>10. Plays(After(v, Head(es)), Scores!Record(r, Head(es)), Tail(es), v2, r2)
  <2>1. \A i \in 1..Len(Tail(es)) :
          /\ Says(ws[i - 1], Tail(es)[i])
          /\ ws[i] = After(ws[i - 1], Tail(es)[i])
          /\ qs[i] = Scores!Record(qs[i - 1], Tail(es)[i])
    BY <1>3, <1>9
  <2>2. /\ ws[0] = After(v, Head(es)) /\ qs[0] = Scores!Record(r, Head(es))
        /\ ws[Len(Tail(es))] = v2 /\ qs[Len(Tail(es))] = r2 /\ IsSeq(Tail(es))
    BY <1>3, <1>8
  <2>. QED
    BY <2>1, <2>2, Zenon DEF Plays
<1>. QED
  BY <1>5, <1>10

(* ------ what a bridge makes of some frames ------------------------------- *)

ParseOf(p, b, f) ==
  CASE p = "tenhou"  -> Tenhou!Parse(b, f)
    [] p = "majsoul" -> Majsoul!Parse(b, f)
    [] OTHER         -> RiichiCity!Parse(b, f)

(* A frame is read.                                                          *)
Reads(p, b, v, r, f, b2, v2, r2) ==
  b2 = ParseOf(p, b, f).bridge /\ Plays(v, r, ParseOf(p, b, f).events, v2, r2)

(* The frames of w are read one after the other.                             *)
Runs(p, b, v, r, w, b2, v2, r2) ==
  /\ IsSeq(w)
  /\ \E bs, vs, rs :
       /\ bs[0] = b /\ vs[0] = v /\ rs[0] = r
       /\ bs[Len(w)] = b2 /\ vs[Len(w)] = v2 /\ rs[Len(w)] = r2
       /\ \A i \in 1..Len(w) : Reads(p, bs[i - 1], vs[i - 1], rs[i - 1], w[i], bs[i], vs[i], rs[i])

LEMMA RunsNothing ==
  ASSUME NEW p, NEW b, NEW v, NEW r, NEW b2, NEW v2, NEW r2
  PROVE  Runs(p, b, v, r, <<>>, b2, v2, r2) <=> b2 = b /\ v2 = v /\ r2 = r
<1>1. ASSUME b2 = b, v2 = v, r2 = r PROVE Runs(p, b, v, r, <<>>, b2, v2, r2)
  <2> DEFINE bs == [i \in 0..0 |-> b]
             vs == [i \in 0..0 |-> v]
             rs == [i \in 0..0 |-> r]
  <2>1. bs[0] = b /\ vs[0] = v /\ rs[0] = r /\ \A i \in 1..0 : FALSE
    OBVIOUS
  <2> HIDE DEF bs, vs, rs
  <2>. QED
    BY <1>1, <2>1, EmptyIsSeq DEF Runs
<1>. QED
  BY <1>1, EmptyIsSeq DEF Runs

LEMMA RunsOne ==
  ASSUME NEW p, NEW b, NEW v, NEW r, NEW f, NEW b2, NEW v2, NEW r2,
         Reads(p, b, v, r, f, b2, v2, r2)
  PROVE  Runs(p, b, v, r, <<f>>, b2, v2, r2)
<1> DEFINE bs == [i \in 0..1 |-> IF i = 0 THEN b ELSE b2]
           vs == [i \in 0..1 |-> IF i = 0 THEN v ELSE v2]
           rs == [i \in 0..1 |-> IF i = 0 THEN r ELSE r2]
<1>1. /\ bs[0] = b /\ vs[0] = v /\ rs[0] = r
      /\ bs[1] = b2 /\ vs[1] = v2 /\ rs[1] = r2
  OBVIOUS
<1>2. \A i \in 1..1 : i = 1 /\ i - 1 = 0
  OBVIOUS
<1> HIDE DEF bs, vs, rs
<1>. QED
  BY <1>1, <1>2, OneIsSeq DEF Runs

LEMMA RunsBoth ==
  ASSUME NEW p, NEW b, NEW v, NEW r, NEW w, NEW b1, NEW v1, NEW r1, NEW x, NEW b2, NEW v2, NEW r2,
         Runs(p, b, v, r, w, b1, v1, r1), Runs(p, b1, v1, r1, x, b2, v2, r2)
  PROVE  Runs(p, b, v, r, w \o x, b2, v2, r2)
<1>1. PICK bs, vs, rs :
        /\ bs[0] = b /\ vs[0] = v /\ rs[0] = r
        /\ bs[Len(w)] = b1 /\ vs[Len(w)] = v1 /\ rs[Len(w)] = r1
        /\ \A i \in 1..Len(w) : Reads(p, bs[i - 1], vs[i - 1], rs[i - 1], w[i], bs[i], vs[i], rs[i])
  BY DEF Runs
<1>2. PICK cs, ws, qs :
        /\ cs[0] = b1 /\ ws[0] = v1 /\ qs[0] = r1
        /\ cs[Len(x)] = b2 /\ ws[Len(x)] = v2 /\ qs[Len(x)] = r2
        /\ \A i \in 1..Len(x) : Reads(p, cs[i - 1], ws[i - 1], qs[i - 1], x[i], cs[i], ws[i], qs[i])
  BY DEF Runs
<1>3. PICK m, n : m = Len(w) /\ n = Len(x)
  OBVIOUS
<1>4. m \in Nat /\ n \in Nat /\ IsSeq(w) /\ IsSeq(x)
  BY <1>3, SeqLen DEF Runs
<1>5. PICK gs : gs = w \o x
  OBVIOUS
<1>6. /\ IsSeq(gs) /\ Len(gs) = m + n
      /\ \A i \in 1..m : gs[i] = w[i]
      /\ \A i \in 1..n : gs[m + i] = x[i]
  BY <1>3, <1>4, <1>5, Joined
<1> DEFINE as == [i \in 0..m + n |-> IF i <= m THEN bs[i] ELSE cs[i - m]]
           us == [i \in 0..m + n |-> IF i <= m THEN vs[i] ELSE ws[i - m]]
           ps == [i \in 0..m + n |-> IF i <= m THEN rs[i] ELSE qs[i - m]]
<1>7. /\ \A i \in 0..m : as[i] = bs[i] /\ us[i] = vs[i] /\ ps[i] = rs[i]
      /\ \A i \in 0..n : as[m + i] = cs[i] /\ us[m + i] = ws[i] /\ ps[m + i] = qs[i]
  <2>1. \A i \in 0..m : as[i] = bs[i] /\ us[i] = vs[i] /\ ps[i] = rs[i]
    BY <1>4
  <2>2. \A i \in 0..n : i # 0 => as[m + i] = cs[i] /\ us[m + i] = ws[i] /\ ps[m + i] = qs[i]
    <3>1. \A i \in 0..n : i # 0 => m + i \in 0..m + n /\ ~(m + i <= m) /\ (m + i) - m = i
      BY <1>4
    <3>. QED
      BY <3>1
  <2>3. as[m + 0] = cs[0] /\ us[m + 0] = ws[0] /\ ps[m + 0] = qs[0]
    <3>1. m + 0 = m /\ m \in 0..m
      BY <1>4
    <3>. QED
      BY <3>1, <2>1, <1>1, <1>2, <1>3
  <2>. QED
    BY <2>1, <2>2, <2>3
<1> HIDE DEF as, us, ps
<1>8. /\ as[0] = b /\ us[0] = v /\ ps[0] = r
      /\ as[m + n] = b2 /\ us[m + n] = v2 /\ ps[m + n] = r2
  <2>1. 0 \in 0..m /\ n \in 0..n
    BY <1>4
  <2>. QED
    BY <2>1, <1>7, <1>1, <1>2, <1>3
<1>9. ASSUME NEW i \in 1..m + n
      PROVE  Reads(p, as[i - 1], us[i - 1], ps[i - 1], gs[i], as[i], us[i], ps[i])
  <2>1. CASE i <= m
    <3>1. i \in 1..m /\ i \in 0..m /\ i - 1 \in 0..m
      BY <2>1, <1>4
    <3>. QED
      BY <3>1, <1>7, <1>6, <1>1, <1>3
  <2>2. CASE ~(i <= m)
    <3>1. PICK j : j = i - m
      OBVIOUS
    <3>2. j \in 1..n /\ j \in 0..n /\ j - 1 \in 0..n /\ i = m + j /\ i - 1 = m + (j - 1)
      BY <2>2, <3>1, <1>4
    <3>3. Reads(p, cs[j - 1], ws[j - 1], qs[j - 1], x[j], cs[j], ws[j], qs[j])
      BY <3>2, <1>2, <1>3
    <3>4. as[i] = cs[j] /\ us[i] = ws[j] /\ ps[i] = qs[j] /\ gs[i] = x[j]
      BY <3>2, <1>7, <1>6
    <3>5. as[i - 1] = cs[j - 1] /\ us[i - 1] = ws[j - 1] /\ ps[i - 1] = qs[j - 1]
      BY <3>2, <1>7
    <3>. QED
      BY <3>3, <3>4, <3>5
  <2>. QED
    BY <2>1, <2>2
<1>10. Runs(p, b, v, r, gs, b2, v2, r2)
  <2>1. \A i \in 1..Len(gs) : Reads(p, as[i - 1], us[i - 1], ps[i - 1], gs[i], as[i], us[i], ps[i])
    BY <1>6, <1>9
  <2>2. as[Len(gs)] = b2 /\ us[Len(gs)] = v2 /\ ps[Len(gs)] = r2
    BY <1>6, <1>8
  <2>3. as[0] = b /\ us[0] = v /\ ps[0] = r /\ IsSeq(gs)
    BY <1>6, <1>8
  <2>. QED
    BY <2>1, <2>2, <2>3, Zenon DEF Runs
<1>. QED
  BY <1>5, <1>10

(* The first of the frames is read.                                          *)
LEMMA RunsFirst ==
  ASSUME NEW p, NEW b, NEW v, NEW r, NEW w, NEW b2, NEW v2, NEW r2,
         Runs(p, b, v, r, w, b2, v2, r2), w # <<>>
  PROVE  \E b1, v1, r1 :
           /\ Reads(p, b, v, r, Head(w), b1, v1, r1)
           /\ Runs(p, b1, v1, r1, Tail(w), b2, v2, r2)
<1>1. PICK bs, vs, rs :
        /\ bs[0] = b /\ vs[0] = v /\ rs[0] = r
        /\ bs[Len(w)] = b2 /\ vs[Len(w)] = v2 /\ rs[Len(w)] = r2
        /\ \A i \in 1..Len(w) : Reads(p, bs[i - 1], vs[i - 1], rs[i - 1], w[i], bs[i], vs[i], rs[i])
  BY DEF Runs
<1>2. PICK n : n = Len(w)
  OBVIOUS
<1>3. /\ IsSeq(Tail(w)) /\ Len(Tail(w)) = n - 1 /\ n >= 1 /\ n \in Nat
      /\ Head(w) = w[1] /\ \A i \in 1..n - 1 : Tail(w)[i] = w[i + 1]
  BY <1>2, HeadTail, SeqLen DEF Runs
<1>4. 1 \in 1..n /\ 1 - 1 = 0
  BY <1>3
<1>5. Reads(p, b, v, r, Head(w), bs[1], vs[1], rs[1])
  BY <1>1, <1>2, <1>3, <1>4
<1> DEFINE cs == [i \in 0..n - 1 |-> bs[i + 1]]
           ws == [i \in 0..n - 1 |-> vs[i + 1]]
           qs == [i \in 0..n - 1 |-> rs[i + 1]]
<1>6. \A i \in 0..n - 1 : cs[i] = bs[i + 1] /\ ws[i] = vs[i + 1] /\ qs[i] = rs[i + 1]
  OBVIOUS
<1> HIDE DEF cs, ws, qs
<1>7. 0 \in 0..n - 1 /\ n - 1 \in 0..n - 1 /\ (n - 1) + 1 = n /\ 0 + 1 = 1
  BY <1>3
<1>8. /\ cs[0] = bs[1] /\ ws[0] = vs[1] /\ qs[0] = rs[1]
      /\ cs[n - 1] = b2 /\ ws[n - 1] = v2 /\ qs[n - 1] = r2
  BY <1>6, <1>7, <1>1, <1>2
<1>9. ASSUME NEW i \in 1..n - 1
      PROVE  Reads(p, cs[i - 1], ws[i - 1], qs[i - 1], Tail(w)[i], cs[i], ws[i], qs[i])
  <2>1. i \in 0..n - 1 /\ i - 1 \in 0..n - 1 /\ i + 1 \in 1..n /\ (i + 1) - 1 = i /\ (i - 1) + 1 = i
    BY <1>3
  <2>. QED
    BY <2>1, <1>6, <1>1, <1>2, <1>3
<1>10. Runs(p, bs[1], vs[1], rs[1], Tail(w), b2, v2, r2)
  BY <1>3, <1>8, <1>9 DEF Runs
<1>. QED
  BY <1>5, <1>10

(* ------ the table -------------------------------------------------------- *)

Kans == {"none", "daiminkan"} \cup OwnKans
Stages == {"seated", "act", "open", "between", "over"}

Tables ==
  [n : 3..4, me : 0..3, shift : 0..3, stage : Stages, turn : 0..3, drew : BOOLEAN,
   rack : Seq(Nat), melds : [0..2 -> 0..4] \cup [0..3 -> 0..4], opened : SUBSET (0..3),
   pending : 0..9, accepted : SUBSET (0..3), kan : Kans, shown : Nat, due : Nat,
   offer : BOOLEAN, oya : 0..3, score : [0..2 -> Int] \cup [0..3 -> Int], sticks : Nat,
   hands : Nat, games : Nat, moves : Nat]

(* The tiles of our rack have come one after the other.                      *)
Rising(rack, bound) ==
  /\ rack \in Seq(Nat)
  /\ \A i, j \in 1..Len(rack) : i < j => rack[i] < rack[j]
  /\ \A i \in 1..Len(rack) : rack[i] < bound

Points(n, score) == score[0] + score[1] + score[2] + (IF n = 4 THEN score[3] ELSE 0)

Stage(t) ==
  /\ t.stage = "act" => t.pending = None /\ t.kan = "none"
  /\ t.stage # "open" => ~t.offer
  /\ t.stage = "open" => ~t.drew /\ (t.pending = None \/ t.pending = t.turn) /\ (t.kan # "none" => t.pending = None)
  /\ t.pending \notin t.accepted
  /\ t.offer => t.turn # t.me
  /\ t.stage \in {"act", "open", "between"} => t.games > 0 /\ t.hands > 0
  /\ t.stage = "seated" => t.hands = 0
  /\ t.stage = "over" => t.games > 0
  /\ t.shown >= 1

Rack(t) ==
  /\ Rising(t.rack, 20 + t.moves)
  /\ t.stage \in {"act", "open"} =>
       Len(t.rack) = 13 - 3 * t.melds[t.me] + (IF t.stage = "act" /\ t.turn = t.me THEN 1 ELSE 0)

Score(t) ==
  /\ t.hands = 0 => t.score = [a \in 0..(t.n - 1) |-> StartScore(t.n)]
  /\ Points(t.n, t.score) + t.sticks = FullScore(t.n)

TableOK(t) ==
  /\ t \in Tables
  /\ t.me < t.n /\ t.shift < t.n /\ t.turn < t.n /\ t.oya < t.n
  /\ t.melds \in [0..(t.n - 1) -> 0..4] /\ t.score \in [0..(t.n - 1) -> Int]
  /\ t.accepted \subseteq 0..(t.n - 1) /\ t.opened \subseteq 0..(t.n - 1)
  /\ Stage(t) /\ Rack(t) /\ Score(t)

(* One seat is ahead of all the others.                                      *)
IsLeader(n, sc, a) ==
  /\ a \in 0..(n - 1)
  /\ \A c \in 0..(n - 1) : sc[a] >= sc[c] /\ (sc[a] = sc[c] => a <= c)

(* What a move leaves alone.                                                 *)
SameGame(t, t2) == t2.n = t.n /\ t2.me = t.me /\ t2.shift = t.shift /\ t2.games = t.games
SameHand(t, t2) == SameGame(t, t2) /\ t2.hands = t.hands /\ t2.oya = t.oya

(* What the bridges need to know of each move.                               *)
HasSat(t, t2, m2) ==
  /\ t.games = 0 \/ t.stage = "over"
  /\ t2.games = t.games + 1 /\ t2.stage = "seated" /\ ~t2.offer
  /\ m2.kind = "sit" /\ ~m2.final /\ m2.winners = <<>>

HasDealt(t, t2, m2) ==
  /\ t.stage \in {"seated", "between"} /\ t.games > 0
  /\ SameGame(t, t2) /\ t2.hands = t.hands + 1
  /\ t.hands = 0 => t2.oya = 0
  /\ t2.stage = "act" /\ t2.turn = t2.oya /\ t2.drew
  /\ t2.rack = [i \in 1..(IF t2.oya = t.me THEN 14 ELSE 13) |-> i]
  /\ t2.melds = [a \in 0..(t.n - 1) |-> 0]
  /\ t2.accepted = {} /\ t2.pending = None /\ t2.kan = "none" /\ t2.shown = 1 /\ t2.due = 0
  /\ ~t2.offer
  /\ t2.score = t.score
  /\ m2.kind = "deal" /\ m2.seat = t2.oya /\ ~m2.final /\ m2.winners = <<>>

HasDrawn(t, t2, m2) ==
  /\ t.stage = "open" /\ SameHand(t, t2)
  /\ t2.stage = "act" /\ t2.drew /\ t2.pending = None /\ t2.kan = "none" /\ ~t2.offer
  /\ t2.turn = IF t.kan = "none" THEN (t.turn + 1) % t.n ELSE t.turn
  /\ t2.rack = IF t2.turn = t.me THEN Append(t.rack, 20 + t.moves) ELSE t.rack
  /\ t2.melds = t.melds /\ t2.shown = t.shown /\ t2.due = t.due
  /\ t2.accepted = Settled(t).accepted /\ t2.score = Settled(t).score
  /\ m2.kind = "draw" /\ m2.seat = t2.turn /\ m2.accepts = t.pending /\ m2.call = t.kan
  /\ ~m2.final /\ m2.winners = <<>>

HasDiscarded(t, t2, m2) ==
  /\ t.stage = "act" /\ SameHand(t, t2)
  /\ t2.stage = "open" /\ ~t2.drew /\ t2.turn = t.turn /\ t2.kan = "none"
  /\ t2.offer => t.turn # t.me
  /\ t2.pending = IF m2.riichi THEN t.turn ELSE None
  /\ m2.riichi => t.drew /\ t.turn \notin t.accepted
  /\ t2.melds = t.melds /\ t2.shown = t.shown + t.due /\ t2.due = 0
  /\ t2.accepted = t.accepted /\ t2.score = t.score
  /\ m2.last \in BOOLEAN /\ m2.riichi \in BOOLEAN /\ m2.giri \in BOOLEAN
  /\ m2.giri = (m2.last /\ t.drew)
  /\ t.turn # t.me => t2.rack = t.rack
  /\ t.turn = t.me =>
       /\ t2.rack = IF m2.last THEN Front(t.rack) ELSE Tail(t.rack)
       /\ m2.taken = {IF m2.last THEN Last(t.rack) ELSE Head(t.rack)}
  /\ m2.kind = "discard" /\ m2.seat = t.turn /\ ~m2.final /\ m2.winners = <<>>

HasCalled(t, t2, m2) ==
  /\ t.stage = "open" /\ t.kan = "none" /\ SameHand(t, t2)
  /\ m2.seat \in 0..(t.n - 1) /\ m2.seat # t.turn /\ m2.call \in Calls
  /\ m2.call = "chi" => t.n = 4 /\ m2.seat = (t.turn + 1) % t.n
  /\ t2.stage = (IF m2.call = "daiminkan" THEN "open" ELSE "act") /\ t2.turn = m2.seat
  /\ ~t2.offer /\ ~t2.drew /\ t2.pending = None
  /\ t2.kan = IF m2.call = "daiminkan" THEN "daiminkan" ELSE "none"
  /\ t2.melds = [t.melds EXCEPT ![m2.seat] = @ + 1]
  /\ t2.shown = t.shown /\ t2.due = t.due + (IF m2.call = "daiminkan" THEN 1 ELSE 0)
  /\ t2.accepted = Settled(t).accepted /\ t2.score = Settled(t).score
  /\ m2.seat # t.me => t2.rack = t.rack
  /\ m2.seat = t.me => \E used \in 2..3 :
       /\ used <= Len(t.rack)
       /\ t2.rack = SubSeq(t.rack, used + 1, Len(t.rack))
       /\ m2.taken = ToSet(SubSeq(t.rack, 1, used))
  /\ m2.kind = "call" /\ m2.from = t.turn /\ m2.accepts = t.pending
  /\ ~m2.final /\ m2.winners = <<>>

HasKan(t, t2, m2) ==
  /\ t.stage = "act" /\ t.drew /\ SameHand(t, t2)
  /\ m2.seat = t.turn /\ m2.call \in OwnKans
  /\ t2.stage = "open" /\ ~t2.drew /\ t2.turn = t.turn /\ t2.kan = m2.call /\ t2.pending = None
  /\ t2.offer => t.turn # t.me
  /\ t2.melds = IF m2.call = "ankan" THEN [t.melds EXCEPT ![t.turn] = @ + 1] ELSE t.melds
  /\ t2.shown = CASE m2.call = "ankan" -> t.shown + 1
                  [] m2.call = "kita"  -> t.shown + t.due
                  [] m2.call = "kakan" -> t.shown
  /\ t2.due = CASE m2.call = "ankan" -> t.due
                [] m2.call = "kita"  -> 0
                [] m2.call = "kakan" -> t.due + 1
  /\ t2.accepted = t.accepted /\ t2.score = t.score
  /\ t.turn # t.me => t2.rack = t.rack
  /\ t.turn = t.me =>
       \/ \E used \in {1, 4} :
            /\ used <= Len(t.rack)
            /\ t2.rack = SubSeq(t.rack, used + 1, Len(t.rack))
            /\ m2.taken = ToSet(SubSeq(t.rack, 1, used))
       \/ t2.rack = Front(t.rack) /\ m2.taken = {Last(t.rack)}
  /\ m2.kind = "kan" /\ m2.accepts = None /\ m2.from = None /\ ~m2.final /\ m2.winners = <<>>

(* The points of a hand that ends: total of m2, then the sticks for the      *)
(* leader at the end of the game.                                            *)
Paid(t, t2, total, final) ==
  LET paid == [a \in 0..(t.n - 1) |-> t.score[a] + total[a]]
  IN /\ total \in [0..(t.n - 1) -> Int]
     /\ ~final => t2.score = paid
     /\ final => \E a \in 0..(t.n - 1), s \in Nat :
          /\ IsLeader(t.n, paid, a) /\ Points(t.n, paid) + s = FullScore(t.n)
          /\ t2.score = [paid EXCEPT ![a] = @ + s]

HasPaid(t, t2, m2) == m2.final \in BOOLEAN /\ Paid(t, t2, m2.total, m2.final)

HasEnded(t, t2, m2) ==
  /\ t.stage \in {"act", "open"} /\ SameHand(t, t2)
  /\ t2.stage = (IF m2.final THEN "over" ELSE "between") /\ ~t2.offer

HasWon(t, t2, m2) ==
  /\ HasEnded(t, t2, m2) /\ HasPaid(t, t2, m2)
  /\ t.stage = "act" => t.drew
  /\ m2.kind = "win" /\ m2.seat = t.turn /\ m2.from = t.turn /\ m2.final \in BOOLEAN
  /\ Len(m2.winners) \in {1, 2} /\ m2.winners \in Seq(0..(t.n - 1))
  /\ t.stage = "act" => m2.winners = <<t.turn>> /\ m2.call = "none" /\ ~m2.voided
  /\ t.stage = "open" => /\ t.kan \in {"none", "kakan", "kita"} /\ m2.call = t.kan
                         /\ \A i \in 1..Len(m2.winners) : m2.winners[i] # t.turn
                         /\ m2.voided = (t.pending # None)
  /\ Len(m2.deltas) = Len(m2.winners)
  /\ \A i \in 1..Len(m2.deltas) : m2.deltas[i] \in [0..(t.n - 1) -> Int]
  /\ m2.total = InAll(t, m2.deltas)

HasExhausted(t, t2, m2) ==
  /\ HasEnded(t, t2, m2) /\ HasPaid(Settled(t), t2, m2) /\ t.kan = "none"
  /\ t.stage = "act" => t.drew /\ ~m2.final /\ m2.call = "none"
  /\ m2.kind = "exhaust" /\ m2.accepts = t.pending /\ m2.final \in BOOLEAN /\ m2.winners = <<>>
  /\ Len(m2.deltas) = 1 /\ m2.deltas[1] = m2.total
  /\ m2.call \in {"wall", "none"} /\ m2.seat = t.turn
  /\ m2.call = "none" => m2.total = [a \in 0..(t.n - 1) |-> 0]

HasTerminated(t, t2, m2) ==
  /\ t.games > 0 /\ t.stage # "over"
  /\ SameHand(t, t2) /\ t2.stage = "over" /\ ~t2.offer
  /\ m2.kind = "terminate" /\ ~m2.final /\ m2.winners = <<>>

LEMMA TableFields ==
  ASSUME NEW t, TableOK(t)
  PROVE  /\ t \in Tables
         /\ t.n \in 3..4 /\ t.me \in 0..(t.n - 1) /\ t.shift \in 0..(t.n - 1) /\ t.stage \in Stages
         /\ t.turn \in 0..(t.n - 1) /\ t.oya \in 0..(t.n - 1) /\ t.drew \in BOOLEAN
         /\ t.rack \in Seq(Nat)
         /\ t.pending \in 0..9 /\ t.accepted \in SUBSET (0..3) /\ t.kan \in Kans
         /\ t.shown \in Nat /\ t.due \in Nat /\ t.offer \in BOOLEAN /\ t.sticks \in Nat
         /\ t.hands \in Nat /\ t.games \in Nat /\ t.moves \in Nat
<1>1. t \in Tables /\ t.me < t.n /\ t.shift < t.n /\ t.turn < t.n /\ t.oya < t.n
  BY DEF TableOK
<1>2. /\ t.n \in 3..4 /\ t.me \in 0..3 /\ t.shift \in 0..3 /\ t.turn \in 0..3 /\ t.oya \in 0..3
      /\ t.stage \in Stages /\ t.drew \in BOOLEAN /\ t.rack \in Seq(Nat)
      /\ t.pending \in 0..9 /\ t.accepted \in SUBSET (0..3) /\ t.kan \in Kans
      /\ t.shown \in Nat /\ t.due \in Nat /\ t.offer \in BOOLEAN /\ t.sticks \in Nat
      /\ t.hands \in Nat /\ t.games \in Nat /\ t.moves \in Nat
  BY <1>1 DEF Tables
<1>. QED
  BY <1>1, <1>2

(* Scores of three players and of four.                                      *)
LEMMA ScoresOf ==
  ASSUME NEW t, TableOK(t), NEW sc \in [0..(t.n - 1) -> Int]
  PROVE  sc \in [0..2 -> Int] \cup [0..3 -> Int]
<1>1. t.n \in 3..4
  BY DEF TableOK, Tables
<1>2. CASE t.n = 3
  <2>1. t.n - 1 = 2
    BY <1>2
  <2>. QED
    BY <2>1
<1>3. CASE t.n = 4
  <2>1. t.n - 1 = 3
    BY <1>3
  <2>. QED
    BY <2>1
<1>. QED
  BY <1>1, <1>2, <1>3

LEMMA NextOf ==
  ASSUME NEW n \in 3..4, NEW a \in 0..(n - 1)
  PROVE  (a + 1) % n \in 0..(n - 1) /\ (a + 1) % n # a
<1>. QED
  OBVIOUS

LEMMA PointsOf ==
  ASSUME NEW n \in 3..4, NEW sc \in [0..(n - 1) -> Int], NEW a \in 0..(n - 1), NEW d \in Int
  PROVE  /\ Points(n, sc) \in Int /\ FullScore(n) \in Int
         /\ Points(n, [sc EXCEPT ![a] = sc[a] + d]) = Points(n, sc) + d
<1>1. CASE n = 3
  <2>1. n - 1 = 2 /\ a \in {0, 1, 2}
    BY <1>1
  <2>2. sc[0] \in Int /\ sc[1] \in Int /\ sc[2] \in Int
    BY <2>1
  <2>3. Points(3, [sc EXCEPT ![a] = sc[a] + d]) = Points(3, sc) + d
    BY <2>1, <2>2 DEF Points
  <2>. QED
    BY <1>1, <2>1, <2>2, <2>3 DEF Points, FullScore, StartScore
<1>2. CASE n = 4
  <2>1. n - 1 = 3 /\ a \in {0, 1, 2, 3}
    BY <1>2
  <2>2. sc[0] \in Int /\ sc[1] \in Int /\ sc[2] \in Int /\ sc[3] \in Int
    BY <2>1
  <2>3. Points(4, [sc EXCEPT ![a] = sc[a] + d]) = Points(4, sc) + d
    BY <2>1, <2>2 DEF Points
  <2>. QED
    BY <1>2, <2>1, <2>2, <2>3 DEF Points, FullScore, StartScore
<1>. QED
  BY <1>1, <1>2

(* Settled changes these three and pending.                                  *)
SettledAs(t, acc, sc, st) ==
  /\ Settled(t) = [t EXCEPT !.accepted = acc, !.score = sc, !.sticks = st, !.pending = None]
  /\ acc \in SUBSET (0..3) /\ acc \subseteq 0..(t.n - 1) /\ st \in Nat
  /\ sc \in [0..(t.n - 1) -> Int] /\ sc \in [0..2 -> Int] \cup [0..3 -> Int]
  /\ Points(t.n, sc) + st = FullScore(t.n)
  /\ t.pending = None => acc = t.accepted /\ sc = t.score
  /\ t.pending # None => acc = t.accepted \cup {t.turn} /\ sc = [t.score EXCEPT ![t.turn] = @ - 1]

LEMMA SettledFacts ==
  ASSUME NEW t, TableOK(t), t.pending # None => t.pending = t.turn
  PROVE  \E acc, sc, st : SettledAs(t, acc, sc, st)
<1>1. t \in Tables
  BY DEF TableOK
<1>0. t.score \in [0..(t.n - 1) -> Int] /\ t.accepted \subseteq 0..(t.n - 1) /\ t.n \in 3..4 /\ t.sticks \in Nat
      /\ t.accepted \in SUBSET (0..3) /\ t.turn \in 0..(t.n - 1) /\ t.turn \in 0..3
      /\ Points(t.n, t.score) + t.sticks = FullScore(t.n)
      /\ t.score \in [0..2 -> Int] \cup [0..3 -> Int]
  <2>1. t.score \in [0..2 -> Int] \cup [0..3 -> Int]
    BY <1>1 DEF Tables
  <2>2. t.score \in [0..(t.n - 1) -> Int] /\ t.accepted \subseteq 0..(t.n - 1) /\ Score(t)
    BY DEF TableOK
  <2>3. t.turn \in 0..3
    BY <1>1 DEF Tables
  <2>. QED
    BY <2>1, <2>2, <2>3, TableFields DEF Score
<1>2. CASE t.pending = None
  <2>1. Settled(t) = [t EXCEPT !.accepted = t.accepted, !.score = t.score, !.sticks = t.sticks, !.pending = None]
    BY <1>1, <1>2 DEF Settled, Tables
  <2>. QED
    BY <2>1, <1>0, <1>2 DEF SettledAs
<1>3. CASE t.pending # None
  <2>2. t.pending = t.turn
    BY <1>3
  <2>3. PICK acc, sc, st : acc = t.accepted \cup {t.turn} /\ sc = [t.score EXCEPT ![t.turn] = @ - 1] /\ st = t.sticks + 1
    OBVIOUS
  <2>4. Settled(t) = [t EXCEPT !.accepted = acc, !.score = sc, !.sticks = st, !.pending = None]
    BY <1>3, <2>2, <2>3 DEF Settled
  <2>5. acc \subseteq 0..(t.n - 1) /\ acc \in SUBSET (0..3) /\ st \in Nat
    BY <1>0, <2>3
  <2>6. sc \in [0..(t.n - 1) -> Int]
    BY <1>0, <2>3
  <2>7. sc \in [0..2 -> Int] \cup [0..3 -> Int]
    BY <2>6, ScoresOf
  <2>8. Points(t.n, sc) + st = FullScore(t.n)
    <3>1. PICK old, a, n, d : old = t.score /\ a = t.turn /\ n = t.n /\ d = -1
      OBVIOUS
    <3>2. n \in 3..4 /\ old \in [0..(n - 1) -> Int] /\ a \in 0..(n - 1) /\ d \in Int
      BY <3>1, <1>0
    <3>3. sc = [old EXCEPT ![a] = old[a] + d]
      BY <3>1, <3>2, <2>3
    <3>4. Points(n, [old EXCEPT ![a] = old[a] + d]) = Points(n, old) + d /\ Points(n, old) \in Int /\ FullScore(n) \in Int
      BY <3>2, PointsOf
    <3>. QED
      BY <3>1, <3>3, <3>4, <1>0, <2>3
  <2>. QED
    BY <1>3, <2>3, <2>4, <2>5, <2>6, <2>7, <2>8 DEF SettledAs
<1>. QED
  BY <1>2, <1>3

LEMMA RisingAppend ==
  ASSUME NEW m \in Nat, NEW r, Rising(r, 20 + m)
  PROVE  Rising(Append(r, 20 + m), 20 + (m + 1)) /\ Len(Append(r, 20 + m)) = Len(r) + 1
<1>1. PICK k, s : k = 20 + m /\ s = Append(r, k)
  OBVIOUS
<1>2. k \in Nat /\ 20 + (m + 1) = k + 1 /\ r \in Seq(Nat) /\ Len(r) \in Nat
  BY <1>1 DEF Rising
<1>3. s \in Seq(Nat) /\ Len(s) = Len(r) + 1 /\ s[Len(r) + 1] = k /\ \A i \in 1..Len(r) : s[i] = r[i]
  BY <1>1, <1>2
<1>4. \A i \in 1..Len(r) : r[i] \in Nat /\ r[i] < k
  BY <1>1, <1>2 DEF Rising
<1>5. \A i \in 1..Len(s) : s[i] < k + 1
  <2>. TAKE i \in 1..Len(s)
  <2>1. CASE i = Len(r) + 1
    BY <1>2, <1>3, <2>1
  <2>2. CASE i # Len(r) + 1
    <3>1. i \in 1..Len(r)
      BY <1>2, <1>3, <2>2
    <3>2. s[i] = r[i] /\ r[i] \in Nat /\ r[i] < k
      BY <1>3, <1>4, <3>1
    <3>. QED
      BY <1>2, <3>2
  <2>. QED
    BY <2>1, <2>2
<1>6. \A i, j \in 1..Len(s) : i < j => s[i] < s[j]
  <2>. SUFFICES ASSUME NEW i \in 1..Len(s), NEW j \in 1..Len(s), i < j PROVE s[i] < s[j]
    OBVIOUS
  <2>1. i \in 1..Len(r) /\ s[i] = r[i]
    BY <1>2, <1>3
  <2>2. CASE j = Len(r) + 1
    BY <1>2, <1>3, <1>4, <2>1, <2>2
  <2>3. CASE j # Len(r) + 1
    <3>0. PICK n : n = Len(r)
      OBVIOUS
    <3>1. j \in 1..Len(r)
      <4>1. n \in Nat /\ j \in 1..n + 1 /\ j # n + 1
        BY <1>2, <1>3, <2>3, <3>0
      <4>2. j \in 1..n
        BY <4>1
      <4>. QED
        BY <3>0, <4>2
    <3>2. s[j] = r[j]
      BY <1>3, <3>1
    <3>. QED
      BY <2>1, <3>1, <3>2 DEF Rising
  <2>. QED
    BY <2>2, <2>3
<1>. QED
  BY <1>1, <1>2, <1>3, <1>5, <1>6 DEF Rising

LEMMA RisingPart ==
  ASSUME NEW m \in Nat, NEW r, Rising(r, m), NEW a \in Nat, NEW b \in Nat, 1 <= a, b <= Len(r),
         a <= b + 1
  PROVE  Rising(SubSeq(r, a, b), m + 1) /\ Len(SubSeq(r, a, b)) = b - a + 1
<1>1. PICK s : s = SubSeq(r, a, b)
  OBVIOUS
<1>2. r \in Seq(Nat) /\ Len(r) \in Nat
  BY DEF Rising
<1>3. s \in Seq(Nat) /\ Len(s) = b - a + 1 /\ \A i \in 1..Len(s) : s[i] = r[a + i - 1]
  BY <1>1, <1>2
<1>4. \A i \in 1..Len(s) : a + i - 1 \in 1..Len(r)
  BY <1>2, <1>3
<1>5. \A i \in 1..Len(s) : s[i] \in Nat /\ s[i] < m + 1
  <2>. TAKE i \in 1..Len(s)
  <2>1. PICK x : x = a + i - 1
    OBVIOUS
  <2>2. x \in 1..Len(r) /\ s[i] = r[x]
    BY <1>3, <1>4, <2>1
  <2>3. r[x] \in Nat /\ r[x] < m
    BY <1>2, <2>2 DEF Rising
  <2>. QED
    BY <2>2, <2>3
<1>6. \A i, j \in 1..Len(s) : i < j => s[i] < s[j]
  <2>. SUFFICES ASSUME NEW i \in 1..Len(s), NEW j \in 1..Len(s), i < j PROVE s[i] < s[j]
    OBVIOUS
  <2>1. PICK x, y : x = a + i - 1 /\ y = a + j - 1
    OBVIOUS
  <2>2. x \in 1..Len(r) /\ y \in 1..Len(r) /\ s[i] = r[x] /\ s[j] = r[y]
    BY <1>3, <1>4, <2>1
  <2>3. x < y
    BY <1>3, <2>1
  <2>. QED
    BY <2>2, <2>3 DEF Rising
<1>. QED
  BY <1>1, <1>3, <1>5, <1>6 DEF Rising

LEMMA RisingLater ==
  ASSUME NEW m \in Nat, NEW r, Rising(r, 20 + m)
  PROVE  Rising(r, 20 + (m + 1))
<1>1. r \in Seq(Nat) /\ \A i \in 1..Len(r) : r[i] \in Nat /\ r[i] < 20 + m
  BY DEF Rising
<1>2. \A i \in 1..Len(r) : r[i] < 20 + (m + 1)
  BY <1>1
<1>. QED
  BY <1>2 DEF Rising

(* From the fields of the next table to its invariant.                       *)
LEMMA TableIs ==
  ASSUME NEW t, TableOK(t), NEW t2 \in Tables, SameGame(t, t2), t2.turn \in 0..(t.n - 1),
         t2.oya \in 0..(t.n - 1),
         t2.melds \in [0..(t.n - 1) -> 0..4], t2.score \in [0..(t.n - 1) -> Int],
         t2.accepted \subseteq 0..(t.n - 1), t2.opened \subseteq 0..(t.n - 1),
         Stage(t2), Rack(t2), Score(t2)
  PROVE  TableOK(t2)
<1>1. t2.n = t.n /\ t2.me \in 0..(t.n - 1) /\ t2.shift \in 0..(t.n - 1) /\ t.n \in 3..4
  BY TableFields DEF SameGame
<1>2. t2.me < t2.n /\ t2.shift < t2.n /\ t2.turn < t2.n /\ t2.oya < t2.n
  BY <1>1
<1>. QED
  BY <1>1, <1>2 DEF TableOK

LEMMA DrawFacts ==
  ASSUME TableOK(table), Draw
  PROVE  TableOK(table') /\ HasDrawn(table, table', move')
<1>1. PICK t : t = table
  OBVIOUS
<1>2. PICK t2, m2 : t2 = table' /\ m2 = move'
  OBVIOUS
<1>4. PICK who : who = IF t.kan = "none" THEN NextSeat(t) ELSE t.turn
  OBVIOUS
<1>0. TableOK(t) /\ t.stage = "open" /\ (t.pending # None => t.pending = t.turn) /\ t \in Tables
  BY <1>1 DEF Draw, TableOK, Stage
<1>5. PICK acc, sc, st : SettledAs(t, acc, sc, st)
  BY <1>0, SettledFacts
<1>6. PICK rack : rack = IF who = t.me THEN Append(t.rack, 20 + t.moves) ELSE t.rack
  OBVIOUS
<1>7. /\ t2 = [t EXCEPT !.accepted = acc, !.score = sc, !.sticks = st, !.pending = None,
                        !.stage = "act", !.turn = who, !.drew = TRUE, !.kan = "none", !.offer = FALSE,
                        !.rack = rack, !.moves = t.moves + 1]
      /\ m2 = [Mv("draw", who) EXCEPT !.accepts = t.pending, !.call = t.kan]
  BY <1>0, <1>1, <1>2, <1>4, <1>5, <1>6 DEF Draw, Step, Tables, SettledAs
<1>8. who \in 0..(t.n - 1) /\ who \in 0..3
  <2>1. t.n \in 3..4 /\ t.turn \in 0..(t.n - 1)
    BY <1>0, TableFields
  <2>2. \A x \in 0..(t.n - 1) : x \in 0..3
    BY <2>1
  <2>. QED
    BY <2>1, <2>2, NextOf, <1>4 DEF NextSeat
<1>9. /\ rack \in Seq(Nat) /\ Rising(rack, 20 + (t.moves + 1))
      /\ Len(rack) = Len(t.rack) + (IF who = t.me THEN 1 ELSE 0)
  <2>1. Rising(t.rack, 20 + t.moves) /\ t.moves \in Nat
    BY <1>0, TableFields DEF TableOK, Rack
  <2>2. Len(t.rack) \in Nat
    BY <2>1 DEF Rising
  <2>3. CASE who = t.me
    <3>1. rack = Append(t.rack, 20 + t.moves)
      BY <2>3, <1>6
    <3>2. Rising(rack, 20 + (t.moves + 1)) /\ Len(rack) = Len(t.rack) + 1
      BY <2>1, <3>1, RisingAppend
    <3>. QED
      BY <2>3, <3>2 DEF Rising
  <2>4. CASE who # t.me
    <3>1. rack = t.rack
      BY <2>4, <1>6
    <3>2. Rising(rack, 20 + (t.moves + 1))
      BY <2>1, <3>1, RisingLater
    <3>. QED
      BY <2>2, <2>4, <3>1, <3>2 DEF Rising
  <2>. QED
    BY <2>3, <2>4
<1>10. t2 \in Tables
  <2>1. acc \in SUBSET (0..3) /\ st \in Nat /\ sc \in [0..2 -> Int] \cup [0..3 -> Int]
    BY <1>5 DEF SettledAs
  <2>2. who \in 0..3 /\ rack \in Seq(Nat) /\ "act" \in Stages /\ "none" \in Kans /\ None \in 0..9
    BY <1>8, <1>9 DEF Stages, Kans, None
  <2>3. t.moves + 1 \in Nat
    BY <1>0, TableFields
  <2>. QED
    BY <1>0, <1>7, <2>1, <2>2, <2>3 DEF Tables
<1>11. /\ t2.accepted = acc /\ t2.score = sc /\ t2.sticks = st /\ t2.pending = None
       /\ t2.stage = "act" /\ t2.turn = who
       /\ t2.drew /\ t2.kan = "none" /\ t2.offer = FALSE /\ t2.rack = rack /\ t2.moves = t.moves + 1
       /\ SameHand(t, t2) /\ t2.melds = t.melds /\ t2.opened = t.opened /\ t2.shown = t.shown
       /\ t2.due = t.due
  BY <1>0, <1>7 DEF Tables, SameHand, SameGame
<1>12. Stage(t2)
  <2>1. Stage(t)
    BY <1>0 DEF TableOK
  <2>2. None \notin acc
    BY <1>5 DEF SettledAs, None
  <2>. QED
    BY <1>0, <1>8, <1>11, <2>1, <2>2 DEF Stage, SameHand, SameGame
<1>13. Rack(t2)
  <2>1. Rack(t)
    BY <1>0 DEF TableOK
  <2>3. t.melds[t.me] \in Nat
    <3>1. t.melds \in [0..(t.n - 1) -> 0..4] /\ t.me \in 0..(t.n - 1)
      BY <1>0, TableFields DEF TableOK
    <3>2. t.melds[t.me] \in 0..4
      BY <3>1, Zenon
    <3>. QED
      BY <3>2
  <2>2. Len(t.rack) = 13 - 3 * t.melds[t.me]
    <3>1. Len(t.rack) = 13 - 3 * t.melds[t.me] + (IF t.stage = "act" /\ t.turn = t.me THEN 1 ELSE 0)
      BY <1>0, <2>1 DEF Rack
    <3>2. (IF t.stage = "act" /\ t.turn = t.me THEN 1 ELSE 0) = 0
      BY <1>0
    <3>. QED
      BY <2>3, <3>1, <3>2
  <2>4. Len(rack) = 13 - 3 * t.melds[t.me] + (IF who = t.me THEN 1 ELSE 0)
    BY <1>9, <2>2, <2>3
  <2>. QED
    BY <1>9, <1>11, <2>4 DEF Rack, SameHand, SameGame
<1>14. Score(t2)
  BY <1>0, <1>5, <1>11, TableFields DEF Score, SettledAs, SameHand, SameGame, TableOK, Stage
<1>15. TableOK(t2)
  <2>1. t.melds \in [0..(t.n - 1) -> 0..4] /\ t.opened \subseteq 0..(t.n - 1) /\ t.oya \in 0..(t.n - 1)
    BY <1>0, TableFields DEF TableOK
  <2>2. SameGame(t, t2) /\ t2.oya = t.oya
    BY <1>11 DEF SameHand
  <2>3. sc \in [0..(t.n - 1) -> Int] /\ acc \subseteq 0..(t.n - 1)
    BY <1>5 DEF SettledAs
  <2>. QED
    BY <1>0, <1>8, <1>10, <1>11, <1>12, <1>13, <1>14, <2>1, <2>2, <2>3, TableIs
<1>16. HasDrawn(t, t2, m2)
  <2>1. m2.kind = "draw" /\ m2.seat = who /\ m2.accepts = t.pending /\ m2.call = t.kan /\ ~m2.final /\ m2.winners = <<>>
    BY <1>7 DEF Mv, NoMove
  <2>2. Settled(t).accepted = acc /\ Settled(t).score = sc
    BY <1>0, <1>5 DEF SettledAs, Tables
  <2>. QED
    BY <1>0, <1>4, <1>6, <1>11, <2>1, <2>2 DEF HasDrawn, NextSeat
<1>. QED
  BY <1>1, <1>2, <1>15, <1>16

LEMMA RackLen ==
  ASSUME NEW t, TableOK(t)
  PROVE  /\ \A a \in 0..(t.n - 1) : t.melds[a] \in 0..4
         /\ t.melds[t.me] \in 0..4 /\ t.rack \in Seq(Nat) /\ Len(t.rack) \in Nat
         /\ Rising(t.rack, 20 + t.moves)
         /\ t.stage = "act" /\ t.turn = t.me => Len(t.rack) = 13 - 3 * t.melds[t.me] + 1
         /\ t.stage = "act" /\ t.turn # t.me => Len(t.rack) = 13 - 3 * t.melds[t.me]
         /\ t.stage = "open" => Len(t.rack) = 13 - 3 * t.melds[t.me]
<1>1. t.melds \in [0..(t.n - 1) -> 0..4] /\ t.me \in 0..(t.n - 1) /\ t.rack \in Seq(Nat)
  BY TableFields DEF TableOK
<1>2. \A a \in 0..(t.n - 1) : t.melds[a] \in 0..4
  BY <1>1, Zenon
<1>3. Rack(t)
  BY DEF TableOK
<1>4. t.melds[t.me] \in Nat
  BY <1>1, <1>2
<1>5. ASSUME t.stage \in {"act", "open"}
      PROVE  Len(t.rack) = 13 - 3 * t.melds[t.me] + (IF t.stage = "act" /\ t.turn = t.me THEN 1 ELSE 0)
  BY <1>3, <1>5 DEF Rack
<1>6. t.stage = "act" /\ t.turn # t.me => Len(t.rack) = 13 - 3 * t.melds[t.me]
  BY <1>4, <1>5
<1>7. t.stage = "open" => Len(t.rack) = 13 - 3 * t.melds[t.me]
  BY <1>4, <1>5
<1>. QED
  BY <1>1, <1>2, <1>3, <1>5, <1>6, <1>7 DEF Rack

LEMMA TailFront ==
  ASSUME NEW m \in Nat, NEW r, Rising(r, 20 + m), Len(r) >= 1
  PROVE  /\ Rising(Tail(r), 20 + (m + 1)) /\ Len(Tail(r)) = Len(r) - 1
         /\ Rising(Front(r), 20 + (m + 1)) /\ Len(Front(r)) = Len(r) - 1
         /\ Tail(r) = SubSeq(r, 2, Len(r)) /\ Front(r) = SubSeq(r, 1, Len(r) - 1)
<1>1. PICK n, k : n = Len(r) /\ k = 20 + m
  OBVIOUS
<1>2. n \in Nat /\ n >= 1 /\ k \in Nat /\ 20 + (m + 1) = k + 1 /\ r \in Seq(Nat)
  BY <1>1 DEF Rising
<1>3. Tail(r) = SubSeq(r, 2, n)
  BY <1>1, <1>2
<1>4. Front(r) = SubSeq(r, 1, n - 1)
  BY <1>1 DEF Front
<1>5. Rising(SubSeq(r, 2, n), k + 1) /\ Len(SubSeq(r, 2, n)) = n - 2 + 1
  BY <1>1, <1>2, RisingPart
<1>6. Rising(SubSeq(r, 1, n - 1), k + 1) /\ Len(SubSeq(r, 1, n - 1)) = (n - 1) - 1 + 1
  <2>1. n - 1 \in Nat /\ n - 1 <= n /\ 1 <= (n - 1) + 1
    BY <1>2
  <2>. QED
    BY <1>1, <1>2, <2>1, RisingPart
<1>. QED
  <2>1. n - 2 + 1 = n - 1 /\ (n - 1) - 1 + 1 = n - 1
    BY <1>2
  <2>2. Rising(Tail(r), 20 + (m + 1)) /\ Len(Tail(r)) = n - 1
    BY <1>2, <1>3, <1>5, <2>1
  <2>3. Rising(Front(r), 20 + (m + 1)) /\ Len(Front(r)) = n - 1
    BY <1>2, <1>4, <1>6, <2>1
  <2>. QED
    BY <1>1, <1>3, <1>4, <2>2, <2>3

LEMMA DiscardFacts ==
  ASSUME TableOK(table), Discard
  PROVE  TableOK(table') /\ HasDiscarded(table, table', move')
<1>1. PICK t, t2, m2 : t = table /\ t2 = table' /\ m2 = move'
  OBVIOUS
<1>0. TableOK(t) /\ t.stage = "act" /\ t \in Tables /\ t.pending = None /\ t.kan = "none"
  BY <1>1 DEF Discard, TableOK, Stage
<1>2. PICK last \in BOOLEAN, riichi \in BOOLEAN, offer \in BOOLEAN :
        /\ t.turn \in t.accepted => last /\ ~riichi
        /\ riichi => t.drew /\ t.turn \notin t.opened
        /\ Offers(t, offer)
        /\ t2 = [[t EXCEPT !.stage = "open", !.drew = FALSE, !.offer = offer,
                                !.pending = IF riichi THEN t.turn ELSE None,
                                !.shown = @ + t.due, !.due = 0,
                                !.rack = IF ~(t.turn = t.me) THEN @ ELSE IF last THEN Front(t.rack) ELSE Tail(t.rack)]
                   EXCEPT !.moves = @ + 1]
        /\ m2 = [Mv("discard", t.turn) EXCEPT !.last = last, !.giri = last /\ t.drew, !.riichi = riichi,
                     !.taken = IF ~(t.turn = t.me) THEN {} ELSE {IF last THEN Last(t.rack) ELSE Head(t.rack)}]
  <2>1. PICK last \in BOOLEAN, riichi \in BOOLEAN, offer \in BOOLEAN :
        /\ table.turn \in table.accepted => last /\ ~riichi
        /\ riichi => table.drew /\ table.turn \notin table.opened
        /\ Offers(table, offer)
        /\ Step([table EXCEPT !.stage = "open", !.drew = FALSE, !.offer = offer,
                                !.pending = IF riichi THEN table.turn ELSE None,
                                !.shown = @ + table.due, !.due = 0,
                                !.rack = IF ~(table.turn = table.me) THEN @ ELSE IF last THEN Front(table.rack) ELSE Tail(table.rack)],
                  [Mv("discard", table.turn) EXCEPT !.last = last, !.giri = last /\ table.drew, !.riichi = riichi,
                     !.taken = IF ~(table.turn = table.me) THEN {} ELSE {IF last THEN Last(table.rack) ELSE Head(table.rack)}])
    BY Zenon DEF Discard
  <2>. QED
    BY <1>1, <2>1 DEF Step
<1>3. PICK rack, pend : /\ rack = IF t.turn # t.me THEN t.rack ELSE IF last THEN Front(t.rack) ELSE Tail(t.rack)
                        /\ pend = IF riichi THEN t.turn ELSE None
  OBVIOUS
<1>4. /\ t2.accepted = t.accepted /\ t2.score = t.score /\ t2.sticks = t.sticks
      /\ t2.pending = pend /\ t2.stage = "open"
      /\ t2.turn = t.turn /\ ~t2.drew /\ t2.kan = "none" /\ t2.offer = offer /\ t2.rack = rack
      /\ t2.moves = t.moves + 1
      /\ SameHand(t, t2) /\ t2.melds = t.melds /\ t2.opened = t.opened
      /\ t2.shown = t.shown + t.due /\ t2.due = 0
  BY <1>0, <1>2, <1>3 DEF Tables, SameHand, SameGame
<1>5. /\ rack \in Seq(Nat) /\ Rising(rack, 20 + (t.moves + 1))
      /\ Len(rack) = 13 - 3 * t.melds[t.me]
  <2>0. t.melds[t.me] \in 0..4 /\ Rising(t.rack, 20 + t.moves) /\ t.moves \in Nat
    BY <1>0, RackLen, TableFields
  <2>1. CASE t.turn = t.me
    <3>1. Len(t.rack) = 13 - 3 * t.melds[t.me] + 1 /\ Len(t.rack) >= 1
      BY <1>0, <2>0, <2>1, RackLen
    <3>2. rack = Tail(t.rack) \/ rack = Front(t.rack)
      BY <1>3, <2>1
    <3>3. Rising(rack, 20 + (t.moves + 1)) /\ Len(rack) = Len(t.rack) - 1
      BY <2>0, <3>1, <3>2, TailFront
    <3>4. Len(rack) = 13 - 3 * t.melds[t.me]
      <4>1. PICK k, l, m : k = t.melds[t.me] /\ l = Len(t.rack) /\ m = Len(rack)
        OBVIOUS
      <4>2. k \in 0..4 /\ l = 13 - 3 * k + 1 /\ m = l - 1
        BY <2>0, <3>1, <3>3, <4>1
      <4>3. m = 13 - 3 * k
        BY <4>2
      <4>. QED
        BY <4>1, <4>3
    <3>. QED
      BY <3>3, <3>4 DEF Rising
  <2>2. CASE t.turn # t.me
    <3>1. rack = t.rack /\ Len(t.rack) = 13 - 3 * t.melds[t.me]
      BY <1>0, <1>3, <2>2, RackLen
    <3>2. Rising(rack, 20 + (t.moves + 1))
      BY <2>0, <3>1, RisingLater
    <3>. QED
      BY <3>1, <3>2 DEF Rising
  <2>. QED
    BY <2>1, <2>2
<1>6. t2 \in Tables
  <2>1. "open" \in Stages /\ rack \in Seq(Nat) /\ pend \in 0..9
    <3>1. t.turn \in 0..(t.n - 1) /\ t.n \in 3..4
      BY <1>0, TableFields
    <3>2. t.turn \in 0..9
      BY <3>1
    <3>. QED
      BY <1>3, <1>5, <3>2 DEF Stages, None
  <2>2. t.moves + 1 \in Nat /\ t.shown + t.due \in Nat /\ 0 \in Nat
    BY <1>0, TableFields
  <2>3. t2 = [t EXCEPT !.stage = "open", !.drew = FALSE, !.offer = offer, !.pending = pend,
                       !.shown = t.shown + t.due, !.due = 0, !.rack = rack, !.moves = t.moves + 1]
    BY <1>0, <1>2, <1>3 DEF Tables
  <2>. QED
    BY <1>0, <2>1, <2>2, <2>3 DEF Tables
<1>7. Stage(t2)
  <2>1. Stage(t) /\ t.shown \in Nat /\ t.due \in Nat
    BY <1>0, TableFields DEF TableOK
  <2>2. pend \notin t.accepted
    <3>1. \A x \in t.accepted : x # None
      <4>1. t.accepted \in SUBSET (0..3)
        BY <1>0, TableFields
      <4>2. 9 \notin 0..3
        OBVIOUS
      <4>. QED
        BY <4>1, <4>2 DEF None
    <3>. QED
      BY <1>2, <1>3, <3>1
  <2>3. t.shown + t.due >= 1
    BY <2>1 DEF Stage
  <2>. QED
    BY <1>0, <1>2, <1>3, <1>4, <2>1, <2>2, <2>3 DEF Stage, SameHand, SameGame, Offers
<1>8. Rack(t2)
  <2>1. t.melds[t.me] \in 0..4
    BY <1>0, RackLen
  <2>2. Len(rack) = 13 - 3 * t.melds[t.me] + 0
    BY <1>5, <2>1
  <2>. QED
    BY <1>4, <1>5, <2>2 DEF Rack, SameHand, SameGame
<1>9. Score(t2)
  BY <1>0, <1>4 DEF Score, SameHand, SameGame, TableOK
<1>10. TableOK(t2)
  <2>1. t.melds \in [0..(t.n - 1) -> 0..4] /\ t.opened \subseteq 0..(t.n - 1) /\ t.oya \in 0..(t.n - 1)
        /\ t.score \in [0..(t.n - 1) -> Int] /\ t.accepted \subseteq 0..(t.n - 1)
        /\ t.turn \in 0..(t.n - 1)
    BY <1>0, TableFields DEF TableOK
  <2>2. SameGame(t, t2) /\ t2.oya = t.oya
    BY <1>4 DEF SameHand
  <2>. QED
    BY <1>0, <1>4, <1>6, <1>7, <1>8, <1>9, <2>1, <2>2, TableIs
<1>11. HasDiscarded(t, t2, m2)
  <2>1. /\ m2.last = last /\ m2.riichi = riichi /\ m2.giri = (last /\ t.drew)
        /\ m2.kind = "discard" /\ m2.seat = t.turn
        /\ m2.taken = (IF ~(t.turn = t.me) THEN {} ELSE {IF last THEN Last(t.rack) ELSE Head(t.rack)})
        /\ ~m2.final /\ m2.winners = <<>>
    BY <1>2 DEF Mv, NoMove
  <2>2. m2.giri \in BOOLEAN
    BY <1>0, <2>1, TableFields
  <2>. QED
    BY <1>0, <1>2, <1>3, <1>4, <2>1, <2>2 DEF HasDiscarded, Offers
<1>. QED
  BY <1>1, <1>10, <1>11

(* The invariant's part on our rack after a move that takes k tiles of it.   *)
LEMMA TakenFromRack ==
  ASSUME NEW m \in Nat, NEW r, Rising(r, 20 + m), NEW k \in Nat, k <= Len(r)
  PROVE  /\ Rising(SubSeq(r, k + 1, Len(r)), 20 + (m + 1))
         /\ Len(SubSeq(r, k + 1, Len(r))) = Len(r) - k
<1>1. PICK n, c : n = Len(r) /\ c = 20 + m
  OBVIOUS
<1>2. n \in Nat /\ c \in Nat /\ 20 + (m + 1) = c + 1 /\ k + 1 \in Nat /\ k + 1 <= n + 1 /\ 1 <= k + 1
  BY <1>1 DEF Rising
<1>3. Rising(SubSeq(r, k + 1, n), c + 1) /\ Len(SubSeq(r, k + 1, n)) = n - (k + 1) + 1
  BY <1>1, <1>2, RisingPart
<1>4. n - (k + 1) + 1 = n - k
  BY <1>2
<1>. QED
  BY <1>1, <1>2, <1>3, <1>4

LEMMA CallFacts ==
  ASSUME TableOK(table), Call
  PROVE  TableOK(table') /\ HasCalled(table, table', move')
<1>1. PICK t, t2, m2 : t = table /\ t2 = table' /\ m2 = move'
  OBVIOUS
<1>0. TableOK(t) /\ t.stage = "open" /\ t.kan = "none" /\ (t.pending # None => t.pending = t.turn) /\ t \in Tables
  BY <1>1 DEF Call, TableOK, Stage
<1>2. PICK acc, sc, st : SettledAs(t, acc, sc, st)
  BY <1>0, SettledFacts
<1>3. PICK s : s = Settled(t)
  OBVIOUS
<1>4. /\ s = [t EXCEPT !.accepted = acc, !.score = sc, !.sticks = st, !.pending = None]
      /\ s.n = t.n /\ s.me = t.me /\ s.melds = t.melds /\ s.rack = t.rack /\ s.shown = t.shown
      /\ s.due = t.due
      /\ s.opened = t.opened /\ s.moves = t.moves
  BY <1>0, <1>2, <1>3 DEF SettledAs, Tables
<1>5. PICK a \in Players(t) \ ({t.turn} \cup t.accepted), c \in {"chi", "pon", "daiminkan"} :
        /\ c = "chi" => s.n = 4 /\ a = NextSeat(t)
        /\ s.melds[a] < 4
        /\ a = s.me => t.offer
        /\ t2 = [[s EXCEPT !.turn = a, !.stage = IF c = "daiminkan" THEN "open" ELSE "act", !.offer = FALSE,
                            !.drew = FALSE, !.kan = IF c = "daiminkan" THEN c ELSE "none",
                            !.melds[a] = @ + 1, !.opened = @ \cup {a}, !.due = @ + (IF c = "daiminkan" THEN 1 ELSE 0),
                            !.rack = IF a = s.me THEN SubSeq(@, (IF c = "daiminkan" THEN 3 ELSE 2) + 1, Len(@)) ELSE @]
                   EXCEPT !.moves = @ + 1]
        /\ m2 = [Mv("call", a) EXCEPT !.call = c, !.from = t.turn, !.accepts = t.pending,
                     !.taken = IF a = s.me THEN ToSet(SubSeq(s.rack, 1, IF c = "daiminkan" THEN 3 ELSE 2)) ELSE {}]
  <2>1. PICK a \in Players(t) \ ({t.turn} \cup t.accepted), c \in {"chi", "pon", "daiminkan"} : Called(s, a, c)
    BY <1>1, <1>3 DEF Call
  <2>2. s.turn = t.turn /\ s.offer = t.offer
    BY <1>0, <1>4 DEF Tables
  <2>3. NextSeat(s) = NextSeat(t)
    BY <1>4, <2>2 DEF NextSeat
  <2>. QED
    BY <1>1, <2>1, <2>2, <2>3 DEF Step, Called
<1>6. PICK used : used = IF c = "daiminkan" THEN 3 ELSE 2
  OBVIOUS
<1>7. PICK rack, melds, stage, kan, due :
        /\ rack = IF a = t.me THEN SubSeq(t.rack, used + 1, Len(t.rack)) ELSE t.rack
        /\ melds = [t.melds EXCEPT ![a] = @ + 1]
        /\ stage = IF c = "daiminkan" THEN "open" ELSE "act"
        /\ kan = IF c = "daiminkan" THEN "daiminkan" ELSE "none"
        /\ due = t.due + (IF c = "daiminkan" THEN 1 ELSE 0)
  OBVIOUS
<1>8. a \in 0..(t.n - 1) /\ a # t.turn /\ t.n \in 3..4 /\ a \in 0..3 /\ t.me \in 0..(t.n - 1) /\ t.melds \in [0..(t.n - 1) -> 0..4]
  <2>1. t.n \in 3..4 /\ t.me \in 0..(t.n - 1) /\ t.melds \in [0..(t.n - 1) -> 0..4]
    BY <1>0, TableFields DEF TableOK
  <2>2. a \in 0..(t.n - 1) /\ a # t.turn
    BY <1>5 DEF Players
  <2>. QED
    BY <2>1, <2>2
<1>9. /\ melds \in [0..(t.n - 1) -> 0..4] /\ melds \in [0..2 -> 0..4] \cup [0..3 -> 0..4]
      /\ t.melds[a] \in 0..3 /\ melds[a] = t.melds[a] + 1 /\ \A x \in 0..(t.n - 1) : x # a => melds[x] = t.melds[x]
  <2>1. t.melds[a] \in 0..4 /\ t.melds[a] < 4
    BY <1>0, <1>4, <1>5, <1>8, RackLen
  <2>2. t.melds[a] \in 0..3 /\ t.melds[a] + 1 \in 0..4
    BY <2>1
  <2>3. melds \in [0..(t.n - 1) -> 0..4]
    BY <1>7, <1>8, <2>2
  <2>4. melds \in [0..2 -> 0..4] \cup [0..3 -> 0..4]
    <3>1. t.n - 1 = 2 \/ t.n - 1 = 3
      BY <1>8
    <3>. QED
      BY <2>3, <3>1
  <2>. QED
    BY <1>7, <1>8, <2>2, <2>3, <2>4
<1>10. t2 = [t EXCEPT !.accepted = acc, !.score = sc, !.sticks = st, !.pending = None,
                      !.turn = a, !.stage = stage, !.offer = FALSE, !.drew = FALSE, !.kan = kan,
                      !.melds = melds, !.opened = t.opened \cup {a}, !.due = due, !.rack = rack, !.moves = t.moves + 1]
  <2>1. c # "daiminkan" => c \in {"chi", "pon"}
    BY <1>5
  <2>. QED
    BY <1>0, <1>4, <1>5, <1>6, <1>7 DEF Tables
<1>11. /\ t2.accepted = acc /\ t2.score = sc /\ t2.sticks = st /\ t2.pending = None
       /\ t2.stage = stage /\ t2.turn = a
       /\ ~t2.drew /\ t2.kan = kan /\ ~t2.offer /\ t2.rack = rack /\ t2.moves = t.moves + 1
       /\ SameHand(t, t2) /\ t2.melds = melds /\ t2.opened = t.opened \cup {a}
       /\ t2.shown = t.shown /\ t2.due = due
  BY <1>0, <1>10 DEF Tables, SameHand, SameGame
<1>12. /\ rack \in Seq(Nat) /\ Rising(rack, 20 + (t.moves + 1))
       /\ a = t.me => used <= Len(t.rack)
       /\ Len(rack) = 13 - 3 * melds[t.me] + (IF stage = "act" /\ a = t.me THEN 1 ELSE 0)
  <2>0. t.melds[t.me] \in 0..4 /\ Rising(t.rack, 20 + t.moves) /\ t.moves \in Nat /\ Len(t.rack) = 13 - 3 * t.melds[t.me]
    BY <1>0, RackLen, TableFields
  <2>1. CASE a = t.me
    <3>1. PICK k, l, m : k = t.melds[t.me] /\ l = Len(t.rack) /\ m = melds[t.me]
      OBVIOUS
    <3>2. k \in 0..3 /\ m = k + 1 /\ l = 13 - 3 * k
      BY <1>9, <2>0, <2>1, <3>1
    <3>3. used \in 2..3 /\ used <= l /\ used \in Nat
      BY <1>6, <3>2
    <3>4. rack = SubSeq(t.rack, used + 1, Len(t.rack))
      BY <1>7, <2>1
    <3>5. Rising(rack, 20 + (t.moves + 1)) /\ Len(rack) = l - used
      BY <2>0, <3>1, <3>3, <3>4, TakenFromRack
    <3>6. used = 3 - (IF stage = "act" /\ a = t.me THEN 1 ELSE 0)
      BY <1>6, <1>7, <2>1
    <3>7. Len(rack) = 13 - 3 * m + (IF stage = "act" /\ a = t.me THEN 1 ELSE 0)
      BY <3>2, <3>5, <3>6
    <3>. QED
      BY <3>1, <3>3, <3>5, <3>7 DEF Rising
  <2>2. CASE a # t.me
    <3>1. rack = t.rack /\ melds[t.me] = t.melds[t.me]
      BY <1>7, <1>8, <1>9, <2>2
    <3>2. Rising(rack, 20 + (t.moves + 1))
      BY <2>0, <3>1, RisingLater
    <3>3. Len(rack) = 13 - 3 * melds[t.me] + 0
      BY <2>0, <3>1
    <3>. QED
      BY <2>2, <3>2, <3>3 DEF Rising
  <2>. QED
    BY <2>1, <2>2
<1>13. t2 \in Tables
  <2>1. acc \in SUBSET (0..3) /\ st \in Nat /\ sc \in [0..2 -> Int] \cup [0..3 -> Int]
    BY <1>2 DEF SettledAs
  <2>2. a \in 0..3 /\ rack \in Seq(Nat) /\ stage \in Stages /\ kan \in Kans /\ None \in 0..9
    BY <1>7, <1>8, <1>12 DEF Stages, Kans, None
  <2>3. t.moves + 1 \in Nat /\ due \in Nat
    BY <1>0, <1>7, TableFields
  <2>4. t.opened \cup {a} \in SUBSET (0..3)
    BY <1>0, <1>8 DEF Tables
  <2>. QED
    BY <1>0, <1>9, <1>10, <2>1, <2>2, <2>3, <2>4 DEF Tables
<1>14. Stage(t2)
  <2>1. Stage(t)
    BY <1>0 DEF TableOK
  <2>2. None \notin acc
    BY <1>2 DEF SettledAs, None
  <2>. QED
    BY <1>0, <1>7, <1>11, <2>1, <2>2 DEF Stage, SameHand, SameGame
<1>15. Rack(t2)
  BY <1>11, <1>12 DEF Rack, SameHand, SameGame
<1>16. Score(t2)
  BY <1>0, <1>2, <1>11, TableFields DEF Score, SettledAs, SameHand, SameGame, TableOK, Stage
<1>17. TableOK(t2)
  <2>1. t.opened \cup {a} \subseteq 0..(t.n - 1) /\ t.oya \in 0..(t.n - 1)
    BY <1>0, <1>8, TableFields DEF TableOK
  <2>2. SameGame(t, t2) /\ t2.oya = t.oya
    BY <1>11 DEF SameHand
  <2>3. sc \in [0..(t.n - 1) -> Int] /\ acc \subseteq 0..(t.n - 1)
    BY <1>2 DEF SettledAs
  <2>. QED
    BY <1>0, <1>8, <1>9, <1>11, <1>13, <1>14, <1>15, <1>16, <2>1, <2>2, <2>3, TableIs
<1>18. HasCalled(t, t2, m2)
  <2>1. /\ m2.kind = "call" /\ m2.seat = a /\ m2.call = c /\ m2.from = t.turn
        /\ m2.accepts = t.pending
        /\ ~m2.final /\ m2.winners = <<>>
    BY <1>5 DEF Mv, NoMove
  <2>2. a = t.me => m2.taken = ToSet(SubSeq(t.rack, 1, used))
    BY <1>4, <1>5, <1>6 DEF Mv, NoMove
  <2>3. Settled(t).accepted = acc /\ Settled(t).score = sc
    BY <1>0, <1>2 DEF SettledAs, Tables
  <2>4. c = "chi" => t.n = 4 /\ a = (t.turn + 1) % t.n
    BY <1>4, <1>5 DEF NextSeat
  <2>5. a = t.me => \E u \in 2..3 : u <= Len(t.rack) /\ t2.rack = SubSeq(t.rack, u + 1, Len(t.rack))
                                     /\ m2.taken = ToSet(SubSeq(t.rack, 1, u))
    <3>1. used \in 2..3
      BY <1>6
    <3>2. a = t.me => rack = SubSeq(t.rack, used + 1, Len(t.rack))
      BY <1>7
    <3>. QED
      BY <3>1, <3>2, <1>11, <1>12, <2>2
  <2>6. a # t.me => t2.rack = t.rack
    BY <1>7, <1>11
  <2>7. c \in Calls
    BY DEF Calls
  <2>8. HasCalled(t, t2, m2)
    BY <1>0, <1>7, <1>8, <1>11, <2>1, <2>3, <2>4, <2>5, <2>6, <2>7 DEF HasCalled
  <2>. QED
    BY <2>8
<1>. QED
  BY <1>1, <1>17, <1>18

LEMMA KanFacts ==
  ASSUME TableOK(table), OwnKan
  PROVE  TableOK(table') /\ HasKan(table, table', move')
<1>1. PICK t, t2, m2 : t = table /\ t2 = table' /\ m2 = move'
  OBVIOUS
<1>0. TableOK(t) /\ t.stage = "act" /\ t.drew /\ t \in Tables /\ t.pending = None /\ t.kan = "none"
  BY <1>1 DEF OwnKan, TableOK, Stage
<1>2. PICK c \in {"ankan", "kakan", "kita"}, offer \in BOOLEAN :
        /\ c = "ankan" => t.melds[t.turn] < 4
        /\ Offers(t, offer)
        /\ t2 = [[t EXCEPT !.stage = "open", !.drew = FALSE, !.kan = c, !.offer = offer,
                     !.melds[t.turn] = IF c = "ankan" THEN @ + 1 ELSE @,
                     !.shown = IF c = "ankan" THEN @ + 1 ELSE IF c = "kita" THEN @ + t.due ELSE @,
                     !.due = IF c = "kita" THEN 0 ELSE IF c = "kakan" THEN @ + 1 ELSE @,
                     !.rack = IF t.turn # t.me THEN @ ELSE IF c # "kakan" THEN SubSeq(@, (IF c = "ankan" THEN 4 ELSE 1) + 1, Len(@)) ELSE Front(@)]
                   EXCEPT !.moves = @ + 1]
        /\ m2 = [Mv("kan", t.turn) EXCEPT !.call = c,
                     !.taken = IF t.turn # t.me THEN {} ELSE IF c # "kakan" THEN ToSet(SubSeq(t.rack, 1, IF c = "ankan" THEN 4 ELSE 1)) ELSE {Last(t.rack)}]
  <2>1. PICK c \in {"ankan", "kakan", "kita"}, offer \in BOOLEAN :
        /\ c = "kita" => table.n = 3
        /\ c = "kakan" => table.turn \in table.opened
        /\ c = "ankan" => table.melds[table.turn] < 4
        /\ table.turn \in table.accepted => c # "kakan"
        /\ c # "kita" => table.shown + table.due < MaxDora
        /\ Offers(table, offer) /\ (offer => c # "ankan")
        /\ Step([table EXCEPT !.stage = "open", !.drew = FALSE, !.kan = c, !.offer = offer,
                     !.melds[table.turn] = IF c = "ankan" THEN @ + 1 ELSE @,
                     !.shown = IF c = "ankan" THEN @ + 1 ELSE IF c = "kita" THEN @ + table.due ELSE @,
                     !.due = IF c = "kita" THEN 0 ELSE IF c = "kakan" THEN @ + 1 ELSE @,
                     !.rack = IF table.turn # table.me THEN @ ELSE IF c # "kakan" THEN SubSeq(@, (IF c = "ankan" THEN 4 ELSE 1) + 1, Len(@)) ELSE Front(@)],
                  [Mv("kan", table.turn) EXCEPT !.call = c,
                     !.taken = IF table.turn # table.me THEN {} ELSE IF c # "kakan" THEN ToSet(SubSeq(table.rack, 1, IF c = "ankan" THEN 4 ELSE 1)) ELSE {Last(table.rack)}])
    BY Zenon DEF OwnKan
  <2>. QED
    BY <1>1, <2>1 DEF Step
<1>3. PICK used : used = IF c = "ankan" THEN 4 ELSE 1
  OBVIOUS
<1>4. PICK rack, melds, shown, due :
        /\ rack = IF t.turn # t.me THEN t.rack ELSE IF c # "kakan" THEN SubSeq(t.rack, used + 1, Len(t.rack)) ELSE Front(t.rack)
        /\ melds = [t.melds EXCEPT ![t.turn] = IF c = "ankan" THEN @ + 1 ELSE @]
        /\ shown = IF c = "ankan" THEN t.shown + 1 ELSE IF c = "kita" THEN t.shown + t.due ELSE t.shown
        /\ due = IF c = "kita" THEN 0 ELSE IF c = "kakan" THEN t.due + 1 ELSE t.due
  OBVIOUS
<1>5. /\ t.turn \in 0..(t.n - 1) /\ t.n \in 3..4 /\ t.me \in 0..(t.n - 1)
      /\ t.melds \in [0..(t.n - 1) -> 0..4]
      /\ t.shown \in Nat /\ t.due \in Nat /\ t.moves \in Nat
  BY <1>0, TableFields DEF TableOK
<1>6. /\ melds \in [0..(t.n - 1) -> 0..4] /\ melds \in [0..2 -> 0..4] \cup [0..3 -> 0..4]
      /\ melds[t.turn] = t.melds[t.turn] + (IF c = "ankan" THEN 1 ELSE 0)
      /\ \A x \in 0..(t.n - 1) : x # t.turn => melds[x] = t.melds[x]
      /\ melds = IF c = "ankan" THEN [t.melds EXCEPT ![t.turn] = @ + 1] ELSE t.melds
  <2>1. t.melds[t.turn] \in 0..4 /\ (c = "ankan" => t.melds[t.turn] < 4)
    BY <1>0, <1>2, <1>5, RackLen
  <2>2. (IF c = "ankan" THEN t.melds[t.turn] + 1 ELSE t.melds[t.turn]) \in 0..4
    BY <2>1
  <2>3. melds \in [0..(t.n - 1) -> 0..4]
    BY <1>4, <1>5, <2>2
  <2>4. melds \in [0..2 -> 0..4] \cup [0..3 -> 0..4]
    <3>1. t.n - 1 = 2 \/ t.n - 1 = 3
      BY <1>5
    <3>. QED
      BY <2>3, <3>1
  <2>5. melds[t.turn] = t.melds[t.turn] + (IF c = "ankan" THEN 1 ELSE 0)
    BY <1>4, <1>5, <2>1
  <2>6. \A x \in 0..(t.n - 1) : x # t.turn => melds[x] = t.melds[x]
    BY <1>4, <1>5
  <2>7. c # "ankan" => melds = t.melds
    BY <1>4, <1>5
  <2>8. c = "ankan" => melds = [t.melds EXCEPT ![t.turn] = @ + 1]
    BY <1>4
  <2>. QED
    BY <2>3, <2>4, <2>5, <2>6, <2>7, <2>8
<1>10. t2 = [t EXCEPT !.stage = "open", !.offer = offer, !.drew = FALSE, !.kan = c,
                      !.melds = melds, !.shown = shown, !.due = due, !.rack = rack, !.moves = t.moves + 1]
  <2>1. t2 = [[t EXCEPT !.stage = "open", !.drew = FALSE, !.kan = c, !.offer = offer,
                        !.melds = melds, !.shown = shown, !.due = due, !.rack = rack] EXCEPT !.moves = @ + 1]
    <3>1. [t EXCEPT !.stage = "open", !.drew = FALSE, !.kan = c, !.offer = offer,
                     !.melds[t.turn] = IF c = "ankan" THEN @ + 1 ELSE @,
                     !.shown = IF c = "ankan" THEN @ + 1 ELSE IF c = "kita" THEN @ + t.due ELSE @,
                     !.due = IF c = "kita" THEN 0 ELSE IF c = "kakan" THEN @ + 1 ELSE @,
                     !.rack = IF t.turn # t.me THEN @ ELSE IF c # "kakan" THEN SubSeq(@, (IF c = "ankan" THEN 4 ELSE 1) + 1, Len(@)) ELSE Front(@)]
          = [t EXCEPT !.stage = "open", !.drew = FALSE, !.kan = c, !.offer = offer,
                     !.melds = melds, !.shown = shown, !.due = due, !.rack = rack]
      BY <1>3, <1>4
    <3>. QED
      BY <1>2, <3>1
  <2>2. PICK u : u = [t EXCEPT !.stage = "open", !.drew = FALSE, !.kan = c, !.offer = offer,
                        !.melds = melds, !.shown = shown, !.due = due, !.rack = rack]
    OBVIOUS
  <2>3. u.moves = t.moves
    BY <1>0, <2>2 DEF Tables
  <2>4. t2 = [u EXCEPT !.moves = t.moves + 1]
    BY <2>1, <2>2, <2>3
  <2>. QED
    BY <1>0, <2>2, <2>4 DEF Tables
<1>11. /\ t2.accepted = t.accepted /\ t2.score = t.score /\ t2.sticks = t.sticks
       /\ t2.pending = None /\ t2.stage = "open"
       /\ t2.turn = t.turn /\ ~t2.drew /\ t2.kan = c /\ t2.offer = offer /\ t2.rack = rack
       /\ t2.moves = t.moves + 1
       /\ SameHand(t, t2) /\ t2.melds = melds /\ t2.opened = t.opened /\ t2.shown = shown
       /\ t2.due = due
  BY <1>0, <1>10 DEF Tables, SameHand, SameGame
<1>12. /\ rack \in Seq(Nat) /\ Rising(rack, 20 + (t.moves + 1))
       /\ t.turn = t.me => used <= Len(t.rack)
       /\ Len(rack) = 13 - 3 * melds[t.me]
  <2>0. t.melds[t.me] \in 0..4 /\ Rising(t.rack, 20 + t.moves) /\ (c = "ankan" => t.melds[t.turn] < 4)
    BY <1>0, <1>2, RackLen
  <2>1. CASE t.turn = t.me
    <3>1. PICK k, l, m : k = t.melds[t.me] /\ l = Len(t.rack) /\ m = melds[t.me]
      OBVIOUS
    <3>2. k \in 0..4 /\ m = k + (IF c = "ankan" THEN 1 ELSE 0) /\ l = 13 - 3 * k + 1 /\ (c = "ankan" => k < 4)
      BY <1>0, <1>6, <2>0, <2>1, <3>1, RackLen
    <3>3. used \in Nat /\ used <= l /\ l >= 1 /\ l - used = 13 - 3 * m
      BY <1>3, <3>2
    <3>4. CASE c # "kakan"
      <4>1. rack = SubSeq(t.rack, used + 1, Len(t.rack))
        BY <1>4, <2>1, <3>4
      <4>2. Rising(rack, 20 + (t.moves + 1)) /\ Len(rack) = l - used
        BY <1>5, <2>0, <3>1, <3>3, <4>1, TakenFromRack
      <4>. QED
        BY <3>1, <3>3, <4>2 DEF Rising
    <3>5. CASE c = "kakan"
      <4>1. rack = Front(t.rack) /\ used = 1
        BY <1>3, <1>4, <2>1, <3>5
      <4>2. Rising(rack, 20 + (t.moves + 1)) /\ Len(rack) = l - 1
        BY <1>5, <2>0, <3>1, <3>3, <4>1, TailFront
      <4>. QED
        BY <3>1, <3>3, <4>1, <4>2 DEF Rising
    <3>. QED
      BY <3>4, <3>5
  <2>2. CASE t.turn # t.me
    <3>1. rack = t.rack /\ melds[t.me] = t.melds[t.me] /\ Len(t.rack) = 13 - 3 * t.melds[t.me]
      BY <1>0, <1>4, <1>5, <1>6, <2>2, RackLen
    <3>2. Rising(rack, 20 + (t.moves + 1))
      BY <1>5, <2>0, <3>1, RisingLater
    <3>. QED
      BY <2>2, <3>1, <3>2 DEF Rising
  <2>. QED
    BY <2>1, <2>2
<1>13. shown \in Nat /\ due \in Nat /\ shown >= 1
  <2>1. t.shown >= 1
    BY <1>0 DEF TableOK, Stage
  <2>. QED
    BY <1>4, <1>5, <2>1
<1>14. t2 \in Tables
  <2>2. rack \in Seq(Nat) /\ "open" \in Stages /\ c \in Kans /\ t.moves + 1 \in Nat
    BY <1>5, <1>12 DEF Stages, Kans, OwnKans
  <2>3. t2 = [t EXCEPT !.stage = "open", !.offer = offer, !.drew = FALSE, !.kan = c,
                      !.melds = melds, !.shown = shown, !.due = due, !.rack = rack, !.moves = t.moves + 1]
    BY <1>10
  <2>4. offer \in BOOLEAN /\ melds \in [0..2 -> 0..4] \cup [0..3 -> 0..4] /\ shown \in Nat /\ due \in Nat
    BY <1>6, <1>13
  <2>. QED
    BY <1>0, <2>2, <2>3, <2>4 DEF Tables
<1>15. Stage(t2)
  <2>1. Stage(t)
    BY <1>0 DEF TableOK
  <2>. QED
    BY <1>0, <1>2, <1>11, <1>13, <2>1 DEF Stage, SameHand, SameGame, Offers
<1>16. Rack(t2)
  <2>1. melds[t.me] \in 0..4
    BY <1>5, <1>6
  <2>2. Len(rack) = 13 - 3 * melds[t.me] + 0
    BY <1>12, <2>1
  <2>. QED
    BY <1>11, <1>12, <2>2 DEF Rack, SameHand, SameGame
<1>17. Score(t2)
  BY <1>0, <1>11 DEF Score, SameHand, SameGame, TableOK
<1>18. TableOK(t2)
  <2>1. t.opened \subseteq 0..(t.n - 1) /\ t.oya \in 0..(t.n - 1)
        /\ t.score \in [0..(t.n - 1) -> Int] /\ t.accepted \subseteq 0..(t.n - 1)
    BY <1>0, TableFields DEF TableOK
  <2>2. SameGame(t, t2) /\ t2.oya = t.oya
    BY <1>11 DEF SameHand
  <2>. QED
    BY <1>0, <1>5, <1>6, <1>11, <1>14, <1>15, <1>16, <1>17, <2>1, <2>2, TableIs
<1>19. HasKan(t, t2, m2)
  <2>1. /\ m2.kind = "kan" /\ m2.seat = t.turn /\ m2.call = c /\ m2.from = None /\ m2.accepts = None
        /\ ~m2.final /\ m2.winners = <<>>
    BY <1>2 DEF Mv, NoMove
  <2>2. m2.taken = IF t.turn # t.me THEN {} ELSE IF c # "kakan" THEN ToSet(SubSeq(t.rack, 1, used)) ELSE {Last(t.rack)}
    BY <1>2, <1>3 DEF Mv, NoMove
  <2>3. ASSUME t.turn = t.me
        PROVE  \/ \E u \in {1, 4} : /\ u <= Len(t.rack)
                                    /\ t2.rack = SubSeq(t.rack, u + 1, Len(t.rack))
                                    /\ m2.taken = ToSet(SubSeq(t.rack, 1, u))
               \/ t2.rack = Front(t.rack) /\ m2.taken = {Last(t.rack)}
    <3>1. used \in {1, 4} /\ used <= Len(t.rack)
      BY <1>3, <1>12, <2>3
    <3>2. c # "kakan" => rack = SubSeq(t.rack, used + 1, Len(t.rack)) /\ m2.taken = ToSet(SubSeq(t.rack, 1, used))
      BY <1>4, <2>2, <2>3
    <3>3. c = "kakan" => rack = Front(t.rack) /\ m2.taken = {Last(t.rack)}
      BY <1>4, <2>2, <2>3
    <3>. QED
      BY <1>11, <3>1, <3>2, <3>3
  <2>4. t.turn # t.me => t2.rack = t.rack
    BY <1>4, <1>11
  <2>5. c \in OwnKans
    BY DEF OwnKans
  <2>6. /\ shown = CASE c = "ankan" -> t.shown + 1 [] c = "kita"  -> t.shown + t.due [] c = "kakan" -> t.shown
        /\ due = CASE c = "ankan" -> t.due [] c = "kita"  -> 0 [] c = "kakan" -> t.due + 1
    BY <1>4
  <2>7. offer => t.turn # t.me
    BY <1>2 DEF Offers
  <2>. QED
    BY <1>0, <1>6, <1>11, <2>1, <2>3, <2>4, <2>5, <2>6, <2>7 DEF HasKan
<1>. QED
  BY <1>1, <1>18, <1>19

LEMMA StartPoints ==
  ASSUME NEW n \in 3..4
  PROVE  LET sc == [a \in 0..(n - 1) |-> StartScore(n)]
         IN /\ sc \in [0..(n - 1) -> Int] /\ sc \in [0..2 -> Int] \cup [0..3 -> Int]
            /\ Points(n, sc) + 0 = FullScore(n)
<1>1. CASE n = 3
  BY <1>1 DEF Points, FullScore, StartScore
<1>2. CASE n = 4
  BY <1>2 DEF Points, FullScore, StartScore
<1>. QED
  BY <1>1, <1>2

LEMMA EmptyFacts ==
  ASSUME NEW s \in Seatings, NEW games \in Nat, NEW moves \in Nat, NEW t,
         t = [n |-> s.n, me |-> s.me, shift |-> s.shift, stage |-> "seated", turn |-> 0, drew |-> FALSE,
              rack |-> <<>>, melds |-> [a \in 0..(s.n - 1) |-> 0], opened |-> {}, pending |-> None,
              accepted |-> {}, kan |-> "none", shown |-> 1, due |-> 0, offer |-> FALSE, oya |-> 0,
              score |-> [a \in 0..(s.n - 1) |-> StartScore(s.n)], sticks |-> 0, hands |-> 0,
              games |-> games, moves |-> moves]
  PROVE  TableOK(t)
<1>1. s.n \in 3..4 /\ s.me \in 0..3 /\ s.shift \in 0..3 /\ s.me < s.n /\ s.shift < s.n
  BY TableAssumption
<1>2. PICK sc, melds : sc = [a \in 0..(s.n - 1) |-> StartScore(s.n)] /\ melds = [a \in 0..(s.n - 1) |-> 0]
  OBVIOUS
<1>3. sc \in [0..(s.n - 1) -> Int] /\ sc \in [0..2 -> Int] \cup [0..3 -> Int] /\ Points(s.n, sc) + 0 = FullScore(s.n)
  BY <1>1, <1>2, StartPoints
<1>4. melds \in [0..(s.n - 1) -> 0..4] /\ melds \in [0..2 -> 0..4] \cup [0..3 -> 0..4]
  <2>1. melds \in [0..(s.n - 1) -> 0..4]
    BY <1>1, <1>2
  <2>2. s.n - 1 = 2 \/ s.n - 1 = 3
    BY <1>1
  <2>. QED
    BY <2>1, <2>2
<1>5. t = [n |-> s.n, me |-> s.me, shift |-> s.shift, stage |-> "seated", turn |-> 0, drew |-> FALSE,
              rack |-> <<>>, melds |-> melds, opened |-> {}, pending |-> None,
              accepted |-> {}, kan |-> "none", shown |-> 1, due |-> 0, offer |-> FALSE, oya |-> 0,
              score |-> sc, sticks |-> 0, hands |-> 0, games |-> games, moves |-> moves]
  BY <1>2
<1>6. t \in Tables
  <2>1. <<>> \in Seq(Nat) /\ "seated" \in Stages /\ "none" \in Kans /\ None \in 0..9
    BY DEF Stages, Kans, None
  <2>. QED
    BY <1>1, <1>3, <1>4, <1>5, <2>1 DEF Tables
<1>7. Stage(t)
  BY <1>5 DEF Stage, None
<1>8. Rack(t)
  BY <1>5 DEF Rack, Rising
<1>9. Score(t)
  BY <1>2, <1>3, <1>5 DEF Score
<1>. QED
  <2>1. t.n = s.n /\ t.me = s.me /\ t.shift = s.shift /\ t.turn = 0 /\ t.oya = 0 /\ t.melds = melds /\ t.score = sc
        /\ t.accepted = {} /\ t.opened = {}
    BY <1>5
  <2>. QED
    BY <1>1, <1>3, <1>4, <1>6, <1>7, <1>8, <1>9, <2>1 DEF TableOK

LEMMA InitFacts ==
  ASSUME Init
  PROVE  TableOK(table) /\ table.games = 0 /\ table.stage = "seated" /\ ~table.offer /\ move = NoMove
<1>1. PICK s \in Seatings : table = Empty(s, 0) /\ move = NoMove
  BY DEF Init
<1>2. TableOK(table)
  BY <1>1, EmptyFacts DEF Empty
<1>. QED
  BY <1>1, <1>2 DEF Empty

LEMMA SitFacts ==
  ASSUME TableOK(table), Sit
  PROVE  TableOK(table') /\ HasSat(table, table', move')
<1>1. PICK t, t2, m2 : t = table /\ t2 = table' /\ m2 = move'
  OBVIOUS
<1>2. TableOK(t) /\ (t.games = 0 \/ t.stage = "over")
  BY <1>1 DEF Sit
<1>3. PICK s \in Seatings :
        /\ t2 = [[Empty(s, t.games + 1) EXCEPT !.moves = t.moves] EXCEPT !.moves = @ + 1]
        /\ m2 = Mv("sit", 0)
        /\ t.games = 0 => s = [n |-> t.n, me |-> t.me, shift |-> t.shift]
  BY <1>1 DEF Sit, Step
<1>4. t.moves + 1 \in Nat /\ t.games + 1 \in Nat
  BY <1>2, TableFields
<1>5. t2 = [n |-> s.n, me |-> s.me, shift |-> s.shift, stage |-> "seated", turn |-> 0, drew |-> FALSE,
              rack |-> <<>>, melds |-> [a \in 0..(s.n - 1) |-> 0], opened |-> {}, pending |-> None,
              accepted |-> {}, kan |-> "none", shown |-> 1, due |-> 0, offer |-> FALSE, oya |-> 0,
              score |-> [a \in 0..(s.n - 1) |-> StartScore(s.n)], sticks |-> 0, hands |-> 0,
              games |-> t.games + 1, moves |-> t.moves + 1]
  BY <1>3 DEF Empty
<1>6. TableOK(t2)
  BY <1>4, <1>5, EmptyFacts
<1>7. HasSat(t, t2, m2)
  <2>1. m2.kind = "sit" /\ ~m2.final /\ m2.winners = <<>>
    BY <1>3 DEF Mv, NoMove
  <2>2. t2.games = t.games + 1 /\ t2.stage = "seated" /\ ~t2.offer
    BY <1>5
  <2>. QED
    BY <1>2, <2>1, <2>2 DEF HasSat
<1>. QED
  BY <1>1, <1>6, <1>7

LEMMA DealFacts ==
  ASSUME TableOK(table), Deal
  PROVE  TableOK(table') /\ HasDealt(table, table', move')
<1>1. PICK t, t2, m2 : t = table /\ t2 = table' /\ m2 = move'
  OBVIOUS
<1>0. TableOK(t) /\ t \in Tables /\ t.stage \in {"seated", "between"} /\ t.games > 0
  BY <1>1 DEF Deal, TableOK
<1>2. PICK oya \in IF t.hands = 0 THEN {0} ELSE {t.oya, (t.oya + 1) % t.n} :
        /\ t2 = [[t EXCEPT !.stage = "act", !.turn = oya, !.oya = oya, !.drew = TRUE,
                          !.rack = [i \in 1..(IF oya = t.me THEN 14 ELSE 13) |-> i],
                          !.melds = [a \in Players(t) |-> 0], !.opened = {}, !.pending = None,
                          !.accepted = {}, !.kan = "none", !.shown = 1, !.due = 0,
                          !.offer = FALSE, !.hands = @ + 1] EXCEPT !.moves = @ + 1]
        /\ m2 = Mv("deal", oya)
  <2>1. PICK oya \in IF table.hands = 0 THEN {0} ELSE {table.oya, (table.oya + 1) % table.n} :
          Step([table EXCEPT !.stage = "act", !.turn = oya, !.oya = oya, !.drew = TRUE,
                          !.rack = [i \in 1..(IF oya = table.me THEN 14 ELSE 13) |-> i],
                          !.melds = [a \in Players(table) |-> 0], !.opened = {}, !.pending = None,
                          !.accepted = {}, !.kan = "none", !.shown = 1, !.due = 0,
                          !.offer = FALSE, !.hands = @ + 1], Mv("deal", oya))
    BY Zenon DEF Deal
  <2>. QED
    BY <1>1, <2>1 DEF Step
<1>3. PICK rack, melds : rack = [i \in 1..(IF oya = t.me THEN 14 ELSE 13) |-> i] /\ melds = [a \in 0..(t.n - 1) |-> 0]
  OBVIOUS
<1>4. /\ t.n \in 3..4 /\ t.me \in 0..(t.n - 1) /\ t.hands + 1 \in Nat /\ t.moves \in Nat
      /\ t.moves + 1 \in Nat
      /\ oya \in 0..(t.n - 1) /\ oya \in 0..3 /\ (t.hands = 0 => oya = 0)
  <2>1. t.n \in 3..4 /\ t.me \in 0..(t.n - 1) /\ t.hands + 1 \in Nat /\ t.moves \in Nat /\ t.moves + 1 \in Nat /\ t.oya \in 0..(t.n - 1)
    BY <1>0, TableFields
  <2>2. (t.oya + 1) % t.n \in 0..(t.n - 1)
    BY <2>1, NextOf
  <2>3. 0 \in 0..(t.n - 1)
    BY <2>1
  <2>4. oya \in 0..(t.n - 1) /\ (t.hands = 0 => oya = 0)
    BY <1>2, <2>1, <2>2, <2>3
  <2>5. \A x \in 0..(t.n - 1) : x \in 0..3
    BY <2>1
  <2>. QED
    BY <2>1, <2>4, <2>5
<1>5. /\ rack \in Seq(Nat) /\ Rising(rack, 20 + (t.moves + 1))
      /\ Len(rack) = 13 + (IF oya = t.me THEN 1 ELSE 0)
  <2>1. PICK k \in 13..14 : k = IF oya = t.me THEN 14 ELSE 13
    OBVIOUS
  <2>2. rack = [i \in 1..k |-> i]
    BY <1>3, <2>1
  <2>3. rack \in Seq(Nat) /\ Len(rack) = k /\ \A i \in 1..k : rack[i] = i
    BY <2>2
  <2>4. \A i \in 1..k : i < 20 + (t.moves + 1)
    BY <1>4
  <2>. QED
    <3>1. \A i \in 1..Len(rack) : rack[i] < 20 + (t.moves + 1)
      BY <2>3, <2>4
    <3>2. \A i, j \in 1..Len(rack) : i < j => rack[i] < rack[j]
      BY <2>3
    <3>. QED
      BY <2>1, <2>3, <3>1, <3>2 DEF Rising
<1>6. melds \in [0..(t.n - 1) -> 0..4] /\ melds \in [0..2 -> 0..4] \cup [0..3 -> 0..4] /\ melds[t.me] = 0
  <2>1. melds \in [0..(t.n - 1) -> 0..4] /\ melds[t.me] = 0
    BY <1>3, <1>4
  <2>2. t.n - 1 = 2 \/ t.n - 1 = 3
    BY <1>4
  <2>. QED
    BY <2>1, <2>2
<1>7. t2 = [t EXCEPT !.stage = "act", !.turn = oya, !.oya = oya, !.drew = TRUE, !.rack = rack,
                     !.melds = melds, !.opened = {}, !.pending = None, !.accepted = {}, !.kan = "none", !.shown = 1, !.due = 0,
                     !.offer = FALSE, !.hands = t.hands + 1, !.moves = t.moves + 1]
  BY <1>0, <1>2, <1>3 DEF Tables, Players
<1>8. t2 \in Tables
  <2>1. "act" \in Stages /\ "none" \in Kans /\ None \in 0..9 /\ {} \in SUBSET (0..3)
    BY DEF Stages, Kans, None
  <2>. QED
    <3>1. t \in Tables /\ oya \in 0..3 /\ rack \in Seq(Nat) /\ melds \in [0..2 -> 0..4] \cup [0..3 -> 0..4]
          /\ t.hands + 1 \in Nat /\ t.moves + 1 \in Nat /\ 1 \in Nat /\ 0 \in Nat
      BY <1>0, <1>4, <1>5, <1>6
    <3>. QED
      BY <1>7, <2>1, <3>1 DEF Tables
<1>9. /\ t2.accepted = {} /\ t2.score = t.score /\ t2.sticks = t.sticks /\ t2.pending = None
      /\ t2.stage = "act"
      /\ t2.turn = oya /\ t2.oya = oya /\ t2.drew /\ t2.kan = "none" /\ ~t2.offer /\ t2.rack = rack
      /\ t2.moves = t.moves + 1
      /\ SameGame(t, t2) /\ t2.melds = melds /\ t2.opened = {} /\ t2.shown = 1 /\ t2.due = 0
      /\ t2.hands = t.hands + 1
  BY <1>0, <1>7 DEF Tables, SameGame
<1>10. t.hands \in Nat /\ t.hands + 1 > 0
  BY <1>0, TableFields
<1>11. Stage(t2)
  BY <1>0, <1>9, <1>10 DEF Stage, SameGame, None
<1>12. Rack(t2)
  <2>1. Len(rack) = 13 - 3 * 0 + (IF oya = t.me THEN 1 ELSE 0)
    BY <1>5
  <2>. QED
    BY <1>5, <1>6, <1>9, <2>1 DEF Rack, SameGame
<1>13. Score(t2)
  BY <1>0, <1>9, <1>10 DEF Score, SameGame, TableOK
<1>14. TableOK(t2)
  <2>1. t.score \in [0..(t.n - 1) -> Int]
    BY <1>0 DEF TableOK
  <2>. QED
    BY <1>0, <1>4, <1>6, <1>8, <1>9, <1>11, <1>12, <1>13, <2>1, TableIs
<1>15. HasDealt(t, t2, m2)
  BY <1>0, <1>2, <1>3, <1>4, <1>9 DEF HasDealt, Mv, NoMove
<1>. QED
  BY <1>1, <1>14, <1>15

LEMMA TerminateFacts ==
  ASSUME TableOK(table), Terminate
  PROVE  TableOK(table') /\ HasTerminated(table, table', move')
<1>1. PICK t, t2, m2 : t = table /\ t2 = table' /\ m2 = move'
  OBVIOUS
<1>0. TableOK(t) /\ t \in Tables /\ t.games > 0 /\ t.stage # "over"
  BY <1>1 DEF Terminate, TableOK
<1>2. t2 = [[t EXCEPT !.stage = "over", !.offer = FALSE] EXCEPT !.moves = @ + 1] /\ m2 = Mv("terminate", 0)
  BY <1>1 DEF Terminate, Step
<1>3. t.moves \in Nat /\ t.moves + 1 \in Nat
  BY <1>0, TableFields
<1>7. t2 = [t EXCEPT !.stage = "over", !.offer = FALSE, !.moves = t.moves + 1]
  BY <1>0, <1>2 DEF Tables
<1>8. t2 \in Tables
  BY <1>0, <1>3, <1>7 DEF Tables, Stages
<1>9. /\ t2.accepted = t.accepted /\ t2.score = t.score /\ t2.sticks = t.sticks
      /\ t2.pending = t.pending /\ t2.stage = "over"
      /\ t2.turn = t.turn /\ t2.oya = t.oya /\ t2.kan = t.kan /\ ~t2.offer /\ t2.rack = t.rack
      /\ t2.moves = t.moves + 1
      /\ SameHand(t, t2) /\ t2.melds = t.melds /\ t2.opened = t.opened /\ t2.shown = t.shown
  BY <1>0, <1>7 DEF Tables, SameGame, SameHand
<1>11. Stage(t2)
  BY <1>0, <1>9 DEF Stage, SameGame, SameHand, TableOK
<1>12. Rack(t2)
  <2>1. Rising(t.rack, 20 + (t.moves + 1))
    BY <1>0, <1>3, RackLen, RisingLater
  <2>. QED
    BY <1>9, <2>1 DEF Rack
<1>13. Score(t2)
  BY <1>0, <1>9 DEF Score, SameGame, SameHand, TableOK
<1>14. TableOK(t2)
  <2>1. t.score \in [0..(t.n - 1) -> Int] /\ t.melds \in [0..(t.n - 1) -> 0..4] /\ t.turn \in 0..(t.n - 1)
        /\ t.oya \in 0..(t.n - 1) /\ t.accepted \subseteq 0..(t.n - 1)
        /\ t.opened \subseteq 0..(t.n - 1)
    BY <1>0, TableFields DEF TableOK
  <2>2. SameGame(t, t2)
    BY <1>9 DEF SameHand
  <2>. QED
    BY <1>0, <1>8, <1>9, <1>11, <1>12, <1>13, <2>1, <2>2, TableIs
<1>15. HasTerminated(t, t2, m2)
  BY <1>0, <1>2, <1>9 DEF HasTerminated, Mv, NoMove
<1>. QED
  BY <1>1, <1>14, <1>15

(* ------ the end of a hand ------------------------------------------------ *)

LEMMA PointsSum ==
  ASSUME NEW n \in 3..4, NEW x \in [0..(n - 1) -> Int], NEW y \in [0..(n - 1) -> Int]
  PROVE  /\ [a \in 0..(n - 1) |-> x[a] + y[a]] \in [0..(n - 1) -> Int]
         /\ Points(n, [a \in 0..(n - 1) |-> x[a] + y[a]]) = Points(n, x) + Points(n, y)
         /\ Points(n, x) \in Int /\ Points(n, y) \in Int
<1>1. CASE n = 3
  <2>1. n - 1 = 2
    BY <1>1
  <2>2. x[0] \in Int /\ x[1] \in Int /\ x[2] \in Int /\ y[0] \in Int /\ y[1] \in Int /\ y[2] \in Int
    BY <2>1
  <2>. QED
    BY <1>1, <2>1, <2>2 DEF Points
<1>2. CASE n = 4
  <2>1. n - 1 = 3
    BY <1>2
  <2>2. /\ x[0] \in Int /\ x[1] \in Int /\ x[2] \in Int /\ x[3] \in Int
        /\ y[0] \in Int /\ y[1] \in Int /\ y[2] \in Int /\ y[3] \in Int
    BY <2>1
  <2>. QED
    BY <1>2, <2>1, <2>2 DEF Points
<1>. QED
  BY <1>1, <1>2

LEMMA LeaderOf ==
  ASSUME NEW t, t.n \in 3..4, t.score \in [0..(t.n - 1) -> Int]
  PROVE  IsLeader(t.n, t.score, Leader(t))
<1>1. PICK n, sc : n = t.n /\ sc = t.score
  OBVIOUS
<1>2. n \in 3..4 /\ sc \in [0..(n - 1) -> Int]
  BY <1>1
<1>3. \E a \in 0..(n - 1) : \A b \in 0..(n - 1) : Ahead(sc, a, b)
  <2>1. CASE n = 3
    <3>1. n - 1 = 2 /\ \A b \in 0..2 : b = 0 \/ b = 1 \/ b = 2
      BY <2>1
    <3>2. PICK x, y, z : x = sc[0] /\ y = sc[1] /\ z = sc[2]
      OBVIOUS
    <3>3. x \in Int /\ y \in Int /\ z \in Int
      BY <1>2, <3>1, <3>2
    <3>4. CASE x >= y /\ x >= z
      <4>1. \A b \in 0..2 : Ahead(sc, 0, b)
        BY <3>1, <3>2, <3>3, <3>4 DEF Ahead
      <4>2. 0 \in 0..2
        OBVIOUS
      <4>. QED
        BY <3>1, <4>1, <4>2, Zenon
    <3>5. CASE y > x /\ y >= z
      <4>1. \A b \in 0..2 : Ahead(sc, 1, b)
        BY <3>1, <3>2, <3>3, <3>5 DEF Ahead
      <4>2. 1 \in 0..2
        OBVIOUS
      <4>. QED
        BY <3>1, <4>1, <4>2, Zenon
    <3>6. CASE z > x /\ z > y
      <4>1. \A b \in 0..2 : Ahead(sc, 2, b)
        BY <3>1, <3>2, <3>3, <3>6 DEF Ahead
      <4>2. 2 \in 0..2
        OBVIOUS
      <4>. QED
        BY <3>1, <4>1, <4>2, Zenon
    <3>. QED
      BY <3>3, <3>4, <3>5, <3>6
  <2>2. CASE n = 4
    <3>1. n - 1 = 3 /\ \A b \in 0..3 : b = 0 \/ b = 1 \/ b = 2 \/ b = 3
      BY <2>2
    <3>2. PICK x, y, z, w : x = sc[0] /\ y = sc[1] /\ z = sc[2] /\ w = sc[3]
      OBVIOUS
    <3>3. x \in Int /\ y \in Int /\ z \in Int /\ w \in Int
      BY <1>2, <3>1, <3>2
    <3>4. CASE x >= y /\ x >= z /\ x >= w
      <4>1. \A b \in 0..3 : Ahead(sc, 0, b)
        BY <3>1, <3>2, <3>3, <3>4 DEF Ahead
      <4>2. 0 \in 0..3
        OBVIOUS
      <4>. QED
        BY <3>1, <4>1, <4>2, Zenon
    <3>5. CASE y > x /\ y >= z /\ y >= w
      <4>1. \A b \in 0..3 : Ahead(sc, 1, b)
        BY <3>1, <3>2, <3>3, <3>5 DEF Ahead
      <4>2. 1 \in 0..3
        OBVIOUS
      <4>. QED
        BY <3>1, <4>1, <4>2, Zenon
    <3>6. CASE z > x /\ z > y /\ z >= w
      <4>1. \A b \in 0..3 : Ahead(sc, 2, b)
        BY <3>1, <3>2, <3>3, <3>6 DEF Ahead
      <4>2. 2 \in 0..3
        OBVIOUS
      <4>. QED
        BY <3>1, <4>1, <4>2, Zenon
    <3>7. CASE w > x /\ w > y /\ w > z
      <4>1. \A b \in 0..3 : Ahead(sc, 3, b)
        BY <3>1, <3>2, <3>3, <3>7 DEF Ahead
      <4>2. 3 \in 0..3
        OBVIOUS
      <4>. QED
        BY <3>1, <4>1, <4>2, Zenon
    <3>. QED
      BY <3>3, <3>4, <3>5, <3>6, <3>7
  <2>. QED
    BY <1>2, <2>1, <2>2
<1>4. PICK l : l = Leader(t)
  OBVIOUS
<1>5. l \in 0..(n - 1) /\ \A b \in 0..(n - 1) : Ahead(sc, l, b)
  BY <1>1, <1>3, <1>4 DEF Leader, Players
<1>6. \A a \in 0..(n - 1) : sc[a] \in Int
  BY <1>2
<1>7. ASSUME NEW c \in 0..(n - 1)
      PROVE  sc[l] >= sc[c] /\ (sc[l] = sc[c] => l <= c)
  <2>1. Ahead(sc, l, c) /\ sc[l] \in Int /\ sc[c] \in Int
    BY <1>5, <1>6
  <2>. QED
    BY <2>1 DEF Ahead
<1>. QED
  BY <1>1, <1>4, <1>5, <1>7 DEF IsLeader

LEMMA SettledOK ==
  ASSUME NEW t, TableOK(t), t.stage \in {"act", "open"}
  PROVE  /\ TableOK(Settled(t)) /\ SameHand(t, Settled(t))
         /\ Settled(t).stage = t.stage /\ Settled(t).turn = t.turn /\ Settled(t).drew = t.drew
         /\ Settled(t).pending = None /\ Settled(t).rack = t.rack /\ Settled(t).melds = t.melds
         /\ Settled(t).shown = t.shown /\ Settled(t).due = t.due /\ Settled(t).kan = t.kan
         /\ Settled(t).offer = t.offer /\ Settled(t).moves = t.moves
<1>1. PICK acc, sc, st : SettledAs(t, acc, sc, st)
  <2>1. t.pending # None => t.pending = t.turn
    BY DEF TableOK, Stage
  <2>. QED
    BY <2>1, SettledFacts
<1>2. PICK s : s = Settled(t)
  OBVIOUS
<1>3. t \in Tables /\ s = [t EXCEPT !.accepted = acc, !.score = sc, !.sticks = st, !.pending = None]
  BY <1>1, <1>2 DEF SettledAs, TableOK
<1>4. /\ s.stage = t.stage /\ s.turn = t.turn /\ s.drew = t.drew /\ s.rack = t.rack
      /\ s.melds = t.melds
      /\ s.shown = t.shown /\ s.due = t.due /\ s.kan = t.kan /\ s.offer = t.offer
      /\ s.moves = t.moves
      /\ s.opened = t.opened /\ s.pending = None /\ s.accepted = acc /\ s.score = sc
      /\ s.sticks = st
      /\ SameHand(t, s)
  BY <1>3 DEF Tables, SameHand, SameGame
<1>5. s \in Tables
  <2>1. acc \in SUBSET (0..3) /\ st \in Nat /\ sc \in [0..2 -> Int] \cup [0..3 -> Int] /\ None \in 0..9
    BY <1>1 DEF SettledAs, None
  <2>. QED
    BY <1>3, <2>1 DEF Tables
<1>6. Stage(s)
  <2>1. None \notin acc /\ Stage(t)
    BY <1>1 DEF SettledAs, None, TableOK
  <2>. QED
    BY <1>4, <2>1 DEF Stage, SameHand, SameGame
<1>7. Rack(s)
  BY <1>4 DEF TableOK, Rack, SameHand, SameGame
<1>8. Score(s)
  <2>1. t.hands > 0 /\ t.hands \in Nat
    BY TableFields DEF TableOK, Stage
  <2>. QED
    BY <1>1, <1>4, <2>1 DEF Score, SettledAs, SameHand, SameGame
<1>9. TableOK(s)
  <2>1. t.melds \in [0..(t.n - 1) -> 0..4] /\ t.opened \subseteq 0..(t.n - 1) /\ t.oya \in 0..(t.n - 1)
        /\ t.turn \in 0..(t.n - 1)
    BY TableFields DEF TableOK
  <2>2. SameGame(t, s) /\ s.oya = t.oya
    BY <1>4 DEF SameHand
  <2>3. sc \in [0..(t.n - 1) -> Int] /\ acc \subseteq 0..(t.n - 1)
    BY <1>1 DEF SettledAs
  <2>. QED
    BY <1>4, <1>5, <1>6, <1>7, <1>8, <2>1, <2>2, <2>3, TableIs
<1>. QED
  BY <1>2, <1>4, <1>9

LEMMA EndsFacts ==
  ASSUME NEW t, TableOK(t), t.stage \in {"act", "open"}, NEW m, NEW final \in BOOLEAN,
         Ends(t, m, final),
         NEW total, total = InAll(t, m.deltas), total \in [0..(t.n - 1) -> Int],
         Points(t.n, total) = IF m.kind = "win" THEN t.sticks ELSE 0
  PROVE  /\ TableOK(table') /\ SameHand(t, table')
         /\ table'.stage = (IF final THEN "over" ELSE "between") /\ ~table'.offer
         /\ Paid(t, table', total, final) /\ move' = [m EXCEPT !.final = final, !.total = total]
<1>1. PICK t2, n, old, st : t2 = table' /\ n = t.n /\ old = t.score /\ st = t.sticks
  OBVIOUS
<1>0. /\ t \in Tables /\ n \in 3..4 /\ old \in [0..(n - 1) -> Int] /\ st \in Nat
      /\ Points(n, old) + st = FullScore(n)
      /\ t.hands > 0 /\ t.hands \in Nat /\ t.games > 0 /\ t.moves \in Nat /\ Points(n, old) \in Int
      /\ FullScore(n) \in Int
  <2>1. /\ t \in Tables /\ n \in 3..4 /\ old \in [0..(n - 1) -> Int] /\ st \in Nat
        /\ Points(n, old) + st = FullScore(n)
        /\ t.hands > 0 /\ t.hands \in Nat /\ t.games > 0 /\ t.moves \in Nat
    BY <1>1, TableFields DEF TableOK, Score, Stage
  <2>2. 0 \in 0..(n - 1) /\ 0 \in Int
    BY <2>1
  <2>3. Points(n, old) \in Int /\ FullScore(n) \in Int
    BY <2>1, <2>2, PointsOf
  <2>. QED
    BY <2>1, <2>3
<1>2. PICK sc, left, stage : /\ sc = [a \in 0..(n - 1) |-> old[a] + total[a]]
                             /\ left = IF m.kind = "win" THEN 0 ELSE st
                             /\ stage = IF final THEN "over" ELSE "between"
  OBVIOUS
<1>3. PICK paid : paid = [t EXCEPT !.stage = stage, !.offer = FALSE, !.pending = None, !.score = sc, !.sticks = left]
  OBVIOUS
<1>4. /\ t2 = [(IF final THEN [paid EXCEPT !.score[Leader(paid)] = @ + paid.sticks, !.sticks = 0] ELSE paid) EXCEPT !.moves = @ + 1]
      /\ move' = [m EXCEPT !.final = final, !.total = total]
  <2>1. [a \in Players(t) |-> t.score[a] + InAll(t, m.deltas)[a]] = sc
    BY <1>1, <1>2 DEF Players
  <2>2. [t EXCEPT !.stage = IF final THEN "over" ELSE "between", !.offer = FALSE, !.pending = None,
                  !.score = [a \in Players(t) |-> t.score[a] + InAll(t, m.deltas)[a]],
                  !.sticks = IF m.kind = "win" THEN 0 ELSE @] = paid
    BY <1>1, <1>2, <1>3, <2>1
  <2>3. Step(IF final THEN [paid EXCEPT !.score[Leader(paid)] = @ + paid.sticks, !.sticks = 0] ELSE paid,
             [m EXCEPT !.final = final, !.total = InAll(t, m.deltas)])
    BY <2>2 DEF Ends
  <2>. QED
    BY <1>1, <2>3 DEF Step
<1>5. /\ sc \in [0..(n - 1) -> Int] /\ left \in Nat /\ Points(n, sc) + left = FullScore(n)
  <2>1. Points(n, sc) = Points(n, old) + Points(n, total) /\ sc \in [0..(n - 1) -> Int] /\ Points(n, total) \in Int
    <3>1. total \in [0..(n - 1) -> Int]
      BY <1>1
    <3>. QED
      BY <1>0, <1>2, <3>1, PointsSum
  <2>2. Points(n, total) = IF m.kind = "win" THEN st ELSE 0
    BY <1>1
  <2>. QED
    BY <1>0, <1>2, <2>1, <2>2
<1>6. paid.n = n /\ paid.score = sc /\ paid.sticks = left /\ paid.moves = t.moves
  BY <1>0, <1>1, <1>3 DEF Tables
<1>7. PICK a, sc2, left2 : /\ a = Leader(paid)
                           /\ sc2 = IF final THEN [sc EXCEPT ![a] = @ + left] ELSE sc
                           /\ left2 = IF final THEN 0 ELSE left
  OBVIOUS
<1>8. IsLeader(n, sc, a)
  BY <1>0, <1>5, <1>6, <1>7, LeaderOf
<1>9. sc2 \in [0..(n - 1) -> Int] /\ left2 \in Nat /\ Points(n, sc2) + left2 = FullScore(n)
  <2>1. a \in 0..(n - 1) /\ left \in Int
    BY <1>5, <1>8 DEF IsLeader
  <2>2. CASE final
    <3>1. sc2 = [sc EXCEPT ![a] = sc[a] + left] /\ left2 = 0
      BY <1>7, <2>2
    <3>2. Points(n, sc2) = Points(n, sc) + left /\ Points(n, sc) \in Int
      BY <1>0, <1>5, <2>1, <3>1, PointsOf
    <3>3. sc2 \in [0..(n - 1) -> Int]
      BY <1>5, <2>1, <3>1
    <3>4. \A x, y, z, f \in Int : x = y + z /\ y + z = f => x + 0 = f
      OBVIOUS
    <3>5. Points(n, sc2) + left2 = FullScore(n)
      <4>1. Points(n, sc2) \in Int /\ left \in Int
        BY <2>1, <3>2
      <4>. QED
        BY <1>0, <1>5, <3>1, <3>2, <3>4, <4>1
    <3>. QED
      BY <3>1, <3>3, <3>5
  <2>3. CASE ~final
    BY <1>5, <1>7, <2>3
  <2>. QED
    BY <2>2, <2>3
<1>10. t2 = [t EXCEPT !.stage = stage, !.offer = FALSE, !.pending = None, !.score = sc2, !.sticks = left2, !.moves = t.moves + 1]
  <2>1. CASE final
    <3>1. [paid EXCEPT !.score[Leader(paid)] = @ + paid.sticks, !.sticks = 0] = [paid EXCEPT !.score = sc2, !.sticks = left2]
      BY <1>6, <1>7, <2>1
    <3>. QED
      BY <1>0, <1>3, <1>4, <2>1, <3>1 DEF Tables
  <2>2. CASE ~final
    BY <1>0, <1>3, <1>4, <1>7, <2>2 DEF Tables
  <2>. QED
    BY <2>1, <2>2
<1>11. /\ t2.accepted = t.accepted /\ t2.score = sc2 /\ t2.sticks = left2 /\ t2.pending = None
       /\ t2.stage = stage
       /\ t2.turn = t.turn /\ t2.oya = t.oya /\ t2.kan = t.kan /\ ~t2.offer /\ t2.rack = t.rack
       /\ t2.moves = t.moves + 1
       /\ SameHand(t, t2) /\ t2.melds = t.melds /\ t2.opened = t.opened /\ t2.shown = t.shown
       /\ t2.drew = t.drew
  BY <1>0, <1>10 DEF Tables, SameGame, SameHand
<1>12. t2 \in Tables
  <2>1. sc2 \in [0..2 -> Int] \cup [0..3 -> Int] /\ left2 \in Nat
    BY <1>1, <1>9, ScoresOf
  <2>2. stage \in Stages /\ None \in 0..9 /\ t.moves + 1 \in Nat
    BY <1>0, <1>2 DEF Stages, None
  <2>. QED
    BY <1>0, <1>10, <2>1, <2>2 DEF Tables
<1>13. Stage(t2)
  <2>1. t.shown >= 1 /\ None \notin t.accepted
    <3>1. t.accepted \in SUBSET (0..3) /\ None \notin 0..3
      BY TableFields DEF None
    <3>. QED
      BY <3>1 DEF TableOK, Stage
  <2>. QED
    BY <1>0, <1>2, <1>11, <2>1 DEF Stage, SameHand, SameGame
<1>14. Rack(t2)
  <2>1. Rising(t.rack, 20 + (t.moves + 1))
    BY <1>0, RackLen, RisingLater
  <2>. QED
    BY <1>2, <1>11, <2>1 DEF Rack
<1>15. Score(t2)
  BY <1>0, <1>1, <1>9, <1>11 DEF Score, SameHand, SameGame
<1>16. TableOK(t2)
  <2>1. t.melds \in [0..(t.n - 1) -> 0..4] /\ t.opened \subseteq 0..(t.n - 1) /\ t.oya \in 0..(t.n - 1)
        /\ t.turn \in 0..(t.n - 1) /\ t.accepted \subseteq 0..(t.n - 1)
    BY TableFields DEF TableOK
  <2>2. SameGame(t, t2)
    BY <1>11 DEF SameHand
  <2>. QED
    BY <1>1, <1>9, <1>11, <1>12, <1>13, <1>14, <1>15, <2>1, <2>2, TableIs
<1>17. Paid(t, t2, total, final)
  <2>1. [x \in 0..(t.n - 1) |-> t.score[x] + total[x]] = sc
    BY <1>1, <1>2
  <2>2. a \in 0..(n - 1)
    BY <1>8 DEF IsLeader
  <2>3. ~final => t2.score = sc
    BY <1>7, <1>11
  <2>4. final => t2.score = [sc EXCEPT ![a] = @ + left]
    BY <1>7, <1>11
  <2>. QED
    BY <1>1, <1>5, <1>8, <2>1, <2>2, <2>3, <2>4 DEF Paid
<1>. QED
  BY <1>1, <1>2, <1>4, <1>11, <1>16, <1>17

GainAs(n, w, payers, each, st) ==
  [a \in 0..(n - 1) |-> IF a = w THEN each * Cardinality(payers) + st ELSE IF a \in payers THEN -each ELSE 0]

Pay(n, w, payers) ==
  \/ payers = 0..(n - 1) \ {w}
  \/ \E p \in 0..(n - 1) : p # w /\ payers = {p}

(* What the winner gets is what the others pay, and the sticks.              *)
LEMMA GainOf ==
  ASSUME NEW n, NEW w, NEW payers, NEW each, NEW st,
         n \in 3..4, w \in 0..(n - 1), each \in Nat, st \in Int, Pay(n, w, payers)
  PROVE  GainAs(n, w, payers, each, st) \in [0..(n - 1) -> Int] /\ Points(n, GainAs(n, w, payers, each, st)) = st
<1>3. PICK g : g = GainAs(n, w, payers, each, st)
  OBVIOUS
<1>0. g = [a \in 0..(n - 1) |-> IF a = w THEN each * Cardinality(payers) + st ELSE IF a \in payers THEN -each ELSE 0]
  BY <1>3 DEF GainAs
<1>1. CASE payers = 0..(n - 1) \ {w}
  <2>1. Cardinality(payers) = n - 1
    <3>1. IsFiniteSet(0..(n - 1)) /\ Cardinality(0..(n - 1)) = n
      <4>1. n - 1 \in Int /\ 0 \in Int /\ ~(0 > n - 1) /\ (n - 1) - 0 + 1 = n
        OBVIOUS
      <4>2. IsFiniteSet(0..(n - 1)) /\ Cardinality(0..(n - 1)) = IF 0 > n - 1 THEN 0 ELSE (n - 1) - 0 + 1
        BY <4>1, FS_Interval
      <4>. QED
        BY <4>1, <4>2
    <3>2. Cardinality(0..(n - 1) \ {w}) = Cardinality(0..(n - 1)) - 1
      BY <3>1, FS_RemoveElement
    <3>. QED
      BY <1>1, <3>1, <3>2
  <2>2. \A a \in 0..(n - 1) : g[a] = IF a = w THEN each * (n - 1) + st ELSE -each
    BY <1>0, <1>1, <2>1
  <2>3. each * (n - 1) + st \in Int /\ -each \in Int
    OBVIOUS
  <2>4. g \in [0..(n - 1) -> Int]
    BY <1>0, <2>1, <2>3
  <2>5. CASE n = 3
    <3>1. each * (n - 1) = each + each
      BY <2>5
    <3>2. w \in 0..2 /\ \A a \in 0..2 : g[a] = IF a = w THEN each + each + st ELSE -each
      BY <2>2, <2>5, <3>1
    <3>3. /\ g[0] = IF 0 = w THEN each + each + st ELSE -each
          /\ g[1] = IF 1 = w THEN each + each + st ELSE -each
          /\ g[2] = IF 2 = w THEN each + each + st ELSE -each
      BY <3>2
    <3>4. g[0] + g[1] + g[2] = st
      BY <3>2, <3>3
    <3>5. g[0] + g[1] + g[2] + 0 = st
      <4>1. g[0] \in Int /\ g[1] \in Int /\ g[2] \in Int
        BY <2>4, <2>5
      <4>. QED
        BY <3>4, <4>1
    <3>6. Points(n, g) = g[0] + g[1] + g[2] + 0
      BY <2>5 DEF Points
    <3>. QED
      BY <1>3, <2>4, <3>5, <3>6
  <2>6. CASE n = 4
    <3>1. each * (n - 1) = each + each + each
      BY <2>6
    <3>2. w \in 0..3 /\ \A a \in 0..3 : g[a] = IF a = w THEN each + each + each + st ELSE -each
      BY <2>2, <2>6, <3>1
    <3>3. /\ g[0] = IF 0 = w THEN each + each + each + st ELSE -each
          /\ g[1] = IF 1 = w THEN each + each + each + st ELSE -each
          /\ g[2] = IF 2 = w THEN each + each + each + st ELSE -each
          /\ g[3] = IF 3 = w THEN each + each + each + st ELSE -each
      BY <3>2
    <3>4. g[0] + g[1] + g[2] + g[3] = st
      BY <3>2, <3>3
    <3>5. g[0] + g[1] + g[2] + g[3] = st
      <4>1. g[0] \in Int /\ g[1] \in Int /\ g[2] \in Int
        BY <2>4, <2>6
      <4>. QED
        BY <3>4, <4>1
    <3>6. Points(n, g) = g[0] + g[1] + g[2] + g[3]
      BY <2>6 DEF Points
    <3>. QED
      BY <1>3, <2>4, <3>5, <3>6
  <2>. QED
    BY <2>5, <2>6
<1>2. CASE \E p \in 0..(n - 1) : p # w /\ payers = {p}
  <2>0. PICK p \in 0..(n - 1) : p # w /\ payers = {p}
    BY <1>2
  <2>1. each * Cardinality(payers) = each
    <3>1. Cardinality({p}) = 1
      BY FS_Singleton
    <3>. QED
      BY <2>0, <3>1
  <2>2. \A a \in 0..(n - 1) : g[a] = IF a = w THEN each + st ELSE IF a = p THEN -each ELSE 0
    BY <1>0, <2>0, <2>1
  <2>4. g \in [0..(n - 1) -> Int]
    BY <1>0, <2>1
  <2>3. each \in Int /\ each >= 0 /\ p # w
    BY <2>0
  <2>5. CASE n = 3
    <3>2. w \in 0..2 /\ p \in 0..2 /\ \A a \in 0..2 : g[a] = IF a = w THEN each + st ELSE IF a = p THEN -each ELSE 0
      BY <2>2, <2>5
    <3>3. /\ g[0] = IF 0 = w THEN each + st ELSE IF 0 = p THEN -each ELSE 0
          /\ g[1] = IF 1 = w THEN each + st ELSE IF 1 = p THEN -each ELSE 0
          /\ g[2] = IF 2 = w THEN each + st ELSE IF 2 = p THEN -each ELSE 0
      BY <3>2
    <3>4. g[0] + g[1] + g[2] = st
      BY <2>3, <3>2, <3>3
    <3>5. g[0] + g[1] + g[2] + 0 = st
      <4>1. g[0] \in Int /\ g[1] \in Int /\ g[2] \in Int
        BY <2>4, <2>5
      <4>. QED
        BY <3>4, <4>1
    <3>6. Points(n, g) = g[0] + g[1] + g[2] + 0
      BY <2>5 DEF Points
    <3>. QED
      BY <1>3, <2>4, <3>5, <3>6
  <2>6. CASE n = 4
    <3>2. w \in 0..3 /\ p \in 0..3 /\ \A a \in 0..3 : g[a] = IF a = w THEN each + st ELSE IF a = p THEN -each ELSE 0
      BY <2>2, <2>6
    <3>3. /\ g[0] = IF 0 = w THEN each + st ELSE IF 0 = p THEN -each ELSE 0
          /\ g[1] = IF 1 = w THEN each + st ELSE IF 1 = p THEN -each ELSE 0
          /\ g[2] = IF 2 = w THEN each + st ELSE IF 2 = p THEN -each ELSE 0
          /\ g[3] = IF 3 = w THEN each + st ELSE IF 3 = p THEN -each ELSE 0
      BY <3>2
    <3>4. g[0] + g[1] + g[2] + g[3] = st
      <4>1. p = 0 \/ p = 1 \/ p = 2 \/ p = 3
        BY <3>2
      <4>. QED
        BY <2>0, <3>2, <3>3, <4>1, SMTT(60)
    <3>5. g[0] + g[1] + g[2] + g[3] = st
      <4>1. g[0] \in Int /\ g[1] \in Int /\ g[2] \in Int
        BY <2>4, <2>6
      <4>. QED
        BY <3>4, <4>1
    <3>6. Points(n, g) = g[0] + g[1] + g[2] + g[3]
      BY <2>6 DEF Points
    <3>. QED
      BY <1>3, <2>4, <3>5, <3>6
  <2>. QED
    BY <2>5, <2>6
<1>. QED
  BY <1>1, <1>2, <1>3 DEF Pay

LEMMA GainIs ==
  ASSUME NEW t, TableOK(t), NEW w \in 0..(t.n - 1), NEW payers, NEW each \in Nat,
         NEW first \in BOOLEAN,
         Pay(t.n, w, payers)
  PROVE  /\ Gain(t, w, payers, each, first) \in [0..(t.n - 1) -> Int]
         /\ Points(t.n, Gain(t, w, payers, each, first)) = IF first THEN t.sticks ELSE 0
<1>1. PICK n, st, g : n = t.n /\ st = (IF first THEN t.sticks ELSE 0) /\ g = Gain(t, w, payers, each, first)
  OBVIOUS
<1>2. n \in 3..4 /\ st \in Int /\ w \in 0..(n - 1)
  BY <1>1, TableFields
<1>3. g = GainAs(n, w, payers, each, st)
  BY <1>1 DEF Gain, Players, GainAs
<1>4. Pay(n, w, payers)
  BY <1>1
<1>5. g \in [0..(n - 1) -> Int] /\ Points(n, g) = st
  <2>1. n \in 3..4 /\ st \in Int
    BY <1>2
  <2>2. w \in 0..(n - 1)
    BY <1>2
  <2>3. PICK h : h = GainAs(n, w, payers, each, st)
    OBVIOUS
  <2>4. h \in [0..(n - 1) -> Int] /\ Points(n, h) = st
    BY <2>1, <2>2, <2>3, <1>4, GainOf
  <2>. QED
    BY <2>3, <2>4, <1>3
<1>. QED
  BY <1>1, <1>5

LEMMA TsumoFacts ==
  ASSUME TableOK(table), Tsumo
  PROVE  TableOK(table') /\ HasWon(table, table', move')
<1>1. PICK t : t = table
  OBVIOUS
<1>0. TableOK(t) /\ t.stage = "act" /\ t.drew /\ t.turn \in 0..(t.n - 1) /\ t.n \in 3..4
  BY <1>1, TableFields DEF Tsumo
<1>2. PICK g : g = Gain(t, t.turn, Players(t) \ {t.turn}, 2, TRUE)
  OBVIOUS
<1>3. PICK m : m = [Mv("win", t.turn) EXCEPT !.winners = <<t.turn>>, !.from = t.turn, !.deltas = <<g>>]
  OBVIOUS
<1>4. PICK final \in BOOLEAN : Ends(t, m, final)
  <2>1. PICK final \in BOOLEAN : Ends(table, [Mv("win", table.turn) EXCEPT !.winners = <<table.turn>>, !.from = table.turn,
                      !.deltas = <<Gain(table, table.turn, Players(table) \ {table.turn}, 2, TRUE)>>], final)
    BY DEF Tsumo
  <2>. QED
    BY <1>1, <1>2, <1>3, <2>1
<1>5. g \in [0..(t.n - 1) -> Int] /\ Points(t.n, g) = t.sticks
  <2>1. g = Gain(t, t.turn, 0..(t.n - 1) \ {t.turn}, 2, TRUE)
    BY <1>2 DEF Players
  <2>2. Pay(t.n, t.turn, 0..(t.n - 1) \ {t.turn}) /\ 2 \in Nat /\ TRUE \in BOOLEAN
    BY DEF Pay
  <2>3. g \in [0..(t.n - 1) -> Int] /\ Points(t.n, g) = IF TRUE THEN t.sticks ELSE 0
    BY <1>0, <2>1, <2>2, GainIs
  <2>. QED
    BY <2>3
<1>6. /\ m.kind = "win" /\ m.seat = t.turn /\ m.winners = <<t.turn>> /\ m.from = t.turn
      /\ m.deltas = <<g>>
      /\ m.call = "none" /\ m.voided = FALSE
  BY <1>3 DEF Mv, NoMove
<1>7. InAll(t, m.deltas) = g
  BY <1>5, <1>6 DEF InAll, Players
<1>8. /\ TableOK(table') /\ SameHand(t, table')
      /\ table'.stage = (IF final THEN "over" ELSE "between") /\ ~table'.offer
      /\ Paid(t, table', g, final) /\ move' = [m EXCEPT !.final = final, !.total = g]
  <2>1. t.stage \in {"act", "open"} /\ Points(t.n, g) = (IF m.kind = "win" THEN t.sticks ELSE 0) /\ g = InAll(t, m.deltas)
    BY <1>0, <1>5, <1>6, <1>7
  <2>2. TableOK(t) /\ g \in [0..(t.n - 1) -> Int]
    BY <1>0, <1>5
  <2>. QED
    BY <1>4, <2>1, <2>2, EndsFacts, Zenon
<1>9. PICK t2, m2 : t2 = table' /\ m2 = move'
  OBVIOUS
<1>10. /\ m2.kind = "win" /\ m2.seat = t.turn /\ m2.winners = <<t.turn>> /\ m2.from = t.turn
       /\ m2.deltas = <<g>>
       /\ m2.call = "none" /\ ~m2.voided /\ m2.final = final /\ m2.total = g
  BY <1>3, <1>8, <1>9 DEF Mv, NoMove
<1>11. <<t.turn>> \in Seq(0..(t.n - 1)) /\ Len(<<t.turn>>) = 1 /\ Len(<<g>>) = 1 /\ <<g>>[1] = g
  BY <1>0
<1>12. HasWon(t, t2, m2)
  <2>1. HasEnded(t, t2, m2) /\ HasPaid(t, t2, m2)
    BY <1>0, <1>8, <1>9, <1>10 DEF HasEnded, HasPaid
  <2>2. \A i \in 1..Len(m2.deltas) : m2.deltas[i] \in [0..(t.n - 1) -> Int]
    BY <1>5, <1>10, <1>11
  <2>3. m2.total = InAll(t, m2.deltas)
    BY <1>6, <1>7, <1>10
  <2>. QED
    BY <1>0, <1>10, <1>11, <2>1, <2>2, <2>3 DEF HasWon
<1>. QED
  BY <1>1, <1>8, <1>9, <1>12

LEMMA RonFacts ==
  ASSUME TableOK(table), Ron
  PROVE  TableOK(table') /\ HasWon(table, table', move')
<1>1. PICK t : t = table
  OBVIOUS
<1>0. TableOK(t) /\ t.stage = "open" /\ t.kan \in {"none", "kakan", "kita"} /\ t.turn \in 0..(t.n - 1) /\ t.n \in 3..4
  BY <1>1, TableFields DEF Ron
<1>14. PICK a \in Players(table) \ {table.turn}, b \in Players(table) \ {table.turn}, final \in BOOLEAN :
          Ends(table, [Mv("win", table.turn) EXCEPT !.winners = IF a = b THEN <<a>> ELSE <<a, b>>, !.from = table.turn, !.call = table.kan,
                         !.voided = table.pending # None,
                         !.deltas = [i \in 1..Len(IF a = b THEN <<a>> ELSE <<a, b>>) |->
                                       Gain(table, (IF a = b THEN <<a>> ELSE <<a, b>>)[i], {table.turn}, 4, i = 1)]], final)
  BY Zenon DEF Ron
<1>15. PICK ws, ds : /\ ws = IF a = b THEN <<a>> ELSE <<a, b>>
                     /\ ds = [i \in 1..Len(ws) |-> Gain(t, ws[i], {t.turn}, 4, i = 1)]
  OBVIOUS
<1>16. PICK m : m = [Mv("win", t.turn) EXCEPT !.winners = ws, !.from = t.turn, !.call = t.kan,
                         !.voided = t.pending # None, !.deltas = ds]
  OBVIOUS
<1>2. /\ ws = IF a = b THEN <<a>> ELSE <<a, b>>
      /\ ds = [i \in 1..Len(ws) |-> Gain(t, ws[i], {t.turn}, 4, i = 1)]
      /\ m = [Mv("win", t.turn) EXCEPT !.winners = ws, !.from = t.turn, !.call = t.kan,
                         !.voided = t.pending # None, !.deltas = ds]
      /\ Ends(t, m, final)
      /\ a \in 0..(t.n - 1) \ {t.turn} /\ b \in 0..(t.n - 1) \ {t.turn}
  BY <1>1, <1>14, <1>15, <1>16 DEF Players
<1>3. PICK g, h : g = Gain(t, a, {t.turn}, 4, TRUE) /\ h = Gain(t, b, {t.turn}, 4, FALSE)
  OBVIOUS
<1>4. g \in [0..(t.n - 1) -> Int] /\ Points(t.n, g) = t.sticks /\ h \in [0..(t.n - 1) -> Int] /\ Points(t.n, h) = 0
  <2>1. Pay(t.n, a, {t.turn}) /\ Pay(t.n, b, {t.turn}) /\ 4 \in Nat /\ TRUE \in BOOLEAN /\ FALSE \in BOOLEAN
    BY <1>0, <1>2 DEF Pay
  <2>2. g \in [0..(t.n - 1) -> Int] /\ Points(t.n, g) = IF TRUE THEN t.sticks ELSE 0
    BY <1>0, <1>2, <1>3, <2>1, GainIs
  <2>3. h \in [0..(t.n - 1) -> Int] /\ Points(t.n, h) = IF FALSE THEN t.sticks ELSE 0
    BY <1>0, <1>2, <1>3, <2>1, GainIs
  <2>. QED
    BY <2>2, <2>3
<1>5. /\ ws \in Seq(0..(t.n - 1)) /\ Len(ws) = (IF a = b THEN 1 ELSE 2) /\ ws[1] = a
      /\ (a # b => ws[2] = b)
      /\ \A i \in 1..Len(ws) : ws[i] # t.turn
  <2>1. CASE a = b
    <3>1. ws = <<a>> /\ a \in 0..(t.n - 1) /\ a # t.turn
      BY <1>2, <2>1
    <3>. QED
      BY <2>1, <3>1
  <2>2. CASE a # b
    <3>1. ws = <<a, b>> /\ a \in 0..(t.n - 1) /\ b \in 0..(t.n - 1) /\ a # t.turn /\ b # t.turn
      BY <1>2, <2>2
    <3>. QED
      BY <2>2, <3>1
  <2>. QED
    BY <2>1, <2>2
<1>6. /\ Len(ds) = Len(ws) /\ ds[1] = g /\ (a # b => ds[2] = h)
      /\ \A i \in 1..Len(ds) : ds[i] \in [0..(t.n - 1) -> Int]
  <2>1. CASE a = b
    <3>1. ds = [i \in 1..1 |-> Gain(t, ws[i], {t.turn}, 4, i = 1)]
      BY <1>2, <1>5, <2>1
    <3>2. Len(ds) = 1 /\ ds[1] = Gain(t, ws[1], {t.turn}, 4, 1 = 1)
      BY <3>1
    <3>3. ds[1] = g
      BY <1>3, <1>5, <3>2
    <3>. QED
      BY <1>4, <1>5, <2>1, <3>2, <3>3
  <2>2. CASE a # b
    <3>1. ds = [i \in 1..2 |-> Gain(t, ws[i], {t.turn}, 4, i = 1)]
      BY <1>2, <1>5, <2>2
    <3>2. Len(ds) = 2 /\ ds[1] = Gain(t, ws[1], {t.turn}, 4, 1 = 1) /\ ds[2] = Gain(t, ws[2], {t.turn}, 4, 2 = 1)
      BY <3>1
    <3>3. ds[1] = g /\ ds[2] = h
      <4>1. (1 = 1) = TRUE /\ (2 = 1) = FALSE
        OBVIOUS
      <4>. QED
        BY <1>3, <1>5, <2>2, <3>2, <4>1
    <3>4. \A i \in 1..2 : i = 1 \/ i = 2
      OBVIOUS
    <3>. QED
      BY <1>4, <1>5, <2>2, <3>2, <3>3, <3>4
  <2>. QED
    BY <2>1, <2>2
<1>7. PICK total : total = IF a = b THEN g ELSE [x \in 0..(t.n - 1) |-> g[x] + h[x]]
  OBVIOUS
<1>8. /\ m.kind = "win" /\ m.seat = t.turn /\ m.winners = ws /\ m.from = t.turn /\ m.deltas = ds
      /\ m.call = t.kan /\ m.voided = (t.pending # None)
  BY <1>2 DEF Mv, NoMove
<1>9. /\ InAll(t, ds) = total /\ total \in [0..(t.n - 1) -> Int] /\ Points(t.n, total) = t.sticks
  <2>1. CASE a = b
    <3>1. InAll(t, ds) = [x \in 0..(t.n - 1) |-> g[x]]
      BY <1>5, <1>6, <2>1 DEF InAll, Players
    <3>. QED
      BY <1>4, <1>7, <2>1, <3>1
  <2>2. CASE a # b
    <3>1. InAll(t, ds) = [x \in 0..(t.n - 1) |-> g[x] + h[x]]
      BY <1>5, <1>6, <2>2 DEF InAll, Players
    <3>2. total \in [0..(t.n - 1) -> Int] /\ Points(t.n, total) = Points(t.n, g) + Points(t.n, h)
      <4>1. PICK n : n = t.n
        OBVIOUS
      <4>2. n \in 3..4 /\ g \in [0..(n - 1) -> Int] /\ h \in [0..(n - 1) -> Int]
        BY <1>0, <1>4, <4>1
      <4>3. total = [x \in 0..(n - 1) |-> g[x] + h[x]]
        BY <1>7, <2>2, <4>1
      <4>4. total \in [0..(n - 1) -> Int] /\ Points(n, total) = Points(n, g) + Points(n, h)
        BY <4>2, <4>3, PointsSum
      <4>. QED
        BY <4>1, <4>4
    <3>3. t.sticks \in Nat
      BY <1>0, TableFields
    <3>. QED
      BY <1>4, <1>7, <2>2, <3>1, <3>2, <3>3
  <2>. QED
    BY <2>1, <2>2
<1>10. /\ TableOK(table') /\ SameHand(t, table')
       /\ table'.stage = (IF final THEN "over" ELSE "between") /\ ~table'.offer
       /\ Paid(t, table', total, final) /\ move' = [m EXCEPT !.final = final, !.total = total]
  <2>1. t.stage \in {"act", "open"} /\ Points(t.n, total) = (IF m.kind = "win" THEN t.sticks ELSE 0) /\ total = InAll(t, m.deltas)
    BY <1>0, <1>8, <1>9
  <2>2. TableOK(t) /\ total \in [0..(t.n - 1) -> Int] /\ Ends(t, m, final)
    BY <1>0, <1>2, <1>9
  <2>. QED
    BY <2>1, <2>2, EndsFacts, Zenon
<1>11. PICK t2, m2 : t2 = table' /\ m2 = move'
  OBVIOUS
<1>12. /\ m2.kind = "win" /\ m2.seat = t.turn /\ m2.winners = ws /\ m2.from = t.turn
       /\ m2.deltas = ds
       /\ m2.call = t.kan /\ m2.voided = (t.pending # None) /\ m2.final = final /\ m2.total = total
  BY <1>2, <1>10, <1>11 DEF Mv, NoMove
<1>13. HasWon(t, t2, m2)
  <2>1. HasEnded(t, t2, m2) /\ HasPaid(t, t2, m2)
    BY <1>0, <1>10, <1>11, <1>12 DEF HasEnded, HasPaid
  <2>2. m2.total = InAll(t, m2.deltas)
    BY <1>9, <1>12
  <2>3. Len(ws) \in {1, 2}
    BY <1>5
  <2>. QED
    BY <1>0, <1>5, <1>6, <1>12, <2>1, <2>2, <2>3 DEF HasWon
<1>. QED
  BY <1>1, <1>10, <1>11, <1>13

LEMMA ExhaustFacts ==
  ASSUME TableOK(table), Exhaust
  PROVE  TableOK(table') /\ HasExhausted(table, table', move')
<1>1. PICK t, s : t = table /\ s = Settled(t)
  OBVIOUS
<1>20. PICK final \in BOOLEAN, pays \in BOOLEAN :
         /\ table.stage = "open" \/ (~pays /\ ~final /\ table.stage = "act" /\ table.drew)
         /\ Ends(Settled(table), [Mv("exhaust", Settled(table).turn) EXCEPT !.accepts = table.pending, !.call = IF pays THEN "wall" ELSE "none",
                       !.deltas = <<IF pays THEN Gain(Settled(table), Settled(table).turn, Players(Settled(table)) \ {Settled(table).turn}, 1, FALSE)
                                    ELSE [a \in Players(Settled(table)) |-> 0]>>], final)
  BY Zenon DEF Exhaust
<1>21. PICK d : d = IF pays THEN Gain(s, s.turn, Players(s) \ {s.turn}, 1, FALSE) ELSE [a \in Players(s) |-> 0]
  OBVIOUS
<1>22. PICK m : m = [Mv("exhaust", s.turn) EXCEPT !.accepts = t.pending, !.call = IF pays THEN "wall" ELSE "none", !.deltas = <<d>>]
  OBVIOUS
<1>2. /\ t.stage = "open" \/ (~pays /\ ~final /\ t.stage = "act" /\ t.drew)
      /\ d = IF pays THEN Gain(s, s.turn, Players(s) \ {s.turn}, 1, FALSE) ELSE [a \in Players(s) |-> 0]
      /\ m = [Mv("exhaust", s.turn) EXCEPT !.accepts = t.pending, !.call = IF pays THEN "wall" ELSE "none", !.deltas = <<d>>]
      /\ Ends(s, m, final)
  <2>1. Ends(s, m, final)
    BY <1>1, <1>20, <1>21, <1>22
  <2>2. t.stage = "open" \/ (~pays /\ ~final /\ t.stage = "act" /\ t.drew)
    BY <1>1, <1>20
  <2>. QED
    BY <1>21, <1>22, <2>1, <2>2
<1>0. TableOK(t) /\ t.stage \in {"act", "open"} /\ t.kan = "none" /\ t.turn \in 0..(t.n - 1) /\ t.n \in 3..4
  BY <1>1, <1>2, TableFields DEF Exhaust
<1>3. /\ TableOK(s) /\ SameHand(t, s) /\ s.stage = t.stage /\ s.turn = t.turn /\ s.n = t.n
  BY <1>0, <1>1, SettledOK DEF SameHand, SameGame
<1>5. d \in [0..(t.n - 1) -> Int] /\ Points(t.n, d) = 0 /\ (~pays => d = [a \in 0..(t.n - 1) |-> 0])
  <2>1. CASE pays
    <3>1. d = Gain(s, s.turn, 0..(s.n - 1) \ {s.turn}, 1, FALSE)
      BY <1>2, <2>1 DEF Players
    <3>2. s.turn \in 0..(s.n - 1) /\ 1 \in Nat /\ FALSE \in BOOLEAN /\ Pay(s.n, s.turn, 0..(s.n - 1) \ {s.turn})
      BY <1>0, <1>3 DEF Pay
    <3>3. d \in [0..(s.n - 1) -> Int] /\ Points(s.n, d) = IF FALSE THEN s.sticks ELSE 0
      BY <1>3, <3>1, <3>2, GainIs
    <3>. QED
      BY <1>3, <2>1, <3>3
  <2>2. CASE ~pays
    <3>1. d = [a \in 0..(t.n - 1) |-> 0]
      BY <1>2, <1>3, <2>2 DEF Players
    <3>2. Points(t.n, d) = 0
      <4>1. CASE t.n = 3
        BY <3>1, <4>1 DEF Points
      <4>2. CASE t.n = 4
        BY <3>1, <4>2 DEF Points
      <4>. QED
        BY <1>0, <4>1, <4>2
    <3>. QED
      BY <3>1, <3>2
  <2>. QED
    BY <2>1, <2>2
<1>6. m.kind = "exhaust" /\ m.deltas = <<d>>
  BY <1>2 DEF Mv, NoMove
<1>7. InAll(s, m.deltas) = d
  BY <1>3, <1>5, <1>6 DEF InAll, Players
<1>8. /\ TableOK(table') /\ SameHand(s, table')
      /\ table'.stage = (IF final THEN "over" ELSE "between") /\ ~table'.offer
      /\ Paid(s, table', d, final) /\ move' = [m EXCEPT !.final = final, !.total = d]
  <2>1. s.stage \in {"act", "open"} /\ Points(s.n, d) = (IF m.kind = "win" THEN s.sticks ELSE 0) /\ d \in [0..(s.n - 1) -> Int]
        /\ d = InAll(s, m.deltas)
    BY <1>0, <1>3, <1>5, <1>6, <1>7
  <2>2. TableOK(s) /\ Ends(s, m, final)
    BY <1>2, <1>3
  <2>. QED
    BY <2>1, <2>2, EndsFacts, Zenon
<1>9. PICK t2, m2 : t2 = table' /\ m2 = move'
  OBVIOUS
<1>10. /\ m2.kind = "exhaust" /\ m2.seat = t.turn /\ m2.winners = <<>> /\ m2.deltas = <<d>>
       /\ m2.accepts = t.pending
       /\ m2.call = (IF pays THEN "wall" ELSE "none") /\ m2.final = final /\ m2.total = d
  BY <1>2, <1>3, <1>8, <1>9 DEF Mv, NoMove
<1>12. HasExhausted(t, t2, m2)
  <2>1. HasEnded(t, t2, m2) /\ HasPaid(s, t2, m2)
    BY <1>0, <1>3, <1>8, <1>9, <1>10 DEF HasEnded, HasPaid, SameHand, SameGame
  <2>2. Len(m2.deltas) = 1 /\ m2.deltas[1] = m2.total
    BY <1>10
  <2>3. t.stage = "act" => t.drew /\ ~m2.final /\ m2.call = "none"
    BY <1>2, <1>10
  <2>4. m2.call \in {"wall", "none"} /\ (m2.call = "none" => m2.total = [a \in 0..(t.n - 1) |-> 0])
    BY <1>5, <1>10
  <2>. QED
    BY <1>0, <1>1, <1>10, <2>1, <2>2, <2>3, <2>4 DEF HasExhausted
<1>. QED
  BY <1>1, <1>8, <1>9, <1>12

(* ------ a reader of the stream ------------------------------------------- *)

Views ==
  [phase : {"off", "game", "hand", "won", "ended"}, players : 0..4, seat : 0..9, holder : 0..9,
   drew : BOOLEAN, next : 0..9, floor : 0..9, claimable : BOOLEAN, reach : 0..9,
   accepted : SUBSET (0..3), dora : Nat, giri : BOOLEAN, target : 0..9]

IsRecord(r) == r = [running |-> r.running, final |-> r.final]

(* The reader knows the table; a riichi of pend is declared.                 *)
Hand(t, pend, v, r) ==
  /\ v \in Views /\ IsRecord(r) /\ r.running = t.score
  /\ v.phase = "hand" /\ v.players = t.n /\ v.seat = t.me
  /\ v.accepted = t.accepted /\ v.reach = pend
  /\ t.stage = "act" => v.holder = t.turn /\ v.drew = t.drew
  /\ t.stage = "open" => /\ v.holder = Nobody /\ ~v.drew
                         /\ v.next = IF t.kan = "none" THEN NextSeat(t) ELSE t.turn
                         /\ t.kan = "none" => v.claimable /\ v.floor = t.turn

(* The hand is dealt and nobody has drawn.                                   *)
Dealing(t, v, r) ==
  /\ v \in Views /\ IsRecord(r) /\ r.running = t.score
  /\ v.phase = "hand" /\ v.players = t.n /\ v.seat = t.me
  /\ v.holder = Nobody /\ v.reach = Nobody /\ v.next = t.turn /\ v.accepted = {} /\ v.dora = 1

(* The hand may be won or has been.                                          *)
Closing(t, v, r) ==
  /\ v \in Views /\ IsRecord(r) /\ r.running \in [0..(t.n - 1) -> Int]
  /\ v.players = t.n /\ v.seat = t.me
  /\ v.drew \/ v.holder = Nobody

(* No hand is on.                                                            *)
Waiting(t, v, r) ==
  v \in Views /\ IsRecord(r) /\ v.players = t.n /\ v.seat = t.me /\ v.phase \in {"game", "ended"}

Dora == Ev("dora", 0)
Same(v, v2) == v2.dora = v.dora /\ v2.floor = v.floor /\ v2.giri = v.giri

LEMMA SeatSpan ==
  ASSUME NEW t, TableOK(t), NEW a, a \in 0..(t.n - 1)
  PROVE  a \in 0..3 /\ a \in 0..9 /\ a # Nobody /\ a # None
<1>1. t.n \in 3..4
  BY TableFields
<1>. QED
  BY <1>1 DEF Nobody, None

LEMMA Shapes ==
  ASSUME NEW type, NEW a, type \in EventTypes \ {"start_game"}, a \in 0..3
  PROVE  Shaped(Ev(type, a))
BY DEF Shaped, Ev

LEMMA NoViewIs ==
  /\ NoView \in Views /\ NoView.phase = "off" /\ NoView.holder = Nobody /\ NoView.reach = Nobody
  /\ NoView.accepted = {}
  /\ NoView.players = 0 /\ NoView.dora = 0 /\ ~NoView.drew
BY DEF NoView, Views, Nobody

LEMMA SeeStartGame ==
  ASSUME NEW t, TableOK(t), NEW v, NEW r
  PROVE  \E v2, r2 : /\ Plays(v, r, <<[Ev("start_game", t.me) EXCEPT !.players = t.n]>>, v2, r2)
                     /\ Waiting(t, v2, r2) /\ v2.phase = "game"
                     /\ v2 = [NoView EXCEPT !.phase = "game", !.players = t.n, !.seat = t.me]
                     /\ r2 = [running |-> [a \in 0..(t.n - 1) |-> 0], final |-> <<>>]
<1>1. PICK e : e = [Ev("start_game", t.me) EXCEPT !.players = t.n]
  OBVIOUS
<1>2. e.type = "start_game" /\ e.actor = t.me /\ e.target = t.me /\ e.players = t.n /\ e.giri = FALSE
  BY <1>1 DEF Ev
<1>3. t.me \in 0..3 /\ t.n \in {3, 4} /\ t.me \in 0..9 /\ t.n \in 0..4
  <2>1. t.me \in 0..(t.n - 1) /\ t.n \in 3..4
    BY TableFields
  <2>2. t.me \in 0..3 /\ t.me \in 0..9
    BY <2>1
  <2>. QED
    BY <2>1, <2>2
<1>4. Says(v, e)
  BY <1>2, <1>3 DEF Says, Shaped, Legal, EventTypes, Calls, OwnKans
<1>5. After(v, e) = [NoView EXCEPT !.phase = "game", !.players = t.n, !.seat = t.me]
  BY <1>2 DEF After, Calls, OwnKans
<1>6. Scores!Record(r, e) = [running |-> [a \in 0..(t.n - 1) |-> 0], final |-> <<>>]
  BY <1>2 DEF Scores!Record
<1>7. Waiting(t, After(v, e), Scores!Record(r, e)) /\ After(v, e).phase = "game"
  <2>1. After(v, e) = [phase |-> "game", players |-> t.n, seat |-> t.me, holder |-> 9, drew |-> FALSE,
           next |-> 9, floor |-> 9, claimable |-> FALSE, reach |-> 9,
           accepted |-> {}, dora |-> 0, giri |-> FALSE, target |-> 9]
    BY <1>5 DEF NoView, Nobody
  <2>2. After(v, e) \in Views
    BY <1>3, <2>1 DEF Views
  <2>. QED
    BY <1>6, <2>1, <2>2 DEF Waiting, IsRecord
<1>8. Plays(v, r, <<e>>, After(v, e), Scores!Record(r, e))
  BY <1>4, PlaysOne
<1>. QED
  BY <1>1, <1>5, <1>6, <1>7, <1>8, Zenon

LEMMA SeeStartKyoku ==
  ASSUME NEW t, NEW t2, NEW m2, TableOK(t), TableOK(t2), HasDealt(t, t2, m2), NEW v, NEW r,
         Waiting(t, v, r)
  PROVE  \E v2, r2 : /\ Plays(v, r, <<[Ev("start_kyoku", t2.oya) EXCEPT !.players = t.n, !.scores = t.score]>>, v2, r2)
                     /\ Dealing(t2, v2, r2)
<1>1. PICK e : e = [Ev("start_kyoku", t2.oya) EXCEPT !.players = t.n, !.scores = t.score]
  OBVIOUS
<1>2. e.type = "start_kyoku" /\ e.actor = t2.oya /\ e.target = t2.oya /\ e.players = t.n /\ e.giri = FALSE /\ e.scores = t.score
  BY <1>1 DEF Ev
<1>3. t2.oya \in 0..3 /\ t2.oya \in 0..9
  <2>1. t2.oya \in 0..(t2.n - 1)
    BY TableFields
  <2>. QED
    BY <2>1, SeatSpan
<1>4. Says(v, e)
  <2>1. Shaped(e)
    BY <1>2, <1>3 DEF Shaped, EventTypes
  <2>2. Legal(v, e)
    BY <1>2 DEF Legal, Waiting, Calls, OwnKans
  <2>. QED
    BY <2>1, <2>2 DEF Says
<1>5. After(v, e) = [NoView EXCEPT !.phase = "hand", !.players = v.players, !.seat = v.seat, !.next = t2.oya, !.dora = 1]
  BY <1>2 DEF After, Calls, OwnKans
<1>6. Scores!Record(r, e) = [r EXCEPT !.running = t.score]
  BY <1>2 DEF Scores!Record
<1>7. Dealing(t2, After(v, e), Scores!Record(r, e))
  <2>1. v.players = t.n /\ v.seat = t.me /\ v.players \in 0..4 /\ v.seat \in 0..9
    BY DEF Waiting, Views
  <2>2. After(v, e) \in Views
    <3>1. NoView \in Views
      BY NoViewIs
    <3>2. After(v, e) = [NoView EXCEPT !.phase = "hand", !.players = v.players, !.seat = v.seat, !.next = t2.oya, !.dora = 1]
      BY <1>5
    <3>3. PICK p, s, o : p = v.players /\ s = v.seat /\ o = t2.oya
      OBVIOUS
    <3>4. p \in 0..4 /\ s \in 0..9 /\ o \in 0..9 /\ 1 \in Nat
      BY <1>3, <2>1, <3>3
    <3>5. PICK w : w = [NoView EXCEPT !.phase = "hand", !.players = p, !.seat = s]
      OBVIOUS
    <3>6. w \in Views
      BY <3>1, <3>4, <3>5 DEF Views
    <3>7. [w EXCEPT !.next = o, !.dora = 1] \in Views
      BY <3>4, <3>6 DEF Views
    <3>8. [NoView EXCEPT !.phase = "hand", !.players = p, !.seat = s, !.next = o, !.dora = 1]
            = [w EXCEPT !.next = o, !.dora = 1]
      BY <3>5
    <3>. QED
      BY <3>2, <3>3, <3>7, <3>8
  <2>3. IsRecord(Scores!Record(r, e)) /\ Scores!Record(r, e).running = t.score
    <3>1. r = [running |-> r.running, final |-> r.final]
      BY DEF Waiting, IsRecord
    <3>2. Scores!Record(r, e) = [running |-> t.score, final |-> r.final]
      BY <1>6, <3>1
    <3>. QED
      BY <3>2 DEF IsRecord
  <2>4. t2.n = t.n /\ t2.me = t.me /\ t2.turn = t2.oya /\ t2.score = t.score
    BY DEF HasDealt, SameGame
  <2>. QED
    <3>1. After(v, e).holder = Nobody /\ After(v, e).reach = Nobody /\ After(v, e).accepted = {}
          /\ After(v, e).phase = "hand" /\ After(v, e).players = v.players
          /\ After(v, e).seat = v.seat
          /\ After(v, e).next = t2.oya /\ After(v, e).dora = 1
      BY <1>5, NoViewIs DEF Views
    <3>. QED
      BY <2>1, <2>2, <2>3, <2>4, <3>1 DEF Dealing
<1>8. Plays(v, r, <<e>>, After(v, e), Scores!Record(r, e))
  BY <1>4, PlaysOne
<1>. QED
  BY <1>1, <1>7, <1>8, Zenon

(* The tsumo of the seat whose turn it becomes.                              *)
LEMMA SeeDraws ==
  ASSUME NEW a, a \in 0..3, NEW v, NEW r, v \in Views, IsRecord(r), Free(v), v.next = a
  PROVE  LET v2 == [v EXCEPT !.holder = a, !.drew = TRUE, !.next = Nobody, !.floor = Nobody, !.claimable = FALSE]
         IN Plays(v, r, <<Ev("tsumo", a)>>, v2, r) /\ v2 \in Views
<1>1. PICK e : e = Ev("tsumo", a)
  OBVIOUS
<1>2. e.type = "tsumo" /\ e.actor = a
  BY <1>1 DEF Ev
<1>4. Says(v, e)
  <2>1. Shaped(e)
    BY <1>1, Shapes DEF EventTypes
  <2>2. Legal(v, e)
    BY <1>2 DEF Legal, Calls, OwnKans
  <2>. QED
    BY <2>1, <2>2 DEF Says
<1>5. After(v, e) = [v EXCEPT !.holder = a, !.drew = TRUE, !.next = Nobody, !.floor = Nobody, !.claimable = FALSE]
  BY <1>2 DEF After, Calls, OwnKans
<1>6. Scores!Record(r, e) = r
  BY <1>2 DEF Scores!Record
<1>7. [v EXCEPT !.holder = a, !.drew = TRUE, !.next = Nobody, !.floor = Nobody, !.claimable = FALSE] \in Views
  <2>1. a \in 0..9 /\ Nobody \in 0..9
    BY DEF Nobody
  <2>. QED
    BY <2>1 DEF Views
<1>8. Plays(v, r, <<e>>, After(v, e), Scores!Record(r, e))
  BY <1>4, PlaysOne
<1>. QED
  BY <1>1, <1>5, <1>6, <1>7, <1>8

LEMMA SeeFirstTsumo ==
  ASSUME NEW t, NEW t2, NEW m2, TableOK(t2), HasDealt(t, t2, m2), NEW v, NEW r, Dealing(t2, v, r)
  PROVE  \E v2 : Plays(v, r, <<Ev("tsumo", t2.turn)>>, v2, r) /\ Hand(t2, None, v2, r) /\ v2.dora = 1
<1>1. t2.turn \in 0..3
  <2>1. t2.turn \in 0..(t2.n - 1)
    BY TableFields
  <2>. QED
    BY <2>1, SeatSpan
<1>2. v \in Views /\ IsRecord(r) /\ Free(v) /\ v.next = t2.turn
  BY DEF Dealing, Free, InPlay
<1>3. PICK v2 : v2 = [v EXCEPT !.holder = t2.turn, !.drew = TRUE, !.next = Nobody, !.floor = Nobody, !.claimable = FALSE]
  OBVIOUS
<1>4. Plays(v, r, <<Ev("tsumo", t2.turn)>>, v2, r) /\ v2 \in Views
  BY <1>1, <1>2, <1>3, SeeDraws
<1>5. Hand(t2, None, v2, r) /\ v2.dora = 1
  <2>1. /\ v2.holder = t2.turn /\ v2.drew /\ v2.phase = v.phase /\ v2.players = v.players
        /\ v2.seat = v.seat
        /\ v2.accepted = v.accepted /\ v2.reach = v.reach /\ v2.dora = v.dora
    BY <1>2, <1>3 DEF Views
  <2>2. t2.stage = "act" /\ t2.drew /\ t2.accepted = {}
    BY DEF HasDealt
  <2>3. t2.drew \in BOOLEAN
    BY TableFields
  <2>. QED
    BY <1>2, <1>4, <2>1, <2>2, <2>3 DEF Hand, Dealing, Nobody, None
<1>. QED
  BY <1>4, <1>5

LEMMA SeeTsumo ==
  ASSUME NEW t, NEW t2, NEW m2, TableOK(t), TableOK(t2), HasDrawn(t, t2, m2), NEW v, NEW r,
         Hand(Settled(t), None, v, r)
  PROVE  \E v2 : Plays(v, r, <<Ev("tsumo", t2.turn)>>, v2, r) /\ Hand(t2, None, v2, r) /\ v2.dora = v.dora
<1>1. t2.turn \in 0..3
  <2>1. t2.turn \in 0..(t2.n - 1)
    BY TableFields
  <2>. QED
    BY <2>1, SeatSpan
<1>2. PICK s : s = Settled(t)
  OBVIOUS
<1>3. t.stage = "open" /\ s.stage = "open" /\ s.kan = t.kan /\ s.turn = t.turn /\ s.n = t.n /\ s.me = t.me
  <2>1. t.stage = "open"
    BY DEF HasDrawn
  <2>. QED
    BY <1>2, <2>1, SettledOK DEF SameHand, SameGame
<1>4. v \in Views /\ IsRecord(r) /\ Free(v) /\ v.next = t2.turn
  <2>1. v.next = IF s.kan = "none" THEN NextSeat(s) ELSE s.turn
    BY <1>2, <1>3 DEF Hand
  <2>2. t2.turn = IF t.kan = "none" THEN (t.turn + 1) % t.n ELSE t.turn
    BY DEF HasDrawn
  <2>. QED
    BY <1>2, <1>3, <2>1, <2>2 DEF Hand, Free, InPlay, NextSeat, Nobody, None
<1>5. PICK v2 : v2 = [v EXCEPT !.holder = t2.turn, !.drew = TRUE, !.next = Nobody, !.floor = Nobody, !.claimable = FALSE]
  OBVIOUS
<1>6. Plays(v, r, <<Ev("tsumo", t2.turn)>>, v2, r) /\ v2 \in Views
  BY <1>1, <1>4, <1>5, SeeDraws
<1>7. Hand(t2, None, v2, r) /\ v2.dora = v.dora
  <2>1. /\ v2.holder = t2.turn /\ v2.drew /\ v2.phase = v.phase /\ v2.players = v.players
        /\ v2.seat = v.seat
        /\ v2.accepted = v.accepted /\ v2.reach = v.reach /\ v2.dora = v.dora
    BY <1>4, <1>5 DEF Views
  <2>2. t2.stage = "act" /\ t2.drew /\ t2.accepted = s.accepted /\ t2.score = s.score /\ t2.n = t.n /\ t2.me = t.me
    BY <1>2 DEF HasDrawn, SameHand, SameGame
  <2>3. t2.drew = TRUE /\ v2.drew = TRUE
    BY <1>6, <2>1, <2>2, TableFields DEF Views
  <2>. QED
    BY <1>2, <1>3, <1>4, <1>6, <2>1, <2>2, <2>3 DEF Hand
<1>. QED
  BY <1>6, <1>7

Accepts(p) == IF p = None THEN <<>> ELSE <<Ev("reach_accepted", p)>>

LEMMA SeePassed ==
  ASSUME NEW t, TableOK(t), t.stage \in {"act", "open"}, NEW v, NEW r, Hand(t, t.pending, v, r)
  PROVE  \E v2, r2 : /\ Plays(v, r, Accepts(t.pending), v2, r2)
                     /\ Hand(Settled(t), None, v2, r2) /\ Same(v, v2)
<1>1. CASE t.pending = None
  <2>1. Settled(t) = t /\ Accepts(t.pending) = <<>>
    BY <1>1 DEF Settled, Accepts
  <2>2. Plays(v, r, <<>>, v, r)
    BY PlaysNothing
  <2>. QED
    BY <1>1, <2>1, <2>2 DEF Same
<1>2. CASE t.pending # None
  <2>1. PICK p : p = t.pending
    OBVIOUS
  <2>2. t.stage = "open" /\ p = t.turn /\ p \in 0..(t.n - 1) /\ p # None /\ ~t.drew /\ t.kan = "none"
    BY <1>2, <2>1, TableFields DEF TableOK, Stage
  <2>3. p \in 0..3 /\ p \in 0..9
    BY <2>2, SeatSpan
  <2>4. PICK s : s = Settled(t)
    OBVIOUS
  <2>5. /\ s = [t EXCEPT !.accepted = t.accepted \cup {p}, !.score = [t.score EXCEPT ![p] = t.score[p] - 1],
                         !.sticks = t.sticks + 1, !.pending = None]
    BY <1>2, <2>1, <2>4 DEF Settled
  <2>6. s.accepted = t.accepted \cup {p} /\ s.score = [t.score EXCEPT ![p] = t.score[p] - 1]
    <3>1. t \in Tables
      BY TableFields
    <3>. QED
      BY <2>5, <3>1 DEF Tables
  <2>7. s.n = t.n /\ s.me = t.me /\ s.stage = "open" /\ s.turn = t.turn /\ s.kan = t.kan
    BY <2>2, <2>4, SettledOK DEF SameHand, SameGame
  <2>8. PICK e : e = Ev("reach_accepted", p)
    OBVIOUS
  <2>9. e.type = "reach_accepted" /\ e.actor = p
    BY <2>8 DEF Ev
  <2>10. v \in Views /\ IsRecord(r) /\ v.phase = "hand" /\ v.holder = Nobody /\ v.reach = p
    BY <2>1, <2>2 DEF Hand
  <2>11. Says(v, e)
    <3>1. Shaped(e)
      BY <2>3, <2>8, Shapes DEF EventTypes
    <3>2. Legal(v, e)
      BY <2>9, <2>10 DEF Legal, InPlay, Calls, OwnKans
    <3>. QED
      BY <3>1, <3>2 DEF Says
  <2>12. PICK v2, r2 : v2 = After(v, e) /\ r2 = Scores!Record(r, e)
    OBVIOUS
  <2>13. v2 = [v EXCEPT !.reach = Nobody, !.accepted = v.accepted \cup {p}]
    BY <2>9, <2>12 DEF After, Calls, OwnKans
  <2>14. v2 \in Views /\ v2.reach = Nobody /\ v2.accepted = v.accepted \cup {p} /\ v2.phase = v.phase
         /\ v2.players = v.players /\ v2.seat = v.seat /\ v2.holder = v.holder /\ v2.drew = v.drew
         /\ v2.next = v.next /\ v2.claimable = v.claimable /\ v2.floor = v.floor
         /\ v2.dora = v.dora /\ v2.giri = v.giri
    <3>1. Nobody \in 0..9 /\ v.accepted \cup {p} \in SUBSET (0..3)
      BY <2>3, <2>10 DEF Nobody, Views
    <3>. QED
      BY <2>10, <2>13, <3>1 DEF Views
  <2>15. r2 = [r EXCEPT !.running[p] = r.running[p] - 1]
    BY <2>9, <2>12 DEF Scores!Record
  <2>16. IsRecord(r2) /\ r2.running = s.score
    <3>1. r = [running |-> r.running, final |-> r.final] /\ r.running = t.score
      BY <2>10 DEF Hand, IsRecord
    <3>2. r2 = [running |-> [r.running EXCEPT ![p] = r.running[p] - 1], final |-> r.final]
      BY <2>15, <3>1
    <3>. QED
      BY <2>6, <3>1, <3>2 DEF IsRecord
  <2>17. Hand(s, None, v2, r2)
    <3>1. NextSeat(s) = NextSeat(t)
      BY <2>7 DEF NextSeat
    <3>2. Nobody = None
      BY DEF Nobody, None
    <3>. QED
      BY <2>2, <2>6, <2>7, <2>14, <2>16, <3>1, <3>2 DEF Hand
  <2>18. Plays(v, r, <<e>>, v2, r2)
    BY <2>11, <2>12, PlaysOne
  <2>19. Accepts(t.pending) = <<e>>
    BY <1>2, <2>1, <2>8 DEF Accepts
  <2>. QED
    BY <2>4, <2>14, <2>17, <2>18, <2>19 DEF Same
<1>. QED
  BY <1>1, <1>2

LEMMA PlaysDoras ==
  ASSUME NEW k \in Nat, NEW v \in Views, NEW r, v.phase = "hand"
  PROVE  Plays(v, r, [i \in 1..k |-> Dora], [v EXCEPT !.dora = v.dora + k], r)
<1> DEFINE es == [i \in 1..k |-> Dora]
           vs == [i \in 0..k |-> [v EXCEPT !.dora = v.dora + i]]
           rs == [i \in 0..k |-> r]
<1>1. IsSeq(es) /\ Len(es) = k /\ \A i \in 1..k : es[i] = Dora
  BY TimesIsSeq
<1>2. v.dora \in Nat
  BY DEF Views
<1>3. vs[0] = v /\ rs[0] = r
  <2>1. v.dora + 0 = v.dora
    BY <1>2
  <2>2. [v EXCEPT !.dora = v.dora] = v
    BY DEF Views
  <2>. QED
    BY <2>1, <2>2
<1>4. \A i \in 0..k : vs[i] = [v EXCEPT !.dora = v.dora + i] /\ rs[i] = r
  OBVIOUS
<1>5. Dora.type = "dora" /\ Shaped(Dora)
  <2>1. "dora" \in EventTypes \ {"start_game"} /\ 0 \in 0..3
    BY DEF EventTypes
  <2>2. Dora.type = "dora"
    BY DEF Dora, Ev
  <2>. QED
    BY <2>1, <2>2, Shapes DEF Dora
<1> HIDE DEF vs, rs, es
<1>6. ASSUME NEW i \in 1..k
      PROVE  /\ Says(vs[i - 1], es[i])
             /\ vs[i] = After(vs[i - 1], es[i])
             /\ rs[i] = Scores!Record(rs[i - 1], es[i])
  <2>1. i \in 0..k /\ i - 1 \in 0..k /\ (v.dora + (i - 1)) + 1 = v.dora + i /\ v.dora + (i - 1) \in Nat
    BY <1>2
  <2>2. PICK w : w = [v EXCEPT !.dora = v.dora + (i - 1)]
    OBVIOUS
  <2>3. vs[i - 1] = w /\ vs[i] = [v EXCEPT !.dora = v.dora + i] /\ rs[i] = r /\ rs[i - 1] = r /\ es[i] = Dora
    BY <1>1, <1>4, <2>1, <2>2
  <2>4. w.phase = "hand" /\ w.dora = v.dora + (i - 1)
    BY <2>2 DEF Views
  <2>5. Says(w, Dora)
    BY <1>5, <2>4 DEF Says, Legal, InPlay, Calls, OwnKans
  <2>6. After(w, Dora) = [w EXCEPT !.dora = w.dora + 1]
    BY <1>5 DEF After, Calls, OwnKans
  <2>7. After(w, Dora) = [v EXCEPT !.dora = v.dora + i]
    <3>1. [w EXCEPT !.dora = v.dora + i] = [v EXCEPT !.dora = v.dora + i]
      BY <2>2 DEF Views
    <3>. QED
      BY <2>1, <2>4, <2>6, <3>1
  <2>8. Scores!Record(r, Dora) = r
    BY <1>5 DEF Scores!Record
  <2>. QED
    BY <2>3, <2>5, <2>7, <2>8
<1>7. 0 \in 0..k /\ k \in 0..k
  OBVIOUS
<1>8. Plays(v, r, es, [v EXCEPT !.dora = v.dora + k], r)
  BY <1>1, <1>3, <1>4, <1>6, <1>7 DEF Plays
<1>. QED
  BY <1>8 DEF es

Indicators(k) == [i \in 1..k |-> Dora]

LEMMA SeeDoras ==
  ASSUME NEW t, NEW pend, NEW k, k \in Nat, NEW v, NEW r, Hand(t, pend, v, r)
  PROVE  \E v2 : /\ Plays(v, r, Indicators(k), v2, r) /\ Hand(t, pend, v2, r)
                 /\ v2.dora = v.dora + k /\ v2.floor = v.floor /\ v2.giri = v.giri
<1>1. v \in Views /\ v.phase = "hand"
  BY DEF Hand
<1>2. PICK v2 : v2 = [v EXCEPT !.dora = v.dora + k]
  OBVIOUS
<1>3. v2 \in Views /\ v2.dora = v.dora + k /\ v2.reach = v.reach /\ v2.accepted = v.accepted /\ v2.phase = v.phase
         /\ v2.players = v.players /\ v2.seat = v.seat /\ v2.holder = v.holder /\ v2.drew = v.drew
         /\ v2.next = v.next /\ v2.claimable = v.claimable /\ v2.floor = v.floor /\ v2.giri = v.giri
  <2>1. v.dora + k \in Nat
    BY <1>1 DEF Views
  <2>. QED
    BY <1>1, <1>2, <2>1 DEF Views
<1>4. Hand(t, pend, v2, r)
  BY <1>3 DEF Hand
<1>5. Plays(v, r, Indicators(k), v2, r)
  BY <1>1, <1>2, PlaysDoras DEF Indicators
<1>. QED
  BY <1>3, <1>4, <1>5

LEMMA SeeReach ==
  ASSUME NEW t, TableOK(t), t.stage = "act", t.drew, t.turn \notin t.accepted, NEW v, NEW r,
         Hand(t, None, v, r)
  PROVE  \E v2 : Plays(v, r, <<Ev("reach", t.turn)>>, v2, r) /\ Hand(t, t.turn, v2, r) /\ Same(v, v2)
<1>1. PICK a : a = t.turn
  OBVIOUS
<1>2. a \in 0..3 /\ a \in 0..9
  BY <1>1, SeatSpan, TableFields
<1>3. PICK e : e = Ev("reach", a)
  OBVIOUS
<1>4. e.type = "reach" /\ e.actor = a
  BY <1>3 DEF Ev
<1>5. v \in Views /\ IsRecord(r) /\ v.phase = "hand" /\ v.holder = a /\ v.drew /\ v.reach = Nobody /\ a \notin v.accepted
  BY <1>1, TableFields DEF Hand, Nobody, None
<1>6. Says(v, e)
  <2>1. Shaped(e)
    BY <1>2, <1>3, Shapes DEF EventTypes
  <2>2. Legal(v, e)
    BY <1>4, <1>5 DEF Legal, Holds, InPlay, Calls, OwnKans
  <2>. QED
    BY <2>1, <2>2 DEF Says
<1>7. PICK v2 : v2 = [v EXCEPT !.reach = a]
  OBVIOUS
<1>8. After(v, e) = v2 /\ Scores!Record(r, e) = r
  BY <1>4, <1>7 DEF After, Calls, OwnKans, Scores!Record
<1>9. v2 \in Views /\ v2.dora = v.dora /\ v2.reach = a /\ v2.accepted = v.accepted /\ v2.phase = v.phase
         /\ v2.players = v.players /\ v2.seat = v.seat /\ v2.holder = v.holder /\ v2.drew = v.drew
         /\ v2.next = v.next /\ v2.claimable = v.claimable /\ v2.floor = v.floor /\ v2.giri = v.giri
  BY <1>2, <1>5, <1>7 DEF Views
<1>10. Hand(t, a, v2, r)
  BY <1>9 DEF Hand
<1>11. Plays(v, r, <<e>>, v2, r)
  BY <1>6, <1>8, PlaysOne
<1>. QED
  BY <1>1, <1>3, <1>9, <1>10, <1>11 DEF Same

(* The riichi that goes with a discard.                                      *)
Declared(t, m2) == IF m2.riichi THEN t.turn ELSE None

LEMMA SeeDahai ==
  ASSUME NEW t, NEW t2, NEW m2, TableOK(t), TableOK(t2), HasDiscarded(t, t2, m2), NEW v, NEW r,
         Hand(t, Declared(t, m2), v, r)
  PROVE  \E v2 : /\ Plays(v, r, <<[Ev("dahai", t.turn) EXCEPT !.giri = m2.giri]>>, v2, r) /\ Hand(t2, t2.pending, v2, r)
                 /\ v2.dora = v.dora /\ v2.floor = t.turn /\ v2.giri = m2.giri
<1>1. PICK a, g : a = t.turn /\ g = m2.giri
  OBVIOUS
<1>2. a \in 0..(t.n - 1) /\ a \in 0..3 /\ a \in 0..9 /\ g \in BOOLEAN /\ t.n \in 3..4
  BY <1>1, SeatSpan, TableFields DEF HasDiscarded
<1>3. PICK e : e = [Ev("dahai", a) EXCEPT !.giri = g]
  OBVIOUS
<1>4. e.type = "dahai" /\ e.actor = a /\ e.target = a /\ e.giri = g
  BY <1>3 DEF Ev
<1>5. /\ v \in Views /\ IsRecord(r) /\ r.running = t.score /\ v.phase = "hand" /\ v.holder = a
      /\ v.reach \in {Nobody, a} /\ v.reach = t2.pending
      /\ v.players = t.n /\ v.seat = t.me /\ v.accepted = t.accepted
  BY <1>1 DEF Hand, HasDiscarded, Declared, Nobody, None
<1>6. Says(v, e)
  <2>1. Shaped(e)
    BY <1>2, <1>4 DEF Shaped, EventTypes
  <2>2. Legal(v, e)
    BY <1>4, <1>5 DEF Legal, Holds, InPlay, Calls, OwnKans
  <2>. QED
    BY <2>1, <2>2 DEF Says
<1>7. PICK x : x = (a + 1) % v.players
  OBVIOUS
<1>8. x = (t.turn + 1) % t.n /\ x \in 0..9
  <2>1. x = (a + 1) % t.n
    BY <1>5, <1>7
  <2>2. x \in 0..(t.n - 1)
    BY <1>2, <2>1, NextOf
  <2>. QED
    BY <1>1, <1>2, <2>1, <2>2, SeatSpan
<1>9. PICK v2 : v2 = [v EXCEPT !.holder = Nobody, !.drew = FALSE, !.floor = a, !.claimable = TRUE, !.giri = g, !.next = x]
  OBVIOUS
<1>10. After(v, e) = v2 /\ Scores!Record(r, e) = r
  BY <1>4, <1>7, <1>9 DEF After, Calls, OwnKans, Scores!Record
<1>11. v2 \in Views /\ v2.dora = v.dora /\ v2.reach = v.reach /\ v2.accepted = v.accepted /\ v2.phase = v.phase
         /\ v2.players = v.players /\ v2.seat = v.seat /\ v2.holder = Nobody /\ v2.drew = FALSE
         /\ v2.next = x /\ v2.claimable = TRUE /\ v2.floor = a /\ v2.giri = g
  <2>1. Nobody \in 0..9
    BY DEF Nobody
  <2>. QED
    BY <1>2, <1>5, <1>8, <1>9, <2>1 DEF Views
<1>12. Hand(t2, t2.pending, v2, r)
  <2>1. t2.n = t.n /\ t2.me = t.me /\ t2.stage = "open" /\ t2.turn = a /\ t2.kan = "none" /\ t2.accepted = t.accepted /\ t2.score = t.score
    BY <1>1 DEF HasDiscarded, SameHand, SameGame
  <2>2. NextSeat(t2) = x
    BY <1>1, <1>8, <2>1 DEF NextSeat
  <2>. QED
    BY <1>5, <1>11, <2>1, <2>2 DEF Hand
<1>13. Plays(v, r, <<e>>, v2, r)
  BY <1>6, <1>10, PlaysOne
<1>. QED
  BY <1>1, <1>3, <1>11, <1>12, <1>13

LEMMA SeeCall ==
  ASSUME NEW t, NEW t2, NEW m2, TableOK(t), TableOK(t2), HasCalled(t, t2, m2), NEW v, NEW r,
         Hand(Settled(t), None, v, r)
  PROVE  \E v2 : /\ Plays(v, r, <<[Ev(m2.call, m2.seat) EXCEPT !.target = t.turn]>>, v2, r)
                 /\ Hand(t2, None, v2, r) /\ v2.dora = v.dora
<1>1. PICK a, g, c : a = m2.seat /\ g = t.turn /\ c = m2.call
  OBVIOUS
<1>2. /\ a \in 0..(t.n - 1) /\ a \in 0..3 /\ a \in 0..9 /\ g \in 0..3 /\ a # g /\ c \in Calls
      /\ t.stage = "open" /\ t.kan = "none"
  <2>1. a \in 0..(t.n - 1) /\ g \in 0..(t.n - 1) /\ a # g /\ c \in Calls /\ t.stage = "open" /\ t.kan = "none"
    BY <1>1, TableFields DEF HasCalled
  <2>. QED
    BY <2>1, SeatSpan
<1>3. PICK e : e = [Ev(c, a) EXCEPT !.target = g]
  OBVIOUS
<1>4. e.type = c /\ e.actor = a /\ e.target = g /\ e.giri = FALSE
  BY <1>3 DEF Ev
<1>5. PICK s : s = Settled(t)
  OBVIOUS
<1>6. s.n = t.n /\ s.me = t.me /\ s.stage = "open" /\ s.turn = t.turn /\ s.kan = "none"
  BY <1>2, <1>5, SettledOK DEF SameHand, SameGame
<1>7. /\ v \in Views /\ IsRecord(r) /\ r.running = s.score /\ v.phase = "hand" /\ v.holder = Nobody
      /\ v.reach = Nobody /\ v.claimable /\ v.floor = g
      /\ v.players = t.n /\ v.seat = t.me /\ v.accepted = s.accepted /\ ~v.drew
  BY <1>1, <1>5, <1>6 DEF Hand, Nobody, None
<1>8. Says(v, e)
  <2>1. Shaped(e)
    BY <1>2, <1>4 DEF Shaped, EventTypes, Calls
  <2>2. Legal(v, e)
    BY <1>2, <1>4, <1>7 DEF Legal, Free, InPlay, Calls, OwnKans
  <2>. QED
    BY <2>1, <2>2 DEF Says
<1>9. PICK h, x : h = (IF c = "daiminkan" THEN Nobody ELSE a) /\ x = (IF c = "daiminkan" THEN a ELSE Nobody)
  OBVIOUS
<1>10. h \in 0..9 /\ x \in 0..9 /\ Nobody \in 0..9
  BY <1>2, <1>9 DEF Nobody
<1>11. PICK v2 : v2 = [v EXCEPT !.claimable = FALSE, !.floor = Nobody, !.holder = h, !.next = x]
  OBVIOUS
<1>12. After(v, e) = v2
  <2>1. e.type \in Calls /\ e.type # "start_game" /\ e.type # "start_kyoku" /\ e.type # "tsumo" /\ e.type # "reach"
        /\ e.type # "dahai" /\ e.type # "reach_accepted" /\ e.type \notin OwnKans /\ e.type # "dora"
        /\ e.type # "hora" /\ e.type # "ryukyoku" /\ e.type # "end_kyoku" /\ e.type # "end_game"
    BY <1>2, <1>4 DEF Calls, OwnKans
  <2>2. After(v, e) = [v EXCEPT !.claimable = FALSE, !.floor = Nobody,
                                !.holder = IF e.type = "daiminkan" THEN Nobody ELSE e.actor,
                                !.next = IF e.type = "daiminkan" THEN e.actor ELSE Nobody]
    BY <2>1, Zenon DEF After
  <2>. QED
    BY <1>4, <1>9, <1>11, <2>2
<1>13. Scores!Record(r, e) = r
  BY <1>2, <1>4 DEF Scores!Record, Calls
<1>14. v2 \in Views /\ v2.dora = v.dora /\ v2.reach = v.reach /\ v2.accepted = v.accepted /\ v2.phase = v.phase
         /\ v2.players = v.players /\ v2.seat = v.seat /\ v2.holder = h /\ v2.drew = v.drew
         /\ v2.next = x
  BY <1>7, <1>10, <1>11 DEF Views
<1>15. Hand(t2, None, v2, r)
  <2>1. t2.n = t.n /\ t2.me = t.me /\ t2.turn = a /\ t2.accepted = s.accepted /\ t2.score = s.score
        /\ t2.stage = (IF c = "daiminkan" THEN "open" ELSE "act")
        /\ t2.kan = (IF c = "daiminkan" THEN "daiminkan" ELSE "none")
        /\ ~t2.drew /\ t2.drew \in BOOLEAN
    BY <1>1, <1>5, TableFields DEF HasCalled, SameHand, SameGame
  <2>2. v.drew \in BOOLEAN
    BY <1>7 DEF Views
  <2>3. t2.drew = FALSE /\ v2.drew = FALSE
    BY <1>7, <1>14, <2>1, <2>2
  <2>4. Nobody = None
    BY DEF Nobody, None
  <2>. QED
    BY <1>7, <1>9, <1>14, <2>1, <2>3, <2>4 DEF Hand
<1>16. Plays(v, r, <<e>>, v2, r)
  BY <1>8, <1>12, <1>13, PlaysOne
<1>. QED
  BY <1>1, <1>3, <1>14, <1>15, <1>16

LEMMA SeeKan ==
  ASSUME NEW t, NEW t2, NEW m2, TableOK(t), TableOK(t2), HasKan(t, t2, m2), NEW v, NEW r,
         Hand(t, None, v, r)
  PROVE  \E v2 : /\ Plays(v, r, <<Ev(m2.call, m2.seat)>>, v2, r)
                 /\ Hand(t2, None, v2, r) /\ v2.dora = v.dora
<1>1. PICK a, c : a = m2.seat /\ c = m2.call
  OBVIOUS
<1>2. /\ a = t.turn /\ a \in 0..3 /\ a \in 0..9 /\ c \in OwnKans /\ t.stage = "act" /\ t.drew
  <2>1. a \in 0..(t.n - 1) /\ a = t.turn /\ c \in OwnKans /\ t.stage = "act" /\ t.drew
    BY <1>1, TableFields DEF HasKan
  <2>. QED
    BY <2>1, SeatSpan
<1>3. PICK e : e = Ev(c, a)
  OBVIOUS
<1>4. e.type = c /\ e.actor = a
  BY <1>3 DEF Ev
<1>7. /\ v \in Views /\ IsRecord(r) /\ r.running = t.score /\ v.phase = "hand" /\ v.holder = a
      /\ v.reach = Nobody /\ v.drew /\ v.players = t.n /\ v.seat = t.me /\ v.accepted = t.accepted
  BY <1>2 DEF Hand, Nobody, None
<1>8. Says(v, e)
  <2>1. Shaped(e)
    BY <1>2, <1>3, Shapes DEF EventTypes, OwnKans
  <2>2. Legal(v, e)
    BY <1>2, <1>4, <1>7 DEF Legal, Holds, InPlay, Calls, OwnKans
  <2>. QED
    BY <2>1, <2>2 DEF Says
<1>11. PICK v2 : v2 = [v EXCEPT !.holder = Nobody, !.drew = FALSE, !.floor = a, !.next = a]
  OBVIOUS
<1>12. After(v, e) = v2
  <2>1. e.type \in OwnKans /\ e.type \notin Calls /\ e.type # "start_game" /\ e.type # "start_kyoku" /\ e.type # "tsumo" /\ e.type # "reach"
        /\ e.type # "dahai" /\ e.type # "reach_accepted" /\ e.type # "dora"
        /\ e.type # "hora" /\ e.type # "ryukyoku" /\ e.type # "end_kyoku" /\ e.type # "end_game"
    BY <1>2, <1>4 DEF Calls, OwnKans
  <2>2. After(v, e) = [v EXCEPT !.holder = Nobody, !.drew = FALSE, !.floor = e.actor, !.next = e.actor]
    BY <2>1 DEF After
  <2>. QED
    BY <1>4, <1>11, <2>2
<1>13. Scores!Record(r, e) = r
  BY <1>2, <1>4 DEF Scores!Record, OwnKans
<1>14. v2 \in Views /\ v2.dora = v.dora /\ v2.reach = v.reach /\ v2.accepted = v.accepted /\ v2.phase = v.phase
         /\ v2.players = v.players /\ v2.seat = v.seat /\ v2.holder = Nobody /\ v2.drew = FALSE
         /\ v2.next = a
  <2>1. Nobody \in 0..9
    BY DEF Nobody
  <2>. QED
    BY <1>2, <1>7, <1>11, <2>1 DEF Views
<1>15. Hand(t2, None, v2, r)
  <2>1. t2.n = t.n /\ t2.me = t.me /\ t2.turn = a /\ t2.accepted = t.accepted /\ t2.score = t.score
        /\ t2.stage = "open" /\ t2.kan # "none"
    BY <1>1, <1>2 DEF HasKan, SameHand, SameGame, OwnKans
  <2>4. Nobody = None
    BY DEF Nobody, None
  <2>. QED
    BY <1>7, <1>14, <2>1, <2>4 DEF Hand
<1>16. Plays(v, r, <<e>>, v2, r)
  BY <1>8, <1>12, <1>13, PlaysOne
<1>. QED
  BY <1>1, <1>3, <1>14, <1>15, <1>16

LEMMA HandCloses ==
  ASSUME NEW t, TableOK(t), t.stage \in {"act", "open"}, t.stage = "act" => t.drew, NEW pend, NEW v,
         NEW r, Hand(t, pend, v, r)
  PROVE  Closing(t, v, r) /\ v.phase = "hand"
<1>1. t.score \in [0..(t.n - 1) -> Int]
  BY DEF TableOK
<1>. QED
  BY <1>1 DEF Hand, Closing

LEMMA SomePoints ==
  ASSUME NEW n \in 3..4, NEW d \in [0..(n - 1) -> Int]
  PROVE  d # <<>> /\ DOMAIN d = 0..(n - 1)
<1>1. 0 \in 0..(n - 1) /\ DOMAIN d = 0..(n - 1)
  OBVIOUS
<1>2. ~(0 \in DOMAIN <<>>)
  OBVIOUS
<1>. QED
  BY <1>1, <1>2

LEMMA Added ==
  ASSUME NEW n \in 3..4, NEW x \in [0..(n - 1) -> Int], NEW d \in [0..(n - 1) -> Int]
  PROVE  Scores!add_deltas(x, d) = [a \in 0..(n - 1) |-> x[a] + d[a]] /\ Scores!add_deltas(x, d) \in [0..(n - 1) -> Int]
<1>1. d # <<>> /\ DOMAIN x = 0..(n - 1)
  BY SomePoints
<1>2. Scores!add_deltas(x, d) = [a \in 0..(n - 1) |-> x[a] + d[a]]
  BY <1>1 DEF Scores!add_deltas
<1>. QED
  BY <1>2

Summed(n, sc, d) == [x \in 0..(n - 1) |-> sc[x] + d[x]]
HoraOf(a, g, d) == [Ev("hora", a) EXCEPT !.target = g, !.scores = d]

(* The hand won by a with the tile of g.                                     *)
WonFor(t, v, r, a, g, d, v2, r2) ==
  /\ Plays(v, r, <<HoraOf(a, g, d)>>, v2, r2)
  /\ Closing(t, v2, r2) /\ v2.phase = "won" /\ v2.target = g
  /\ r2.running = Summed(t.n, r.running, d)

LEMMA SeeHora ==
  ASSUME NEW t, TableOK(t), NEW v, NEW r, Closing(t, v, r), v.phase \in {"hand", "won", "ended"},
         NEW a, NEW g, a \in 0..(t.n - 1), g \in 0..(t.n - 1), NEW d, d \in [0..(t.n - 1) -> Int]
  PROVE  \E v2, r2 : WonFor(t, v, r, a, g, d, v2, r2)
<1>1. PICK e : e = [Ev("hora", a) EXCEPT !.target = g, !.scores = d]
  OBVIOUS
<1>2. e.type = "hora" /\ e.actor = a /\ e.target = g /\ e.giri = FALSE /\ e.scores = d
  BY <1>1 DEF Ev
<1>3. a \in 0..3 /\ g \in 0..3 /\ g \in 0..9
  BY SeatSpan
<1>4. v \in Views /\ IsRecord(r) /\ r.running \in [0..(t.n - 1) -> Int] /\ (v.drew \/ v.holder = Nobody)
      /\ v.players = t.n /\ v.seat = t.me
  BY DEF Closing
<1>5. Says(v, e)
  <2>1. Shaped(e)
    BY <1>2, <1>3 DEF Shaped, EventTypes
  <2>2. Legal(v, e)
    BY <1>2, <1>4 DEF Legal, Calls, OwnKans
  <2>. QED
    BY <2>1, <2>2 DEF Says
<1>6. PICK v2, r2 : v2 = [v EXCEPT !.phase = "won", !.target = g] /\ r2 = Scores!Record(r, e)
  OBVIOUS
<1>7. After(v, e) = v2
  BY <1>2, <1>6 DEF After, Calls, OwnKans
<1>8. v2 \in Views /\ v2.phase = "won" /\ v2.target = g /\ v2.players = v.players /\ v2.seat = v.seat /\ v2.drew = v.drew /\ v2.holder = v.holder
  BY <1>3, <1>4, <1>6 DEF Views
<1>9. IsRecord(r2) /\ r2.running = [x \in 0..(t.n - 1) |-> r.running[x] + d[x]] /\ r2.running \in [0..(t.n - 1) -> Int]
  <2>1. r = [running |-> r.running, final |-> r.final]
    BY <1>4 DEF IsRecord
  <2>2. r2 = [r EXCEPT !.running = Scores!add_deltas(r.running, d)]
    BY <1>2, <1>6 DEF Scores!Record
  <2>3. r2 = [running |-> Scores!add_deltas(r.running, d), final |-> r.final]
    BY <2>1, <2>2
  <2>4. t.n \in 3..4
    BY TableFields
  <2>. QED
    BY <1>4, <2>3, <2>4, Added DEF IsRecord
<1>10. Plays(v, r, <<e>>, v2, r2)
  BY <1>5, <1>6, <1>7, PlaysOne
<1>11. Closing(t, v2, r2)
  BY <1>4, <1>8, <1>9 DEF Closing
<1>12. WonFor(t, v, r, a, g, d, v2, r2)
  BY <1>1, <1>8, <1>9, <1>10, <1>11 DEF WonFor, HoraOf, Summed
<1>. QED
  BY <1>12

LEMMA SeeRyukyoku ==
  ASSUME NEW t, TableOK(t), t.stage \in {"act", "open"}, t.stage = "act" => t.drew, NEW v, NEW r,
         Hand(t, None, v, r),
         NEW d, d \in [0..(t.n - 1) -> Int] \/ d = <<>>
  PROVE  \E v2, r2 : /\ Plays(v, r, <<[Ev("ryukyoku", 0) EXCEPT !.scores = d]>>, v2, r2)
                     /\ Closing(t, v2, r2) /\ v2.phase = "won"
                     /\ r2.running = Scores!add_deltas(r.running, d)
<1>1. PICK e : e = [Ev("ryukyoku", 0) EXCEPT !.scores = d]
  OBVIOUS
<1>2. e.type = "ryukyoku" /\ e.actor = 0 /\ e.target = 0 /\ e.giri = FALSE /\ e.scores = d
  BY <1>1 DEF Ev
<1>3. /\ v \in Views /\ IsRecord(r) /\ r.running \in [0..(t.n - 1) -> Int]
      /\ (v.drew \/ v.holder = Nobody)
      /\ v.players = t.n /\ v.seat = t.me /\ v.phase = "hand"
  BY HandCloses DEF Closing
<1>4. v.reach = Nobody
  BY DEF Hand, Nobody, None
<1>5. Says(v, e)
  <2>1. Shaped(e)
    <3>1. 0 \in 0..3 /\ "ryukyoku" \in EventTypes /\ "ryukyoku" # "start_game"
      BY DEF EventTypes
    <3>. QED
      BY <1>2, <3>1 DEF Shaped
  <2>2. Legal(v, e)
    BY <1>2, <1>3, <1>4 DEF Legal, Free, InPlay, Calls, OwnKans
  <2>. QED
    BY <2>1, <2>2 DEF Says
<1>6. PICK v2, r2 : v2 = [v EXCEPT !.phase = "won"] /\ r2 = Scores!Record(r, e)
  OBVIOUS
<1>7. After(v, e) = v2
  BY <1>2, <1>6 DEF After, Calls, OwnKans
<1>8. v2 \in Views /\ v2.phase = "won" /\ v2.players = v.players /\ v2.seat = v.seat /\ v2.drew = v.drew /\ v2.holder = v.holder
  BY <1>3, <1>6 DEF Views
<1>9. IsRecord(r2) /\ r2.running = Scores!add_deltas(r.running, d) /\ r2.running \in [0..(t.n - 1) -> Int]
  <2>1. r = [running |-> r.running, final |-> r.final]
    BY <1>3 DEF IsRecord
  <2>2. r2 = [r EXCEPT !.running = Scores!add_deltas(r.running, d)]
    BY <1>2, <1>6 DEF Scores!Record
  <2>3. r2 = [running |-> Scores!add_deltas(r.running, d), final |-> r.final]
    BY <2>1, <2>2
  <2>4. Scores!add_deltas(r.running, d) \in [0..(t.n - 1) -> Int]
    <3>1. CASE d = <<>>
      BY <3>1, <1>3 DEF Scores!add_deltas
    <3>2. CASE d \in [0..(t.n - 1) -> Int]
      <4>1. t.n \in 3..4
        BY TableFields
      <4>. QED
        BY <3>2, <4>1, <1>3, Added
    <3>. QED
      BY <3>1, <3>2
  <2>. QED
    BY <2>3, <2>4 DEF IsRecord
<1>10. Plays(v, r, <<e>>, v2, r2)
  BY <1>5, <1>6, <1>7, PlaysOne
<1>11. Closing(t, v2, r2)
  BY <1>3, <1>8, <1>9 DEF Closing
<1>. QED
  BY <1>1, <1>8, <1>9, <1>10, <1>11

LEMMA SeeEndKyoku ==
  ASSUME NEW t, NEW v, NEW r, Closing(t, v, r), v.phase = "won"
  PROVE  \E v2 : /\ Plays(v, r, <<Ev("end_kyoku", 0)>>, v2, r)
                 /\ Closing(t, v2, r) /\ v2.phase = "ended" /\ v2.target = v.target
<1>1. PICK e : e = Ev("end_kyoku", 0)
  OBVIOUS
<1>2. e.type = "end_kyoku"
  BY <1>1 DEF Ev
<1>3. v \in Views
  BY DEF Closing
<1>5. Says(v, e)
  <2>1. Shaped(e)
    BY <1>1, Shapes DEF EventTypes
  <2>2. Legal(v, e)
    BY <1>2 DEF Legal, Calls, OwnKans
  <2>. QED
    BY <2>1, <2>2 DEF Says
<1>6. PICK v2 : v2 = [v EXCEPT !.phase = "ended"]
  OBVIOUS
<1>7. After(v, e) = v2 /\ Scores!Record(r, e) = r
  BY <1>2, <1>6 DEF After, Calls, OwnKans, Scores!Record
<1>8. v2 \in Views /\ v2.phase = "ended" /\ v2.players = v.players /\ v2.seat = v.seat /\ v2.drew = v.drew /\ v2.holder = v.holder /\ v2.target = v.target
  BY <1>3, <1>6 DEF Views
<1>10. Plays(v, r, <<e>>, v2, r)
  BY <1>5, <1>7, PlaysOne
<1>11. Closing(t, v2, r)
  BY <1>8 DEF Closing
<1>. QED
  BY <1>1, <1>8, <1>10, <1>11

LEMMA SeeEndGame ==
  ASSUME NEW v, NEW r, v.phase # "off", NEW e, e.type = "end_game", Shaped(e)
  PROVE  Plays(v, r, <<e>>, NoView, [r EXCEPT !.final = Scores!final_scores(r.running, e.scores)])
<1>1. Says(v, e)
  BY DEF Says, Legal, Calls, OwnKans
<1>2. After(v, e) = NoView
  BY DEF After, Calls, OwnKans
<1>3. Scores!Record(r, e) = [r EXCEPT !.final = Scores!final_scores(r.running, e.scores)]
  BY DEF Scores!Record
<1>. QED
  BY <1>1, <1>2, <1>3, PlaysOne
===============================================================================
