------------------------------ MODULE GameScores ------------------------------
(***************************************************************************)
(* The scores of aggregate() (src/src/history/aggregator.rs): a fold over    *)
(* the events of a game.  A start_kyoku sets the running scores, an accepted *)
(* riichi costs a stick, every hora and ryukyoku adds its changes; at the    *)
(* end the platform's own result is taken if there is one, and otherwise the *)
(* leader is topped up to the fixed total.  The other counters of the record *)
(* are left out.                                                            *)
(***************************************************************************)
EXTENDS Integers, Sequences, FiniteSetsExt, MjaiView

CONSTANT Total(_)   (* what the players of a game hold together               *)

NoRecord == [running |-> <<>>, final |-> <<>>]

add_deltas(scores, deltas) ==
  IF deltas = <<>> THEN scores ELSE [a \in DOMAIN scores |-> scores[a] + deltas[a]]

Sum(scores) ==
  LET n == Cardinality(DOMAIN scores)
      upto[k \in 0..n] == IF k = 0 THEN 0 ELSE upto[k - 1] + scores[k - 1]
  IN upto[n]

(* Mutant: the highest seat in a tie.                                        *)
TopLast(scores) ==
  Max({a \in DOMAIN scores : \A b \in DOMAIN scores : scores[a] >= scores[b]})

(* The seat with most points, the lowest of them in a tie.                   *)
Top(scores) ==
  Min({a \in DOMAIN scores : \A b \in DOMAIN scores : scores[a] >= scores[b]})

final_scores(scores, authoritative) ==
  IF authoritative # <<>> THEN authoritative
  ELSE IF Sum(scores) < Total(Cardinality(DOMAIN scores))
       THEN [scores EXCEPT ![Top(scores)] = @ + Total(Cardinality(DOMAIN scores)) - Sum(scores)]
       ELSE scores

Record(r, e) ==
  CASE e.type = "start_game"     -> [running |-> [a \in 0..(e.players - 1) |-> 0], final |-> <<>>]
    [] e.type = "start_kyoku"    -> [r EXCEPT !.running = e.scores]
    [] e.type = "reach_accepted" -> [r EXCEPT !.running[e.actor] = @ - 1]
    [] e.type \in {"hora", "ryukyoku"} -> [r EXCEPT !.running = add_deltas(@, e.scores)]
    [] e.type = "end_game"       -> [r EXCEPT !.final = final_scores(r.running, e.scores)]
    [] OTHER                     -> r
=============================================================================
