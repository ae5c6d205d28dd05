------------------------------ MODULE PlayProofs ------------------------------
(***************************************************************************)
(* Theorems about the three parts between an event and a move: BotManager,   *)
(* which asks the bot, for any seats, any number of events and any capacity  *)
(* of the bus; Autoplay, which clicks, for any number of windows and of      *)
(* retries and any threshold for the reload; and RiichiInject, which writes  *)
(* frames, for any number of windows, hands, tasks and resends, every        *)
(* capacity of the watcher's receiver and any number of messages on their    *)
(* way.  They share no variable.                                             *)
(***************************************************************************)
EXTENDS BotManager, Autoplay, RiichiInject, TLAPS

(* ---- questions to the bot (BotManager) ---- *)

(* What recv and send do to the receiver's queue.                           *)
LEMMA RecvLemma ==
  ASSUME NEW q \in Seq(Event), q # <<>>
  PROVE  Head(q) \in Event /\ Tail(q) \in Seq(Event) /\ Len(Tail(q)) = Len(q) - 1
OBVIOUS

LEMMA SendLemma ==
  ASSUME NEW q \in Seq(Event), NEW e \in Event, q # <<>>
  PROVE  Append(Tail(q), e) \in Seq(Event) /\ Len(Append(Tail(q), e)) = Len(q)
OBVIOUS

(* Delivering an event keeps the receiver's queue a bounded queue of events.*)
LEMMA DeliverType ==
  ASSUME post \in Seq(Event), Len(post) <= PostCap, lost \subseteq Nat,
         NEW e \in Event, Deliver(e)
  PROVE  post' \in Seq(Event) /\ Len(post') <= PostCap /\ lost' \subseteq Nat
<1>1. CASE Len(post) = PostCap
  <2>1. post # <<>>
    BY <1>1, ManagerBoundsAssumption
  <2>2. Head(post) \in Event /\ Append(Tail(post), e) \in Seq(Event)
        /\ Len(Append(Tail(post), e)) = Len(post)
    BY <2>1, RecvLemma, SendLemma
  <2>3. Head(post).id \in Nat
    BY <2>2 DEF Event
  <2>4. post' = Append(Tail(post), e) /\ lost' = lost \cup {Head(post).id}
    BY <1>1 DEF Deliver
  <2>. QED
    BY <2>2, <2>3, <2>4
<1>2. CASE Len(post) # PostCap
  <2>1. post' = Append(post, e) /\ lost' = lost
    BY <1>2 DEF Deliver
  <2>. QED
    BY <1>2, <2>1, ManagerBoundsAssumption
<1>. QED
  BY <1>1, <1>2

(* Reading a line moves read within written and records a typed answer.     *)
LEMMA ReadLineType ==
  ASSUME asked \in Nat, written \in 0..asked, read \in 0..written, ReadLine
  PROVE  read' \in 0..written /\ taken' \in [question : Nat, line : Nat]
BY DEF ReadLine

LEMMA TypeInductive == ManagerTypeOK /\ [ManagerNext]_managerVars => ManagerTypeOK'
<1>. SUFFICES ASSUME ManagerTypeOK, [ManagerNext]_managerVars
              PROVE  ManagerTypeOK'
  OBVIOUS
<1>0. asked \in Nat /\ written \in 0..asked /\ read \in 0..written
  BY DEF ManagerTypeOK
<1>1. ASSUME NEW kind \in Kinds, NEW actor \in Seats \cup {NoSeat}, NEW can \in BOOLEAN,
             Publish(kind, actor, can)
      PROVE  ManagerTypeOK'
  <2>. DEFINE e == [id |-> published + 1, kind |-> kind, actor |-> actor, can |-> can]
  <2>1. published' \in 0..MaxEvents
    BY <1>1, ManagerBoundsAssumption DEF ManagerTypeOK, Publish
  <2>2. e \in Event /\ Deliver(e)
    BY <1>1 DEF ManagerTypeOK, Publish, Event
  <2>3. post' \in Seq(Event) /\ Len(post') <= PostCap /\ lost' \subseteq Nat
    BY <2>2, DeliverType DEF ManagerTypeOK
  <2>4. stage' \in {"lobby", "table", "hand"} /\ declared' \subseteq Seats
    BY <1>1 DEF ManagerTypeOK, Publish, ByASeat
  <2>. QED
    BY <1>1, <2>1, <2>3, <2>4 DEF ManagerTypeOK, Publish, view, pipe
<1>2. CASE ToggleAutoplay
  BY <1>2 DEF ManagerTypeOK, ToggleAutoplay, table, view, pipe
<1>3. ASSUME post # <<>>, Receive(Head(post))
      PROVE  ManagerTypeOK'
  <2>. DEFINE e == Head(post)
  <2>0. post \in Seq(Event) /\ Len(post) <= PostCap
    BY DEF ManagerTypeOK
  <2>1. e \in Event /\ Tail(post) \in Seq(Event) /\ Len(Tail(post)) = Len(post) - 1
    BY <1>3, <2>0, RecvLemma
  <2>11. e.id \in Nat /\ e.kind \in Kinds /\ e.actor \in Seats \cup {NoSeat}
    BY <2>1 DEF Event
  <2>2. post' = Tail(post)
    BY <1>3 DEF Receive, StartGameIdle, StartGameSpawn, Ignore, SkipEcho, Buffer, Ask, Takes
  <2>3. post' \in Seq(Event) /\ Len(post') <= PostCap
    BY <2>0, <2>1, <2>2, ManagerBoundsAssumption
  <2>4. DropAfter(e) \in BOOLEAN
    BY DEF DropAfter, ManagerTypeOK
  <2>5. CASE StartGameIdle(e)
    BY <2>1, <2>11, <2>3, <2>5 DEF ManagerTypeOK, StartGameIdle, table, view, pipe, Statuses, ByASeat
  <2>6. CASE StartGameSpawn(e)
    BY <2>1, <2>11, <2>3, <2>6 DEF ManagerTypeOK, StartGameSpawn, table, view, pipe, Statuses, Phases
  <2>7. CASE Ignore(e)
    BY <2>1, <2>11, <2>3, <2>4, <2>7 DEF ManagerTypeOK, Ignore, table, view, pipe
  <2>8. CASE SkipEcho(e)
    BY <2>1, <2>11, <2>3, <2>8 DEF ManagerTypeOK, SkipEcho, table, view, pipe
  <2>9. CASE Buffer(e)
    BY <2>1, <2>11, <2>3, <2>4, <2>9 DEF ManagerTypeOK, Buffer, Show, table, view, pipe
  <2>10. CASE Ask(e)
    <3>1. asked' \in Nat /\ written' \in 0..asked' /\ read' \in 0..written'
      BY <1>0, <2>10 DEF Ask
    <3>2. fed' \subseteq Nat /\ pending' \subseteq Nat
      BY <2>10, <2>11 DEF ManagerTypeOK, Ask
    <3>3. reaches' \in Nat /\ unresolved' \in BOOLEAN
      BY <2>10, <2>11 DEF ManagerTypeOK, Ask, Show
    <3>4. handling' \in Event /\ step' \in Phases /\ followable' \in BOOLEAN
      BY <2>1, <2>10 DEF ManagerTypeOK, Ask, Phases
    <3>5. UNCHANGED <<table, autoplay, actorId, up, status, seat, born, slipped,
                      skipped, lost, taken>> /\ drop' \in BOOLEAN
      BY <2>4, <2>10 DEF Ask
    <3>. QED
      BY <2>3, <3>1, <3>2, <3>3, <3>4, <3>5 DEF ManagerTypeOK, table
  <2>. QED
    BY <1>3, <2>5, <2>6, <2>7, <2>8, <2>9, <2>10 DEF Receive
<1>4. CASE Resume
  <2>1. CASE SpawnReady
    <3>0. handling \in Event \cup {NoEvent}
      BY DEF ManagerTypeOK
    <3>1. handling.id \in Nat
      BY <3>0 DEF Event, NoEvent
    <3>2. 0 \in 0..0 /\ [question |-> 0, line |-> 0] \in [question : Nat, line : Nat]
      OBVIOUS
    <3>3. asked' \in Nat /\ written' \in 0..asked' /\ read' \in 0..written'
          /\ taken' \in [question : Nat, line : Nat]
      BY <2>1, <3>2 DEF SpawnReady
    <3>. QED
      BY <2>1, <3>1, <3>3 DEF ManagerTypeOK, SpawnReady, HandlerEnds, table, Phases, Statuses
  <2>2. CASE SpawnFailed
    BY <2>2 DEF ManagerTypeOK, SpawnFailed, HandlerEnds, table, view, pipe, Phases, Statuses
  <2>3. CASE Answered
    <3>0. ReadLine /\ written' = written /\ asked' \in {asked, asked + 1}
      BY <2>3 DEF Answered
    <3>1. asked' \in Nat /\ written' \in 0..asked' /\ read' \in 0..written'
          /\ taken' \in [question : Nat, line : Nat]
      BY <3>0, <1>0, ReadLineType
    <3>. QED
      BY <2>3, <3>1 DEF ManagerTypeOK, Answered, Broadcast, HandlerEnds, table, view, pipe, Phases, Statuses
  <2>4. CASE FollowUp
    <3>0. ReadLine /\ written' = written /\ asked' \in {asked, asked + 1}
      BY <2>4 DEF FollowUp
    <3>1. asked' \in Nat /\ written' \in 0..asked' /\ read' \in 0..written'
          /\ taken' \in [question : Nat, line : Nat]
      BY <3>0, <1>0, ReadLineType
    <3>. QED
      BY <2>4, <3>1 DEF ManagerTypeOK, FollowUp, table, view, pipe, Phases
  <2>5. CASE ReactFailed
    BY <2>5 DEF ManagerTypeOK, ReactFailed, HandlerEnds, table, view, pipe, Phases, Statuses
  <2>6. ASSUME NEW outcome \in Outcomes, FollowedUp(outcome)
        PROVE  ManagerTypeOK'
    <3>1. asked' \in Nat /\ written' \in 0..asked' /\ read' \in 0..written'
          /\ taken' \in [question : Nat, line : Nat]
      BY <2>6, ReadLineType DEF ManagerTypeOK, FollowedUp
    <3>2. slipped' \in BOOLEAN /\ unresolved' \in BOOLEAN /\ drop' \in BOOLEAN
      BY <2>6 DEF ManagerTypeOK, FollowedUp
    <3>. QED
      BY <2>6, <3>1, <3>2 DEF ManagerTypeOK, FollowedUp, Broadcast, HandlerEnds, table, view, pipe, Phases, Statuses
  <2>. QED
    BY <1>4, <2>1, <2>2, <2>3, <2>4, <2>5, <2>6 DEF Resume
<1>5. CASE BotWrites
  BY <1>5 DEF ManagerTypeOK, BotWrites, table, view, pipe
<1>6. CASE UNCHANGED managerVars
  BY <1>6 DEF ManagerTypeOK, managerVars
<1>. QED
  BY <1>1, <1>2, <1>3, <1>4, <1>5, <1>6 DEF ManagerNext

(* Every variable keeps its type; the receiver never holds more than its    *)
(* capacity, and the bot never writes a line nobody asked for.              *)
THEOREM ManagerTypeSafety == ManagerSpec => []ManagerTypeOK
<1>1. ASSUME ManagerInit
      PROVE  ManagerTypeOK
  <2>1. post \in Seq(Event) /\ Len(post) <= PostCap
    BY <1>1, ManagerBoundsAssumption DEF ManagerInit
  <2>2. published \in 0..MaxEvents
    BY <1>1, ManagerBoundsAssumption DEF ManagerInit
  <2>3. taken \in [question : Nat, line : Nat]
    BY <1>1 DEF ManagerInit
  <2>4. handling \in Event \cup {NoEvent}
    BY <1>1 DEF ManagerInit
  <2>5. asked \in Nat /\ written \in 0..asked /\ read \in 0..written
        /\ reaches \in Nat /\ born \in Nat
    BY <1>1 DEF ManagerInit
  <2>6. step \in Phases /\ status \in Statuses /\ stage \in {"lobby", "table", "hand"}
    BY <1>1 DEF ManagerInit, Phases, Statuses
  <2>7. up \in BOOLEAN /\ drop \in BOOLEAN /\ followable \in BOOLEAN
        /\ slipped \in BOOLEAN /\ unresolved \in BOOLEAN /\ autoplay \in BOOLEAN
    BY <1>1 DEF ManagerInit
  <2>8. actorId \in Seats \cup {NoSeat} /\ seat \in Seats \cup {NoSeat}
        /\ declared \subseteq Seats /\ pending \subseteq Nat /\ fed \subseteq Nat
        /\ skipped \subseteq Nat /\ lost \subseteq Nat
    BY <1>1 DEF ManagerInit
  <2>. QED
    BY <2>1, <2>2, <2>3, <2>4, <2>5, <2>6, <2>7, <2>8 DEF ManagerTypeOK
<1>. QED
  BY <1>1, TypeInductive, PTL DEF ManagerSpec
-----------------------------------------------------------------------------
(* The handler is suspended in react().                                     *)
Waiting == step \in {"asking", "following"}

(* StatusTellsRunner, strengthened: it holds during react() too, which only *)
(* a live runner is asked.                                                  *)
StatusInv ==
  /\ step # "spawning" => (status = "Ready" <=> up)
  /\ Waiting => up

LEMMA StatusInductive == ManagerTypeOK /\ StatusInv /\ [ManagerNext]_managerVars => StatusInv'
<1>. SUFFICES ASSUME ManagerTypeOK, StatusInv, [ManagerNext]_managerVars
              PROVE  StatusInv'
  OBVIOUS
<1>. USE DEF StatusInv, Waiting
<1>0. up \in BOOLEAN
  BY DEF ManagerTypeOK
<1>1. ASSUME NEW kind \in Kinds, NEW actor \in Seats \cup {NoSeat}, NEW can \in BOOLEAN,
             Publish(kind, actor, can)
      PROVE  StatusInv'
  BY <1>1 DEF Publish
<1>2. CASE ToggleAutoplay
  BY <1>2 DEF ToggleAutoplay
<1>3. ASSUME NEW e, Receive(e)
      PROVE  StatusInv'
  <2>1. CASE StartGameIdle(e)
    BY <2>1 DEF StartGameIdle, Takes
  <2>2. CASE StartGameSpawn(e)
    BY <2>2 DEF StartGameSpawn
  <2>3. CASE Ignore(e)
    BY <2>3 DEF Ignore, Takes
  <2>4. CASE SkipEcho(e)
    BY <2>4 DEF SkipEcho, Takes
  <2>5. CASE Buffer(e)
    BY <2>5 DEF Buffer, Takes
  <2>6. CASE Ask(e)
    BY <2>6 DEF Ask, Takes
  <2>. QED
    BY <1>3, <2>1, <2>2, <2>3, <2>4, <2>5, <2>6 DEF Receive
<1>4. CASE Resume
  <2>1. CASE SpawnReady
    BY <2>1 DEF SpawnReady, HandlerEnds
  <2>2. CASE SpawnFailed
    BY <2>2 DEF SpawnFailed, HandlerEnds
  <2>3. CASE Answered
    BY <1>0, <2>3 DEF Answered, Broadcast, HandlerEnds
  <2>4. CASE FollowUp
    BY <2>4 DEF FollowUp
  <2>5. CASE ReactFailed
    BY <2>5 DEF ReactFailed, HandlerEnds
  <2>6. ASSUME NEW outcome \in Outcomes, FollowedUp(outcome)
        PROVE  StatusInv'
    BY <1>0, <2>6 DEF FollowedUp, Broadcast, HandlerEnds
  <2>. QED
    BY <1>4, <2>1, <2>2, <2>3, <2>4, <2>5, <2>6 DEF Resume
<1>5. CASE BotWrites
  BY <1>5 DEF BotWrites
<1>6. CASE UNCHANGED managerVars
  BY <1>6 DEF managerVars
<1>. QED
  BY <1>1, <1>2, <1>3, <1>4, <1>5, <1>6 DEF ManagerNext

(* Between events the status shown to the user is Ready exactly when the    *)
(* manager holds a runner (emit_status against `runner`, manager.rs).       *)
THEOREM StatusSafety == ManagerSpec => []StatusTellsRunner
<1>1. ManagerInit => StatusInv
  BY DEF ManagerInit, StatusInv, Waiting
<1>2. StatusInv => StatusTellsRunner
  BY DEF StatusInv, StatusTellsRunner
<1>. QED
  BY <1>1, <1>2, ManagerTypeSafety, StatusInductive, PTL DEF ManagerSpec

LEMMA SeatInductive == ManagerTypeOK /\ RunnerPlaysOurSeat /\ [ManagerNext]_managerVars => RunnerPlaysOurSeat'
<1>. SUFFICES ASSUME ManagerTypeOK, RunnerPlaysOurSeat, [ManagerNext]_managerVars
              PROVE  RunnerPlaysOurSeat'
  OBVIOUS
<1>. USE DEF RunnerPlaysOurSeat
<1>0. up \in BOOLEAN
  BY DEF ManagerTypeOK
<1>1. ASSUME NEW kind \in Kinds, NEW actor \in Seats \cup {NoSeat}, NEW can \in BOOLEAN,
             Publish(kind, actor, can)
      PROVE  RunnerPlaysOurSeat'
  BY <1>1 DEF Publish, view, pipe
<1>2. CASE ToggleAutoplay
  BY <1>2 DEF ToggleAutoplay, table, view, pipe
<1>3. ASSUME NEW e, Receive(e)
      PROVE  RunnerPlaysOurSeat'
  <2>1. CASE StartGameIdle(e)
    BY <2>1 DEF StartGameIdle, Takes, view, pipe
  <2>2. CASE StartGameSpawn(e)
    BY <2>2 DEF StartGameSpawn, Takes, view, pipe
  <2>3. CASE Ignore(e)
    BY <2>3 DEF Ignore, Takes, view, pipe
  <2>4. CASE SkipEcho(e)
    BY <2>4 DEF SkipEcho, Takes, view, pipe
  <2>5. CASE Buffer(e)
    BY <2>5 DEF Buffer, Takes, view, pipe
  <2>6. CASE Ask(e)
    BY <2>6 DEF Ask, Takes, view, pipe
  <2>. QED
    BY <1>3, <2>1, <2>2, <2>3, <2>4, <2>5, <2>6 DEF Receive
<1>4. CASE Resume
  <2>1. CASE SpawnReady
    BY <2>1 DEF SpawnReady, HandlerEnds
  <2>2. CASE SpawnFailed
    BY <2>2 DEF SpawnFailed, HandlerEnds, view, pipe
  <2>3. CASE Answered
    BY <1>0, <2>3 DEF Answered, Broadcast, HandlerEnds, view
  <2>4. CASE FollowUp
    BY <2>4 DEF FollowUp
  <2>5. CASE ReactFailed
    BY <2>5 DEF ReactFailed, HandlerEnds, view, pipe
  <2>6. ASSUME NEW outcome \in Outcomes, FollowedUp(outcome)
        PROVE  RunnerPlaysOurSeat'
    BY <1>0, <2>6 DEF FollowedUp, Broadcast, HandlerEnds
  <2>. QED
    BY <1>4, <2>1, <2>2, <2>3, <2>4, <2>5, <2>6 DEF Resume
<1>5. CASE BotWrites
  BY <1>5 DEF BotWrites, view
<1>6. CASE UNCHANGED managerVars
  BY <1>6 DEF managerVars
<1>. QED
  BY <1>1, <1>2, <1>3, <1>4, <1>5, <1>6 DEF ManagerNext

(* A runner plays the seat the current start_game announced: a rejoin at    *)
(* another seat replaces the runner before it is asked anything.            *)
THEOREM SeatSafety == ManagerSpec => []RunnerPlaysOurSeat
<1>1. ManagerInit => RunnerPlaysOurSeat
  BY DEF ManagerInit, RunnerPlaysOurSeat
<1>. QED
  BY <1>1, ManagerTypeSafety, SeatInductive, PTL DEF ManagerSpec

-----------------------------------------------------------------------------
(* LineInStep, strengthened: while no follow-up has slipped, every line read *)
(* answered a question, so the manager is one line short exactly while it   *)
(* waits.                                                                   *)
LineInv ==
  /\ Waiting => up
  /\ up /\ ~slipped => asked = read + (IF Waiting THEN 1 ELSE 0)
  /\ LineInStep

LEMMA LineInductive == ManagerTypeOK /\ LineInv /\ [ManagerNext]_managerVars => LineInv'
<1>. SUFFICES ASSUME ManagerTypeOK, LineInv, [ManagerNext]_managerVars
              PROVE  LineInv'
  OBVIOUS
<1>. USE DEF LineInv, LineInStep, Waiting
<1>0. up \in BOOLEAN /\ slipped \in BOOLEAN /\ asked \in Nat /\ read \in Nat
  BY DEF ManagerTypeOK
<1>1. ASSUME NEW kind \in Kinds, NEW actor \in Seats \cup {NoSeat}, NEW can \in BOOLEAN,
             Publish(kind, actor, can)
      PROVE  LineInv'
  BY <1>1 DEF Publish, view, pipe
<1>2. CASE ToggleAutoplay
  BY <1>2 DEF ToggleAutoplay, table, view, pipe
<1>3. ASSUME NEW e, Receive(e)
      PROVE  LineInv'
  <2>1. CASE StartGameIdle(e)
    BY <2>1 DEF StartGameIdle, Takes, view, pipe
  <2>2. CASE StartGameSpawn(e)
    BY <2>2 DEF StartGameSpawn, Takes, view, pipe
  <2>3. CASE Ignore(e)
    BY <2>3 DEF Ignore, Takes, view, pipe
  <2>4. CASE SkipEcho(e)
    BY <2>4 DEF SkipEcho, Takes, view, pipe
  <2>5. CASE Buffer(e)
    BY <2>5 DEF Buffer, Takes, view, pipe
  <2>6. CASE Ask(e)
    BY <1>0, <2>6 DEF Ask, Takes
  <2>. QED
    BY <1>3, <2>1, <2>2, <2>3, <2>4, <2>5, <2>6 DEF Receive
<1>4. CASE Resume
  <2>1. CASE SpawnReady
    BY <1>0, <2>1 DEF SpawnReady, HandlerEnds
  <2>2. CASE SpawnFailed
    BY <2>2 DEF SpawnFailed, HandlerEnds, view, pipe
  <2>3. CASE Answered
    BY <1>0, <2>3 DEF Answered, ReadLine, Broadcast, HandlerEnds, view
  <2>4. CASE FollowUp
    BY <1>0, <2>4 DEF FollowUp, ReadLine
  <2>5. CASE ReactFailed
    BY <2>5 DEF ReactFailed, HandlerEnds, view, pipe
  <2>6. ASSUME NEW outcome \in Outcomes, FollowedUp(outcome)
        PROVE  LineInv'
    <3>1. CASE outcome = "late"
      BY <1>0, <2>6, <3>1 DEF FollowedUp, Broadcast, HandlerEnds
    <3>2. CASE outcome # "late"
      BY <1>0, <2>6, <3>2 DEF FollowedUp, ReadLine, Broadcast, HandlerEnds
    <3>. QED
      BY <3>1, <3>2
  <2>. QED
    BY <1>4, <2>1, <2>2, <2>3, <2>4, <2>5, <2>6 DEF Resume
<1>5. CASE BotWrites
  BY <1>5 DEF BotWrites, view
<1>6. CASE UNCHANGED managerVars
  BY <1>6 DEF managerVars
<1>. QED
  BY <1>1, <1>2, <1>3, <1>4, <1>5, <1>6 DEF ManagerNext

(* Until a reach follow-up times out, the line taken for an answer is the   *)
(* one the bot wrote to that question, however slow the bot is and however  *)
(* often runners are replaced (runner.rs, one line per react()).            *)
THEOREM LineSafety == ManagerSpec => []LineInStep
<1>1. ManagerInit => LineInv
  BY DEF ManagerInit, LineInv, LineInStep, Waiting
<1>2. LineInv => LineInStep
  BY DEF LineInv
<1>. QED
  BY <1>1, <1>2, ManagerTypeSafety, LineInductive, PTL DEF ManagerSpec

-----------------------------------------------------------------------------
(* DropOnlyRepeats, strengthened with what holds while the manager waits.   *)
DropInv ==
  /\ Waiting => up
  /\ step = "following" => reaches >= 1
  /\ step = "spawning" => ~drop
  /\ DropOnlyRepeats

LEMMA DropInductive == ManagerTypeOK /\ DropInv /\ [ManagerNext]_managerVars => DropInv'
<1>. SUFFICES ASSUME ManagerTypeOK, DropInv, [ManagerNext]_managerVars
              PROVE  DropInv'
  OBVIOUS
<1>. USE DEF DropInv, DropOnlyRepeats, Waiting
<1>0. up \in BOOLEAN /\ drop \in BOOLEAN /\ reaches \in Nat
  BY DEF ManagerTypeOK
<1>1. ASSUME NEW kind \in Kinds, NEW actor \in Seats \cup {NoSeat}, NEW can \in BOOLEAN,
             Publish(kind, actor, can)
      PROVE  DropInv'
  BY <1>1 DEF Publish, view, pipe
<1>2. CASE ToggleAutoplay
  BY <1>2 DEF ToggleAutoplay, table, view, pipe
<1>3. ASSUME NEW e, Receive(e)
      PROVE  DropInv'
  <2>1. CASE StartGameIdle(e)
    BY <2>1 DEF StartGameIdle, Takes, view, pipe
  <2>2. CASE StartGameSpawn(e)
    BY <2>2 DEF StartGameSpawn, Takes, view, pipe
  <2>3. CASE Ignore(e)
    BY <1>0, <2>3 DEF Ignore, Takes, view
  <2>4. CASE SkipEcho(e)
    BY <2>4 DEF SkipEcho, Takes, view, pipe
  <2>5. CASE Buffer(e)
    BY <1>0, <2>5 DEF Buffer, Takes, Show, DropAfter, IsBoundary
  <2>6. CASE Ask(e)
    BY <1>0, <2>6 DEF Ask, Takes, Show, DropAfter, IsBoundary
  <2>. QED
    BY <1>3, <2>1, <2>2, <2>3, <2>4, <2>5, <2>6 DEF Receive
<1>4. CASE Resume
  <2>1. CASE SpawnReady
    BY <2>1 DEF SpawnReady, HandlerEnds
  <2>2. CASE SpawnFailed
    BY <2>2 DEF SpawnFailed, HandlerEnds, view, pipe
  <2>3. CASE Answered
    BY <1>0, <2>3 DEF Answered, Broadcast, HandlerEnds, view
  <2>4. CASE FollowUp
    BY <1>0, <2>4 DEF FollowUp, ReadLine
  <2>5. CASE ReactFailed
    BY <2>5 DEF ReactFailed, HandlerEnds, view, pipe
  <2>6. ASSUME NEW outcome \in Outcomes, FollowedUp(outcome)
        PROVE  DropInv'
    BY <1>0, <2>6 DEF FollowedUp, Broadcast, HandlerEnds
  <2>. QED
    BY <1>4, <2>1, <2>2, <2>3, <2>4, <2>5, <2>6 DEF Resume
<1>5. CASE BotWrites
  BY <1>5 DEF BotWrites, view
<1>6. CASE UNCHANGED managerVars
  BY <1>6 DEF managerVars
<1>. QED
  BY <1>1, <1>2, <1>3, <1>4, <1>5, <1>6 DEF ManagerNext

(* The mark that withholds the echo never outlives the hand whose reach it  *)
(* stands for, so the echo of another hand is never swallowed.              *)
THEOREM DropSafety == ManagerSpec => []DropOnlyRepeats
<1>1. ManagerInit => DropInv
  BY DEF ManagerInit, DropInv, DropOnlyRepeats, Waiting
<1>2. DropInv => DropOnlyRepeats
  BY DEF DropInv
<1>. QED
  BY <1>1, <1>2, ManagerTypeSafety, DropInductive, PTL DEF ManagerSpec


-----------------------------------------------------------------------------
(* FeedIsComplete, strengthened.  Event ids count from 1, so the receiver   *)
(* holds the ids after Handled in order, and while a runner is spawned its  *)
(* start_game is the only event of the new game that was not lost.          *)
QueueInv ==
  /\ Len(post) <= published
  /\ \A i \in 1..Len(post) : post[i].id = Handled + i

Shown(first) == (first..Handled) \ (skipped \cup lost)

FeedInv ==
  /\ QueueInv
  /\ lost \subseteq 1..Handled /\ skipped \subseteq 1..Handled
  /\ Waiting => up
  /\ up /\ step # "spawning" => born \in 1..Handled
  /\ step = "spawning" => handling.id \in 1..Handled /\ Shown(handling.id) = {handling.id}
  /\ FeedIsComplete

(* The next number of an interval, kept and withheld.                       *)
LEMMA IntervalGrows ==
  ASSUME NEW b \in Nat, NEW h \in Nat, NEW S, b <= h + 1
  PROVE  /\ h + 1 \notin S => (b..(h + 1)) \ S = ((b..h) \ S) \cup {h + 1}
         /\ (b..(h + 1)) \ (S \cup {h + 1}) = (b..h) \ S
OBVIOUS

(* recv hands over the event numbered next.                                 *)
LEMMA RecvNext ==
  ASSUME ManagerTypeOK, QueueInv, post # <<>>, post' = Tail(post), published' = published
  PROVE  /\ Head(post).id = Handled + 1 /\ Handled' = Handled + 1
         /\ Handled \in Nat /\ QueueInv'
<1>1. post \in Seq(Event) /\ published \in Nat /\ Len(post) <= published
  BY ManagerBoundsAssumption DEF ManagerTypeOK, QueueInv
<1>2. Len(post') = Len(post) - 1 /\ Head(post) = post[1] /\ Len(post) >= 1
      /\ Len(post) \in Nat
  BY <1>1
<1>3. Handled' = Handled + 1 /\ Handled \in Nat
  BY <1>1, <1>2 DEF Handled
<1>4. Head(post).id = Handled + 1
  BY <1>2 DEF QueueInv
<1>5. ASSUME NEW i \in 1..Len(post')
      PROVE  post'[i].id = Handled' + i
  <2>1. i + 1 \in 1..Len(post) /\ post'[i] = post[i + 1]
    BY <1>1, <1>2
  <2>2. post[i + 1].id = Handled + (i + 1)
    BY <2>1 DEF QueueInv
  <2>. QED
    BY <1>3, <2>1, <2>2
<1>6. Len(post') <= published'
  BY <1>1, <1>2
<1>. QED
  BY <1>3, <1>4, <1>5, <1>6 DEF QueueInv

(* send appends the event numbered next, and a lagging receiver counts its  *)
(* oldest event as handled and lost.                                        *)
LEMMA SendNext ==
  ASSUME ManagerTypeOK, QueueInv, NEW e \in Event, e.id = published + 1,
         published' = published + 1, Deliver(e)
  PROVE  /\ QueueInv' /\ Handled \in Nat
         /\ \/ Handled' = Handled /\ lost' = lost
            \/ Handled' = Handled + 1 /\ lost' = lost \cup {Handled + 1}
<1>1. post \in Seq(Event) /\ published \in Nat /\ Len(post) <= published
      /\ Len(post) \in Nat
  BY ManagerBoundsAssumption DEF ManagerTypeOK, QueueInv
<1>2. Handled \in Nat
  BY <1>1 DEF Handled
<1>3. CASE Len(post) = PostCap
  <2>0. post' = Append(Tail(post), e) /\ lost' = lost \cup {Head(post).id}
    BY <1>3 DEF Deliver
  <2>1. Len(post) >= 1 /\ post # <<>>
    BY <1>1, <1>3, ManagerBoundsAssumption
  <2>2. Tail(post) \in Seq(Event) /\ Len(Tail(post)) = Len(post) - 1 /\ Head(post) = post[1]
    BY <1>1, <2>1
  <2>3. Len(post') = Len(post)
    BY <1>1, <2>0, <2>1, <2>2
  <2>4. Handled' = Handled + 1
    BY <1>1, <2>3 DEF Handled
  <2>5. Head(post).id = Handled + 1
    BY <1>1, <2>1, <2>2 DEF QueueInv
  <2>6. ASSUME NEW i \in 1..Len(post')
        PROVE  post'[i].id = Handled' + i
    <3>1. CASE i = Len(post)
      <4>1. post'[i] = e
        BY <1>1, <2>0, <2>2, <3>1
      <4>. QED
        BY <1>1, <2>4, <3>1, <4>1 DEF Handled
    <3>2. CASE i # Len(post)
      <4>1. i \in 1..(Len(post) - 1) /\ i + 1 \in 1..Len(post)
        BY <1>1, <2>3, <3>2
      <4>2. post'[i] = Tail(post)[i]
        BY <1>1, <2>0, <2>2, <4>1
      <4>3. Tail(post)[i] = post[i + 1]
        BY <1>1, <2>1, <4>1
      <4>4. post[i + 1].id = Handled + (i + 1)
        BY <4>1 DEF QueueInv
      <4>. QED
        BY <1>2, <2>4, <4>1, <4>2, <4>3, <4>4
    <3>. QED
      BY <3>1, <3>2
  <2>7. Len(post') <= published'
    BY <1>1, <2>3
  <2>. QED
    BY <1>2, <2>0, <2>4, <2>5, <2>6, <2>7 DEF QueueInv
<1>4. CASE Len(post) # PostCap
  <2>0. post' = Append(post, e) /\ lost' = lost
    BY <1>4 DEF Deliver
  <2>1. Len(post') = Len(post) + 1
    BY <1>1, <2>0
  <2>2. Handled' = Handled
    BY <1>1, <2>1 DEF Handled
  <2>3. ASSUME NEW i \in 1..Len(post')
        PROVE  post'[i].id = Handled' + i
    <3>1. CASE i = Len(post) + 1
      <4>1. post'[i] = e
        BY <1>1, <2>0, <3>1
      <4>. QED
        BY <1>1, <2>2, <3>1, <4>1 DEF Handled
    <3>2. CASE i # Len(post) + 1
      <4>1. i \in 1..Len(post)
        BY <1>1, <2>1, <3>2
      <4>2. post'[i] = post[i]
        BY <1>1, <2>0, <4>1
      <4>. QED
        BY <2>2, <4>1, <4>2 DEF QueueInv
    <3>. QED
      BY <3>1, <3>2
  <2>4. Len(post') <= published'
    BY <1>1, <2>1
  <2>. QED
    BY <1>2, <2>0, <2>2, <2>3, <2>4 DEF QueueInv
<1>. QED
  BY <1>3, <1>4


(* A step that moves no event, and starts no runner, keeps the invariant.   *)
LEMMA FeedFrame ==
  ASSUME FeedInv, UNCHANGED <<published, post, skipped, lost, born, fed, pending>>,
         step' = "spawning" => step = "spawning" /\ handling' = handling,
         Waiting' => up',
         up' /\ step' # "spawning" => up /\ step # "spawning"
  PROVE  FeedInv'
<1>1. Handled' = Handled /\ QueueInv' /\ \A b : Shown(b)' = Shown(b)
  BY DEF FeedInv, QueueInv, Handled, Shown
<1>. QED
  BY <1>1 DEF FeedInv, FeedIsComplete, Shown

LEMMA FeedInductive == ManagerTypeOK /\ FeedInv /\ [ManagerNext]_managerVars => FeedInv'
<1>. SUFFICES ASSUME ManagerTypeOK, FeedInv, [ManagerNext]_managerVars
              PROVE  FeedInv'
  OBVIOUS
<1>0. QueueInv /\ lost \subseteq 1..Handled /\ skipped \subseteq 1..Handled
  BY DEF FeedInv
<1>1. ASSUME NEW kind \in Kinds, NEW actor \in Seats \cup {NoSeat}, NEW can \in BOOLEAN,
             Publish(kind, actor, can)
      PROVE  FeedInv'
  <2>. DEFINE e == [id |-> published + 1, kind |-> kind, actor |-> actor, can |-> can]
  <2>1. e \in Event /\ e.id = published + 1
    BY ManagerBoundsAssumption DEF ManagerTypeOK, Event
  <2>2. published' = published + 1 /\ Deliver(e)
        /\ UNCHANGED <<step, handling, up, pending, born, fed, skipped>>
    BY <1>1 DEF Publish, view
  <2>. HIDE DEF e
  <2>3. /\ QueueInv' /\ Handled \in Nat
        /\ \/ Handled' = Handled /\ lost' = lost
           \/ Handled' = Handled + 1 /\ lost' = lost \cup {Handled + 1}
    BY <1>0, <2>1, <2>2, SendNext
  <2>4. CASE Handled' = Handled /\ lost' = lost
    <3>1. \A b : Shown(b)' = Shown(b)
      BY <2>2, <2>4 DEF Shown
    <3>. QED
      BY <2>2, <2>3, <2>4, <3>1 DEF FeedInv, FeedIsComplete, Shown, Waiting
  <2>5. CASE Handled' = Handled + 1 /\ lost' = lost \cup {Handled + 1}
    <3>1. ASSUME NEW b \in 1..Handled
          PROVE  Shown(b)' = Shown(b)
      <4>1. skipped' \cup lost' = (skipped \cup lost) \cup {Handled + 1}
        BY <2>2, <2>5
      <4>. QED
        BY <2>3, <2>5, <4>1, IntervalGrows DEF Shown
    <3>2. lost' \subseteq 1..Handled' /\ skipped' \subseteq 1..Handled'
      BY <1>0, <2>2, <2>3, <2>5
    <3>3. Waiting' => up'
      BY <2>2 DEF FeedInv, Waiting
    <3>4. ASSUME up', step' # "spawning"
          PROVE  born' \in 1..Handled' /\ FeedIsComplete'
      <4>1. up /\ step # "spawning" /\ born \in 1..Handled
        BY <2>2, <3>4 DEF FeedInv
      <4>2. fed \cap pending = {} /\ fed \cup pending = Shown(born)
        BY <4>1 DEF FeedInv, FeedIsComplete, Shown
      <4>3. born' = born /\ born' \in 1..Handled' /\ Shown(born)' = Shown(born)
        BY <2>2, <2>3, <2>5, <3>1, <4>1
      <4>. QED
        BY <2>2, <4>2, <4>3 DEF FeedIsComplete, Shown
    <3>5. ASSUME step' = "spawning"
          PROVE  handling'.id \in 1..Handled' /\ Shown(handling.id)' = {handling'.id}
      <4>1. handling.id \in 1..Handled /\ Shown(handling.id) = {handling.id}
        BY <2>2, <3>5 DEF FeedInv
      <4>. QED
        BY <2>2, <2>3, <2>5, <3>1, <4>1
    <3>. QED
      BY <2>3, <3>2, <3>3, <3>4, <3>5 DEF FeedInv, FeedIsComplete
  <2>. QED
    BY <2>3, <2>4, <2>5
<1>2. CASE ToggleAutoplay
  BY <1>2, FeedFrame DEF ToggleAutoplay, table, view, FeedInv, Waiting
<1>3. ASSUME post # <<>>, Receive(Head(post))
      PROVE  FeedInv'
  <2>. DEFINE e == Head(post)
             h == Handled
             S == skipped \cup lost
  <2>1. post' = Tail(post) /\ UNCHANGED <<published, lost>> /\ step = "idle"
    BY <1>3 DEF Receive, StartGameIdle, StartGameSpawn, Ignore, SkipEcho, Buffer, Ask, Takes,
                table
  <2>2. e.id = h + 1 /\ h \in Nat /\ Handled' = h + 1 /\ QueueInv'
    BY <1>0, <1>3, <2>1, RecvNext
  <2>3. h + 1 \notin S /\ lost' \subseteq 1..Handled'
        /\ skipped \subseteq 1..Handled' /\ e.id \in 1..Handled'
    BY <1>0, <2>1, <2>2
  <2>4. ASSUME up
        PROVE  /\ born \in 1..h /\ fed \cap pending = {} /\ fed \cup pending = (born..h) \ S
               /\ h + 1 \notin fed \cup pending /\ born \in 1..(h + 1)
    <3>1. born \in 1..h /\ fed \cap pending = {} /\ fed \cup pending = (born..h) \ S
      BY <2>1, <2>4 DEF FeedInv, FeedIsComplete
    <3>. QED
      BY <2>2, <3>1
  <2>5. CASE StartGameIdle(e)
    <3>1. ~up' /\ step' = "idle" /\ skipped' = skipped
      BY <2>1, <2>5 DEF StartGameIdle
    <3>. QED
      BY <2>2, <2>3, <3>1 DEF FeedInv, FeedIsComplete, Waiting
  <2>6. CASE StartGameSpawn(e)
    <3>1. step' = "spawning" /\ handling' = e /\ skipped' = skipped
      BY <2>6 DEF StartGameSpawn
    <3>2. ((h + 1)..(h + 1)) \ S = {h + 1}
      BY <2>2, <2>3
    <3>3. Shown(handling.id)' = {handling'.id}
      BY <2>1, <2>2, <3>1, <3>2 DEF Shown
    <3>. QED
      BY <2>2, <2>3, <3>1, <3>3 DEF FeedInv, FeedIsComplete, Waiting
  <2>7. CASE Ignore(e)
    <3>1. ~up' /\ step' = "idle" /\ skipped' = skipped
      BY <2>1, <2>7 DEF Ignore
    <3>. QED
      BY <2>2, <2>3, <3>1 DEF FeedInv, FeedIsComplete, Waiting
  <2>8. CASE SkipEcho(e)
    <3>1. up /\ step' = "idle" /\ up' = up /\ skipped' = skipped \cup {h + 1}
          /\ UNCHANGED <<born, fed, pending>>
      BY <2>1, <2>2, <2>8 DEF SkipEcho, view
    <3>2. skipped' \cup lost' = S \cup {h + 1} /\ skipped' \subseteq 1..Handled'
      BY <2>1, <2>2, <2>3, <3>1
    <3>3. (born'..Handled') \ (skipped' \cup lost') = (born..h) \ S
      BY <2>2, <2>4, <3>1, <3>2, IntervalGrows
    <3>4. FeedIsComplete'
      BY <2>4, <3>1, <3>3 DEF FeedIsComplete
    <3>. QED
      BY <2>2, <2>3, <2>4, <3>1, <3>2, <3>4 DEF FeedInv, Waiting
  <2>9. CASE Buffer(e)
    <3>1. up /\ step' = "idle" /\ up' = up /\ skipped' = skipped
          /\ born' = born /\ fed' = fed /\ pending' = pending \cup {h + 1}
      BY <2>1, <2>2, <2>9 DEF Buffer
    <3>2. (born'..Handled') \ (skipped' \cup lost') = ((born..h) \ S) \cup {h + 1}
      BY <2>1, <2>2, <2>3, <2>4, <3>1, IntervalGrows
    <3>3. FeedIsComplete'
      BY <2>4, <3>1, <3>2 DEF FeedIsComplete
    <3>. QED
      BY <2>2, <2>3, <2>4, <3>1, <3>3 DEF FeedInv, Waiting
  <2>10. CASE Ask(e)
    <3>1. up /\ step' = "asking" /\ up' = up /\ skipped' = skipped
          /\ born' = born /\ fed' = fed \cup pending \cup {h + 1} /\ pending' = {}
      BY <2>2, <2>10 DEF Ask
    <3>2. (born'..Handled') \ (skipped' \cup lost') = ((born..h) \ S) \cup {h + 1}
      BY <2>1, <2>2, <2>3, <2>4, <3>1, IntervalGrows
    <3>3. FeedIsComplete'
      BY <2>4, <3>1, <3>2 DEF FeedIsComplete
    <3>. QED
      BY <2>2, <2>3, <2>4, <3>1, <3>3 DEF FeedInv, Waiting
  <2>. QED
    BY <1>3, <2>5, <2>6, <2>7, <2>8, <2>9, <2>10 DEF Receive
<1>4. CASE Resume
  <2>1. CASE SpawnReady
    <3>1. step = "spawning" /\ step' = "idle" /\ up' /\ pending' = {handling.id}
          /\ born' = handling.id /\ fed' = {}
          /\ UNCHANGED <<published, post, skipped, lost>>
      BY <2>1 DEF SpawnReady, HandlerEnds, table
    <3>2. Handled' = Handled /\ QueueInv'
      BY <1>0, <3>1 DEF QueueInv, Handled
    <3>3. handling.id \in 1..Handled /\ (handling.id..Handled) \ (skipped \cup lost) = {handling.id}
      BY <3>1 DEF FeedInv, Shown
    <3>4. FeedIsComplete'
      BY <3>1, <3>2, <3>3 DEF FeedIsComplete
    <3>. QED
      BY <1>0, <3>1, <3>2, <3>3, <3>4 DEF FeedInv, Waiting
  <2>2. ASSUME SpawnFailed \/ ReactFailed
        PROVE  FeedInv'
    <3>1. ~up' /\ step' = "idle" /\ UNCHANGED <<published, post, skipped, lost>>
      BY <2>2 DEF SpawnFailed, ReactFailed, HandlerEnds, table
    <3>2. Handled' = Handled /\ QueueInv'
      BY <1>0, <3>1 DEF QueueInv, Handled
    <3>. QED
      BY <1>0, <3>1, <3>2 DEF FeedInv, FeedIsComplete, Waiting
  <2>3. CASE Answered
    BY <2>3, FeedFrame DEF Answered, Broadcast, HandlerEnds, table, view, FeedInv, Waiting
  <2>4. CASE FollowUp
    BY <2>4, FeedFrame DEF FollowUp, table, FeedInv, Waiting
  <2>5. ASSUME NEW outcome \in Outcomes, FollowedUp(outcome)
        PROVE  FeedInv'
    BY <2>5, FeedFrame DEF FollowedUp, Broadcast, HandlerEnds, table, FeedInv, Waiting
  <2>. QED
    BY <1>4, <2>1, <2>2, <2>3, <2>4, <2>5 DEF Resume
<1>5. CASE BotWrites
  BY <1>5, FeedFrame DEF BotWrites, table, view, FeedInv, Waiting
<1>6. CASE UNCHANGED managerVars
  BY <1>6, FeedFrame DEF managerVars, FeedInv, Waiting
<1>. QED
  BY <1>1, <1>2, <1>3, <1>4, <1>5, <1>6 DEF ManagerNext

(* The bot is shown every event of its game exactly once: nothing handled   *)
(* since its start_game is missing from what it was fed and what is         *)
(* buffered for it, but the echoes withheld on purpose and what the bus     *)
(* dropped under lag.                                                       *)
THEOREM FeedSafety == ManagerSpec => []FeedIsComplete
<1>1. ManagerInit => FeedInv
  <2>1. ASSUME ManagerInit
        PROVE  FeedInv
    <3>0. post = <<>> /\ published = 0
      BY <2>1 DEF ManagerInit
    <3>1. Len(post) = 0 /\ Handled = 0
      <4>1. Len(post) = 0
        BY <3>0
      <4>2. published = 0 /\ 0 - 0 = 0
        BY <3>0
      <4>. QED
        BY <4>1, <4>2 DEF Handled
    <3>2. QueueInv
      BY <3>0, <3>1 DEF QueueInv
    <3>. QED
      BY <2>1, <3>1, <3>2 DEF ManagerInit, FeedInv, FeedIsComplete, Waiting
  <2>. QED
    BY <2>1
<1>2. FeedInv => FeedIsComplete
  BY DEF FeedInv
<1>. QED
  BY <1>1, <1>2, ManagerTypeSafety, FeedInductive, PTL DEF ManagerSpec

-----------------------------------------------------------------------------
(* ResolvedReachOnce, strengthened.  What the receiver holds is a stretch   *)
(* of the table's history: after an event that bars seat a from declaring   *)
(* again in the hand, a declaration of a comes only after the start of      *)
(* another hand, in the receiver or still to come.                          *)
Bars(e, a) ==
  \/ e.kind \in {"start_game", "end_kyoku", "end_game"}
  \/ e.kind = "reach" /\ e.actor = a

Begins(q, i, j) == \E m \in i..j : q[m].kind = "start_kyoku"

(* No declaration of a in what is left of the hand after the i-th event of  *)
(* q; barred says that the table, which is past all of q, allows none.      *)
NoMore(q, i, a, barred) ==
  /\ \A j \in (i + 1)..Len(q) :
       q[j].kind = "reach" /\ q[j].actor = a => Begins(q, i + 1, j - 1)
  /\ Begins(q, i + 1, Len(q)) \/ barred

Barred(a) == stage = "hand" => a \in declared

TableInv ==
  \A i \in 1..Len(post), a \in Seats \cup {NoSeat} :
    Bars(post[i], a) => NoMore(post, i, a, Barred(a))

(* A runner whose view holds a declaration, with no follow-up under way or  *)
(* waiting for its echo, is shown no other.                                 *)
Resolved == up /\ ~unresolved
ViewInv ==
  /\ Resolved => reaches <= 1
  /\ Resolved /\ step # "spawning" /\ reaches >= 1 /\ ~drop /\ step # "following" =>
       NoMore(post, 0, actorId, Barred(actorId))

ReachInv ==
  /\ DropInv
  /\ lost = {} => TableInv /\ ViewInv

(* recv: what holds after an event holds of the events behind it.           *)
LEMMA NoMoreRecv ==
  ASSUME NEW q \in Seq(Event), q # <<>>, NEW i \in 0..Len(q), NEW a, NEW b,
         NoMore(q, i, a, b), i = 0 => Head(q).kind # "start_kyoku"
  PROVE  NoMore(Tail(q), IF i = 0 THEN 0 ELSE i - 1, a, b)
<1>. DEFINE t == Tail(q)
            k == IF i = 0 THEN 0 ELSE i - 1
<1>1. Len(q) \in Nat /\ Len(q) >= 1 /\ Len(t) = Len(q) - 1 /\ Head(q) = q[1] /\ t \in Seq(Event)
  OBVIOUS
<1>2. \A m \in 1..Len(t) : t[m] = q[m + 1]
  OBVIOUS
<1>3. ASSUME NEW j \in k..Len(t), Begins(q, i + 1, j + 1)
      PROVE  Begins(t, k + 1, j)
  <2>1. PICK m \in (i + 1)..(j + 1) : q[m].kind = "start_kyoku"
    BY <1>3 DEF Begins
  <2>2. m # 1 /\ m \in Nat
    BY <1>1, <2>1
  <2>3. m - 1 \in (k + 1)..j /\ m - 1 \in 1..Len(t)
    BY <1>1, <2>1, <2>2
  <2>4. t[m - 1] = q[(m - 1) + 1] /\ (m - 1) + 1 = m
    BY <1>2, <2>2, <2>3
  <2>. QED
    BY <2>1, <2>3, <2>4 DEF Begins
<1>. HIDE DEF t
<1>4. ASSUME NEW j \in (k + 1)..Len(t), t[j].kind = "reach", t[j].actor = a
      PROVE  Begins(t, k + 1, j - 1)
  <2>1. j + 1 \in (i + 1)..Len(q) /\ q[j + 1] = t[j] /\ j \in Nat /\ j - 1 \in k..Len(t)
    BY <1>1, <1>2
  <2>2. Begins(q, i + 1, (j + 1) - 1)
    BY <1>4, <2>1 DEF NoMore
  <2>3. (j - 1) + 1 = (j + 1) - 1
    BY <2>1
  <2>. QED
    BY <1>3, <2>1, <2>2, <2>3
<1>5. Begins(t, k + 1, Len(t)) \/ b
  <2>1. Len(t) \in k..Len(t) /\ Len(t) + 1 = Len(q)
    BY <1>1
  <2>2. Begins(q, i + 1, Len(q)) \/ b
    BY DEF NoMore
  <2>. QED
    BY <1>3, <2>1, <2>2
<1>. QED
  BY <1>4, <1>5 DEF NoMore, t

(* send: a barred seat declares only once another hand has begun.           *)
LEMMA NoMoreSend ==
  ASSUME NEW q \in Seq(Event), NEW e \in Event, NEW i \in 0..Len(q), NEW a, NEW b, NEW c,
         NoMore(q, i, a, b), b => c \/ e.kind = "start_kyoku",
         e.kind = "reach" /\ e.actor = a => ~b
  PROVE  NoMore(Append(q, e), i, a, c)
<1>. DEFINE s == Append(q, e)
<1>1. Len(q) \in Nat /\ Len(s) = Len(q) + 1 /\ s[Len(q) + 1] = e
  OBVIOUS
<1>2. \A m \in 1..Len(q) : s[m] = q[m]
  OBVIOUS
<1>3. ASSUME NEW j \in i..Len(q), Begins(q, i + 1, j)
      PROVE  Begins(s, i + 1, j) /\ Begins(s, i + 1, Len(s))
  BY <1>1, <1>2, <1>3 DEF Begins
<1>. HIDE DEF s
<1>4. ASSUME NEW j \in (i + 1)..Len(s), s[j].kind = "reach", s[j].actor = a
      PROVE  Begins(s, i + 1, j - 1)
  <2>1. CASE j \in (i + 1)..Len(q)
    <3>1. j \in 1..Len(q) /\ j - 1 \in i..Len(q)
      BY <1>1, <2>1
    <3>2. Begins(q, i + 1, j - 1)
      BY <1>2, <1>4, <2>1, <3>1 DEF NoMore
    <3>. QED
      BY <1>3, <3>1, <3>2
  <2>2. CASE j = Len(q) + 1
    <3>1. ~b /\ Len(q) \in i..Len(q) /\ j - 1 = Len(q)
      BY <1>1, <1>4, <2>2
    <3>2. Begins(q, i + 1, Len(q))
      BY <3>1 DEF NoMore
    <3>. QED
      BY <1>3, <3>1, <3>2
  <2>. QED
    BY <1>1, <2>1, <2>2
<1>5. Begins(s, i + 1, Len(s)) \/ c
  <2>1. CASE Begins(q, i + 1, Len(q))
    BY <1>1, <1>3, <2>1
  <2>2. CASE e.kind = "start_kyoku"
    <3>1. Len(s) \in (i + 1)..Len(s) /\ s[Len(s)].kind = "start_kyoku"
      BY <1>1, <2>2
    <3>. QED
      BY <3>1 DEF Begins
  <2>3. CASE b /\ e.kind # "start_kyoku"
    BY <2>3
  <2>. QED
    BY <2>1, <2>2, <2>3 DEF NoMore
<1>. QED
  BY <1>4, <1>5 DEF NoMore, s

(* Nothing comes after the last event.                                      *)
LEMMA NoMoreLast ==
  ASSUME NEW q \in Seq(Event), NEW a
  PROVE  NoMore(q, Len(q), a, TRUE)
<1>1. (Len(q) + 1)..Len(q) = {}
  OBVIOUS
<1>. QED
  BY <1>1 DEF NoMore

(* A step that moves no event and leaves the runner's view alone.           *)
LEMMA ReachFrame ==
  ASSUME TableInv, ViewInv,
         UNCHANGED <<post, stage, declared, reaches, unresolved, actorId, drop>>,
         up' => up, step' # "spawning" => step # "spawning", step = "following" => step' = "following"
  PROVE  TableInv' /\ ViewInv'
BY DEF TableInv, ViewInv, Resolved, Barred

(* A new event is kept behind what the receiver holds, and nothing is lost. *)
LEMMA ReachPublished ==
  ASSUME ManagerTypeOK, ReachInv, NEW kind \in Kinds, NEW actor \in Seats \cup {NoSeat},
         NEW can \in BOOLEAN, Publish(kind, actor, can), lost' = {}
  PROVE  TableInv' /\ ViewInv'
<1>. DEFINE e == [id |-> published + 1, kind |-> kind, actor |-> actor, can |-> can]
<1>0. post \in Seq(Event) /\ Len(post) \in Nat /\ e \in Event
      /\ e.kind = kind /\ e.actor = actor
  BY ManagerBoundsAssumption DEF ManagerTypeOK, Event
<1>1. Deliver(e) /\ UNCHANGED <<reaches, unresolved, actorId, drop, up, step>>
  BY DEF Publish, view
<1>. HIDE DEF e
<1>2. post' = Append(post, e) /\ lost = {}
  BY <1>1 DEF Deliver
<1>3. Len(post') = Len(post) + 1 /\ post'[Len(post) + 1] = e
      /\ \A i \in 1..Len(post) : post'[i] = post[i]
  BY <1>0, <1>2
<1>4. TableInv /\ ViewInv
  BY <1>2 DEF ReachInv
<1>5. ASSUME NEW a \in Seats \cup {NoSeat}
      PROVE  /\ Barred(a) => Barred(a)' \/ e.kind = "start_kyoku"
             /\ e.kind = "reach" /\ e.actor = a => ~Barred(a)
             /\ Bars(e, a) => Barred(a)'
  BY <1>0 DEF Publish, Barred, Bars, ByASeat
<1>6. ASSUME NEW i \in 0..Len(post), NEW a \in Seats \cup {NoSeat},
             NoMore(post, i, a, Barred(a))
      PROVE  NoMore(post', i, a, Barred(a)')
  BY <1>0, <1>2, <1>5, <1>6, NoMoreSend, Zenon
<1>7. TableInv'
  <2>. SUFFICES ASSUME NEW i \in 1..Len(post'), NEW a \in Seats \cup {NoSeat}, Bars(post'[i], a)
                PROVE  NoMore(post', i, a, Barred(a)')
    BY DEF TableInv
  <2>1. CASE i \in 1..Len(post)
    <3>1. NoMore(post, i, a, Barred(a)) /\ i \in 0..Len(post)
      BY <1>0, <1>3, <1>4, <2>1 DEF TableInv
    <3>. QED
      BY <1>6, <3>1
  <2>2. CASE i = Len(post) + 1
    <3>1. Barred(a)' /\ post' \in Seq(Event) /\ i = Len(post')
      BY <1>0, <1>2, <1>3, <1>5, <2>2
    <3>2. Barred(a)' = TRUE
      BY <3>1 DEF Barred
    <3>. QED
      BY <3>1, <3>2, NoMoreLast
  <2>. QED
    BY <1>0, <1>3, <2>1, <2>2
<1>8. ViewInv'
  <2>1. PICK a \in Seats \cup {NoSeat} : a = actorId
    BY DEF ManagerTypeOK
  <2>2. 0 \in 0..Len(post)
    BY <1>0
  <2>3. NoMore(post, 0, a, Barred(a)) => NoMore(post', 0, a, Barred(a)')
    BY <1>6, <2>2
  <2>. QED
    BY <1>1, <1>4, <2>1, <2>3 DEF ViewInv, Resolved, Barred
<1>. QED
  BY <1>7, <1>8

(* The oldest event is handed over: every bar stays, and its own is in      *)
(* force.                                                                   *)
LEMMA ReachReceived ==
  ASSUME ManagerTypeOK, TableInv, post # <<>>, post' = Tail(post), UNCHANGED table
  PROVE  /\ TableInv'
         /\ \A a \in Seats \cup {NoSeat} :
              /\ Barred(a)' = Barred(a)
              /\ Bars(Head(post), a) => NoMore(post', 0, a, Barred(a))
              /\ NoMore(post, 0, a, Barred(a)) /\ Head(post).kind # "start_kyoku" =>
                   NoMore(post', 0, a, Barred(a))
              /\ NoMore(post, 0, a, Barred(a)) =>
                   ~(Head(post).kind = "reach" /\ Head(post).actor = a)
<1>1. post \in Seq(Event) /\ Len(post) \in Nat /\ Len(post) >= 1 /\ Head(post) = post[1]
      /\ Len(post') = Len(post) - 1
  BY DEF ManagerTypeOK
<1>2. \A i \in 1..Len(post') : post'[i] = post[i + 1]
  BY <1>1
<1>3. \A a : Barred(a)' = Barred(a)
  BY DEF Barred, table
<1>4. ASSUME NEW i \in 1..Len(post), NEW a \in Seats \cup {NoSeat}, Bars(post[i], a)
      PROVE  NoMore(post', i - 1, a, Barred(a))
  <2>1. NoMore(post, i, a, Barred(a)) /\ i \in 0..Len(post) /\ i # 0
    BY <1>1, <1>4 DEF TableInv
  <2>. QED
    BY <1>1, <2>1, NoMoreRecv
<1>5. TableInv'
  <2>. SUFFICES ASSUME NEW i \in 1..Len(post'), NEW a \in Seats \cup {NoSeat}, Bars(post'[i], a)
                PROVE  NoMore(post', i, a, Barred(a)')
    BY DEF TableInv
  <2>1. i + 1 \in 1..Len(post) /\ Bars(post[i + 1], a) /\ (i + 1) - 1 = i
    BY <1>1, <1>2
  <2>2. NoMore(post', (i + 1) - 1, a, Barred(a))
    BY <1>4, <2>1
  <2>. QED
    BY <1>3, <2>1, <2>2
<1>6. ASSUME NEW a \in Seats \cup {NoSeat}, Bars(Head(post), a)
      PROVE  NoMore(post', 0, a, Barred(a))
  <2>1. 1 \in 1..Len(post) /\ Bars(post[1], a) /\ 1 - 1 = 0
    BY <1>1, <1>6
  <2>2. NoMore(post', 1 - 1, a, Barred(a))
    BY <1>4, <2>1
  <2>. QED
    BY <2>1, <2>2
<1>7. ASSUME NEW a \in Seats \cup {NoSeat}, NoMore(post, 0, a, Barred(a))
      PROVE  /\ Head(post).kind # "start_kyoku" => NoMore(post', 0, a, Barred(a))
             /\ ~(Head(post).kind = "reach" /\ Head(post).actor = a)
  <2>1. ASSUME Head(post).kind # "start_kyoku"
        PROVE  NoMore(post', 0, a, Barred(a))
    BY <1>1, <1>7, <2>1, NoMoreRecv
  <2>2. ASSUME Head(post).kind = "reach", Head(post).actor = a
        PROVE  FALSE
    <3>1. 1 \in (0 + 1)..Len(post) /\ (0 + 1)..(1 - 1) = {}
      BY <1>1
    <3>2. Begins(post, 0 + 1, 1 - 1)
      BY <1>1, <1>7, <2>2, <3>1 DEF NoMore
    <3>. QED
      BY <3>1, <3>2 DEF Begins
  <2>. QED
    BY <2>1, <2>2
<1>. QED
  BY <1>3, <1>5, <1>6, <1>7

LEMMA ReachInductive == ManagerTypeOK /\ ReachInv /\ [ManagerNext]_managerVars => ReachInv'
<1>. SUFFICES ASSUME ManagerTypeOK, ReachInv, [ManagerNext]_managerVars, lost' = {}
              PROVE  TableInv' /\ ViewInv'
  BY DropInductive DEF ReachInv
<1>0. DropInv /\ reaches \in Nat /\ actorId \in Seats \cup {NoSeat} /\ up \in BOOLEAN
      /\ drop \in BOOLEAN /\ unresolved \in BOOLEAN
  BY DEF ReachInv, ManagerTypeOK
<1>1. ASSUME NEW kind \in Kinds, NEW actor \in Seats \cup {NoSeat}, NEW can \in BOOLEAN,
             Publish(kind, actor, can)
      PROVE  TableInv' /\ ViewInv'
  BY <1>1, ReachPublished
<1>. SUFFICES ASSUME ~(\E kind \in Kinds, actor \in Seats \cup {NoSeat}, can \in BOOLEAN :
                         Publish(kind, actor, can))
              PROVE  TableInv' /\ ViewInv'
  BY <1>1
<1>2. lost = {} /\ TableInv /\ ViewInv
  <2>1. lost' = lost
    BY DEF ManagerNext, Receive, Resume, ToggleAutoplay, StartGameIdle, StartGameSpawn, Ignore,
           SkipEcho, Buffer, Ask, SpawnReady, SpawnFailed, Answered, FollowUp, ReactFailed,
           FollowedUp, BotWrites, managerVars
  <2>. QED
    BY <2>1 DEF ReachInv
<1>3. CASE ToggleAutoplay
  BY <1>2, <1>3, ReachFrame DEF ToggleAutoplay, table, view
<1>4. ASSUME post # <<>>, Receive(Head(post))
      PROVE  TableInv' /\ ViewInv'
  <2>. DEFINE e == Head(post)
  <2>1. post' = Tail(post) /\ UNCHANGED table /\ step = "idle"
    BY <1>4 DEF Receive, StartGameIdle, StartGameSpawn, Ignore, SkipEcho, Buffer, Ask, Takes
  <2>2. /\ TableInv'
        /\ Barred(actorId)' = (stage' = "hand" => actorId' \in declared')
        /\ (stage = "hand" => actorId \in declared) = Barred(actorId)
        /\ Bars(e, actorId) => NoMore(post', 0, actorId, Barred(actorId))
        /\ NoMore(post, 0, actorId, Barred(actorId)) /\ e.kind # "start_kyoku" =>
             NoMore(post', 0, actorId, Barred(actorId))
        /\ NoMore(post, 0, actorId, Barred(actorId)) =>
             ~(e.kind = "reach" /\ e.actor = actorId)
    BY <1>0, <1>2, <1>4, <2>1, ReachReceived DEF Barred
  <2>. HIDE DEF e
  <2>3. Receive(e)
    BY <1>4 DEF e
  <2>4. CASE StartGameIdle(e)
    BY <2>2, <2>4 DEF StartGameIdle, ViewInv, Resolved
  <2>5. CASE StartGameSpawn(e)
    BY <1>2, <2>2, <2>5 DEF StartGameSpawn, ViewInv, Resolved, view
  <2>6. CASE Ignore(e)
    BY <2>2, <2>6 DEF Ignore, ViewInv, Resolved
  <2>7. CASE SkipEcho(e)
    <3>1. Bars(e, actorId) /\ UNCHANGED <<up, step, actorId, reaches, unresolved, stage, declared>>
      BY <2>7 DEF SkipEcho, OwnEcho, Bars, view, table
    <3>. QED
      BY <1>2, <2>2, <3>1 DEF ViewInv, Resolved, Barred
  <2>8. ASSUME Buffer(e) \/ Ask(e)
        PROVE  ViewInv'
    <3>1. /\ Show(e) /\ ~OwnEcho(e) /\ drop' = DropAfter(e) /\ up /\ up' = up
          /\ step' \in {"idle", "asking"} /\ UNCHANGED <<actorId, stage, declared>>
      BY <2>1, <2>8 DEF Buffer, Ask, table
    <3>. USE DEF ViewInv, Resolved, Barred
    <3>2. CASE e.kind = "start_kyoku"
      BY <3>1, <3>2 DEF Show
    <3>3. CASE e.kind = "reach" /\ e.actor = actorId
      <4>1. ~drop /\ drop' = drop /\ reaches' = reaches + 1 /\ unresolved' = unresolved
        BY <1>0, <3>1, <3>3 DEF OwnEcho, DropAfter, IsBoundary, Show
      <4>2. Resolved => reaches = 0
        BY <1>0, <1>2, <2>1, <2>2, <3>3, <4>1
      <4>3. NoMore(post', 0, actorId, Barred(actorId))
        BY <2>2, <3>3 DEF Bars
      <4>. QED
        BY <1>0, <3>1, <4>1, <4>2, <4>3
    <3>4. CASE ~(e.kind = "start_kyoku") /\ ~(e.kind = "reach" /\ e.actor = actorId)
      <4>1. reaches' = reaches /\ unresolved' = unresolved
        BY <1>0, <3>1, <3>4 DEF Show
      <4>2. CASE e.kind \in {"start_game", "end_kyoku", "end_game"}
        <5>1. NoMore(post', 0, actorId, Barred(actorId))
          BY <2>2, <4>2 DEF Bars
        <5>. QED
          BY <1>2, <3>1, <4>1, <5>1
      <4>3. CASE e.kind \notin {"start_game", "end_kyoku", "end_game"}
        <5>1. drop' = drop
          BY <3>1, <3>4, <4>3 DEF DropAfter, IsBoundary
        <5>. QED
          BY <1>2, <2>1, <2>2, <3>1, <3>4, <4>1, <5>1
      <4>. QED
        BY <4>2, <4>3
    <3>. QED
      BY <3>2, <3>3, <3>4
  <2>. QED
    BY <2>2, <2>3, <2>4, <2>5, <2>6, <2>7, <2>8 DEF Receive
<1>5. CASE Resume
  <2>1. CASE SpawnReady
    BY <1>2, <2>1 DEF SpawnReady, HandlerEnds, table, TableInv, Barred, ViewInv
  <2>2. ASSUME SpawnFailed \/ ReactFailed
        PROVE  TableInv' /\ ViewInv'
    BY <1>2, <2>2 DEF SpawnFailed, ReactFailed, HandlerEnds, table, TableInv, Barred, ViewInv, Resolved
  <2>3. CASE Answered
    <3>1. UNCHANGED <<post, stage, declared, reaches, unresolved, drop>> /\ step = "asking"
          /\ step' = "idle" /\ (~up' \/ (up' = up /\ actorId' = actorId))
      BY <2>3 DEF Answered, Broadcast, HandlerEnds, table, view
    <3>. QED
      BY <1>2, <3>1 DEF TableInv, Barred, ViewInv, Resolved
  <2>4. CASE FollowUp
    BY <1>0, <1>2, <2>4 DEF FollowUp, MayDeclare, table, TableInv, Barred, ViewInv, Resolved
  <2>5. ASSUME NEW outcome \in Outcomes, FollowedUp(outcome)
        PROVE  TableInv' /\ ViewInv'
    <3>1. UNCHANGED <<post, stage, declared, reaches>> /\ (drop' \/ unresolved')
          /\ (up' => up) /\ (unresolved => unresolved')
      BY <1>0, <2>5 DEF FollowedUp, Broadcast, HandlerEnds, table
    <3>. QED
      BY <1>2, <3>1 DEF TableInv, Barred, ViewInv, Resolved
  <2>. QED
    BY <1>5, <2>1, <2>2, <2>3, <2>4, <2>5 DEF Resume
<1>6. CASE BotWrites
  BY <1>2, <1>6, ReachFrame DEF BotWrites, table, view
<1>7. CASE UNCHANGED managerVars
  BY <1>2, <1>7, ReachFrame DEF managerVars
<1>. QED
  BY <1>3, <1>4, <1>5, <1>6, <1>7 DEF ManagerNext

(* A declaration of our seat enters the runner's view of its hand once: the *)
(* bridge's echo of one that a follow-up fed is withheld, and no other own  *)
(* declaration of the hand reaches the runner.                              *)
THEOREM ReachSafety == ManagerSpec => []ResolvedReachOnce
<1>1. ManagerInit => ReachInv
  <2>. SUFFICES ASSUME ManagerInit
                PROVE  ReachInv
    OBVIOUS
  <2>1. Len(post) = 0 /\ 1..0 = {} /\ reaches = 0 /\ ~up /\ ~drop /\ step = "idle"
    BY DEF ManagerInit
  <2>. QED
    BY <2>1 DEF ReachInv, DropInv, DropOnlyRepeats, Waiting, TableInv, ViewInv, Resolved
<1>2. ReachInv => ResolvedReachOnce
  BY DEF ReachInv, ViewInv, Resolved, ResolvedReachOnce
<1>. QED
  BY <1>1, <1>2, ManagerTypeSafety, ReachInductive, PTL DEF ManagerSpec
(* ---- clicks (Autoplay) and frames (RiichiInject) ---- *)

(* PressAnswersItsWindow, strengthened: while presses are being dispatched  *)
(* the window is the plan's, or it has moved since it was last compared.    *)
PressInv ==
  /\ pc = "press" /\ ~raced => StillOpen
  /\ PressAnswersItsWindow

LEMMA PressInductive == PressInv /\ [Next]_vars => PressInv'
<1>. SUFFICES ASSUME PressInv, [Next]_vars
              PROVE  PressInv'
  OBVIOUS
<1>. USE DEF PressInv, StillOpen, PressAnswersItsWindow
<1>1. ASSUME NEW w, MoveTo(w)
      PROVE  PressInv'
  BY <1>1 DEF MoveTo, plan
<1>2. CASE ClientActs
  BY <1>2 DEF ClientActs, plan, history
<1>3. CASE BotReplies
  BY <1>3 DEF BotReplies, client, plan, history
<1>4. CASE EventArrives
  BY <1>4 DEF EventArrives, client, plan, history
<1>5. CASE HandleEvent
  BY <1>5 DEF HandleEvent, client, plan
<1>6. CASE DropReply
  BY <1>6 DEF DropReply, client, plan, history
<1>7. CASE PlanReply
  BY <1>7 DEF PlanReply, client
<1>8. CASE PlanStep
  <2>1. CASE DelayOver
    BY <2>1 DEF DelayOver, client, plan
  <2>2. CASE DropPlan
    BY <2>2 DEF DropPlan, Return, client
  <2>3. CASE Press
    <3>1. slot' = slot /\ (pc' = "press" => pc = "press" /\ planned' = planned /\ raced' = raced)
      BY <2>3 DEF Press, Return
    <3>2. landed' = landed \/ landed' = [plan |-> planned, window |-> slot, raced |-> raced]
      BY <2>3 DEF Press, PressLands
    <3>3. pc = "press"
      BY <2>3 DEF Press
    <3>. QED
      BY <3>1, <3>2, <3>3
  <2>4. CASE PressFails
    BY <2>4 DEF PressFails, Return, client
  <2>5. CASE Registered \/ Unregistered
    BY <2>5 DEF Registered, Unregistered, Return, client
  <2>6. CASE PressAgain
    BY <2>6 DEF PressAgain, client
  <2>. QED
    BY <1>8, <2>1, <2>2, <2>3, <2>4, <2>5, <2>6 DEF PlanStep, InputSeen, MovedOn, GiveUp
<1>9. CASE UNCHANGED vars
  BY <1>9 DEF vars
<1>. QED
  BY <1>1, <1>2, <1>3, <1>4, <1>5, <1>6, <1>7, <1>8, <1>9
  DEF Next, Environment, OpenWindow, CloseWindow

(* A press, first or repeated, that the client accepts answers the window   *)
(* its plan was made for, unless the window moved while it was dispatched:  *)
(* the one check before the first press and the one before each retry are   *)
(* enough (handle_bot_response and verify_and_retry, manager.rs).           *)
THEOREM PressSafety == Spec => []PressAnswersItsWindow
<1>1. Init => PressInv
  BY DEF Init, PressInv, PressAnswersItsWindow
<1>2. PressInv => PressAnswersItsWindow
  BY DEF PressInv
<1>. QED
  BY <1>1, <1>2, PressInductive, PTL DEF Spec

-----------------------------------------------------------------------------
(* TenhouAnswersOnce, strengthened: the open window, once answered or       *)
(* planned for, is the one acted_window holds; no other window can come     *)
(* back, for a window never reopens.                                        *)
AnsweredInv ==
  /\ opened \in Nat /\ slot \in 0..opened /\ planned \in 0..opened
  /\ answers \in [Windows -> Nat]
  /\ platform = "tenhou" =>
       /\ \A w \in Windows : answers[w] <= 1
       /\ \A w \in Windows : answers[w] = 1 => w <= opened
       /\ slot \in Windows /\ answers[slot] = 1 => acted = slot
       /\ pc = "delay" /\ planned \in Windows /\ slot = planned =>
            acted = planned /\ answers[planned] = 0

LEMMA AnsweredInductive == AnsweredInv /\ [Next]_vars => AnsweredInv'
<1>. SUFFICES ASSUME AnsweredInv, [Next]_vars
              PROVE  AnsweredInv'
  OBVIOUS
<1>. USE DEF AnsweredInv
<1>1. CASE OpenWindow
  <2>1. opened' = opened + 1 /\ slot' = opened + 1
        /\ UNCHANGED <<platform, answers, acted, pc, planned>>
    BY <1>1 DEF OpenWindow, MoveTo, plan
  <2>2. slot' # planned /\ planned \in 0..opened' /\ slot' \in 0..opened' /\ opened' \in Nat
    BY <2>1
  <2>3. ASSUME platform = "tenhou", slot' \in Windows
        PROVE  answers[slot'] # 1
    <3>1. ~(slot' <= opened)
      BY <2>1
    <3>. QED
      BY <2>3, <3>1
  <2>4. ASSUME platform = "tenhou"
        PROVE  \A w \in Windows : answers[w] = 1 => w <= opened'
    <3>1. \A w \in Windows : w <= opened => w <= opened'
      BY <2>1 DEF Windows
    <3>. QED
      BY <2>4, <3>1
  <2>. QED
    BY <2>1, <2>2, <2>3, <2>4
<1>2. CASE CloseWindow
  <2>1. 0 \notin Windows
    BY DEF Windows
  <2>2. slot' = 0 /\ UNCHANGED <<opened, platform, answers, acted, pc, planned>>
    BY <1>2 DEF CloseWindow, MoveTo, plan
  <2>. QED
    BY <2>1, <2>2
<1>3. CASE ClientActs
  BY <1>3 DEF ClientActs, plan, history
<1>4. CASE BotReplies \/ EventArrives \/ DropReply
  BY <1>4 DEF BotReplies, EventArrives, DropReply, client, plan, history
<1>5. CASE HandleEvent
  <2>1. pc' = "idle" /\ answers' = [w \in Windows |-> 0]
        /\ UNCHANGED <<opened, slot, platform, planned>>
    BY <1>5 DEF HandleEvent, NoAnswers, client, plan
  <2>. QED
    BY <2>1
<1>6. CASE PlanReply
  <2>1. planned' = slot /\ ~AlreadyActed
        /\ acted' = (IF platform = "tenhou" /\ slot # 0 THEN slot ELSE acted)
        /\ UNCHANGED <<opened, slot, platform, answers>>
    BY <1>6 DEF PlanReply, client
  <2>2. 0 \notin Windows
    BY DEF Windows
  <2>3. ASSUME platform = "tenhou", slot \in Windows
        PROVE  answers[slot] = 0 /\ acted' = slot
    <3>1. slot # 0
      BY <2>2, <2>3
    <3>2. answers[slot] # 1 /\ answers[slot] <= 1 /\ answers[slot] \in Nat
      BY <2>1, <2>3, <3>1 DEF AlreadyActed
    <3>. QED
      BY <2>1, <2>3, <3>1, <3>2
  <2>. QED
    BY <2>1, <2>3
<1>7. CASE DelayOver
  <2>1. StillOpen /\ pc = "delay" /\ pc' = "press"
        /\ answers' = [w \in Windows |-> IF w = planned THEN answers[w] + 1 ELSE answers[w]]
        /\ UNCHANGED <<opened, slot, platform, planned, acted>>
    BY <1>7 DEF DelayOver, client, plan
  <2>2. answers' \in [Windows -> Nat]
    BY <2>1
  <2>3. CASE planned \in Windows
    <3>1. slot = planned /\ planned <= opened
      BY <2>1, <2>3 DEF StillOpen, Windows
    <3>2. ASSUME platform = "tenhou"
          PROVE  acted = planned /\ answers'[planned] = 1
      BY <2>1, <2>3, <3>1, <3>2
    <3>3. ASSUME platform = "tenhou", NEW w \in Windows
          PROVE  answers'[w] <= 1 /\ (answers'[w] = 1 => w <= opened)
      BY <2>1, <2>3, <3>1, <3>2, <3>3
    <3>. QED
      BY <2>1, <2>2, <3>1, <3>2, <3>3
  <2>4. CASE planned \notin Windows
    <3>1. answers' = answers
      BY <2>1, <2>4
    <3>. QED
      BY <2>1, <3>1
  <2>. QED
    BY <2>3, <2>4
<1>8. CASE DropPlan \/ PressFails \/ InputSeen \/ MovedOn \/ GiveUp
  BY <1>8 DEF DropPlan, PressFails, InputSeen, MovedOn, GiveUp, Registered, Unregistered,
              Return, client
<1>9. CASE Press
  <2>1. pc' # "delay" /\ planned' \in {planned, 0}
        /\ UNCHANGED <<opened, slot, platform, answers, acted>>
    BY <1>9 DEF Press, Return
  <2>. QED
    BY <2>1
<1>10. CASE PressAgain
  BY <1>10 DEF PressAgain, client
<1>11. CASE UNCHANGED vars
  BY <1>11 DEF vars
<1>. QED
  BY <1>1, <1>2, <1>3, <1>4, <1>5, <1>6, <1>7, <1>8, <1>9, <1>10, <1>11
  DEF Next, Environment, PlanStep

(* On Tenhou a window is pressed for once, whatever the bot sends late      *)
(* (acted_window, manager.rs), between two hand boundaries.                 *)
THEOREM TenhouSafety == Spec => []TenhouAnswersOnce
<1>1. Init => AnsweredInv
  BY DEF Init, AnsweredInv, NoAnswers
<1>2. AnsweredInv => TenhouAnswersOnce
  BY DEF AnsweredInv, TenhouAnswersOnce
<1>. QED
  BY <1>1, <1>2, AnsweredInductive, PTL DEF Spec

(* ------------------------------ RiichiInject ------------------------------ *)

Frames == [kind : {"room", "start", "offer", "action", "end", "room_end", "rsp"}, window : Nat]
Mail == [kind : {"other", "lag", "end"}, hand : Nat]
(* The types the argument needs.                                             *)
Sorts ==
  /\ down \in Seq(Frames) /\ mail \in Seq(Mail) /\ hand \in 0..MaxHands /\ watcher \in Nat
  /\ readies \in [Hands -> Nat] /\ flowUp \in BOOLEAN
  /\ phase \in {"lobby", "play", "scoring", "over"} /\ current \in Nat /\ offered \in Nat
  /\ planning \in [about : Nat, open : BOOLEAN, torn : BOOLEAN] /\ reply \in Nat
  /\ at \in Nat /\ open \in BOOLEAN /\ decided \in Nat /\ rspSeen \in Nat
  /\ task \in [Tasks -> [pc : TaskPCs, about : Nat, inTime : BOOLEAN, window : Nat,
                         created : Nat, ticket : Nat, attempt : Nat, raced : BOOLEAN]]

(* A task planned in time waits for the window of its reply, and has found   *)
(* it open when it is about to send for the first time.                      *)
TaskFine(t) ==
  /\ task[t].pc = "seek" => ~task[t].inTime
  /\ task[t].pc \in {"gate", "think", "send", "await"} /\ task[t].inTime => task[t].window = task[t].about
  /\ task[t].pc = "send" /\ task[t].attempt = 0 /\ ~task[t].raced => Holds(t)
TasksFine == \A t \in Tasks : TaskFine(t)

(* Of hands from h on no end is on its way, waited for or seen to.           *)
EndsBelow(h) ==
  /\ \A i \in 1..Len(down) : down[i].kind = "end" => down[i].window < h
  /\ \A i \in 1..Len(mail) : mail[i].kind = "end" => mail[i].hand < h
  /\ watcher < h
  /\ \A k \in Hands : k >= h => readies[k] = 0

(* When the i-th message of down is read, the watcher has let go of the end  *)
(* before it or will do so on an event ahead of this one.                    *)
Clear == IF mail = <<>> THEN watcher = 0 ELSE mail[Len(mail)].kind # "end"
FreeFor(i) ==
  \/ \E j \in 1..(i - 1) : /\ down[j].kind = "start"
                           /\ \A k \in 1..(i - 1) : k > j => down[k].kind # "end"
  \/ Clear /\ \A k \in 1..(i - 1) : down[k].kind # "end"
FreeAtEnd == FreeFor(Len(down) + 1)

(* Two ends never follow one another.                                        *)
Apart ==
  /\ \A i \in 1..(Len(mail) - 1) : mail[i].kind = "end" => mail[i + 1].kind # "end"
  /\ watcher # 0 /\ mail # <<>> => mail[1].kind # "end"
  /\ \A i \in 1..Len(down) : down[i].kind = "end" => FreeFor(i)
  /\ phase = "play" => FreeAtEnd

(* Where the end of a hand is that nothing followed: on its way, the last    *)
(* event of the receiver, with the watcher, or its ready press is made.      *)
ToCome ==
  /\ \E i \in 1..Len(down) :
       /\ down[i].kind = "end" /\ down[i].window = hand
       /\ \A j \in 1..Len(down) : j > i => down[j].kind = "rsp"
       /\ \A j \in 1..Len(down) : j < i /\ down[j].kind = "end" => down[j].window < hand
  /\ \A i \in 1..Len(mail) : mail[i].kind = "end" => mail[i].hand < hand
  /\ watcher < hand /\ readies[hand] = 0
InMail ==
  /\ mail # <<>> /\ mail[Len(mail)].kind = "end" /\ mail[Len(mail)].hand = hand
  /\ \A i \in 1..(Len(mail) - 1) : mail[i].kind = "end" => mail[i].hand < hand
  /\ watcher # hand /\ readies[hand] = 0
Watched == mail = <<>> /\ watcher = hand /\ readies[hand] = 0
Pressed == mail = <<>> /\ watcher = 0 /\ readies[hand] = 1
LastEnd ==
  phase = "scoring" =>
    \/ ToCome
    \/ (\A j \in 1..Len(down) : down[j].kind = "rsp") /\ (InMail \/ Watched \/ Pressed)

(* The hands from this one on have no end yet.                               *)
Bound == IF phase = "play" THEN hand ELSE hand + 1
Ended ==
  /\ phase = "lobby" => hand = 0
  /\ phase # "play" => current = 0
  /\ phase \in {"play", "scoring"} => hand \in Hands
  /\ EndsBelow(Bound)
  /\ flowUp => Apart /\ LastEnd

JInv == Sorts /\ TasksFine /\ Ended

(* ------ the receiver of the watcher -------------------------------------- *)

(* What a new event does to it: the event comes last, and at most what was   *)
(* first gives way to a lag.                                                 *)
LEMMA PostGives ==
  ASSUME Sorts, NEW kind \in {"other", "end"}, NEW h \in Nat, Post(kind, h)
  PROVE  LET n == Len(mail)
             ev == [kind |-> kind, hand |-> h]
         IN  /\ mail' \in Seq(Mail) /\ mail' # <<>>
             /\ \/ /\ Len(mail') = n + 1 /\ mail'[n + 1] = ev
                   /\ \A i \in 1..n : mail'[i] = mail[i]
                \/ /\ n >= 1 /\ Len(mail') = n + 1 /\ mail'[n + 1] = ev /\ mail'[1] = Lag
                   /\ \A i \in 2..n : mail'[i] = mail[i]
                \/ /\ n >= 2 /\ Len(mail') = n /\ mail'[n] = ev /\ mail'[1] = Lag
                   /\ \A i \in 2..(n - 1) : mail'[i] = mail[i + 1]
<1> DEFINE n == Len(mail)  ev == [kind |-> kind, hand |-> h]  r == Retained
<1>0. mail \in Seq(Mail) /\ n \in Nat /\ ev \in Mail /\ Lag \in Mail /\ MailCap \in Nat \ {0}
  BY InjectAssumption DEF Sorts, Mail, Lag, InjectAssumption
<1>1. mail' = IF Len(r) < MailCap THEN Append(mail, ev) ELSE <<Lag>> \o Append(Tail(r), ev)
  BY DEF Post
<1>2. CASE Len(r) < MailCap
  <2>1. mail' = Append(mail, ev)
    BY <1>1, <1>2
  <2> HIDE DEF ev, r
  <2>2. /\ mail' \in Seq(Mail) /\ Len(mail') = n + 1 /\ mail'[n + 1] = ev
        /\ \A i \in 1..n : mail'[i] = mail[i]
    BY <1>0, <2>1
  <2>. QED
    BY <1>0, <2>2 DEF ev
<1>3. CASE ~(Len(r) < MailCap)
  <2>1. mail' = <<Lag>> \o Append(Tail(r), ev)
    BY <1>1, <1>3
  <2>2. \/ r = mail
        \/ mail # <<>> /\ r = Tail(mail)
    BY DEF Retained
  <2> HIDE DEF ev, r
  <2>3. r \in Seq(Mail) /\ Len(r) \in Nat /\ Len(r) >= 1
    BY <1>0, <1>3, <2>2
  <2> DEFINE s == Append(Tail(r), ev)  m == Len(r)
  <2>4. /\ s \in Seq(Mail) /\ Len(s) = m /\ s[m] = ev
        /\ \A i \in 1..(m - 1) : s[i] = r[i + 1]
    BY <1>0, <2>3
  <2> HIDE DEF s
  <2>5. mail' = <<Lag>> \o s
    BY <2>1 DEF s
  <2>6. /\ mail' \in Seq(Mail) /\ Len(mail') = m + 1 /\ mail'[1] = Lag
        /\ \A i \in 2..(m + 1) : mail'[i] = s[i - 1]
    BY <1>0, <2>3, <2>4, <2>5
  <2>7. mail'[m + 1] = ev /\ \A i \in 2..m : mail'[i] = r[i]
    <3>1. m + 1 \in 2..(m + 1) /\ (m + 1) - 1 = m
      BY <2>3
    <3>2. \A i \in 2..m : i \in 2..(m + 1) /\ i - 1 \in 1..(m - 1) /\ (i - 1) + 1 = i
      BY <2>3
    <3>. QED
      BY <2>4, <2>6, <3>1, <3>2
  <2>8. CASE r = mail
    BY <1>0, <2>3, <2>6, <2>7, <2>8 DEF ev
  <2>9. CASE mail # <<>> /\ r = Tail(mail)
    <3>1. m = n - 1 /\ \A i \in 1..m : r[i] = mail[i + 1]
      BY <1>0, <2>9
    <3>2. n >= 2 /\ m + 1 = n /\ \A i \in 2..(n - 1) : i \in 2..m /\ i \in 1..m
      BY <1>0, <2>3, <3>1
    <3>3. \A i \in 2..(n - 1) : mail'[i] = mail[i + 1]
      BY <2>7, <3>1, <3>2
    <3>4. Len(mail') = n /\ mail'[n] = ev /\ mail' # <<>>
      BY <1>0, <2>6, <2>7, <3>2
    <3>. QED
      BY <2>6, <3>2, <3>3, <3>4 DEF ev
  <2>. QED
    BY <2>2, <2>8, <2>9
<1>. QED
  BY <1>2, <1>3

(* What the post keeps: ends apart, as long as an end comes when it is clear,*)
(* and the bounds of their hands.                                            *)
LEMMA PostKeeps ==
  ASSUME Sorts, NEW kind \in {"other", "end"}, NEW h \in Nat, Post(kind, h), watcher' = watcher
  PROVE  /\ mail' \in Seq(Mail) /\ mail' # <<>>
         /\ mail'[Len(mail')].kind = kind /\ mail'[Len(mail')].hand = h
         /\ ((\A i \in 1..(Len(mail) - 1) : mail[i].kind = "end" => mail[i + 1].kind # "end")
             /\ (kind = "end" => Clear))
            => \A i \in 1..(Len(mail') - 1) : mail'[i].kind = "end" => mail'[i + 1].kind # "end"
         /\ ((watcher # 0 /\ mail # <<>> => mail[1].kind # "end") /\ (kind = "end" => Clear))
            => (watcher # 0 => mail'[1].kind # "end")
         /\ \A b \in Nat : (\A i \in 1..Len(mail) : mail[i].kind = "end" => mail[i].hand < b)
              => \A i \in 1..(Len(mail') - 1) : mail'[i].kind = "end" => mail'[i].hand < b
<1> DEFINE n == Len(mail)  ev == [kind |-> kind, hand |-> h]
           A == /\ Len(mail') = n + 1 /\ mail'[n + 1] = ev
                /\ \A i \in 1..n : mail'[i] = mail[i]
           B == /\ n >= 1 /\ Len(mail') = n + 1 /\ mail'[n + 1] = ev /\ mail'[1] = Lag
                /\ \A i \in 2..n : mail'[i] = mail[i]
           C == /\ n >= 2 /\ Len(mail') = n /\ mail'[n] = ev /\ mail'[1] = Lag
                /\ \A i \in 2..(n - 1) : mail'[i] = mail[i + 1]
<1>0. n \in Nat /\ mail \in Seq(Mail) /\ (mail = <<>> <=> n = 0)
  BY DEF Sorts
<1>1. mail' \in Seq(Mail) /\ mail' # <<>> /\ (A \/ B \/ C)
  BY PostGives
<1>2. ev.kind = kind /\ ev.hand = h /\ Lag.kind = "lag"
  BY DEF Lag
<1>3. mail'[Len(mail')] = ev
  BY <1>0, <1>1
<1>4. Clear <=> IF n = 0 THEN watcher = 0 ELSE mail[n].kind # "end"
  BY <1>0 DEF Clear
<1> HIDE DEF ev
<1>5. ASSUME \A i \in 1..(n - 1) : mail[i].kind = "end" => mail[i + 1].kind # "end",
             kind = "end" => Clear,
             NEW i \in 1..(Len(mail') - 1), mail'[i].kind = "end"
      PROVE  mail'[i + 1].kind # "end"
  <2>1. CASE A
    <3>1. i \in 1..n /\ mail'[i] = mail[i]
      BY <1>0, <2>1
    <3>2. CASE i = n
      BY <1>2, <1>4, <1>5, <2>1, <3>1, <3>2
    <3>3. CASE i # n
      <4>1. i \in 1..(n - 1) /\ i + 1 \in 1..n
        BY <1>0, <3>1, <3>3
      <4>. QED
        BY <1>5, <2>1, <3>1, <4>1
    <3>. QED
      BY <3>2, <3>3
  <2>2. CASE B
    <3>1. i \in 2..n /\ mail'[i] = mail[i]
      BY <1>0, <1>2, <1>5, <2>2
    <3>2. CASE i = n
      BY <1>2, <1>4, <1>5, <2>2, <3>1, <3>2
    <3>3. CASE i # n
      <4>1. i \in 1..(n - 1) /\ i + 1 \in 2..n
        BY <1>0, <3>1, <3>3
      <4>. QED
        BY <1>5, <2>2, <3>1, <4>1
    <3>. QED
      BY <3>2, <3>3
  <2>3. CASE C
    <3>1. i \in 2..(n - 1) /\ mail'[i] = mail[i + 1]
      BY <1>0, <1>2, <1>5, <2>3
    <3>2. CASE i = n - 1
      <4>1. i + 1 = n
        BY <1>0, <3>2
      <4>. QED
        BY <1>2, <1>4, <1>5, <2>3, <3>1, <4>1
    <3>3. CASE i # n - 1
      <4>1. i + 1 \in 1..(n - 1) /\ i + 1 \in 2..(n - 1)
        BY <1>0, <3>1, <3>3
      <4>. QED
        BY <1>5, <2>3, <3>1, <4>1
    <3>. QED
      BY <3>2, <3>3
  <2>. QED
    BY <1>1, <2>1, <2>2, <2>3
<1>6. ASSUME watcher # 0 /\ mail # <<>> => mail[1].kind # "end", kind = "end" => Clear,
             watcher # 0
      PROVE  mail'[1].kind # "end"
  <2>1. CASE A /\ n = 0
    BY <1>2, <1>4, <1>6, <2>1
  <2>2. CASE A /\ n # 0
    BY <1>0, <1>6, <2>2
  <2>3. CASE B \/ C
    BY <1>2, <2>3
  <2>. QED
    BY <1>1, <2>1, <2>2, <2>3
<1>7. ASSUME NEW b \in Nat, \A i \in 1..n : mail[i].kind = "end" => mail[i].hand < b,
             NEW i \in 1..(Len(mail') - 1), mail'[i].kind = "end"
      PROVE  mail'[i].hand < b
  <2>1. CASE A
    <3>1. i \in 1..n /\ mail'[i] = mail[i]
      BY <1>0, <2>1
    <3>. QED
      BY <1>7, <3>1
  <2>2. CASE B
    <3>1. i \in 1..n /\ mail'[i] = mail[i]
      BY <1>0, <1>2, <1>7, <2>2
    <3>. QED
      BY <1>7, <3>1
  <2>3. CASE C
    <3>1. i + 1 \in 1..n /\ mail'[i] = mail[i + 1]
      BY <1>0, <1>2, <1>7, <2>3
    <3>. QED
      BY <1>7, <3>1
  <2>. QED
    BY <1>1, <2>1, <2>2, <2>3
<1>. QED
  BY <1>1, <1>2, <1>3, <1>5, <1>6, <1>7

(* ------ the sorts --------------------------------------------------------- *)

LEMMA SortsAtFirst == InjectInit => Sorts
<1> SUFFICES ASSUME InjectInit PROVE Sorts
  OBVIOUS
<1>1. down \in Seq(Frames) /\ mail \in Seq(Mail)
  BY DEF InjectInit
<1>2. hand \in 0..MaxHands
  BY InjectAssumption DEF InjectAssumption, InjectInit
<1>3. readies \in [Hands -> Nat]
  BY DEF InjectInit
<1>4. planning \in [about : Nat, open : BOOLEAN, torn : BOOLEAN]
  BY DEF InjectInit, NoPlan
<1>5. Idle \in [pc : TaskPCs, about : Nat, inTime : BOOLEAN, window : Nat, created : Nat,
                ticket : Nat, attempt : Nat, raced : BOOLEAN]
  BY DEF Idle, TaskPCs
<1>6. task \in [Tasks -> [pc : TaskPCs, about : Nat, inTime : BOOLEAN, window : Nat,
                          created : Nat, ticket : Nat, attempt : Nat, raced : BOOLEAN]]
  BY <1>5 DEF InjectInit
<1>. QED
  BY <1>1, <1>2, <1>3, <1>4, <1>6 DEF InjectInit, Sorts

(* The sorts of what a server's step, or a step of the watcher, changes.     *)
HandSorts ==
  /\ down \in Seq(Frames) /\ mail \in Seq(Mail) /\ hand \in 0..MaxHands /\ watcher \in Nat
  /\ readies \in [Hands -> Nat] /\ flowUp \in BOOLEAN
  /\ phase \in {"lobby", "play", "scoring", "over"} /\ current \in Nat /\ offered \in Nat
(* And of what the manager and its tasks change.                             *)
TaskSorts ==
  /\ planning \in [about : Nat, open : BOOLEAN, torn : BOOLEAN] /\ reply \in Nat
  /\ at \in Nat /\ open \in BOOLEAN /\ decided \in Nat /\ rspSeen \in Nat
  /\ task \in [Tasks -> [pc : TaskPCs, about : Nat, inTime : BOOLEAN, window : Nat,
                         created : Nat, ticket : Nat, attempt : Nat, raced : BOOLEAN]]

LEMMA SortsAre == (Sorts <=> HandSorts /\ TaskSorts) /\ (Sorts' <=> HandSorts' /\ TaskSorts')
  BY DEF Sorts, HandSorts, TaskSorts

LEMMA ServerKeepsSorts == Sorts /\ Server => Sorts'
<1> SUFFICES ASSUME Sorts, Server PROVE Sorts'
  OBVIOUS
<1>0. HandSorts /\ TaskSorts
  BY SortsAre
<1>1. TaskSorts'
  <2>1. UNCHANGED <<planning, reply, at, open, decided, rspSeen, task>>
    BY DEF Server, ServerDeals, ServerOffers, ServerResolves, ServerEndsHand, ServerEndsGame,
           ServerTakes, ServerRejects, PlayerActs, FlowCloses, server, bus, manager, advance
  <2>. QED
    BY <1>0, <2>1 DEF TaskSorts
<1>2. HandSorts'
  <2>0. /\ hand \in Nat /\ MaxHands \in Nat /\ MaxOffers \in Nat
        /\ \A w \in Nat : \A k \in {"room", "start", "offer", "action", "end", "room_end", "rsp"} :
             Msg(k, w) \in Frames
    BY <1>0, InjectAssumption DEF HandSorts, Msg, Frames, InjectAssumption
  <2>1. CASE ServerDeals
    <3>1. <<Msg("room", 0), Msg("start", 0)>> \in Seq(Frames) /\ <<Msg("start", 0)>> \in Seq(Frames)
      BY <2>0
    <3>2. down' \in Seq(Frames)
      BY <1>0, <2>1, <3>1 DEF ServerDeals, HandSorts
    <3>3. hand' \in 0..MaxHands
      BY <2>0, <2>1 DEF ServerDeals
    <3>. QED
      BY <1>0, <2>1, <3>2, <3>3 DEF ServerDeals, HandSorts, advance
  <2>2. CASE ServerOffers
    BY <1>0, <2>0, <2>2 DEF ServerOffers, HandSorts, advance
  <2>3. CASE ServerResolves
    BY <1>0, <2>0, <2>3 DEF ServerResolves, HandSorts, advance
  <2>4. CASE ServerEndsHand
    BY <1>0, <2>0, <2>4 DEF ServerEndsHand, HandSorts, advance
  <2>5. CASE ServerEndsGame
    BY <1>0, <2>0, <2>5 DEF ServerEndsGame, HandSorts, advance
  <2>6. CASE ServerTakes
    <3>1. <<Msg("rsp", 0), Msg("action", 0)>> \in Seq(Frames)
      BY <2>0
    <3>2. down' \in Seq(Frames)
      BY <1>0, <2>6, <3>1 DEF ServerTakes, HandSorts
    <3>. QED
      BY <1>0, <2>6, <3>2 DEF ServerTakes, HandSorts, advance
  <2>7. CASE ServerRejects
    BY <1>0, <2>0, <2>7 DEF ServerRejects, HandSorts, advance, server
  <2>8. CASE PlayerActs
    BY <1>0, <2>8 DEF PlayerActs, HandSorts, advance
  <2>9. CASE FlowCloses
    <3>0. <<>> \in Seq(Frames)
      OBVIOUS
    <3>1. down' \in Seq(Frames) /\ flowUp' \in BOOLEAN
      BY <2>9, <3>0 DEF FlowCloses
    <3>. QED
      BY <1>0, <2>9, <3>1 DEF FlowCloses, HandSorts, advance, server
  <2>. QED
    BY <2>1, <2>2, <2>3, <2>4, <2>5, <2>6, <2>7, <2>8, <2>9 DEF Server
<1>. QED
  BY <1>1, <1>2, SortsAre

LEMMA ParseKeepsSorts == Sorts /\ Parse => Sorts'
<1> SUFFICES ASSUME Sorts, Parse PROVE Sorts'
  OBVIOUS
<1>0. HandSorts /\ TaskSorts
  BY SortsAre
<1>1. down # <<>> /\ down' = Tail(down) /\ down[1] \in Frames /\ down' \in Seq(Frames)
  <2>1. down # <<>> /\ down' = Tail(down)
    BY DEF Parse, ParseRoom, ParseOffer, ParseClosing, ParseRsp
  <2>. QED
    BY <1>0, <2>1 DEF HandSorts
<1>2. down[1].window \in Nat
  BY <1>1 DEF Frames
<1>3. UNCHANGED <<hand, watcher, readies, flowUp, phase, current, offered, reply, decided>>
  BY DEF Parse, ParseRoom, ParseOffer, ParseClosing, ParseRsp, server, manager, advance
<1>4. mail' \in Seq(Mail)
  <2>1. CASE ParseRoom \/ ParseRsp
    BY <1>0, <2>1 DEF HandSorts, ParseRoom, ParseRsp, advance
  <2>2. CASE ParseOffer
    <3>1. Post("other", 0)
      BY <2>2 DEF ParseOffer
    <3>. QED
      BY <3>1, PostGives
  <2>3. CASE ParseClosing
    <3>1. \E k \in {"other", "end"} : Post(k, down[1].window)
      BY <2>3 DEF ParseClosing
    <3>2. PICK k \in {"other", "end"} : Post(k, down[1].window)
      BY <3>1
    <3>3. PICK w \in Nat : w = down[1].window
      BY <1>2
    <3>4. Post(k, w)
      BY <3>2, <3>3
    <3>. QED
      BY <3>4, PostGives
  <2>. QED
    BY <2>1, <2>2, <2>3 DEF Parse
<1>5. HandSorts'
  BY <1>0, <1>1, <1>3, <1>4 DEF HandSorts
<1>6. at' \in Nat /\ open' \in BOOLEAN /\ rspSeen' \in Nat
  <2>1. CASE ParseRoom
    BY <1>0, <2>1 DEF ParseRoom, TaskSorts
  <2>2. CASE ParseOffer
    BY <1>0, <1>2, <2>2 DEF ParseOffer, TaskSorts
  <2>3. CASE ParseClosing
    BY <1>0, <2>3 DEF ParseClosing, TaskSorts
  <2>4. CASE ParseRsp
    BY <1>0, <2>4 DEF ParseRsp, TaskSorts
  <2>. QED
    BY <2>1, <2>2, <2>3, <2>4 DEF Parse
<1>7. /\ planning' \in [about : Nat, open : BOOLEAN, torn : BOOLEAN]
      /\ task' \in [Tasks -> [pc : TaskPCs, about : Nat, inTime : BOOLEAN, window : Nat,
                              created : Nat, ticket : Nat, attempt : Nat, raced : BOOLEAN]]
  <2>1. CASE Races
    BY <1>0, <2>1 DEF Races, TaskSorts
  <2>2. CASE UNCHANGED <<planning, task>>
    BY <1>0, <2>2 DEF TaskSorts
  <2>. QED
    BY <2>1, <2>2 DEF Parse, ParseRoom, ParseOffer, ParseClosing, ParseRsp, manager
<1>8. TaskSorts'
  BY <1>0, <1>3, <1>6, <1>7 DEF TaskSorts
<1>. QED
  BY <1>5, <1>8, SortsAre
LEMMA ManagerKeepsSorts == Sorts /\ Manager => Sorts'
<1> SUFFICES ASSUME Sorts, Manager PROVE Sorts'
  OBVIOUS
<1>0. HandSorts /\ TaskSorts
  BY SortsAre
<1>1. UNCHANGED <<down, mail, hand, watcher, readies, flowUp, phase, current, offered, at, open,
                  rspSeen>>
  BY DEF Manager, BotAnswers, SkipReply, PlanReadsFlag, PlanSpawns, server, bus, advance
<1>2. HandSorts'
  BY <1>0, <1>1 DEF HandSorts
<1>3. TaskSorts'
  <2>1. CASE BotAnswers
    BY <1>0, <1>1, <2>1 DEF BotAnswers, TaskSorts
  <2>2. CASE SkipReply
    BY <1>0, <1>1, <2>2 DEF SkipReply, TaskSorts
  <2>3. CASE PlanReadsFlag
    BY <1>0, <1>1, <2>3 DEF PlanReadsFlag, TaskSorts
  <2>4. ASSUME NEW t \in Tasks, PlanSpawns(t) PROVE TaskSorts'
    <3>1. planning' \in [about : Nat, open : BOOLEAN, torn : BOOLEAN]
      BY <2>4 DEF PlanSpawns, NoPlan
    <3>2. planning.about \in Nat /\ planning.open \in BOOLEAN /\ planning.torn \in BOOLEAN
      BY <1>0 DEF TaskSorts
    <3>3. task' \in [Tasks -> [pc : TaskPCs, about : Nat, inTime : BOOLEAN, window : Nat,
                               created : Nat, ticket : Nat, attempt : Nat, raced : BOOLEAN]]
      BY <1>0, <2>4, <3>2 DEF PlanSpawns, TaskSorts, Idle, TaskPCs
    <3>. QED
      BY <1>0, <1>1, <2>4, <3>1, <3>3 DEF PlanSpawns, TaskSorts
  <2>. QED
    BY <2>1, <2>2, <2>3, <2>4 DEF Manager
<1>. QED
  BY <1>2, <1>3, SortsAre

LEMMA TaskKeepsSorts == ASSUME NEW t \in Tasks, Sorts, Task(t) PROVE Sorts'
<1>0. HandSorts /\ TaskSorts
  BY SortsAre
<1>1. /\ UNCHANGED <<down, mail, hand, watcher, readies, flowUp, phase, current, offered, at, open,
                     rspSeen, decided, reply, planning>>
  BY DEF Task, Seek, SeekTimesOut, Gate, GateDrops, ThinkOver, Send, Acked, Unacked, OnlyTask,
         server, bus, advance
<1>2. HandSorts'
  BY <1>0, <1>1 DEF HandSorts
<1> DEFINE TaskSort == [pc : TaskPCs, about : Nat, inTime : BOOLEAN, window : Nat,
                        created : Nat, ticket : Nat, attempt : Nat, raced : BOOLEAN]
<1>3. task \in [Tasks -> TaskSort] /\ at \in Nat /\ rspSeen \in Nat
  BY <1>0 DEF TaskSorts
<1>4. task' \in [Tasks -> TaskSort]
  <2>1. CASE Seek(t)
    <3>1. task' = [task EXCEPT ![t] = [@ EXCEPT !.pc = "gate", !.window = at, !.created = 0]]
      BY <1>3, <2>1 DEF Seek
    <3>. QED
      BY <1>3, <3>1 DEF TaskPCs
  <2>2. ASSUME Ends(t) PROVE task' \in [Tasks -> TaskSort]
    BY <1>3, <2>2 DEF Ends, Idle, TaskPCs
  <2>3. CASE SeekTimesOut(t) \/ GateDrops(t) \/ Acked(t)
    BY <2>2, <2>3 DEF SeekTimesOut, GateDrops, Acked
  <2>4. CASE Gate(t)
    BY <1>3, <2>4 DEF Gate, Go, TaskPCs
  <2>5. CASE ThinkOver(t)
    BY <1>3, <2>2, <2>5 DEF ThinkOver, TaskPCs
  <2>6. CASE Send(t)
    <3>1. CASE flowUp
      <4>1. task' = [task EXCEPT ![t] = [@ EXCEPT !.pc = "await", !.raced = FALSE]]
        BY <1>3, <2>6, <3>1 DEF Send
      <4>. QED
        BY <1>3, <4>1 DEF TaskPCs
    <3>. QED
      BY <2>2, <2>6, <3>1 DEF Send
  <2>7. CASE Unacked(t)
    BY <1>3, <2>2, <2>7 DEF Unacked, TaskPCs
  <2>. QED
    BY <2>1, <2>3, <2>4, <2>5, <2>6, <2>7 DEF Task
<1>5. TaskSorts'
  BY <1>0, <1>1, <1>4 DEF TaskSorts
<1>. QED
  BY <1>2, <1>5, SortsAre

LEMMA OthersKeepSorts == Sorts /\ (RelayForwards \/ Watcher) => Sorts'
<1> SUFFICES ASSUME Sorts, RelayForwards \/ Watcher PROVE Sorts'
  OBVIOUS
<1>0. HandSorts /\ TaskSorts
  BY SortsAre
<1>1. TaskSorts'
  BY <1>0 DEF TaskSorts, RelayForwards, Watcher, WatcherSkips, WatcherWaits, WatcherVoids,
              WatcherAdvances, OnlyWatcher, bus, manager
<1>2. HandSorts'
  <2>1. CASE RelayForwards
    BY <1>0, <2>1 DEF RelayForwards, HandSorts, server, advance
  <2>2. CASE WatcherSkips \/ WatcherVoids
    <3>1. mail' = Tail(mail) /\ mail # <<>> /\ watcher' \in Nat
      BY <1>0, <2>2 DEF WatcherSkips, WatcherVoids, Read, HandSorts
    <3>2. UNCHANGED <<down, hand, readies, flowUp, phase, current, offered>>
      BY <2>2 DEF WatcherSkips, WatcherVoids, OnlyWatcher, server
    <3>. QED
      BY <1>0, <3>1, <3>2 DEF HandSorts
  <2>3. CASE WatcherWaits
    <3>1. mail # <<>> /\ mail' = Tail(mail) /\ watcher' = mail[1].hand
      BY <2>3 DEF WatcherWaits, Read
    <3>2. mail[1] \in Mail
      BY <1>0, <3>1 DEF HandSorts
    <3>3. watcher' \in Nat
      BY <3>1, <3>2 DEF Mail
    <3>. QED
      BY <1>0, <2>3, <3>1, <3>3 DEF WatcherWaits, OnlyWatcher, HandSorts, server
  <2>4. CASE WatcherAdvances
    <3>0. readies' = [readies EXCEPT ![watcher] = @ + 1] /\ readies \in [Hands -> Nat]
      BY <1>0, <2>4 DEF WatcherAdvances, HandSorts
    <3>1. readies' \in [Hands -> Nat] /\ watcher' \in Nat /\ mail' = mail
      <4>1. readies' \in [Hands -> Nat]
        <5>1. CASE watcher \in Hands
          BY <3>0, <5>1
        <5>2. CASE watcher \notin Hands
          BY <3>0, <5>2
        <5>. QED
          BY <5>1, <5>2
      <4>. QED
        BY <2>4, <4>1 DEF WatcherAdvances
    <3>2. UNCHANGED <<down, hand, flowUp, phase, current, offered>>
      BY <2>4 DEF WatcherAdvances, OnlyWatcher, server
    <3>. QED
      BY <1>0, <3>1, <3>2 DEF HandSorts
  <2>. QED
    BY <2>1, <2>2, <2>3, <2>4 DEF Watcher
<1>. QED
  BY <1>1, <1>2, SortsAre

(* Every step keeps the sorts.                                               *)
LEMMA SortsKept == Sorts /\ [InjectNext]_injectVars => Sorts'
<1> SUFFICES ASSUME Sorts, [InjectNext]_injectVars PROVE Sorts'
  OBVIOUS
<1>1. CASE UNCHANGED injectVars
  BY <1>1 DEF injectVars, Sorts
<1>. QED
  BY <1>1, ServerKeepsSorts, ParseKeepsSorts, ManagerKeepsSorts, TaskKeepsSorts, OthersKeepSorts
     DEF InjectNext

(* ------ the first frame of a task ---------------------------------------- *)

LEMMA TasksFineKept == Sorts /\ TasksFine /\ [InjectNext]_injectVars => TasksFine'
<1> SUFFICES ASSUME Sorts, TasksFine, [InjectNext]_injectVars, NEW u \in Tasks PROVE TaskFine(u)'
  BY DEF TasksFine
<1>0. TaskFine(u) /\ TaskSorts
  BY SortsAre DEF TasksFine
<1> DEFINE TaskSort == [pc : TaskPCs, about : Nat, inTime : BOOLEAN, window : Nat,
                        created : Nat, ticket : Nat, attempt : Nat, raced : BOOLEAN]
<1>1. task \in [Tasks -> TaskSort] /\ task[u] \in TaskSort
  BY <1>0 DEF TaskSorts
<1>2. CASE UNCHANGED <<task, open, at>>
  BY <1>0, <1>2 DEF TaskFine, Holds
<1>3. CASE Races
  <2>1. task'[u] = [task[u] EXCEPT !.raced = @ \/ task[u].pc = "send"]
    BY <1>3 DEF Races
  <2>2. /\ task'[u].pc = task[u].pc /\ task'[u].about = task[u].about
        /\ task'[u].inTime = task[u].inTime /\ task'[u].window = task[u].window
    BY <1>1, <2>1
  <2>3. task[u].pc = "send" => task'[u].raced
    BY <1>1, <2>1
  <2>. QED
    BY <1>0, <2>2, <2>3 DEF TaskFine
<1>4. ASSUME NEW t \in Tasks, PlanSpawns(t) PROVE TaskFine(u)'
  <2>1. open' = open /\ at' = at
    BY <1>4 DEF PlanSpawns, bus
  <2>2. CASE u = t
    <3>1. task'[u] = [Idle EXCEPT !.pc = IF ~inGame \/ (planning.open /\ at = 0) THEN "done"
                                         ELSE IF planning.open THEN "gate" ELSE "seek",
                      !.about = planning.about,
                      !.inTime = planning.open /\ ~planning.torn /\ at = planning.about,
                      !.window = IF planning.open THEN at ELSE 0,
                      !.created = IF planning.open THEN 0 ELSE at]
      BY <1>1, <1>4, <2>2 DEF PlanSpawns
    <3>2. planning.open \in BOOLEAN
      BY <1>0 DEF TaskSorts
    <3>3. task'[u].pc \in {"done", "gate", "seek"}
      BY <3>1 DEF Idle
    <3>4. task'[u].pc = "seek" => ~task'[u].inTime
      BY <3>1, <3>2 DEF Idle
    <3>5. task'[u].pc = "gate" /\ task'[u].inTime => task'[u].window = task'[u].about
      <4>1. CASE planning.open /\ at = planning.about
        BY <3>1, <4>1 DEF Idle
      <4>2. CASE ~(planning.open /\ at = planning.about)
        BY <3>1, <3>2, <4>2 DEF Idle
      <4>. QED
        BY <4>1, <4>2
    <3>. QED
      BY <3>3, <3>4, <3>5 DEF TaskFine
  <2>3. CASE u # t
    <3>1. task'[u] = task[u]
      BY <1>1, <1>4, <2>3 DEF PlanSpawns
    <3>. QED
      BY <1>0, <2>1, <3>1 DEF TaskFine, Holds
  <2>. QED
    BY <2>2, <2>3
<1>5. ASSUME NEW t \in Tasks, Task(t) PROVE TaskFine(u)'
  <2>1. open' = open /\ at' = at
    BY <1>5 DEF Task, Seek, SeekTimesOut, Gate, GateDrops, ThinkOver, Send, Acked, Unacked,
                OnlyTask, bus
  <2>2. CASE u # t
    <3>1. task'[u] = task[u]
      BY <1>1, <1>5, <2>2 DEF Task, Seek, SeekTimesOut, Gate, GateDrops, ThinkOver, Send, Acked,
                              Unacked, Ends, Go
    <3>. QED
      BY <1>0, <2>1, <3>1 DEF TaskFine, Holds
  <2>3. ASSUME u = t, Ends(t) PROVE TaskFine(u)'
    <3>1. task'[u].pc = "done"
      BY <1>1, <2>3 DEF Ends, Idle
    <3>. QED
      BY <3>1 DEF TaskFine
  <2>4. CASE u = t /\ Seek(t)
    <3>1. task'[u].pc = "gate" /\ task'[u].inTime = task[u].inTime /\ task[u].pc = "seek"
      BY <1>1, <2>4 DEF Seek
    <3>. QED
      BY <1>0, <3>1 DEF TaskFine
  <2>5. CASE u = t /\ Gate(t)
    <3>1. /\ task'[u].pc = "think" /\ task[u].pc = "gate" /\ task'[u].inTime = task[u].inTime
          /\ task'[u].window = task[u].window /\ task'[u].about = task[u].about
      BY <1>1, <2>5 DEF Gate, Go
    <3>. QED
      BY <1>0, <3>1 DEF TaskFine
  <2>6. CASE u = t /\ ThinkOver(t) /\ Holds(t)
    <3>1. /\ task'[u].pc = "send" /\ task[u].pc = "think" /\ task'[u].inTime = task[u].inTime
          /\ task'[u].window = task[u].window /\ task'[u].about = task[u].about
      BY <1>1, <2>6 DEF ThinkOver
    <3>2. Holds(u)'
      BY <2>1, <2>6, <3>1 DEF Holds
    <3>. QED
      BY <1>0, <3>1, <3>2 DEF TaskFine
  <2>7. CASE u = t /\ Send(t) /\ flowUp
    <3>1. /\ task'[u].pc = "await" /\ task[u].pc = "send" /\ task'[u].inTime = task[u].inTime
          /\ task'[u].window = task[u].window /\ task'[u].about = task[u].about
      BY <1>1, <2>7 DEF Send
    <3>. QED
      BY <1>0, <3>1 DEF TaskFine
  <2>8. CASE u = t /\ Unacked(t) /\ task[t].attempt < Resends
    <3>1. /\ task'[u].pc = "send" /\ task'[u].attempt = task[u].attempt + 1
          /\ task[u].pc = "await" /\ task[u].attempt \in Nat
          /\ task'[u].inTime = task[u].inTime /\ task'[u].window = task[u].window
          /\ task'[u].about = task[u].about
      BY <1>1, <2>8 DEF Unacked
    <3>2. task'[u].attempt # 0
      BY <3>1
    <3>. QED
      BY <1>0, <3>1, <3>2 DEF TaskFine
  <2>. QED
    BY <1>5, <2>2, <2>3, <2>4, <2>5, <2>6, <2>7, <2>8
       DEF Task, SeekTimesOut, GateDrops, Acked, ThinkOver, Send, Unacked
<1>6. CASE Server \/ RelayForwards \/ Watcher
  <2>1. UNCHANGED <<task, open, at>>
    BY <1>6 DEF Server, ServerDeals, ServerOffers, ServerResolves, ServerEndsHand, ServerEndsGame,
           ServerTakes, ServerRejects, PlayerActs, FlowCloses, RelayForwards, Watcher,
           WatcherSkips, WatcherWaits, WatcherVoids, WatcherAdvances, OnlyWatcher, bus, manager
  <2>. QED
    BY <1>2, <2>1
<1>7. CASE Parse
  BY <1>2, <1>3, <1>7 DEF Parse, ParseRoom, ParseOffer, ParseClosing, ParseRsp, manager
<1>8. CASE BotAnswers \/ SkipReply \/ PlanReadsFlag
  BY <1>2, <1>8 DEF BotAnswers, SkipReply, PlanReadsFlag, bus
<1>9. CASE UNCHANGED injectVars
  BY <1>2, <1>9 DEF injectVars
<1>. QED
  BY <1>4, <1>5, <1>6, <1>7, <1>8, <1>9 DEF InjectNext, Manager

(* The first frame of a reply that was planned in time goes out only while   *)
(* the window of its decision is open: RiichiInject's                        *)
(* FirstFrameAnswersItsDecision, whatever slept or reopened in between.       *)
THEOREM FrameSafety == InjectSpec => []FirstFrameAnswersItsDecision
<1>1. InjectInit => Sorts /\ TasksFine
  <2>1. InjectInit => TasksFine
    BY DEF InjectInit, TasksFine, TaskFine, Idle
  <2>. QED
    BY <2>1, SortsAtFirst
<1>2. Sorts /\ TasksFine /\ [InjectNext]_injectVars => (Sorts /\ TasksFine)'
  BY SortsKept, TasksFineKept
<1>3. TasksFine => FirstFrameAnswersItsDecision
  BY DEF TasksFine, TaskFine, Holds, FirstFrameAnswersItsDecision
<1>. QED
  BY <1>1, <1>2, <1>3, PTL DEF InjectSpec

(* ------ the ends on their way -------------------------------------------- *)

(* Messages are appended: what the earlier ones are free for stays so.       *)
LEMMA FreeForGrows ==
  ASSUME Sorts, down' \in Seq(Frames), mail' = mail, watcher' = watcher, Len(down') >= Len(down),
         \A k \in 1..Len(down) : down'[k] = down[k],
         NEW i \in Nat, i <= Len(down) + 1, FreeFor(i)
  PROVE  FreeFor(i)'
<1>0. Len(down) \in Nat
  BY DEF Sorts
<1>1. \A k \in 1..(i - 1) : down'[k] = down[k]
  BY <1>0
<1>2. Clear' = Clear
  BY DEF Clear
<1>. QED
  BY <1>1, <1>2 DEF FreeFor

(* A message that is no end is free for what follows it.                     *)
LEMMA FreeForNext ==
  ASSUME NEW i \in Nat \ {0}, FreeFor(i)', down'[i].kind # "end"
  PROVE  FreeFor(i + 1)'
<1>1. (i + 1) - 1 = i /\ 1..i = 1..(i - 1) \cup {i}
  OBVIOUS
<1>2. CASE \E j \in 1..(i - 1) : /\ down'[j].kind = "start"
                                 /\ \A k \in 1..(i - 1) : k > j => down'[k].kind # "end"
  <2>1. PICK j \in 1..(i - 1) : /\ down'[j].kind = "start"
                                /\ \A k \in 1..(i - 1) : k > j => down'[k].kind # "end"
    BY <1>2
  <2>2. j \in 1..i /\ \A k \in 1..i : k > j => down'[k].kind # "end"
    BY <1>1, <2>1
  <2>. QED
    BY <1>1, <2>1, <2>2 DEF FreeFor
<1>3. CASE Clear' /\ \A k \in 1..(i - 1) : down'[k].kind # "end"
  <2>1. \A k \in 1..i : down'[k].kind # "end"
    BY <1>1, <1>3
  <2>. QED
    BY <1>1, <1>3, <2>1 DEF FreeFor
<1>. QED
  BY <1>2, <1>3 DEF FreeFor

(* A start is.                                                               *)
LEMMA FreeForStart ==
  ASSUME NEW i \in Nat \ {0}, down'[i].kind = "start"
  PROVE  FreeFor(i + 1)'
<1>1. (i + 1) - 1 = i /\ i \in 1..i /\ \A k \in 1..i : ~(k > i)
  OBVIOUS
<1>. QED
  BY <1>1 DEF FreeFor

(* The first message is read: the others move up.                            *)
LEMMA FreeForShifts ==
  ASSUME Sorts, down # <<>>, down' = Tail(down),
         down[1].kind = "start" => Clear', down[1].kind # "end" /\ Clear => Clear',
         NEW i \in Nat \ {0}, i <= Len(down), FreeFor(i + 1)
  PROVE  FreeFor(i)'
<1>1. Len(down) \in Nat \ {0} /\ Len(down') = Len(down) - 1
      /\ \A k \in 1..(Len(down) - 1) : down'[k] = down[k + 1]
  BY DEF Sorts
<1>2. \A k \in 1..(i - 1) : k + 1 \in 1..i /\ down'[k] = down[k + 1]
  BY <1>1
<1>3. (i + 1) - 1 = i /\ 1 \in 1..i
  OBVIOUS
<1>4. CASE \E j \in 1..i : /\ down[j].kind = "start"
                           /\ \A k \in 1..i : k > j => down[k].kind # "end"
  <2>1. PICK j \in 1..i : /\ down[j].kind = "start"
                          /\ \A k \in 1..i : k > j => down[k].kind # "end"
    BY <1>4
  <2>2. CASE j = 1
    <3>1. \A k \in 1..(i - 1) : k + 1 > 1
      OBVIOUS
    <3>2. \A k \in 1..(i - 1) : down'[k].kind # "end"
      BY <1>2, <2>1, <2>2, <3>1
    <3>. QED
      BY <2>1, <2>2, <3>2 DEF FreeFor
  <2>3. CASE j # 1
    <3>1. j - 1 \in 1..(i - 1) /\ (j - 1) + 1 = j
      BY <2>3
    <3>2. down'[j - 1].kind = "start"
      BY <1>2, <2>1, <3>1
    <3>3. \A k \in 1..(i - 1) : k > j - 1 => down'[k].kind # "end"
      <4>1. \A k \in 1..(i - 1) : k > j - 1 => k + 1 > j
        BY <3>1
      <4>. QED
        BY <1>2, <2>1, <4>1
    <3>. QED
      BY <3>1, <3>2, <3>3 DEF FreeFor
  <2>. QED
    BY <2>2, <2>3
<1>5. CASE Clear /\ \A k \in 1..i : down[k].kind # "end"
  <2>1. Clear' /\ \A k \in 1..(i - 1) : down'[k].kind # "end"
    BY <1>2, <1>3, <1>5
  <2>. QED
    BY <2>1 DEF FreeFor
<1>. QED
  BY <1>3, <1>4, <1>5 DEF FreeFor

(* Nothing is read and nothing comes: only the watcher has moved.            *)
LEMMA FreeForStays ==
  ASSUME down' = down, Clear => Clear', NEW i, FreeFor(i)
  PROVE  FreeFor(i)'
  BY DEF FreeFor

(* ------ the steps of the server ------------------------------------------ *)

LEMMA FreeAtEndIs == ASSUME NEW n \in Nat, Len(down') = n, FreeFor(n + 1)' PROVE FreeAtEnd'
<1>1. (n + 1) - 1 = n /\ (Len(down') + 1) - 1 = n
  OBVIOUS
<1>. QED
  BY <1>1 DEF FreeAtEnd, FreeFor

(* Messages are appended.                                                    *)
LEMMA Grown ==
  ASSUME Sorts, Ended, flowUp, mail' = mail, watcher' = watcher, readies' = readies,
         down' \in Seq(Frames), Len(down') >= Len(down), \A k \in 1..Len(down) : down'[k] = down[k],
         Bound \in Nat, Bound' \in Nat, Bound <= Bound',
         \A i \in 1..Len(down') : i > Len(down) /\ down'[i].kind = "end"
                                   => down'[i].window < Bound' /\ FreeFor(i)',
         phase' = "play" => FreeAtEnd'
  PROVE  Apart' /\ EndsBelow(Bound)'
<1>0. /\ Len(down) \in Nat /\ Len(down') \in Nat /\ watcher \in Nat
      /\ down \in Seq(Frames) /\ mail \in Seq(Mail) /\ Len(mail) \in Nat
  BY DEF Sorts
<1>1. Apart /\ EndsBelow(Bound)
  BY DEF Ended
<1>2. ASSUME NEW i \in 1..Len(down'), down'[i].kind = "end"
      PROVE  down'[i].window < Bound' /\ FreeFor(i)'
  <2>1. CASE i > Len(down)
    BY <1>2, <2>1
  <2>2. CASE ~(i > Len(down))
    <3>1. i \in 1..Len(down) /\ down'[i] = down[i] /\ i <= Len(down) + 1 /\ i \in Nat
      BY <1>0, <2>2
    <3>2. down[i].window < Bound /\ FreeFor(i)
      BY <1>1, <1>2, <3>1 DEF Apart, EndsBelow
    <3>3. FreeFor(i)'
      BY <3>1, <3>2, FreeForGrows
    <3>4. down[i] \in Frames
      BY <1>0, <3>1
    <3>5. down[i].window \in Nat
      BY <3>4 DEF Frames
    <3>. QED
      BY <3>1, <3>2, <3>3, <3>5
  <2>. QED
    BY <2>1, <2>2
<1>3. Apart'
  BY <1>1, <1>2 DEF Apart
<1>4. EndsBelow(Bound)'
  <2>1. ASSUME NEW i \in 1..Len(mail), mail[i].kind = "end" PROVE mail[i].hand < Bound'
    <3>1. mail[i] \in Mail /\ mail[i].hand < Bound
      BY <1>0, <1>1, <2>1 DEF EndsBelow
    <3>2. mail[i].hand \in Nat
      BY <3>1 DEF Mail
    <3>. QED
      BY <3>1, <3>2
  <2>2. watcher < Bound'
    BY <1>0, <1>1 DEF EndsBelow
  <2>3. \A k \in Hands : k >= Bound' => readies[k] = 0
    BY <1>1, InjectAssumption DEF EndsBelow, Hands, InjectAssumption
  <2>. QED
    BY <1>2, <2>1, <2>2, <2>3 DEF EndsBelow
<1>. QED
  BY <1>3, <1>4

(* Nothing of it moves.                                                      *)
LEMMA EndedStays ==
  ASSUME Ended, UNCHANGED <<down, mail, watcher, readies, phase, hand, current>>, flowUp' => flowUp
  PROVE  Ended'
<1>1. EndsBelow(Bound)'
  BY DEF Ended, EndsBelow, Bound
<1>2. Apart => Apart'
  BY DEF Apart, FreeAtEnd, FreeFor, Clear
<1>3. LastEnd => LastEnd'
  BY DEF LastEnd, ToCome, InMail, Watched, Pressed
<1>. QED
  BY <1>1, <1>2, <1>3 DEF Ended

LEMMA ServerKeepsEnded == Sorts /\ Ended /\ Server => Ended'
<1> SUFFICES ASSUME Sorts, Ended, Server PROVE Ended'
  OBVIOUS
<1>a. Len(down) \in Nat
  BY DEF Sorts
<1>b. PICK n \in Nat : n = Len(down)
  BY <1>a
<1>0. /\ n = Len(down) /\ down \in Seq(Frames) /\ hand \in Nat /\ flowUp \in BOOLEAN
      /\ MaxHands \in Nat /\ Bound \in Nat
  BY <1>b, InjectAssumption DEF Sorts, Bound, InjectAssumption
<1>1. Sorts'
  BY ServerKeepsSorts
<1>2. down' \in Seq(Frames) /\ Bound' \in Nat /\ hand' \in 0..MaxHands
  <2>1. down' \in Seq(Frames) /\ hand' \in 0..MaxHands
    BY <1>1 DEF Sorts
  <2>2. hand' \in Nat
    BY <1>0, <2>1
  <2>3. Bound' = hand' \/ Bound' = hand' + 1
    BY DEF Bound
  <2>4. \A h \in Nat : h + 1 \in Nat
    OBVIOUS
  <2>5. Bound' \in Nat
    BY <2>2, <2>3, <2>4, Zenon
  <2>. QED
    BY <2>1, <2>5, Zenon
<1>3. UNCHANGED <<mail, watcher, readies>>
  BY DEF Server, ServerDeals, ServerOffers, ServerResolves, ServerEndsHand, ServerEndsGame,
         ServerTakes, ServerRejects, PlayerActs, FlowCloses, advance
<1>4. /\ flowUp => Apart /\ LastEnd
      /\ EndsBelow(Bound)
      /\ phase = "play" /\ flowUp => FreeFor(n + 1)
  BY <1>0 DEF Ended, Apart, FreeAtEnd
(* The step appends a message that is no end.                                *)
<1>5. ASSUME NEW m \in Frames, down' = Append(down, m), m.kind # "end", flowUp,
             Bound' = Bound, phase' = "play" => phase = "play"
      PROVE  Apart' /\ EndsBelow(Bound)'
  <2>1. Len(down') = n + 1 /\ down'[n + 1] = m /\ \A k \in 1..n : down'[k] = down[k]
    BY <1>0, <1>5
  <2>2. \A i \in 1..(n + 1) : i > n => i = n + 1
    BY <1>0
  <2>3. phase' = "play" => FreeFor(n + 1)'
    BY <1>0, <1>2, <1>3, <1>4, <1>5, <2>1, FreeForGrows
  <2>4. FreeFor(n + 1)' => FreeFor((n + 1) + 1)'
    BY <1>0, <1>5, <2>1, FreeForNext
  <2>5. \A i \in 1..Len(down') : i > n /\ down'[i].kind = "end"
                                  => down'[i].window < Bound' /\ FreeFor(i)'
    BY <1>5, <2>1, <2>2
  <2>6. Len(down') >= n /\ Bound <= Bound'
    BY <1>0, <1>5, <2>1
  <2>7. phase' = "play" => FreeAtEnd'
    BY <1>0, <2>1, <2>3, <2>4, FreeAtEndIs
  <2>. QED
    BY <1>0, <1>2, <1>3, <1>5, <2>1, <2>5, <2>6, <2>7, Grown
<1>6. CASE ServerDeals
  <2>1. /\ flowUp /\ flowUp' /\ phase \in {"lobby", "scoring"} /\ hand < MaxHands
        /\ phase' = "play" /\ hand' = hand + 1 /\ current' = current
    BY <1>6 DEF ServerDeals
  <2>2. Bound = hand + 1 /\ Bound' = hand + 1 /\ hand' \in Hands
    BY <1>0, <2>1 DEF Bound, Hands
  <2>3. PICK k \in {1, 2} : /\ Len(down') = n + k /\ down'[n + k].kind = "start"
                            /\ \A i \in 1..n : down'[i] = down[i]
                            /\ \A i \in 1..(n + k) : i > n => down'[i].kind # "end"
    <3>1. CASE phase = "lobby"
      <4>1. down' = down \o <<Msg("room", 0), Msg("start", 0)>>
        BY <1>6, <3>1 DEF ServerDeals
      <4>2. Len(down') = n + 2 /\ down'[n + 1] = Msg("room", 0) /\ down'[n + 2] = Msg("start", 0)
            /\ \A i \in 1..n : down'[i] = down[i]
        BY <1>0, <4>1
      <4>3. \A i \in 1..(n + 2) : i > n => i = n + 1 \/ i = n + 2
        BY <1>0
      <4>. QED
        BY <4>2, <4>3 DEF Msg
    <3>2. CASE phase = "scoring"
      <4>1. down' = down \o <<Msg("start", 0)>>
        BY <1>6, <3>2 DEF ServerDeals
      <4>2. Len(down') = n + 1 /\ down'[n + 1] = Msg("start", 0)
            /\ \A i \in 1..n : down'[i] = down[i]
        BY <1>0, <4>1
      <4>3. \A i \in 1..(n + 1) : i > n => i = n + 1
        BY <1>0
      <4>. QED
        BY <4>2, <4>3 DEF Msg
    <3>. QED
      BY <2>1, <3>1, <3>2
  <2>4. n + k \in Nat \ {0} /\ Len(down') >= n
    BY <1>0, <2>3
  <2>5. FreeFor((n + k) + 1)'
    BY <2>3, <2>4, FreeForStart
  <2>6. FreeAtEnd'
    BY <2>3, <2>4, <2>5, FreeAtEndIs
  <2>7. Apart' /\ EndsBelow(Bound)'
    BY <1>0, <1>2, <1>3, <2>1, <2>2, <2>3, <2>4, <2>6, Grown
  <2>8. LastEnd'
    BY <2>1 DEF LastEnd
  <2>. QED
    BY <2>1, <2>2, <2>7, <2>8 DEF Ended
<1>7. CASE ServerOffers
  <2>1. /\ flowUp /\ phase = "play" /\ phase' = "play" /\ hand' = hand
        /\ down' = Append(down, Msg("offer", offered + 1)) /\ offered \in Nat
    BY <1>7 DEF ServerOffers, Sorts
  <2>2. Msg("offer", offered + 1) \in Frames /\ Msg("offer", offered + 1).kind # "end"
    BY <2>1 DEF Msg, Frames
  <2>3. Bound' = Bound
    BY <2>1 DEF Bound
  <2>4. Apart' /\ EndsBelow(Bound)'
    BY <1>5, <2>1, <2>2, <2>3
  <2>. QED
    BY <2>1, <2>4 DEF Ended, LastEnd
<1>8. CASE ServerResolves
  <2>1. /\ flowUp /\ phase = "play" /\ phase' = "play" /\ hand' = hand
        /\ down' = Append(down, Msg("action", 0))
    BY <1>8 DEF ServerResolves, Ended
  <2>2. Msg("action", 0) \in Frames /\ Msg("action", 0).kind # "end"
    BY DEF Msg, Frames
  <2>3. Bound' = Bound
    BY <2>1 DEF Bound
  <2>4. Apart' /\ EndsBelow(Bound)'
    BY <1>5, <2>1, <2>2, <2>3
  <2>. QED
    BY <2>1, <2>4 DEF Ended, LastEnd
<1>9. CASE ServerEndsHand
  <2>1. /\ flowUp /\ flowUp' /\ phase = "play" /\ phase' = "scoring" /\ hand' = hand
        /\ current = 0 /\ current' = 0 /\ down' = Append(down, Msg("end", hand)) /\ hand \in Hands
    BY <1>9 DEF ServerEndsHand, Ended
  <2>2. /\ Len(down') = n + 1 /\ down'[n + 1] = Msg("end", hand)
        /\ \A k \in 1..n : down'[k] = down[k]
    BY <1>0, <2>1
  <2>3. Bound = hand /\ Bound' = hand + 1 /\ \A i \in 1..(n + 1) : i > n => i = n + 1
    BY <1>0, <2>1 DEF Bound
  <2>4. FreeFor(n + 1)'
    BY <1>0, <1>2, <1>3, <1>4, <2>1, <2>2, FreeForGrows
  <2>5. \A i \in 1..Len(down') : i > n /\ down'[i].kind = "end"
                                  => down'[i].window < Bound' /\ FreeFor(i)'
    BY <1>0, <2>2, <2>3, <2>4 DEF Msg
  <2>6. Apart' /\ EndsBelow(Bound)'
    <3>1. Len(down') >= n /\ Bound <= Bound' /\ phase' # "play"
      BY <1>0, <2>1, <2>2, <2>3
    <3>. QED
      BY <1>0, <1>2, <1>3, <2>1, <2>2, <2>5, <3>1, Grown
  <2>7. ToCome'
    <3>1. EndsBelow(hand)
      BY <1>4, <2>3
    <3>2. /\ \A i \in 1..Len(mail') : mail'[i].kind = "end" => mail'[i].hand < hand'
          /\ watcher' < hand' /\ readies'[hand'] = 0
      BY <1>0, <1>3, <2>1, <3>1 DEF EndsBelow
    <3>3. n + 1 \in 1..Len(down') /\ down'[n + 1].kind = "end" /\ down'[n + 1].window = hand'
      BY <1>0, <2>1, <2>2 DEF Msg
    <3>4. \A j \in 1..Len(down') : ~(j > n + 1)
      BY <1>0, <2>2
    <3>5. \A j \in 1..Len(down') : j < n + 1 /\ down'[j].kind = "end" => down'[j].window < hand'
      <4>1. \A j \in 1..Len(down') : j < n + 1 => j \in 1..n
        BY <1>0, <2>2
      <4>. QED
        BY <2>1, <2>2, <3>1, <4>1 DEF EndsBelow
    <3>. QED
      BY <3>2, <3>3, <3>4, <3>5 DEF ToCome
  <2>8. LastEnd'
    BY <2>7 DEF LastEnd
  <2>. QED
    BY <2>1, <2>6, <2>8 DEF Ended
<1>10. CASE ServerEndsGame
  <2>1. /\ flowUp /\ phase = "scoring" /\ phase' = "over" /\ hand' = hand /\ current' = current
        /\ down' = Append(down, Msg("room_end", 0))
    BY <1>10 DEF ServerEndsGame
  <2>2. Msg("room_end", 0) \in Frames /\ Msg("room_end", 0).kind # "end"
    BY DEF Msg, Frames
  <2>3. Bound' = Bound
    BY <2>1 DEF Bound
  <2>4. Apart' /\ EndsBelow(Bound)'
    BY <1>5, <2>1, <2>2, <2>3
  <2>. QED
    BY <2>1, <2>4 DEF Ended, LastEnd
<1>11. CASE ServerTakes
  <2>1. /\ flowUp /\ phase = "play" /\ phase' = "play" /\ hand' = hand
        /\ down' = down \o <<Msg("rsp", 0), Msg("action", 0)>>
    BY <1>11 DEF ServerTakes, Ended
  <2>2. /\ Len(down') = n + 2 /\ down'[n + 1] = Msg("rsp", 0) /\ down'[n + 2] = Msg("action", 0)
        /\ \A k \in 1..n : down'[k] = down[k]
    BY <1>0, <2>1
  <2>3. \A i \in 1..(n + 2) : i > n => i = n + 1 \/ i = n + 2
    BY <1>0
  <2>4. down'[n + 1].kind # "end" /\ down'[n + 2].kind # "end" /\ Bound' = Bound
    BY <2>1, <2>2 DEF Msg, Bound
  <2>5. FreeFor(n + 1)'
    BY <1>0, <1>2, <1>3, <1>4, <2>1, <2>2, FreeForGrows
  <2>6. FreeFor((n + 1) + 1)'
    BY <1>0, <2>4, <2>5, FreeForNext
  <2>7. n + 2 \in Nat \ {0} /\ (n + 1) + 1 = n + 2
    BY <1>0
  <2>8. FreeFor((n + 2) + 1)'
    BY <2>4, <2>6, <2>7, FreeForNext
  <2>9. Apart' /\ EndsBelow(Bound)'
    <3>1. /\ Len(down') >= n /\ Bound <= Bound' /\ FreeAtEnd'
          /\ \A i \in 1..Len(down') : i > n => down'[i].kind # "end"
      BY <1>0, <2>2, <2>3, <2>4, <2>7, <2>8, FreeAtEndIs
    <3>. QED
      BY <1>0, <1>2, <1>3, <2>1, <2>2, <3>1, Grown
  <2>. QED
    BY <2>1, <2>9 DEF Ended, LastEnd
<1>12. CASE ServerRejects
  <2>1. UNCHANGED <<phase, hand, current, flowUp>> /\ flowUp
    BY <1>12 DEF ServerRejects, server
  <2>2. CASE down' = down
    BY <1>3, <2>1, <2>2, EndedStays
  <2>3. CASE down' = Append(down, Msg("rsp", 0))
    <3>1. Msg("rsp", 0) \in Frames /\ Msg("rsp", 0).kind = "rsp" /\ Bound' = Bound
      BY <2>1 DEF Msg, Frames, Bound
    <3>2. Apart' /\ EndsBelow(Bound)'
      BY <1>5, <2>1, <2>3, <3>1
    <3>3. /\ Len(down') = n + 1 /\ down'[n + 1].kind = "rsp"
          /\ \A k \in 1..n : down'[k] = down[k]
      BY <1>0, <2>3, <3>1
    <3>4. \A j \in 1..(n + 1) : j \in 1..n \/ j = n + 1
      BY <1>0
    <3>5. ToCome => ToCome'
      <4>1. SUFFICES ASSUME ToCome PROVE ToCome'
        OBVIOUS
      <4>2. PICK i \in 1..n :
              /\ down[i].kind = "end" /\ down[i].window = hand
              /\ \A j \in 1..n : j > i => down[j].kind = "rsp"
              /\ \A j \in 1..n : j < i /\ down[j].kind = "end" => down[j].window < hand
        BY <1>0, <4>1 DEF ToCome
      <4>3. i \in 1..Len(down') /\ ~(n + 1 < i)
        BY <1>0, <3>3
      <4>4. /\ down'[i].kind = "end" /\ down'[i].window = hand'
            /\ \A j \in 1..Len(down') : j > i => down'[j].kind = "rsp"
            /\ \A j \in 1..Len(down') : j < i /\ down'[j].kind = "end" => down'[j].window < hand'
        BY <2>1, <3>3, <3>4, <4>2, <4>3
      <4>. QED
        BY <1>3, <2>1, <4>1, <4>3, <4>4 DEF ToCome
    <3>6. (\A j \in 1..n : down[j].kind = "rsp") => \A j \in 1..Len(down') : down'[j].kind = "rsp"
      BY <3>3, <3>4
    <3>7. (InMail => InMail') /\ (Watched => Watched') /\ (Pressed => Pressed')
      BY <1>3, <2>1 DEF InMail, Watched, Pressed
    <3>8. LastEnd'
      BY <1>0, <1>4, <2>1, <3>5, <3>6, <3>7 DEF LastEnd
    <3>. QED
      BY <2>1, <3>2, <3>8 DEF Ended
  <2>. QED
    BY <1>12, <2>2, <2>3 DEF ServerRejects
<1>13. CASE PlayerActs
  BY <1>13, EndedStays DEF PlayerActs, advance
<1>14. CASE FlowCloses
  <2>1. ~flowUp' /\ down' = <<>> /\ UNCHANGED <<phase, hand, current>>
    BY <1>14 DEF FlowCloses, server
  <2>2. EndsBelow(Bound)'
    <3>1. 1..Len(down') = {} /\ Bound' = Bound
      BY <2>1 DEF Bound
    <3>. QED
      BY <1>3, <1>4, <3>1 DEF EndsBelow
  <2>. QED
    BY <2>1, <2>2 DEF Ended
<1>. QED
  BY <1>6, <1>7, <1>8, <1>9, <1>10, <1>11, <1>12, <1>13, <1>14 DEF Server

(* ------ the steps of the bridge ------------------------------------------ *)

(* One message is read, and the watcher's receiver follows it.               *)
Reads ==
  /\ down # <<>> /\ down' = Tail(down)
  /\ UNCHANGED <<watcher, readies, phase, hand, current, flowUp>>
  /\ \/ down[1].kind \in {"room", "rsp"} /\ mail' = mail
     \/ down[1].kind \in {"offer", "action", "start", "room_end"} /\ \E h \in Nat : Post("other", h)
     \/ down[1].kind = "end" /\ Post("end", down[1].window)

LEMMA ParseReads == Sorts /\ Parse => Reads
<1> SUFFICES ASSUME Sorts, Parse PROVE Reads
  OBVIOUS
<1>1. down # <<>> /\ down' = Tail(down)
  BY DEF Parse, ParseRoom, ParseOffer, ParseClosing, ParseRsp
<1>2. down[1] \in Frames
  BY <1>1 DEF Sorts
<1>3. down[1].window \in Nat
  BY <1>2 DEF Frames
<1>4. UNCHANGED <<watcher, readies, phase, hand, current, flowUp>>
  BY DEF Parse, ParseRoom, ParseOffer, ParseClosing, ParseRsp, server, advance
<1>5. CASE ParseRoom \/ ParseRsp
  <2>1. down[1].kind \in {"room", "rsp"} /\ mail' = mail
    BY <1>5 DEF ParseRoom, ParseRsp, advance
  <2>. QED
    BY <1>1, <1>4, <2>1 DEF Reads
<1>6. CASE ParseOffer
  <2>1. down[1].kind = "offer" /\ Post("other", 0)
    BY <1>6 DEF ParseOffer
  <2>. QED
    BY <1>1, <1>4, <2>1 DEF Reads
<1>7. CASE ParseClosing
  <2>1. CASE down[1].kind = "end"
    <3>1. Post("end", down[1].window)
      BY <1>7, <2>1 DEF ParseClosing
    <3>. QED
      BY <1>1, <1>4, <2>1, <3>1 DEF Reads
  <2>2. CASE down[1].kind # "end"
    <3>1. down[1].kind \in {"offer", "action", "start", "room_end"} /\ Post("other", down[1].window)
      BY <1>7, <2>2 DEF ParseClosing
    <3>. QED
      BY <1>1, <1>3, <1>4, <3>1 DEF Reads
  <2>. QED
    BY <2>1, <2>2
<1>. QED
  BY <1>5, <1>6, <1>7 DEF Parse

(* What the receiver has after it.                                           *)
LEMMA MailAfter ==
  ASSUME Sorts, Reads
  PROVE  LET e == down[1].kind = "end"
         IN  /\ mail' \in Seq(Mail)
             /\ ((\A i \in 1..(Len(mail) - 1) : mail[i].kind = "end" => mail[i + 1].kind # "end")
                 /\ (e => Clear))
                => \A i \in 1..(Len(mail') - 1) : mail'[i].kind = "end" => mail'[i + 1].kind # "end"
             /\ ((watcher # 0 /\ mail # <<>> => mail[1].kind # "end") /\ (e => Clear))
                => (watcher' # 0 /\ mail' # <<>> => mail'[1].kind # "end")
             /\ e => /\ mail' # <<>> /\ mail'[Len(mail')].kind = "end"
                     /\ mail'[Len(mail')].hand = down[1].window
                     /\ \A b \in Nat : (\A i \in 1..Len(mail) : mail[i].kind = "end" => mail[i].hand < b)
                          => \A i \in 1..(Len(mail') - 1) : mail'[i].kind = "end" => mail'[i].hand < b
             /\ ~e => \A b \in Nat : (\A i \in 1..Len(mail) : mail[i].kind = "end" => mail[i].hand < b)
                          => \A i \in 1..Len(mail') : mail'[i].kind = "end" => mail'[i].hand < b
             /\ ~e /\ Clear => Clear'
             /\ down[1].kind = "start" => Clear'
<1>0. watcher' = watcher /\ down \in Seq(Frames) /\ mail \in Seq(Mail) /\ down # <<>>
  BY DEF Reads, Sorts
<1>1. down[1] \in Frames
  BY <1>0
<1>2. down[1].window \in Nat
  BY <1>1 DEF Frames
<1>3. CASE down[1].kind \in {"room", "rsp"} /\ mail' = mail
  <2>1. Clear' = Clear /\ down[1].kind # "end" /\ down[1].kind # "start"
    BY <1>0, <1>3 DEF Clear
  <2>. QED
    BY <1>0, <1>3, <2>1
<1>4. CASE down[1].kind \in {"offer", "action", "start", "room_end"} /\ \E h \in Nat : Post("other", h)
  <2>1. PICK h \in Nat : Post("other", h)
    BY <1>4
  <2>2. down[1].kind # "end"
    BY <1>4
  <2>3. /\ mail' \in Seq(Mail) /\ mail' # <<>> /\ mail'[Len(mail')].kind = "other"
        /\ (\A i \in 1..(Len(mail) - 1) : mail[i].kind = "end" => mail[i + 1].kind # "end")
           => \A i \in 1..(Len(mail') - 1) : mail'[i].kind = "end" => mail'[i + 1].kind # "end"
        /\ (watcher # 0 /\ mail # <<>> => mail[1].kind # "end")
           => (watcher # 0 => mail'[1].kind # "end")
        /\ \A b \in Nat : (\A i \in 1..Len(mail) : mail[i].kind = "end" => mail[i].hand < b)
             => \A i \in 1..(Len(mail') - 1) : mail'[i].kind = "end" => mail'[i].hand < b
    BY <1>0, <2>1, PostKeeps
  <2>4. Clear'
    BY <2>3 DEF Clear
  <2>5. ASSUME NEW b \in Nat, \A i \in 1..Len(mail) : mail[i].kind = "end" => mail[i].hand < b,
               NEW i \in 1..Len(mail'), mail'[i].kind = "end"
        PROVE  mail'[i].hand < b
    <3>1. Len(mail') \in Nat
      BY <2>3
    <3>2. i \in 1..(Len(mail') - 1) \/ i = Len(mail')
      BY <3>1
    <3>. QED
      BY <2>3, <2>5, <3>2
  <2>. QED
    BY <1>0, <2>2, <2>3, <2>4, <2>5
<1>5. CASE down[1].kind = "end" /\ Post("end", down[1].window)
  <2>1. PICK h \in Nat : h = down[1].window
    BY <1>2
  <2>2. Post("end", h)
    BY <1>5, <2>1
  <2>. QED
    BY <1>0, <1>5, <2>1, <2>2, PostKeeps
<1>. QED
  BY <1>3, <1>4, <1>5 DEF Reads

LEMMA ParseKeepsEnded == Sorts /\ Ended /\ Parse => Ended'
<1> SUFFICES ASSUME Sorts, Ended, Parse PROVE Ended'
  OBVIOUS
<1>0. Sorts' /\ Reads
  BY ParseKeepsSorts, ParseReads
<1>a. down \in Seq(Frames) /\ mail \in Seq(Mail) /\ mail' \in Seq(Mail) /\ Len(down) \in Nat
      /\ Len(mail) \in Nat /\ Len(mail') \in Nat /\ hand \in Nat /\ Bound \in Nat
  BY <1>0, InjectAssumption DEF Sorts, Bound, InjectAssumption
<1>b. PICK n \in Nat : n = Len(down)
  BY <1>a
<1>1. /\ n >= 1 /\ down # <<>> /\ down' = Tail(down) /\ Len(down') = n - 1
      /\ \A k \in 1..(n - 1) : down'[k] = down[k + 1] /\ k + 1 \in 1..n
  BY <1>0, <1>a, <1>b DEF Reads
<1>2. UNCHANGED <<watcher, readies, phase, hand, current, flowUp>> /\ Bound' = Bound
  BY <1>0 DEF Reads, Bound
<1>3. EndsBelow(Bound) /\ (flowUp => Apart /\ LastEnd)
  BY DEF Ended
<1> DEFINE e == down[1].kind = "end"
<1>4. \A b \in Nat : (\A i \in 1..Len(mail) : mail[i].kind = "end" => mail[i].hand < b)
         => \A i \in 1..(Len(mail') - 1) : mail'[i].kind = "end" => mail'[i].hand < b
  <2>1. SUFFICES ASSUME NEW b \in Nat, \A i \in 1..Len(mail) : mail[i].kind = "end" => mail[i].hand < b
                 PROVE  \A i \in 1..(Len(mail') - 1) : mail'[i].kind = "end" => mail'[i].hand < b
    OBVIOUS
  <2>2. CASE e
    BY <1>0, <2>1, <2>2, MailAfter
  <2>3. CASE ~e
    <3>1. \A i \in 1..Len(mail') : mail'[i].kind = "end" => mail'[i].hand < b
      BY <1>0, <2>1, <2>3, MailAfter
    <3>2. \A i \in 1..(Len(mail') - 1) : i \in 1..Len(mail')
      BY <1>a
    <3>. QED
      BY <3>1, <3>2
  <2>. QED
    BY <2>2, <2>3
<1>5. EndsBelow(Bound)'
  <2>1. ASSUME NEW i \in 1..Len(mail'), mail'[i].kind = "end" PROVE mail'[i].hand < Bound
    <3>1. \A j \in 1..Len(mail) : mail[j].kind = "end" => mail[j].hand < Bound
      BY <1>3 DEF EndsBelow
    <3>2. CASE ~e
      BY <1>0, <1>a, <2>1, <3>1, <3>2, MailAfter
    <3>3. CASE e /\ i = Len(mail')
      <4>1. mail'[i].hand = down[1].window
        BY <1>0, <3>3, MailAfter
      <4>2. 1 \in 1..Len(down)
        BY <1>1, <1>b
      <4>. QED
        BY <1>3, <3>3, <4>1, <4>2 DEF EndsBelow
    <3>4. CASE e /\ i # Len(mail')
      <4>1. i \in 1..(Len(mail') - 1)
        BY <1>a, <3>4
      <4>. QED
        BY <1>4, <1>a, <2>1, <3>1, <4>1
    <3>. QED
      BY <3>2, <3>3, <3>4
  <2>2. \A i \in 1..Len(down') : down'[i].kind = "end" => down'[i].window < Bound
    BY <1>1, <1>3, <1>b DEF EndsBelow
  <2>. QED
    BY <1>2, <1>3, <2>1, <2>2 DEF EndsBelow
<1>6. ASSUME flowUp PROVE Apart'
  <2>1. Apart
    BY <1>3, <1>6
  <2>2. e => Clear
    <3>1. 1 \in 1..Len(down) /\ 1..(1 - 1) = {}
      BY <1>1, <1>b
    <3>2. e => FreeFor(1)
      BY <2>1, <3>1 DEF Apart
    <3>. QED
      BY <3>1, <3>2 DEF FreeFor
  <2>3. (down[1].kind = "start" => Clear') /\ (~e /\ Clear => Clear')
    BY <1>0, MailAfter
  <2>4. ASSUME NEW i \in Nat \ {0}, i <= n, FreeFor(i + 1) PROVE FreeFor(i)'
    BY <1>1, <1>b, <2>3, <2>4, FreeForShifts
  <2>5. ASSUME NEW i \in 1..Len(down'), down'[i].kind = "end" PROVE FreeFor(i)'
    <3>1. i \in Nat \ {0} /\ i <= n /\ i + 1 \in 1..Len(down) /\ down[i + 1].kind = "end"
      BY <1>1, <1>b, <2>5
    <3>2. FreeFor(i + 1)
      BY <2>1, <3>1 DEF Apart
    <3>. QED
      BY <2>4, <3>1, <3>2
  <2>6. ASSUME phase' = "play" PROVE FreeAtEnd'
    <3>1. PICK m \in Nat : m = n - 1
      BY <1>1
    <3>2. FreeFor(n + 1)
      BY <1>2, <1>b, <2>1, <2>6 DEF Apart, FreeAtEnd
    <3>3. n \in Nat \ {0} /\ m + 1 = n
      BY <1>1, <3>1
    <3>4. FreeFor(m + 1)'
      BY <2>4, <3>2, <3>3
    <3>. QED
      BY <1>1, <3>1, <3>4, FreeAtEndIs
  <2>7. /\ \A i \in 1..(Len(mail') - 1) : mail'[i].kind = "end" => mail'[i + 1].kind # "end"
        /\ watcher' # 0 /\ mail' # <<>> => mail'[1].kind # "end"
    <3>1. /\ \A i \in 1..(Len(mail) - 1) : mail[i].kind = "end" => mail[i + 1].kind # "end"
          /\ watcher # 0 /\ mail # <<>> => mail[1].kind # "end"
      BY <2>1 DEF Apart
    <3>. QED
      BY <1>0, <2>2, <3>1, MailAfter
  <2>. QED
    BY <2>5, <2>6, <2>7 DEF Apart
<1>7. ASSUME flowUp, phase = "scoring" PROVE LastEnd'
  <2>0. LastEnd /\ hand \in Hands
    BY <1>3, <1>7 DEF Ended
  <2>1. CASE \A j \in 1..n : down[j].kind = "rsp"
    <3>1. 1 \in 1..n
      BY <1>1
    <3>2. down[1].kind = "rsp" /\ ~ToCome
      BY <1>b, <2>1, <3>1 DEF ToCome
    <3>3. mail' = mail
      BY <1>0, <3>2 DEF Reads
    <3>4. \A j \in 1..Len(down') : down'[j].kind = "rsp"
      BY <1>1, <2>1
    <3>5. InMail \/ Watched \/ Pressed
      BY <1>7, <2>0, <3>2 DEF LastEnd
    <3>6. (InMail => InMail') /\ (Watched => Watched') /\ (Pressed => Pressed')
      BY <1>2, <3>3 DEF InMail, Watched, Pressed
    <3>. QED
      BY <3>4, <3>5, <3>6 DEF LastEnd
  <2>2. CASE ToCome
    <3>1. PICK i \in 1..n :
            /\ down[i].kind = "end" /\ down[i].window = hand
            /\ \A j \in 1..n : j > i => down[j].kind = "rsp"
            /\ \A j \in 1..n : j < i /\ down[j].kind = "end" => down[j].window < hand
      BY <1>b, <2>2 DEF ToCome
    <3>2. /\ \A k \in 1..Len(mail) : mail[k].kind = "end" => mail[k].hand < hand
          /\ watcher < hand /\ readies[hand] = 0 /\ watcher \in Nat
      BY <2>2 DEF ToCome, Sorts
    <3>3. CASE i = 1
      <4>1. \A j \in 1..Len(down') : down'[j].kind = "rsp"
        <5>1. \A j \in 1..(n - 1) : j + 1 > 1
          OBVIOUS
        <5>. QED
          BY <1>1, <3>1, <3>3, <5>1
      <4>2. /\ mail' # <<>> /\ mail'[Len(mail')].kind = "end" /\ mail'[Len(mail')].hand = hand
            /\ \A k \in 1..(Len(mail') - 1) : mail'[k].kind = "end" => mail'[k].hand < hand
        BY <1>0, <1>4, <1>a, <3>1, <3>2, <3>3, MailAfter
      <4>3. InMail'
        <5>1. watcher # hand
          BY <1>a, <3>2
        <5>. QED
          BY <1>2, <3>2, <4>2, <5>1 DEF InMail
      <4>. QED
        BY <4>1, <4>3 DEF LastEnd
    <3>4. CASE i # 1
      <4>1. i - 1 \in 1..(n - 1) /\ (i - 1) + 1 = i /\ 1 \in 1..n /\ 1 < i
        BY <1>1, <3>4
      <4>2. down[1].kind = "end" => down[1].window < hand
        BY <3>1, <4>1
      <4>3. down'[i - 1].kind = "end" /\ down'[i - 1].window = hand
        BY <1>1, <3>1, <4>1
      <4>4. \A j \in 1..(n - 1) : /\ j > i - 1 => down'[j].kind = "rsp"
                                  /\ j < i - 1 /\ down'[j].kind = "end" => down'[j].window < hand
        <5>1. \A j \in 1..(n - 1) : (j > i - 1 => j + 1 > i) /\ (j < i - 1 => j + 1 < i)
          BY <4>1
        <5>. QED
          BY <1>1, <3>1, <5>1
      <4>5. ASSUME NEW k \in 1..Len(mail'), mail'[k].kind = "end" PROVE mail'[k].hand < hand
        <5>1. CASE ~e
          BY <1>0, <1>a, <3>2, <4>5, <5>1, MailAfter
        <5>2. CASE e /\ k = Len(mail')
          <6>1. mail'[k].hand = down[1].window
            BY <1>0, <5>2, MailAfter
          <6>. QED
            BY <4>2, <5>2, <6>1
        <5>3. CASE e /\ k # Len(mail')
          <6>1. k \in 1..(Len(mail') - 1)
            BY <1>a, <5>3
          <6>. QED
            BY <1>4, <1>a, <3>2, <4>5, <6>1
        <5>. QED
          BY <5>1, <5>2, <5>3
      <4>6. ToCome'
        <5>1. PICK q \in 1..(n - 1) : q = i - 1
          BY <4>1
        <5>2. /\ q \in 1..Len(down') /\ down'[q].kind = "end" /\ down'[q].window = hand'
              /\ \A j \in 1..Len(down') : j > q => down'[j].kind = "rsp"
              /\ \A j \in 1..Len(down') : j < q /\ down'[j].kind = "end" => down'[j].window < hand'
          BY <1>1, <1>2, <4>3, <4>4, <5>1
        <5>3. /\ \A k \in 1..Len(mail') : mail'[k].kind = "end" => mail'[k].hand < hand'
              /\ watcher' < hand' /\ readies'[hand'] = 0
          BY <1>2, <3>2, <4>5
        <5>. QED
          BY <5>2, <5>3 DEF ToCome
      <4>. QED
        BY <4>6 DEF LastEnd
    <3>. QED
      BY <3>3, <3>4
  <2>. QED
    BY <1>7, <1>b, <2>0, <2>1, <2>2 DEF LastEnd
<1>8. phase # "scoring" => LastEnd'
  BY <1>2 DEF LastEnd
<1>. QED
  BY <1>2, <1>5, <1>6, <1>7, <1>8 DEF Ended

(* ------ the steps of the watcher ----------------------------------------- *)

LEMMA WatcherKeepsEnded == Sorts /\ Ended /\ Watcher => Ended'
<1> SUFFICES ASSUME Sorts, Ended, Watcher PROVE Ended'
  OBVIOUS
<1>0. /\ mail \in Seq(Mail) /\ Len(mail) \in Nat /\ watcher \in Nat /\ hand \in Nat
      /\ readies \in [Hands -> Nat] /\ Bound \in Nat /\ 0 \notin Hands
  BY DEF Sorts, Bound, Hands
<1>1. UNCHANGED <<down, phase, hand, current, flowUp>> /\ Bound' = Bound
  BY DEF Watcher, WatcherSkips, WatcherWaits, WatcherVoids, WatcherAdvances, OnlyWatcher, server,
         Bound
<1>2. EndsBelow(Bound) /\ (flowUp => Apart /\ LastEnd)
  BY DEF Ended
<1>a. PICK n \in Nat : n = Len(mail)
  BY <1>0
(* The event at the head is read: the watcher keeps it if it is an end.      *)
<1>3. ASSUME mail # <<>>, mail' = Tail(mail), readies' = readies,
             \/ watcher' = 0 /\ (mail[1].kind # "end" \/ watcher # 0)
             \/ watcher' = mail[1].hand /\ mail[1].kind = "end" /\ watcher = 0
      PROVE  Ended'
  <2>1. /\ n >= 1 /\ Len(mail') = n - 1 /\ mail' \in Seq(Mail) /\ 1 \in 1..Len(mail)
        /\ \A k \in 1..(n - 1) : mail'[k] = mail[k + 1] /\ k + 1 \in 1..n
    BY <1>0, <1>3, <1>a
  <2>2. \A i \in 1..Len(mail') : mail'[i].kind = "end" => mail'[i].hand < Bound
    BY <1>2, <1>a, <2>1 DEF EndsBelow
  <2>3. watcher' < Bound
    <3>1. watcher < Bound /\ (mail[1].kind = "end" => mail[1].hand < Bound)
      BY <1>2, <2>1 DEF EndsBelow
    <3>. QED
      BY <1>0, <1>3, <3>1
  <2>4. EndsBelow(Bound)'
    BY <1>1, <1>2, <1>3, <2>2, <2>3 DEF EndsBelow
  <2>5. ASSUME Apart PROVE Apart'
    <3>1. Clear => Clear'
      <4>1. ASSUME mail[Len(mail)].kind # "end" PROVE Clear'
        <5>1. CASE n = 1
          <6>1. mail' = <<>> /\ mail[1].kind # "end"
            BY <1>a, <2>1, <4>1, <5>1
          <6>2. watcher' = 0
            BY <1>3, <6>1
          <6>. QED
            BY <6>1, <6>2 DEF Clear
        <5>2. CASE n # 1
          <6>1. n - 1 \in 1..(n - 1) /\ (n - 1) + 1 = n
            BY <2>1, <5>2
          <6>2. mail'[n - 1] = mail[n]
            BY <2>1, <6>1
          <6>3. mail' # <<>> /\ mail'[Len(mail')].kind # "end"
            BY <1>a, <2>1, <4>1, <6>1, <6>2
          <6>. QED
            BY <6>3 DEF Clear
        <5>. QED
          BY <5>1, <5>2
      <4>. QED
        BY <1>3, <4>1 DEF Clear
    <3>2. \A i \in 1..Len(down) : down[i].kind = "end" => FreeFor(i)'
      BY <1>1, <2>5, <3>1, FreeForStays DEF Apart
    <3>3. phase = "play" => FreeAtEnd'
      <4>1. PICK m \in Nat : m = Len(down)
        BY DEF Sorts
      <4>2. phase = "play" => FreeFor(m + 1)'
        BY <1>1, <2>5, <3>1, <4>1, FreeForStays DEF Apart, FreeAtEnd
      <4>. QED
        BY <1>1, <4>1, <4>2, FreeAtEndIs
    <3>4. \A i \in 1..(Len(mail') - 1) : mail'[i].kind = "end" => mail'[i + 1].kind # "end"
      <4>1. \A i \in 1..(n - 1) : mail[i].kind = "end" => mail[i + 1].kind # "end"
        BY <1>a, <2>5 DEF Apart
      <4>2. \A i \in 1..(Len(mail') - 1) : /\ i \in 1..(n - 1) /\ i + 1 \in 1..(n - 1)
                                           /\ (i + 1) + 1 \in 1..n
        BY <2>1
      <4>. QED
        BY <2>1, <4>1, <4>2
    <3>5. watcher' # 0 /\ mail' # <<>> => mail'[1].kind # "end"
      <4>1. SUFFICES ASSUME watcher' # 0, mail' # <<>> PROVE mail'[1].kind # "end"
        OBVIOUS
      <4>2. mail[1].kind = "end" /\ n # 1
        BY <1>3, <2>1, <4>1
      <4>3. 1 \in 1..(Len(mail) - 1) /\ 1 \in 1..(n - 1) /\ 1 + 1 = 2
        BY <1>a, <2>1, <4>2
      <4>4. mail[1 + 1].kind # "end"
        BY <2>5, <4>2, <4>3 DEF Apart
      <4>. QED
        BY <2>1, <4>3, <4>4
    <3>. QED
      BY <1>1, <3>2, <3>3, <3>4, <3>5 DEF Apart
  <2>6. ASSUME Apart, LastEnd, phase = "scoring" PROVE LastEnd'
    <3>0. hand \in Hands
      BY <2>6 DEF Ended
    <3>1. CASE ToCome
      <4>1. /\ \A i \in 1..Len(mail) : mail[i].kind = "end" => mail[i].hand < hand
            /\ watcher < hand /\ readies[hand] = 0
        BY <3>1 DEF ToCome
      <4>2. \A i \in 1..Len(mail') : mail'[i].kind = "end" => mail'[i].hand < hand'
        BY <1>1, <1>a, <2>1, <4>1
      <4>3. watcher' < hand' /\ readies'[hand'] = 0
        BY <1>0, <1>1, <1>3, <2>1, <4>1
      <4>4. ToCome'
        BY <1>1, <3>1, <4>2, <4>3 DEF ToCome
      <4>. QED
        BY <4>4 DEF LastEnd
    <3>2. ASSUME InMail PROVE InMail' \/ Watched'
      <4>1. /\ mail[n].kind = "end" /\ mail[n].hand = hand
            /\ \A i \in 1..(n - 1) : mail[i].kind = "end" => mail[i].hand < hand
            /\ watcher # hand /\ readies[hand] = 0
        BY <1>a, <3>2 DEF InMail
      <4>2. CASE n = 1
        <5>1. watcher = 0
          BY <1>3, <2>6, <4>1, <4>2 DEF Apart
        <5>2. watcher' = hand
          BY <1>3, <4>1, <4>2, <5>1
        <5>3. mail' = <<>>
          BY <2>1, <4>2
        <5>4. Watched'
          BY <1>1, <1>3, <4>1, <5>2, <5>3 DEF Watched
        <5>. QED
          BY <5>4
      <4>3. CASE n # 1
        <5>1. n - 1 \in 1..(n - 1) /\ (n - 1) + 1 = n /\ 1 \in 1..(n - 1)
          BY <2>1, <4>3
        <5>2. mail' # <<>> /\ mail'[Len(mail')].kind = "end" /\ mail'[Len(mail')].hand = hand
          BY <2>1, <4>1, <5>1
        <5>3. \A i \in 1..(Len(mail') - 1) : mail'[i].kind = "end" => mail'[i].hand < hand
          <6>1. \A i \in 1..(Len(mail') - 1) : i \in 1..(n - 1) /\ i + 1 \in 1..(n - 1)
            BY <2>1
          <6>. QED
            BY <2>1, <4>1, <6>1
        <5>4. watcher' # hand
          <6>1. mail[1].kind = "end" => mail[1].hand < hand
            BY <4>1, <5>1
          <6>2. mail[1] \in Mail
            BY <1>0, <2>1
          <6>3. mail[1].hand \in Nat
            BY <6>2 DEF Mail
          <6>. QED
            BY <1>0, <1>3, <3>0, <6>1, <6>3
        <5>5. InMail'
          BY <1>1, <1>3, <4>1, <5>2, <5>3, <5>4 DEF InMail
        <5>. QED
          BY <5>5
      <4>. QED
        BY <4>2, <4>3
    <3>3. ~Watched /\ ~Pressed
      BY <1>3 DEF Watched, Pressed
    <3>4. CASE (\A j \in 1..Len(down) : down[j].kind = "rsp") /\ InMail
      BY <1>1, <3>2, <3>4 DEF LastEnd
    <3>. QED
      BY <2>6, <3>1, <3>3, <3>4 DEF LastEnd
  <2>7. phase # "scoring" => LastEnd'
    BY <1>1 DEF LastEnd
  <2>. QED
    BY <1>1, <1>2, <2>4, <2>5, <2>6, <2>7 DEF Ended
<1>4. CASE WatcherSkips
  <2>1. /\ mail # <<>> /\ mail' = Tail(mail) /\ readies' = readies /\ watcher = 0 /\ watcher' = 0
        /\ mail[1].kind # "end"
    BY <1>4 DEF WatcherSkips, Read
  <2>. QED
    BY <1>3, <2>1
<1>5. CASE WatcherWaits
  <2>1. /\ mail # <<>> /\ mail' = Tail(mail) /\ readies' = readies /\ watcher = 0
        /\ watcher' = mail[1].hand /\ mail[1].kind = "end"
    BY <1>5 DEF WatcherWaits, Read
  <2>. QED
    BY <1>3, <2>1
<1>6. CASE WatcherVoids
  <2>1. mail # <<>> /\ mail' = Tail(mail) /\ readies' = readies /\ watcher # 0 /\ watcher' = 0
    BY <1>6 DEF WatcherVoids, OnlyWatcher
  <2>. QED
    BY <1>3, <2>1
<1>7. CASE WatcherAdvances
  <2>1. /\ watcher # 0 /\ watcher' = 0 /\ mail' = mail
        /\ readies' = [readies EXCEPT ![watcher] = @ + 1]
    BY <1>7 DEF WatcherAdvances
  <2>2. watcher < Bound /\ 0 < Bound
    BY <1>0, <1>2 DEF EndsBelow
  <2>3. EndsBelow(Bound)'
    <3>1. ASSUME NEW k \in Hands, k >= Bound PROVE readies'[k] = 0
      <4>1. k # watcher
        BY <1>0, <2>2, <3>1 DEF Hands
      <4>2. readies[k] = 0
        BY <1>2, <3>1 DEF EndsBelow
      <4>. QED
        BY <1>0, <2>1, <4>1, <4>2
    <3>. QED
      BY <1>1, <1>2, <2>1, <2>2, <3>1 DEF EndsBelow
  <2>4. ASSUME Apart PROVE Apart'
    <3>1. Clear => Clear'
      BY <2>1 DEF Clear
    <3>2. \A i \in 1..Len(down) : down[i].kind = "end" => FreeFor(i)'
      BY <1>1, <2>4, <3>1, FreeForStays DEF Apart
    <3>3. phase = "play" => FreeAtEnd'
      <4>1. PICK m \in Nat : m = Len(down)
        BY DEF Sorts
      <4>2. phase = "play" => FreeFor(m + 1)'
        BY <1>1, <2>4, <3>1, <4>1, FreeForStays DEF Apart, FreeAtEnd
      <4>. QED
        BY <1>1, <4>1, <4>2, FreeAtEndIs
    <3>. QED
      BY <1>1, <2>1, <2>4, <3>2, <3>3 DEF Apart
  <2>5. ASSUME LastEnd, phase = "scoring" PROVE LastEnd'
    <3>0. hand \in Hands
      BY <2>5 DEF Ended
    <3>1. watcher # hand => readies'[hand] = readies[hand]
      BY <1>0, <2>1, <3>0
    <3>2. ToCome => ToCome'
      <4>1. ToCome => watcher # hand /\ watcher' < hand'
        BY <1>0, <1>1, <2>1 DEF ToCome
      <4>. QED
        BY <1>1, <2>1, <3>1, <4>1 DEF ToCome
    <3>3. InMail => InMail'
      BY <1>0, <1>1, <2>1, <3>0, <3>1 DEF InMail
    <3>4. Watched => Pressed'
      <4>1. Watched => readies'[hand] = 1
        BY <1>0, <2>1, <3>0 DEF Watched
      <4>. QED
        BY <1>1, <2>1, <4>1 DEF Watched, Pressed
    <3>5. ~Pressed
      BY <2>1 DEF Pressed
    <3>. QED
      BY <1>1, <2>5, <3>2, <3>3, <3>4, <3>5 DEF LastEnd
  <2>6. phase # "scoring" => LastEnd'
    BY <1>1 DEF LastEnd
  <2>. QED
    BY <1>1, <1>2, <2>3, <2>4, <2>5, <2>6 DEF Ended
<1>. QED
  BY <1>4, <1>5, <1>6, <1>7 DEF Watcher

(* ------ the hands --------------------------------------------------------- *)

LEMMA EndedKept == Sorts /\ Ended /\ [InjectNext]_injectVars => Ended'
<1> SUFFICES ASSUME Sorts, Ended, [InjectNext]_injectVars PROVE Ended'
  OBVIOUS
<1>1. CASE UNCHANGED injectVars
  BY <1>1, EndedStays DEF injectVars
<1>2. CASE Manager \/ (\E t \in Tasks : Task(t)) \/ RelayForwards
  <2>1. UNCHANGED <<down, mail, watcher, readies, phase, hand, current, flowUp>>
    BY <1>2 DEF Manager, BotAnswers, SkipReply, PlanReadsFlag, PlanSpawns, Task, Seek,
                SeekTimesOut, Gate, GateDrops, ThinkOver, Send, Acked, Unacked, OnlyTask,
                RelayForwards, server, advance
  <2>. QED
    BY <2>1, EndedStays
<1>. QED
  BY <1>1, <1>2, ServerKeepsEnded, ParseKeepsEnded, WatcherKeepsEnded DEF InjectNext

LEMMA EndedAtFirst == InjectInit => Ended
<1> SUFFICES ASSUME InjectInit PROVE Ended
  OBVIOUS
<1>1. /\ phase = "lobby" /\ hand = 0 /\ current = 0 /\ down = <<>> /\ mail = <<>> /\ watcher = 0
      /\ readies = [h \in Hands |-> 0]
  BY DEF InjectInit
<1>2. 1..Len(down) = {} /\ 1..Len(mail) = {} /\ 1..(Len(mail) - 1) = {} /\ Bound = 1
  BY <1>1 DEF Bound
<1>3. EndsBelow(Bound)
  BY <1>1, <1>2 DEF EndsBelow
<1>4. Apart /\ LastEnd
  BY <1>1, <1>2 DEF Apart, LastEnd
<1>. QED
  BY <1>1, <1>3, <1>4 DEF Ended

(* A hand that ended and that nothing followed has had its ready press, and  *)
(* just one, once the watcher has nothing left to do: RiichiInject's         *)
(* QuietHandAdvanced, for every capacity of the watcher's receiver.          *)
THEOREM AdvanceSafety == InjectSpec => []QuietHandAdvanced
<1>1. InjectInit => Sorts /\ Ended
  BY SortsAtFirst, EndedAtFirst
<1>2. Sorts /\ Ended /\ [InjectNext]_injectVars => (Sorts /\ Ended)'
  BY SortsKept, EndedKept
<1>3. Sorts /\ Ended => QuietHandAdvanced
  <2>1. SUFFICES ASSUME Sorts, Ended, phase = "scoring", flowUp, down = <<>>, mail = <<>>, watcher = 0
                 PROVE  readies[hand] = 1
    BY DEF QuietHandAdvanced
  <2>2. LastEnd /\ hand \in Hands /\ hand # 0
    BY <2>1 DEF Ended, Hands
  <2>3. 1..Len(down) = {}
    BY <2>1
  <2>4. ~ToCome /\ ~InMail /\ ~Watched
    BY <2>1, <2>2, <2>3 DEF ToCome, InMail, Watched
  <2>5. Pressed
    BY <2>1, <2>2, <2>4 DEF LastEnd
  <2>. QED
    BY <2>5 DEF Pressed
<1>. QED
  BY <1>1, <1>2, <1>3, PTL DEF InjectSpec
=============================================================================
