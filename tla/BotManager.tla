----------------------------- MODULE BotManager -----------------------------
(***************************************************************************)
(* The bot manager (src/src/bot/manager.rs) and the line protocol it speaks *)
(* with a subprocess bot (src/src/bot/runner.rs), fed by the post-tracker   *)
(* bus (src/src/event_bus.rs).                                              *)
(*                                                                         *)
(* The bus delivers game events one at a time.  The manager spawns a runner *)
(* at start_game, buffers events, and at a decision point writes the batch  *)
(* to the bot and waits for one line.  With autoplay on, a `reach` without  *)
(* a tile makes it ask a second question (the reach follow-up) and drop the *)
(* bridge's later echo of that declaration.                                 *)
(*                                                                         *)
(* stdout is a FIFO of lines, one per question, so it is three counters:    *)
(* questions written, lines the bot has written, lines the manager has      *)
(* read.  A question that timed out leaves its line unread.                 *)
(***************************************************************************)
EXTENDS Naturals, Sequences, FiniteSets

CONSTANTS Seats,             \* seats of a table
          MaxEvents,         \* bound: events published in one behaviour
          PostCap            \* capacity of the post-tracker broadcast channel

(* How a reach follow-up may end.                                           *)
Outcomes == {"dahai",        \* the declaring discard
             "other",        \* a line that is not a dahai
             "malformed",    \* a line that does not parse
             "late"}         \* no line within react_timeout; it comes later

ASSUME SeatsAssumption == "none" \notin Seats
ASSUME ManagerBoundsAssumption == MaxEvents \in Nat /\ PostCap \in Nat \ {0}

NoSeat == "none"
Kinds == {"start_game", "start_kyoku", "tsumo", "dahai", "claim", "kakan", "reach",
          "hora", "end_kyoku", "end_game"}
ByASeat == {"start_game", "tsumo", "dahai", "claim", "kakan", "reach"}
Event == [id : Nat, kind : Kinds, actor : Seats \cup {NoSeat}, can : BOOLEAN]
Statuses == {"Idle", "Loading", "Ready", "Error", "Stopped"}
Phases == {"idle", "spawning", "asking", "following"}

VARIABLES
  \* the table, as the bridge reports it
  stage,      \* "lobby", "table" (between hands) or "hand"
  declared,   \* seats whose reach was reported in this hand
  published,  \* events published so far
  post,       \* the manager's receiver of the post-tracker bus
  autoplay,   \* config.autoplay.enabled
  \* BotManager
  step,       \* where handle_tracked is suspended
  handling,   \* the event being handled while step # "idle"
  actorId,    \* actor_id
  up,         \* runner.is_some()
  pending,    \* ids of the events in `pending`
  drop,       \* drop_next_own_reach
  status,     \* the last BotStatus emitted
  followable, \* autoplay_enabled as read before the question
  \* the runner and its pipe
  seat,       \* the seat the runner was spawned for
  born,       \* id of the start_game that spawned it
  fed,        \* ids of the events written to it
  reaches,    \* own reach events in its view of the current hand
  asked, written, read,
  slipped,    \* a follow-up of this runner timed out: a line was left behind
  unresolved, \* a follow-up in this hand brought no tile
  \* history
  skipped,    \* ids of echoes withheld from the runner
  lost,       \* ids overwritten in the receiver (RecvError::Lagged)
  taken       \* the last line of this runner taken for an answer: the question it
              \* was taken to answer, and the question the bot wrote it for

table == <<stage, declared, published>>
pipe == <<asked, written, read, slipped>>
view == <<seat, born, fed, reaches, unresolved>>
managerVars == <<stage, declared, published, post, autoplay, step, handling, actorId, up, pending,
          drop, status, followable, seat, born, fed, reaches, asked, written, read,
          slipped, unresolved, skipped, lost, taken>>

-----------------------------------------------------------------------------
(* The table.                                                               *)

NoEvent == [id |-> 0, kind |-> "end_game", actor |-> NoSeat, can |-> FALSE]

ManagerInit ==
  /\ stage = "lobby" /\ declared = {} /\ published = 0
  /\ post = <<>> /\ autoplay \in BOOLEAN
  /\ step = "idle" /\ handling = NoEvent
  /\ actorId = NoSeat /\ up = FALSE /\ pending = {} /\ drop = FALSE
  /\ status = "Idle" /\ followable = FALSE
  /\ seat = NoSeat /\ born = 0 /\ fed = {} /\ reaches = 0
  /\ asked = 0 /\ written = 0 /\ read = 0
  /\ slipped = FALSE /\ unresolved = FALSE /\ skipped = {} /\ lost = {}
  /\ taken = [question |-> 0, line |-> 0]

(* broadcast::Sender::send; a receiver that lags loses its oldest event.    *)
Deliver(e) ==
  IF Len(post) = PostCap
  THEN post' = Append(Tail(post), e) /\ lost' = lost \cup {Head(post).id}
  ELSE post' = Append(post, e) /\ UNCHANGED lost

(* A bridge event, applied by the tracker and re-emitted with the engine's  *)
(* opinion.  A reconnect may start a game at any time; a hand reports each  *)
(* seat's reach at most once.  The actor of start_game is our seat.         *)
Publish(kind, actor, can) ==
  /\ published < MaxEvents
  /\ kind \in ByASeat <=> actor # NoSeat
  /\ can => kind \in {"tsumo", "dahai", "claim", "kakan"}
  /\ published' = published + 1
  /\ Deliver([id |-> published + 1, kind |-> kind, actor |-> actor, can |-> can])
  /\ \/ kind = "start_game" /\ stage' = "table" /\ declared' = {}
     \/ kind = "start_kyoku" /\ stage = "table" /\ stage' = "hand" /\ declared' = {}
     \/ /\ kind \in {"tsumo", "dahai", "claim", "kakan", "hora"}
        /\ stage = "hand" /\ UNCHANGED <<stage, declared>>
     \/ /\ kind = "reach" /\ stage = "hand" /\ actor \notin declared
        /\ declared' = declared \cup {actor} /\ UNCHANGED stage
     \/ kind = "end_kyoku" /\ stage = "hand" /\ stage' = "table" /\ UNCHANGED declared
     \/ kind = "end_game" /\ stage # "lobby" /\ stage' = "lobby" /\ UNCHANGED declared
  /\ UNCHANGED <<autoplay, step, handling, actorId, up, pending, drop, status, followable,
                 view, pipe, skipped, taken>>

ToggleAutoplay ==
  /\ autoplay' = ~autoplay
  /\ UNCHANGED <<table, post, step, handling, actorId, up, pending, drop, status, followable,
                 view, pipe, skipped, lost, taken>>

-----------------------------------------------------------------------------
(* handle_tracked, up to its first await.                                   *)

(* Mutant of IsBoundary: a hand's start does not count.                     *)
IsBoundaryGameOnly(kind) == kind \in {"start_game", "end_game"}

IsBoundary(kind) == kind \in {"start_game", "start_kyoku", "end_kyoku", "end_game"}

OpensAWindow(e) ==
  \/ e.kind \in {"tsumo", "claim"} /\ e.actor = actorId
  \/ e.kind \in {"dahai", "kakan"} /\ e.actor # actorId

IsDecisionPoint(e) ==
  /\ actorId # NoSeat
  /\ \/ e.kind \in {"hora", "end_kyoku", "end_game"}
     \/ OpensAWindow(e) /\ e.can

DropAfter(e) == IF IsBoundary(e.kind) THEN FALSE ELSE drop
OwnEcho(e) == DropAfter(e) /\ e.kind = "reach" /\ e.actor = actorId

(* What e, once shown, does to the runner's view of the hand.               *)
Show(e) ==
  /\ unresolved' = (unresolved /\ e.kind # "start_kyoku")
  /\ reaches' = CASE e.kind = "start_kyoku" -> 0
                  [] e.kind = "reach" /\ e.actor = actorId -> reaches + 1
                  [] OTHER -> reaches

Takes(e) == step = "idle" /\ post # <<>> /\ e = Head(post) /\ post' = Tail(post)

(* handle_tracked returns.                                                  *)
HandlerEnds == step' = "idle" /\ handling' = NoEvent /\ followable' = FALSE

(* start_game with an empty active slot: analysis only.                     *)
StartGameIdle(e) ==
  /\ Takes(e) /\ e.kind = "start_game"
  /\ actorId' = e.actor /\ drop' = FALSE
  /\ up' = FALSE /\ pending' = {} /\ status' = "Idle"
  /\ UNCHANGED <<table, autoplay, step, handling, followable, view, pipe, skipped, lost, taken>>

(* start_game with an active bot: spawn_runner begins.                      *)
StartGameSpawn(e) ==
  /\ Takes(e) /\ e.kind = "start_game"
  /\ actorId' = e.actor /\ drop' = FALSE
  /\ step' = "spawning" /\ handling' = e /\ status' = "Loading"
  /\ UNCHANGED <<table, autoplay, up, pending, followable, view, pipe, skipped, lost, taken>>

(* Mutant of SpawnReady: the old game's batch is not cleared.               *)
SpawnReadyKeepsPending ==
  /\ step = "spawning"
  /\ HandlerEnds /\ status' = "Ready" /\ up' = TRUE
  /\ pending' = pending \cup {handling.id}
  /\ seat' = actorId /\ born' = handling.id /\ fed' = {} /\ reaches' = 0 /\ unresolved' = FALSE
  /\ asked' = 0 /\ written' = 0 /\ read' = 0 /\ slipped' = FALSE
  /\ taken' = [question |-> 0, line |-> 0]
  /\ UNCHANGED <<table, post, autoplay, actorId, drop, skipped, lost>>

(* The runner is replaced, the batch cleared, and start_game buffered.      *)
SpawnReady ==
  /\ step = "spawning"
  /\ HandlerEnds /\ status' = "Ready" /\ up' = TRUE
  /\ pending' = {handling.id}
  /\ seat' = actorId /\ born' = handling.id /\ fed' = {} /\ reaches' = 0 /\ unresolved' = FALSE
  /\ asked' = 0 /\ written' = 0 /\ read' = 0 /\ slipped' = FALSE
  /\ taken' = [question |-> 0, line |-> 0]
  /\ UNCHANGED <<table, post, autoplay, actorId, drop, skipped, lost>>

(* Any failure of spawn_runner, and the environment that needs reinstalling *)
(* (which returns Ok): Error, no runner.                                    *)
SpawnFailed ==
  /\ step = "spawning"
  /\ HandlerEnds /\ status' = "Error" /\ up' = FALSE /\ pending' = {}
  /\ UNCHANGED <<table, post, autoplay, actorId, drop, view, pipe,
                 skipped, lost, taken>>

(* No runner: nobody to feed.                                               *)
Ignore(e) ==
  /\ Takes(e) /\ e.kind # "start_game" /\ ~up
  /\ drop' = DropAfter(e)
  /\ UNCHANGED <<table, autoplay, step, handling, actorId, up, pending, status, followable, view,
                 pipe, skipped, lost, taken>>

(* The bridge's echo of a declaration the follow-up already fed.            *)
SkipEcho(e) ==
  /\ Takes(e) /\ up /\ OwnEcho(e)
  /\ drop' = FALSE /\ skipped' = skipped \cup {e.id}
  /\ UNCHANGED <<table, autoplay, step, handling, actorId, up, pending, status, followable, view,
                 pipe, lost, taken>>

Buffer(e) ==
  /\ Takes(e) /\ e.kind # "start_game" /\ up /\ ~OwnEcho(e) /\ ~IsDecisionPoint(e)
  /\ drop' = DropAfter(e)
  /\ pending' = pending \cup {e.id} /\ Show(e)
  /\ UNCHANGED <<table, autoplay, step, handling, actorId, up, status, followable, seat, born, fed,
                 pipe, skipped, lost, taken>>

(* A decision point: the whole batch goes to the bot as one line.           *)
Ask(e) ==
  /\ Takes(e) /\ e.kind # "start_game" /\ up /\ ~OwnEcho(e) /\ IsDecisionPoint(e)
  /\ drop' = DropAfter(e)
  /\ pending' = {} /\ fed' = fed \cup pending \cup {e.id} /\ Show(e)
  /\ step' = "asking" /\ handling' = e /\ followable' = autoplay
  /\ asked' = asked + 1
  /\ UNCHANGED <<table, autoplay, actorId, up, status, seat, born, written, read, slipped,
                 skipped, lost, taken>>

-----------------------------------------------------------------------------
(* The bot writes one line per question, in order, at its own pace.         *)
BotWrites ==
  /\ up /\ written < asked
  /\ written' = written + 1
  /\ UNCHANGED <<table, post, autoplay, step, handling, actorId, up, pending, drop, status,
                 followable, view, asked, read, slipped, skipped, lost, taken>>

(* out_tx.send, and the teardown after end_game.                            *)
Broadcast ==
  /\ HandlerEnds
  /\ IF handling.kind = "end_game"
     THEN up' = FALSE /\ actorId' = NoSeat /\ status' = "Stopped"
     ELSE UNCHANGED <<up, actorId, status>>

(* read_line: the next unread line answers the question just asked.         *)
ReadLine ==
  /\ read < written /\ read' = read + 1
  /\ taken' = [question |-> asked, line |-> read + 1]

(* A bot that has a reach in its view of the hand does not declare again,   *)
(* and declares only on its own draw.                                       *)
MayDeclare == handling.kind = "tsumo" /\ reaches = 0

(* react() returns an answer that needs no follow-up.                       *)
Answered ==
  /\ step = "asking" /\ ReadLine
  /\ Broadcast
  /\ UNCHANGED <<table, post, autoplay, pending, drop, view, asked, written, slipped,
                 skipped, lost>>

(* react() returns a reach without its tile, with autoplay on: the runner   *)
(* is fed the reach and asked for the discard.                              *)
FollowUp ==
  /\ step = "asking" /\ ReadLine /\ followable /\ MayDeclare
  /\ step' = "following"
  /\ reaches' = reaches + 1 /\ asked' = asked + 1
  /\ UNCHANGED <<table, post, autoplay, handling, actorId, up, pending, drop, status, followable,
                 seat, born, fed, unresolved, written, slipped, skipped, lost>>

(* Mutant of FollowedUp: the echo is not marked for dropping.               *)
FollowedUpNoDrop(outcome) ==
  /\ step = "following"
  /\ IF outcome = "late" THEN read = written /\ UNCHANGED <<read, taken>> ELSE ReadLine
  /\ slipped' = (slipped \/ outcome = "late")
  /\ unresolved' = (unresolved \/ outcome # "dahai")
  /\ Broadcast
  /\ UNCHANGED <<table, post, autoplay, pending, drop, seat, born, fed, reaches,
                 asked, written, skipped, lost>>

(* The follow-up ends.  Only a dahai resolves the reach and marks the echo  *)
(* for dropping; anything else is a warning, and the runner stays.          *)
FollowedUp(outcome) ==
  /\ step = "following"
  /\ IF outcome = "late" THEN read = written /\ UNCHANGED <<read, taken>> ELSE ReadLine
  /\ slipped' = (slipped \/ outcome = "late")
  /\ unresolved' = (unresolved \/ outcome # "dahai")
  /\ drop' = (drop \/ outcome = "dahai")
  /\ Broadcast
  /\ UNCHANGED <<table, post, autoplay, pending, seat, born, fed, reaches,
                 asked, written, skipped, lost>>

(* Mutant of ReactFailed: the runner outlives a failed react().             *)
ReactFailedKeepsRunner ==
  /\ step = "asking"
  /\ HandlerEnds /\ status' = "Error" /\ pending' = {}
  /\ UNCHANGED <<table, post, autoplay, actorId, up, drop, view, pipe,
                 skipped, lost, taken>>

(* Mutant of ReactFailed: react() without its timeout.                      *)
ReactFailedNever == step = "asking" /\ UNCHANGED managerVars

(* react() times out, meets EOF or a line that does not parse: Error, and   *)
(* run() tears the runner down (the child is killed on drop).               *)
ReactFailed ==
  /\ step = "asking"
  /\ HandlerEnds /\ status' = "Error" /\ up' = FALSE /\ pending' = {}
  /\ UNCHANGED <<table, post, autoplay, actorId, drop, view, pipe,
                 skipped, lost, taken>>
-----------------------------------------------------------------------------
Receive(e) == StartGameIdle(e) \/ StartGameSpawn(e) \/ Ignore(e) \/ SkipEcho(e) \/ Buffer(e) \/ Ask(e)

Resume ==
  \/ SpawnReady \/ SpawnFailed
  \/ Answered \/ FollowUp \/ ReactFailed
  \/ \E outcome \in Outcomes : FollowedUp(outcome)

ManagerNext ==
  \/ \E kind \in Kinds, actor \in Seats \cup {NoSeat}, can \in BOOLEAN : Publish(kind, actor, can)
  \/ ToggleAutoplay
  \/ post # <<>> /\ Receive(Head(post))
  \/ Resume
  \/ BotWrites

(* The manager's task, the spawn, the react timeout all make progress; an   *)
(* event that is delivered is received.                                     *)
ManagerFairness == WF_managerVars(Resume) /\ WF_managerVars(post # <<>> /\ Receive(Head(post)))

ManagerSpec == ManagerInit /\ [][ManagerNext]_managerVars
ManagerLiveSpec == ManagerSpec /\ ManagerFairness
-----------------------------------------------------------------------------
Handled == published - Len(post)

ManagerTypeOK ==
  /\ stage \in {"lobby", "table", "hand"} /\ declared \subseteq Seats
  /\ published \in 0..MaxEvents
  /\ post \in Seq(Event) /\ Len(post) <= PostCap
  /\ autoplay \in BOOLEAN
  /\ step \in Phases /\ handling \in Event \cup {NoEvent}
  /\ actorId \in Seats \cup {NoSeat} /\ up \in BOOLEAN
  /\ pending \subseteq Nat /\ drop \in BOOLEAN
  /\ status \in Statuses /\ followable \in BOOLEAN
  /\ seat \in Seats \cup {NoSeat} /\ born \in Nat /\ fed \subseteq Nat
  /\ reaches \in Nat
  /\ asked \in Nat /\ written \in 0..asked /\ read \in 0..written
  /\ slipped \in BOOLEAN /\ unresolved \in BOOLEAN
  /\ skipped \subseteq Nat /\ lost \subseteq Nat
  /\ taken \in [question : Nat, line : Nat]

(* The line protocol never slips but after a follow-up that timed out: the  *)
(* line taken to answer a question is the line the bot wrote for it.        *)
LineInStep == ~slipped => taken.line = taken.question

(* When every follow-up of the hand brought its tile and nothing lagged, an *)
(* own declaration enters the runner's view of the hand once: each          *)
(* synthetic reach is matched by one withheld echo.                         *)
ResolvedReachOnce == up /\ ~unresolved /\ lost = {} => reaches <= 1

(* The echo is marked for dropping only while the runner's view of the hand *)
(* holds the reach it would repeat: the mark never outlives its hand.       *)
DropOnlyRepeats == up /\ drop /\ step # "spawning" => reaches >= 1

(* The runner is shown every event of its game exactly once: what it was    *)
(* fed and what is buffered are disjoint and together are all the events    *)
(* handled since its start_game, but for withheld echoes and lagged events. *)
FeedIsComplete ==
  up /\ step # "spawning" =>
    /\ fed \cap pending = {}
    /\ fed \cup pending = (born..Handled) \ (skipped \cup lost)

(* Between events, BotStatus says Ready exactly when a runner is up.        *)
StatusTellsRunner == step = "idle" => (status = "Ready" <=> up)

(* The runner plays the seat of the current game, never that of an earlier  *)
(* one.                                                                     *)
RunnerPlaysOurSeat == up /\ step # "spawning" => seat = actorId

(* handle_tracked always returns; no Loading status stays on display.       *)
ManagerReturns == step # "idle" ~> step = "idle"
=============================================================================
