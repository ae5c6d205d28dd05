---------------------------- MODULE RiichiInject ----------------------------
(***************************************************************************)
(* Playing on Riichi City by injected frames.  The bridge                   *)
(* (src/src/bridge/riichi_city/mod.rs) tells an InjectBus                    *)
(* (src/src/autoplay/inject.rs) which decision window is open; the autoplay  *)
(* manager plans each bot reply and runs it as a task of its own            *)
(* (execute_riichi_frame); the uplink relay of the proxy                    *)
(* (src/src/proxy/handler.rs) forwards what the tasks queue; a watcher       *)
(* (src/src/autoplay/riichi_city/round_advance.rs) presses "ready" after     *)
(* each hand.                                                               *)
(*                                                                         *)
(* A window is a number; in the code it is the instant it opened.  The      *)
(* server and the two directions of the connection are the environment.     *)
(* InjectBus stores a new window's instant before it raises the flag; as    *)
(* tasks read flag and instant in that order and compare the instant, the   *)
(* two stores are one step here.  One uplink flow is modelled, and the      *)
(* message index a frame is stamped with is left out.                       *)
(***************************************************************************)
EXTENDS Naturals, Sequences

CONSTANTS MaxOffers,    \* bound: decision windows the server opens
          MaxHands,     \* bound: hands it deals
          MaxPlayer,    \* bound: actions the player makes by hand
          Tasks,        \* bound: replies the manager turns into tasks
          Resends,      \* click_retries
          MailCap,      \* capacity of the watcher's receiver on the MjaiBus
          NetCap        \* bound: messages on their way in either direction

ASSUME InjectAssumption ==
  /\ MaxOffers \in Nat /\ MaxHands \in Nat /\ MaxPlayer \in Nat /\ Resends \in Nat
  /\ MailCap \in Nat \ {0} /\ NetCap \in Nat \ {0}

VARIABLES
  \* the game server and the connection
  phase,     \* "lobby", "play", "scoring", "over"
  hand,      \* hands dealt
  current,   \* the window the server waits on; 0: none
  offered,   \* windows opened so far
  down,      \* messages on their way to the bridge
  uplink,    \* frames on their way to the server
  flowUp,    \* the uplink relay runs, and is subscribed to the InjectBus
  player,    \* actions the player has made
  \* InjectBus
  open, at,  \* window_open, window_opened_at
  inGame, rspSeen,
  queued,    \* frames in the relay's receiver
  \* the manager
  decided,   \* the latest decision the bot has decided to
  reply,     \* the reply in the manager's receiver; 0: none
  planning,  \* the reply being planned, with window_open_at_plan
  task,      \* the tasks
  \* the round-advance watcher
  mail, watcher,
  \* history
  readies    \* for each hand, the ready frames queued after it

server == <<phase, hand, current, offered, player>>
bus == <<open, at, inGame, rspSeen>>
manager == <<decided, reply, planning, task>>
advance == <<mail, watcher, readies>>
injectVars == <<phase, hand, current, offered, player, down, uplink, flowUp, open, at, inGame,
          rspSeen, queued, decided, reply, planning, task, mail, watcher, readies>>

Hands == 1..MaxHands
Idle == [pc |-> "idle", about |-> 0, inTime |-> FALSE, window |-> 0, created |-> 0,
         ticket |-> 0, attempt |-> 0, raced |-> FALSE]
NoPlan == [about |-> 0, open |-> FALSE, torn |-> FALSE]
(* What the server tells apart in a frame: an action, or the ready press.   *)
Action == "action"
Ready == "ready"
Msg(k, w) == [kind |-> k, window |-> w]

InjectInit ==
  /\ phase = "lobby" /\ hand = 0 /\ current = 0 /\ offered = 0 /\ player = 0
  /\ down = <<>> /\ uplink = <<>> /\ flowUp = TRUE
  /\ open = FALSE /\ at = 0 /\ inGame = FALSE /\ rspSeen = 0 /\ queued = <<>>
  /\ decided = 0 /\ reply = 0 /\ planning = NoPlan /\ task = [t \in Tasks |-> Idle]
  /\ mail = <<>> /\ watcher = 0
  /\ readies = [h \in Hands |-> 0]

-----------------------------------------------------------------------------
(* The server.                                                              *)

ServerDeals ==
  /\ flowUp /\ Len(down) < NetCap /\ phase \in {"lobby", "scoring"} /\ hand < MaxHands
  /\ phase' = "play" /\ hand' = hand + 1
  /\ down' = down \o IF phase = "lobby" THEN <<Msg("room", 0), Msg("start", 0)>>
                                        ELSE <<Msg("start", 0)>>
  /\ UNCHANGED <<current, offered, player, uplink, flowUp, bus, queued, manager, advance>>

ServerOffers ==
  /\ flowUp /\ Len(down) < NetCap /\ phase = "play" /\ current = 0 /\ offered < MaxOffers
  /\ current' = offered + 1 /\ offered' = offered + 1
  /\ down' = Append(down, Msg("offer", offered + 1))
  /\ UNCHANGED <<phase, hand, player, uplink, flowUp, bus, queued, manager, advance>>

(* A claim of higher priority, or the turn timer, resolves the window.      *)
ServerResolves ==
  /\ flowUp /\ Len(down) < NetCap /\ current # 0
  /\ current' = 0 /\ down' = Append(down, Msg("action", 0))
  /\ UNCHANGED <<phase, hand, offered, player, uplink, flowUp, bus, queued, manager, advance>>

ServerEndsHand ==
  /\ flowUp /\ Len(down) < NetCap /\ phase = "play" /\ current = 0
  /\ phase' = "scoring" /\ down' = Append(down, Msg("end", hand))
  /\ UNCHANGED <<hand, current, offered, player, uplink, flowUp, bus, queued, manager, advance>>

ServerEndsGame ==
  /\ flowUp /\ Len(down) < NetCap /\ phase = "scoring"
  /\ phase' = "over" /\ down' = Append(down, Msg("room_end", 0))
  /\ UNCHANGED <<hand, current, offered, player, uplink, flowUp, bus, queued, manager, advance>>

(* The server takes a frame as the answer to the window it waits on.        *)
ServerTakes ==
  /\ flowUp /\ Len(down) < NetCap /\ uplink # <<>> /\ uplink[1] = Action /\ current # 0
  /\ uplink' = Tail(uplink) /\ current' = 0
  /\ down' = down \o <<Msg("rsp", 0), Msg("action", 0)>>
  /\ UNCHANGED <<phase, hand, offered, player, flowUp, bus, queued, manager, advance>>

(* It rejects a frame that is illegal or comes while no window is open, and *)
(* answers every request.                                                   *)
ServerRejects ==
  /\ flowUp /\ Len(down) < NetCap /\ uplink # <<>>
  /\ uplink' = Tail(uplink)
  /\ down' = IF uplink[1] = Ready THEN down ELSE Append(down, Msg("rsp", 0))
  /\ UNCHANGED <<server, flowUp, bus, queued, manager, advance>>

(* The player acts in the window his client shows.                          *)
PlayerActs ==
  /\ flowUp /\ Len(uplink) < NetCap /\ open /\ player < MaxPlayer
  /\ player' = player + 1 /\ uplink' = Append(uplink, Action)
  /\ UNCHANGED <<phase, hand, current, offered, down, flowUp, bus, queued, manager, advance>>

FlowCloses ==
  /\ flowUp
  /\ flowUp' = FALSE /\ down' = <<>> /\ uplink' = <<>> /\ queued' = <<>>
  /\ UNCHANGED <<server, bus, manager, advance>>

-----------------------------------------------------------------------------
(* The bridge.  A window that moves races the plan that has read half of    *)
(* it, and the tasks that have checked it and not yet sent.                 *)

Races ==
  /\ task' = [t \in Tasks |-> [task[t] EXCEPT !.raced = @ \/ task[t].pc = "send"]]
  /\ planning' = [planning EXCEPT !.torn = planning # NoPlan]

(* The watcher's receiver: full, it loses its oldest event and, once read,   *)
(* reports one lag before the events it still has.                          *)
Lag == [kind |-> "lag", hand |-> 0]
Retained == IF mail # <<>> /\ mail[1] = Lag THEN Tail(mail) ELSE mail
Post(kind, h) ==
  LET ev == [kind |-> kind, hand |-> h]
  IN  mail' = IF Len(Retained) < MailCap THEN Append(mail, ev)
              ELSE <<Lag>> \o Append(Tail(Retained), ev)

ParseRoom ==
  /\ down # <<>> /\ down[1].kind = "room"
  /\ inGame' = TRUE /\ down' = Tail(down)
  /\ UNCHANGED <<server, uplink, flowUp, open, at, rspSeen, queued, manager, advance>>

ParseOffer ==
  /\ down # <<>> /\ down[1].kind = "offer"
  /\ open' = TRUE /\ at' = down[1].window /\ down' = Tail(down)
  /\ Races
  /\ Post("other", 0)
  /\ UNCHANGED <<server, uplink, flowUp, inGame, rspSeen, queued, decided, reply,
                 watcher, readies>>

(* cmd_game_action_brc, cmd_game_start, cmd_game_end, cmd_room_end           *)
ParseClosing ==
  /\ down # <<>> /\ down[1].kind \in {"action", "start", "end", "room_end"}
  /\ open' = FALSE /\ down' = Tail(down)
  /\ inGame' = (inGame /\ down[1].kind # "room_end")
  /\ Races
  /\ Post(IF down[1].kind = "end" THEN "end" ELSE "other", down[1].window)
  /\ UNCHANGED <<server, uplink, flowUp, at, rspSeen, queued, decided, reply,
                 watcher, readies>>

ParseRsp ==
  /\ down # <<>> /\ down[1].kind = "rsp"
  /\ rspSeen' = rspSeen + 1 /\ down' = Tail(down)
  /\ UNCHANGED <<server, uplink, flowUp, open, at, inGame, queued, manager, advance>>

-----------------------------------------------------------------------------
(* The bot and the manager.                                                 *)

(* The bot answers a decision once: the open window, or the one its event   *)
(* announces, since a reply can be ahead of the offer it is for.            *)
BotAnswers ==
  LET decision == IF open THEN at ELSE at + 1
  IN  /\ inGame /\ reply = 0 /\ decision > decided /\ decision <= MaxOffers
      /\ decided' = decision /\ reply' = decision
      /\ UNCHANGED <<server, down, uplink, flowUp, bus, queued, planning, task, advance>>

(* No frame comes of it: not our decision, or nothing to encode.            *)
SkipReply ==
  /\ planning = NoPlan /\ reply # 0
  /\ reply' = 0
  /\ UNCHANGED <<server, down, uplink, flowUp, bus, queued, decided, planning, task, advance>>

(* handle_bot_response reads the flag ...                                   *)
PlanReadsFlag ==
  /\ planning = NoPlan /\ reply # 0
  /\ planning' = [about |-> reply, open |-> open, torn |-> FALSE] /\ reply' = 0
  /\ UNCHANGED <<server, down, uplink, flowUp, bus, queued, decided, task, advance>>

(* ... then the instant, notes its own and spawns the task.  `inTime` is    *)
(* history: the plan saw the window that the reply is about, whole.         *)
PlanSpawns(t) ==
  /\ planning # NoPlan /\ task[t].pc = "idle"
  /\ task' = [task EXCEPT ![t] =
       [Idle EXCEPT !.pc = IF ~inGame \/ (planning.open /\ at = 0) THEN "done"
                           ELSE IF planning.open THEN "gate" ELSE "seek",
                    !.about = planning.about,
                    !.inTime = planning.open /\ ~planning.torn /\ at = planning.about,
                    !.window = IF planning.open THEN at ELSE 0,
                    !.created = IF planning.open THEN 0 ELSE at]]
  /\ planning' = NoPlan
  /\ UNCHANGED <<server, down, uplink, flowUp, bus, queued, decided, reply, advance>>

-----------------------------------------------------------------------------
(* execute_riichi_frame.                                                    *)

Go(t, pc) == task' = [task EXCEPT ![t].pc = pc]
Ends(t) == task' = [task EXCEPT ![t] = [Idle EXCEPT !.pc = "done"]]
OnlyTask == UNCHANGED <<server, down, uplink, flowUp, bus, queued, decided, reply, planning,
                        advance>>
(* Mutant of Holds: a window is open, whichever.                            *)
HoldsAny(t) == open

Holds(t) == open /\ at = task[t].window

(* Planned while none was open: the first window seen to open since.        *)
Seek(t) ==
  /\ task[t].pc = "seek" /\ open /\ at > task[t].created
  /\ task' = [task EXCEPT ![t].pc = "gate", ![t].window = at,
                                    ![t].created = 0]
  /\ OnlyTask

SeekTimesOut(t) == task[t].pc = "seek" /\ Ends(t) /\ OnlyTask

Gate(t) == task[t].pc = "gate" /\ Holds(t) /\ Go(t, "think") /\ OnlyTask

(* The window moved on, or did not open again before the deadline.          *)
GateDrops(t) == task[t].pc = "gate" /\ ~Holds(t) /\ Ends(t) /\ OnlyTask

ThinkOver(t) ==
  /\ task[t].pc = "think"
  /\ IF Holds(t)
       THEN task' = [task EXCEPT ![t].pc = "send", ![t].ticket = rspSeen, ![t].raced = FALSE]
       ELSE Ends(t)
  /\ OnlyTask

Send(t) ==
  /\ task[t].pc = "send"
  /\ IF flowUp THEN task' = [task EXCEPT ![t].pc = "await", ![t].raced = FALSE] /\ queued' = Append(queued, Action)
               ELSE Ends(t) /\ UNCHANGED queued
  /\ UNCHANGED <<server, down, uplink, flowUp, bus, decided, reply, planning, advance>>

Acked(t) == task[t].pc = "await" /\ rspSeen > task[t].ticket /\ Ends(t) /\ OnlyTask

Unacked(t) ==
  /\ task[t].pc = "await" /\ rspSeen <= task[t].ticket
  /\ IF task[t].attempt < Resends
       THEN task' = [task EXCEPT ![t].pc = "send", ![t].attempt = @ + 1]
       ELSE Ends(t)
  /\ OnlyTask

(* The uplink relay forwards a gameplay frame while a game is on.            *)
RelayForwards ==
  /\ flowUp /\ queued # <<>> /\ Len(uplink) < NetCap
  /\ queued' = Tail(queued)
  /\ uplink' = IF inGame THEN Append(uplink, queued[1]) ELSE uplink
  /\ UNCHANGED <<server, down, flowUp, bus, manager, advance>>

-----------------------------------------------------------------------------
(* round_advance_watcher; `watcher` is the hand it is about to advance.      *)

Read(ev) == mail # <<>> /\ mail[1].kind = ev /\ mail' = Tail(mail)
OnlyWatcher == UNCHANGED <<server, down, uplink, flowUp, bus, manager>>

WatcherSkips == watcher = 0 /\ (Read("other") \/ Read("lag")) /\ UNCHANGED <<watcher, queued, readies>> /\ OnlyWatcher

WatcherWaits ==
  /\ watcher = 0 /\ Read("end")
  /\ watcher' = mail[1].hand
  /\ UNCHANGED <<queued, readies>> /\ OnlyWatcher

(* Mutant of WatcherVoids: it takes a fresh receiver for the next cycle.    *)
WatcherVoidsAll ==
  /\ watcher # 0 /\ mail # <<>>
  /\ mail' = <<>> /\ watcher' = 0
  /\ UNCHANGED <<queued, readies>> /\ OnlyWatcher

(* Whatever arrives before the delay is over voids the advance.             *)
WatcherVoids ==
  /\ watcher # 0 /\ mail # <<>>
  /\ mail' = Tail(mail) /\ watcher' = 0
  /\ UNCHANGED <<queued, readies>> /\ OnlyWatcher

(* The delay is over.  An event that is there as well may lose the race.    *)
WatcherAdvances ==
  /\ watcher # 0
  /\ watcher' = 0
  /\ readies' = [readies EXCEPT ![watcher] = @ + 1]
  /\ queued' = IF flowUp THEN Append(queued, Ready) ELSE queued
  /\ UNCHANGED mail /\ OnlyWatcher

-----------------------------------------------------------------------------
Server == ServerDeals \/ ServerOffers \/ ServerResolves \/ ServerEndsHand \/ ServerEndsGame
          \/ ServerTakes \/ ServerRejects \/ PlayerActs \/ FlowCloses
Parse == ParseRoom \/ ParseOffer \/ ParseClosing \/ ParseRsp
Manager == BotAnswers \/ SkipReply \/ PlanReadsFlag \/ \E t \in Tasks : PlanSpawns(t)
Task(t) == Seek(t) \/ SeekTimesOut(t) \/ Gate(t) \/ GateDrops(t) \/ ThinkOver(t) \/ Send(t)
           \/ Acked(t) \/ Unacked(t)
Watcher == WatcherSkips \/ WatcherWaits \/ WatcherVoids \/ WatcherAdvances

InjectNext == Server \/ Parse \/ Manager \/ (\E t \in Tasks : Task(t)) \/ RelayForwards \/ Watcher

InjectSpec == InjectInit /\ [][InjectNext]_injectVars

-----------------------------------------------------------------------------
TaskPCs == {"idle", "seek", "gate", "think", "send", "await", "done"}

(* Type invariant.                                                          *)
InjectTypeOK ==
  /\ phase \in {"lobby", "play", "scoring", "over"} /\ hand \in 0..MaxHands
  /\ current \in 0..MaxOffers /\ offered \in 0..MaxOffers /\ player \in 0..MaxPlayer
  /\ flowUp \in BOOLEAN /\ open \in BOOLEAN /\ at \in 0..MaxOffers /\ inGame \in BOOLEAN
  /\ rspSeen \in Nat /\ decided \in 0..MaxOffers /\ reply \in 0..MaxOffers
  /\ planning \in [about : 0..MaxOffers, open : BOOLEAN, torn : BOOLEAN]
  /\ task \in [Tasks -> [pc : TaskPCs, about : 0..MaxOffers, inTime : BOOLEAN,
                         window : 0..MaxOffers, created : 0..MaxOffers, ticket : Nat,
                         attempt : 0..Resends, raced : BOOLEAN]]
  /\ Len(mail) <= MailCap + 1 /\ watcher \in 0..MaxHands
  /\ readies \in [Hands -> Nat]

(* A reply that is planned while its window is open goes out, the first     *)
(* time, only into that window: the task holds its frame back when the      *)
(* window has gone, however long it slept and whatever has opened since,    *)
(* unless the window moves between the last check and the send.             *)
FirstFrameAnswersItsDecision ==
  \A t \in Tasks :
    task[t].pc = "send" /\ task[t].attempt = 0 /\ task[t].inTime /\ ~task[t].raced
      => open /\ at = task[t].about

(* Once the watcher has nothing left to do, a hand that ended and was not   *)
(* followed by anything has had its ready press, and just one: neither a    *)
(* voided cycle nor a lag of the receiver costs the next hand its own.      *)
QuietHandAdvanced ==
  phase = "scoring" /\ flowUp /\ down = <<>> /\ mail = <<>> /\ watcher = 0
    => readies[hand] = 1
=============================================================================
