------------------------- MODULE CaptureSupervisor -------------------------
(***************************************************************************)
(* The life cycle of the capture backend: src/src/ipc/capture_supervisor.rs *)
(* with the commands that drive it (src/src/ipc/commands.rs), the status    *)
(* forwarder (src/src/ipc/mod.rs) and the shutdown token                    *)
(* (src/src/capture/mod.rs).                                                *)
(*                                                                         *)
(* A caller is one task executing a command: start_capture, stop_capture,   *)
(* restart_capture (also the background restart of update_config), the      *)
(* start-up spawn and the ctrl-c handler of lib.rs.  Every lock scope of    *)
(* capture_control is one step; what happens between two scopes is not.     *)
(*                                                                         *)
(* A run is one backend task.  Its shutdown is a oneshot sender kept in     *)
(* capture_control.stop, a relay task that turns the oneshot (sent OR       *)
(* dropped) into Notify::notify_waiters, and a token that only a task       *)
(* already waiting on the Notify can hear.                                  *)
(***************************************************************************)
EXTENDS Naturals, Sequences, FiniteSets

CONSTANTS Callers,       \* tasks that issue capture commands
          MaxRuns,       \* bound: commands that may spawn a backend, in one behaviour
          StatusBusCap   \* capacity of the capture status broadcast channel

ASSUME CallersAssumption == IsFiniteSet(Callers) /\ "forwarder" \notin Callers
ASSUME CaptureBoundsAssumption == MaxRuns \in Nat \ {0} /\ StatusBusCap \in Nat \ {0}

Runs == 1..MaxRuns
NoRun == 0
Final == {"Stopped", "Error"}
Statuses == Final \cup {"Running"}
Subscribers == Callers \cup {"forwarder"}
CallerPhases == {"idle", "waiting", "check", "show", "announce", "install", "launch"}
TaskPhases == {"none", "starting", "listening", "told", "returned", "recorded", "gone"}

VARIABLES
  slot,       \* capture_control.stop: the run whose oneshot sender it holds
  status,     \* capture_control.status
  issued,     \* start and restart commands issued so far
  pc,         \* what each caller does next
  mine,       \* the run a caller will spawn
  sender,     \* per run: the oneshot sender's fate, "open", "sent" or "dropped"
  relay,      \* per run: the relay task, "none", "armed" or "fired"
  task,       \* per run: the backend task
  outcome,    \* per run: the status backend.run's result turns into
  inbox       \* per subscriber of the status bus: undelivered statuses

ctl == <<slot, status>>
captureVars == <<slot, status, issued, pc, mine, sender, relay, task, outcome, inbox>>

-----------------------------------------------------------------------------
(* broadcast::Sender::send: a full receiver loses its oldest message.       *)
Push(queue, msg) ==
  IF Len(queue) = StatusBusCap THEN Append(Tail(queue), msg) ELSE Append(queue, msg)

Subscribed(s) == s = "forwarder" \/ pc[s] = "waiting"

Send(msg) ==
  inbox' = [s \in Subscribers |-> IF Subscribed(s) THEN Push(inbox[s], msg) ELSE inbox[s]]

Goto(c, phase) == pc' = [pc EXCEPT ![c] = phase]

CaptureInit ==
  /\ slot = NoRun
  /\ status = "Stopped"
  /\ issued = 0
  /\ pc = [c \in Callers |-> "idle"]
  /\ mine = [c \in Callers |-> NoRun]
  /\ sender = [r \in Runs |-> "open"]
  /\ relay = [r \in Runs |-> "none"]
  /\ task = [r \in Runs |-> "none"]
  /\ outcome = [r \in Runs |-> "Stopped"]
  /\ inbox = [s \in Subscribers |-> <<>>]

-----------------------------------------------------------------------------
(* Commands.  Issue numbers the run that a start or restart may spawn.      *)

Issue(c) ==
  /\ pc[c] = "idle"
  /\ issued < MaxRuns
  /\ issued' = issued + 1
  /\ mine' = [mine EXCEPT ![c] = issued + 1]

(* start_capture: refused while the slot is taken; otherwise (a second lock *)
(* scope later) the spawn.  The start-up spawn begins at "check" as well.   *)
StartCapture(c) ==
  /\ Issue(c)
  /\ slot = NoRun
  /\ Goto(c, "check")
  /\ UNCHANGED <<ctl, sender, relay, task, outcome, inbox>>

(* stop_capture and the ctrl-c handler: take the sender and fire it.        *)
StopCapture(c) ==
  /\ pc[c] = "idle"
  /\ slot # NoRun
  /\ sender' = [sender EXCEPT ![slot] = "sent"]
  /\ slot' = NoRun
  /\ UNCHANGED <<status, issued, pc, mine, relay, task, outcome, inbox>>

(* restart_capture / stop_and_wait: subscribe, take the sender, fire it and *)
(* wait; with nothing to stop, go on to the spawn at once.                  *)
RestartCapture(c) ==
  /\ Issue(c)
  /\ IF slot = NoRun
     THEN Goto(c, "check") /\ UNCHANGED <<slot, sender>>
     ELSE /\ sender' = [sender EXCEPT ![slot] = "sent"]
          /\ slot' = NoRun
          /\ Goto(c, "waiting")
  /\ UNCHANGED <<status, relay, task, outcome, inbox>>

(* stop_and_wait reads its subscription: a final status ends the wait.      *)
WaitRecv(c) ==
  /\ pc[c] = "waiting"
  /\ inbox[c] # <<>>
  /\ IF Head(inbox[c]) \in Final
     THEN Goto(c, "check") /\ inbox' = [inbox EXCEPT ![c] = <<>>]
     ELSE UNCHANGED pc /\ inbox' = [inbox EXCEPT ![c] = Tail(@)]
  /\ UNCHANGED <<ctl, issued, mine, sender, relay, task, outcome>>

(* The two-second timeout of stop_and_wait.                                 *)
WaitTimeout(c) ==
  /\ pc[c] = "waiting"
  /\ Goto(c, "check")
  /\ inbox' = [inbox EXCEPT ![c] = <<>>]
  /\ UNCHANGED <<ctl, issued, mine, sender, relay, task, outcome>>

-----------------------------------------------------------------------------
(* spawn_capture_supervisor, one action per lock scope or side effect.      *)

SpawnCheck(c) ==
  /\ pc[c] = "check"
  /\ \/ slot # NoRun /\ Goto(c, "idle") /\ mine' = [mine EXCEPT ![c] = NoRun]
     \/ slot = NoRun /\ Goto(c, "show") /\ UNCHANGED mine
  /\ UNCHANGED <<ctl, issued, sender, relay, task, outcome, inbox>>

SpawnShow(c) ==
  /\ pc[c] = "show"
  /\ status' = "Running"
  /\ Goto(c, "announce")
  /\ UNCHANGED <<slot, issued, mine, sender, relay, task, outcome, inbox>>

SpawnAnnounce(c) ==
  /\ pc[c] = "announce"
  /\ Send("Running")
  /\ Goto(c, "install")
  /\ UNCHANGED <<ctl, issued, mine, sender, relay, task, outcome>>

(* A fresh oneshot replaces whatever the slot holds; a replaced sender is   *)
(* dropped.                                                                 *)
SpawnInstall(c) ==
  /\ pc[c] = "install"
  /\ slot' = mine[c]
  /\ sender' = [r \in Runs |-> IF r = slot THEN "dropped" ELSE sender[r]]
  /\ Goto(c, "launch")
  /\ UNCHANGED <<status, issued, mine, relay, task, outcome, inbox>>

(* The relay task and the backend task are spawned.                         *)
SpawnLaunch(c) ==
  /\ pc[c] = "launch"
  /\ relay' = [relay EXCEPT ![mine[c]] = "armed"]
  /\ task' = [task EXCEPT ![mine[c]] = "starting"]
  /\ mine' = [mine EXCEPT ![c] = NoRun]
  /\ Goto(c, "idle")
  /\ UNCHANGED <<ctl, issued, sender, outcome, inbox>>

-----------------------------------------------------------------------------
(* The tasks of one run.                                                    *)

(* Mutant of RelayFire: the relay ignores a dropped sender.                 *)
RelayFireOnlySent(r) ==
  /\ relay[r] = "armed"
  /\ sender[r] = "sent"
  /\ relay' = [relay EXCEPT ![r] = "fired"]
  /\ task' = [task EXCEPT ![r] = IF @ = "listening" THEN "told" ELSE @]
  /\ UNCHANGED <<ctl, issued, pc, mine, sender, outcome, inbox>>

(* The relay wakes when the oneshot is sent or its sender dropped, and      *)
(* calls notify_waiters, which only a backend already listening hears.      *)
RelayFire(r) ==
  /\ relay[r] = "armed"
  /\ sender[r] # "open"
  /\ relay' = [relay EXCEPT ![r] = "fired"]
  /\ task' = [task EXCEPT ![r] = IF @ = "listening" THEN "told" ELSE @]
  /\ UNCHANGED <<ctl, issued, pc, mine, sender, outcome, inbox>>

(* Start-up is over (CA loaded and proxy built, browser launched and its    *)
(* endpoint found): the backend first polls ShutdownToken::wait.            *)
BackendListen(r) ==
  /\ task[r] = "starting"
  /\ task' = [task EXCEPT ![r] = "listening"]
  /\ UNCHANGED <<ctl, issued, pc, mine, sender, relay, outcome, inbox>>

(* backend.run returns: an error during start-up, an error or a closed CDP  *)
(* loop while running, a clean exit once told.                              *)
BackendReturn(r) ==
  /\ \/ task[r] = "starting"  /\ outcome' = [outcome EXCEPT ![r] = "Error"]
     \/ task[r] = "listening" /\ \E o \in Final : outcome' = [outcome EXCEPT ![r] = o]
     \/ task[r] = "told"      /\ outcome' = [outcome EXCEPT ![r] = "Stopped"]
  /\ task' = [task EXCEPT ![r] = "returned"]
  /\ UNCHANGED <<ctl, issued, pc, mine, sender, relay, inbox>>

(* Mutant of TaskRecord: the exit leaves the slot as it is.                 *)
TaskRecordKeepsSlot(r) ==
  /\ task[r] = "returned"
  /\ status' = outcome[r]
  /\ task' = [task EXCEPT ![r] = "recorded"]
  /\ UNCHANGED <<slot, issued, pc, mine, sender, relay, outcome, inbox>>

(* The supervisor task empties the slot, whoever's sender it holds, and     *)
(* writes the status; then it announces it.                                 *)
TaskRecord(r) ==
  /\ task[r] = "returned"
  /\ slot' = NoRun
  /\ sender' = [q \in Runs |-> IF q = slot THEN "dropped" ELSE sender[q]]
  /\ status' = outcome[r]
  /\ task' = [task EXCEPT ![r] = "recorded"]
  /\ UNCHANGED <<issued, pc, mine, relay, outcome, inbox>>

(* Mutant of TaskAnnounce: the exit is written but not announced.           *)
TaskAnnounceNothing(r) ==
  /\ task[r] = "recorded"
  /\ task' = [task EXCEPT ![r] = "gone"]
  /\ UNCHANGED <<ctl, issued, pc, mine, sender, relay, outcome, inbox>>

TaskAnnounce(r) ==
  /\ task[r] = "recorded"
  /\ Send(outcome[r])
  /\ task' = [task EXCEPT ![r] = "gone"]
  /\ UNCHANGED <<ctl, issued, pc, mine, sender, relay, outcome>>

(* spawn_capture_status_forwarder: mirror the bus into the slot.            *)
Forward ==
  /\ inbox["forwarder"] # <<>>
  /\ status' = Head(inbox["forwarder"])
  /\ inbox' = [inbox EXCEPT !["forwarder"] = Tail(@)]
  /\ UNCHANGED <<slot, issued, pc, mine, sender, relay, task, outcome>>

-----------------------------------------------------------------------------
Command(c) == StartCapture(c) \/ StopCapture(c) \/ RestartCapture(c)
Proceed(c) == \/ WaitRecv(c) \/ WaitTimeout(c)
              \/ SpawnCheck(c) \/ SpawnShow(c) \/ SpawnAnnounce(c)
              \/ SpawnInstall(c) \/ SpawnLaunch(c)
TaskStep(r) == TaskRecord(r) \/ TaskAnnounce(r)

CaptureNext ==
  \/ \E c \in Callers : Command(c) \/ Proceed(c)
  \/ \E r \in Runs : RelayFire(r) \/ BackendListen(r) \/ BackendReturn(r) \/ TaskStep(r)
  \/ Forward

(* Tokio runs every task that is ready and fires every timer: a caller past *)
(* its first step, a relay, a supervisor task and the forwarder all go on.  *)
(* A backend finishes starting up (or fails), and one that was told to shut *)
(* down returns; nothing makes a listening backend return by itself.        *)
CaptureFairness ==
  /\ \A c \in Callers : WF_captureVars(Proceed(c))
  /\ \A r \in Runs : /\ WF_captureVars(RelayFire(r))
                     /\ WF_captureVars(TaskStep(r))
                     /\ WF_captureVars(BackendListen(r))
                     /\ WF_captureVars(task[r] = "told" /\ BackendReturn(r))
  /\ WF_captureVars(Forward)

CaptureSpec == CaptureInit /\ [][CaptureNext]_captureVars
CaptureLiveSpec == CaptureSpec /\ CaptureFairness
-----------------------------------------------------------------------------
Alive(r) == task[r] \in {"starting", "listening", "told", "returned"}
Spawning(r) == \E c \in Callers : pc[c] = "launch" /\ mine[c] = r

CaptureTypeOK ==
  /\ slot \in Runs \cup {NoRun}
  /\ status \in Statuses
  /\ issued \in 0..MaxRuns
  /\ pc \in [Callers -> CallerPhases]
  /\ mine \in [Callers -> Runs \cup {NoRun}]
  /\ sender \in [Runs -> {"open", "sent", "dropped"}]
  /\ relay \in [Runs -> {"none", "armed", "fired"}]
  /\ task \in [Runs -> TaskPhases]
  /\ outcome \in [Runs -> Final]
  /\ inbox \in [Subscribers -> Seq(Statuses)]
  /\ \A s \in Subscribers : Len(inbox[s]) <= StatusBusCap

(* A sender in the slot is unused and belongs to a backend that is alive or *)
(* about to be launched: `capture backend already running` is never said of *)
(* a backend that is gone, so capture can always be started again.          *)
SlotNamesLiveRun ==
  slot # NoRun => sender[slot] = "open" /\ (Alive(slot) \/ Spawning(slot))

Quiet ==
  /\ \A c \in Callers : pc[c] = "idle"
  /\ \A r \in Runs : task[r] \in {"none", "gone"}
  /\ inbox["forwarder"] = <<>>

(* Once every backend has exited and the forwarder has drained the bus, the *)
(* status shown is not Running: the forwarder's late copies of old statuses *)
(* and its lagging never leave a dead backend on display.                   *)
QuietStatusIsFinal == Quiet => slot = NoRun /\ status \in Final

(* ipc/state.rs: "sending `()` triggers graceful shutdown and the task      *)
(* exits".                                                                  *)
SentLeadsToExit ==
  \A r \in Runs : (sender[r] = "sent") ~> (task[r] = "gone")

(* A command that stopped or waited comes back: no caller waits for ever.   *)
CallersReturn ==
  \A c \in Callers : (pc[c] # "idle") ~> (pc[c] = "idle")

(* A backend that was listening when its sender was let go does exit.       *)
ListenerExits ==
  \A r \in Runs :
    (task[r] = "listening" /\ relay[r] = "armed" /\ sender[r] # "open") ~> (task[r] = "gone")

(* So a stop comes to an end on both sides: for who asks and for who is asked. *)
StopsEnd == CallersReturn /\ ListenerExits
=============================================================================
