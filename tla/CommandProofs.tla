------------------------------ MODULE CommandProofs ------------------------------
(***************************************************************************)
(* Theorems about three parts that the commands of the user interface set    *)
(* going and that share no variable: CaptureSupervisor, for any number of    *)
(* callers, of runs and any capacity of the status bus; BotEnvironment, for  *)
(* any set of jobs, on both platforms, and any number of commands and        *)
(* restarts; and NativeBot, for any settings, any ceiling of the backoff and *)
(* any number of changes, outages, retries, games and toasts.                *)
(***************************************************************************)
EXTENDS CaptureSupervisor, BotEnvironment, NativeBot, SequenceTheorems, TLAPS

(* ---- the capture backend (CaptureSupervisor) ---- *)

(* A caller on its way to a spawn holds the number of a run of its own,      *)
(* whose sender is untouched until the slot gets it.                         *)
Bound(c) == pc[c] # "idle"

MineInv ==
  /\ \A c \in Callers : Bound(c) <=> mine[c] # NoRun
  /\ \A c \in Callers : mine[c] <= issued
  /\ \A c, d \in Callers : mine[c] = mine[d] /\ mine[c] # NoRun => c = d
  /\ \A c \in Callers : mine[c] # NoRun => task[mine[c]] = "none"
  /\ \A r \in Runs : r > issued => task[r] = "none" /\ sender[r] = "open"
  /\ \A c \in Callers : Bound(c) /\ pc[c] # "launch" => sender[mine[c]] = "open"

(* Somebody announced, or is about to announce, that capture runs, and the   *)
(* final status of that run is still to come.                                *)
Busy ==
  \/ \E c \in Callers : pc[c] \in {"announce", "install", "launch"}
  \/ \E r \in Runs : task[r] \notin {"none", "gone"}

(* Otherwise the last word is a final one: the forwarder's last message, or  *)
(* what the slot shows once the forwarder has drained them.                  *)
LastWord ==
  IF inbox["forwarder"] = <<>> THEN status
  ELSE inbox["forwarder"][Len(inbox["forwarder"])]

WordInv == ~Busy => LastWord \in Final

CaptureIInv == CaptureTypeOK /\ MineInv /\ SlotNamesLiveRun /\ WordInv

-----------------------------------------------------------------------------
(* broadcast::Sender::send keeps a queue within its capacity, and what was   *)
(* sent is its last message.                                                 *)
LEMMA PushKeeps ==
  ASSUME NEW q \in Seq(Statuses), Len(q) <= StatusBusCap, NEW m \in Statuses
  PROVE  /\ Push(q, m) \in Seq(Statuses)
         /\ Len(Push(q, m)) <= StatusBusCap
         /\ Push(q, m) # <<>>
         /\ Push(q, m)[Len(Push(q, m))] = m
<1>1. CASE Len(q) = StatusBusCap
  <2>1. q # <<>>
    BY <1>1, CaptureBoundsAssumption
  <2>2. Tail(q) \in Seq(Statuses) /\ Len(Tail(q)) = Len(q) - 1
    BY <2>1
  <2> QED BY <1>1, <2>2, CaptureBoundsAssumption DEF Push
<1>2. CASE Len(q) # StatusBusCap
  <2>1. Push(q, m) = Append(q, m) /\ Len(Append(q, m)) = Len(q) + 1 /\ Len(q) < StatusBusCap
    BY <1>2, CaptureBoundsAssumption DEF Push
  <2> QED BY <2>1, CaptureBoundsAssumption
<1> QED BY <1>1, <1>2

(* What is received is the last word once nothing is left in the queue.      *)
LEMMA TailLast ==
  ASSUME NEW q \in Seq(Statuses), q # <<>>
  PROVE  /\ Tail(q) \in Seq(Statuses)
         /\ Tail(q) = <<>> => Head(q) = q[Len(q)]
         /\ Tail(q) # <<>> => Tail(q)[Len(Tail(q))] = q[Len(q)]
<1> DEFINE t == Tail(q)
<1>1. /\ Len(q) \in Nat /\ Len(q) >= 1 /\ Head(q) = q[1]
      /\ t \in Seq(Statuses) /\ Len(t) = Len(q) - 1
      /\ \A i \in 1..Len(t) : t[i] = q[i + 1]
  BY EmptySeq
<1> HIDE DEF t
<1>2. t = <<>> => Len(t) = 0
  BY EmptySeq
<1>3. t # <<>> => Len(t) \in Nat \ {0}
  BY <1>1, EmptySeq
<1>4. t = <<>> => Head(q) = q[Len(q)]
  BY <1>1, <1>2
<1>5. t # <<>> => t[Len(t)] = q[Len(q)]
  BY <1>1, <1>3
<1> QED BY <1>1, <1>4, <1>5 DEF t

(* The same for every subscriber of the bus.                                 *)
LEMMA SendKeeps ==
  ASSUME CaptureTypeOK, NEW m \in Statuses, Send(m)
  PROVE  /\ inbox' \in [Subscribers -> Seq(Statuses)]
         /\ \A s \in Subscribers : Len(inbox'[s]) <= StatusBusCap
         /\ inbox'["forwarder"] # <<>>
         /\ inbox'["forwarder"][Len(inbox'["forwarder"])] = m
<1>1. \A s \in Subscribers : /\ inbox[s] \in Seq(Statuses) /\ Len(inbox[s]) <= StatusBusCap
                            /\ inbox'[s] = IF Subscribed(s) THEN Push(inbox[s], m) ELSE inbox[s]
  BY DEF CaptureTypeOK, Send
<1>2. \A s \in Subscribers : inbox'[s] \in Seq(Statuses) /\ Len(inbox'[s]) <= StatusBusCap
  BY <1>1, PushKeeps
<1>3. inbox' \in [Subscribers -> Seq(Statuses)]
  BY <1>2 DEF Send
<1>4. inbox'["forwarder"] = Push(inbox["forwarder"], m)
  BY <1>1 DEF Subscribers, Subscribed
<1>5. inbox["forwarder"] \in Seq(Statuses) /\ Len(inbox["forwarder"]) <= StatusBusCap
  BY <1>1 DEF Subscribers
<1> QED BY <1>2, <1>3, <1>4, <1>5, PushKeeps

(* Every step keeps the types; the two sends by SendKeeps.                   *)
LEMMA CaptureTypeStep ==
  ASSUME CaptureTypeOK, MineInv, [CaptureNext]_captureVars
  PROVE  CaptureTypeOK'
<1> USE CallersAssumption, CaptureBoundsAssumption DEF Runs, NoRun, Final, Statuses, Subscribers,
     CallerPhases, TaskPhases
<1>1. ASSUME NEW c \in Callers, StartCapture(c) PROVE CaptureTypeOK'
  BY <1>1 DEF CaptureTypeOK, StartCapture, Issue, Goto, ctl
<1>2. ASSUME NEW c \in Callers, StopCapture(c) PROVE CaptureTypeOK'
  BY <1>2 DEF CaptureTypeOK, StopCapture
<1>3. ASSUME NEW c \in Callers, RestartCapture(c) PROVE CaptureTypeOK'
  <2>1. issued' \in 0..MaxRuns /\ mine' \in [Callers -> Runs \cup {NoRun}]
    BY <1>3 DEF CaptureTypeOK, RestartCapture, Issue
  <2>2. CASE slot = NoRun
    BY <1>3, <2>1, <2>2 DEF CaptureTypeOK, RestartCapture, Goto
  <2>3. CASE slot # NoRun
    BY <1>3, <2>1, <2>3 DEF CaptureTypeOK, RestartCapture, Goto
  <2> QED BY <2>2, <2>3
<1>4. ASSUME NEW c \in Callers, WaitRecv(c) PROVE CaptureTypeOK'
  <2>1. CASE Head(inbox[c]) \in Final
    <3>1. /\ pc' = [pc EXCEPT ![c] = "check"] /\ inbox' = [inbox EXCEPT ![c] = <<>>]
          /\ Len(<<>>) = 0 /\ <<>> \in Seq(Statuses)
      BY <1>4, <2>1 DEF WaitRecv, Goto
    <3>2. /\ inbox' \in [Subscribers -> Seq(Statuses)]
          /\ \A s \in Subscribers : Len(inbox'[s]) <= StatusBusCap
      BY <3>1 DEF CaptureTypeOK
    <3> QED BY <1>4, <3>1, <3>2 DEF CaptureTypeOK, WaitRecv, ctl
  <2>2. CASE Head(inbox[c]) \notin Final
    <3>1. /\ c \in Subscribers /\ inbox[c] \in Seq(Statuses) /\ inbox[c] # <<>>
          /\ Len(inbox[c]) <= StatusBusCap
      BY <1>4 DEF CaptureTypeOK, WaitRecv
    <3>2. Tail(inbox[c]) \in Seq(Statuses) /\ Len(Tail(inbox[c])) <= StatusBusCap
      BY <3>1
    <3>3. inbox' = [inbox EXCEPT ![c] = Tail(inbox[c])] /\ UNCHANGED pc
      BY <1>4, <2>2 DEF WaitRecv
    <3>4. /\ inbox' \in [Subscribers -> Seq(Statuses)]
          /\ \A s \in Subscribers : Len(inbox'[s]) <= StatusBusCap
      BY <3>2, <3>3 DEF CaptureTypeOK
    <3> QED BY <1>4, <3>3, <3>4 DEF CaptureTypeOK, WaitRecv, ctl
  <2> QED BY <2>1, <2>2
<1>5. ASSUME NEW c \in Callers, WaitTimeout(c) PROVE CaptureTypeOK'
  BY <1>5 DEF CaptureTypeOK, WaitTimeout, Goto, ctl
<1>6. ASSUME NEW c \in Callers, SpawnCheck(c) PROVE CaptureTypeOK'
  BY <1>6 DEF CaptureTypeOK, SpawnCheck, Goto, ctl
<1>7. ASSUME NEW c \in Callers, SpawnShow(c) PROVE CaptureTypeOK'
  BY <1>7 DEF CaptureTypeOK, SpawnShow, Goto
<1>8. ASSUME NEW c \in Callers, SpawnAnnounce(c) PROVE CaptureTypeOK'
  <2>1. "Running" \in Statuses /\ Send("Running")
    BY <1>8 DEF SpawnAnnounce
  <2>2. /\ inbox' \in [Subscribers -> Seq(Statuses)]
        /\ \A s \in Subscribers : Len(inbox'[s]) <= StatusBusCap
    BY <2>1, SendKeeps
  <2> QED BY <1>8, <2>2 DEF CaptureTypeOK, SpawnAnnounce, Goto, ctl
<1>9. ASSUME NEW c \in Callers, SpawnInstall(c) PROVE CaptureTypeOK'
  BY <1>9 DEF CaptureTypeOK, SpawnInstall, Goto
<1>10. ASSUME NEW c \in Callers, SpawnLaunch(c) PROVE CaptureTypeOK'
  BY <1>10 DEF CaptureTypeOK, SpawnLaunch, Goto, ctl
<1>11. ASSUME NEW r \in Runs, RelayFire(r) PROVE CaptureTypeOK'
  BY <1>11 DEF CaptureTypeOK, RelayFire, ctl
<1>12. ASSUME NEW r \in Runs, BackendListen(r) PROVE CaptureTypeOK'
  BY <1>12 DEF CaptureTypeOK, BackendListen, ctl
<1>13. ASSUME NEW r \in Runs, BackendReturn(r) PROVE CaptureTypeOK'
  BY <1>13 DEF CaptureTypeOK, BackendReturn, ctl
<1>14. ASSUME NEW r \in Runs, TaskRecord(r) PROVE CaptureTypeOK'
  BY <1>14 DEF CaptureTypeOK, TaskRecord
<1>15. ASSUME NEW r \in Runs, TaskAnnounce(r) PROVE CaptureTypeOK'
  <2>1. outcome[r] \in Statuses /\ Send(outcome[r])
    BY <1>15 DEF CaptureTypeOK, TaskAnnounce
  <2>2. /\ inbox' \in [Subscribers -> Seq(Statuses)]
        /\ \A s \in Subscribers : Len(inbox'[s]) <= StatusBusCap
    BY <2>1, SendKeeps
  <2> QED BY <1>15, <2>2 DEF CaptureTypeOK, TaskAnnounce, ctl
<1>16. ASSUME Forward PROVE CaptureTypeOK'
  BY <1>16 DEF CaptureTypeOK, Forward
<1>17. CASE UNCHANGED captureVars
  BY <1>17 DEF CaptureTypeOK, captureVars
<1> QED BY <1>1, <1>2, <1>3, <1>4, <1>5, <1>6, <1>7, <1>8, <1>9, <1>10, <1>11, <1>12, <1>13,
           <1>14, <1>15, <1>16, <1>17 DEF CaptureNext, Command, Proceed, TaskStep

(* A run in preparation stays its caller's own: issued numbers are fresh, and*)
(* the slot a command empties never holds the sender of such a run.          *)
LEMMA MineStep ==
  ASSUME CaptureTypeOK, MineInv, SlotNamesLiveRun, [CaptureNext]_captureVars
  PROVE  MineInv'
<1> USE DEF Runs, NoRun, Bound, Alive, Spawning
<1>1. ASSUME NEW c \in Callers, StartCapture(c) PROVE MineInv'
  <2>1. /\ issued' = issued + 1 /\ issued + 1 \in Runs /\ pc[c] = "idle"
        /\ \A d \in Callers : mine'[d] = IF d = c THEN issued + 1 ELSE mine[d]
        /\ \A d \in Callers \ {c} : pc'[d] = pc[d]
        /\ pc'[c] \in {"check"} /\ UNCHANGED task
    BY <1>1, CaptureBoundsAssumption DEF CaptureTypeOK, StartCapture, Issue, Goto
  <2>2. \A r \in Runs : sender'[r] = sender[r] \/ (r = slot /\ slot # NoRun)
    BY <1>1 DEF StartCapture
  <2>3. slot # NoRun => task[slot] # "none" \/ Spawning(slot)
    BY DEF SlotNamesLiveRun
  <2>4. \A d \in Callers : mine[d] \in Nat /\ mine[d] < issued + 1
    BY DEF CaptureTypeOK, MineInv
  <2>5. \A r \in Runs : r > issued => task[r] = "none" /\ sender[r] = "open"
    BY DEF MineInv
  <2>6. slot # NoRun => slot \in Runs /\ slot < issued + 1
    BY <2>3, <2>4, <2>5 DEF CaptureTypeOK
  <2>7. \A d \in Callers : (pc'[d] # "idle" <=> mine'[d] # NoRun) /\ mine'[d] <= issued'
    BY <2>1, <2>4 DEF MineInv
  <2>8. \A d, e \in Callers : mine'[d] = mine'[e] /\ mine'[d] # NoRun => d = e
    BY <2>1, <2>4 DEF MineInv
  <2>9. \A d \in Callers : mine'[d] # NoRun => task'[mine'[d]] = "none"
    BY <2>1, <2>5 DEF CaptureTypeOK, MineInv
  <2>10. \A r \in Runs : r > issued' => task'[r] = "none" /\ sender'[r] = "open"
    BY <2>1, <2>2, <2>5, <2>6 DEF CaptureTypeOK
  <2>11. \A d \in Callers : pc'[d] # "idle" /\ pc'[d] # "launch" => sender'[mine'[d]] = "open"
    <3>1. sender'[issued + 1] = "open"
      BY <2>1, <2>2, <2>5, <2>6 DEF CaptureTypeOK
    <3>2. ASSUME NEW d \in Callers \ {c}, pc[d] # "idle", pc[d] # "launch"
          PROVE  sender'[mine[d]] = "open"
      <4>1. mine[d] \in Runs /\ sender[mine[d]] = "open" /\ task[mine[d]] = "none"
        BY <3>2 DEF CaptureTypeOK, MineInv
      <4>2. mine[d] # slot
        BY <3>2, <4>1, <2>3 DEF MineInv
      <4> QED BY <4>1, <4>2, <2>2
    <3> QED BY <3>1, <3>2, <2>1
  <2> QED BY <2>7, <2>8, <2>9, <2>10, <2>11 DEF MineInv
<1>2. ASSUME NEW c \in Callers, StopCapture(c) PROVE MineInv'
  BY <1>2 DEF CaptureTypeOK, MineInv, SlotNamesLiveRun, StopCapture
<1>3. ASSUME NEW c \in Callers, RestartCapture(c) PROVE MineInv'
  <2>1. /\ issued' = issued + 1 /\ issued + 1 \in Runs /\ pc[c] = "idle"
        /\ \A d \in Callers : mine'[d] = IF d = c THEN issued + 1 ELSE mine[d]
        /\ \A d \in Callers \ {c} : pc'[d] = pc[d]
        /\ pc'[c] \in {"check", "waiting"} /\ UNCHANGED task
    BY <1>3, CaptureBoundsAssumption DEF CaptureTypeOK, RestartCapture, Issue, Goto
  <2>2. \A r \in Runs : sender'[r] = sender[r] \/ (r = slot /\ slot # NoRun)
    BY <1>3 DEF CaptureTypeOK, RestartCapture
  <2>3. slot # NoRun => task[slot] # "none" \/ Spawning(slot)
    BY DEF SlotNamesLiveRun
  <2>4. \A d \in Callers : mine[d] \in Nat /\ mine[d] < issued + 1
    BY DEF CaptureTypeOK, MineInv
  <2>5. \A r \in Runs : r > issued => task[r] = "none" /\ sender[r] = "open"
    BY DEF MineInv
  <2>6. slot # NoRun => slot \in Runs /\ slot < issued + 1
    BY <2>3, <2>4, <2>5 DEF CaptureTypeOK
  <2>7. \A d \in Callers : (pc'[d] # "idle" <=> mine'[d] # NoRun) /\ mine'[d] <= issued'
    BY <2>1, <2>4 DEF MineInv
  <2>8. \A d, e \in Callers : mine'[d] = mine'[e] /\ mine'[d] # NoRun => d = e
    BY <2>1, <2>4 DEF MineInv
  <2>9. \A d \in Callers : mine'[d] # NoRun => task'[mine'[d]] = "none"
    BY <2>1, <2>5 DEF CaptureTypeOK, MineInv
  <2>10. \A r \in Runs : r > issued' => task'[r] = "none" /\ sender'[r] = "open"
    BY <2>1, <2>2, <2>5, <2>6 DEF CaptureTypeOK
  <2>11. \A d \in Callers : pc'[d] # "idle" /\ pc'[d] # "launch" => sender'[mine'[d]] = "open"
    <3>1. sender'[issued + 1] = "open"
      BY <2>1, <2>2, <2>5, <2>6 DEF CaptureTypeOK
    <3>2. ASSUME NEW d \in Callers \ {c}, pc[d] # "idle", pc[d] # "launch"
          PROVE  sender'[mine[d]] = "open"
      <4>1. mine[d] \in Runs /\ sender[mine[d]] = "open" /\ task[mine[d]] = "none"
        BY <3>2 DEF CaptureTypeOK, MineInv
      <4>2. mine[d] # slot
        BY <3>2, <4>1, <2>3 DEF MineInv
      <4> QED BY <4>1, <4>2, <2>2
    <3> QED BY <3>1, <3>2, <2>1
  <2> QED BY <2>7, <2>8, <2>9, <2>10, <2>11 DEF MineInv
<1>4. ASSUME NEW c \in Callers, WaitRecv(c) PROVE MineInv'
  <2>1. \A d \in Callers : pc'[d] = pc[d] \/ (d = c /\ pc[c] = "waiting" /\ pc'[c] = "check")
    BY <1>4 DEF CaptureTypeOK, WaitRecv, Goto
  <2>2. UNCHANGED <<issued, mine, sender, task>>
    BY <1>4 DEF WaitRecv
  <2> QED BY <2>1, <2>2 DEF MineInv
<1>5. ASSUME NEW c \in Callers, WaitTimeout(c) PROVE MineInv'
  <2>1. \A d \in Callers : pc'[d] = pc[d] \/ (d = c /\ pc[c] = "waiting" /\ pc'[c] = "check")
    BY <1>5 DEF CaptureTypeOK, WaitTimeout, Goto
  <2>2. UNCHANGED <<issued, mine, sender, task>>
    BY <1>5 DEF WaitTimeout
  <2> QED BY <2>1, <2>2 DEF MineInv
<1>6. ASSUME NEW c \in Callers, SpawnCheck(c) PROVE MineInv'
  <2>1. CASE slot = NoRun
    BY <1>6, <2>1 DEF CaptureTypeOK, MineInv, SpawnCheck, Goto, ctl
  <2>2. CASE slot # NoRun
    <3>1. \A d \in Callers : /\ pc'[d] = IF d = c THEN "idle" ELSE pc[d]
                             /\ mine'[d] = IF d = c THEN NoRun ELSE mine[d]
      BY <1>6, <2>2 DEF CaptureTypeOK, SpawnCheck, Goto
    <3> QED BY <1>6, <3>1 DEF CaptureTypeOK, MineInv, SpawnCheck, ctl
  <2> QED BY <2>1, <2>2
<1>7. ASSUME NEW c \in Callers, SpawnShow(c) PROVE MineInv'
  BY <1>7 DEF MineInv, SpawnShow, Goto
<1>8. ASSUME NEW c \in Callers, SpawnAnnounce(c) PROVE MineInv'
  BY <1>8 DEF MineInv, SpawnAnnounce, Goto
<1>9. ASSUME NEW c \in Callers, SpawnInstall(c) PROVE MineInv'
  BY <1>9 DEF CaptureTypeOK, MineInv, SlotNamesLiveRun, SpawnInstall, Goto
<1>10. ASSUME NEW c \in Callers, SpawnLaunch(c) PROVE MineInv'
  BY <1>10 DEF CaptureTypeOK, MineInv, SpawnLaunch, Goto
<1>11. ASSUME NEW r \in Runs, RelayFire(r) PROVE MineInv'
  BY <1>11 DEF MineInv, RelayFire
<1>12. ASSUME NEW r \in Runs, BackendListen(r) PROVE MineInv'
  BY <1>12 DEF MineInv, BackendListen
<1>13. ASSUME NEW r \in Runs, BackendReturn(r) PROVE MineInv'
  BY <1>13 DEF MineInv, BackendReturn
<1>14. ASSUME NEW r \in Runs, TaskRecord(r) PROVE MineInv'
  BY <1>14 DEF CaptureTypeOK, MineInv, SlotNamesLiveRun, TaskRecord
<1>15. ASSUME NEW r \in Runs, TaskAnnounce(r) PROVE MineInv'
  BY <1>15 DEF MineInv, TaskAnnounce
<1>16. ASSUME Forward PROVE MineInv'
  BY <1>16 DEF MineInv, Forward
<1>17. CASE UNCHANGED captureVars
  BY <1>17 DEF MineInv, captureVars
<1> QED BY <1>1, <1>2, <1>3, <1>4, <1>5, <1>6, <1>7, <1>8, <1>9, <1>10, <1>11, <1>12, <1>13,
           <1>14, <1>15, <1>16, <1>17 DEF CaptureNext, Command, Proceed, TaskStep

(* The slot keeps naming a live run: whoever takes it from one empties it.    *)
LEMMA SlotStep ==
  ASSUME CaptureTypeOK, MineInv, SlotNamesLiveRun, [CaptureNext]_captureVars
  PROVE  SlotNamesLiveRun'
<1> USE DEF Runs, NoRun, Bound, Alive, Spawning
<1>1. ASSUME NEW c \in Callers, StartCapture(c) PROVE SlotNamesLiveRun'
  BY <1>1 DEF SlotNamesLiveRun, StartCapture, ctl
<1>2. ASSUME NEW c \in Callers, StopCapture(c) PROVE SlotNamesLiveRun'
  BY <1>2 DEF SlotNamesLiveRun, StopCapture
<1>3. ASSUME NEW c \in Callers, RestartCapture(c) PROVE SlotNamesLiveRun'
  BY <1>3 DEF SlotNamesLiveRun, RestartCapture
<1>4. ASSUME NEW c \in Callers, WaitRecv(c) PROVE SlotNamesLiveRun'
  BY <1>4 DEF CaptureTypeOK, SlotNamesLiveRun, WaitRecv, Goto, ctl
<1>5. ASSUME NEW c \in Callers, WaitTimeout(c) PROVE SlotNamesLiveRun'
  BY <1>5 DEF SlotNamesLiveRun, WaitTimeout, Goto, ctl
<1>6. ASSUME NEW c \in Callers, SpawnCheck(c) PROVE SlotNamesLiveRun'
  BY <1>6 DEF CaptureTypeOK, SlotNamesLiveRun, SpawnCheck, Goto, ctl
<1>7. ASSUME NEW c \in Callers, SpawnShow(c) PROVE SlotNamesLiveRun'
  BY <1>7 DEF SlotNamesLiveRun, SpawnShow, Goto
<1>8. ASSUME NEW c \in Callers, SpawnAnnounce(c) PROVE SlotNamesLiveRun'
  BY <1>8 DEF SlotNamesLiveRun, SpawnAnnounce, Goto, ctl
<1>9. ASSUME NEW c \in Callers, SpawnInstall(c) PROVE SlotNamesLiveRun'
  BY <1>9 DEF CaptureTypeOK, MineInv, SlotNamesLiveRun, SpawnInstall, Goto
<1>10. ASSUME NEW c \in Callers, SpawnLaunch(c) PROVE SlotNamesLiveRun'
  BY <1>10 DEF CaptureTypeOK, SlotNamesLiveRun, SpawnLaunch, Goto, ctl
<1>11. ASSUME NEW r \in Runs, RelayFire(r) PROVE SlotNamesLiveRun'
  BY <1>11 DEF SlotNamesLiveRun, RelayFire, ctl
<1>12. ASSUME NEW r \in Runs, BackendListen(r) PROVE SlotNamesLiveRun'
  BY <1>12 DEF SlotNamesLiveRun, BackendListen, ctl
<1>13. ASSUME NEW r \in Runs, BackendReturn(r) PROVE SlotNamesLiveRun'
  BY <1>13 DEF SlotNamesLiveRun, BackendReturn, ctl
<1>14. ASSUME NEW r \in Runs, TaskRecord(r) PROVE SlotNamesLiveRun'
  BY <1>14 DEF SlotNamesLiveRun, TaskRecord
<1>15. ASSUME NEW r \in Runs, TaskAnnounce(r) PROVE SlotNamesLiveRun'
  BY <1>15 DEF SlotNamesLiveRun, TaskAnnounce, ctl
<1>16. ASSUME Forward PROVE SlotNamesLiveRun'
  BY <1>16 DEF SlotNamesLiveRun, Forward
<1>17. CASE UNCHANGED captureVars
  BY <1>17 DEF SlotNamesLiveRun, captureVars
<1> QED BY <1>1, <1>2, <1>3, <1>4, <1>5, <1>6, <1>7, <1>8, <1>9, <1>10, <1>11, <1>12, <1>13,
           <1>14, <1>15, <1>16, <1>17 DEF CaptureNext, Command, Proceed, TaskStep

(* Nobody becomes idle with Running as the last word: the last to go is the  *)
(* task, and it announces its outcome as it goes.                            *)
LEMMA WordStep ==
  ASSUME CaptureTypeOK, MineInv, WordInv, [CaptureNext]_captureVars
  PROVE  WordInv'
<1> USE CallersAssumption DEF Runs, NoRun, Bound, WordInv, LastWord, Busy, Subscribers, Final,
     Statuses
<1>1. ASSUME NEW c \in Callers, StartCapture(c) PROVE WordInv'
  BY <1>1 DEF StartCapture, Issue, Goto, ctl
<1>2. ASSUME NEW c \in Callers, StopCapture(c) PROVE WordInv'
  BY <1>2 DEF StopCapture
<1>3. ASSUME NEW c \in Callers, RestartCapture(c) PROVE WordInv'
  BY <1>3 DEF CaptureTypeOK, RestartCapture, Issue, Goto
<1>4. ASSUME NEW c \in Callers, WaitRecv(c) PROVE WordInv'
  BY <1>4 DEF CaptureTypeOK, WaitRecv, Goto, ctl
<1>5. ASSUME NEW c \in Callers, WaitTimeout(c) PROVE WordInv'
  BY <1>5 DEF WaitTimeout, Goto, ctl
<1>6. ASSUME NEW c \in Callers, SpawnCheck(c) PROVE WordInv'
  BY <1>6 DEF CaptureTypeOK, SpawnCheck, Goto, ctl
<1>7. ASSUME NEW c \in Callers, SpawnShow(c) PROVE WordInv'
  BY <1>7 DEF CaptureTypeOK, SpawnShow, Goto
<1>8. ASSUME NEW c \in Callers, SpawnAnnounce(c) PROVE WordInv'
  <2>1. "Running" \in Statuses /\ Send("Running")
    BY <1>8 DEF SpawnAnnounce
  <2> QED BY <1>8, <2>1, SendKeeps DEF CaptureTypeOK, SpawnAnnounce, Goto, ctl
<1>9. ASSUME NEW c \in Callers, SpawnInstall(c) PROVE WordInv'
  BY <1>9 DEF SpawnInstall, Goto
<1>10. ASSUME NEW c \in Callers, SpawnLaunch(c) PROVE WordInv'
  BY <1>10 DEF CaptureTypeOK, MineInv, SpawnLaunch
<1>11. ASSUME NEW r \in Runs, RelayFire(r) PROVE WordInv'
  BY <1>11 DEF RelayFire, ctl
<1>12. ASSUME NEW r \in Runs, BackendListen(r) PROVE WordInv'
  BY <1>12 DEF BackendListen
<1>13. ASSUME NEW r \in Runs, BackendReturn(r) PROVE WordInv'
  BY <1>13 DEF BackendReturn
<1>14. ASSUME NEW r \in Runs, TaskRecord(r) PROVE WordInv'
  BY <1>14 DEF TaskRecord
<1>15. ASSUME NEW r \in Runs, TaskAnnounce(r) PROVE WordInv'
  <2>1. outcome[r] \in Statuses /\ Send(outcome[r])
    BY <1>15 DEF CaptureTypeOK, TaskAnnounce
  <2> QED BY <1>15, <2>1, SendKeeps DEF CaptureTypeOK, TaskAnnounce, ctl
<1>16. ASSUME Forward PROVE WordInv'
  <2> DEFINE q == inbox["forwarder"]
             rest == Tail(q)
  <2>1. /\ q \in Seq(Statuses) /\ q # <<>> /\ status' = Head(q) /\ inbox'["forwarder"] = rest
        /\ UNCHANGED <<pc, task>>
    BY <1>16 DEF CaptureTypeOK, Forward
  <2> QED BY <2>1, TailLast
<1>17. CASE UNCHANGED captureVars
  BY <1>17 DEF captureVars
<1> QED BY <1>1, <1>2, <1>3, <1>4, <1>5, <1>6, <1>7, <1>8, <1>9, <1>10, <1>11, <1>12, <1>13,
           <1>14, <1>15, <1>16, <1>17 DEF CaptureNext, Command, Proceed, TaskStep

-----------------------------------------------------------------------------
(* The strengthened invariant holds in every state.                          *)
LEMMA CaptureInvariant == CaptureSpec => []CaptureIInv
<1>1. CaptureInit => CaptureIInv
  BY CaptureBoundsAssumption, CallersAssumption
     DEF CaptureInit, CaptureIInv, CaptureTypeOK, MineInv, Bound, SlotNamesLiveRun, WordInv, LastWord, Busy, Runs, NoRun,
         Final, Statuses, Subscribers, CallerPhases, TaskPhases
<1>2. CaptureIInv /\ [CaptureNext]_captureVars => CaptureIInv'
  BY CaptureTypeStep, MineStep, SlotStep, WordStep DEF CaptureIInv
<1> QED BY <1>1, <1>2, PTL DEF CaptureSpec

(* Every variable of the capture supervisor keeps its type.                  *)
THEOREM CaptureTypeSafety == CaptureSpec => []CaptureTypeOK
<1>1. CaptureIInv => CaptureTypeOK
  BY DEF CaptureIInv
<1> QED BY <1>1, CaptureInvariant, PTL

(* capture_supervisor.rs: the slot never refuses a start in the name of a    *)
(* backend that is gone.                                                     *)
THEOREM SlotSafety == CaptureSpec => []SlotNamesLiveRun
<1>1. CaptureIInv => SlotNamesLiveRun
  BY DEF CaptureIInv
<1> QED BY <1>1, CaptureInvariant, PTL

(* capture_supervisor.rs and the forwarder of ipc/mod.rs: when all is quiet   *)
(* the status shown is final, however far the forwarder lagged.              *)
THEOREM QuietSafety == CaptureSpec => []QuietStatusIsFinal
<1>1. CaptureIInv => QuietStatusIsFinal
  BY DEF CaptureIInv, QuietStatusIsFinal, Quiet, SlotNamesLiveRun, Alive, Spawning, WordInv, LastWord,
       Busy, CaptureTypeOK
<1> QED BY <1>1, CaptureInvariant, PTL

(* ---- the directory of a bot (BotEnvironment) ---- *)

(* The name is in the set for the one guarded job, or for the one task that  *)
(* is about to remove it, never for both.                                    *)
GuardInv ==
  /\ releasing \in {0, 1}
  /\ inFlight <=> releasing = 1 \/ \E j \in Jobs : Guarded(j)
  /\ releasing = 1 => \A j \in Jobs : ~Guarded(j)
  /\ \A j \in Jobs : job[j].pc \in {"idle", "orphan"} => job[j].kind = "none"
  /\ GuardedWorkAlone

(* What is on disk together, whoever put it there: a stamp needs the files,  *)
(* the lock it was taken with never goes alone.                              *)
DiskInv ==
  /\ stamp = "lock" => lock
  /\ bot # "files" => stamp = "none"
  /\ bot = "absent" => venv = "none"
  /\ venv = "none" => ~moved

(* What a job that nobody disturbs may rely on at each of its steps.         *)
Syncing(j) == job[j].pc \in {"mkdir", "uv", "uv_running", "orphan"}

BuildInv ==
  ~mixed =>
    /\ venv = "none" => stamp = "none"
    /\ Fresh => venv = "good"
    /\ \A j \in Jobs : Syncing(j) => ~Fresh
    /\ \A j \in Jobs : job[j].pc \in {"wipe_venv", "wiping"} => stamp = "none"
    /\ \A j \in Jobs : job[j].pc = "stamp" => venv = "good"
    /\ \A j \in Jobs : job[j].pc \in {"uv_running", "stamp"} => bot = "files"

(* The bot is in use, or about to be.                                        *)
InUse ==
  \/ active
  \/ \E j \in Jobs : job[j].pc = "activate" \/ (job[j].kind = "start" /\ job[j].pc = "check")

(* A bot in use stays ready unless it was broken or disturbed: no start      *)
(* finds a stale environment, and none wipes on Windows.                     *)
StartInv ==
  /\ ~broken /\ ~mixed /\ InUse => Fresh
  /\ ~broken /\ stamp = "none" => ~InUse /\ \A j \in Jobs : job[j].kind # "start"
  /\ \A j \in Jobs : job[j].kind = "start" /\ Syncing(j) => broken \/ mixed
  /\ \A j \in Jobs :
       job[j].kind = "start" /\ platform = "windows" =>
         ~moved /\ job[j].pc \notin {"wipe_stamp", "wipe_venv", "wiping"}

IInv == TypeOK /\ GuardInv /\ DiskInv /\ BuildInv /\ StartInv

-----------------------------------------------------------------------------
(* Steps of one job: its record becomes another, the others stay.            *)
PCs == Working \cup {"idle", "check", "activate"}
Kinds == {"none", "sync", "start", "install", "update", "delete", "activate"}
JobType == [kind : Kinds, pc : PCs, checked : BOOLEAN]

Becomes(j, kind, at) ==
  /\ job' \in [Jobs -> JobType]
  /\ \A k \in Jobs : job'[k].kind = IF k = j THEN kind ELSE job[k].kind
  /\ \A k \in Jobs : job'[k].pc = IF k = j THEN at ELSE job[k].pc

(* A record replaced, written pointwise.                                     *)
LEMMA OneBecomes ==
  ASSUME job \in [Jobs -> JobType], NEW j \in Jobs, NEW r \in JobType, job' = [job EXCEPT ![j] = r]
  PROVE  Becomes(j, r.kind, r.pc)
<1>1. job' \in [Jobs -> JobType]
  OBVIOUS
<1>2. \A k \in Jobs : job'[k] = IF k = j THEN r ELSE job[k]
  OBVIOUS
<1> QED BY <1>1, <1>2 DEF Becomes

(* A step that only moves the job on.                                        *)
LEMMA Went ==
  ASSUME TypeOK, NEW j \in Jobs, NEW at \in PCs, Goes(j, at)
  PROVE  Becomes(j, job[j].kind, at)
<1> DEFINE r == [job[j] EXCEPT !.pc = at]
<1>1. job \in [Jobs -> JobType] /\ job[j] \in JobType
  BY DEF TypeOK, JobType, PCs, Kinds
<1>2. r \in JobType /\ r.kind = job[j].kind /\ r.pc = at
  BY <1>1 DEF JobType
<1>3. job' = [job EXCEPT ![j] = r]
  BY DEF Goes
<1> HIDE DEF r
<1> QED BY <1>1, <1>2, <1>3, OneBecomes

(* A command takes an idle job and one of the bound.                         *)
LEMMA Began ==
  ASSUME TypeOK, NEW j \in Jobs, NEW kind \in Kinds, NEW at \in PCs, Begin(j, kind, at)
  PROVE  Becomes(j, kind, at) /\ commands' \in 0..MaxCommands
<1> DEFINE r == [kind |-> kind, pc |-> at, checked |-> FALSE]
<1>1. job \in [Jobs -> JobType]
  BY DEF TypeOK, JobType, PCs, Kinds
<1>2. r \in JobType /\ r.kind = kind /\ r.pc = at
  BY DEF JobType
<1>3. job' = [job EXCEPT ![j] = r]
  BY DEF Begin
<1>4. commands' \in 0..MaxCommands
  <2>1. commands > 0 /\ commands' = commands - 1
    BY DEF Begin
  <2>2. commands \in 0..MaxCommands
    BY DEF TypeOK
  <2> QED BY <2>1, <2>2, BoundsAssumption
<1> HIDE DEF r
<1> QED BY <1>1, <1>2, <1>3, <1>4, OneBecomes

(* A job that is done.                                                       *)
LEMMA Idles ==
  ASSUME TypeOK, NEW j \in Jobs, job' = [job EXCEPT ![j] = Idle]
  PROVE  Becomes(j, "none", "idle")
<1>1. job \in [Jobs -> JobType]
  BY DEF TypeOK, JobType, PCs, Kinds
<1>2. Idle \in JobType /\ Idle.kind = "none" /\ Idle.pc = "idle"
  BY DEF Idle, JobType, Kinds, PCs
<1> QED BY <1>1, <1>2, OneBecomes

(* A command that is over drops its guard, if it has one.                    *)
LEMMA Returned ==
  ASSUME TypeOK, NEW j \in Jobs, Returns(j)
  PROVE  Becomes(j, "none", "idle") /\ releasing' \in Nat /\ UNCHANGED inFlight
<1>1. releasing \in Nat /\ (releasing' = releasing \/ releasing' = releasing + 1)
  BY DEF TypeOK, Returns, Drops
<1>2. releasing' \in Nat
  BY <1>1
<1> QED BY <1>2, Idles DEF Returns

(* A failed sync rolls an install back and ends every other command.         *)
LEMMA Failed ==
  ASSUME TypeOK, NEW j \in Jobs, Fails(j)
  PROVE  \/ Installing(j) /\ Becomes(j, job[j].kind, "rollback") /\ UNCHANGED guard
         \/ ~Installing(j) /\ Becomes(j, "none", "idle") /\ Returns(j) /\ releasing' \in Nat
<1>1. "rollback" \in PCs
  BY DEF PCs, Working
<1> QED BY <1>1, Went, Returned DEF Fails

(* What the four kinds of steps do to the guard.                             *)
LEMMA GuardKept ==
  ASSUME GuardInv, NEW j \in Jobs, NEW at, at \notin {"idle", "orphan"},
         Becomes(j, job[j].kind, at), UNCHANGED guard
  PROVE  GuardInv'
<1>1. \A k \in Jobs : job'[k].kind = job[k].kind
  BY DEF Becomes
<1>2. \A k \in Jobs : job'[k].pc \in {"idle", "orphan"} => job[k].pc \in {"idle", "orphan"}
  BY DEF Becomes
<1> QED BY <1>1, <1>2 DEF GuardInv, GuardedWorkAlone, Guarded, guard

LEMMA GuardPassed ==
  ASSUME GuardInv, NEW j \in Jobs, NEW kind, NEW at, ~Guarded(j), kind \notin {"sync", "start"},
         at \in {"idle", "orphan"} => kind = "none", Becomes(j, kind, at), UNCHANGED guard
  PROVE  GuardInv'
<1>1. \A k \in Jobs : Guarded(k)' <=> Guarded(k)
  BY DEF Becomes, Guarded
<1>2. \A k \in Jobs : job'[k].pc \in {"idle", "orphan"} => job'[k].kind = "none"
  BY DEF Becomes, GuardInv
<1> QED BY <1>1, <1>2 DEF GuardInv, GuardedWorkAlone, guard

LEMMA GuardTaken ==
  ASSUME GuardInv, NEW j \in Jobs, NEW kind, NEW at, Acquire, kind \in {"sync", "start"},
         at \notin {"idle", "orphan"}, Becomes(j, kind, at)
  PROVE  GuardInv'
<1>1. ~inFlight /\ inFlight' /\ releasing' = releasing
  BY DEF Acquire
<1>2. releasing = 0 /\ \A k \in Jobs : ~Guarded(k)
  BY <1>1 DEF GuardInv
<1>3. \A k \in Jobs : Guarded(k)' <=> k = j
  BY <1>2 DEF Becomes, Guarded
<1>4. \A k \in Jobs : job'[k].pc \in {"idle", "orphan"} => job'[k].kind = "none"
  BY DEF Becomes, GuardInv
<1> QED BY <1>1, <1>2, <1>3, <1>4 DEF GuardInv, GuardedWorkAlone

LEMMA GuardDropped ==
  ASSUME TypeOK, GuardInv, NEW j \in Jobs, Returns(j), Becomes(j, "none", "idle")
  PROVE  GuardInv'
<1>1. \A k \in Jobs : Guarded(k)' <=> Guarded(k) /\ k # j
  BY DEF Becomes, Guarded
<1>2. \A k \in Jobs : job'[k].pc \in {"idle", "orphan"} => job'[k].kind = "none"
  BY DEF Becomes, GuardInv
<1>3. CASE Guarded(j)
  <2>1. releasing = 0 /\ inFlight /\ \A k \in Jobs : Guarded(k) => k = j
    BY <1>3 DEF GuardInv, GuardedWorkAlone
  <2>2. releasing' = 1 /\ inFlight'
    BY <1>3, <2>1 DEF Returns, Drops
  <2>3. \A k \in Jobs : ~Guarded(k)'
    BY <1>1, <2>1
  <2> QED BY <1>2, <2>2, <2>3 DEF GuardInv, GuardedWorkAlone
<1>4. CASE ~Guarded(j)
  <2>1. UNCHANGED guard
    BY <1>4 DEF Returns, Drops, guard
  <2> QED BY <1>4, <2>1, GuardPassed
<1> QED BY <1>3, <1>4

(* A venv that cannot be repointed is wiped, and not checked again.          *)
LEMMA Rewiped ==
  ASSUME TypeOK, NEW j \in Jobs, RepointFails(j)
  PROVE  Becomes(j, job[j].kind, "wipe_stamp")
<1> DEFINE r == [job[j] EXCEPT !.pc = "wipe_stamp", !.checked = TRUE]
<1>1. job \in [Jobs -> JobType] /\ job[j] \in JobType
  BY DEF TypeOK, JobType, PCs, Kinds
<1>2. r \in JobType /\ r.kind = job[j].kind /\ r.pc = "wipe_stamp"
  BY <1>1 DEF JobType, PCs, Working
<1>3. job' = [job EXCEPT ![j] = r]
  BY DEF RepointFails
<1> HIDE DEF r
<1> QED BY <1>1, <1>2, <1>3, OneBecomes

(* A restart leaves nothing but uv processes.                                *)
LEMMA Stopped ==
  ASSUME TypeOK, Restart
  PROVE  /\ job' \in [Jobs -> JobType]
         /\ \A j \in Jobs : job'[j].kind = "none" /\ job'[j].pc \in {"idle", "orphan"}
         /\ \A j \in Jobs : job'[j].pc = "orphan" => job[j].pc \in {"uv_running", "orphan"}
         /\ restarts' \in 0..MaxRestarts /\ moved' \in BOOLEAN
         /\ venv = "none" => ~moved'
<1> DEFINE orphan == [Idle EXCEPT !.pc = "orphan"]
<1>1. PICK goesOn \in SUBSET {j \in Jobs : job[j].pc \in {"uv_running", "orphan"}} :
        job' = [j \in Jobs |-> IF j \in goesOn THEN orphan ELSE Idle]
  BY DEF Restart
<1>2. /\ orphan \in JobType /\ orphan.kind = "none" /\ orphan.pc = "orphan"
      /\ Idle \in JobType /\ Idle.kind = "none" /\ Idle.pc = "idle"
  BY DEF Idle, JobType, Kinds, PCs, Working
<1> HIDE DEF orphan
<1>3. \A j \in Jobs : job'[j] = IF j \in goesOn THEN orphan ELSE Idle
  BY <1>1
<1>4. restarts > 0 /\ restarts' = restarts - 1 /\ restarts \in 0..MaxRestarts
  BY DEF Restart, TypeOK
<1>5. restarts' \in 0..MaxRestarts
  BY <1>4, BoundsAssumption
<1>6. moved' \in BOOLEAN /\ (venv = "none" => ~moved')
  BY DEF Restart, TypeOK
<1> QED BY <1>1, <1>2, <1>3, <1>5, <1>6

(* After the wipe the check, unless it was made before.                      *)
LEMMA Wiped ==
  ASSUME TypeOK, NEW j \in Jobs, AfterWipe(j)
  PROVE  Becomes(j, job[j].kind, "mkdir") \/ Becomes(j, job[j].kind, "check")
<1>1. "mkdir" \in PCs /\ "check" \in PCs
  BY DEF PCs, Working
<1> QED BY <1>1, Went DEF AfterWipe

-----------------------------------------------------------------------------
(* Every step keeps the types. *)
LEMMA TypeStep ==
  ASSUME TypeOK, [Next]_vars
  PROVE  TypeOK'
<1>1. ASSUME NEW j \in Jobs, NEW force \in BOOLEAN, SyncDeps(j, force) PROVE TypeOK'
  <2>1. \E at \in {"wipe_stamp", "check"} : Becomes(j, "sync", at) /\ commands' \in 0..MaxCommands
    BY <1>1, Began DEF SyncDeps, PCs, Working, Kinds
  <2> QED BY <1>1, <2>1, BoundsAssumption DEF SyncDeps, Begin, Acquire, TypeOK, Working, Touches,
             WipesIt, current_signature, guard, bounds, disk, Becomes, JobType, PCs, Kinds
<1>2. ASSUME NEW j \in Jobs, StartGame(j) PROVE TypeOK'
  <2>1. Becomes(j, "start", "check") /\ commands' \in 0..MaxCommands
    BY <1>2, Began DEF StartGame, PCs, Kinds
  <2> QED BY <1>2, <2>1, BoundsAssumption DEF StartGame, Begin, Acquire, TypeOK, Working, Touches,
             WipesIt, current_signature, guard, bounds, disk, Becomes, JobType, PCs, Kinds
<1>3. ASSUME NEW j \in Jobs, Install(j) PROVE TypeOK'
  <2>1. Becomes(j, "install", "place") /\ commands' \in 0..MaxCommands
    BY <1>3, Began DEF Install, PCs, Working, Kinds
  <2> QED BY <1>3, <2>1, BoundsAssumption DEF Install, Begin, TypeOK, Working, Touches, WipesIt,
             current_signature, guard, bounds, disk, Becomes, JobType, PCs, Kinds
<1>4. ASSUME NEW j \in Jobs, UpdateBot(j) PROVE TypeOK'
  <2>1. Becomes(j, "update", "remove") /\ commands' \in 0..MaxCommands
    BY <1>4, Began DEF UpdateBot, PCs, Working, Kinds
  <2> QED BY <1>4, <2>1, BoundsAssumption DEF UpdateBot, Begin, TypeOK, Working, Touches, WipesIt,
             current_signature, guard, bounds, disk, Becomes, JobType, PCs, Kinds
<1>5. ASSUME NEW j \in Jobs, DeleteBot(j) PROVE TypeOK'
  <2>1. Becomes(j, "delete", "delete") /\ commands' \in 0..MaxCommands
    BY <1>5, Began DEF DeleteBot, PCs, Working, Kinds
  <2> QED BY <1>5, <2>1, BoundsAssumption DEF DeleteBot, Begin, TypeOK, Working, Touches, WipesIt,
             current_signature, guard, bounds, disk, Becomes, JobType, PCs, Kinds
<1>6. ASSUME NEW j \in Jobs, SetActive(j) PROVE TypeOK'
  <2>1. Becomes(j, "activate", "activate") /\ commands' \in 0..MaxCommands
    BY <1>6, Began DEF SetActive, PCs, Kinds
  <2> QED BY <1>6, <2>1, BoundsAssumption DEF SetActive, Begin, TypeOK, Working, Touches, WipesIt,
             current_signature, guard, bounds, disk, Becomes, JobType, PCs, Kinds
<1>7. ASSUME NEW j \in Jobs, Deactivate(j) PROVE TypeOK'
  <2>1. Becomes(j, "none", "idle") /\ commands' \in 0..MaxCommands
    BY <1>7, Began DEF Deactivate, PCs, Kinds
  <2> QED BY <1>7, <2>1, BoundsAssumption DEF Deactivate, Begin, TypeOK, Working, Touches,
             WipesIt, current_signature, guard, bounds, disk, Becomes, JobType, PCs, Kinds
<1>8. ASSUME NEW j \in Jobs, CheckFails(j) PROVE TypeOK'
  <2>1. \/ Installing(j) /\ Becomes(j, job[j].kind, "rollback") /\ UNCHANGED guard
        \/ ~Installing(j) /\ Becomes(j, "none", "idle") /\ Returns(j) /\ releasing' \in Nat
    BY <1>8, Failed DEF CheckFails
  <2>2. job' \in [Jobs -> JobType] /\ releasing' \in Nat /\ UNCHANGED inFlight
    BY <1>8, <2>1 DEF TypeOK, Returns, Becomes, guard
  <2> QED BY <1>8, <2>2 DEF TypeOK, CheckFails, bounds, disk, JobType, PCs, Kinds
<1>9. ASSUME NEW j \in Jobs, CheckPasses(j) PROVE TypeOK'
  <2>1. Becomes(j, "none", "idle") /\ releasing' \in Nat /\ UNCHANGED inFlight
    BY <1>9, Returned DEF CheckPasses
  <2> QED BY <1>9, <2>1, BoundsAssumption DEF CheckPasses, TypeOK, Working, Touches, WipesIt,
             current_signature, guard, bounds, disk, Becomes, JobType, PCs, Kinds
<1>10. ASSUME NEW j \in Jobs, Repoint(j) PROVE TypeOK'
  <2>1. Becomes(j, "none", "idle") /\ releasing' \in Nat /\ UNCHANGED inFlight
    BY <1>10, Returned DEF Repoint
  <2> QED BY <1>10, <2>1, BoundsAssumption DEF Repoint, TypeOK, Working, Touches, WipesIt,
             current_signature, guard, bounds, disk, Becomes, JobType, PCs, Kinds
<1>11. ASSUME NEW j \in Jobs, RepointFails(j) PROVE TypeOK'
  <2>1. Becomes(j, job[j].kind, "wipe_stamp")
    BY <1>11, Rewiped DEF RepointFails
  <2> QED BY <1>11, <2>1, BoundsAssumption DEF RepointFails, TypeOK, Working, Touches, WipesIt,
             current_signature, guard, bounds, disk, Becomes, JobType, PCs, Kinds
<1>12. ASSUME NEW j \in Jobs, CheckFindsStale(j) PROVE TypeOK'
  <2>1. Becomes(j, job[j].kind, "mkdir")
    BY <1>12, Went DEF CheckFindsStale, PCs, Working
  <2> QED BY <1>12, <2>1, BoundsAssumption DEF CheckFindsStale, TypeOK, Working, Touches, WipesIt,
             current_signature, guard, bounds, disk, Becomes, JobType, PCs, Kinds
<1>13. ASSUME NEW j \in Jobs, MakeDir(j) PROVE TypeOK'
  <2>1. Becomes(j, job[j].kind, "uv")
    BY <1>13, Went DEF MakeDir, PCs, Working
  <2> QED BY <1>13, <2>1, BoundsAssumption DEF MakeDir, TypeOK, Working, Touches, WipesIt,
             current_signature, guard, bounds, disk, Becomes, JobType, PCs, Kinds
<1>14. ASSUME NEW j \in Jobs, UvStarts(j) PROVE TypeOK'
  <2>1. Becomes(j, job[j].kind, "uv_running")
    BY <1>14, Went DEF UvStarts, PCs, Working
  <2> QED BY <1>14, <2>1, BoundsAssumption DEF UvStarts, TypeOK, Working, Touches, WipesIt,
             current_signature, guard, bounds, disk, Becomes, JobType, PCs, Kinds
<1>15. ASSUME NEW j \in Jobs, UvRefuses(j) PROVE TypeOK'
  <2>1. \/ Installing(j) /\ Becomes(j, job[j].kind, "rollback") /\ UNCHANGED guard
        \/ ~Installing(j) /\ Becomes(j, "none", "idle") /\ Returns(j) /\ releasing' \in Nat
    BY <1>15, Failed DEF UvRefuses
  <2>2. job' \in [Jobs -> JobType] /\ releasing' \in Nat /\ UNCHANGED inFlight
    BY <1>15, <2>1 DEF TypeOK, Returns, Becomes, guard
  <2> QED BY <1>15, <2>2 DEF TypeOK, UvRefuses, bounds, disk, JobType, PCs, Kinds
<1>16. ASSUME NEW j \in Jobs, UvEnds(j) PROVE TypeOK'
  <2>1. Becomes(j, job[j].kind, "stamp")
    BY <1>16, Went DEF UvEnds, PCs, Working
  <2> QED BY <1>16, <2>1, BoundsAssumption DEF UvEnds, TypeOK, Working, Touches, WipesIt,
             current_signature, guard, bounds, disk, Becomes, JobType, PCs, Kinds
<1>17. ASSUME NEW j \in Jobs, UvFails(j) PROVE TypeOK'
  <2>1. \/ Installing(j) /\ Becomes(j, job[j].kind, "rollback") /\ UNCHANGED guard
        \/ ~Installing(j) /\ Becomes(j, "none", "idle") /\ Returns(j) /\ releasing' \in Nat
    BY <1>17, Failed DEF UvFails
  <2>2. job' \in [Jobs -> JobType] /\ releasing' \in Nat /\ UNCHANGED inFlight
    BY <1>17, <2>1 DEF TypeOK, Returns, Becomes, guard
  <2> QED BY <1>17, <2>2 DEF TypeOK, UvFails, bounds, disk, JobType, PCs, Kinds
<1>18. ASSUME NEW j \in Jobs, WriteStamp(j) PROVE TypeOK'
  <2>1. Becomes(j, "none", "idle") /\ releasing' \in Nat /\ UNCHANGED inFlight
    BY <1>18, Returned DEF WriteStamp
  <2> QED BY <1>18, <2>1, BoundsAssumption DEF WriteStamp, TypeOK, Working, Touches, WipesIt,
             current_signature, guard, bounds, disk, Becomes, JobType, PCs, Kinds
<1>19. ASSUME NEW j \in Jobs, StampFails(j) PROVE TypeOK'
  <2>1. \/ Installing(j) /\ Becomes(j, job[j].kind, "rollback") /\ UNCHANGED guard
        \/ ~Installing(j) /\ Becomes(j, "none", "idle") /\ Returns(j) /\ releasing' \in Nat
    BY <1>19, Failed DEF StampFails
  <2>2. job' \in [Jobs -> JobType] /\ releasing' \in Nat /\ UNCHANGED inFlight
    BY <1>19, <2>1 DEF TypeOK, Returns, Becomes, guard
  <2> QED BY <1>19, <2>2 DEF TypeOK, StampFails, bounds, disk, JobType, PCs, Kinds
<1>20. ASSUME NEW j \in Jobs, WipeStamp(j) PROVE TypeOK'
  <2>1. Becomes(j, job[j].kind, "wipe_venv")
    BY <1>20, Went DEF WipeStamp, PCs, Working
  <2> QED BY <1>20, <2>1, BoundsAssumption DEF WipeStamp, TypeOK, Working, Touches, WipesIt,
             current_signature, guard, bounds, disk, Becomes, JobType, PCs, Kinds
<1>21. ASSUME NEW j \in Jobs, WipeVenv(j) PROVE TypeOK'
  <2>1. Becomes(j, job[j].kind, "wiping")
    BY <1>21, Went DEF WipeVenv, PCs, Working
  <2> QED BY <1>21, <2>1, BoundsAssumption DEF WipeVenv, TypeOK, Working, Touches, WipesIt,
             current_signature, guard, bounds, disk, Becomes, JobType, PCs, Kinds
<1>22. ASSUME NEW j \in Jobs, WipedVenv(j) PROVE TypeOK'
  <2>1. Becomes(j, job[j].kind, "mkdir") \/ Becomes(j, job[j].kind, "check")
    BY <1>22, Wiped DEF WipedVenv
  <2> QED BY <1>22, <2>1, BoundsAssumption DEF WipedVenv, TypeOK, Working, Touches, WipesIt,
             current_signature, guard, bounds, disk, Becomes, JobType, PCs, Kinds
<1>23. ASSUME NEW j \in Jobs, Place(j) PROVE TypeOK'
  <2>1. Becomes(j, job[j].kind, "check")
    BY <1>23, Went DEF Place, PCs
  <2> QED BY <1>23, <2>1, BoundsAssumption DEF Place, TypeOK, Working, Touches, WipesIt,
             current_signature, guard, bounds, disk, Becomes, JobType, PCs, Kinds
<1>24. ASSUME NEW j \in Jobs, PlaceFails(j) PROVE TypeOK'
  <2>1. Becomes(j, "none", "idle") /\ releasing' \in Nat /\ UNCHANGED inFlight
    BY <1>24, Returned DEF PlaceFails
  <2> QED BY <1>24, <2>1, BoundsAssumption DEF PlaceFails, TypeOK, Working, Touches, WipesIt,
             current_signature, guard, bounds, disk, Becomes, JobType, PCs, Kinds
<1>25. ASSUME NEW j \in Jobs, UpdateRemoves(j) PROVE TypeOK'
  <2>1. Becomes(j, job[j].kind, "place")
    BY <1>25, Went DEF UpdateRemoves, PCs, Working
  <2> QED BY <1>25, <2>1, BoundsAssumption DEF UpdateRemoves, Removes, Gone, TypeOK, Working,
             Touches, WipesIt, current_signature, guard, bounds, disk, Becomes, JobType, PCs,
             Kinds
<1>26. ASSUME NEW j \in Jobs, RollBack(j) PROVE TypeOK'
  <2>1. Becomes(j, "none", "idle") /\ releasing' \in Nat /\ UNCHANGED inFlight
    BY <1>26, Returned DEF RollBack
  <2> QED BY <1>26, <2>1, BoundsAssumption DEF RollBack, Removes, Gone, TypeOK, Working, Touches,
             WipesIt, current_signature, guard, bounds, disk, Becomes, JobType, PCs, Kinds
<1>27. ASSUME NEW j \in Jobs, DeleteRemoves(j) PROVE TypeOK'
  <2>1. Becomes(j, "none", "idle") /\ releasing' \in Nat /\ UNCHANGED inFlight
    BY <1>27, Returned DEF DeleteRemoves
  <2> QED BY <1>27, <2>1, BoundsAssumption DEF DeleteRemoves, Removes, Gone, TypeOK, Working,
             Touches, WipesIt, current_signature, guard, bounds, disk, Becomes, JobType, PCs,
             Kinds
<1>28. ASSUME NEW j \in Jobs, Activate(j) PROVE TypeOK'
  <2>1. Becomes(j, "none", "idle") /\ releasing' \in Nat /\ UNCHANGED inFlight
    BY <1>28, Returned DEF Activate
  <2> QED BY <1>28, <2>1, BoundsAssumption DEF Activate, TypeOK, Working, Touches, WipesIt,
             current_signature, guard, bounds, disk, Becomes, JobType, PCs, Kinds
<1>29. ASSUME NEW j \in Jobs, OrphanEnds(j) PROVE TypeOK'
  <2>1. Becomes(j, "none", "idle")
    BY <1>29, Idles DEF OrphanEnds
  <2> QED BY <1>29, <2>1, BoundsAssumption DEF OrphanEnds, TypeOK, Working, Touches, WipesIt,
             current_signature, guard, bounds, disk, Becomes, JobType, PCs, Kinds
<1>30. ASSUME Release PROVE TypeOK'
  <2>1. releasing > 0 /\ releasing' = releasing - 1 /\ releasing \in Nat
    BY <1>30 DEF Release, TypeOK
  <2>2. releasing' \in Nat
    BY <2>1
  <2> QED BY <1>30, <2>2 DEF Release, TypeOK, disk, bounds
<1>31. ASSUME Restart PROVE TypeOK'
  <2> QED BY <1>31, Stopped DEF TypeOK, Restart, JobType, PCs, Kinds
<1>32. CASE UNCHANGED vars
  BY <1>32 DEF vars, TypeOK, guard, bounds, disk
<1> QED BY <1>1, <1>2, <1>3, <1>4, <1>5, <1>6, <1>7, <1>8, <1>9, <1>10, <1>11, <1>12, <1>13,
           <1>14, <1>15, <1>16, <1>17, <1>18, <1>19, <1>20, <1>21, <1>22, <1>23, <1>24, <1>25,
           <1>26, <1>27, <1>28, <1>29, <1>30, <1>31, <1>32
        DEF Next, Commands, EnsureSynced

(* Every step keeps the guard: a name is taken when nobody has it. *)
LEMMA GuardStep ==
  ASSUME TypeOK, GuardInv, [Next]_vars
  PROVE  GuardInv'
<1>1. ASSUME NEW j \in Jobs, NEW force \in BOOLEAN, SyncDeps(j, force) PROVE GuardInv'
  <2>1. \E at \in {"wipe_stamp", "check"} : Becomes(j, "sync", at) /\ commands' \in 0..MaxCommands
    BY <1>1, Began DEF SyncDeps, PCs, Working, Kinds
  <2>2. Acquire
    BY <1>1 DEF SyncDeps
  <2> QED BY <2>1, <2>2, GuardTaken
<1>2. ASSUME NEW j \in Jobs, StartGame(j) PROVE GuardInv'
  <2>1. Becomes(j, "start", "check") /\ commands' \in 0..MaxCommands
    BY <1>2, Began DEF StartGame, PCs, Kinds
  <2>2. Acquire
    BY <1>2 DEF StartGame
  <2> QED BY <2>1, <2>2, GuardTaken
<1>3. ASSUME NEW j \in Jobs, Install(j) PROVE GuardInv'
  <2>1. Becomes(j, "install", "place") /\ commands' \in 0..MaxCommands
    BY <1>3, Began DEF Install, PCs, Working, Kinds
  <2>2. ~Guarded(j) /\ UNCHANGED guard
    BY <1>3 DEF Install, Begin, At, GuardInv, Guarded
  <2> QED BY <2>1, <2>2, GuardPassed
<1>4. ASSUME NEW j \in Jobs, UpdateBot(j) PROVE GuardInv'
  <2>1. Becomes(j, "update", "remove") /\ commands' \in 0..MaxCommands
    BY <1>4, Began DEF UpdateBot, PCs, Working, Kinds
  <2>2. ~Guarded(j) /\ UNCHANGED guard
    BY <1>4 DEF UpdateBot, Begin, At, GuardInv, Guarded
  <2> QED BY <2>1, <2>2, GuardPassed
<1>5. ASSUME NEW j \in Jobs, DeleteBot(j) PROVE GuardInv'
  <2>1. Becomes(j, "delete", "delete") /\ commands' \in 0..MaxCommands
    BY <1>5, Began DEF DeleteBot, PCs, Working, Kinds
  <2>2. ~Guarded(j) /\ UNCHANGED guard
    BY <1>5 DEF DeleteBot, Begin, At, GuardInv, Guarded
  <2> QED BY <2>1, <2>2, GuardPassed
<1>6. ASSUME NEW j \in Jobs, SetActive(j) PROVE GuardInv'
  <2>1. Becomes(j, "activate", "activate") /\ commands' \in 0..MaxCommands
    BY <1>6, Began DEF SetActive, PCs, Kinds
  <2>2. ~Guarded(j) /\ UNCHANGED guard
    BY <1>6 DEF SetActive, Begin, At, GuardInv, Guarded
  <2> QED BY <2>1, <2>2, GuardPassed
<1>7. ASSUME NEW j \in Jobs, Deactivate(j) PROVE GuardInv'
  <2>1. Becomes(j, "none", "idle") /\ commands' \in 0..MaxCommands
    BY <1>7, Began DEF Deactivate, PCs, Kinds
  <2>2. ~Guarded(j) /\ UNCHANGED guard
    BY <1>7 DEF Deactivate, Begin, At, GuardInv, Guarded
  <2> QED BY <2>1, <2>2, GuardPassed
<1>8. ASSUME NEW j \in Jobs, CheckFails(j) PROVE GuardInv'
  <2>1. \/ Installing(j) /\ Becomes(j, job[j].kind, "rollback") /\ UNCHANGED guard
        \/ ~Installing(j) /\ Becomes(j, "none", "idle") /\ Returns(j) /\ releasing' \in Nat
    BY <1>8, Failed DEF CheckFails
  <2> QED BY <2>1, GuardKept, GuardDropped
<1>9. ASSUME NEW j \in Jobs, CheckPasses(j) PROVE GuardInv'
  <2>1. Becomes(j, "none", "idle") /\ releasing' \in Nat /\ UNCHANGED inFlight
    BY <1>9, Returned DEF CheckPasses
  <2>2. Returns(j)
    BY <1>9 DEF CheckPasses
  <2> QED BY <2>1, <2>2, GuardDropped
<1>10. ASSUME NEW j \in Jobs, Repoint(j) PROVE GuardInv'
  <2>1. Becomes(j, "none", "idle") /\ releasing' \in Nat /\ UNCHANGED inFlight
    BY <1>10, Returned DEF Repoint
  <2>2. Returns(j)
    BY <1>10 DEF Repoint
  <2> QED BY <2>1, <2>2, GuardDropped
<1>11. ASSUME NEW j \in Jobs, RepointFails(j) PROVE GuardInv'
  <2>1. Becomes(j, job[j].kind, "wipe_stamp")
    BY <1>11, Rewiped DEF RepointFails
  <2>2. UNCHANGED guard
    BY <1>11 DEF RepointFails
  <2> QED BY <2>1, <2>2, GuardKept
<1>12. ASSUME NEW j \in Jobs, CheckFindsStale(j) PROVE GuardInv'
  <2>1. Becomes(j, job[j].kind, "mkdir")
    BY <1>12, Went DEF CheckFindsStale, PCs, Working
  <2>2. UNCHANGED guard
    BY <1>12 DEF CheckFindsStale
  <2> QED BY <2>1, <2>2, GuardKept
<1>13. ASSUME NEW j \in Jobs, MakeDir(j) PROVE GuardInv'
  <2>1. Becomes(j, job[j].kind, "uv")
    BY <1>13, Went DEF MakeDir, PCs, Working
  <2>2. UNCHANGED guard
    BY <1>13 DEF MakeDir
  <2> QED BY <2>1, <2>2, GuardKept
<1>14. ASSUME NEW j \in Jobs, UvStarts(j) PROVE GuardInv'
  <2>1. Becomes(j, job[j].kind, "uv_running")
    BY <1>14, Went DEF UvStarts, PCs, Working
  <2>2. UNCHANGED guard
    BY <1>14 DEF UvStarts
  <2> QED BY <2>1, <2>2, GuardKept
<1>15. ASSUME NEW j \in Jobs, UvRefuses(j) PROVE GuardInv'
  <2>1. \/ Installing(j) /\ Becomes(j, job[j].kind, "rollback") /\ UNCHANGED guard
        \/ ~Installing(j) /\ Becomes(j, "none", "idle") /\ Returns(j) /\ releasing' \in Nat
    BY <1>15, Failed DEF UvRefuses
  <2> QED BY <2>1, GuardKept, GuardDropped
<1>16. ASSUME NEW j \in Jobs, UvEnds(j) PROVE GuardInv'
  <2>1. Becomes(j, job[j].kind, "stamp")
    BY <1>16, Went DEF UvEnds, PCs, Working
  <2>2. UNCHANGED guard
    BY <1>16 DEF UvEnds
  <2> QED BY <2>1, <2>2, GuardKept
<1>17. ASSUME NEW j \in Jobs, UvFails(j) PROVE GuardInv'
  <2>1. \/ Installing(j) /\ Becomes(j, job[j].kind, "rollback") /\ UNCHANGED guard
        \/ ~Installing(j) /\ Becomes(j, "none", "idle") /\ Returns(j) /\ releasing' \in Nat
    BY <1>17, Failed DEF UvFails
  <2> QED BY <2>1, GuardKept, GuardDropped
<1>18. ASSUME NEW j \in Jobs, WriteStamp(j) PROVE GuardInv'
  <2>1. Becomes(j, "none", "idle") /\ releasing' \in Nat /\ UNCHANGED inFlight
    BY <1>18, Returned DEF WriteStamp
  <2>2. Returns(j)
    BY <1>18 DEF WriteStamp
  <2> QED BY <2>1, <2>2, GuardDropped
<1>19. ASSUME NEW j \in Jobs, StampFails(j) PROVE GuardInv'
  <2>1. \/ Installing(j) /\ Becomes(j, job[j].kind, "rollback") /\ UNCHANGED guard
        \/ ~Installing(j) /\ Becomes(j, "none", "idle") /\ Returns(j) /\ releasing' \in Nat
    BY <1>19, Failed DEF StampFails
  <2> QED BY <2>1, GuardKept, GuardDropped
<1>20. ASSUME NEW j \in Jobs, WipeStamp(j) PROVE GuardInv'
  <2>1. Becomes(j, job[j].kind, "wipe_venv")
    BY <1>20, Went DEF WipeStamp, PCs, Working
  <2>2. UNCHANGED guard
    BY <1>20 DEF WipeStamp
  <2> QED BY <2>1, <2>2, GuardKept
<1>21. ASSUME NEW j \in Jobs, WipeVenv(j) PROVE GuardInv'
  <2>1. Becomes(j, job[j].kind, "wiping")
    BY <1>21, Went DEF WipeVenv, PCs, Working
  <2>2. UNCHANGED guard
    BY <1>21 DEF WipeVenv
  <2> QED BY <2>1, <2>2, GuardKept
<1>22. ASSUME NEW j \in Jobs, WipedVenv(j) PROVE GuardInv'
  <2>1. Becomes(j, job[j].kind, "mkdir") \/ Becomes(j, job[j].kind, "check")
    BY <1>22, Wiped DEF WipedVenv
  <2>2. UNCHANGED guard
    BY <1>22 DEF WipedVenv
  <2> QED BY <2>1, <2>2, GuardKept
<1>23. ASSUME NEW j \in Jobs, Place(j) PROVE GuardInv'
  <2>1. Becomes(j, job[j].kind, "check")
    BY <1>23, Went DEF Place, PCs
  <2>2. UNCHANGED guard
    BY <1>23 DEF Place
  <2> QED BY <2>1, <2>2, GuardKept
<1>24. ASSUME NEW j \in Jobs, PlaceFails(j) PROVE GuardInv'
  <2>1. Becomes(j, "none", "idle") /\ releasing' \in Nat /\ UNCHANGED inFlight
    BY <1>24, Returned DEF PlaceFails
  <2>2. Returns(j)
    BY <1>24 DEF PlaceFails
  <2> QED BY <2>1, <2>2, GuardDropped
<1>25. ASSUME NEW j \in Jobs, UpdateRemoves(j) PROVE GuardInv'
  <2>1. Becomes(j, job[j].kind, "place")
    BY <1>25, Went DEF UpdateRemoves, PCs, Working
  <2>2. UNCHANGED guard
    BY <1>25 DEF UpdateRemoves
  <2> QED BY <2>1, <2>2, GuardKept
<1>26. ASSUME NEW j \in Jobs, RollBack(j) PROVE GuardInv'
  <2>1. Becomes(j, "none", "idle") /\ releasing' \in Nat /\ UNCHANGED inFlight
    BY <1>26, Returned DEF RollBack
  <2>2. Returns(j)
    BY <1>26 DEF RollBack
  <2> QED BY <2>1, <2>2, GuardDropped
<1>27. ASSUME NEW j \in Jobs, DeleteRemoves(j) PROVE GuardInv'
  <2>1. Becomes(j, "none", "idle") /\ releasing' \in Nat /\ UNCHANGED inFlight
    BY <1>27, Returned DEF DeleteRemoves
  <2>2. Returns(j)
    BY <1>27 DEF DeleteRemoves
  <2> QED BY <2>1, <2>2, GuardDropped
<1>28. ASSUME NEW j \in Jobs, Activate(j) PROVE GuardInv'
  <2>1. Becomes(j, "none", "idle") /\ releasing' \in Nat /\ UNCHANGED inFlight
    BY <1>28, Returned DEF Activate
  <2>2. Returns(j)
    BY <1>28 DEF Activate
  <2> QED BY <2>1, <2>2, GuardDropped
<1>29. ASSUME NEW j \in Jobs, OrphanEnds(j) PROVE GuardInv'
  <2>1. Becomes(j, "none", "idle")
    BY <1>29, Idles DEF OrphanEnds
  <2>2. ~Guarded(j) /\ UNCHANGED guard
    BY <1>29 DEF OrphanEnds, At, GuardInv, Guarded
  <2> QED BY <2>1, <2>2, GuardPassed
<1>30. ASSUME Release PROVE GuardInv'
  <2>1. releasing = 1 /\ releasing' = 0 /\ ~inFlight' /\ UNCHANGED job
    BY <1>30 DEF Release, GuardInv
  <2> QED BY <2>1 DEF GuardInv, GuardedWorkAlone, Guarded
<1>31. ASSUME Restart PROVE GuardInv'
  <2>1. ~inFlight' /\ releasing' = 0
    BY <1>31 DEF Restart
  <2>2. \A j \in Jobs : ~Guarded(j)' /\ job'[j].kind = "none"
    BY <1>31, Stopped DEF Guarded
  <2> QED BY <2>1, <2>2 DEF GuardInv, GuardedWorkAlone
<1>32. CASE UNCHANGED vars
  BY <1>32 DEF vars, GuardInv, GuardedWorkAlone, Guarded, guard
<1> QED BY <1>1, <1>2, <1>3, <1>4, <1>5, <1>6, <1>7, <1>8, <1>9, <1>10, <1>11, <1>12, <1>13,
           <1>14, <1>15, <1>16, <1>17, <1>18, <1>19, <1>20, <1>21, <1>22, <1>23, <1>24, <1>25,
           <1>26, <1>27, <1>28, <1>29, <1>30, <1>31, <1>32
        DEF Next, Commands, EnsureSynced

(* Every step keeps what is on disk together. *)
LEMMA DiskStep ==
  ASSUME TypeOK, DiskInv, [Next]_vars
  PROVE  DiskInv'
<1>1. ASSUME NEW j \in Jobs, NEW force \in BOOLEAN, SyncDeps(j, force) PROVE DiskInv'
  BY <1>1 DEF SyncDeps, DiskInv, disk
<1>2. ASSUME NEW j \in Jobs, StartGame(j) PROVE DiskInv'
  BY <1>2 DEF StartGame, DiskInv, disk
<1>3. ASSUME NEW j \in Jobs, Install(j) PROVE DiskInv'
  BY <1>3 DEF Install, DiskInv, disk
<1>4. ASSUME NEW j \in Jobs, UpdateBot(j) PROVE DiskInv'
  BY <1>4 DEF UpdateBot, DiskInv, disk
<1>5. ASSUME NEW j \in Jobs, DeleteBot(j) PROVE DiskInv'
  BY <1>5 DEF DeleteBot, DiskInv, disk
<1>6. ASSUME NEW j \in Jobs, SetActive(j) PROVE DiskInv'
  BY <1>6 DEF SetActive, DiskInv, disk
<1>7. ASSUME NEW j \in Jobs, Deactivate(j) PROVE DiskInv'
  BY <1>7 DEF Deactivate, DiskInv, disk
<1>8. ASSUME NEW j \in Jobs, CheckFails(j) PROVE DiskInv'
  BY <1>8 DEF CheckFails, DiskInv, disk
<1>9. ASSUME NEW j \in Jobs, CheckPasses(j) PROVE DiskInv'
  BY <1>9 DEF CheckPasses, DiskInv, disk
<1>10. ASSUME NEW j \in Jobs, Repoint(j) PROVE DiskInv'
  BY <1>10 DEF Repoint, DiskInv
<1>11. ASSUME NEW j \in Jobs, RepointFails(j) PROVE DiskInv'
  BY <1>11 DEF RepointFails, DiskInv, disk
<1>12. ASSUME NEW j \in Jobs, CheckFindsStale(j) PROVE DiskInv'
  BY <1>12 DEF CheckFindsStale, DiskInv, disk
<1>13. ASSUME NEW j \in Jobs, MakeDir(j) PROVE DiskInv'
  BY <1>13 DEF MakeDir, DiskInv
<1>14. ASSUME NEW j \in Jobs, UvStarts(j) PROVE DiskInv'
  BY <1>14 DEF UvStarts, DiskInv
<1>15. ASSUME NEW j \in Jobs, UvRefuses(j) PROVE DiskInv'
  BY <1>15 DEF UvRefuses, DiskInv, disk
<1>16. ASSUME NEW j \in Jobs, UvEnds(j) PROVE DiskInv'
  BY <1>16 DEF UvEnds, DiskInv
<1>17. ASSUME NEW j \in Jobs, UvFails(j) PROVE DiskInv'
  BY <1>17 DEF UvFails, DiskInv
<1>18. ASSUME NEW j \in Jobs, WriteStamp(j) PROVE DiskInv'
  BY <1>18 DEF WriteStamp, DiskInv, current_signature
<1>19. ASSUME NEW j \in Jobs, StampFails(j) PROVE DiskInv'
  BY <1>19 DEF StampFails, DiskInv, disk
<1>20. ASSUME NEW j \in Jobs, WipeStamp(j) PROVE DiskInv'
  BY <1>20 DEF WipeStamp, DiskInv
<1>21. ASSUME NEW j \in Jobs, WipeVenv(j) PROVE DiskInv'
  BY <1>21 DEF WipeVenv, DiskInv
<1>22. ASSUME NEW j \in Jobs, WipedVenv(j) PROVE DiskInv'
  BY <1>22 DEF WipedVenv, DiskInv
<1>23. ASSUME NEW j \in Jobs, Place(j) PROVE DiskInv'
  BY <1>23 DEF Place, DiskInv
<1>24. ASSUME NEW j \in Jobs, PlaceFails(j) PROVE DiskInv'
  BY <1>24 DEF PlaceFails, DiskInv, disk
<1>25. ASSUME NEW j \in Jobs, UpdateRemoves(j) PROVE DiskInv'
  BY <1>25 DEF UpdateRemoves, Removes, Gone, DiskInv
<1>26. ASSUME NEW j \in Jobs, RollBack(j) PROVE DiskInv'
  BY <1>26 DEF RollBack, Removes, Gone, DiskInv
<1>27. ASSUME NEW j \in Jobs, DeleteRemoves(j) PROVE DiskInv'
  BY <1>27 DEF DeleteRemoves, Removes, Gone, DiskInv
<1>28. ASSUME NEW j \in Jobs, Activate(j) PROVE DiskInv'
  BY <1>28 DEF Activate, DiskInv, disk
<1>29. ASSUME NEW j \in Jobs, OrphanEnds(j) PROVE DiskInv'
  <2>1. CASE UNCHANGED <<bot, venv, lock>>
    BY <1>29, <2>1 DEF OrphanEnds, DiskInv
  <2>2. CASE bot = "files" /\ venv' \in {"partial", "good"} /\ lock' = TRUE /\ UNCHANGED bot
    BY <1>29, <2>2 DEF DiskInv
  <2>3. CASE bot # "files" /\ bot' = "husk" /\ venv' = "partial" /\ UNCHANGED lock
    BY <1>29, <2>3 DEF OrphanEnds, DiskInv
  <2> QED BY <1>29, <2>1, <2>2, <2>3 DEF OrphanEnds
<1>30. ASSUME Release PROVE DiskInv'
  BY <1>30 DEF Release, DiskInv, disk
<1>31. ASSUME Restart PROVE DiskInv'
  BY <1>31, Stopped DEF Restart, DiskInv
<1>32. CASE UNCHANGED vars
  BY <1>32 DEF vars, DiskInv, disk
<1> QED BY <1>1, <1>2, <1>3, <1>4, <1>5, <1>6, <1>7, <1>8, <1>9, <1>10, <1>11, <1>12, <1>13,
           <1>14, <1>15, <1>16, <1>17, <1>18, <1>19, <1>20, <1>21, <1>22, <1>23, <1>24, <1>25,
           <1>26, <1>27, <1>28, <1>29, <1>30, <1>31, <1>32
        DEF Next, Commands, EnsureSynced

(* Every step keeps what an undisturbed job relies on. *)
LEMMA BuildStep ==
  ASSUME TypeOK, DiskInv, BuildInv, [Next]_vars
  PROVE  BuildInv'
<1>1. ASSUME NEW j \in Jobs, NEW force \in BOOLEAN, SyncDeps(j, force) PROVE BuildInv'
  <2>1. \E at \in {"wipe_stamp", "check"} : Becomes(j, "sync", at) /\ commands' \in 0..MaxCommands
    BY <1>1, Began DEF SyncDeps, PCs, Working, Kinds
  <2> QED BY <1>1, <2>1 DEF SyncDeps, Begin, Acquire, Becomes, TypeOK, DiskInv, BuildInv, Syncing,
             Fresh, current_signature, Touches, Alone, AtWork, Working, At, is_synced, disk,
             bounds, guard
<1>2. ASSUME NEW j \in Jobs, StartGame(j) PROVE BuildInv'
  <2>1. Becomes(j, "start", "check") /\ commands' \in 0..MaxCommands
    BY <1>2, Began DEF StartGame, PCs, Kinds
  <2> QED BY <1>2, <2>1 DEF StartGame, Begin, Acquire, Becomes, TypeOK, DiskInv, BuildInv,
             Syncing, Fresh, current_signature, Touches, Alone, AtWork, Working, At, is_synced,
             disk, bounds, guard
<1>3. ASSUME NEW j \in Jobs, Install(j) PROVE BuildInv'
  <2>1. Becomes(j, "install", "place") /\ commands' \in 0..MaxCommands
    BY <1>3, Began DEF Install, PCs, Working, Kinds
  <2> QED BY <1>3, <2>1 DEF Install, Begin, Becomes, TypeOK, DiskInv, BuildInv, Syncing, Fresh,
             current_signature, Touches, Alone, AtWork, Working, At, is_synced, disk, bounds,
             guard
<1>4. ASSUME NEW j \in Jobs, UpdateBot(j) PROVE BuildInv'
  <2>1. Becomes(j, "update", "remove") /\ commands' \in 0..MaxCommands
    BY <1>4, Began DEF UpdateBot, PCs, Working, Kinds
  <2> QED BY <1>4, <2>1 DEF UpdateBot, Begin, Becomes, TypeOK, DiskInv, BuildInv, Syncing, Fresh,
             current_signature, Touches, Alone, AtWork, Working, At, is_synced, disk, bounds,
             guard
<1>5. ASSUME NEW j \in Jobs, DeleteBot(j) PROVE BuildInv'
  <2>1. Becomes(j, "delete", "delete") /\ commands' \in 0..MaxCommands
    BY <1>5, Began DEF DeleteBot, PCs, Working, Kinds
  <2> QED BY <1>5, <2>1 DEF DeleteBot, Begin, Becomes, TypeOK, DiskInv, BuildInv, Syncing, Fresh,
             current_signature, Touches, Alone, AtWork, Working, At, is_synced, disk, bounds,
             guard
<1>6. ASSUME NEW j \in Jobs, SetActive(j) PROVE BuildInv'
  <2>1. Becomes(j, "activate", "activate") /\ commands' \in 0..MaxCommands
    BY <1>6, Began DEF SetActive, PCs, Kinds
  <2> QED BY <1>6, <2>1 DEF SetActive, Begin, Becomes, TypeOK, DiskInv, BuildInv, Syncing, Fresh,
             current_signature, Touches, Alone, AtWork, Working, At, is_synced, disk, bounds,
             guard
<1>7. ASSUME NEW j \in Jobs, Deactivate(j) PROVE BuildInv'
  <2>1. Becomes(j, "none", "idle") /\ commands' \in 0..MaxCommands
    BY <1>7, Began DEF Deactivate, PCs, Kinds
  <2> QED BY <1>7, <2>1 DEF Deactivate, Begin, Becomes, TypeOK, DiskInv, BuildInv, Syncing, Fresh,
             current_signature, Touches, Alone, AtWork, Working, At, is_synced, disk, bounds,
             guard
<1>8. ASSUME NEW j \in Jobs, CheckFails(j) PROVE BuildInv'
  <2>1. \/ Installing(j) /\ Becomes(j, job[j].kind, "rollback") /\ UNCHANGED guard
        \/ ~Installing(j) /\ Becomes(j, "none", "idle") /\ Returns(j) /\ releasing' \in Nat
    BY <1>8, Failed DEF CheckFails
  <2> QED BY <1>8, <2>1 DEF CheckFails, Becomes, TypeOK, DiskInv, BuildInv, Syncing, Fresh,
             current_signature, Touches, Alone, AtWork, Working, At, is_synced, disk, bounds,
             guard
<1>9. ASSUME NEW j \in Jobs, CheckPasses(j) PROVE BuildInv'
  <2>1. Becomes(j, "none", "idle") /\ releasing' \in Nat /\ UNCHANGED inFlight
    BY <1>9, Returned DEF CheckPasses
  <2> QED BY <1>9, <2>1 DEF CheckPasses, Becomes, TypeOK, DiskInv, BuildInv, Syncing, Fresh,
             current_signature, Touches, Alone, AtWork, Working, At, is_synced, disk, bounds,
             guard
<1>10. ASSUME NEW j \in Jobs, Repoint(j) PROVE BuildInv'
  <2>1. Becomes(j, "none", "idle") /\ releasing' \in Nat /\ UNCHANGED inFlight
    BY <1>10, Returned DEF Repoint
  <2> QED BY <1>10, <2>1 DEF Repoint, Becomes, TypeOK, DiskInv, BuildInv, Syncing, Fresh,
             current_signature, Touches, Alone, AtWork, Working, At, is_synced, disk, bounds,
             guard
<1>11. ASSUME NEW j \in Jobs, RepointFails(j) PROVE BuildInv'
  <2>1. Becomes(j, job[j].kind, "wipe_stamp")
    BY <1>11, Rewiped DEF RepointFails
  <2> QED BY <1>11, <2>1 DEF RepointFails, Becomes, TypeOK, DiskInv, BuildInv, Syncing, Fresh,
             current_signature, Touches, Alone, AtWork, Working, At, is_synced, disk, bounds,
             guard
<1>12. ASSUME NEW j \in Jobs, CheckFindsStale(j) PROVE BuildInv'
  <2>1. Becomes(j, job[j].kind, "mkdir")
    BY <1>12, Went DEF CheckFindsStale, PCs, Working
  <2> QED BY <1>12, <2>1 DEF CheckFindsStale, Becomes, TypeOK, DiskInv, BuildInv, Syncing, Fresh,
             current_signature, Touches, Alone, AtWork, Working, At, is_synced, disk, bounds,
             guard
<1>13. ASSUME NEW j \in Jobs, MakeDir(j) PROVE BuildInv'
  <2>1. Becomes(j, job[j].kind, "uv")
    BY <1>13, Went DEF MakeDir, PCs, Working
  <2> QED BY <1>13, <2>1 DEF MakeDir, Becomes, TypeOK, DiskInv, BuildInv, Syncing, Fresh,
             current_signature, Touches, Alone, AtWork, Working, At, is_synced, disk, bounds,
             guard
<1>14. ASSUME NEW j \in Jobs, UvStarts(j) PROVE BuildInv'
  <2>1. Becomes(j, job[j].kind, "uv_running")
    BY <1>14, Went DEF UvStarts, PCs, Working
  <2> QED BY <1>14, <2>1 DEF UvStarts, Becomes, TypeOK, DiskInv, BuildInv, Syncing, Fresh,
             current_signature, Touches, Alone, AtWork, Working, At, is_synced, disk, bounds,
             guard
<1>15. ASSUME NEW j \in Jobs, UvRefuses(j) PROVE BuildInv'
  <2>1. \/ Installing(j) /\ Becomes(j, job[j].kind, "rollback") /\ UNCHANGED guard
        \/ ~Installing(j) /\ Becomes(j, "none", "idle") /\ Returns(j) /\ releasing' \in Nat
    BY <1>15, Failed DEF UvRefuses
  <2> QED BY <1>15, <2>1 DEF UvRefuses, Becomes, TypeOK, DiskInv, BuildInv, Syncing, Fresh,
             current_signature, Touches, Alone, AtWork, Working, At, is_synced, disk, bounds,
             guard
<1>16. ASSUME NEW j \in Jobs, UvEnds(j) PROVE BuildInv'
  <2>1. Becomes(j, job[j].kind, "stamp")
    BY <1>16, Went DEF UvEnds, PCs, Working
  <2> QED BY <1>16, <2>1 DEF UvEnds, Becomes, TypeOK, DiskInv, BuildInv, Syncing, Fresh,
             current_signature, Touches, Alone, AtWork, Working, At, is_synced, disk, bounds,
             guard
<1>17. ASSUME NEW j \in Jobs, UvFails(j) PROVE BuildInv'
  <2>1. \/ Installing(j) /\ Becomes(j, job[j].kind, "rollback") /\ UNCHANGED guard
        \/ ~Installing(j) /\ Becomes(j, "none", "idle") /\ Returns(j) /\ releasing' \in Nat
    BY <1>17, Failed DEF UvFails
  <2> QED BY <1>17, <2>1 DEF UvFails, Becomes, TypeOK, DiskInv, BuildInv, Syncing, Fresh,
             current_signature, Touches, Alone, AtWork, Working, At, is_synced, disk, bounds,
             guard
<1>18. ASSUME NEW j \in Jobs, WriteStamp(j) PROVE BuildInv'
  <2>1. Becomes(j, "none", "idle") /\ releasing' \in Nat /\ UNCHANGED inFlight
    BY <1>18, Returned DEF WriteStamp
  <2> QED BY <1>18, <2>1 DEF WriteStamp, Becomes, TypeOK, DiskInv, BuildInv, Syncing, Fresh,
             current_signature, Touches, Alone, AtWork, Working, At, is_synced, disk, bounds,
             guard
<1>19. ASSUME NEW j \in Jobs, StampFails(j) PROVE BuildInv'
  <2>1. \/ Installing(j) /\ Becomes(j, job[j].kind, "rollback") /\ UNCHANGED guard
        \/ ~Installing(j) /\ Becomes(j, "none", "idle") /\ Returns(j) /\ releasing' \in Nat
    BY <1>19, Failed DEF StampFails
  <2> QED BY <1>19, <2>1 DEF StampFails, Becomes, TypeOK, DiskInv, BuildInv, Syncing, Fresh,
             current_signature, Touches, Alone, AtWork, Working, At, is_synced, disk, bounds,
             guard
<1>20. ASSUME NEW j \in Jobs, WipeStamp(j) PROVE BuildInv'
  <2>1. Becomes(j, job[j].kind, "wipe_venv")
    BY <1>20, Went DEF WipeStamp, PCs, Working
  <2> QED BY <1>20, <2>1 DEF WipeStamp, Becomes, TypeOK, DiskInv, BuildInv, Syncing, Fresh,
             current_signature, Touches, Alone, AtWork, Working, At, is_synced, disk, bounds,
             guard
<1>21. ASSUME NEW j \in Jobs, WipeVenv(j) PROVE BuildInv'
  <2>1. Becomes(j, job[j].kind, "wiping")
    BY <1>21, Went DEF WipeVenv, PCs, Working
  <2> QED BY <1>21, <2>1 DEF WipeVenv, Becomes, TypeOK, DiskInv, BuildInv, Syncing, Fresh,
             current_signature, Touches, Alone, AtWork, Working, At, is_synced, disk, bounds,
             guard
<1>22. ASSUME NEW j \in Jobs, WipedVenv(j) PROVE BuildInv'
  <2>1. Becomes(j, job[j].kind, "mkdir") \/ Becomes(j, job[j].kind, "check")
    BY <1>22, Wiped DEF WipedVenv
  <2> QED BY <1>22, <2>1 DEF WipedVenv, Becomes, TypeOK, DiskInv, BuildInv, Syncing, Fresh,
             current_signature, Touches, Alone, AtWork, Working, At, is_synced, disk, bounds,
             guard
<1>23. ASSUME NEW j \in Jobs, Place(j) PROVE BuildInv'
  <2>1. Becomes(j, job[j].kind, "check")
    BY <1>23, Went DEF Place, PCs
  <2> QED BY <1>23, <2>1 DEF Place, Becomes, TypeOK, DiskInv, BuildInv, Syncing, Fresh,
             current_signature, Touches, Alone, AtWork, Working, At, is_synced, disk, bounds,
             guard
<1>24. ASSUME NEW j \in Jobs, PlaceFails(j) PROVE BuildInv'
  <2>1. Becomes(j, "none", "idle") /\ releasing' \in Nat /\ UNCHANGED inFlight
    BY <1>24, Returned DEF PlaceFails
  <2> QED BY <1>24, <2>1 DEF PlaceFails, Becomes, TypeOK, DiskInv, BuildInv, Syncing, Fresh,
             current_signature, Touches, Alone, AtWork, Working, At, is_synced, disk, bounds,
             guard
<1>25. ASSUME NEW j \in Jobs, UpdateRemoves(j) PROVE BuildInv'
  <2>1. Becomes(j, job[j].kind, "place")
    BY <1>25, Went DEF UpdateRemoves, PCs, Working
  <2> QED BY <1>25, <2>1 DEF UpdateRemoves, Removes, Gone, Becomes, TypeOK, DiskInv, BuildInv,
             Syncing, Fresh, current_signature, Touches, Alone, AtWork, Working, At, is_synced,
             disk, bounds, guard
<1>26. ASSUME NEW j \in Jobs, RollBack(j) PROVE BuildInv'
  <2>1. Becomes(j, "none", "idle") /\ releasing' \in Nat /\ UNCHANGED inFlight
    BY <1>26, Returned DEF RollBack
  <2> QED BY <1>26, <2>1 DEF RollBack, Removes, Gone, Becomes, TypeOK, DiskInv, BuildInv, Syncing,
             Fresh, current_signature, Touches, Alone, AtWork, Working, At, is_synced, disk,
             bounds, guard
<1>27. ASSUME NEW j \in Jobs, DeleteRemoves(j) PROVE BuildInv'
  <2>1. Becomes(j, "none", "idle") /\ releasing' \in Nat /\ UNCHANGED inFlight
    BY <1>27, Returned DEF DeleteRemoves
  <2> QED BY <1>27, <2>1 DEF DeleteRemoves, Removes, Gone, Becomes, TypeOK, DiskInv, BuildInv,
             Syncing, Fresh, current_signature, Touches, Alone, AtWork, Working, At, is_synced,
             disk, bounds, guard
<1>28. ASSUME NEW j \in Jobs, Activate(j) PROVE BuildInv'
  <2>1. Becomes(j, "none", "idle") /\ releasing' \in Nat /\ UNCHANGED inFlight
    BY <1>28, Returned DEF Activate
  <2> QED BY <1>28, <2>1 DEF Activate, Becomes, TypeOK, DiskInv, BuildInv, Syncing, Fresh,
             current_signature, Touches, Alone, AtWork, Working, At, is_synced, disk, bounds,
             guard
<1>29. ASSUME NEW j \in Jobs, OrphanEnds(j) PROVE BuildInv'
  <2>1. Becomes(j, "none", "idle")
    BY <1>29, Idles DEF OrphanEnds
  <2> QED BY <1>29, <2>1 DEF OrphanEnds, Becomes, TypeOK, DiskInv, BuildInv, Syncing, Fresh,
             current_signature, Touches, Alone, AtWork, Working, At, is_synced, disk, bounds,
             guard
<1>30. ASSUME Release PROVE BuildInv'
  BY <1>30 DEF Release, BuildInv, Syncing, Fresh, current_signature, disk
<1>31. ASSUME Restart PROVE BuildInv'
  BY <1>31, Stopped DEF Restart, BuildInv, Syncing, Fresh, current_signature
<1>32. CASE UNCHANGED vars
  BY <1>32 DEF vars, BuildInv, Syncing, Fresh, current_signature, disk
<1> QED BY <1>1, <1>2, <1>3, <1>4, <1>5, <1>6, <1>7, <1>8, <1>9, <1>10, <1>11, <1>12, <1>13,
           <1>14, <1>15, <1>16, <1>17, <1>18, <1>19, <1>20, <1>21, <1>22, <1>23, <1>24, <1>25,
           <1>26, <1>27, <1>28, <1>29, <1>30, <1>31, <1>32
        DEF Next, Commands, EnsureSynced

(* Every step keeps a bot in use ready, or notes why not. *)
LEMMA StartStep ==
  ASSUME TypeOK, GuardInv, DiskInv, BuildInv, StartInv, [Next]_vars
  PROVE  StartInv'
<1>1. ASSUME NEW j \in Jobs, NEW force \in BOOLEAN, SyncDeps(j, force) PROVE StartInv'
  <2>1. \E at \in {"wipe_stamp", "check"} : Becomes(j, "sync", at) /\ commands' \in 0..MaxCommands
    BY <1>1, Began DEF SyncDeps, PCs, Working, Kinds
  <2> QED BY <1>1, <2>1 DEF SyncDeps, Begin, Acquire, Becomes, TypeOK, DiskInv, BuildInv,
             StartInv, InUse, Syncing, Fresh, current_signature, Touches, WipesIt, Alone, AtWork,
             Working, At, is_synced, needs_out_of_band_resync, disk, bounds, guard
<1>2. ASSUME NEW j \in Jobs, StartGame(j) PROVE StartInv'
  <2>1. Becomes(j, "start", "check") /\ commands' \in 0..MaxCommands
    BY <1>2, Began DEF StartGame, PCs, Kinds
  <2> QED BY <1>2, <2>1 DEF StartGame, Begin, Acquire, Becomes, TypeOK, DiskInv, BuildInv,
             StartInv, InUse, Syncing, Fresh, current_signature, Touches, WipesIt, Alone, AtWork,
             Working, At, is_synced, needs_out_of_band_resync, disk, bounds, guard
<1>3. ASSUME NEW j \in Jobs, Install(j) PROVE StartInv'
  <2>1. Becomes(j, "install", "place") /\ commands' \in 0..MaxCommands
    BY <1>3, Began DEF Install, PCs, Working, Kinds
  <2> QED BY <1>3, <2>1 DEF Install, Begin, Becomes, TypeOK, DiskInv, BuildInv, StartInv, InUse,
             Syncing, Fresh, current_signature, Touches, WipesIt, Alone, AtWork, Working, At,
             is_synced, needs_out_of_band_resync, disk, bounds, guard
<1>4. ASSUME NEW j \in Jobs, UpdateBot(j) PROVE StartInv'
  <2>1. Becomes(j, "update", "remove") /\ commands' \in 0..MaxCommands
    BY <1>4, Began DEF UpdateBot, PCs, Working, Kinds
  <2> QED BY <1>4, <2>1 DEF UpdateBot, Begin, Becomes, TypeOK, DiskInv, BuildInv, StartInv, InUse,
             Syncing, Fresh, current_signature, Touches, WipesIt, Alone, AtWork, Working, At,
             is_synced, needs_out_of_band_resync, disk, bounds, guard
<1>5. ASSUME NEW j \in Jobs, DeleteBot(j) PROVE StartInv'
  <2>1. Becomes(j, "delete", "delete") /\ commands' \in 0..MaxCommands
    BY <1>5, Began DEF DeleteBot, PCs, Working, Kinds
  <2> QED BY <1>5, <2>1 DEF DeleteBot, Begin, Becomes, TypeOK, DiskInv, BuildInv, StartInv, InUse,
             Syncing, Fresh, current_signature, Touches, WipesIt, Alone, AtWork, Working, At,
             is_synced, needs_out_of_band_resync, disk, bounds, guard
<1>6. ASSUME NEW j \in Jobs, SetActive(j) PROVE StartInv'
  <2>1. Becomes(j, "activate", "activate") /\ commands' \in 0..MaxCommands
    BY <1>6, Began DEF SetActive, PCs, Kinds
  <2> QED BY <1>6, <2>1 DEF SetActive, Begin, Becomes, TypeOK, DiskInv, BuildInv, StartInv, InUse,
             Syncing, Fresh, current_signature, Touches, WipesIt, Alone, AtWork, Working, At,
             is_synced, needs_out_of_band_resync, disk, bounds, guard
<1>7. ASSUME NEW j \in Jobs, Deactivate(j) PROVE StartInv'
  <2>1. Becomes(j, "none", "idle") /\ commands' \in 0..MaxCommands
    BY <1>7, Began DEF Deactivate, PCs, Kinds
  <2> QED BY <1>7, <2>1 DEF Deactivate, Begin, Becomes, TypeOK, DiskInv, BuildInv, StartInv,
             InUse, Syncing, Fresh, current_signature, Touches, WipesIt, Alone, AtWork, Working,
             At, is_synced, needs_out_of_band_resync, disk, bounds, guard
<1>8. ASSUME NEW j \in Jobs, CheckFails(j) PROVE StartInv'
  <2>1. \/ Installing(j) /\ Becomes(j, job[j].kind, "rollback") /\ UNCHANGED guard
        \/ ~Installing(j) /\ Becomes(j, "none", "idle") /\ Returns(j) /\ releasing' \in Nat
    BY <1>8, Failed DEF CheckFails
  <2> QED BY <1>8, <2>1 DEF CheckFails, Becomes, TypeOK, DiskInv, BuildInv, StartInv, InUse,
             Syncing, Fresh, current_signature, Touches, WipesIt, Alone, AtWork, Working, At,
             is_synced, needs_out_of_band_resync, disk, bounds, guard
<1>9. ASSUME NEW j \in Jobs, CheckPasses(j) PROVE StartInv'
  <2>1. Becomes(j, "none", "idle") /\ releasing' \in Nat /\ UNCHANGED inFlight
    BY <1>9, Returned DEF CheckPasses
  <2> QED BY <1>9, <2>1 DEF CheckPasses, Becomes, TypeOK, DiskInv, BuildInv, StartInv, InUse,
             Syncing, Fresh, current_signature, Touches, WipesIt, Alone, AtWork, Working, At,
             is_synced, needs_out_of_band_resync, disk, bounds, guard
<1>10. ASSUME NEW j \in Jobs, Repoint(j) PROVE StartInv'
  <2>1. Becomes(j, "none", "idle") /\ releasing' \in Nat /\ UNCHANGED inFlight
    BY <1>10, Returned DEF Repoint
  <2> QED BY <1>10, <2>1 DEF Repoint, Becomes, TypeOK, DiskInv, BuildInv, StartInv, InUse,
             Syncing, Fresh, current_signature, Touches, WipesIt, Alone, AtWork, Working, At,
             is_synced, needs_out_of_band_resync, disk, bounds, guard
<1>11. ASSUME NEW j \in Jobs, RepointFails(j) PROVE StartInv'
  <2>1. Becomes(j, job[j].kind, "wipe_stamp")
    BY <1>11, Rewiped DEF RepointFails
  <2>2. moved /\ job[j].pc = "check" /\ Fresh /\ UNCHANGED <<disk, guard, bounds, active, mixed, broken>>
    BY <1>11 DEF RepointFails, At
  <2>3. ~(job[j].kind = "start" /\ platform = "windows")
    BY <2>2 DEF StartInv
  <2>4. InUse' => InUse
    BY <2>1, <2>2 DEF InUse, Becomes
  <2>5. Fresh' /\ stamp # "none"
    BY <2>2 DEF Fresh, current_signature, disk
  <2>6. \A k \in Jobs : Syncing(k)' => Syncing(k) /\ job'[k].kind = job[k].kind
    BY <2>1 DEF Becomes, Syncing
  <2> QED BY <2>1, <2>2, <2>3, <2>4, <2>5, <2>6 DEF StartInv, Becomes, disk, bounds
<1>12. ASSUME NEW j \in Jobs, CheckFindsStale(j) PROVE StartInv'
  <2>1. Becomes(j, job[j].kind, "mkdir")
    BY <1>12, Went DEF CheckFindsStale, PCs, Working
  <2> QED BY <1>12, <2>1 DEF CheckFindsStale, Becomes, TypeOK, DiskInv, BuildInv, StartInv, InUse,
             Syncing, Fresh, current_signature, Touches, WipesIt, Alone, AtWork, Working, At,
             is_synced, needs_out_of_band_resync, disk, bounds, guard
<1>13. ASSUME NEW j \in Jobs, MakeDir(j) PROVE StartInv'
  <2>1. Becomes(j, job[j].kind, "uv")
    BY <1>13, Went DEF MakeDir, PCs, Working
  <2> QED BY <1>13, <2>1 DEF MakeDir, Becomes, TypeOK, DiskInv, BuildInv, StartInv, InUse,
             Syncing, Fresh, current_signature, Touches, WipesIt, Alone, AtWork, Working, At,
             is_synced, needs_out_of_band_resync, disk, bounds, guard
<1>14. ASSUME NEW j \in Jobs, UvStarts(j) PROVE StartInv'
  <2>1. Becomes(j, job[j].kind, "uv_running")
    BY <1>14, Went DEF UvStarts, PCs, Working
  <2> QED BY <1>14, <2>1 DEF UvStarts, Becomes, TypeOK, DiskInv, BuildInv, StartInv, InUse,
             Syncing, Fresh, current_signature, Touches, WipesIt, Alone, AtWork, Working, At,
             is_synced, needs_out_of_band_resync, disk, bounds, guard
<1>15. ASSUME NEW j \in Jobs, UvRefuses(j) PROVE StartInv'
  <2>1. \/ Installing(j) /\ Becomes(j, job[j].kind, "rollback") /\ UNCHANGED guard
        \/ ~Installing(j) /\ Becomes(j, "none", "idle") /\ Returns(j) /\ releasing' \in Nat
    BY <1>15, Failed DEF UvRefuses
  <2> QED BY <1>15, <2>1 DEF UvRefuses, Becomes, TypeOK, DiskInv, BuildInv, StartInv, InUse,
             Syncing, Fresh, current_signature, Touches, WipesIt, Alone, AtWork, Working, At,
             is_synced, needs_out_of_band_resync, disk, bounds, guard
<1>16. ASSUME NEW j \in Jobs, UvEnds(j) PROVE StartInv'
  <2>1. Becomes(j, job[j].kind, "stamp")
    BY <1>16, Went DEF UvEnds, PCs, Working
  <2> QED BY <1>16, <2>1 DEF UvEnds, Becomes, TypeOK, DiskInv, BuildInv, StartInv, InUse, Syncing,
             Fresh, current_signature, Touches, WipesIt, Alone, AtWork, Working, At, is_synced,
             needs_out_of_band_resync, disk, bounds, guard
<1>17. ASSUME NEW j \in Jobs, UvFails(j) PROVE StartInv'
  <2>1. \/ Installing(j) /\ Becomes(j, job[j].kind, "rollback") /\ UNCHANGED guard
        \/ ~Installing(j) /\ Becomes(j, "none", "idle") /\ Returns(j) /\ releasing' \in Nat
    BY <1>17, Failed DEF UvFails
  <2> QED BY <1>17, <2>1 DEF UvFails, Becomes, TypeOK, DiskInv, BuildInv, StartInv, InUse,
             Syncing, Fresh, current_signature, Touches, WipesIt, Alone, AtWork, Working, At,
             is_synced, needs_out_of_band_resync, disk, bounds, guard
<1>18. ASSUME NEW j \in Jobs, WriteStamp(j) PROVE StartInv'
  <2>1. Becomes(j, "none", "idle") /\ releasing' \in Nat /\ UNCHANGED inFlight
    BY <1>18, Returned DEF WriteStamp
  <2> QED BY <1>18, <2>1 DEF WriteStamp, Becomes, TypeOK, DiskInv, BuildInv, StartInv, InUse,
             Syncing, Fresh, current_signature, Touches, WipesIt, Alone, AtWork, Working, At,
             is_synced, needs_out_of_band_resync, disk, bounds, guard
<1>19. ASSUME NEW j \in Jobs, StampFails(j) PROVE StartInv'
  <2>1. \/ Installing(j) /\ Becomes(j, job[j].kind, "rollback") /\ UNCHANGED guard
        \/ ~Installing(j) /\ Becomes(j, "none", "idle") /\ Returns(j) /\ releasing' \in Nat
    BY <1>19, Failed DEF StampFails
  <2> QED BY <1>19, <2>1 DEF StampFails, Becomes, TypeOK, DiskInv, BuildInv, StartInv, InUse,
             Syncing, Fresh, current_signature, Touches, WipesIt, Alone, AtWork, Working, At,
             is_synced, needs_out_of_band_resync, disk, bounds, guard
<1>20. ASSUME NEW j \in Jobs, WipeStamp(j) PROVE StartInv'
  <2>1. Becomes(j, job[j].kind, "wipe_venv")
    BY <1>20, Went DEF WipeStamp, PCs, Working
  <2> QED BY <1>20, <2>1 DEF WipeStamp, Becomes, TypeOK, DiskInv, BuildInv, StartInv, InUse,
             Syncing, Fresh, current_signature, Touches, WipesIt, Alone, AtWork, Working, At,
             is_synced, needs_out_of_band_resync, disk, bounds, guard
<1>21. ASSUME NEW j \in Jobs, WipeVenv(j) PROVE StartInv'
  <2>1. Becomes(j, job[j].kind, "wiping")
    BY <1>21, Went DEF WipeVenv, PCs, Working
  <2> QED BY <1>21, <2>1 DEF WipeVenv, Becomes, TypeOK, DiskInv, BuildInv, StartInv, InUse,
             Syncing, Fresh, current_signature, Touches, WipesIt, Alone, AtWork, Working, At,
             is_synced, needs_out_of_band_resync, disk, bounds, guard
<1>22. ASSUME NEW j \in Jobs, WipedVenv(j) PROVE StartInv'
  <2>1. Becomes(j, job[j].kind, "mkdir") \/ Becomes(j, job[j].kind, "check")
    BY <1>22, Wiped DEF WipedVenv
  <2> QED BY <1>22, <2>1 DEF WipedVenv, Becomes, TypeOK, DiskInv, BuildInv, StartInv, InUse,
             Syncing, Fresh, current_signature, Touches, WipesIt, Alone, AtWork, Working, At,
             is_synced, needs_out_of_band_resync, disk, bounds, guard
<1>23. ASSUME NEW j \in Jobs, Place(j) PROVE StartInv'
  <2>1. Becomes(j, job[j].kind, "check")
    BY <1>23, Went DEF Place, PCs
  <2> QED BY <1>23, <2>1 DEF Place, Becomes, TypeOK, DiskInv, BuildInv, StartInv, InUse, Syncing,
             Fresh, current_signature, Touches, WipesIt, Alone, AtWork, Working, At, is_synced,
             needs_out_of_band_resync, disk, bounds, guard
<1>24. ASSUME NEW j \in Jobs, PlaceFails(j) PROVE StartInv'
  <2>1. Becomes(j, "none", "idle") /\ releasing' \in Nat /\ UNCHANGED inFlight
    BY <1>24, Returned DEF PlaceFails
  <2> QED BY <1>24, <2>1 DEF PlaceFails, Becomes, TypeOK, DiskInv, BuildInv, StartInv, InUse,
             Syncing, Fresh, current_signature, Touches, WipesIt, Alone, AtWork, Working, At,
             is_synced, needs_out_of_band_resync, disk, bounds, guard
<1>25. ASSUME NEW j \in Jobs, UpdateRemoves(j) PROVE StartInv'
  <2>1. Becomes(j, job[j].kind, "place")
    BY <1>25, Went DEF UpdateRemoves, PCs, Working
  <2> QED BY <1>25, <2>1 DEF UpdateRemoves, Removes, Gone, Becomes, TypeOK, DiskInv, BuildInv,
             StartInv, InUse, Syncing, Fresh, current_signature, Touches, WipesIt, Alone, AtWork,
             Working, At, is_synced, needs_out_of_band_resync, disk, bounds, guard
<1>26. ASSUME NEW j \in Jobs, RollBack(j) PROVE StartInv'
  <2>1. Becomes(j, "none", "idle") /\ releasing' \in Nat /\ UNCHANGED inFlight
    BY <1>26, Returned DEF RollBack
  <2> QED BY <1>26, <2>1 DEF RollBack, Removes, Gone, Becomes, TypeOK, DiskInv, BuildInv,
             StartInv, InUse, Syncing, Fresh, current_signature, Touches, WipesIt, Alone, AtWork,
             Working, At, is_synced, needs_out_of_band_resync, disk, bounds, guard
<1>27. ASSUME NEW j \in Jobs, DeleteRemoves(j) PROVE StartInv'
  <2>1. Becomes(j, "none", "idle") /\ releasing' \in Nat /\ UNCHANGED inFlight
    BY <1>27, Returned DEF DeleteRemoves
  <2> QED BY <1>27, <2>1 DEF DeleteRemoves, Removes, Gone, Becomes, TypeOK, DiskInv, BuildInv,
             StartInv, InUse, Syncing, Fresh, current_signature, Touches, WipesIt, Alone, AtWork,
             Working, At, is_synced, needs_out_of_band_resync, disk, bounds, guard
<1>28. ASSUME NEW j \in Jobs, Activate(j) PROVE StartInv'
  <2>1. Becomes(j, "none", "idle") /\ releasing' \in Nat /\ UNCHANGED inFlight
    BY <1>28, Returned DEF Activate
  <2> QED BY <1>28, <2>1 DEF Activate, Becomes, TypeOK, DiskInv, BuildInv, StartInv, InUse,
             Syncing, Fresh, current_signature, Touches, WipesIt, Alone, AtWork, Working, At,
             is_synced, needs_out_of_band_resync, disk, bounds, guard
<1>29. ASSUME NEW j \in Jobs, OrphanEnds(j) PROVE StartInv'
  <2>1. Becomes(j, "none", "idle")
    BY <1>29, Idles DEF OrphanEnds
  <2> QED BY <1>29, <2>1 DEF OrphanEnds, Becomes, TypeOK, DiskInv, BuildInv, StartInv, InUse,
             Syncing, Fresh, current_signature, Touches, WipesIt, Alone, AtWork, Working, At,
             is_synced, needs_out_of_band_resync, disk, bounds, guard
<1>30. ASSUME Release PROVE StartInv'
  BY <1>30 DEF Release, StartInv, InUse, Syncing, Fresh, current_signature, disk, bounds
<1>31. ASSUME Restart PROVE StartInv'
  <2>1. ~InUse' \/ active'
    BY <1>31, Stopped DEF InUse
  <2> QED BY <1>31, <2>1, Stopped DEF Restart, StartInv, InUse, Fresh, current_signature
<1>32. CASE UNCHANGED vars
  BY <1>32 DEF vars, StartInv, InUse, Syncing, Fresh, current_signature, disk, bounds
<1> QED BY <1>1, <1>2, <1>3, <1>4, <1>5, <1>6, <1>7, <1>8, <1>9, <1>10, <1>11, <1>12, <1>13,
           <1>14, <1>15, <1>16, <1>17, <1>18, <1>19, <1>20, <1>21, <1>22, <1>23, <1>24, <1>25,
           <1>26, <1>27, <1>28, <1>29, <1>30, <1>31, <1>32
        DEF Next, Commands, EnsureSynced

-----------------------------------------------------------------------------
(* The strengthened invariant holds in every state.                          *)
LEMMA Invariant == Spec => []IInv
<1>1. Init => IInv
  <2> SUFFICES ASSUME Init PROVE IInv
    OBVIOUS
  <2>1. \A j \in Jobs : job[j] = Idle /\ Idle.kind = "none" /\ Idle.pc = "idle"
    BY DEF Init, Idle
  <2>2. TypeOK
    <3>1. job \in [Jobs -> JobType]
      BY DEF Init, Idle, JobType, Kinds, PCs
    <3>2. {moved, lock, active, inFlight, mixed, broken} \subseteq BOOLEAN
      BY DEF Init
    <3>3. commands = MaxCommands /\ restarts = MaxRestarts
      BY DEF Init
    <3>4. commands \in 0..MaxCommands /\ restarts \in 0..MaxRestarts
      BY <3>3, BoundsAssumption
    <3> QED BY <3>1, <3>2, <3>4 DEF Init, TypeOK, JobType, Kinds, PCs
  <2>3. GuardInv
    BY <2>1 DEF Init, GuardInv, GuardedWorkAlone, Guarded
  <2>4. DiskInv
    BY DEF Init, DiskInv
  <2>5. BuildInv
    BY <2>1 DEF Init, BuildInv, Fresh
  <2>6. StartInv
    BY <2>1 DEF Init, StartInv, InUse
  <2> QED BY <2>2, <2>3, <2>4, <2>5, <2>6 DEF IInv
<1>2. IInv /\ [Next]_vars => IInv'
  BY TypeStep, GuardStep, DiskStep, BuildStep, StartStep DEF IInv
<1> QED BY <1>1, <1>2, PTL DEF Spec

(* Every variable of the environment keeps its type.                         *)
THEOREM TypeSafety == Spec => []TypeOK
<1>1. IInv => TypeOK
  BY DEF IInv
<1> QED BY <1>1, Invariant, PTL

(* sync_guard.rs: of the reinstalls and game starts one at a time works.      *)
THEOREM OneGuardedJob == Spec => []GuardedWorkAlone
<1>1. IInv => GuardedWorkAlone
  BY DEF IInv, GuardInv
<1> QED BY <1>1, Invariant, PTL

(* runtime.rs: what is_synced calls ready was built by a sync that ended well,*)
(* wherever the program stopped before, unless two jobs met in it.           *)
THEOREM ReadySafety == Spec => []ReadyMeansBuilt
<1>1. IInv => ReadyMeansBuilt
  BY DEF IInv, BuildInv, ReadyMeansBuilt, is_synced
<1> QED BY <1>1, Invariant, PTL

(* manager.rs: a game start syncs inline only if the environment was broken  *)
(* or disturbed since it was found ready.                                    *)
THEOREM StartSafety == Spec => []StartDoesNotSync
<1>1. IInv => StartDoesNotSync
  BY DEF IInv, StartInv, Syncing, StartDoesNotSync
<1> QED BY <1>1, Invariant, PTL

(* ---- the built-in bot (NativeBot) ---- *)

Notes == [bad : BOOLEAN, by : {"runner", "setup", "probe"}, game : Nat]

(* What append and the settings' toasts make of the queue.                   *)
LEMMA QueueLemma ==
  ASSUME NEW q \in Seq(Notes), NEW n \in Notes
  PROVE  /\ Append(q, n) \in Seq(Notes) /\ q \o <<n>> = Append(q, n) /\ q \o <<>> = q
         /\ Append(q, n) # <<>> /\ Append(q, n)[Len(Append(q, n))] = n
<1>1. Append(q, n) \in Seq(Notes) /\ Len(Append(q, n)) = Len(q) + 1 /\ Len(q) \in Nat
  OBVIOUS
<1>2. Append(q, n)[Len(q) + 1] = n /\ Append(q, n) # <<>>
  OBVIOUS
<1>3. q \o <<n>> = Append(q, n)
  OBVIOUS
<1>4. q \o <<>> = q
  OBVIOUS
<1>. QED
  BY <1>1, <1>2, <1>3, <1>4

(* Taking the first of the queue keeps its last, or empties it.              *)
LEMMA TakeLemma ==
  ASSUME NEW q \in Seq(Notes), q # <<>>
  PROVE  /\ Head(q) \in Notes /\ Tail(q) \in Seq(Notes)
         /\ Tail(q) = <<>> => Head(q) = q[Len(q)]
         /\ Tail(q) # <<>> => Tail(q)[Len(Tail(q))] = q[Len(q)]
<1>1. Head(q) \in Notes /\ Tail(q) \in Seq(Notes) /\ Len(Tail(q)) = Len(q) - 1
      /\ Len(q) \in Nat /\ Len(q) >= 1 /\ Head(q) = q[1]
  OBVIOUS
<1>2. ASSUME Tail(q) = <<>>
      PROVE  Head(q) = q[Len(q)]
  BY <1>1, <1>2
<1>3. ASSUME Tail(q) # <<>>
      PROVE  Tail(q)[Len(Tail(q))] = q[Len(q)]
  <2>1. Len(Tail(q)) >= 1
    BY <1>1, <1>3
  <2>2. \A i \in 1..Len(Tail(q)) : Tail(q)[i] = q[i + 1]
    BY <1>1
  <2>. QED
    BY <1>1, <2>1, <2>2
<1>. QED
  BY <1>1, <1>2, <1>3

-----------------------------------------------------------------------------
(* What the proofs need of the types.                                       *)
Typed ==
  /\ cfg \in Settings \cup {Off, Unfit} /\ session \in Settings \cup {Off}
  /\ healthy \in BOOLEAN /\ owed \in BOOLEAN /\ lost \in BOOLEAN
  /\ generation \in Nat /\ retry_generation \in 0..generation
  /\ request \in {"idle", "ask", "follow"}
  /\ started \in Nat /\ game \in 0..started
  /\ toasts \in Seq(Notes) /\ shown \in [bad : BOOLEAN, by : {"none", "runner", "setup", "probe"}, game : Nat]

(* A retry not seen to by a request closes the window when the next choice  *)
(* is made, and it stays closed until a request is made.                    *)
RetryInv ==
  /\ owed /\ generation = retry_generation => wait = 0 /\ request = "idle"
  /\ ~lost

(* The toast that the front end will show last.                             *)
Latest == IF toasts = <<>> THEN shown ELSE toasts[Len(toasts)]

(* An outage that it leaves on display is one of an earlier game, or one    *)
(* that the runner knows of; and no toast is of a game to come.             *)
ToastInv ==
  /\ shown.game <= game /\ \A i \in DOMAIN toasts : toasts[i].game <= game
  /\ Latest.bad /\ Latest.game = game =>
       /\ Latest.by = "runner" => ~healthy
       /\ Latest.by = "setup" => session = Off

NativeIInv == Typed /\ RetryInv /\ ToastInv

(* A toast more: it is the latest, and of this game.                        *)
LEMMA ToastAdded ==
  ASSUME Typed, ToastInv, NEW n \in Notes, n.game = game, toasts' = Append(toasts, n),
         UNCHANGED <<shown, game>>,
         n.bad => (n.by = "runner" => ~healthy') /\ (n.by = "setup" => session' = Off)
  PROVE  ToastInv' /\ toasts' \in Seq(Notes)
<1>1. toasts \in Seq(Notes) /\ Len(toasts) \in Nat
  BY DEF Typed
<1>2. toasts' \in Seq(Notes) /\ toasts' # <<>> /\ toasts'[Len(toasts')] = n
  BY <1>1, QueueLemma
<1>3. Latest' = n
  BY <1>2 DEF Latest
<1>4. \A i \in DOMAIN toasts' : toasts'[i].game <= game'
  <2>. SUFFICES ASSUME NEW i \in DOMAIN toasts'
                PROVE  toasts'[i].game <= game
    OBVIOUS
  <2>1. (i \in DOMAIN toasts /\ toasts'[i] = toasts[i]) \/ toasts'[i] = n
    BY <1>1
  <2>. QED
    BY <2>1 DEF ToastInv, Typed
<1>. QED
  BY <1>2, <1>3, <1>4 DEF ToastInv

(* No toast, and what the latest says still holds.                          *)
LEMMA ToastKept ==
  ASSUME ToastInv, UNCHANGED <<toasts, shown, game>>,
         healthy' => healthy, session = Off => session' = Off
  PROVE  ToastInv'
<1>1. Latest' = Latest
  BY DEF Latest
<1>. QED
  BY <1>1 DEF ToastInv

(* apply_api_config tells the front end what it does to the session.        *)
LEMMA ToastApplied ==
  ASSUME Typed, ToastInv, session' = Applied.session, toasts' = toasts \o Applied.notes,
         healthy' = Configured.healthy, UNCHANGED <<shown, game>>
  PROVE  /\ ToastInv' /\ toasts' \in Seq(Notes)
         /\ session' \in Settings \cup {Off} /\ healthy' \in BOOLEAN
<1>. USE DEF Typed
<1>1. Applied.session \in Settings \cup {Off} /\ Applied.reset \in BOOLEAN
      /\ (Applied.session = Off => ~Applied.reset \/ Applied.notes = <<Note(FALSE, "setup")>>)
  BY SettingsAssumption DEF Applied, Off, Unfit
<1>2. Note(FALSE, "setup") \in Notes /\ Note(TRUE, "setup") \in Notes
      /\ Note(FALSE, "setup").game = game /\ Note(TRUE, "setup").game = game
      /\ ~Note(FALSE, "setup").bad /\ Note(TRUE, "setup").by = "setup"
  BY DEF Note, Notes
<1>3. healthy' = (Applied.reset \/ healthy)
  BY DEF Configured
<1>4. \/ Applied.notes = <<>> /\ ~Applied.reset /\ Applied.session = session
      \/ Applied.notes = <<Note(FALSE, "setup")>>
      \/ Applied.notes = <<Note(TRUE, "setup")>> /\ Applied.session = Off
  <2>1. CASE cfg = Off
    <3>1. Applied = [session |-> Off, reset |-> session # Off,
                     notes |-> IF session # Off THEN <<Note(FALSE, "setup")>> ELSE <<>>]
      BY <2>1 DEF Applied, Off, Unfit
    <3>2. CASE session = Off
      BY <3>1, <3>2
    <3>3. CASE session # Off
      BY <3>1, <3>3
    <3>. QED
      BY <3>2, <3>3
  <2>2. CASE cfg # Off /\ cfg = Unfit
    BY <2>2 DEF Applied
  <2>3. CASE cfg # Off /\ cfg # Unfit
    BY <2>3 DEF Applied
  <2>. QED
    BY <2>1, <2>2, <2>3
<1>5. CASE Applied.notes = <<>> /\ ~Applied.reset /\ Applied.session = session
  <2>1. toasts' = toasts
    BY <1>5, QueueLemma
  <2>. QED
    BY <1>1, <1>3, <1>5, <2>1, ToastKept
<1>6. CASE Applied.notes = <<Note(FALSE, "setup")>>
  <2>1. toasts' = Append(toasts, Note(FALSE, "setup"))
    BY <1>2, <1>6, QueueLemma
  <2>. QED
    BY <1>1, <1>2, <1>3, <2>1, ToastAdded
<1>7. CASE Applied.notes = <<Note(TRUE, "setup")>> /\ Applied.session = Off
  <2>1. toasts' = Append(toasts, Note(TRUE, "setup"))
    BY <1>2, <1>7, QueueLemma
  <2>. QED
    BY <1>1, <1>2, <1>3, <1>7, <2>1, ToastAdded
<1>. QED
  BY <1>4, <1>5, <1>6, <1>7

LEMMA Inductive == NativeIInv /\ [NativeNext]_nativeVars => NativeIInv'
<1>. SUFFICES ASSUME NativeIInv, [NativeNext]_nativeVars
              PROVE  NativeIInv'
  OBVIOUS
<1>. USE DEF NativeIInv
<1>0. Typed /\ RetryInv /\ ToastInv
  OBVIOUS
<1>1. ASSUME NEW c \in Settings \cup {Off, Unfit}, Configure(c)
      PROVE  NativeIInv'
  <2>1. ToastInv'
    BY <1>0, <1>1, ToastKept DEF Configure, breaker, front, games
  <2>. QED
    BY <1>0, <1>1, <2>1 DEF Configure, server, breaker, retry, games, front, Typed, RetryInv
<1>2. CASE GoesDown \/ ComesUp
  <2>1. UNCHANGED <<user, session, breaker, retry, request, games, toasts, front, owed, lost>>
    BY <1>2 DEF GoesDown, ComesUp
  <2>2. ToastInv'
    BY <1>0, <2>1, ToastKept DEF breaker, front, games
  <2>. QED
    BY <1>0, <2>1, <2>2 DEF user, breaker, retry, games, front, Typed, RetryInv
<1>3. CASE Tick
  <2>1. ToastInv'
    BY <1>0, <1>3, ToastKept DEF Tick, front, games
  <2>. QED
    BY <1>0, <1>3, <2>1 DEF Tick, user, server, retry, games, front, Typed, RetryInv
<1>4. CASE RetryNow
  <2>1. ToastInv'
    BY <1>0, <1>4, ToastKept DEF RetryNow, breaker, games, front
  <2>. QED
    BY <1>0, <1>4, <2>1 DEF RetryNow, user, server, breaker, games, front, Typed, RetryInv
<1>5. ASSUME NEW ok \in BOOLEAN, ProbeEnds(ok)
      PROVE  NativeIInv'
  <2>1. Note(~ok, "probe") \in Notes /\ Note(~ok, "probe").game = game
        /\ Note(~ok, "probe").by = "probe"
    BY <1>0 DEF Note, Notes, Typed
  <2>2. ToastInv' /\ toasts' \in Seq(Notes)
    BY <1>0, <1>5, <2>1, ToastAdded DEF ProbeEnds, front, games
  <2>. QED
    BY <1>0, <1>5, <2>2 DEF ProbeEnds, user, server, breaker, games, front, Typed, RetryInv
<1>6. CASE NothingToDecide
  <2>1. healthy' = Configured.healthy /\ wait' = Configured.wait
    BY <1>6 DEF NothingToDecide, TakesBreaker
  <2>2. /\ ToastInv' /\ toasts' \in Seq(Notes)
        /\ session' \in Settings \cup {Off} /\ healthy' \in BOOLEAN
    BY <1>0, <1>6, <2>1, ToastApplied DEF NothingToDecide, games, front
  <2>3. wait = 0 => wait' = 0
    BY <2>1 DEF Configured
  <2>. QED
    BY <1>0, <1>6, <2>2, <2>3 DEF NothingToDecide, user, retry, games, front, Typed, RetryInv
<1>7. ASSUME NEW forced \in BOOLEAN, Decides(forced)
      PROVE  /\ Typed' <=> owed' \in BOOLEAN /\ lost' \in BOOLEAN /\ request' \in {"idle", "ask", "follow"}
             /\ ToastInv' /\ request = "idle" /\ retry_generation' = generation'
             /\ owed => wait' = 0
  <2>1. healthy' = Configured.healthy
        /\ wait' = (IF generation = retry_generation THEN Configured.wait ELSE 0)
    BY <1>7 DEF Decides, TakesBreaker, Retried, Configured
  <2>2. /\ ToastInv' /\ toasts' \in Seq(Notes)
        /\ session' \in Settings \cup {Off} /\ healthy' \in BOOLEAN
    BY <1>0, <1>7, <2>1, ToastApplied DEF Decides, games, front
  <2>3. owed => wait' = 0
    BY <1>0, <2>1 DEF RetryInv, Configured
  <2>. QED
    BY <1>0, <1>7, <2>2, <2>3 DEF Decides, Called, user, games, front, Typed
<1>8. ASSUME NEW forced \in BOOLEAN, AnswersLocally(forced)
      PROVE  NativeIInv'
  <2>1. UNCHANGED <<request, owed>> /\ request = "idle" /\ ToastInv' /\ (owed => wait' = 0)
    BY <1>7, <1>8 DEF AnswersLocally
  <2>2. lost' = FALSE
    BY <1>0, <1>8, <2>1 DEF AnswersLocally, UseApi, RetryInv
  <2>. QED
    BY <1>0, <1>7, <1>8, <2>1, <2>2 DEF AnswersLocally, Typed, RetryInv
<1>9. CASE Asks
  BY <1>0, <1>7, <1>9 DEF Asks, Typed, RetryInv
<1>10. ASSUME NEW ok \in BOOLEAN, Recorded(ok), UNCHANGED <<session, games, front>>
       PROVE  ToastInv' /\ toasts' \in Seq(Notes) /\ healthy' \in BOOLEAN
  <2>1. Note(~ok, "runner") \in Notes /\ Note(~ok, "runner").game = game
        /\ Note(~ok, "runner").by = "runner" /\ Note(~ok, "runner").bad = ~ok
    BY <1>0 DEF Note, Notes, Typed
  <2>2. CASE ok /\ healthy
    BY <1>0, <1>10, <2>2, ToastKept DEF Recorded, games, front, Typed
  <2>3. CASE ~(ok /\ healthy)
    BY <1>0, <1>10, <2>1, <2>3, ToastAdded DEF Recorded, games, front
  <2>. QED
    BY <2>2, <2>3
<1>11. ASSUME NEW next \in {"idle", "follow"}, request # "idle", Succeeds(next)
       PROVE  NativeIInv'
  BY <1>0, <1>10, <1>11 DEF Succeeds, user, retry, games, front, Typed, RetryInv
<1>12. ASSUME request # "idle", RequestFails
       PROVE  NativeIInv'
  BY <1>0, <1>10, <1>12 DEF RequestFails, user, retry, games, front, Typed, RetryInv
<1>13. CASE GameStarts
  <2>1. ToastInv'
    BY <1>0, <1>13, ToastKept DEF GameStarts, breaker
  <2>. QED
    BY <1>0, <1>13, <2>1 DEF GameStarts, user, breaker, retry, Typed, RetryInv
<1>14. CASE Build
  <2>1. game' = started /\ game < started /\ UNCHANGED <<toasts, shown>>
    BY <1>14 DEF Build, front
  <2>2. Latest' = Latest /\ Latest.game <= game
    BY <1>0, <2>1 DEF Latest, ToastInv, Typed
  <2>3. ToastInv'
    <3>1. \A i \in DOMAIN toasts : toasts[i].game \in Nat
      <4>1. \A i \in DOMAIN toasts : toasts[i] \in Notes
        BY <1>0 DEF Typed
      <4>. QED
        BY <4>1 DEF Notes
    <3>2. game \in Nat /\ started \in Nat /\ shown.game \in Nat /\ Latest.game \in Nat
      BY <1>0, <3>1 DEF Typed, Latest
    <3>. QED
      BY <1>0, <2>1, <2>2, <3>1, <3>2 DEF ToastInv
  <2>. QED
    BY <1>0, <1>14, <2>3 DEF Build, user, front, Typed, RetryInv
<1>15. CASE ShowStart
  <2>1. shown' = Fine /\ ~Fine.bad /\ Fine.game = 0 /\ UNCHANGED <<toasts, game, session, healthy>>
    BY <1>15 DEF ShowStart, Fine, games, breaker
  <2>2. ToastInv'
    BY <1>0, <2>1 DEF ToastInv, Latest, Typed
  <2>. QED
    BY <1>0, <1>15, <2>1, <2>2 DEF ShowStart, Fine, user, breaker, retry, games, Typed, RetryInv
<1>16. CASE ShowToast
  <2>1. toasts # <<>> /\ toasts' = Tail(toasts) /\ shown' = Head(toasts)
        /\ UNCHANGED <<game, session, healthy>>
    BY <1>16 DEF ShowToast, games, breaker
  <2>2. toasts \in Seq(Notes) /\ Head(toasts) \in Notes /\ toasts' \in Seq(Notes)
    BY <1>0, <2>1, TakeLemma DEF Typed
  <2>3. Latest' = Latest
    BY <2>1, <2>2, TakeLemma DEF Latest
  <2>4. Head(toasts).game <= game /\ \A i \in DOMAIN toasts' : toasts'[i].game <= game
    BY <1>0, <2>1, <2>2 DEF ToastInv
  <2>5. ToastInv'
    BY <1>0, <2>1, <2>3, <2>4 DEF ToastInv
  <2>. QED
    BY <1>0, <1>16, <2>1, <2>2, <2>5
       DEF ShowToast, user, server, breaker, retry, games, Notes, Typed, RetryInv
<1>17. CASE UNCHANGED nativeVars
  <2>1. ToastInv'
    BY <1>0, <1>17, ToastKept DEF nativeVars, breaker, front, games
  <2>. QED
    BY <1>0, <1>17, <2>1 DEF nativeVars, user, breaker, retry, games, front, Typed, RetryInv
<1>. QED
  BY <1>1, <1>2, <1>3, <1>4, <1>5, <1>6, <1>8, <1>9, <1>11, <1>12, <1>13, <1>14, <1>15, <1>16,
     <1>17 DEF NativeNext, Answers, FollowUp

LEMMA Initial == NativeInit => NativeIInv
<1>. SUFFICES ASSUME NativeInit
              PROVE  NativeIInv
  OBVIOUS
<1>1. shown = Fine /\ ~shown.bad /\ shown.game = 0 /\ toasts = <<>> /\ DOMAIN toasts = {}
  BY DEF NativeInit, Fine
<1>2. Typed
  <2>1. shown \in [bad : BOOLEAN, by : {"none", "runner", "setup", "probe"}, game : Nat]
    BY <1>1 DEF Fine
  <2>2. toasts \in Seq(Notes)
    BY <1>1
  <2>. QED
    <3>1. cfg \in Settings \cup {Off, Unfit} /\ session \in Settings \cup {Off}
          /\ healthy \in BOOLEAN /\ owed \in BOOLEAN /\ lost \in BOOLEAN
      BY DEF NativeInit
    <3>2. generation \in Nat /\ retry_generation \in 0..generation
          /\ request \in {"idle", "ask", "follow"} /\ started \in Nat /\ game \in 0..started
      BY DEF NativeInit
    <3>. QED
      BY <2>1, <2>2, <3>1, <3>2 DEF Typed
<1>. QED
  BY <1>1, <1>2 DEF NativeInit, NativeIInv, RetryInv, ToastInv, Latest

(* A retry asked for by hand is not lost, however it falls between the      *)
(* requests, the failures and the changes of the settings: no choice is     *)
(* made without the server before a request to it was made.                 *)
THEOREM RetrySafety == NativeSpec => []RetryIsHonoured
<1>1. NativeIInv => RetryIsHonoured
  BY DEF NativeIInv, RetryInv, RetryIsHonoured
<1>. QED
  BY <1>1, Initial, Inductive, PTL DEF NativeSpec

(* What the indicator shows of this game's runner, once the front end has   *)
(* caught up, the runner knows of.                                          *)
THEOREM OutageSafety == NativeSpec => []OutageShownIsKnown
<1>1. NativeIInv => OutageShownIsKnown
  BY DEF NativeIInv, ToastInv, Latest, OutageShownIsKnown
<1>. QED
  BY <1>1, Initial, Inductive, PTL DEF NativeSpec
=============================================================================
