----------------------------- MODULE ConfigSaves -----------------------------
(***************************************************************************)
(* The configuration in its four places: config.toml, AppState.config, the   *)
(* front end's configStore, and what runs by it (the capture backend, the     *)
(* bot manager).  Commands of src/src/ipc/commands.rs change it, called by    *)
(* the pages of src/frontend/src/routes and by stores; each runs beside the  *)
(* others.  A section is one value of the configuration.                     *)
(***************************************************************************)
EXTENDS Naturals, Sequences

CONSTANTS Calls, Changeable,
          MaxCrashes           \* bound: times the program stops

(* The sections in the order of the file.                                    *)
Order == <<"bot", "active", "api", "capture", "overlay">>
Sections == {Order[k] : k \in DOMAIN Order}
Configs == [Sections -> BOOLEAN]
Default == [s \in Sections |-> FALSE]

ASSUME ChangeableAssumption == Changeable \subseteq Sections /\ MaxCrashes \in Nat

VARIABLES
  file,       \* what load_config makes of config.toml
  memory,     \* AppState.config
  store,      \* configStore of the front end
  events,     \* overlay-config events on their way to the front end
  call,       \* the calls of the front end, by the step they are at
  running,    \* the capture settings the backend was last started with
  restarts,   \* restart tasks that update_config has spawned
  managerStarted,   \* bot_manager_started
  starting,   \* managers that are being set up, by who spawned them
  managers,   \* managers that run
  wanted,     \* history: what the user was last told is saved, per section
  unsure,     \* history: sections whose last command was told to have failed
  savesCrossed, crossed,   \* history: two saves, or two calls, at the same time
  crashes

backendVars == <<running, restarts, managerStarted, starting, managers>>
historyVars == <<wanted, unsure, savesCrossed, crossed>>
vars == <<file, memory, store, events, call, backendVars, historyVars, crashes>>

NoCall == [kind |-> "none", section |-> "bot", value |-> FALSE, cfg |-> Default,
           pc |-> "idle", changed |-> FALSE]

Init ==
  /\ file = Default /\ memory = file /\ store = file /\ events = <<>>
  /\ call = [c \in Calls |-> NoCall]
  /\ running = FALSE /\ restarts = 0 /\ managers = 0
  /\ managerStarted = FALSE /\ starting = <<>>
  /\ wanted = file /\ unsure = {} /\ savesCrossed = FALSE /\ crossed = FALSE
  /\ crashes = 0

(* ---- the front end calls ---- *)

Ended == {"idle", "done"}
Busy == {c \in Calls : call[c].pc \notin Ended}
Begin(c, kind, s, value, cfg, pc) ==
  /\ call[c].pc = "idle"
  /\ call' = [call EXCEPT ![c] = [kind |-> kind, section |-> s, value |-> value,
                                  cfg |-> cfg, pc |-> pc, changed |-> FALSE]]
  /\ crossed' = (crossed \/ Busy # {} \/ events # <<>>)
  /\ savesCrossed' = (savesCrossed \/ (kind = "save" /\ \E b \in Busy : call[b].kind = "save"))
  /\ UNCHANGED <<file, memory, events, backendVars, wanted, unsure, crashes>>

(* A page, or the purchase store, saves the whole configuration with one     *)
(* section changed.                                                          *)
Save(c, s) ==
  /\ s \in Changeable \ {"active"}
  /\ Begin(c, "save", s, ~store[s], [store EXCEPT ![s] = ~@], "persist") /\ UNCHANGED store
(* A switch of the Bots page.                                                *)
SetActive(c) ==
  /\ "active" \in Changeable /\ store' = [store EXCEPT !["active"] = ~@]
  /\ Begin(c, "active", "active", ~store["active"], Default, "lock")
(* The button of the Game page.                                              *)
ToggleOverlay(c) ==
  /\ "overlay" \in Changeable /\ store' = [store EXCEPT !["overlay"] = ~@]
  /\ Begin(c, "overlay", "overlay", ~store["overlay"], Default, "set")

(* What is left of a file while it is written.                               *)
Torn(cfg, n) == [s \in Sections |-> IF \E k \in 1..n : Order[k] = s THEN cfg[s] ELSE Default[s]]
(* A write that fails before the file is opened, or in the middle.           *)
WriteFails(c, cfg) ==
  \/ UNCHANGED <<file, wanted>> /\ unsure' = unsure \cup
                                  (IF call[c].kind = "save" THEN {} ELSE {call[c].section})
  \/ /\ \E n \in 0..Len(Order) - 1 : file' = Torn(cfg, n)
     /\ unsure' = Sections /\ UNCHANGED wanted
Goes(c, pc) ==
  call' = [call EXCEPT ![c] = [(IF pc = "done" THEN NoCall ELSE @) EXCEPT !.pc = pc]]
(* A command answers Ok: what it wrote besides its section counts where      *)
(* nothing was sure.                                                         *)
Acknowledged(c, cfg) ==
  /\ wanted' = [s \in Sections |-> IF s = call[c].section THEN call[c].value
                                   ELSE IF s \in unsure THEN cfg[s] ELSE wanted[s]]
  /\ unsure' = {}
OverlayEvent(c) == events' = Append(events, call[c].cfg["overlay"])

(* ---- update_config ---- *)

Persist(c) ==
  /\ call[c].kind = "save" /\ call[c].pc = "persist"
  /\ \/ file' = call[c].cfg /\ Goes(c, "read") /\ UNCHANGED <<wanted, unsure>>
     \/ WriteFails(c, call[c].cfg) /\ Goes(c, "done")
  /\ UNCHANGED <<memory, store, events, backendVars, savesCrossed, crossed,
                 crashes>>

(* Mutant of CaptureChanged: the old settings are read from the file.        *)
CaptureChangedOnDisk(c) == file["capture"] # call[c].cfg["capture"]
CaptureChanged(c) == memory["capture"] # call[c].cfg["capture"]
ReadOld(c) ==
  /\ call[c].pc = "read"
  /\ call' = [call EXCEPT ![c].pc = "write", ![c].changed = CaptureChanged(c)]
  /\ UNCHANGED <<file, memory, store, events, backendVars, historyVars, crashes>>

(* claim_bot_manager_spawn.                                                  *)
Claim(enabled) == enabled /\ ~managerStarted
WriteNew(c) ==
  /\ call[c].pc = "write" /\ Goes(c, "reply")
  /\ memory' = call[c].cfg /\ OverlayEvent(c)
  /\ restarts' = IF call[c].changed THEN restarts + 1 ELSE restarts
  /\ IF Claim(call[c].cfg["bot"])
       THEN managerStarted' = TRUE /\ starting' = Append(starting, "save")
       ELSE UNCHANGED <<managerStarted, starting>>
  /\ UNCHANGED <<file, store, running, managers, historyVars, crashes>>

Reply(c) ==
  /\ call[c].kind = "save" /\ call[c].pc = "reply" /\ Goes(c, "done")
  /\ store' = call[c].cfg /\ Acknowledged(c, call[c].cfg)
  /\ UNCHANGED <<file, memory, events, backendVars, savesCrossed, crossed, crashes>>

(* ---- set_active_bot and the refresh of the page ---- *)

Activated(c) == [memory EXCEPT !["active"] = call[c].value]
(* Refused because the bot is not ready, or done under the lock; the write   *)
(* of the file may fail.                                                     *)
Lock(c) ==
  /\ call[c].pc = "lock" /\ Goes(c, "refresh")
  /\ \/ UNCHANGED <<file, memory, wanted, unsure>>
     \/ /\ memory' = Activated(c)
        /\ \/ file' = memory' /\ Acknowledged(c, memory')
           \/ WriteFails(c, Activated(c))
  /\ UNCHANGED <<store, events, backendVars, savesCrossed, crossed, crashes>>

GetConfig(c) ==
  /\ call[c].pc = "refresh"
  /\ call' = [call EXCEPT ![c].pc = "backfill", ![c].cfg = memory]
  /\ UNCHANGED <<file, memory, store, events, backendVars, historyVars, crashes>>
Backfill(c) ==
  /\ call[c].pc = "backfill" /\ Goes(c, "done") /\ store' = call[c].cfg
  /\ UNCHANGED <<file, memory, events, backendVars, historyVars, crashes>>

(* ---- set_overlay_enabled ---- *)

SetOverlay(c) ==
  /\ call[c].pc = "set" /\ memory' = [memory EXCEPT !["overlay"] = call[c].value]
  /\ call' = [call EXCEPT ![c].pc = "persist", ![c].cfg = memory']
  /\ UNCHANGED <<file, store, events, backendVars, historyVars, crashes>>
(* Mutant of PersistOverlay: the write is left to the next save.             *)
PersistOverlayLater(c) ==
  /\ call[c].kind = "overlay" /\ call[c].pc = "persist" /\ Goes(c, "reply")
  /\ OverlayEvent(c) /\ Acknowledged(c, call[c].cfg) /\ UNCHANGED <<file, store>>
  /\ UNCHANGED <<memory, backendVars, savesCrossed, crossed, crashes>>
PersistOverlay(c) ==
  /\ call[c].kind = "overlay" /\ call[c].pc = "persist"
  /\ \/ /\ file' = call[c].cfg /\ OverlayEvent(c) /\ Acknowledged(c, call[c].cfg)
        /\ Goes(c, "reply")
     \/ WriteFails(c, call[c].cfg) /\ Goes(c, "failed") /\ UNCHANGED events
  /\ UNCHANGED <<memory, store, backendVars, savesCrossed, crossed, crashes>>
OverlayReply(c) ==
  /\ call[c].kind = "overlay" /\ call[c].pc \in {"reply", "failed"} /\ Goes(c, "done")
  /\ store' = IF call[c].pc = "reply" THEN store
                ELSE [store EXCEPT !["overlay"] = ~call[c].value]
  /\ UNCHANGED <<file, memory, events, backendVars, historyVars, crashes>>

(* The event reaches the front end: setOverlay.                              *)
DeliverEvent ==
  /\ events # <<>> /\ events' = Tail(events)
  /\ store' = [store EXCEPT !["overlay"] = Head(events)]
  /\ UNCHANGED <<file, memory, call, backendVars, historyVars, crashes>>

(* ---- what runs by the configuration ---- *)

(* The restart task: the new backend reads the configuration.                *)
Restart ==
  /\ restarts > 0 /\ restarts' = restarts - 1 /\ running' = memory["capture"]
  /\ UNCHANGED <<file, memory, store, events, call, managerStarted, starting, managers,
                 historyVars, crashes>>

(* run_bot_manager is set up, or fails.                                      *)
SetUp ==
  /\ starting # <<>> /\ starting' = Tail(starting)
  /\ \/ managers' = managers + 1 /\ UNCHANGED managerStarted
     \/ /\ managerStarted' = IF Head(starting) = "save" THEN FALSE ELSE managerStarted
        /\ UNCHANGED managers
  /\ UNCHANGED <<file, memory, store, events, call, running, restarts, historyVars, crashes>>

(* ---- the program stops and starts ---- *)

Payload(c) == IF call[c].pc = "lock" THEN Activated(c) ELSE call[c].cfg
StartFrom(cfg) ==
  /\ crashes < MaxCrashes /\ crashes' = crashes + 1
  /\ file' = cfg /\ memory' = cfg /\ store' = cfg /\ events' = <<>>
  /\ call' = [c \in Calls |-> IF call[c].pc = "idle" THEN NoCall
                              ELSE [NoCall EXCEPT !.pc = "done"]]
  /\ running' = cfg["capture"] /\ restarts' = 0 /\ managers' = 0
  /\ managerStarted' = cfg["bot"] /\ starting' = IF cfg["bot"] THEN <<"boot">> ELSE <<>>
  /\ unsure' = {} /\ savesCrossed' = FALSE /\ crossed' = FALSE

(* What was under way may be saved or not; with nothing else to excuse it,   *)
(* the rest must be.                                                         *)
Crash ==
  /\ StartFrom(file)
  /\ wanted' = IF crossed THEN file ELSE
       [s \in Sections |-> IF s \in unsure \/ \E c \in Busy : call[c].section = s
                             THEN file[s] ELSE wanted[s]]
CrashInWrite(c) ==
  /\ call[c].pc \in {"persist", "lock"}
  /\ \E n \in 0..Len(Order) : StartFrom(Torn(Payload(c), n)) /\ wanted' = Torn(Payload(c), n)

Next ==
  \/ \E c \in Calls :
       \/ SetActive(c) \/ ToggleOverlay(c) \/ \E s \in Changeable : Save(c, s)
       \/ Persist(c) \/ ReadOld(c) \/ WriteNew(c) \/ Reply(c)
       \/ Lock(c) \/ GetConfig(c) \/ Backfill(c)
       \/ SetOverlay(c) \/ PersistOverlay(c) \/ OverlayReply(c) \/ CrashInWrite(c)
  \/ DeliverEvent \/ Restart \/ SetUp \/ Crash

Spec == Init /\ [][Next]_vars

(* ---- properties ---- *)

Quiet == Busy = {} /\ events = <<>> /\ restarts = 0

(* Types.                                                                    *)
TypeOK ==
  /\ {file, memory, store, wanted} \subseteq Configs /\ unsure \subseteq Sections
  /\ {running, managerStarted, savesCrossed, crossed} \subseteq BOOLEAN
  /\ restarts \in Nat /\ managers \in Nat /\ crashes \in 0..MaxCrashes

(* What a command answered to have saved is in memory, in the file and on    *)
(* the page, as long as calls came one after the other, a restart included.  *)
SavedIsKept ==
  (Quiet /\ ~crossed) =>
    \A s \in Sections \ unsure : {memory[s], file[s], store[s]} = {wanted[s]}

(* What runs is what was saved, whatever else was called but for two saves   *)
(* that crossed: the capture runs with the settings of the memory, and there *)
(* is one bot manager, crossing saves or not (src/src/ipc/state.rs:112).     *)
RunsWhatIsSaved ==
  /\ (Quiet /\ ~savesCrossed) => running = memory["capture"]
  /\ managers + Len(starting) <= 1
=============================================================================
