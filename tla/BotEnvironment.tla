---------------------------- MODULE BotEnvironment ----------------------------
(***************************************************************************)
(* The Python environment of one bot on disk, and the commands that meet in *)
(* its directory (src/src/bot/install.rs, runtime.rs, sync_guard.rs,        *)
(* ipc/commands.rs, manager.rs): install, update, delete, reinstall of the  *)
(* environment, activation, and the start of a game.  A step is what runs   *)
(* between two awaits or two operations on the file system; the program may *)
(* stop between any two, and a uv process it started goes on without it.     *)
(*                                                                         *)
(* The bot ships a pyproject.toml; without one there is nothing to sync.     *)
(* The signature a stamp holds is whether uv.lock was there: pyproject.toml  *)
(* changes only with the whole directory.                                   *)
(***************************************************************************)
EXTENDS Naturals

CONSTANTS Jobs,         \* tasks that carry out commands
          MaxCommands,  \* bound: commands over time
          MaxRestarts   \* bound: restarts of the program

ASSUME BoundsAssumption == MaxCommands \in Nat /\ MaxRestarts \in Nat

VARIABLES
  platform,       \* "unix", or "windows" where a venv cannot be repointed
  bot,            \* the directory: "absent", "husk" (no bot.py in it) or "files"
  venv,           \* "none", "partial" or "good"
  moved,          \* the interpreter the venv names is not where it was
  lock, stamp,    \* uv.lock exists; the signature in synced.stamp or "none"
  active,         \* the configuration names this bot
  inFlight,       \* its name is in syncs_in_flight
  releasing,      \* tasks spawned to remove the name
  job,            \* command and step of each task
  commands, restarts,
  \* history
  mixed,          \* two jobs worked in the directory since it was last blank
  broken          \* wiped, removed or beyond repointing since last found ready

disk == <<bot, venv, moved, lock, stamp>>
guard == <<inFlight, releasing>>
bounds == <<platform, commands, restarts>>
vars == <<disk, guard, bounds, active, job, mixed, broken>>

Idle == [kind |-> "none", pc |-> "idle", checked |-> FALSE]

Init ==
  /\ platform \in {"unix", "windows"}
  /\ bot = "absent" /\ venv = "none" /\ moved = FALSE /\ lock = FALSE /\ stamp = "none"
  /\ active = FALSE /\ inFlight = FALSE /\ releasing = 0
  /\ job = [j \in Jobs |-> Idle] /\ commands = MaxCommands /\ restarts = MaxRestarts
  /\ mixed = FALSE /\ broken = FALSE

At(j, pc) == job[j].pc = pc
Goes(j, pc) == job' = [job EXCEPT ![j].pc = pc]
Guarded(j) == job[j].kind \in {"sync", "start"}
Installing(j) == job[j].kind \in {"install", "update"}

Working == {"wipe_stamp", "wipe_venv", "wiping", "mkdir", "uv", "uv_running", "stamp",
            "remove", "place", "rollback", "delete", "orphan"}
AtWork(j) == job[j].pc \in Working
Alone(j) == \A k \in Jobs \ {j} : ~AtWork(k)
Touches(j) == mixed' = (mixed \/ ~Alone(j))

current_signature == IF lock THEN "lock" ELSE "no lock"
Fresh == venv # "none" /\ stamp = current_signature
needs_out_of_band_resync == venv # "none" /\ moved /\ platform = "windows"
is_synced == bot = "files" /\ Fresh /\ ~needs_out_of_band_resync

Gone == bot' = "absent" /\ venv' = "none" /\ moved' = FALSE /\ lock' = FALSE /\ stamp' = "none"

(* ---- commands ---- *)
Begin(j, kind, pc) ==
  /\ At(j, "idle") /\ commands > 0
  /\ commands' = commands - 1
  /\ job' = [job EXCEPT ![j] = [kind |-> kind, pc |-> pc, checked |-> FALSE]]
  /\ UNCHANGED <<platform, restarts>>

(* Mutant of Acquire: the guard is not kept (`let _ = ...`).                 *)
AcquireAndDrop == ~inFlight /\ inFlight' = TRUE /\ releasing' = releasing + 1

(* SyncGuard::acquire, which refuses a name that is in flight.               *)
Acquire == ~inFlight /\ inFlight' = TRUE /\ UNCHANGED releasing

(* sync_bot_deps; `force` wipes first.                                       *)
SyncDeps(j, force) ==
  /\ bot = "files" /\ Acquire
  /\ Begin(j, "sync", IF force THEN "wipe_stamp" ELSE "check")
  /\ UNCHANGED <<disk, active, mixed, broken>>

(* Mutant of StartGame: an environment only a full sync can repair is not    *)
(* told from the others.                                                     *)
StartGameAnyway(j) ==
  /\ active /\ bot = "files" /\ Acquire
  /\ Begin(j, "start", "check")
  /\ UNCHANGED <<disk, active, mixed, broken>>

(* spawn_runner, up to ensure_synced.                                        *)
StartGame(j) ==
  /\ active /\ bot = "files" /\ ~needs_out_of_band_resync /\ Acquire
  /\ Begin(j, "start", "check")
  /\ UNCHANGED <<disk, active, mixed, broken>>

(* The installer, up to the downloaded archive.                              *)
Install(j) ==
  /\ bot = "absent" /\ Begin(j, "install", "place")
  /\ UNCHANGED <<disk, guard, active, mixed, broken>>

UpdateBot(j) ==
  /\ bot = "files" /\ Begin(j, "update", "remove")
  /\ UNCHANGED <<disk, guard, active, mixed, broken>>

DeleteBot(j) ==
  /\ ~active /\ bot # "absent" /\ Begin(j, "delete", "delete")
  /\ UNCHANGED <<disk, guard, active, mixed, broken>>

SetActive(j) ==
  /\ is_synced /\ Begin(j, "activate", "activate")
  /\ broken' = FALSE
  /\ UNCHANGED <<disk, guard, active, mixed>>

Deactivate(j) ==
  /\ active /\ Begin(j, "none", "idle") /\ active' = FALSE
  /\ UNCHANGED <<disk, guard, mixed, broken>>

(* ---- the end of a command ---- *)

(* Dropping the guard spawns the task that removes the name.                 *)
Drops(j) == releasing' = IF Guarded(j) THEN releasing + 1 ELSE releasing

Release ==
  /\ releasing > 0 /\ releasing' = releasing - 1 /\ inFlight' = FALSE
  /\ UNCHANGED <<disk, bounds, active, job, mixed, broken>>

Returns(j) == job' = [job EXCEPT ![j] = Idle] /\ Drops(j) /\ UNCHANGED inFlight

(* ensure_synced failed: an install takes its directory away again.          *)
Fails(j) ==
  IF Installing(j) THEN Goes(j, "rollback") /\ UNCHANGED guard ELSE Returns(j)

(* ---- ensure_synced ---- *)
CheckFails(j) ==
  /\ At(j, "check") /\ bot # "files" /\ Fails(j)
  /\ UNCHANGED <<disk, bounds, active, mixed, broken>>

CheckPasses(j) ==
  /\ At(j, "check") /\ bot = "files" /\ Fresh /\ ~moved /\ Returns(j)
  /\ UNCHANGED <<disk, bounds, active, mixed, broken>>

Repoint(j) ==
  /\ At(j, "check") /\ bot = "files" /\ Fresh /\ moved /\ platform = "unix"
  /\ moved' = FALSE /\ Returns(j) /\ Touches(j)
  /\ UNCHANGED <<bot, venv, lock, stamp, bounds, active, broken>>

RepointFails(j) ==
  /\ At(j, "check") /\ bot = "files" /\ Fresh /\ moved
  /\ job' = [job EXCEPT ![j].pc = "wipe_stamp", ![j].checked = TRUE]
  /\ UNCHANGED <<disk, guard, bounds, active, mixed, broken>>

CheckFindsStale(j) ==
  /\ At(j, "check") /\ bot = "files" /\ ~Fresh /\ Goes(j, "mkdir")
  /\ UNCHANGED <<disk, guard, bounds, active, mixed, broken>>

(* create_dir_all makes the bot's directory too, should it have gone.        *)
MakeDir(j) ==
  /\ At(j, "mkdir") /\ Goes(j, "uv") /\ Touches(j)
  /\ bot' = IF bot = "absent" THEN "husk" ELSE bot
  /\ UNCHANGED <<venv, moved, lock, stamp, guard, bounds, active, broken>>

UvStarts(j) ==
  /\ At(j, "uv") /\ bot = "files"
  /\ Goes(j, "uv_running") /\ Touches(j)
  /\ venv' = "partial"
  /\ UNCHANGED <<bot, moved, lock, stamp, guard, bounds, active, broken>>

(* There is no project to sync, or no uv.                                    *)
UvRefuses(j) ==
  /\ At(j, "uv") /\ Fails(j)
  /\ UNCHANGED <<disk, bounds, active, mixed, broken>>

(* A sync that others disturbed ends with whatever is there, and may put     *)
(* parts of a removed directory back.                                        *)
UvEnds(j) ==
  /\ At(j, "uv_running") /\ bot = "files"
  /\ Goes(j, "stamp") /\ lock' = TRUE /\ moved' = FALSE
  /\ venv' \in IF mixed THEN {"partial", "good"} ELSE {"good"}
  /\ UNCHANGED <<bot, stamp, guard, bounds, active, mixed, broken>>

UvFails(j) ==
  /\ At(j, "uv_running") /\ Fails(j)
  /\ \/ UNCHANGED <<bot, venv>>
     \/ bot # "files" /\ bot' = "husk" /\ venv' = "partial"
  /\ UNCHANGED <<moved, lock, stamp, bounds, active, mixed, broken>>

(* The signature is taken again: uv may have made the lock.                  *)
WriteStamp(j) ==
  /\ At(j, "stamp") /\ bot = "files" /\ Touches(j)
  /\ stamp' = current_signature /\ Returns(j)
  /\ UNCHANGED <<bot, venv, moved, lock, bounds, active, broken>>

StampFails(j) ==
  /\ At(j, "stamp") /\ Fails(j)
  /\ UNCHANGED <<disk, bounds, active, mixed, broken>>

(* ---- reset_sync_state ---- *)
WipesIt(j) == broken' = (broken \/ job[j].kind # "start" \/ platform = "unix")
AfterWipe(j) == Goes(j, IF job[j].checked THEN "mkdir" ELSE "check")

(* Mutant of WipeStamp: the venv goes first.                                 *)
WipeStampLast(j) ==
  /\ At(j, "wipe_stamp") /\ Touches(j) /\ WipesIt(j)
  /\ IF venv = "none" THEN AfterWipe(j) /\ stamp' = "none" /\ UNCHANGED venv
     ELSE venv' = (IF venv = "good" THEN "partial" ELSE "none") /\ UNCHANGED <<job, stamp>>
  /\ UNCHANGED <<bot, moved, lock, guard, bounds, active>>

WipeStamp(j) ==
  /\ At(j, "wipe_stamp") /\ Goes(j, "wipe_venv") /\ Touches(j) /\ WipesIt(j)
  /\ stamp' = "none"
  /\ UNCHANGED <<bot, venv, moved, lock, guard, bounds, active>>

WipeVenv(j) ==
  /\ At(j, "wipe_venv") /\ Goes(j, "wiping") /\ Touches(j)
  /\ venv' = IF venv = "none" THEN "none" ELSE "partial"
  /\ UNCHANGED <<bot, moved, lock, stamp, guard, bounds, active, broken>>

WipedVenv(j) ==
  /\ At(j, "wiping") /\ AfterWipe(j)
  /\ venv' = "none" /\ moved' = FALSE
  /\ mixed' = (~Alone(j) \/ (mixed /\ stamp # "none"))
  /\ UNCHANGED <<bot, lock, stamp, guard, bounds, active, broken>>

(* ---- install, update and delete ---- *)

(* The archive is unpacked beside and renamed into place.                    *)
Place(j) ==
  /\ At(j, "place") /\ bot = "absent" /\ Goes(j, "check")
  /\ bot' = "files" /\ lock' \in BOOLEAN
  /\ mixed' = ~Alone(j)
  /\ UNCHANGED <<venv, moved, stamp, guard, bounds, active, broken>>

(* No release, no archive, or something is there by now.                     *)
PlaceFails(j) ==
  /\ At(j, "place") /\ Returns(j)
  /\ UNCHANGED <<disk, bounds, active, mixed, broken>>

(* remove_dir_all, before an update, after a failed install, and of delete.  *)
Removes(j) ==
  /\ Gone /\ Touches(j)
  /\ broken' = TRUE
  /\ UNCHANGED <<bounds, active>>

UpdateRemoves(j) == At(j, "remove") /\ Goes(j, "place") /\ Removes(j) /\ UNCHANGED guard
RollBack(j) == At(j, "rollback") /\ Returns(j) /\ Removes(j)
DeleteRemoves(j) == At(j, "delete") /\ Returns(j) /\ Removes(j)

Activate(j) ==
  /\ At(j, "activate") /\ Returns(j) /\ active' = TRUE
  /\ UNCHANGED <<disk, bounds, mixed, broken>>

(* ---- the program stops, and starts again ---- *)

(* The venv may be reached under another path then.                          *)
Restart ==
  /\ restarts > 0 /\ restarts' = restarts - 1
  /\ inFlight' = FALSE /\ releasing' = 0
  /\ \E goesOn \in SUBSET {j \in Jobs : job[j].pc \in {"uv_running", "orphan"}} :
       job' = [j \in Jobs |-> IF j \in goesOn THEN [Idle EXCEPT !.pc = "orphan"] ELSE Idle]
  /\ moved' \in IF venv = "none" THEN {FALSE} ELSE {moved, TRUE}
  /\ UNCHANGED <<bot, venv, lock, stamp, platform, commands, active, mixed, broken>>

OrphanEnds(j) ==
  /\ At(j, "orphan") /\ job' = [job EXCEPT ![j] = Idle]
  /\ \/ UNCHANGED <<bot, venv, lock>>
     \/ bot = "files" /\ venv' \in {"partial", "good"} /\ lock' = TRUE /\ UNCHANGED bot
     \/ bot # "files" /\ bot' = "husk" /\ venv' = "partial" /\ UNCHANGED lock
  /\ Touches(j)
  /\ UNCHANGED <<moved, stamp, guard, bounds, active, broken>>

Commands(j) ==
  \/ \E force \in BOOLEAN : SyncDeps(j, force)
  \/ StartGame(j) \/ Install(j) \/ UpdateBot(j) \/ DeleteBot(j) \/ SetActive(j) \/ Deactivate(j)

EnsureSynced(j) ==
  \/ CheckFails(j) \/ CheckPasses(j) \/ Repoint(j) \/ RepointFails(j) \/ CheckFindsStale(j)
  \/ MakeDir(j) \/ UvStarts(j) \/ UvRefuses(j) \/ UvEnds(j) \/ UvFails(j)
  \/ WriteStamp(j) \/ StampFails(j) \/ WipeStamp(j) \/ WipeVenv(j) \/ WipedVenv(j)

Next ==
  \/ \E j \in Jobs :
       \/ Commands(j) \/ EnsureSynced(j)
       \/ Place(j) \/ PlaceFails(j) \/ UpdateRemoves(j) \/ RollBack(j) \/ DeleteRemoves(j)
       \/ Activate(j) \/ OrphanEnds(j)
  \/ Release \/ Restart

Spec == Init /\ [][Next]_vars

(* ---- properties ---- *)

(* Types.                                                                    *)
TypeOK ==
  /\ platform \in {"unix", "windows"} /\ bot \in {"absent", "husk", "files"}
  /\ venv \in {"none", "partial", "good"} /\ stamp \in {"none", "lock", "no lock"}
  /\ {moved, lock, active, inFlight, mixed, broken} \subseteq BOOLEAN
  /\ releasing \in Nat /\ commands \in 0..MaxCommands /\ restarts \in 0..MaxRestarts
  /\ job \in [Jobs -> [kind : {"none", "sync", "start", "install", "update", "delete", "activate"},
                       pc : Working \cup {"idle", "check", "activate"}, checked : BOOLEAN]]

(* An environment that is_synced calls ready was built by a sync that ended  *)
(* well, however the program stopped before, unless two jobs worked in it at  *)
(* the same time: a half-built or half-wiped one is never taken for ready.    *)
ReadyMeansBuilt == is_synced /\ ~mixed => venv = "good"

(* "Game-start must never run a slow uv sync inline" (manager.rs): it does    *)
(* so only if the active bot's environment was wiped or removed, could not   *)
(* be repointed, or was worked in by two since it was found ready.            *)
StartDoesNotSync ==
  \A j \in Jobs : job[j].kind = "start" /\ job[j].pc = "uv_running" => broken \/ mixed

(* What the guard is for: of the reinstalls and game starts, one at a time    *)
(* works on the environment, however late a released name leaves the set.     *)
GuardedWorkAlone ==
  \A j, k \in Jobs : Guarded(j) /\ Guarded(k) => j = k
=============================================================================
