------------------------------- MODULE NativeBot -------------------------------
(***************************************************************************)
(* The built-in bot's use of the inference server (src/src/bot/native.rs):   *)
(* the session that follows the settings, the circuit breaker, the two       *)
(* requests of a riichi, the local model as fall-back; the user's "retry     *)
(* now" (ipc/commands.rs); and the indicator that the front end drives from  *)
(* the toasts (frontend/src/stores/apiStatusStore.ts).  One runner per game. *)
(*                                                                         *)
(* Time is counted in units of BREAKER_BASE.  What the server or the local   *)
(* model answers does not matter here, nor which key or model a setting is.  *)
(***************************************************************************)
EXTENDS Integers, Sequences

CONSTANTS Settings,     \* complete API settings a client can be built from
          MaxWait,      \* BREAKER_MAX, in units of BREAKER_BASE
          MaxChanges,   \* bound: changes of the settings
          MaxOutages,   \* bound: times the server goes down
          MaxRetries,   \* bound: retries asked for by hand
          MaxGames,     \* bound: games
          MaxToasts     \* bound: toasts under way when the runner is called

ASSUME WaitAssumption == MaxWait \in Nat \ {0}
ASSUME NativeBoundsAssumption ==
  {MaxChanges, MaxOutages, MaxRetries, MaxGames, MaxToasts} \subseteq Nat

Off == "off"            \* not enabled, or not complete
Unfit == "unfit"        \* complete, but no client can be built
ASSUME SettingsAssumption == {Off, Unfit} \cap Settings = {}

VARIABLES
  cfg, changes,                   \* bot.api, and its changes so far
  up, outages,                    \* the server answers
  session,                        \* the settings of `api`, or Off
  healthy, failures, wait,        \* the breaker; wait is what is left of open_until
  retry_generation, generation,   \* the runner's, and API_RETRY_GENERATION
  request,                        \* "idle", "ask" or "follow": the request under way
  game, started,                  \* the runner's game, and the latest start_game
  probes,                         \* health probes under way
  toasts,                         \* to the front end
  fresh,                          \* start_games the front end has not seen
  shown,                          \* the indicator: degraded, and whose toast it was
  \* history
  owed,                           \* a retry was asked for and no request made since
  lost                            \* meanwhile a choice was made without the server

user == <<cfg, changes>>
server == <<up, outages>>
breaker == <<healthy, failures, wait>>
retry == <<retry_generation, generation, probes>>
front == <<fresh, shown>>
games == <<game, started>>
nativeVars == <<user, server, session, breaker, retry, request, games, toasts, front, owed, lost>>

Note(bad, by) == [bad |-> bad, by |-> by, game |-> game]
Fine == [bad |-> FALSE, by |-> "none", game |-> 0]

NativeInit ==
  /\ cfg \in Settings \cup {Off} /\ changes = 0 /\ up = TRUE /\ outages = 0
  /\ session = cfg /\ healthy = TRUE /\ failures = 0 /\ wait = 0
  /\ retry_generation = 0 /\ generation = 0 /\ probes = 0
  /\ request = "idle" /\ game = 1 /\ started = 1
  /\ toasts = <<>> /\ fresh = 0 /\ shown = Fine /\ owed = FALSE /\ lost = FALSE

(* ---- the user, the server, time ---- *)
Configure(c) ==
  /\ changes < MaxChanges /\ c # cfg
  /\ cfg' = c /\ changes' = changes + 1
  /\ UNCHANGED <<server, session, breaker, retry, request, games, toasts, front, owed, lost>>

GoesDown ==
  /\ up /\ outages < MaxOutages /\ up' = FALSE /\ outages' = outages + 1
  /\ UNCHANGED <<user, session, breaker, retry, request, games, toasts, front, owed, lost>>

ComesUp ==
  /\ ~up /\ up' = TRUE
  /\ UNCHANGED <<user, outages, session, breaker, retry, request, games, toasts, front, owed, lost>>

Tick ==
  /\ wait > 0 /\ wait' = wait - 1
  /\ UNCHANGED <<user, server, session, healthy, failures, retry, request, games,
                 toasts, front, owed, lost>>

(* retry_native_api, offered while the indicator shows an outage.            *)
RetryNow ==
  /\ shown.bad /\ cfg # Off /\ generation < MaxRetries
  /\ generation' = generation + 1 /\ probes' = probes + 1 /\ owed' = TRUE
  /\ UNCHANGED <<user, server, session, breaker, retry_generation, request, games,
                 toasts, front, lost>>

ProbeEnds(ok) ==
  /\ probes > 0 /\ probes' = probes - 1 /\ (ok => up)
  /\ Len(toasts) < MaxToasts
  /\ toasts' = Append(toasts, Note(~ok, "probe"))
  /\ UNCHANGED <<user, server, session, breaker, retry_generation, generation, request,
                 games, front, owed, lost>>

(* ---- react ---- *)

(* apply_api_config: what it does to the session, the breaker and the toasts. *)
Applied ==
  CASE cfg = Off   -> [session |-> Off, reset |-> session # Off,
                       notes |-> IF session # Off THEN <<Note(FALSE, "setup")>> ELSE <<>>]
    [] cfg = Unfit -> [session |-> Off, reset |-> FALSE, notes |-> <<Note(TRUE, "setup")>>]
    [] OTHER       -> [session |-> cfg, reset |-> session # cfg,
                       notes |-> IF session # cfg THEN <<Note(FALSE, "setup")>> ELSE <<>>]

Called == request = "idle" /\ Len(toasts) < MaxToasts

(* Mutant of Retried: the retry pretends that the server is healthy.         *)
RetriedHealthy(b) ==
  IF generation = retry_generation THEN b ELSE [healthy |-> TRUE, failures |-> 0, wait |-> 0]

(* A retry asked for since: the window closes, the verdict stays.            *)
Retried(b) ==
  IF generation = retry_generation THEN b ELSE [b EXCEPT !.failures = 0, !.wait = 0]

Configured ==
  IF Applied.reset THEN [healthy |-> TRUE, failures |-> 0, wait |-> 0]
  ELSE [healthy |-> healthy, failures |-> failures, wait |-> wait]

TakesBreaker(b) == healthy' = b.healthy /\ failures' = b.failures /\ wait' = b.wait

(* The settings are applied, but the event asks nothing of us.               *)
NothingToDecide ==
  /\ Called
  /\ session' = Applied.session /\ TakesBreaker(Configured) /\ toasts' = toasts \o Applied.notes
  /\ UNCHANGED <<user, server, retry, request, games, front, owed, lost>>

Decides(forced) ==
  /\ Called
  /\ session' = Applied.session /\ toasts' = toasts \o Applied.notes
  /\ TakesBreaker(Retried(Configured)) /\ retry_generation' = generation
  /\ UNCHANGED <<user, server, generation, probes, games, front>>

(* Mutant of UseApi: a server that failed is not asked.                      *)
UseApiHealthy == session' # Off /\ wait' = 0 /\ healthy'

UseApi == session' # Off /\ wait' = 0

AnswersLocally(forced) ==
  /\ Decides(forced) /\ (forced \/ ~UseApi)
  /\ lost' = (lost \/ (owed /\ ~forced /\ session' # Off))
  /\ UNCHANGED <<request, owed>>

Asks ==
  /\ Decides(FALSE) /\ UseApi
  /\ request' = "ask" /\ owed' = FALSE /\ UNCHANGED lost

(* ---- the answer ---- *)

(* record_health.                                                            *)
Recorded(ok) ==
  /\ healthy' = ok
  /\ toasts' = IF ok /\ healthy THEN toasts ELSE Append(toasts, Note(~ok, "runner"))

(* record_success; a bare riichi is followed up by a second request.         *)
Succeeds(next) ==
  /\ up /\ failures' = 0 /\ wait' = 0 /\ Recorded(TRUE) /\ request' = next
  /\ UNCHANGED <<user, server, session, retry, games, front, owed, lost>>

Backoff(n) == IF 2 ^ (n - 1) < MaxWait THEN 2 ^ (n - 1) ELSE MaxWait

(* record_failure; counting stops at the ceiling.                            *)
Opened == IF failures > 0 /\ Backoff(failures) = MaxWait THEN failures ELSE failures + 1

(* Mutant of RequestFails: the generation is read when the request is over.  *)
RequestFailsAndReads ==
  /\ ~up /\ failures' = Opened /\ wait' = Backoff(Opened) /\ Recorded(FALSE) /\ request' = "idle"
  /\ retry_generation' = generation
  /\ UNCHANGED <<user, server, session, generation, probes, games, front, owed, lost>>

RequestFails ==
  /\ ~up /\ failures' = Opened /\ wait' = Backoff(Opened) /\ Recorded(FALSE) /\ request' = "idle"
  /\ UNCHANGED <<user, server, session, retry, games, front, owed, lost>>

Answers == request = "ask" /\ (Succeeds("idle") \/ Succeeds("follow") \/ RequestFails)
FollowUp == request = "follow" /\ (Succeeds("idle") \/ RequestFails)

(* ---- games and the front end ---- *)

GameStarts ==
  /\ started < MaxGames /\ game = started
  /\ started' = started + 1 /\ fresh' = fresh + 1
  /\ UNCHANGED <<user, server, session, breaker, retry, request, game, toasts, shown, owed, lost>>

(* build: a new runner, seeded silently.                                     *)
Build ==
  /\ game < started /\ request = "idle" /\ game' = started
  /\ session' = IF cfg = Unfit THEN Off ELSE cfg
  /\ healthy' = TRUE /\ failures' = 0 /\ wait' = 0
  /\ retry_generation' = generation
  /\ UNCHANGED <<user, server, generation, probes, request, started, toasts, front, owed, lost>>

ShowStart ==
  /\ fresh > 0 /\ fresh' = fresh - 1 /\ shown' = Fine
  /\ UNCHANGED <<user, server, session, breaker, retry, request, games, toasts, owed, lost>>

ShowToast ==
  /\ toasts # <<>> /\ toasts' = Tail(toasts) /\ shown' = Head(toasts)
  /\ UNCHANGED <<user, server, session, breaker, retry, request, games, fresh, owed, lost>>

NativeNext ==
  \/ \E c \in Settings \cup {Off, Unfit} : Configure(c)
  \/ GoesDown \/ ComesUp \/ Tick \/ RetryNow \/ \E ok \in BOOLEAN : ProbeEnds(ok)
  \/ NothingToDecide \/ \E forced \in BOOLEAN : AnswersLocally(forced)
  \/ Asks \/ Answers \/ FollowUp
  \/ GameStarts \/ Build \/ ShowStart \/ ShowToast

(* Time passes, calls end, the front end handles its events, and the game     *)
(* brings decisions.                                                         *)
NativeFairness ==
  /\ WF_nativeVars(Tick) /\ WF_nativeVars(Asks) /\ WF_nativeVars(Answers) /\ WF_nativeVars(FollowUp)
  /\ WF_nativeVars(Build) /\ WF_nativeVars(ShowStart) /\ WF_nativeVars(ShowToast)
  /\ WF_nativeVars(NothingToDecide)

NativeSpec == NativeInit /\ [][NativeNext]_nativeVars /\ NativeFairness

(* ---- properties ---- *)

(* Types.                                                                    *)
NativeTypeOK ==
  /\ cfg \in Settings \cup {Off, Unfit} /\ session \in Settings \cup {Off}
  /\ {up, healthy, owed, lost} \subseteq BOOLEAN
  /\ failures \in Nat /\ wait \in 0..MaxWait
  /\ retry_generation \in 0..generation /\ generation \in 0..MaxRetries
  /\ request \in {"idle", "ask", "follow"} /\ game \in 1..started
  /\ toasts \in Seq([bad : BOOLEAN, by : {"runner", "setup", "probe"}, game : Nat])

(* A retry asked for by hand, even while a request was out, is not lost: no   *)
(* decision that has a choice and a session is then taken locally before the *)
(* server has been asked again.                                              *)
RetryIsHonoured == ~lost

(* Once the front end has caught up, an outage that this game's runner        *)
(* reported is one it still knows of, so its next success clears it; one      *)
(* reported of the settings goes when a session is set up.                    *)
OutageShownIsKnown ==
  toasts = <<>> /\ fresh = 0 /\ shown.bad /\ shown.game = game /\ game = started =>
    /\ shown.by = "runner" => ~healthy
    /\ shown.by = "setup" => session = Off

(* When the server stays up and the settings good, the breaker lets the bot   *)
(* back to it: it ends up healthy, whatever windows had opened.               *)
Settled == up /\ cfg \in Settings /\ cfg = session /\ game = started
ServerIsUsedAgain == <>[]Settled => <>[]healthy
=============================================================================
