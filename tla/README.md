# Akagi: TLA+ models and proofs

Akagi (`src/src`, Rust, with a Tauri/React front end) watches a mahjong client's
traffic, rebuilds the game as a stream of *mjai* events, asks a bot what to play,
shows the answer, optionally plays it in the client, and records finished games.
It is a set of tokio tasks that talk over bounded broadcast channels. This
directory models the tasks whose correctness depends on the order in which
things happen, checks them with TLC, and proves some of the results with TLAPS.

Contents: [the system](#the-system) · [modules](#modules) ·
[what each run checks](#what-each-run-checks) · [bounds](#bounds) ·
[fairness](#fairness) · [what is proved](#what-is-proved) ·
[disagreements with the code's own words](#disagreements-with-the-codes-own-words) ·
[not modelled](#not-modelled) · [plan](#plan)

## The system

```
 game client <-> capture backend -> bridge -> MjaiBus -+-> tracker -> PostTrackerBus -> bot manager <-> bot
 (browser,       (MITM proxy or     (one per           |                                     |     (subprocess or
  desktop)        Chromium + CDP)    flow)             +-> history recorder -> history store |      built-in)
      ^                |               |               |                              BotResponseBus
      |                | route         | window,       +--------------------------+          |
      |                v               v input counts                             v          v
      +------- uplink <--------- autoplay context, inject bus <--------------- autoplay manager
```

| component (source) | state it keeps | operations | what is hard | what makes it correct |
|---|---|---|---|---|
| capture supervisor (`ipc/capture_supervisor.rs`, commands) | `CaptureControl`: oneshot sender, status | start, stop, restart, the backend's exit | check and write of the slot in separate lock scopes; a notify that nobody hears; a forwarder that writes late statuses | the slot never names a dead backend; the last status shown is the true one; commands return |
| capture backends (`capture/`, `proxy/`) | sockets, browser, CA; two relay tasks per connection; a task per browser tab | launch, relay frames, follow tabs and sockets, shut down | I/O, process life times; events of one socket on three streams | the packet target is one flow, the newest game socket's |
| HTTP capture (`capture/http.rs`) | a queue of exchanges per client address | open, claim, fail | a response does not name its request | an exchange is recorded under its own request |
| packet mode (`autoplay/cdp_input.rs`, `bridge/majsoul/parser.rs`) | wire ids of the page hook, the parser's pending map, marks of injected frames | number, inject, match | the client and the autoplay share 16-bit ids | one sequence on the wire; a response is decoded as its request's |
| flow bridges and packet route (`capture/flow.rs`, `proxy/handler.rs`, `autoplay/context.rs`) | bridge per client address, uplink channels, the route of injected frames | acquire, register, select, withdraw, release | two relays of one connection and the next connection of the same address; two slots with locks of their own | one bridge per connection; a route that is one living connection's |
| bridges (`bridge/`) | per-flow parser, the hand, the open decision window | decode a frame, emit mjai events, restore a hand after a reconnect | riichi that is called, kept or ronned; kans; rejoin; three players | a legal stream of events; the window is open when we are to act; scores add up |
| event bus (`event_bus.rs`) | bounded broadcast channels | send, receive, lag | a slow receiver loses the oldest events and learns only that it lagged | each receiver must survive a hole in its stream |
| tracker (`game_state/tracker.rs`) | the riichi engine's state | apply event, say whether our seat can act | the verdict must belong to the event | event and verdict are taken under one lock |
| bot manager (`bot/manager.rs`, `bot/runner.rs`) | runner, buffered batch, seat, `drop_next_own_reach` | spawn, buffer, ask, reach follow-up, forward the answer | time-outs against a line protocol without request ids; an echo that must be dropped exactly once; lag | the answer belongs to the question; the runner sees each event of its game once |
| autoplay by clicks (`autoplay/manager.rs`, `majsoul/`, `tenhou/`) | acted window, dead clicks, last tiles | plan, delay, press, verify, retry, reload | the window moves while the manager sleeps; a press may be swallowed; late replies | a press answers the window it was planned for; a window is answered once |
| autoplay by frames (`autoplay/riichi_city/`, `inject.rs`) | parallel frame tasks, window instant, acknowledgements, pending advance | plan, queue, relay, resend, press ready | tasks that run beside each other and beside the player; one counter for all acknowledgements | a frame answers its decision; every quiet hand is advanced once |
| history recorder (`history/recorder.rs`) | the buffer of the current game | push, reconcile after a restore, finalise, forfeit | reconnects, lag, overflow | one record per game, each round once, no holes |
| history store (`history/store.rs`) | index file, one log file per game | append, delete, list | crashes and failures between file operations; rewrite against append | an acknowledged record survives; a deleted one stays away |
| history aggregator (`history/aggregator.rs`) | none | fold a game's events into a record | scores from deltas, sticks and the end of the game | the final scores are the table's |
| built-in bot (`bot/native.rs`, `bot/api.rs`) and its indicator (front end) | session, circuit breaker, health, retry generation | react, fall back, retry, announce | failures, back-off, settings changed under way, toasts that arrive late | a retry is honoured; the indicator knows the truth; the server is used again |
| bot installation (`bot/install.rs`, `registry.rs`, `runtime.rs`, `sync_guard.rs`) | directories, stamp, in-flight set | install, update, sync, delete, activate, start | two jobs in one environment; stops between any two file operations | ready means built; guarded jobs work alone; a game start does not sync |
| purchase of a key (front end, `purchaseStore.ts`) | a phase, a generation, one timer; the settings field and the saved key | create an order, poll, redeem, deliver the key | calls of a purchase that was dismissed are answered during the next; the dialog unmounts under way | only the current purchase is shown; a paid key reaches the field or the file |
| reviews of games (front end, `reviewStore.ts`) | one slot of the browser's storage per key: the job and a map from games to reviews | submit, poll, share again | the key changes, the program restarts, answers are lost | what is remembered belongs to its key and game; an accepted review is followed to its end |
| IPC commands, config (`ipc/`, `config/`), pages that save (front end) | `AppState`, the TOML file, the front end's store | about sixty commands | concurrent saves, failing and torn writes, answers out of order | what was saved is kept; file, memory, store and what runs agree |
| updater (`updater/`, `github/`) | pending update, lock | check, apply | stale result | apply acts on what was checked |
| analysis (`analysis/`), delay model, score views | none | pure functions | numerical | - |
| logger, inspector, native bot crate, scripts | - | - | - | - |

`PROJECT.json` has the same inventory with a status for every part, and under
`hazards` the 39 lines where something can go wrong that a test would hardly
reach, each with the property that would catch it.

## Modules

Each module's state and actions carry the names of the code they stand for; the
`map` of `PROJECT.json` gives the lines of every definition. A comment starting
"Mutant of X" marks a definition that changes X the way a plausible bug would; it
stands just before X, is used by no specification, and records which bug each
property would notice. The `MC*` modules add symmetry sets or the constants that
a `.cfg` cannot write; the other components are checked from their own module.
`MCRecords` and `MCFrontEnd` check several components that share no state side
by side in one run: `side` says which one takes the steps of a behaviour and the
others keep an initial state, so the states are the sum and not the product of
theirs. A property of one component then says of the others' behaviours only that
it holds initially. A type invariant at the end of a module says which values its
variables take; those of the components with proofs are theorems, but for `Bridges`.

### CaptureSupervisor

`capture_control` is `slot` (the run whose oneshot sender it holds) and `status`.
A *caller* is any task that issues a command: the three IPC commands, the
background restart of `update_config`, the start-up spawn, ctrl-c. Each lock scope
is one action, so what `spawn_capture_supervisor` does is `SpawnCheck`,
`SpawnShow`, `SpawnAnnounce`, `SpawnInstall`, `SpawnLaunch`, and
another caller, the old backend's exit (`TaskRecord`, `TaskAnnounce`) and the
forwarder (`Forward`) run in between. The shutdown path is modelled in full: the
sender is sent or dropped, the relay task (`RelayFire`) turns either into
`notify_waiters`, which reaches a backend only if it is already listening
(`BackendListen`). The status bus is a bounded queue per subscriber.

### Table, MjaiView, MjaiStream and the three bridges

`Table` is the environment: a mahjong table as a server runs it, for three or
four players, with riichi in two steps, calls, kans of every kind, several
winners, aborted hands, new indicators, at most four melds each, games one after the other. It is not code
of the repository; it does what the bridges expect of a server.

`TenhouBridge`, `MajsoulBridge` and `RiichiCityBridge` are pure operators: which
frames a server writes for a move (external), and what `parse` makes of a frame
in a parser state: the new state and the events. Kept are the seats and how the
platform turns them, the ghost seat of sanma, the held riichi acceptance, new
indicators, tsumogiri, who is charged for a ron, the decision window, the end of
hands and games, what a client that joins again is sent. Left out are the tiles.

`MjaiView` is what a reader of the stream knows after each event, and
`MjaiStream` the grammar of the stream as a specification: each event only where
the consumers can take it. `GameScores` is the part of `aggregate` that keeps the
scores. `Bridges` composes table, wire, bridge, view and scores and is shown
to implement `MjaiStream!Spec` (`StreamIsLegal`).

### BotManager

The table publishes events in the order a game allows, `Deliver` puts them into
the receiver and drops the oldest when it is full, and the manager handles one
at a time. `handle_tracked` is one action up to each of its suspension points
(spawning, asking, following up), where the table, the settings and the bot go
on. A subprocess bot's stdout is three counters, `asked`, `written`, `read`:
lines are answered in order and carry no id, so a question that timed out leaves
a line in the pipe (`slipped`). A follow-up ends with a dahai, another line, a
malformed line or a late one; a question that fails drops the runner. Kinds of
events are kept only as far as the manager's branches distinguish them.
`fed`, `skipped`, `lost`, `taken` are history variables the properties speak of.

### NativeBot

The built-in bot instead of a subprocess: `apply_api_config` (the session follows
the settings), `react` with at most two requests in a riichi, the breaker
(each failure opens it, twice as long as the last, up to a cap), the health that
decides which toast to send, the retry generation that "retry now" raises, the
probe of that command, and the front end's indicator, which is driven by toasts
and by `start_game`. Time is counted in units of the breaker's base.

### BotEnvironment

One bot's directory: `bot`, `venv`, `lock`, `stamp`. A step is what runs between
two awaits or two file operations of `ensure_synced`, `reset_sync_state`, install,
update and delete; two further tasks do the same at the same time; the program may
stop between any two steps, and the `uv` process it started may go on without it
(`orphan`). The guard is the set of names in flight, which a dropped guard leaves
only when the task it spawns has run (`releasing`). `mixed` and `broken` are
history variables: two jobs met in the directory; it was wiped, removed or could
not be repointed since it was last found ready.

### Autoplay

Clicks. The decision window is a number (in the code the instant it opened). The bridge
opens, replaces and closes it at any time. The manager plans a reply against the
window that is open when it *reads* the reply, sleeps, compares the window once,
presses, and on Mahjong Soul waits for the client's own input command, pressing
the last button again on the first retry and all of them from the second on.
Tenhou remembers the window it acted on and is neither verified nor retried.
Abstracted: whether a press lands, whether the plan was legal and whether a page
exists are free choices; the platform is fixed in a behaviour; verification is
on; the three counters of `InputWatch` move together.

### RiichiInject

Frames on Riichi City: each reply is a task of its own (`execute_riichi_frame`)
that waits for its window, sends, and sends again while no acknowledgement
was counted; the player acts at any time; the uplink relay forwards; the watcher of
`round_advance.rs` presses "ready" after a hand unless something happened.

### PacketRoute

Frames on Mahjong Soul: which connection they take. Connections open and close,
two relays each. `Acquire`, `Drop` and `Reap` are `FlowBridges::acquire` and the
two halves of `release`; `Look`, `SelectBridge`, `SelectTx` the downlink that
finds a game on its flow; `Unregister`, `ClearTx`, `ClearBridge` the uplink's clean-up;
`TakesBridge`, `SendsFrame` the manager in `try_packet_action`. `torn` marks that
two changes of the route overlapped, `kept` the bridges that a release found in use
elsewhere.

### PageFlows

The browser instead of the proxy: tabs and sockets come and go, and each attached
tab has a task that takes the `created`, `received` and `closed` events of its sockets
from streams of their own, in any order. A handler writes the slots of the autoplay
context one lock at a time (`todo`), and the poll loop may abort it in between.
`FlowBridges` is kept as the number of bridges made for a socket and whether one is
mapped; a slot holds its own reference.

### RequestIds

The 16-bit message ids of one socket with two senders: the game client and the
autoplay manager. On the page leg `HookSend`, `RunQueued` and `TranslatedId` are
the hook script, which numbers the wire itself and translates responses back; on the
MITM leg frames go out as they are. The bridge sees sent and received frames on a
stream each. `marks` are the frames the inspector is to show as injected.
Checked in `MCRecords`, as are `HttpPairing`, `HistoryRecorder` and `HistoryStore`.

### HttpPairing

The proxy library names a request by the client's address only: `HandleRequest` puts
an exchange into the queue of its address, `HandleResponse` and `HandleError` claim
its first entry (`Claimed`), HTTP/2 claims nothing. Connections come and go, an
address is used again.

### ConfigSaves

A call of the front end is a record with the step it is at: `Persist`, `ReadOld`,
`WriteNew`, `Reply` for `update_config`; `Lock`, `GetConfig`, `Backfill` for
`set_active_bot` and the refresh of the page; `SetOverlay`, `PersistOverlay`,
`OverlayReply` and the late event (`DeliverEvent`) for the overlay. The configuration
is five sections with two values each. A write may fail before or after the file was
truncated (`WriteFails`), the program may stop in any step and inside the write
(`CrashInWrite`, `Torn`), and a start takes defaults for what is missing. `wanted` and
`unsure` are what the user has been told. Checked in `MCFrontEnd`, as are `Purchase`
and `Reviews`.

### Purchase

`shown` is the store's state, `generation`, `active` and `timer` are its module
variables. A call to the program (`create`, `poll`, `redeem`) is a record in
`calls`, sent in one step and answered or failed in another; the handler compares
its generation with the store's (`Current`). `Start`, `retryRedeem`, `Dismiss` are
the buttons; `Poll` is the timer; `deliverKey` hands the key to the dialog
when one is mounted (`sink`), and otherwise writes it into the configuration
itself (`SaveKey`, `SaveEnds`, `SaveFails`). `Open` and `Leave` mount and
unmount dialog and settings page. The server's orders are external: paid, delivered or
refunded at any time (`Pay`, `WindowPasses`, `CallOff`). An order, its code and its key have one number.
`spoiled` marks that a save failed or ran beside another.

### Reviews

`slots` is the browser's storage, one slot per key, and `page` the store over the
slot of the key it was last hydrated for (`ensureHydrated`). `Submit`, `pollOnce` and
`Reshare` send; `Submitted`, `SubmitFails`, `JobAnswer`, `JobPollFails`,
`ReshareIssued`, `ReshareFails` and `Unmarked` take what comes back, which may be lost
(`Accept` is the server's side of a submit whose answer may not arrive). `SwitchKey`
changes the configuration and `Relaunch` restarts the program at any point. The
server's reviews end or are evicted whenever it likes. `overtaken`, `misdirected`
and `strayed` mark the three places where the store mixes up what it awaited
with what it holds by then.

### HistoryRecorder

The table plays rounds whether or not the client is connected. `Leave`,
`Rejoin` (a second `start_game`) and `Restore` (the current round replayed in one
burst) may happen in any phase. The recorder's handler is one action per branch:
a reconnect, a fresh game, a restored round (`Truncated` removes the round it
repeats), the end of a game, termination, lag. The payload of an event is which
game, round and step it is. Whether payloads carry a game id is a free choice
(`tagged`).

### HistoryStore and GameArchive

`HistoryStore` has one action per file-system call of `append` and `delete`,
under the write lock, and each may fail or be the last before a crash. The index
is a sequence of lines, each the pieces written since the last newline, because
`writeln!` on an unbuffered file writes the record and its newline separately.
`GameArchive` is what the store promises: a game enters once, leaves by removal
or because an interrupted write damaged it, and never returns. `HistoryStore`
implements it under the mapping `listing <- Listed \ harmed`, `removed <-
deleted`, `damaged <- harmed`.

## What each run checks

Two properties of one row may be conjunctions of named parts; the parts are
definitions of the module.

| run | result |
|---|---|
| `CaptureSupervisor` | Three callers, two spawns. The slot names only a backend that is alive or about to be launched (`SlotNamesLiveRun`), so a dead backend never blocks the next start; when all is quiet the status is final (`QuietStatusIsFinal`) although the forwarder writes late copies; every command returns and a listening backend whose sender is used or dropped exits (`StopsEnd`). |
| `CaptureStopLost` | violated: a stop during start-up is never heard (`SentLeadsToExit`). |
| `Bridges` | Each bridge over a table of three and one of four players. The stream implements `MjaiStream` (`StreamIsLegal`); once everything is read, the reader's view is the table's state (`ViewIsTheTable`), the window is open if and only if the server waits for us (`WindowWhenOwed`), and the history's scores are the table's (`ScoresFollowTheTable`). The exceptions each platform makes are in the properties. |
| `BotManager` | Two seats, five events, a receiver of two. As long as no follow-up timed out, a line answers the question it was written for (`LineInStep`); when follow-ups bring tiles and nothing lags, a declaration enters the runner's view once (`ResolvedReachOnce`); the mark for dropping the echo never outlives its hand (`DropOnlyRepeats`); fed and buffered events are disjoint and together are everything since `start_game` but echoes and lag (`FeedIsComplete`); no handler stays suspended (`ManagerReturns`). |
| `NativeBot` | Two games, two outages, two retries, two changes of settings. A retry asked for, even while a request is out, is honoured before the next decision is taken locally (`RetryIsHonoured`); an outage on display is one the runner knows of, so its next success clears it (`OutageShownIsKnown`); when the server stays up the bot comes back to it (`ServerIsUsedAgain`). |
| `BotEnvironment` | Six commands by three tasks, two restarts. What is found ready was built and not touched since (`ReadyMeansBuilt`); a game start does not sync inline (`StartDoesNotSync`); a guarded job works alone (`GuardedWorkAlone`). |
| `Autoplay` | Two windows, late replies, swallowed presses, a hand on the mouse, two retries. A press answers the window its plan was made for unless the window moves during the dispatch itself (`PressAnswersItsWindow`); Tenhou answers a window once between two resets of the manager (`TenhouAnswersOnce`); the manager returns to its buses (`HandlerReturns`). |
| `RiichiInject` | Two tasks beside each other, two windows, a player who acts, two hands. A reply planned in its window is first sent only into that window (`FirstFrameAnswersItsDecision`); every quiet hand gets its ready press exactly once (`QuietHandAdvanced`). |
| `PacketRoute` | Three connections from two addresses. Parser state is not resumed by a later connection (`StateIsNotResumed`); a route whose changes did not overlap is one living connection's (`RouteIsWhole`). |
| `PageFlows` | Two tabs, two sockets, two frames. Between handlers the packet target is one flow with its page and URL, and the newest when sockets open one after the other (`TargetIsOneFlow`); a flow that is open is parsed by one bridge (`OneBridge`). |
| `Records` | Four components side by side. *Requests* (three, four ids, both legs): the page leg's wire is in call order under consecutive ids (`OneSequence`); the client takes another's response only for a request of ours built with the same id, the bridge never decodes a response as another request's, and a frame of ours that nothing overtook is shown as injected (`SendersAreToldApart`). *Exchanges* (two addresses, four requests of four kinds): on HTTP/1 each answer is recorded under its own request (`AnsweredUnderOwn`). *Recorder* (two games of up to three rounds, two absences, a small bus and buffer): a record is one ended game, once, its rounds in order, each once and without a gap, and only the last round may lack its end, because a game that ended while the client was away is closed by the result screen alone (`RecordsAreWhole`); an undisturbed game is recorded (`QuietGameIsRecorded`). *Store* (two workers, three games, crashes, failing and torn writes): `AckedSurvives`, where an interrupted write costs at most two records, and the refinement `ImplementsArchive`. |
| `FrontEnd` | Three components side by side. *Configuration* (three calls, one crash): what was answered to be saved is in memory, in the file and shown, when calls follow one another (`SavedIsKept`); the capture runs with what is in memory unless two saves cross, and there is one bot manager (`RunsWhatIsSaved`). *Purchase* (two orders): key and code on display are the current purchase's (`ShownIsCurrent`); the key that was delivered last is on display, in the field, being saved or saved (`KeyIsKept`). *Reviews* (two keys, two games, two reviews, one restart): a slot holds what is its key's and its game's (`OwnNamespace`); a job on display goes on being polled, an accepted review is not forgotten, a game stays marked (`ReviewsAreFollowed`). |

Deadlock is checked in `Autoplay`, where events may always arrive. In the other
runs the bounded inputs run out (no more events, games or commands) and the
system then rightly stops, so the deadlock check is off.

## Bounds

Every bound is a named constant that guards an environment action, never one of
the component's own (capacities and retry counts are the component's, and small).

* `Callers = 3, MaxRuns = 2`: a race needs one caller between the check and the
  write of another; the third restarts meanwhile. Two runs suffice for an old and
  a new backend. `StatusBusCap = 2` makes the forwarder lag.
* `Bridges`: eight moves reach a riichi that is called or ronned, a kan with its
  indicator, two hands and a second game, on every platform; `MaxDora = 3` two new
  indicators; `Rejoins = 1, RejoinBy = 5` one reconnect in the first hand.
  `SanmaRejoins = FALSE`: a reconnect with three players on Tenhou is one of the
  disagreements below. `MCSeatings` gives our seat in a table of three and of four.
  `BridgesProofs` covers any number of each and any seat.
* `MaxEvents = 5, PostCap = 2`: start_game, start_kyoku, a draw, a declaration
  and its echo, or two games, with a receiver that overflows.
* `NativeBot`: `MaxWait = 4` doubles the breaker twice; two of each input let a
  second outage, retry or change fall into the handling of the first; one good
  setting, since which one it is does not matter. 985 thousand states;
  `CommandProofs` covers any number.
* `BotEnvironment`: `Jobs = 3` lets a third task work while two meet; six
  commands install, activate, start, reinstall and update; two restarts allow a
  stop during the repair of an earlier stop. 1.35 million states;
  `CommandProofs` covers any number.
* `MaxWindows = 2, Retries = 2` (the default of `click_retries`),
  `ReloadAfter = 2`: an old and a new window; both forms of a retry. Three windows give
  over seven million states and no new kind of step; `PlayProofs` covers any
  number.
* `RiichiInject`: two tasks, two windows, two hands, one act of the player, one
  retry, queues of one: enough for a task to find the other's window, answer
  or acknowledgement. `PlayProofs` covers any number.
* `PacketRoute`: two addresses and three connections: another address's, and a
  later one of the same address. `RouteProofs` covers any number.
* `PageFlows`: an old and a new socket, in one tab or two; a frame before and one after a
  close. `RouteProofs` covers any number.
* `RequestIds`: four ids wrap within three requests of either sender.
* `HttpPairing`: two addresses; four requests queue behind each other in HTTP/2.
  `RecordsProofs` covers any number of both.
* `ConfigSaves`: three calls let one land between two steps of another and a third
  observe; one crash in any step.
* `Purchase`: a second order is what the answers of the first can disturb.
  `FrontEndProofs` covers any number of calls, orders, keys and reviews. `Reviews`: two keys, two games and two reviews let an
  answer meet the other key's slot or a newer review; two changes of key go there and
  back. `FrontEnd` has 2.35 million states together.
* `Workers = 2, Games = 3`: the recorder and one delete; three records show
  that damage stops after the next line; `RecordsProofs` covers any number.
* `MaxGames = 2, MaxRounds = 3, HandLen = 2, MaxLeaves = 2, BusCap = 4,
  BufCap = 10`: a restored round can be new, unfinished or complete; a restore's
  burst overflows the bus; a game of two rounds just fits the buffer and one of
  three overflows it. `RecordsProofs` covers any of each.

## Fairness

Safety runs use `Init /\ [][Next]_vars`. The liveness properties assume:

* capture: tokio runs what is ready and fires timers, so a caller past its first
  step, relays, supervisor tasks and the forwarder go on; a backend that was
  told to stop returns. A listening backend is *not* assumed to return by itself,
  and no command is assumed to be issued.
* bot manager: spawn and `react()` end, the latter because of `react_timeout`
  (`bot/runner.rs`); a delivered event is received. The bot itself is not assumed to write.
* built-in bot: time passes; a request ends, by its time-out if nothing else; the front
  end handles its events; the game brings decisions. The server is not assumed to
  come up, nor the user to do anything.
* autoplay: sleeps end, a dispatched press returns, and `wait_for_input` polls up
  to a deadline. The client is not assumed to react.

## What is proved

TLAPS checks these for all values of the constants that satisfy the named
assumptions of the modules (`CallersAssumption`: callers are finitely many and none
is the forwarder; `SeatsAssumption`: the sentinel is not a seat; `ConnsAssumption`,
`BoundsAssumption`, `InjectAssumption`, `RecorderAssumption`, `ConfigAssumption`, `OrdersAssumption`: bounds are naturals and
capacities positive; `FramesAssumption`, `StoreAssumption`: the sentinel is not a tab, a
socket or a flow, not a worker and not a game). The theorems of `Bridges` and one of
`RequestIds` have a hypothesis more, named in their rows.
Where no run checks the property of a row (`TypeOK`, `ManagerTypeOK`, `CaptureTypeOK`, `StatusTellsRunner`,
`RunnerPlaysOurSeat`, `InUseIsMapped`, `QueueIsInFlight`, `OneActivity`) the theorem
alone stands for it.

| theorem | states | argument |
|---|---|---|
| `PlayProofs!ManagerTypeSafety` | `[]ManagerTypeOK` | inductive as it stands, with the lemmas that a broadcast channel keeps the type of its queue and never exceeds its capacity |
| `StatusSafety` | `[]StatusTellsRunner` | `StatusInv` extends it to every moment but the spawn, and adds that only a live runner is asked |
| `SeatSafety` | `[]RunnerPlaysOurSeat` | inductive with `ManagerTypeOK` |
| `LineSafety` | `[]LineInStep` | `LineInv`: while nothing slipped, as many lines were read as questions asked, minus the one pending; a line then has the number of its question |
| `ReachSafety` | `[]ResolvedReachOnce` | `TableInv`: after an event of the table that bars a seat from declaring in the hand, a declaration of that seat follows only after another `start_kyoku`, in the receiver or still to come; `ViewInv`: a runner whose view holds a declaration, with nothing under way, has no other ahead of it (`NoMore`). Needed because the property counts in the view what the bus still holds |
| `DropSafety` | `[]DropOnlyRepeats` | `DropInv` adds what holds while the follow-up is out: the synthetic reach is already in view |
| `FeedSafety` | `[]FeedIsComplete` | `QueueInv`: the receiver holds the ids after `Handled`, consecutive; `FeedInv`: fed, buffered and the event in hand make up the interval since `start_game`. Lemmas `RecvNext`, `SendNext`, `IntervalGrows` say how receiving and overflowing move the interval |
| `PressSafety` | `[]PressAnswersItsWindow` | `PressInv`: while pressing, the window is the plan's or it moved since it was compared |
| `TenhouSafety` | `[]TenhouAnswersOnce` | `AnsweredInv`: the open window, once answered or planned for, is the one `acted_window` holds, and a window never reopens, so a plan whose delay ends in its own window is the first for it |
| `FrameSafety` | `[]FirstFrameAnswersItsDecision` | `TasksFine`: a task planned in time keeps the window of its reply from the gate to the last resend, and one that is about to send for the first time found it open, or it moved since |
| `AdvanceSafety` | `[]QuietHandAdvanced` | `Ended`: no end is recorded for a hand that is still to end (`EndsBelow`); two ends never follow one another, in the watcher's receiver or on the way to it, since a new hand starts between them (`Apart`, `FreeFor`), so neither a lag nor a voided cycle can cost the later one; and the end of the last hand is on its way, the last event of the receiver, with the watcher, or pressed (`LastEnd`). Lemma `PostKeeps`: what a post to a full or half-full receiver leaves of it |
| `CommandProofs!CaptureTypeSafety`, `SlotSafety` | `[]CaptureTypeOK`, `[]SlotNamesLiveRun` | `MineInv`: the number a caller will spawn is its own, fresh and with an untouched sender, so the slot gets an open sender, and whoever takes it empties the slot |
| `QuietSafety` | `[]QuietStatusIsFinal` | `WordInv`: unless somebody announced Running and the final status of that run is to come, the forwarder's last message, or else the status itself, is final. Lemmas `PushKeeps`, `TailLast`: overflow and receiving keep the last message |
| `RouteProofs!TypeSafety`, `SharedBridge`, `FreshState`, `WholeRoute` | `[]TypeOK`, `[]InUseIsMapped`, `[]StateIsNotResumed`, `[]RouteIsWhole` | one invariant: `OnePerAddress` (an address is used again only after its connection is gone), `TaskInv` (what a relay holds at each step), `FlowInv` (numbers of bridges), `OwnerInv` (who made the mapped bridge), `SendersInv`, `AloneInv` and `SelectInv` (what a change of the route relies on while it is alone), `RouteInv`; one lemma per action, with pointwise lemmas for a task that moves |
| `TargetSafety`, `BridgeSafety` | `[]TargetIsOneFlow`, `[]OneBridge` | a handler of `PageFlows` writes its slots one at a time, so `OnTrack` says for each list of writes left what is already true: at rest the three slots name one flow (`Settled`), and in one task's handler (`InHandler`) they name the old flow or the new one up to the write that is next. `Played` and `Heard` say that events and references are of sockets that were opened in their tab; `BridgeKept` counts the bridges of a socket |
| `CommandProofs!TypeSafety`, `OneGuardedJob` | `[]TypeOK`, `[]GuardedWorkAlone` | `GuardInv`: the name is in the set for the one guarded job or for the one task about to remove it, never both |
| `ReadySafety` | `[]ReadyMeansBuilt` | `BuildInv`: what a job that nobody disturbed may rely on at each step (a sync under way is not Fresh, a wipe under way has no stamp, a stamp about to be written has a good venv), with `DiskInv` |
| `StartSafety` | `[]StartDoesNotSync` | `StartInv`: a bot in use is Fresh unless broken or disturbed; a start never wipes on Windows |
| `RecordsProofs!PairingSafety`, `AttributionSafety` | `[]QueueIsInFlight`, `[]AnsweredUnderOwn` | inductive together with `VersionsKnown`: an address that is not muddled speaks HTTP/1 on both sides. Lemma `ClaimKeeps` for the step responses and failures share |
| `WireSequence` | `[]OneSequence` | `CalledOnce`: what is on the wire followed by what waits behind a Blob is what was called; `Chained`: ids follow one another and `nextMsgId` follows the last |
| `SendersSafety` | `MaxRequests <= MaxId` proves `[]SendersAreToldApart` | `ToldInv`: the client's ids and the wire's follow one another from some first id (`ClientFollows`, `WireFollows`), so an id names one request of its sender; each request is in one place (`OncePerPlace`); the hook knows the client's id of all that will be answered (`Translates`), the bridge the request of what is pending (`MethodsInv`), and the mark of a frame of ours stays until a frame under its id was seen (`MarksInv`). The hypothesis is that no id comes round: ids still wrap, but none is used again while the model runs. It is needed: with two ids and three requests TLC finds a client that still waits when its id comes round and takes the other answer. In the code `MaxId` is 65535 and a request is answered within seconds |
| `RecordSafety`, `QuietRecordSafety` | `[]RecordsAreWhole`, `[]QuietGameIsRecorded` | `RInv`: the events in the receiver come one after the other as the table publishes them (`Chain`: `Follows` for neighbours, `Before` for any two, `Fits` for the last and the table), what the recorder heard last comes before them (`Link`), and the buffer is a start of a game with whole rounds (`Whole`), which `WholePrefix` keeps under the truncation and `WholeGrows` under an append. Only a disturbed game has a second `start_game` or starts again in mid round; a game is recorded, in the buffer or still on its way (`QuietFine`). Lemmas `Publishing` and `Taking` say once what a burst and a handler do to the line; `RecordIsGood` reads the record off the buffer |
| `ArchiveSafety` | `[]AckedSurvives` | `SInv`: whoever is inside holds the lock (`Inside`), so only its `Stage` matters: what it has done of its job; an open line holds no deleted game (`OpenLine`); and an open line nobody will end is paid for (`PaidFor`): the interrupted write that left it counts for the games on it and the one appended next. Lemmas `WriteGives`, `RewriteGives` say what a write and a rewrite do to the list; `ReadExists`, `ReadGives` what `delete` reads back |
| `ArchiveRefinement` | `StoreSpec => ImplementsArchive` | from `SInv`, action by action (`StepOfArchive`): a record on a closed line is an `Add`, on an open line or torn a `Damage`, the rename a `Remove`, everything else a stutter |
| `FrontEndProofs!ActivitySafety`, `DisplaySafety` | `[]OneActivity`, `[]ShownIsCurrent` | with `Typed`, `CallsArePast` (calls carry generations up to the current one) and `OrderOnHand` (a phase that polls or redeems has an active order, whose code it shows): a purchase that waits has one timer or one call of its generation, so no late answer can be taken for the current one |
| `KeySafety` | `[]KeyIsKept` | `KeyInv`: the key on display is the one delivered last, and while no save failed or met another that one is being saved or saved |
| `SavedSafety` | `[]SavedIsKept` | `KeptInv`: while calls follow one another there is one under way, and for each of its steps it says which of memory, file, store and event already hold the new value (`Saving`, `Activating`, `Overlaying`), and `AtRest` between calls |
| `RunsSafety` | `[]RunsWhatIsSaved` | `RunsInv`: while no two saves cross, a save that writes knows whether the capture must be restarted, and a restart that is due is spawned; a bot manager that runs or starts was claimed |
| `NamespaceSafety`, `FollowedSafety` | `[]OwnNamespace`, `[]ReviewsAreFollowed` | `ReviewsInv`: references are of accepted reviews (`Referred`), the page shows the slot of its key (`PageIsSlot`), of a key only the latest review may be queued (`OneQueued`), a poll asks with the key of its review (`PollsItsOwn`) and a job without a timer is being polled (`Followed`) |
| `CommandProofs!RetrySafety` | `[]RetryIsHonoured` | `RetryInv`: a retry not yet seen to has closed the breaker's window, and it stays closed until a request is made |
| `OutageSafety` | `[]OutageShownIsKnown` | `ToastInv`: of the toast that will be shown last, an outage of this game is one the runner knows of |
| `BridgesProofs!InvHolds` | `~SanmaRejoins` proves `[]Inv` | the table is in a state of a game (`TableOK`), and what is under way tells it: there are states of bridge, reader and history that the events yet to be published (`Plays`) and then the frames on the wire (`Runs`) lead to, every one of those events is legal where it comes, and the state they end in is the table's (`Good`). A frame may leave the bridge behind in the middle of a move, so nothing is claimed before the end. For Majsoul, which sends a hand again, `Kept`: a bridge of its own that replayed the server's log would be where the live one ends (`MajLogged`). One lemma per move and platform |
| `ViewIsTheTableHolds`, `WindowWhenOwedHolds`, `ScoresFollowTheTableHolds` | `~SanmaRejoins` proves `[]ViewIsTheTable`, `[]WindowWhenOwed`, `[]ScoresFollowTheTable` | with nothing under way `Inv` is `Good`, which says for each stage of a hand and each platform what bridge, reader and history know of the table |
| `StreamIsLegalHolds` | `~SanmaRejoins` proves `Spec => StreamIsLegal` | `Bridges` implements `MjaiStream`: the next event to publish is the first of `Plays`, which is legal, and no other step touches the view |

Each strengthened invariant was checked with TLC on the run's bounds before it
was proved. They are needed because the properties speak of moments between
handlers, while the steps that could break them happen at suspension points.

The hypothesis `~SanmaRejoins` says that no Tenhou client joins a three-player game
again. The code does not exclude it: the bridge then announces four players, which is one
of the disagreements below, and with `SanmaRejoins = TRUE` TLC finds `ViewIsTheTable`
violated. Clients that join again on Majsoul, or in a four-player game of Tenhou, are covered.

A theorem may not rest on a recursion, so `Plays` and `Runs` say that there *are* sequences
of states from first to last, each the next one's predecessor; lemmas for the empty
sequence, for one element and for two sequences put together do the work of induction.
`TableProofs` holds them, what each move does to a table, and what each event tells a
reader who knows the table; `TenhouRiichiCityProofs` the moves of the two platforms that
send each move once; `BridgesProofs` Majsoul and the invariant.

Proofs of components that share nothing stand in one module where that saves a module:
`CommandProofs` (capture supervisor, bot environment, built-in bot), `PlayProofs` (bot
manager and both autoplay components). For that, `CaptureSupervisor`, `NativeBot` and
`BotManager` prefix the names of their specification (`CaptureInit`, `NativeSpec`,
`managerVars`).

Induction over data is not available as a theorem to instantiate, but a least
counterexample is: `LeastOf` (a non-empty set of naturals has a least element, from the
well-foundedness of `<`) carries the proofs that a sequence of ids follows on and that
the list `delete` reads back is what the index lists but one game. That list is a recursive
function, since `SelectSeq` cannot be expanded in a proof.

Only model-checked:

* liveness (`StopsEnd`, `HandlerReturns`, `ManagerReturns`, `ServerIsUsedAgain`): fairness and ENABLED are
  out of the prover's reach;
* the `TypeOK` of `Bridges`, on the bounds of the run: how many frames and events are under way at
  most is a count over a whole move; the types that matter are in `Inv`;
* the full type of the breaker's wait: it is bounded by powers of two, which are naturals by induction.

## Disagreements with the code's own words

One run ends in a violation, `CaptureStopLost`: `Notify::notify_waiters` stores no
permit, so a backend that is still launching misses the stop and runs on with
nobody holding its sender. `findings` in `PROJECT.json` quotes the comment it
contradicts (`ipc/state.rs:39`).

Others were met while modelling. The properties are stated with the exception, or
the history variables named in the module sections mark it; no run searches for them.

* history store: a crash between a record and its newline makes the next,
  acknowledged record unreadable (`store.rs:101`), against "corruption never
  poisons" the rest (`:108`).
* HTTP capture: `handle_error` claims without asking for the version
  (`proxy/handler.rs:808`), so a failed HTTP/2 stream may close another's exchange;
  `http.rs:253` prefers an unattributed answer to a wrongly attributed one.
* request ids: a response handled before its request is not decoded, as frames sent and
  received come on two streams (`cdp.rs:618`), although Mahjong Soul's README
  (`bridge/majsoul/README.md:375`) has every response find its request's entry.
* Chromium capture: a reconnection is not followed while the slots keep an older
  flow (`cdp.rs:673` against `:670`); a closed tab's page stays in the context
  (`cdp.rs:193` against `context.rs:10`); a frame handled after the close makes a bridge
  that stays (`cdp.rs:563` against `flow.rs:84`).
* capture: the slot is empty as soon as a stop takes the sender, so "refuse if a
  previous task is still alive" (`capture_supervisor.rs`) lets two backends live.
* bot manager: a reach follow-up that times out keeps the runner, and the line
  protocol is one answer behind from then on; the synthetic reach is fed before
  it is known whether the echo will be dropped.
* recorder: a game forfeited by overflow is recorded after a rejoin, since
  the flag itself fails the reconnect test.
* autoplay: on Mahjong Soul a late reply can be pressed into a window that another
  answered already (the guard exists for Tenhou only); the resend loop of
  Riichi City does not look at the window again.
* bridges: on Riichi City a ron that robs a kan is charged to the last discarder, a
  riichi whose declaration is ronned still costs its stick, and a window that we let
  pass stays open until the next action. Where two players win, Mahjong Soul's
  and Riichi City's events repeat the total of the deltas, which the aggregator
  adds twice unless the platform's own result corrects it. A Tenhou client that
  rejoins a sanma game in a later hand is announced four players. The sanma seat
  rule in Tenhou's README is not the code's.
* packet route: a downlink that looked its channel up before the uplink's clean-up
  and selects after it leaves a route that is gone; two selections that cross
  mix bridge and channel; a manager that holds the bridge for a moment makes a
  release keep the entry of the map.
* bot environment: an update removes the old bot before the new one is downloaded;
  a forced reinstall of the active bot that fails leaves the next game start to sync
  inline, against "Game-start must never run a slow `uv sync` inline"
  (`bot/manager.rs`); `create_dir_all` can leave a directory that the registry does
  not list and an install refuses; delete and activate check before they act.
* configuration: `update_config` takes the whole configuration (`commands.rs:106`), so a page
  that has not seen a paid key yet saves it away (`purchaseStore.ts:45`); two refreshes of the
  Bots page that cross leave it stale (`Bots.tsx:78` against `:96`); a bot manager whose set-up
  fails at start-up leaves its flag set and is never spawned again (`lib.rs:256`
  against `commands.rs:167`); `set_overlay_enabled` and `set_active_bot` keep their change in memory
  when the write of the file fails; the file is truncated while it is written, and a
  stop then loses every section to defaults; the Settings page seeds its draft again on
  every change of the store, the Bots page merges.
* built-in bot: the late toast of a previous game crosses the reset at `start_game`; a
  manual probe that fails after recovery leaves the indicator degraded until
  the next failure and success; a failed set-up followed by switching the API
  off sends nothing.
* purchase: `start` never stores `proxy`, so polls and the redeem go without it; Cancel while
  the buyer approves drops an order that may be paid ("nothing paid yet",
  `purchaseStore.ts:121`); a redeem whose answer is lost has burnt the code (`:227` says
  errors never do); `persistedFallback` is set without a look at the generation (`:187`).
* reviews: `pollOnce` uses the current key without turning to its slot first, so after a
  change of key the other key's job is answered by 404 and deleted, against the header
  (`reviewStore.ts:21-24`; `misdirected`); a job taken up while a poll is out is polled
  again only at the next visit (`overtaken`); answers of a submit or a share that
  arrive after a change of key go into the other key's slot, and the 404 of a share drops the
  mark of a newer review of the game (`strayed`).

## Not modelled

Of the modelled parts: tiles, canvas geometry, the riichi notice, the
resend by snapshot in packet mode, the message index of
frames, the delay in which a toast travels, the statistics counters of the aggregator, the
runtime resolution inside `spawn_runner`, the presence of a Python runtime.

Not modelled as parts: pure I/O (TLS, downloads, browser profiles, log files);
protobuf and WebSocket decoding; the numerical analysis and the delay model
(floating point, tables, a Lua script); the neural network; the updater (one check, one
apply, otherwise downloads and signatures); the user interface beyond the indicator
of the online API, the calls that change the configuration, the purchase of a key
and the reviews of games. Most of the source's lines are in these parts and in the decoding of
tiles and messages, which is why the map covers a small share of them.
`PROJECT.json` gives the reason for each part.

## Plan

Done, in this order: CaptureSupervisor, BotManager, HistoryStore with
GameArchive, HistoryRecorder, Autoplay; RiichiInject, the table and the three bridges
with MjaiStream and GameScores, PacketRoute, BotEnvironment, NativeBot, HttpPairing,
RequestIds, PageFlows, ConfigSaves, Purchase and Reviews, each with its proofs
(PlayProofs, CommandProofs, RouteProofs, RecordsProofs, FrontEndProofs); last the proofs
of the bridges (TableProofs, TenhouRiichiCityProofs, BridgesProofs).

Every safety property and both refinements that the runs check are proved, the bridges'
under the hypothesis named above; see "Only model-checked" for the rest.

Left to model: the tickets of `InputWatch` in packet mode.
