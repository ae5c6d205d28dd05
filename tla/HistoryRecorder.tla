--------------------------- MODULE HistoryRecorder ---------------------------
(***************************************************************************)
(* The history recorder: src/src/history/recorder.rs, on the raw mjai bus   *)
(* (src/src/event_bus.rs), behind a Mahjong Soul table that the client may  *)
(* leave and rejoin (src/src/bridge/majsoul/mod.rs).                        *)
(*                                                                         *)
(* The table plays rounds whether or not the client is there.  Rejoining    *)
(* re-authenticates (a second start_game) and then restores: the actions of *)
(* the current round are replayed in one burst.  The recorder must turn     *)
(* what it sees into at most one record per game, each round once.          *)
(***************************************************************************)
EXTENDS Integers, Sequences, SequencesExt

CONSTANTS MaxGames,   \* bound: games played in one behaviour
          MaxRounds,  \* bound: rounds of a game
          HandLen,    \* events of a round between its start_kyoku and end_kyoku
          MaxLeaves,  \* bound: how often the client leaves
          BusCap,     \* capacity of the mjai broadcast channel
          BufCap      \* MAX_EVENTS_PER_GAME

ASSUME RecorderAssumption ==
  /\ MaxGames \in Nat /\ MaxRounds \in Nat /\ HandLen \in Nat /\ MaxLeaves \in Nat
  /\ BusCap \in Nat \ {0} /\ BufCap \in Nat \ {0}

NoId == 0
Kinds == {"start_game", "start_kyoku", "play", "end_kyoku", "confirmed", "terminated"}
(* id is game_meta.game_id; game, round and step say what the event is.     *)
Event == [kind : Kinds, id : Nat, game : 1..MaxGames, round : 0..MaxRounds, step : 0..HandLen]

VARIABLES
  \* the table
  game, tagged,   \* the game played last, and whether its payloads carry an id
  phase,          \* "over", "between" rounds or in a "hand"
  round, step,    \* the round played last, and its events so far
  client,         \* "away", "syncing" (authenticated, not restored) or "here"
  leaves,         \* times the client left
  \* the recorder's receiver
  rx, lagged,     \* undelivered events; some were overwritten
  \* RecorderState
  buffering, buf, \* buf.is_some(), and its events
  overflown, gameId, awaiting,
  \* history
  records,        \* event logs handed to the store and written
  unsaved,        \* games whose record the store failed to write
  disturbed,      \* games with an absence, a lag or an overflow
  ended           \* games whose end was confirmed

table == <<game, tagged, phase, round, step, client, leaves>>
state == <<buffering, buf, overflown, gameId, awaiting>>
hist == <<records, unsaved, disturbed, ended>>
recorderVars == <<game, tagged, phase, round, step, client, leaves, rx, lagged, buffering, buf, overflown,
          gameId, awaiting, records, unsaved, disturbed, ended>>

-----------------------------------------------------------------------------
(* The bridge.                                                              *)

Ev(kind, r, k) == [kind |-> kind, id |-> IF kind = "start_game" /\ tagged THEN game ELSE NoId,
                   game |-> game, round |-> r, step |-> k]

(* The events of round r up to its k-th.                                    *)
Replay(r, k) == <<Ev("start_kyoku", r, 0)>> \o [i \in 1..k |-> Ev("play", r, i)]

(* broadcast::Sender::send for a burst of events; the oldest are lost.      *)
Publish(events) ==
  LET all == rx \o events
  IN  IF Len(all) <= BusCap
      THEN rx' = all /\ UNCHANGED <<lagged, disturbed>>
      ELSE /\ rx' = SubSeq(all, Len(all) - BusCap + 1, Len(all))
           /\ lagged' = TRUE
           /\ disturbed' = disturbed \cup {all[i].game : i \in 1..(Len(all) - BusCap)}

PublishIfHere(events) ==
  IF client = "here" THEN Publish(events) ELSE UNCHANGED <<rx, lagged, disturbed>>

NewGame(withId) ==
  /\ phase = "over" /\ game < MaxGames
  /\ game' = game + 1 /\ tagged' = withId
  /\ phase' = "between" /\ round' = 0 /\ step' = 0 /\ client' = "here"
  /\ Publish(<<[kind |-> "start_game", id |-> IF withId THEN game + 1 ELSE NoId,
                game |-> game + 1, round |-> 0, step |-> 0]>>)
  /\ UNCHANGED <<leaves, state, records, unsaved, ended>>

Deal ==
  /\ phase = "between" /\ round < MaxRounds
  /\ phase' = "hand" /\ round' = round + 1 /\ step' = 0
  /\ PublishIfHere(<<Ev("start_kyoku", round + 1, 0)>>)
  /\ UNCHANGED <<game, tagged, client, leaves, state, records, unsaved, ended>>

Play ==
  /\ phase = "hand" /\ step < HandLen
  /\ step' = step + 1
  /\ PublishIfHere(<<Ev("play", round, step + 1)>>)
  /\ UNCHANGED <<game, tagged, phase, round, client, leaves, state, records, unsaved, ended>>

EndHand ==
  /\ phase = "hand" /\ step = HandLen
  /\ phase' = "between"
  /\ PublishIfHere(<<Ev("end_kyoku", round, 0)>>)
  /\ UNCHANGED <<game, tagged, round, step, client, leaves, state, records, unsaved, ended>>

(* NotifyGameEndResult and NotifyGameTerminate.                             *)
EndGame(kind) ==
  /\ \/ kind = "confirmed" /\ phase = "between" /\ round > 0
     \/ kind = "terminated" /\ phase # "over"
  /\ phase' = "over" /\ client' = "away"
  /\ PublishIfHere(<<Ev(kind, 0, 0)>>)
  /\ ended' = IF kind = "confirmed" /\ client = "here" THEN ended \cup {game} ELSE ended
  /\ UNCHANGED <<game, tagged, round, step, leaves, state, records, unsaved>>

Leave ==
  /\ phase # "over" /\ client # "away" /\ leaves < MaxLeaves
  /\ client' = "away" /\ leaves' = leaves + 1
  /\ disturbed' = disturbed \cup {game}
  /\ UNCHANGED <<game, tagged, phase, round, step, rx, lagged, state,
                 records, unsaved, ended>>

(* The authGame response of a rejoin.                                       *)
Rejoin ==
  /\ phase # "over" /\ client = "away"
  /\ client' = "syncing"
  /\ Publish(<<Ev("start_game", 0, 0)>>)
  /\ UNCHANGED <<game, tagged, phase, round, step, leaves, state, records, unsaved, ended>>

(* handle_game_restore: the current round's actions in one burst; between   *)
(* rounds the restore is empty or is the round that just ended.             *)
Restore ==
  /\ phase # "over" /\ client = "syncing"
  /\ client' = "here"
  /\ \/ phase = "hand" /\ Publish(Replay(round, step))
     \/ phase = "between" /\ Publish(<<>>)
     \/ /\ phase = "between" /\ round > 0
        /\ Publish(Append(Replay(round, HandLen), Ev("end_kyoku", round, 0)))
  /\ UNCHANGED <<game, tagged, phase, round, step, leaves, state, records, unsaved, ended>>

-----------------------------------------------------------------------------
(* drive_loop and RecorderState::handle.                                    *)

Take(e) == rx # <<>> /\ ~lagged /\ e = Head(rx) /\ rx' = Tail(rx) /\ UNCHANGED lagged

Reset ==
  /\ buffering' = FALSE /\ buf' = <<>> /\ overflown' = FALSE
  /\ gameId' = NoId /\ awaiting' = FALSE

(* RecorderState::push onto `log`: dropped without a buffer or after an     *)
(* overflow; at the cap the buffer is cleared.                              *)
PushTo(log, e) ==
  IF overflown \/ ~buffering
  THEN buf' = log /\ UNCHANGED <<overflown, disturbed>>
  ELSE IF Len(log) >= BufCap
       THEN /\ buf' = <<>> /\ overflown' = TRUE
            /\ disturbed' = disturbed \cup {e.game}
       ELSE buf' = Append(log, e) /\ UNCHANGED <<overflown, disturbed>>

Reconnecting(e) == e.id # NoId /\ e.id = gameId /\ buffering /\ ~overflown

StartGameAgain(e) ==
  /\ Take(e) /\ e.kind = "start_game" /\ Reconnecting(e)
  /\ awaiting' = TRUE
  /\ UNCHANGED <<table, buffering, buf, overflown, gameId, hist>>

(* Mutant of StartGameFresh: the overflow of the last game is not cleared.  *)
StartGameFreshOverflown(e) ==
  /\ Take(e) /\ e.kind = "start_game" /\ ~Reconnecting(e)
  /\ buffering' = TRUE /\ buf' = <<e>> /\ UNCHANGED overflown
  /\ gameId' = e.id /\ awaiting' = FALSE
  /\ UNCHANGED <<table, hist>>

StartGameFresh(e) ==
  /\ Take(e) /\ e.kind = "start_game" /\ ~Reconnecting(e)
  /\ buffering' = TRUE /\ buf' = <<e>> /\ overflown' = FALSE
  /\ gameId' = e.id /\ awaiting' = FALSE
  /\ UNCHANGED <<table, hist>>

(* EndGame Confirmed: push, finalise, reset.  finalise writes nothing for a *)
(* buffer that is absent or overflown; the store may fail.                  *)
GameConfirmed(e) ==
  /\ Take(e) /\ e.kind = "confirmed"
  /\ IF buffering /\ ~overflown /\ Len(buf) < BufCap
     THEN \/ records' = Append(records, Append(buf, e)) /\ UNCHANGED unsaved
          \/ unsaved' = unsaved \cup {e.game} /\ UNCHANGED records
     ELSE UNCHANGED <<records, unsaved>>
  /\ disturbed' = IF buffering /\ ~overflown /\ Len(buf) >= BufCap
                  THEN disturbed \cup {e.game} ELSE disturbed
  /\ Reset
  /\ UNCHANGED <<table, ended>>

GameTerminated(e) ==
  /\ Take(e) /\ e.kind = "terminated"
  /\ Reset
  /\ UNCHANGED <<table, hist>>

(* rposition: 0 when there is none.                                         *)
LastOf(kind) == SelectLastInSeq(buf, LAMBDA e : e.kind = kind)

(* reconcile_restored_round: where the restored round replaces the buffer.  *)
Truncated(e) ==
  LET start == LastOf("start_kyoku")
      end == LastOf("end_kyoku")
      keep == IF start # 0 /\ buf[start].round = e.round THEN start - 1
              ELSE IF end # 0 THEN end ELSE 1
  IN  SubSeq(buf, 1, IF keep < Len(buf) THEN keep ELSE Len(buf))

RestoredRound(e) ==
  /\ Take(e) /\ e.kind = "start_kyoku" /\ awaiting
  /\ awaiting' = FALSE
  /\ PushTo(IF buffering THEN Truncated(e) ELSE buf, e)
  /\ UNCHANGED <<table, buffering, gameId, records, unsaved, ended>>

Other(e) ==
  /\ Take(e)
  /\ e.kind \in {"play", "end_kyoku"} \/ (e.kind = "start_kyoku" /\ ~awaiting)
  /\ PushTo(buf, e)
  /\ UNCHANGED <<table, buffering, gameId, awaiting, records, unsaved, ended>>

(* Mutant of Lagged: the buffer is kept.                                    *)
LaggedKeeps == lagged /\ lagged' = FALSE /\ UNCHANGED <<table, rx, state, hist>>

(* RecvError::Lagged.                                                       *)
Lagged ==
  /\ lagged /\ lagged' = FALSE
  /\ Reset
  /\ UNCHANGED <<table, rx, hist>>
-----------------------------------------------------------------------------
RecorderInit ==
  /\ game = 0 /\ tagged = FALSE /\ phase = "over" /\ round = 0 /\ step = 0
  /\ client = "away" /\ leaves = 0
  /\ rx = <<>> /\ lagged = FALSE
  /\ buffering = FALSE /\ buf = <<>> /\ overflown = FALSE /\ gameId = NoId /\ awaiting = FALSE
  /\ records = <<>> /\ unsaved = {} /\ disturbed = {} /\ ended = {}

Table == \/ \E withId \in BOOLEAN : NewGame(withId)
         \/ Deal \/ Play \/ EndHand \/ \E kind \in {"confirmed", "terminated"} : EndGame(kind)
         \/ Leave \/ Rejoin \/ Restore

Handle(e) == \/ StartGameAgain(e) \/ StartGameFresh(e) \/ GameConfirmed(e) \/ GameTerminated(e)
             \/ RestoredRound(e) \/ Other(e)

RecorderNext == Table \/ (rx # <<>> /\ Handle(Head(rx))) \/ Lagged
RecorderSpec == RecorderInit /\ [][RecorderNext]_recorderVars
-----------------------------------------------------------------------------
RecorderTypeOK ==
  /\ game \in 0..MaxGames /\ tagged \in BOOLEAN
  /\ phase \in {"over", "between", "hand"} /\ round \in 0..MaxRounds /\ step \in 0..HandLen
  /\ client \in {"away", "syncing", "here"} /\ leaves \in 0..MaxLeaves
  /\ rx \in Seq(Event) /\ Len(rx) <= BusCap /\ lagged \in BOOLEAN
  /\ buffering \in BOOLEAN /\ buf \in Seq(Event) /\ Len(buf) <= BufCap
  /\ overflown \in BOOLEAN /\ gameId \in 0..MaxGames /\ awaiting \in BOOLEAN
  /\ records \in Seq(Seq(Event))
  /\ \A S \in {unsaved, disturbed, ended} : S \subseteq 1..MaxGames

(* Where the events of a record's round begin; the rounds it holds.         *)
Starts(log) == {i \in DOMAIN log : log[i].kind = "start_kyoku"}

(* A game is recorded at most once and only after its end was confirmed.     *)
(* Its record holds that game alone and its rounds in order, each once,      *)
(* however often the client left and the round was restored; a round has its *)
(* events in order without a gap, and only the last may lack its end.        *)
WholeRound(r) == Append(<<[kind |-> "start_kyoku", round |-> r, step |-> 0]>> \o
                        [i \in 1..HandLen |-> [kind |-> "play", round |-> r, step |-> i]],
                        [kind |-> "end_kyoku", round |-> r, step |-> 0])
Plain(e) == [kind |-> e.kind, round |-> e.round, step |-> e.step]
RoundAt(log, i) == LET later == {j \in Starts(log) \cup {Len(log)} : j > i}
                       next == CHOOSE j \in later : \A k \in later : j <= k
                   IN  [k \in 1..(next - i) |-> Plain(log[i + k - 1])]
RoundsOnceInOrder(log) == \A i, j \in Starts(log) : i < j => log[i].round < log[j].round
RoundsHaveNoGap(log) ==
  \A i \in Starts(log) :
    IF \E j \in Starts(log) : j > i
    THEN RoundAt(log, i) = WholeRound(log[i].round)
    ELSE IsPrefix(RoundAt(log, i), WholeRound(log[i].round))

RecordsAreWhole ==
  /\ \A n, k \in DOMAIN records : n # k => records[n][1].game # records[k][1].game
  /\ \A n \in DOMAIN records : LET log == records[n] IN
       /\ log[1].game \in ended /\ \A i \in DOMAIN log : log[i].game = log[1].game
       /\ RoundsOnceInOrder(log) /\ RoundsHaveNoGap(log)

(* An undisturbed game that ended is recorded with every round, unless the  *)
(* store failed: the recorder never drops a game by itself.                 *)
QuietGameIsRecorded ==
  rx = <<>> /\ ~lagged =>
    \A g \in ended \ (disturbed \cup unsaved) :
      \E n \in DOMAIN records : records[n][1].game = g /\ records[n][2].round = 1
=============================================================================
