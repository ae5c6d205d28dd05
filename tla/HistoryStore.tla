---------------------------- MODULE HistoryStore ----------------------------
(***************************************************************************)
(* The JSONL history store: src/src/history/store.rs.                       *)
(*                                                                         *)
(* On disk: index.jsonl and one log per game.  A line of the index is the   *)
(* sequence of pieces written since the last newline; it parses only when   *)
(* it is one whole record.  `writeln!` on a File issues the record and its  *)
(* newline as separate writes, so a process that stops between them leaves  *)
(* an open line, which the next append continues; a write may also fail     *)
(* part-way.  `harmed` remembers the games whose record such a write spoilt.*)
(*                                                                         *)
(* Workers run append (the recorder task) and delete (IPC commands), one    *)
(* file-system call per step, under write_lock.  A crash ends every worker  *)
(* and leaves the files as they are.                                        *)
(***************************************************************************)
EXTENDS Naturals, Sequences, FiniteSets

CONSTANTS Workers,   \* threads inside append or delete
          Games,     \* game ids (fresh ULIDs: each is appended at most once)
          Faults     \* what may go wrong: a subset of FaultKinds

NoWorker == "none"
NoGame == "nogame"
FaultKinds == {"crash",      \* the process stops
               "io_error",   \* a file-system call fails and changes nothing
               "torn"}       \* writing the index line fails part-way

ASSUME StoreAssumption ==
  NoWorker \notin Workers /\ NoGame \notin Games /\ Faults \subseteq FaultKinds

Pieces == [game : Games, whole : BOOLEAN]
Phases == {"idle", "log", "line", "newline", "undo", "read", "rename", "unlink"}

VARIABLES
  lines,    \* index.jsonl, a sequence of lines
  open,     \* the last line has no newline yet
  log,      \* games/<id>.mjai.jsonl: "none", "partial" or "complete"
  lock,     \* write_lock's holder
  pc, job,  \* per worker: next file-system call, and its game
  kept,     \* per worker: the records delete read back
  used,     \* history: games ever passed to append
  acked,    \* history: games whose append returned Ok
  deleted,  \* history: games delete has taken out of the index
  harmed,   \* history: games whose record an interrupted write spoilt
  breaks    \* history: interrupted writes of an index line

disk == <<lines, open, log>>
damage == <<harmed, breaks>>
storeVars == <<lines, open, log, lock, pc, job, kept, used, acked, deleted, harmed, breaks>>

-----------------------------------------------------------------------------
(* read_all: a line that does not parse is skipped.                         *)
Parses(line) == Len(line) = 1 /\ line[1].whole
Listed == {g \in Games : \E i \in DOMAIN lines : Parses(lines[i]) /\ lines[i][1].game = g}

OnOpenLine == IF open THEN {lines[Len(lines)][i].game : i \in DOMAIN lines[Len(lines)]} ELSE {}

(* OpenOptions::append: the piece lands at the end of the file.  A piece    *)
(* that is torn or glued to an open line spoils every record on its line.   *)
Write(piece) ==
  /\ IF open
     THEN lines' = [lines EXCEPT ![Len(lines)] = Append(@, piece)] /\ UNCHANGED open
     ELSE lines' = Append(lines, <<piece>>) /\ open' = TRUE
  /\ harmed' = IF open \/ ~piece.whole THEN harmed \cup OnOpenLine \cup {piece.game} ELSE harmed

(* rewrite_index_locked: the parsed records but one, a line each, renamed   *)
(* over the index in one step.                                              *)
Rewrite(records) ==
  /\ lines' = [i \in 1..Len(records) |-> <<[game |-> records[i], whole |-> TRUE]>>]
  /\ open' = FALSE

(* The records read_all lists and delete keeps: all but those of game g.    *)
RecordsBut(g) ==
  LET read[n \in 0..Len(lines)] ==
        IF n = 0 THEN <<>>
        ELSE IF Parses(lines[n]) /\ lines[n][1].game # g
             THEN Append(read[n - 1], lines[n][1].game)
             ELSE read[n - 1]
  IN  read[Len(lines)]

StoreInit ==
  /\ lines = <<>> /\ open = FALSE /\ log = [g \in Games |-> "none"]
  /\ lock = NoWorker
  /\ pc = [w \in Workers |-> "idle"] /\ job = [w \in Workers |-> NoGame]
  /\ kept = [w \in Workers |-> <<>>]
  /\ used = {} /\ acked = {} /\ deleted = {} /\ harmed = {} /\ breaks = 0

Step(w, from, to) == pc[w] = from /\ pc' = [pc EXCEPT ![w] = to]

(* Mutant of Acquire: the write lock is not taken.                          *)
AcquireNothing(w) == pc[w] = "idle" /\ UNCHANGED lock

Acquire(w) == pc[w] = "idle" /\ lock = NoWorker /\ lock' = w

Finish(w) ==
  /\ pc' = [pc EXCEPT ![w] = "idle"]
  /\ job' = [job EXCEPT ![w] = NoGame]
  /\ kept' = [kept EXCEPT ![w] = <<>>]
  /\ lock' = IF lock = w THEN NoWorker ELSE lock

-----------------------------------------------------------------------------
(* append.                                                                  *)

(* File::create on the game log.                                            *)
AppendBegin(w, g) ==
  /\ Acquire(w) /\ Step(w, "idle", "log")
  /\ g \notin used /\ used' = used \cup {g}
  /\ job' = [job EXCEPT ![w] = g]
  /\ log' = [log EXCEPT ![g] = "partial"]
  /\ UNCHANGED <<lines, open, kept, acked, deleted, damage>>

(* write_jsonl_events writes the last event and syncs; or it fails and      *)
(* append returns at once, leaving a partial log.                           *)
AppendLog(w) ==
  /\ Step(w, "log", "line")
  /\ log' = [log EXCEPT ![job[w]] = "complete"]
  /\ UNCHANGED <<lines, open, lock, job, kept, used, acked, deleted, damage>>

AppendLogFails(w) ==
  /\ "io_error" \in Faults /\ pc[w] = "log"
  /\ Finish(w)
  /\ UNCHANGED <<disk, used, acked, deleted, damage>>

(* append_index_locked: the record, then its newline.                       *)
AppendLine(w) ==
  /\ Step(w, "line", "newline")
  /\ Write([game |-> job[w], whole |-> TRUE])
  /\ UNCHANGED <<log, lock, job, kept, used, acked, deleted, breaks>>

AppendTorn(w) ==
  /\ "torn" \in Faults /\ Step(w, "line", "undo")
  /\ Write([game |-> job[w], whole |-> FALSE])
  /\ breaks' = breaks + 1
  /\ UNCHANGED <<log, lock, job, kept, used, acked, deleted>>

AppendLineFails(w) ==
  /\ "io_error" \in Faults /\ Step(w, "line", "undo")
  /\ UNCHANGED <<disk, lock, job, kept, used, acked, deleted, damage>>

(* Mutant of AppendNewline: `write!` in place of `writeln!`.                *)
AppendNewlineMissing(w) ==
  /\ pc[w] = "newline"
  /\ acked' = acked \cup {job[w]}
  /\ Finish(w)
  /\ UNCHANGED <<lines, open, log, used, deleted, damage>>

AppendNewline(w) ==
  /\ pc[w] = "newline"
  /\ open' = FALSE
  /\ acked' = acked \cup {job[w]}
  /\ Finish(w)
  /\ UNCHANGED <<lines, log, used, deleted, damage>>

(* The record is written and its newline is not: append rolls back.         *)
AppendNewlineFails(w) ==
  /\ "torn" \in Faults /\ Step(w, "newline", "undo")
  /\ harmed' = harmed \cup {job[w]} /\ breaks' = breaks + 1
  /\ UNCHANGED <<disk, lock, job, kept, used, acked, deleted>>

(* The rollback after a failed index write removes the game log, if it can. *)
AppendUndo(w) ==
  /\ pc[w] = "undo"
  /\ \/ log' = [log EXCEPT ![job[w]] = "none"]
     \/ "io_error" \in Faults /\ UNCHANGED log
  /\ Finish(w)
  /\ UNCHANGED <<lines, open, used, acked, deleted, damage>>

-----------------------------------------------------------------------------
(* delete.                                                                  *)

DeleteBegin(w, g) ==
  /\ Acquire(w) /\ Step(w, "idle", "read")
  /\ job' = [job EXCEPT ![w] = g]
  /\ UNCHANGED <<disk, kept, used, acked, deleted, damage>>

(* read_all, and Ok(false) when the game is not listed.                     *)
DeleteRead(w) ==
  /\ pc[w] = "read"
  /\ IF job[w] \in Listed
     THEN /\ pc' = [pc EXCEPT ![w] = "rename"]
          /\ kept' = [kept EXCEPT ![w] = RecordsBut(job[w])]
          /\ UNCHANGED <<lock, job>>
     ELSE Finish(w)
  /\ UNCHANGED <<disk, used, acked, deleted, damage>>

(* The new index is written beside the old one and renamed over it.         *)
DeleteRename(w) ==
  /\ Step(w, "rename", "unlink")
  /\ Rewrite(kept[w])
  /\ deleted' = deleted \cup {job[w]}
  /\ UNCHANGED <<log, lock, job, kept, used, acked, damage>>

DeleteUnlink(w) ==
  /\ pc[w] = "unlink"
  /\ log' = [log EXCEPT ![job[w]] = "none"]
  /\ Finish(w)
  /\ UNCHANGED <<lines, open, used, acked, deleted, damage>>

(* Reading or rewriting the index or removing the log fails: delete returns *)
(* the error.                                                               *)
DeleteFails(w) ==
  /\ "io_error" \in Faults /\ pc[w] \in {"read", "rename", "unlink"}
  /\ Finish(w)
  /\ UNCHANGED <<disk, used, acked, deleted, damage>>

(* The process stops and is started again.                                  *)
Crash ==
  /\ "crash" \in Faults
  /\ \E w \in Workers : pc[w] # "idle"
  /\ lock' = NoWorker
  /\ pc' = [w \in Workers |-> "idle"]
  /\ job' = [w \in Workers |-> NoGame]
  /\ kept' = [w \in Workers |-> <<>>]
  /\ breaks' = IF \E w \in Workers : pc[w] = "newline" THEN breaks + 1 ELSE breaks
  /\ UNCHANGED <<disk, used, acked, deleted, harmed>>
-----------------------------------------------------------------------------
AppendStep(w) == \/ \E g \in Games : AppendBegin(w, g)
                 \/ AppendLog(w) \/ AppendLogFails(w)
                 \/ AppendLine(w) \/ AppendLineFails(w) \/ AppendTorn(w)
                 \/ AppendNewline(w) \/ AppendNewlineFails(w) \/ AppendUndo(w)
DeleteStep(w) == \/ \E g \in Games : DeleteBegin(w, g)
                 \/ DeleteRead(w) \/ DeleteRename(w) \/ DeleteUnlink(w) \/ DeleteFails(w)

StoreNext == (\E w \in Workers : AppendStep(w) \/ DeleteStep(w)) \/ Crash
StoreSpec == StoreInit /\ [][StoreNext]_storeVars
-----------------------------------------------------------------------------
StoreTypeOK ==
  /\ lines \in Seq(Seq(Pieces)) /\ open \in BOOLEAN
  /\ log \in [Games -> {"none", "partial", "complete"}]
  /\ lock \in Workers \cup {NoWorker}
  /\ pc \in [Workers -> Phases] /\ job \in [Workers -> Games \cup {NoGame}]
  /\ kept \in [Workers -> Seq(Games)]
  /\ used \subseteq Games /\ acked \subseteq Games /\ deleted \subseteq Games
  /\ harmed \subseteq Games /\ breaks \in Nat

(* A game whose append returned Ok stays listed until it is deleted, with   *)
(* its whole event log, after any crash and any failed call, but for records *)
(* that share a line with an interrupted write.  Such a write costs at most *)
(* its own record and the one appended next: damage does not spread.        *)
AckedSurvives ==
  /\ acked \subseteq Listed \cup deleted \cup harmed
  /\ \A g \in Listed \ harmed : log[g] = "complete"
  /\ Cardinality(harmed) <= 2 * breaks

(* The store implements the archive: games enter and leave it one by one,   *)
(* each once, and only damage takes away what nobody deleted.               *)
Archive == INSTANCE GameArchive
  WITH listing <- Listed \ harmed, removed <- deleted, damaged <- harmed
ImplementsArchive == Archive!Spec
=============================================================================
