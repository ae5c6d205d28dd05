------------------------------ MODULE MCRecords ------------------------------
(***************************************************************************)
(* What Akagi writes down of what passes by, side by side for TLC: which   *)
(* request an answer belongs to, on a Majsoul socket (RequestIds) and in   *)
(* the recording proxy (HttpPairing), what becomes a record of the history *)
(* (HistoryRecorder) and what becomes of it on disk (HistoryStore).  They  *)
(* share no state: side says which one a behaviour is about, the others    *)
(* keep an initial state.                                                  *)
(***************************************************************************)
EXTENDS RequestIds, HttpPairing, HistoryRecorder, HistoryStore, TLC

VARIABLE side

Sides == {"requests", "http", "recorder", "store"}

RecordsInit ==
  /\ Init /\ HttpInit /\ RecorderInit /\ StoreInit /\ side \in Sides
  /\ side # "requests" => leg = "page" /\ nextClient = 1

RecordsNext ==
  /\ UNCHANGED side
  /\ \/ side = "requests" /\ Next /\ UNCHANGED <<httpVars, recorderVars, storeVars>>
     \/ side = "http" /\ HttpNext /\ UNCHANGED <<vars, recorderVars, storeVars>>
     \/ side = "recorder" /\ RecorderNext /\ UNCHANGED <<vars, httpVars, storeVars>>
     \/ side = "store" /\ StoreNext /\ UNCHANGED <<vars, httpVars, recorderVars>>

RecordsSpec == RecordsInit /\ [][RecordsNext]_<<side, vars, httpVars, recorderVars, storeVars>>
=============================================================================
