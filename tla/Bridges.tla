-------------------------------- MODULE Bridges --------------------------------
(***************************************************************************)
(* A table (Table), the wire its server writes to, the bridge of one of the  *)
(* three platforms (TenhouBridge, MajsoulBridge, RiichiCityBridge), the mjai *)
(* events it publishes, what a consumer of the stream knows after them       *)
(* (MjaiView) and the scores the history keeps of them (GameScores).         *)
(*                                                                         *)
(* A bridge parses one frame at a time under its flow's mutex, and the       *)
(* proxy publishes the events of a frame in order, so frames and events are  *)
(* queues without loss; a flow opens a bridge of its own when the client     *)
(* joins again.  The table waits until its last move is read: more moves in  *)
(* flight would not change what the parser does with each.                   *)
(***************************************************************************)
EXTENDS Table, MjaiView

CONSTANTS
  Platforms,      (* the platforms to explore                                 *)
  Rejoins,        (* how often a client may join again                        *)
  RejoinBy,       (* bound: and only up to this move                          *)
  SanmaRejoins    (* whether a Tenhou client may do so in a three-player game *)

ASSUME BridgesAssumption ==
  Platforms \subseteq {"tenhou", "majsoul", "riichi_city"} /\ Rejoins \in Nat /\ RejoinBy \in Nat /\ SanmaRejoins \in BOOLEAN

VARIABLES
  platform, rejoins,
  log,      (* the actions of the running hand, which Majsoul can send again  *)
  wire,     (* frames the bridge has not read yet                             *)
  bridge,   (* the bridge's state                                             *)
  out,      (* events not published yet                                       *)
  view,     (* what a consumer of the stream knows                            *)
  record    (* the scores the history keeps                                   *)

bridgeVars == <<platform, rejoins, log, wire, bridge, out, view, record>>
vars == <<table, move, bridgeVars>>

Tenhou == INSTANCE TenhouBridge
Majsoul == INSTANCE MajsoulBridge
RiichiCity == INSTANCE RiichiCityBridge
FullScore(n) == n * StartScore(n)
Scores == INSTANCE GameScores WITH Total <- FullScore
Stream == INSTANCE MjaiStream

Fresh ==
  CASE platform = "tenhou"  -> Tenhou!Fresh
    [] platform = "majsoul" -> Majsoul!Fresh
    [] OTHER                -> RiichiCity!Fresh

Parsed(f) ==
  CASE platform = "tenhou"  -> Tenhou!Parse(bridge, f)
    [] platform = "majsoul" -> Majsoul!Parse(bridge, f)
    [] OTHER                -> RiichiCity!Parse(bridge, f)

Quiet == wire = <<>> /\ out = <<>>

BridgesInit ==
  /\ Init
  /\ platform \in Platforms
  /\ rejoins = Rejoins
  /\ log = <<>> /\ wire = <<>> /\ out = <<>>
  /\ bridge = Fresh
  /\ view = NoView
  /\ record = Scores!NoRecord

(* ---- the server tells its clients of a move ---- *)

(* A Majsoul game has a connection of its own, whose bridge knows nothing;   *)
(* only the budget slot is shared by all bridges.                            *)
Connected == IF platform = "majsoul" THEN [Fresh EXCEPT !.window = bridge.window] ELSE bridge

Sent(early) ==
  CASE platform = "tenhou"  -> Tenhou!Frames(table, table', move')
    [] platform = "majsoul" -> Majsoul!Frames(table, table', move', early) \o Majsoul!Result(table', move')
    [] OTHER                -> RiichiCity!Frames(table, table', move') \o RiichiCity!Result(table', move')

Logged(frames) ==
  IF platform # "majsoul" \/ rejoins = 0 \/ table'.moves > RejoinBy \/ move'.kind \in {"sit", "win", "exhaust", "terminate"} THEN <<>>
  ELSE IF move'.kind = "deal" THEN frames ELSE log \o frames

Tells ==
  /\ Quiet
  /\ \E early \in BOOLEAN :
       /\ early => platform = "majsoul" /\ table.due > 0 /\ move'.kind = "draw"
       /\ wire' = Sent(early) /\ log' = Logged(Sent(early))
  /\ bridge' = IF move'.kind = "sit" THEN Connected ELSE bridge
  /\ UNCHANGED <<platform, rejoins, out, view, record>>

ServerSits == Sit /\ Tells
ServerDeals == Deal /\ Tells
ServerDraws == Draw /\ Tells
ServerDiscards == Discard /\ Tells
ServerCalls == Call /\ Tells
ServerKans == OwnKan /\ Tells
ServerTsumo == Tsumo /\ Tells
ServerRon == Ron /\ Tells
ServerExhausts == Exhaust /\ Tells
ServerTerminates == platform = "majsoul" /\ Terminate /\ Tells

(* The client joins again over a new connection.  Majsoul answers with the   *)
(* hand so far; Tenhou with the start of the game again, here between two    *)
(* hands.                                                                   *)
MajsoulRejoins ==
  /\ platform = "majsoul" /\ table.games > 0 /\ table.stage # "over"
  /\ wire' = Majsoul!Join(table) \o <<[type |-> "syncGame", actions |-> log]>>
  /\ bridge' = Connected

TenhouRejoins ==
  /\ platform = "tenhou" /\ table.stage = "between" /\ (table.n = 3 => SanmaRejoins)
  /\ wire' = Tenhou!Frames(table, table, Mv("sit", 0))
  /\ bridge' = Fresh

Rejoin ==
  /\ Quiet /\ rejoins > 0 /\ table.moves <= RejoinBy
  /\ MajsoulRejoins \/ TenhouRejoins
  /\ rejoins' = rejoins - 1
  /\ UNCHANGED <<table, move, platform, log, out, view, record>>

(* ---- the program ---- *)
Parse ==
  /\ wire # <<>> /\ out = <<>>
  /\ LET result == Parsed(Head(wire))
     IN bridge' = result.bridge /\ out' = result.events
  /\ wire' = Tail(wire)
  /\ UNCHANGED <<table, move, platform, rejoins, log, view, record>>

Publish ==
  /\ out # <<>>
  /\ view' = After(view, Head(out))
  /\ record' = Scores!Record(record, Head(out))
  /\ out' = Tail(out)
  /\ UNCHANGED <<table, move, platform, rejoins, log, wire, bridge>>

Next ==
  \/ ServerSits \/ ServerDeals \/ ServerDraws \/ ServerDiscards \/ ServerCalls \/ ServerKans
  \/ ServerTsumo \/ ServerRon \/ ServerExhausts \/ ServerTerminates
  \/ Rejoin \/ Parse \/ Publish

Spec == BridgesInit /\ [][Next]_vars

(* ---- properties ---- *)

(* Types.                                                                    *)
TypeOK ==
  /\ platform \in Platforms /\ rejoins \in 0..Rejoins
  /\ table.moves \in 0..MaxMoves /\ table.shown \in 1..MaxDora
  /\ Len(wire) <= 6 /\ Len(out) <= 4 * MaxMoves
  /\ view.players \in {0, 3, 4} /\ view.accepted \subseteq 0..3
  /\ view.dora \in 0..MaxDora

(* Whatever the players do, with riichi declarations that are called, ronned *)
(* or pass, kans of every kind, several winners, aborted hands, games one    *)
(* after the other and clients that join again: every bridge publishes each  *)
(* event where the grammar of the stream allows it.                          *)
StreamIsLegal == Stream!Spec

(* Whenever everything is read, a consumer's view is the table's state: who  *)
(* holds the turn and whether he drew, whose riichi stand or are declared,   *)
(* whether the last tile given up was the one drawn, and after a discard how *)
(* many dora indicators show; and a ron is charged to the seat that gave the *)
(* tile.  Riichi City alone charges the last discarder when a kan is robbed. *)
InHand == table.stage \in {"act", "open"}
Robbed == platform = "riichi_city" /\ move.call # "none"

ViewIsTheTable ==
  Quiet =>
    /\ InHand => /\ view.phase = "hand" /\ view.players = table.n /\ view.seat = table.me
                 /\ view.holder = IF table.stage = "act" THEN table.turn ELSE Nobody
                 /\ table.stage = "act" => view.drew = table.drew
                 /\ view.accepted = table.accepted /\ view.reach = table.pending
    /\ move.kind = "discard" /\ InHand =>
         /\ view.floor = move.seat /\ view.dora = table.shown
         /\ view.giri = move.giri
    /\ move.kind = "win" /\ view.phase = "ended" => view.target = move.from \/ Robbed

(* Whenever everything is read, a decision window is open if and only if the *)
(* server waits for us: for our discard, or for our answer to a tile it      *)
(* offers.  Riichi City closes a window that we let pass only with the next  *)
(* action, and opens none for the dealer's first discard.                    *)
Owed == InHand /\ ((table.stage = "act" /\ table.turn = table.me) \/ table.offer)

WindowWhenOwed ==
  Quiet =>
    /\ Owed => bridge.window \/ (platform = "riichi_city" /\ move.kind = "deal")
    /\ bridge.window => Owed \/ (platform = "riichi_city" /\ move.kind = "draw")

(* At the end of every hand and game the history's scores are the table's,   *)
(* riichi sticks and the leader's top-up included.  Not so where two players *)
(* win a hand and the events repeat the total, and, on Riichi City, where    *)
(* the declaration tile of a riichi is ronned.                               *)
Twice == platform # "tenhou" /\ Len(move.winners) = 2
Charged == platform = "riichi_city" /\ move.voided

ScoresFollowTheTable ==
  Quiet /\ move.kind \in {"win", "exhaust"} =>
    /\ view.phase = "ended" => record.running = table.score \/ Twice \/ Charged
    /\ move.final => record.final = table.score \/ (platform = "riichi_city" /\ (Twice \/ Charged))
=============================================================================
