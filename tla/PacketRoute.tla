----------------------------- MODULE PacketRoute -----------------------------
(***************************************************************************)
(* The way of an injected Majsoul frame through the MITM proxy.  Each       *)
(* connection has two relay tasks (src/src/proxy/handler.rs), which share a *)
(* bridge kept in a map under the client's address.  The downlink of the    *)
(* connection that carries a game selects it as the route: the bridge that  *)
(* builds frames and the uplink's channel that sends them, two slots with   *)
(* locks of their own (src/src/autoplay/context.rs).  The uplink, when it    *)
(* ends, withdraws the route if it is its own.  The autoplay manager builds *)
(* with the one and sends through the other (try_packet_action).            *)
(*                                                                         *)
(* A bridge is its flow id, a channel its connection.  An address is used   *)
(* again only when both tasks of its connection have returned, since they   *)
(* hold the socket.                                                         *)
(***************************************************************************)
EXTENDS Naturals, Sequences

CONSTANTS Clients,    \* client addresses
          MaxConns    \* bound: connections over time

ASSUME ConnsAssumption == MaxConns \in Nat

Conns == 1..MaxConns
Dirs == {"up", "down"}
None == 0

VARIABLES
  client,         \* the address of each connection so far
  relay,          \* its two tasks
  bridges,        \* the map: address to bridge
  next_flow_id,
  packet_senders, \* address to the uplink's channel
  packet_bridge, mitm_packet_tx,
  txLock,         \* the uplink that keeps mitm_packet_tx locked
  manager,        \* try_packet_action: its step, bridge and frame
  \* history
  madeFor,        \* the connection each bridge so far was made for
  kept,           \* bridges the route or the manager still held at the last release
  torn            \* two changes of the route overlapped, and none since was whole

proxy == <<bridges, next_flow_id, madeFor, kept>>
route == <<packet_bridge, mitm_packet_tx, txLock>>
vars == <<client, relay, bridges, next_flow_id, packet_senders, packet_bridge,
          mitm_packet_tx, txLock, manager, madeFor, kept, torn>>

Task(pc, b) == [pc |-> pc, bridge |-> b, alone |-> FALSE]
NotOpen == Task("unopened", None)
Resting == [pc |-> "rest", bridge |-> None]

Init ==
  /\ client = <<>>
  /\ relay = [c \in Conns |-> [d \in Dirs |-> NotOpen]]
  /\ bridges = [a \in Clients |-> None] /\ next_flow_id = 1
  /\ packet_senders = [a \in Clients |-> None]
  /\ packet_bridge = None /\ mitm_packet_tx = None /\ txLock = None
  /\ manager = Resting
  /\ madeFor = <<>> /\ kept = {} /\ torn = FALSE

At(c, d, pc) == relay[c][d].pc = pc
Goes(c, d, pc) == relay' = [relay EXCEPT ![c][d].pc = pc]
Finished(c) == \A d \in Dirs : At(c, d, "gone")

(* ---- a connection and its relays ---- *)

Open(a) ==
  /\ Len(client) < MaxConns /\ \A c \in DOMAIN client : client[c] = a => Finished(c)
  /\ client' = Append(client, a)
  /\ relay' = [relay EXCEPT ![Len(client) + 1] = [d \in Dirs |-> Task("start", None)]]
  /\ UNCHANGED <<proxy, packet_senders, route, manager, torn>>

(* acquire_bridge: the address's bridge, made at the first call.             *)
Acquire(c, d) ==
  LET a == client[c]
      b == IF bridges[a] = None THEN next_flow_id ELSE bridges[a]
  IN  /\ At(c, d, "start")
      /\ relay' = [relay EXCEPT ![c][d] = Task(IF d = "up" THEN "register" ELSE "reading", b)]
      /\ bridges' = [bridges EXCEPT ![a] = b]
      /\ IF bridges[a] = None
           THEN next_flow_id' = next_flow_id + 1 /\ madeFor' = Append(madeFor, c)
           ELSE UNCHANGED <<next_flow_id, madeFor>>
      /\ UNCHANGED <<client, packet_senders, route, manager, kept, torn>>

Register(c) ==
  /\ At(c, "up", "register") /\ Goes(c, "up", "reading")
  /\ packet_senders' = [packet_senders EXCEPT ![client[c]] = c]
  /\ UNCHANGED <<client, proxy, route, manager, torn>>

(* The peer or the user closes the connection.                               *)
Ends(c, d) ==
  /\ At(c, d, "reading") /\ Goes(c, d, IF d = "up" THEN "unregister" ELSE "drop")
  /\ UNCHANGED <<client, proxy, packet_senders, route, manager, torn>>

(* ---- changes of the route ---- *)

(* A downlink between the lookup and the second slot, or an uplink that      *)
(* withdraws, is changing the route.                                         *)
Changing(c, d) == relay[c][d].pc \in {"select_bridge", "select_tx", "clear_tx", "clear_bridge"}
Begins(c, d, pc) ==
  LET others == {cd \in Conns \X Dirs : cd # <<c, d>> /\ Changing(cd[1], cd[2])}
  IN  /\ relay' = [x \in Conns |-> [e \in Dirs |->
            IF <<x, e>> = <<c, d>> THEN [relay[c][d] EXCEPT !.pc = pc, !.alone = others = {}]
            ELSE [relay[x][e] EXCEPT !.alone = FALSE]]]
      /\ torn' = (torn \/ others # {})

(* An ActionPrototype: look the uplink's channel up ...                      *)
Look(c) ==
  /\ At(c, "down", "reading") /\ packet_senders[client[c]] # None
  /\ Begins(c, "down", "select_bridge")
  /\ UNCHANGED <<client, proxy, packet_senders, route, manager>>

(* ... take the first slot ...                                               *)
SelectBridge(c) ==
  /\ At(c, "down", "select_bridge") /\ Goes(c, "down", "select_tx")
  /\ packet_bridge' = relay[c]["down"].bridge
  /\ UNCHANGED <<client, proxy, packet_senders, mitm_packet_tx, txLock, manager, torn>>

(* ... and the second.                                                       *)
SelectTx(c) ==
  /\ At(c, "down", "select_tx") /\ txLock = None
  /\ relay' = [relay EXCEPT ![c]["down"] = Task("reading", @.bridge)]
  /\ mitm_packet_tx' = c
  /\ torn' = (torn /\ ~relay[c]["down"].alone)
  /\ UNCHANGED <<client, proxy, packet_senders, packet_bridge, txLock, manager>>

Unregister(c) ==
  /\ At(c, "up", "unregister")
  /\ packet_senders' = [packet_senders EXCEPT ![client[c]] = None]
  /\ Begins(c, "up", "clear_tx")
  /\ UNCHANGED <<client, proxy, route, manager>>

(* Mutant of ClearTx: whoever's the channel is.                              *)
ClearTxAnyway(c) ==
  /\ At(c, "up", "clear_tx") /\ txLock = None /\ Goes(c, "up", "clear_bridge")
  /\ mitm_packet_tx' = None /\ txLock' = c
  /\ UNCHANGED <<client, proxy, packet_senders, packet_bridge, manager, torn>>

ClearTx(c) ==
  /\ At(c, "up", "clear_tx") /\ txLock = None /\ Goes(c, "up", "clear_bridge")
  /\ mitm_packet_tx' = IF mitm_packet_tx = c THEN None ELSE mitm_packet_tx
  /\ txLock' = c
  /\ UNCHANGED <<client, proxy, packet_senders, packet_bridge, manager, torn>>

ClearBridge(c) ==
  /\ At(c, "up", "clear_bridge")
  /\ relay' = [relay EXCEPT ![c]["up"] = Task("drop", @.bridge)]
  /\ packet_bridge' = IF packet_bridge = relay[c]["up"].bridge THEN None ELSE packet_bridge
  /\ txLock' = None
  /\ UNCHANGED <<client, proxy, packet_senders, mitm_packet_tx, manager, torn>>

(* ---- release_bridge ---- *)

(* Mutant of Drop: the reference lives on until the function returns.        *)
DropLate(c, d) ==
  /\ At(c, d, "drop") /\ Goes(c, d, "reap")
  /\ UNCHANGED <<client, proxy, packet_senders, route, manager, torn>>

Drop(c, d) ==
  /\ At(c, d, "drop")
  /\ relay' = [relay EXCEPT ![c][d] = Task("reap", None)]
  /\ UNCHANGED <<client, proxy, packet_senders, route, manager, torn>>

RelayHolds(b) == \E c \in Conns, d \in Dirs : relay[c][d].bridge = b
Held(b) == packet_bridge = b \/ manager.bridge = b

(* Only the map's own reference is left: forget the bridge.                  *)
Reap(c, d) ==
  LET b == bridges[client[c]]
  IN  /\ At(c, d, "reap") /\ relay' = [relay EXCEPT ![c][d] = Task("gone", None)]
      /\ IF RelayHolds(b) \/ Held(b)
           THEN UNCHANGED bridges
           ELSE bridges' = [bridges EXCEPT ![client[c]] = None]
      /\ kept' = IF b # None /\ Held(b) /\ ~RelayHolds(b) THEN kept \cup {b} ELSE kept
      /\ UNCHANGED <<client, next_flow_id, madeFor, packet_senders, route, manager, torn>>

(* ---- try_packet_action ---- *)

TakesBridge ==
  /\ manager.pc = "rest" /\ packet_bridge # None
  /\ manager' = [pc |-> "send", bridge |-> packet_bridge]
  /\ UNCHANGED <<client, relay, proxy, packet_senders, route, torn>>

(* The frame goes into the channel, if there is one; the reference ends.     *)
SendsFrame ==
  /\ manager.pc = "send" /\ txLock = None
  /\ manager' = Resting
  /\ UNCHANGED <<client, relay, proxy, packet_senders, route, torn>>

Next ==
  \/ \E a \in Clients : Open(a)
  \/ \E c \in Conns, d \in Dirs : Acquire(c, d) \/ Ends(c, d) \/ Drop(c, d) \/ Reap(c, d)
  \/ \E c \in Conns : \/ Register(c) \/ Look(c) \/ SelectBridge(c) \/ SelectTx(c)
                      \/ Unregister(c) \/ ClearTx(c) \/ ClearBridge(c)
  \/ TakesBridge \/ SendsFrame

Spec == Init /\ [][Next]_vars

(* ---- properties ---- *)

PCs == {"unopened", "start", "register", "reading", "select_bridge", "select_tx", "unregister",
        "clear_tx", "clear_bridge", "drop", "reap", "gone"}

(* Types.                                                                    *)
TypeOK ==
  /\ client \in Seq(Clients) /\ Len(client) <= MaxConns
  /\ relay \in [Conns -> [Dirs -> [pc : PCs, bridge : Nat, alone : BOOLEAN]]]
  /\ bridges \in [Clients -> Nat] /\ next_flow_id \in Nat \ {0}
  /\ packet_senders \in [Clients -> Conns \cup {None}]
  /\ packet_bridge \in Nat /\ {mitm_packet_tx, txLock} \subseteq Conns \cup {None}
  /\ manager \in [pc : {"rest", "send"}, bridge : Nat]
  /\ madeFor \in Seq(Conns) /\ kept \subseteq Nat /\ torn \in BOOLEAN

(* The two directions of a connection share the bridge that the map holds    *)
(* for its address, in whatever order they start and end: it is neither      *)
(* dropped under one of them nor made twice.                                 *)
InUseIsMapped ==
  \A c \in Conns, d \in Dirs :
    relay[c][d].bridge # None => bridges[client[c]] = relay[c][d].bridge

(* A connection never resumes the parser state of an earlier one from the    *)
(* same address, unless that one's last release found the route or the       *)
(* manager still holding it.                                                 *)
StateIsNotResumed ==
  \A c \in Conns, d \in Dirs :
    LET b == relay[c][d].bridge IN b # None /\ madeFor[b] # c => b \in kept

(* Between changes the route is withdrawn or is one connection's, its bridge *)
(* and its channel, and its uplink is there to send: unless two changes      *)
(* overlapped.                                                               *)
RouteIsWhole ==
  ~torn /\ (\A c \in Conns, d \in Dirs : ~Changing(c, d)) =>
    \/ packet_bridge = None /\ mitm_packet_tx = None
    \/ /\ mitm_packet_tx # None /\ packet_bridge # None
       /\ relay[mitm_packet_tx]["up"].bridge = packet_bridge
=============================================================================
