----------------------------- MODULE RouteProofs -----------------------------
(***************************************************************************)
(* Theorems about the two legs on which the autoplay manager sends its own  *)
(* frames: PacketRoute, the sockets of the recording proxy, for any set of  *)
(* addresses and any number of connections, and PageFlows, the sockets of   *)
(* the browser's tabs, for any tabs, sockets and number of frames.          *)
(***************************************************************************)
EXTENDS PacketRoute, PageFlows, SequenceTheorems, TLAPS

(* ---- the sockets of the proxy (PacketRoute) ---- *)

(* A connection that was not opened has done nothing.                        *)
UnopenedInv == \A c \in Conns \ DOMAIN client, d \in Dirs : relay[c][d].pc = "unopened"

(* Of the connections of one address at most one is under way.               *)
OnePerAddress ==
  \A c, e \in DOMAIN client : c # e /\ client[c] = client[e] => Finished(c) \/ Finished(e)

(* A task holds a bridge from its acquire to its drop, and its steps are the *)
(* ones of its direction.                                                    *)
TaskInv ==
  \A c \in Conns, d \in Dirs :
    /\ relay[c][d].pc \in {"unopened", "start", "reap", "gone"} <=> relay[c][d].bridge = None
    /\ d = "down" => relay[c][d].pc \notin {"register", "unregister", "clear_tx", "clear_bridge"}
    /\ d = "up" => relay[c][d].pc \notin {"select_bridge", "select_tx"}

(* Each bridge made has its own number.                                      *)
FlowInv ==
  /\ next_flow_id = Len(madeFor) + 1
  /\ \A a \in Clients : bridges[a] < next_flow_id
  /\ \A a, b \in Clients : bridges[a] = bridges[b] /\ bridges[a] # None => a = b

(* A bridge in the map that was not kept is that of the connection under way. *)
OwnerInv ==
  \A a \in Clients :
    LET b == bridges[a]
    IN  b # None /\ b \notin kept =>
          /\ madeFor[b] \in DOMAIN client /\ client[madeFor[b]] = a
          /\ ~Finished(madeFor[b])

(* The channel of an address belongs to an uplink that reads.                *)
SendersInv ==
  \A a \in Clients :
    LET c == packet_senders[a]
    IN  c # None => /\ c \in DOMAIN client /\ client[c] = a
                    /\ relay[c]["up"].pc \in {"reading", "unregister"}

(* Who is alone is the only one that changes the route; without an overlap   *)
(* everyone is.                                                              *)
AloneInv ==
  /\ \A c \in Conns, d \in Dirs :
       relay[c][d].alone =>
         /\ Changing(c, d)
         /\ \A e \in Conns, f \in Dirs : Changing(e, f) => e = c /\ f = d
  /\ ~torn => \A c \in Conns, d \in Dirs : Changing(c, d) => relay[c][d].alone

(* A downlink that is alone selects an uplink that lives and shares its bridge. *)
SelectInv ==
  \A c \in Conns :
    relay[c]["down"].alone =>
      /\ relay[c]["up"].pc \in {"reading", "unregister"}
      /\ relay[c]["up"].bridge = relay[c]["down"].bridge
      /\ relay[c]["down"].pc = "select_tx" => packet_bridge = relay[c]["down"].bridge

Linked ==
  \/ packet_bridge = None /\ mitm_packet_tx = None
  \/ /\ mitm_packet_tx # None
     /\ relay[mitm_packet_tx]["up"].pc \in {"reading", "unregister", "clear_tx"}
     /\ relay[mitm_packet_tx]["up"].bridge = packet_bridge

(* The route between the two slots of a change.                              *)
RouteInv ==
  ~torn => \/ Linked
           \/ \E c \in Conns : relay[c]["down"].pc = "select_tx"
           \/ \E c \in Conns : /\ relay[c]["up"].pc = "clear_bridge"
                               /\ mitm_packet_tx = None
                               /\ packet_bridge = relay[c]["up"].bridge

Sane == TypeOK /\ UnopenedInv

TaskType == [pc : PCs, bridge : Nat, alone : BOOLEAN]
RelayType == [Conns -> [Dirs -> TaskType]]

(* A step of one task leaves the others alone.                               *)
LEMMA OneMoves ==
  ASSUME relay \in RelayType, NEW c \in Conns, NEW d \in Dirs, NEW t \in TaskType,
         relay' = [relay EXCEPT ![c][d] = t]
  PROVE  /\ relay' \in RelayType
         /\ \A e \in Conns, f \in Dirs : relay'[e][f] = IF e = c /\ f = d THEN t ELSE relay[e][f]
BY DEF RelayType

(* The same when the task is as good as new.                                 *)
LEMMA OneBecomes ==
  ASSUME relay \in RelayType, NEW c \in Conns, NEW d \in Dirs, NEW p \in PCs, NEW b \in Nat,
         relay' = [relay EXCEPT ![c][d] = Task(p, b)]
  PROVE  /\ relay' \in RelayType
         /\ \A e \in Conns, f \in Dirs :
              /\ relay'[e][f].pc = IF e = c /\ f = d THEN p ELSE relay[e][f].pc
              /\ relay'[e][f].bridge = IF e = c /\ f = d THEN b ELSE relay[e][f].bridge
              /\ relay'[e][f].alone <=> (e # c \/ f # d) /\ relay[e][f].alone
<1>1. PICK t \in TaskType : t = Task(p, b)
  BY DEF Task, TaskType
<1>2. t.pc = p /\ t.bridge = b /\ t.alone = FALSE
  BY <1>1 DEF Task
<1>3. /\ relay' \in RelayType
      /\ \A e \in Conns, f \in Dirs : relay'[e][f] = IF e = c /\ f = d THEN t ELSE relay[e][f]
  BY <1>1, OneMoves
<1> QED BY <1>2, <1>3

(* The same when only its step changes.                                      *)
LEMMA OneGoes ==
  ASSUME relay \in RelayType, NEW c \in Conns, NEW d \in Dirs, NEW p \in PCs, Goes(c, d, p)
  PROVE  /\ relay' \in RelayType
         /\ \A e \in Conns, f \in Dirs :
              /\ relay'[e][f].pc = IF e = c /\ f = d THEN p ELSE relay[e][f].pc
              /\ relay'[e][f].bridge = relay[e][f].bridge
              /\ relay'[e][f].alone <=> relay[e][f].alone
<1> DEFINE t == [relay[c][d] EXCEPT !.pc = p]
<1>1. t \in TaskType /\ t.pc = p /\ t.bridge = relay[c][d].bridge /\ t.alone = relay[c][d].alone
  BY DEF RelayType, TaskType
<1>2. relay' = [relay EXCEPT ![c][d] = t]
  BY DEF Goes, RelayType, TaskType
<1>3. /\ relay' \in RelayType
      /\ \A e \in Conns, f \in Dirs : relay'[e][f] = IF e = c /\ f = d THEN t ELSE relay[e][f]
  BY <1>1, <1>2, OneMoves
<1> HIDE DEF t
<1> QED BY <1>1, <1>3

(* What beginning a change of the route does to the tasks.                   *)
LEMMA OneBegins ==
  ASSUME relay \in RelayType, NEW c \in Conns, NEW d \in Dirs, NEW p \in PCs, Begins(c, d, p)
  PROVE  /\ relay' \in RelayType
         /\ \A e \in Conns, f \in Dirs :
              /\ relay'[e][f].pc = IF e = c /\ f = d THEN p ELSE relay[e][f].pc
              /\ relay'[e][f].bridge = relay[e][f].bridge
              /\ relay'[e][f].alone => e = c /\ f = d
         /\ relay'[c][d].alone <=>
              \A e \in Conns, f \in Dirs : Changing(e, f) => e = c /\ f = d
         /\ torn' \in BOOLEAN /\ (torn' <=> torn \/ ~relay'[c][d].alone)
<1> DEFINE others == {cd \in Conns \X Dirs : cd # <<c, d>> /\ Changing(cd[1], cd[2])}
           none == others = {}
           new(e, f) == IF <<e, f>> = <<c, d>> THEN [relay[c][d] EXCEPT !.pc = p, !.alone = none]
                        ELSE [relay[e][f] EXCEPT !.alone = FALSE]
<1>1. relay' = [e \in Conns |-> [f \in Dirs |-> new(e, f)]] /\ torn' = (torn \/ others # {})
  BY DEF Begins
<1>n. none \in BOOLEAN /\ (none <=> others = {})
  OBVIOUS
<1> HIDE DEF others, none
<1>2. ASSUME NEW e \in Conns, NEW f \in Dirs PROVE new(e, f) \in TaskType
  <2>1. relay[e][f] \in TaskType
    BY DEF RelayType
  <2>2. [relay[e][f] EXCEPT !.alone = FALSE] \in TaskType
    BY <2>1 DEF TaskType
  <2>3. relay[c][d] \in TaskType
    BY DEF RelayType
  <2>4. [relay[c][d] EXCEPT !.pc = p, !.alone = none] \in TaskType
    BY <2>3, <1>n DEF TaskType
  <2> QED BY <2>2, <2>4
<1>3. relay' \in RelayType /\ \A e \in Conns, f \in Dirs : relay'[e][f] = new(e, f)
  <2> HIDE DEF new
  <2> QED BY <1>1, <1>2 DEF RelayType
<1>4. /\ new(c, d).pc = p /\ new(c, d).bridge = relay[c][d].bridge
      /\ new(c, d).alone = none
  BY <1>n DEF RelayType, TaskType
<1>5. \A e \in Conns, f \in Dirs : e # c \/ f # d =>
        /\ new(e, f).pc = relay[e][f].pc /\ new(e, f).bridge = relay[e][f].bridge
        /\ ~new(e, f).alone
  BY DEF RelayType, TaskType
<1>6. none <=> \A e \in Conns, f \in Dirs : Changing(e, f) => e = c /\ f = d
  <2> USE <1>n DEF others
  <2>1. ASSUME none, NEW e \in Conns, NEW f \in Dirs, Changing(e, f) PROVE e = c /\ f = d
    <3>1. <<e, f>> \notin others
      BY <2>1
    <3> QED BY <2>1, <3>1
  <2>2. ASSUME \A e \in Conns, f \in Dirs : Changing(e, f) => e = c /\ f = d PROVE none
    BY <2>2
  <2> QED BY <2>1, <2>2
<1> HIDE DEF new
<1> QED BY <1>n, <1>1, <1>3, <1>4, <1>5, <1>6

(* The inductive invariant.                                                  *)
IInv ==
  /\ Sane /\ OnePerAddress /\ TaskInv /\ FlowInv /\ InUseIsMapped /\ OwnerInv
  /\ SendersInv /\ AloneInv /\ SelectInv /\ RouteInv

(* A task that has begun is one of an opened connection.                     *)
LEMMA OpenedConnection ==
  ASSUME Sane, NEW c \in Conns, NEW d \in Dirs, relay[c][d].pc # "unopened"
  PROVE  c \in DOMAIN client /\ client[c] \in Clients
BY DEF Sane, TypeOK, UnopenedInv

(* Two tasks of one address that are under way belong to one connection.     *)
LEMMA SameConnection ==
  ASSUME IInv, NEW c \in DOMAIN client, NEW e \in DOMAIN client, client[c] = client[e],
         ~Finished(c), ~Finished(e)
  PROVE  c = e
BY DEF IInv, OnePerAddress

(* Who owns an address, and what the slots may hold.                         *)
LEMMA ConnectionsAreNumbered ==
  ASSUME TypeOK
  PROVE  /\ DOMAIN client \subseteq Conns /\ \A e \in DOMAIN client : client[e] \in Clients
BY ConnsAssumption DEF TypeOK, Conns

(* A task that has begun and not returned keeps its connection under way.    *)
LEMMA Underway ==
  ASSUME IInv, NEW c \in Conns, NEW d \in Dirs, relay[c][d].pc \notin {"unopened", "gone"}
  PROVE  c \in DOMAIN client /\ client[c] \in Clients /\ ~Finished(c) /\ c # None
BY ConnsAssumption, OpenedConnection DEF IInv, Finished, At, Conns, None

(* Register keeps IInv:                                                      *)
(*   the uplink has its channel, which SendersInv allows while it reads.     *)
LEMMA RegisterStep ==
  ASSUME IInv, NEW c \in Conns, Register(c)
  PROVE  IInv'
<1>t. relay \in RelayType
  BY DEF IInv, Sane, TypeOK, RelayType, TaskType
<1>u. /\ relay[c]["up"].pc = "register"
      /\ packet_senders' = [packet_senders EXCEPT ![client[c]] = c]
      /\ UNCHANGED <<client, bridges, next_flow_id, madeFor, kept, packet_bridge, mitm_packet_tx,
                     txLock, manager, torn>>
  BY DEF Register, At, proxy, route
<1>o. c \in DOMAIN client /\ client[c] \in Clients /\ ~Finished(c) /\ c # None
  BY <1>u, Underway DEF Dirs
<1>r. /\ relay' \in RelayType
      /\ \A e \in Conns, f \in Dirs :
           /\ relay'[e][f].pc = IF e = c /\ f = "up" THEN "reading" ELSE relay[e][f].pc
           /\ relay'[e][f].bridge = relay[e][f].bridge
           /\ relay'[e][f].alone <=> relay[e][f].alone
  BY <1>t, <1>u, OneGoes DEF Register, PCs, Dirs
<1> USE DEF None, Dirs
<1>d. /\ DOMAIN client \subseteq Conns /\ \A e \in DOMAIN client : client[e] \in Clients
      /\ mitm_packet_tx \in Conns \cup {None}
      /\ packet_senders \in [Clients -> Conns \cup {None}]
  BY ConnectionsAreNumbered DEF IInv, Sane, TypeOK
<1>0. TypeOK'
  BY <1>u, <1>r DEF IInv, Sane, TypeOK, RelayType, TaskType
<1>1. UnopenedInv'
  BY <1>u, <1>r DEF IInv, Sane, UnopenedInv
<1>2. OnePerAddress'
  BY <1>u, <1>r, <1>d DEF IInv, OnePerAddress, Finished, At
<1>3. TaskInv'
  BY <1>u, <1>r DEF IInv, TaskInv
<1>4. FlowInv'
  BY <1>u DEF IInv, FlowInv
<1>5. InUseIsMapped'
  BY <1>u, <1>r DEF IInv, InUseIsMapped
<1>6. OwnerInv'
  BY <1>u, <1>r, <1>d DEF IInv, OwnerInv, Finished, At
<1>7. SendersInv'
  BY <1>u, <1>r, <1>o, <1>d DEF IInv, SendersInv
<1>8. AloneInv'
  BY <1>u, <1>r DEF IInv, AloneInv, Changing
<1>9. SelectInv'
  BY <1>u, <1>r DEF IInv, SelectInv, AloneInv, Changing
<1>10. RouteInv'
  BY <1>u, <1>r, <1>d DEF IInv, RouteInv, Linked, AloneInv, SelectInv, TaskInv, Changing
<1> QED BY <1>0, <1>1, <1>2, <1>3, <1>4, <1>5, <1>6, <1>7, <1>8, <1>9, <1>10 DEF IInv, Sane

(* Drop keeps IInv:                                                          *)
(*   a task gives its bridge up after it has left the route alone.           *)
LEMMA DropStep ==
  ASSUME IInv, NEW c \in Conns, NEW d \in Dirs, Drop(c, d)
  PROVE  IInv'
<1>t. relay \in RelayType
  BY DEF IInv, Sane, TypeOK, RelayType, TaskType
<1>u. /\ relay[c][d].pc = "drop"
      /\ relay' = [relay EXCEPT ![c][d] = Task("reap", None)]
      /\ UNCHANGED <<client, bridges, next_flow_id, madeFor, kept, packet_senders, packet_bridge,
                     mitm_packet_tx, txLock, manager, torn>>
  BY DEF Drop, At, proxy, route
<1>o. c \in DOMAIN client /\ client[c] \in Clients /\ ~Finished(c) /\ c # None
  BY <1>u, Underway DEF Dirs
<1>m. "reap" \in PCs /\ None \in Nat
  BY <1>t DEF PCs, TaskType, RelayType, Dirs, None
<1>r. /\ relay' \in RelayType
      /\ \A e \in Conns, f \in Dirs :
           /\ relay'[e][f].pc = IF e = c /\ f = d THEN "reap" ELSE relay[e][f].pc
           /\ relay'[e][f].bridge = IF e = c /\ f = d THEN None ELSE relay[e][f].bridge
           /\ relay'[e][f].alone <=> (e # c \/ f # d) /\ relay[e][f].alone
  BY <1>t, <1>u, <1>m, OneBecomes
<1> USE DEF None, Dirs
<1>d. /\ DOMAIN client \subseteq Conns /\ \A e \in DOMAIN client : client[e] \in Clients
      /\ mitm_packet_tx \in Conns \cup {None}
      /\ packet_senders \in [Clients -> Conns \cup {None}]
  BY ConnectionsAreNumbered DEF IInv, Sane, TypeOK
<1>0. TypeOK'
  BY <1>u, <1>r DEF IInv, Sane, TypeOK, RelayType, TaskType
<1>1. UnopenedInv'
  BY <1>u DEF IInv, Sane, UnopenedInv
<1>2. OnePerAddress'
  BY <1>u DEF IInv, OnePerAddress, Finished, At
<1>3. TaskInv'
  BY <1>r DEF IInv, TaskInv
<1>4. FlowInv'
  BY <1>u DEF IInv, FlowInv
<1>5. InUseIsMapped'
  BY <1>u, <1>r DEF IInv, InUseIsMapped
<1>6. OwnerInv'
  BY <1>u, <1>r DEF IInv, OwnerInv, Finished, At
<1>7. SendersInv'
  BY <1>u DEF IInv, SendersInv
<1>8. AloneInv'
  BY <1>u, <1>r DEF IInv, AloneInv, Changing
<1>9. SelectInv'
  BY <1>u, <1>r DEF IInv, SelectInv, AloneInv, Changing
<1>10. RouteInv'
  BY <1>u DEF IInv, RouteInv, Linked, AloneInv, SelectInv, TaskInv, Changing
<1> QED BY <1>0, <1>1, <1>2, <1>3, <1>4, <1>5, <1>6, <1>7, <1>8, <1>9, <1>10 DEF IInv, Sane

(* Ends keeps IInv: a task leaves its loop.                                  *)
LEMMA EndsStep ==
  ASSUME IInv, NEW c \in Conns, NEW d \in Dirs, Ends(c, d)
  PROVE  IInv'
<1>t. relay \in RelayType
  BY DEF IInv, Sane, TypeOK, RelayType, TaskType
<1>u. /\ relay[c][d].pc = "reading"
      /\ UNCHANGED <<client, bridges, next_flow_id, madeFor, kept, packet_senders,
                     packet_bridge, mitm_packet_tx, txLock, manager, torn>>
  BY DEF Ends, At, proxy, route
<1>o. c \in DOMAIN client /\ client[c] \in Clients /\ ~Finished(c) /\ c # None
  BY <1>u, Underway DEF Dirs
<1>r. /\ relay' \in RelayType
      /\ \A e \in Conns, f \in Dirs :
           /\ relay'[e][f].pc = IF e = c /\ f = d
                                THEN (IF d = "up" THEN "unregister" ELSE "drop") ELSE relay[e][f].pc
           /\ relay'[e][f].bridge = relay[e][f].bridge
           /\ relay'[e][f].alone <=> relay[e][f].alone
  BY <1>t, <1>u, OneGoes DEF Ends, PCs, Dirs
<1> USE DEF None, Dirs
<1>d. /\ DOMAIN client \subseteq Conns /\ \A e \in DOMAIN client : client[e] \in Clients
      /\ mitm_packet_tx \in Conns \cup {None}
      /\ packet_senders \in [Clients -> Conns \cup {None}]
  BY ConnectionsAreNumbered DEF IInv, Sane, TypeOK
<1>0. TypeOK'
  BY <1>u, <1>r DEF IInv, Sane, TypeOK, RelayType, TaskType
<1>1. UnopenedInv'
  BY <1>u, <1>r DEF IInv, Sane, UnopenedInv
<1>2. OnePerAddress'
  BY <1>u, <1>r, <1>d DEF IInv, OnePerAddress, Finished, At
<1>3. TaskInv'
  BY <1>u, <1>r DEF IInv, TaskInv
<1>4. FlowInv'
  BY <1>u DEF IInv, FlowInv
<1>5. InUseIsMapped'
  BY <1>u, <1>r DEF IInv, InUseIsMapped
<1>6. OwnerInv'
  BY <1>u, <1>r, <1>d DEF IInv, OwnerInv, Finished, At
<1>7. SendersInv'
  BY <1>u, <1>r, <1>d DEF IInv, SendersInv
<1>8. AloneInv'
  BY <1>u, <1>r DEF IInv, AloneInv, Changing
<1>9. SelectInv'
  BY <1>u, <1>r DEF IInv, SelectInv, AloneInv, Changing
<1>10. RouteInv'
  BY <1>u, <1>r, <1>d DEF IInv, RouteInv, Linked, AloneInv, SelectInv, TaskInv, Changing
<1> QED BY <1>0, <1>1, <1>2, <1>3, <1>4, <1>5, <1>6, <1>7, <1>8, <1>9, <1>10 DEF IInv, Sane

(* SelectBridge keeps IInv: the first slot of a selection.                   *)
LEMMA SelectBridgeStep ==
  ASSUME IInv, NEW c \in Conns, SelectBridge(c)
  PROVE  IInv'
<1>t. relay \in RelayType
  BY DEF IInv, Sane, TypeOK, RelayType, TaskType
<1>u. /\ relay[c]["down"].pc = "select_bridge"
      /\ packet_bridge' = relay[c]["down"].bridge
      /\ UNCHANGED <<client, bridges, next_flow_id, madeFor, kept, packet_senders,
                     mitm_packet_tx, txLock, manager, torn>>
  BY DEF SelectBridge, At, proxy, route
<1>o. c \in DOMAIN client /\ client[c] \in Clients /\ ~Finished(c) /\ c # None
  BY <1>u, Underway DEF Dirs
<1>r. /\ relay' \in RelayType
      /\ \A e \in Conns, f \in Dirs :
           /\ relay'[e][f].pc = IF e = c /\ f = "down" THEN "select_tx" ELSE relay[e][f].pc
           /\ relay'[e][f].bridge = relay[e][f].bridge
           /\ relay'[e][f].alone <=> relay[e][f].alone
  BY <1>t, <1>u, OneGoes DEF SelectBridge, PCs, Dirs
<1> USE DEF None, Dirs
<1>d. /\ DOMAIN client \subseteq Conns /\ \A e \in DOMAIN client : client[e] \in Clients
      /\ mitm_packet_tx \in Conns \cup {None}
      /\ packet_senders \in [Clients -> Conns \cup {None}]
  BY ConnectionsAreNumbered DEF IInv, Sane, TypeOK
<1>0. TypeOK'
  BY <1>u, <1>r DEF IInv, Sane, TypeOK, RelayType, TaskType
<1>1. UnopenedInv'
  BY <1>u, <1>r DEF IInv, Sane, UnopenedInv
<1>2. OnePerAddress'
  BY <1>u, <1>r, <1>d DEF IInv, OnePerAddress, Finished, At
<1>3. TaskInv'
  BY <1>u, <1>r DEF IInv, TaskInv
<1>4. FlowInv'
  BY <1>u DEF IInv, FlowInv
<1>5. InUseIsMapped'
  BY <1>u, <1>r DEF IInv, InUseIsMapped
<1>6. OwnerInv'
  BY <1>u, <1>r, <1>d DEF IInv, OwnerInv, Finished, At
<1>7. SendersInv'
  BY <1>u, <1>r, <1>d DEF IInv, SendersInv
<1>8. AloneInv'
  BY <1>u, <1>r DEF IInv, AloneInv, Changing
<1>9. SelectInv'
  BY <1>u, <1>r DEF IInv, SelectInv, AloneInv, Changing
<1>10. RouteInv'
  BY <1>r DEF IInv, RouteInv, Linked, AloneInv, SelectInv, TaskInv, Changing
<1> QED BY <1>0, <1>1, <1>2, <1>3, <1>4, <1>5, <1>6, <1>7, <1>8, <1>9, <1>10 DEF IInv, Sane

(* ClearTx keeps IInv:                                                       *)
(*   the channel goes, if it is ours.                                       *)
LEMMA ClearTxStep ==
  ASSUME IInv, NEW c \in Conns, ClearTx(c)
  PROVE  IInv'
<1>t. relay \in RelayType
  BY DEF IInv, Sane, TypeOK, RelayType, TaskType
<1>u. /\ relay[c]["up"].pc = "clear_tx"
      /\ mitm_packet_tx' = (IF mitm_packet_tx = c THEN None ELSE mitm_packet_tx)
      /\ txLock' = c
      /\ UNCHANGED <<client, bridges, next_flow_id, madeFor, kept, packet_senders, packet_bridge,
                     manager, torn>>
  BY DEF ClearTx, At, proxy, route
<1>o. c \in DOMAIN client /\ client[c] \in Clients /\ ~Finished(c) /\ c # None
  BY <1>u, Underway DEF Dirs
<1>r. /\ relay' \in RelayType
      /\ \A e \in Conns, f \in Dirs :
           /\ relay'[e][f].pc = IF e = c /\ f = "up" THEN "clear_bridge" ELSE relay[e][f].pc
           /\ relay'[e][f].bridge = relay[e][f].bridge
           /\ relay'[e][f].alone <=> relay[e][f].alone
  BY <1>t, <1>u, OneGoes DEF ClearTx, PCs, Dirs
<1> USE DEF None, Dirs
<1>d. /\ DOMAIN client \subseteq Conns /\ \A e \in DOMAIN client : client[e] \in Clients
      /\ mitm_packet_tx \in Conns \cup {None}
      /\ packet_senders \in [Clients -> Conns \cup {None}]
  BY ConnectionsAreNumbered DEF IInv, Sane, TypeOK
<1>0. TypeOK'
  BY <1>u, <1>r DEF IInv, Sane, TypeOK, RelayType, TaskType
<1>1. UnopenedInv'
  BY <1>u, <1>r DEF IInv, Sane, UnopenedInv
<1>2. OnePerAddress'
  BY <1>u, <1>r, <1>d DEF IInv, OnePerAddress, Finished, At
<1>3. TaskInv'
  BY <1>u, <1>r DEF IInv, TaskInv
<1>4. FlowInv'
  BY <1>u DEF IInv, FlowInv
<1>5. InUseIsMapped'
  BY <1>u, <1>r DEF IInv, InUseIsMapped
<1>6. OwnerInv'
  BY <1>u, <1>r, <1>d DEF IInv, OwnerInv, Finished, At
<1>7. SendersInv'
  BY <1>u, <1>r, <1>d DEF IInv, SendersInv
<1>8. AloneInv'
  BY <1>u, <1>r DEF IInv, AloneInv, Changing
<1>9. SelectInv'
  BY <1>u, <1>r DEF IInv, SelectInv, AloneInv, Changing
<1>10. RouteInv'
  BY <1>u, <1>r, <1>d DEF IInv, RouteInv, Linked, AloneInv, SelectInv, TaskInv, Changing
<1> QED BY <1>0, <1>1, <1>2, <1>3, <1>4, <1>5, <1>6, <1>7, <1>8, <1>9, <1>10 DEF IInv, Sane

(* SelectTx keeps IInv: the selection is whole, if it was alone throughout.  *)
LEMMA SelectTxStep ==
  ASSUME IInv, NEW c \in Conns, SelectTx(c)
  PROVE  IInv'
<1>t. relay \in RelayType
  BY DEF IInv, Sane, TypeOK, RelayType, TaskType
<1>u. /\ relay[c]["down"].pc = "select_tx"
      /\ mitm_packet_tx' = c
      /\ torn' = (torn /\ ~relay[c]["down"].alone)
      /\ relay' = [relay EXCEPT ![c]["down"] = Task("reading", relay[c]["down"].bridge)]
      /\ UNCHANGED <<client, bridges, next_flow_id, madeFor, kept, packet_senders, packet_bridge,
                     txLock, manager>>
  BY DEF SelectTx, At, proxy, route
<1>o. c \in DOMAIN client /\ client[c] \in Clients /\ ~Finished(c) /\ c # None
  BY <1>u, Underway DEF Dirs
<1>m. "reading" \in PCs /\ relay[c]["down"].bridge \in Nat
  BY <1>t DEF PCs, TaskType, RelayType, Dirs, None
<1>r. /\ relay' \in RelayType
      /\ \A e \in Conns, f \in Dirs :
           /\ relay'[e][f].pc = IF e = c /\ f = "down" THEN "reading" ELSE relay[e][f].pc
           /\ relay'[e][f].bridge = IF e = c /\ f = "down" THEN relay[c]["down"].bridge ELSE relay[e][f].bridge
           /\ relay'[e][f].alone <=> (e # c \/ f # "down") /\ relay[e][f].alone
  BY <1>t, <1>u, <1>m, OneBecomes DEF Dirs
<1> USE DEF None, Dirs
<1>d. /\ DOMAIN client \subseteq Conns /\ \A e \in DOMAIN client : client[e] \in Clients
      /\ mitm_packet_tx \in Conns \cup {None}
      /\ packet_senders \in [Clients -> Conns \cup {None}]
  BY ConnectionsAreNumbered DEF IInv, Sane, TypeOK
<1>0. TypeOK'
  BY <1>u, <1>r DEF IInv, Sane, TypeOK, RelayType, TaskType
<1>1. UnopenedInv'
  BY <1>u DEF IInv, Sane, UnopenedInv
<1>2. OnePerAddress'
  BY <1>u DEF IInv, OnePerAddress, Finished, At
<1>3. TaskInv'
  BY <1>u, <1>r DEF IInv, TaskInv
<1>4. FlowInv'
  BY <1>u DEF IInv, FlowInv
<1>5. InUseIsMapped'
  BY <1>u, <1>r DEF IInv, InUseIsMapped
<1>6. OwnerInv'
  BY <1>u, <1>r DEF IInv, OwnerInv, Finished, At
<1>7. SendersInv'
  BY <1>u DEF IInv, SendersInv
<1>8. AloneInv'
  <2>1. ~torn' => /\ relay[c]["down"].alone
                  /\ \A e \in Conns, f \in Dirs : Changing(e, f) => e = c /\ f = "down"
    BY <1>u DEF IInv, AloneInv, Changing
  <2> QED BY <2>1, <1>t, <1>u, <1>r, <1>o, <1>d DEF IInv, AloneInv, Changing
<1>9. SelectInv'
  BY <1>u, <1>r DEF IInv, SelectInv, AloneInv, Changing
<1>10. RouteInv'
  <2>1. ~torn' => /\ relay[c]["down"].alone
                  /\ \A e \in Conns, f \in Dirs : Changing(e, f) => e = c /\ f = "down"
    BY <1>u DEF IInv, AloneInv, Changing
  <2>2. ASSUME ~torn' PROVE Linked'
    BY <2>1, <2>2, <1>u, <1>o DEF IInv, Linked, SelectInv
  <2> QED BY <2>2 DEF RouteInv
<1> QED BY <1>0, <1>1, <1>2, <1>3, <1>4, <1>5, <1>6, <1>7, <1>8, <1>9, <1>10 DEF IInv, Sane

(* ClearBridge keeps IInv:                                                   *)
(*   the bridge goes, if it is ours: no other connection shares it.          *)
LEMMA ClearBridgeStep ==
  ASSUME IInv, NEW c \in Conns, ClearBridge(c)
  PROVE  IInv'
<1>t. relay \in RelayType
  BY DEF IInv, Sane, TypeOK, RelayType, TaskType
<1>u. /\ relay[c]["up"].pc = "clear_bridge"
      /\ packet_bridge' = (IF packet_bridge = relay[c]["up"].bridge THEN None ELSE packet_bridge) /\ txLock' = None
      /\ relay' = [relay EXCEPT ![c]["up"] = Task("drop", relay[c]["up"].bridge)]
      /\ UNCHANGED <<client, bridges, next_flow_id, madeFor, kept, packet_senders,
                     mitm_packet_tx, manager, torn>>
  BY DEF ClearBridge, At, proxy, route
<1>o. c \in DOMAIN client /\ client[c] \in Clients /\ ~Finished(c) /\ c # None
  BY <1>u, Underway DEF Dirs
<1>m. "drop" \in PCs /\ relay[c]["up"].bridge \in Nat
  BY <1>t DEF PCs, TaskType, RelayType, Dirs, None
<1>r. /\ relay' \in RelayType
      /\ \A e \in Conns, f \in Dirs :
           /\ relay'[e][f].pc = IF e = c /\ f = "up" THEN "drop" ELSE relay[e][f].pc
           /\ relay'[e][f].bridge = IF e = c /\ f = "up" THEN relay[c]["up"].bridge ELSE relay[e][f].bridge
           /\ relay'[e][f].alone <=> (e # c \/ f # "up") /\ relay[e][f].alone
  BY <1>t, <1>u, <1>m, OneBecomes DEF Dirs
<1> USE DEF None, Dirs
<1>d. /\ DOMAIN client \subseteq Conns /\ \A e \in DOMAIN client : client[e] \in Clients
      /\ mitm_packet_tx \in Conns \cup {None}
      /\ packet_senders \in [Clients -> Conns \cup {None}]
  BY ConnectionsAreNumbered DEF IInv, Sane, TypeOK
<1>0. TypeOK'
  BY <1>u, <1>r DEF IInv, Sane, TypeOK, RelayType, TaskType
<1>1. UnopenedInv'
  BY <1>u DEF IInv, Sane, UnopenedInv
<1>2. OnePerAddress'
  BY <1>u DEF IInv, OnePerAddress, Finished, At
<1>3. TaskInv'
  BY <1>u, <1>r DEF IInv, TaskInv
<1>4. FlowInv'
  BY <1>u DEF IInv, FlowInv
<1>5. InUseIsMapped'
  BY <1>u, <1>r DEF IInv, InUseIsMapped
<1>6. OwnerInv'
  BY <1>u, <1>r DEF IInv, OwnerInv, Finished, At
<1>7. SendersInv'
  BY <1>u DEF IInv, SendersInv
<1>8. AloneInv'
  BY <1>u, <1>r DEF IInv, AloneInv, Changing
<1>9. SelectInv'
  BY <1>u DEF IInv, SelectInv, AloneInv, Changing
<1>10. RouteInv'
  <2> SUFFICES ASSUME ~torn PROVE Linked'
    BY <1>u DEF RouteInv
  <2>1. \A e \in Conns, f \in Dirs : Changing(e, f) => e = c /\ f = "up"
    BY <1>u DEF IInv, AloneInv, Changing
  <2>2. \A e \in Conns :
          relay[e]["up"].bridge # None /\ relay[e]["up"].bridge = relay[c]["up"].bridge => e = c
    BY <1>o, <1>d, Underway, SameConnection DEF IInv, InUseIsMapped, FlowInv, TaskInv
  <2>3. CASE Linked
    BY <2>2, <2>3, <1>u, <1>d DEF IInv, Linked, TaskInv
  <2>4. CASE \E e \in Conns : /\ relay[e]["up"].pc = "clear_bridge" /\ mitm_packet_tx = None
                              /\ packet_bridge = relay[e]["up"].bridge
    BY <2>1, <2>4, <1>t, <1>u, <1>r, <1>d DEF Linked, Changing
  <2> QED BY <2>1, <2>3, <2>4 DEF IInv, RouteInv, Changing
<1> QED BY <1>0, <1>1, <1>2, <1>3, <1>4, <1>5, <1>6, <1>7, <1>8, <1>9, <1>10 DEF IInv, Sane

(* Reap keeps IInv:                                                          *)
(*   the last one out forgets the bridge, or the others are of its connection.*)
LEMMA ReapStep ==
  ASSUME IInv, NEW c \in Conns, NEW d \in Dirs, Reap(c, d)
  PROVE  IInv'
<1> DEFINE a == client[c]
           b == bridges[a]
<1>t. relay \in RelayType
  BY DEF IInv, Sane, TypeOK, RelayType, TaskType
<1>u. /\ relay[c][d].pc = "reap"
      /\ relay' = [relay EXCEPT ![c][d] = Task("gone", None)]
      /\ bridges' = (IF RelayHolds(b) \/ Held(b) THEN bridges ELSE [bridges EXCEPT ![a] = None])
      /\ kept' = (IF b # None /\ Held(b) /\ ~RelayHolds(b) THEN kept \cup {b} ELSE kept)
      /\ UNCHANGED <<client, next_flow_id, madeFor, packet_senders, packet_bridge,
                     mitm_packet_tx, txLock, manager, torn>>
  BY DEF Reap, At, proxy, route
<1>o. c \in DOMAIN client /\ client[c] \in Clients /\ ~Finished(c) /\ c # None
  BY <1>u, Underway DEF Dirs
<1>m. "gone" \in PCs /\ None \in Nat
  BY <1>t DEF PCs, TaskType, RelayType, Dirs, None
<1>r. /\ relay' \in RelayType
      /\ \A e \in Conns, f \in Dirs :
           /\ relay'[e][f].pc = IF e = c /\ f = d THEN "gone" ELSE relay[e][f].pc
           /\ relay'[e][f].bridge = IF e = c /\ f = d THEN None ELSE relay[e][f].bridge
           /\ relay'[e][f].alone <=> (e # c \/ f # d) /\ relay[e][f].alone
  BY <1>t, <1>u, <1>m, OneBecomes
<1>j. b \in Nat /\ (RelayHolds(b) \in BOOLEAN) /\ (Held(b) \in BOOLEAN)
  BY <1>o DEF IInv, Sane, TypeOK, RelayHolds, Held
<1>k. /\ bridges' \in [Clients -> Nat] /\ kept \subseteq kept' /\ kept' \subseteq Nat
      /\ \A g \in Clients \ {a} : bridges'[g] = bridges[g]
      /\ bridges'[a] = b \/ (bridges'[a] = None /\ ~RelayHolds(b))
      /\ bridges'[a] # None => RelayHolds(b) \/ b \in kept'
  <2>1. kept \subseteq Nat /\ a \in Clients /\ bridges \in [Clients -> Nat]
    BY <1>o DEF IInv, Sane, TypeOK
  <2>2. CASE RelayHolds(b)
    <3>1. bridges' = bridges
      BY <1>u, <2>2
    <3>2. kept' = kept
      BY <1>u, <2>2
    <3> QED BY <3>1, <3>2, <2>1, <2>2
  <2>3. CASE ~RelayHolds(b) /\ Held(b)
    BY <1>u, <1>j, <2>1, <2>3
  <2>4. CASE ~RelayHolds(b) /\ ~Held(b)
    BY <1>u, <2>1, <2>4 DEF None
  <2> QED BY <2>2, <2>3, <2>4, <1>j
<1> USE DEF None, Dirs
<1>d. /\ DOMAIN client \subseteq Conns /\ \A e \in DOMAIN client : client[e] \in Clients
      /\ mitm_packet_tx \in Conns \cup {None}
      /\ packet_senders \in [Clients -> Conns \cup {None}]
  BY ConnectionsAreNumbered DEF IInv, Sane, TypeOK
<1>0. TypeOK'
  BY <1>u, <1>r, <1>k DEF IInv, Sane, TypeOK, RelayType, TaskType
<1>1. UnopenedInv'
  BY <1>u DEF IInv, Sane, UnopenedInv
<1>2. OnePerAddress'
  BY <1>u DEF IInv, OnePerAddress, Finished, At
<1>3. TaskInv'
  BY <1>r DEF IInv, TaskInv
<1>4. FlowInv'
  BY <1>u, <1>o, <1>k DEF IInv, Sane, TypeOK, FlowInv
<1>5. InUseIsMapped'
  <2>1. ASSUME NEW e \in Conns, NEW f \in Dirs, relay[e][f].bridge # None
        PROVE  client[e] \in Clients /\ bridges[client[e]] = relay[e][f].bridge
    BY <2>1, Underway DEF IInv, InUseIsMapped, TaskInv
  <2>2. ASSUME NEW e \in Conns, NEW f \in Dirs, relay[e][f].bridge # None, client[e] = a
        PROVE  RelayHolds(b)
    BY <2>1, <2>2 DEF RelayHolds
  <2> HIDE DEF a, b
  <2> QED BY <2>1, <2>2, <1>u, <1>r, <1>k DEF InUseIsMapped
<1>6. OwnerInv'
  <2>1. ASSUME RelayHolds(b), b # None, b \notin kept
        PROVE  \E f \in Dirs : relay[madeFor[b]][f].pc \notin {"reap", "gone"}
    <3>1. PICK e \in Conns, f \in Dirs : relay[e][f].bridge = b
      BY <2>1 DEF RelayHolds
    <3>2. relay[e][f].pc \notin {"unopened", "start", "reap", "gone"}
      BY <2>1, <3>1 DEF IInv, TaskInv
    <3>3. e \in DOMAIN client /\ client[e] \in Clients /\ ~Finished(e) /\ bridges[client[e]] = b
      BY <2>1, <3>1, <3>2, Underway DEF IInv, InUseIsMapped
    <3>4. client[e] = a
      BY <2>1, <3>3, <1>o DEF IInv, FlowInv
    <3>5. madeFor[b] \in DOMAIN client /\ client[madeFor[b]] = a /\ ~Finished(madeFor[b])
      BY <2>1, <1>o DEF IInv, OwnerInv
    <3>6. madeFor[b] = e
      BY <3>3, <3>4, <3>5, SameConnection
    <3> QED BY <3>2, <3>6
  <2>2. \A e \in DOMAIN client : e # c /\ ~Finished(e) => (\E f \in Dirs : relay'[e][f].pc # "gone")
    BY <1>u, <1>r, <1>d DEF Finished, At
  <2>3. ASSUME NEW e \in DOMAIN client, \E f \in Dirs : relay[e][f].pc \notin {"reap", "gone"}
        PROVE  (\E f \in Dirs : relay'[e][f].pc # "gone")
    BY <2>3, <1>u, <1>r, <1>d DEF Finished, At
  <2>4. ASSUME NEW g \in Clients, bridges'[g] # None, bridges'[g] \notin kept'
        PROVE  /\ madeFor[bridges'[g]] \in DOMAIN client /\ client[madeFor[bridges'[g]]] = g
               /\ (\E f \in Dirs : relay'[madeFor[bridges'[g]]][f].pc # "gone")
    <3>1. bridges'[g] = bridges[g] /\ bridges[g] # None /\ bridges[g] \notin kept
      BY <2>4, <1>k
    <3>2. /\ madeFor[bridges[g]] \in DOMAIN client /\ client[madeFor[bridges[g]]] = g
          /\ ~Finished(madeFor[bridges[g]])
      BY <3>1 DEF IInv, OwnerInv
    <3>3. CASE g = a
      BY <2>1, <2>3, <2>4, <3>1, <3>2, <3>3, <1>k
    <3>4. CASE g # a
      BY <2>2, <3>1, <3>2, <3>4
    <3> QED BY <3>3, <3>4
  <2> QED BY <2>4, <1>u DEF OwnerInv, Finished, At
<1>7. SendersInv'
  BY <1>u DEF IInv, SendersInv
<1>8. AloneInv'
  BY <1>u, <1>r DEF IInv, AloneInv, Changing
<1>9. SelectInv'
  BY <1>u, <1>r DEF IInv, SelectInv, AloneInv, Changing
<1>10. RouteInv'
  BY <1>u DEF IInv, RouteInv, Linked, AloneInv, SelectInv, TaskInv, Changing
<1> QED BY <1>0, <1>1, <1>2, <1>3, <1>4, <1>5, <1>6, <1>7, <1>8, <1>9, <1>10 DEF IInv, Sane

(* Look keeps IInv:                                                          *)
(*   the channel found for the address is that of the own connection.        *)
LEMMA LookStep ==
  ASSUME IInv, NEW c \in Conns, Look(c)
  PROVE  IInv'
<1>t. relay \in RelayType
  BY DEF IInv, Sane, TypeOK, RelayType, TaskType
<1>u. /\ relay[c]["down"].pc = "reading"
      /\ packet_senders[client[c]] # None
      /\ Begins(c, "down", "select_bridge")
      /\ UNCHANGED <<client, bridges, next_flow_id, madeFor, kept, packet_senders, packet_bridge,
                     mitm_packet_tx, txLock, manager>>
  BY DEF Look, At, proxy, route
<1>o. c \in DOMAIN client /\ client[c] \in Clients /\ ~Finished(c) /\ c # None
  BY <1>u, Underway DEF Dirs
<1>r. /\ relay' \in RelayType
      /\ \A e \in Conns, f \in Dirs :
           /\ relay'[e][f].pc = IF e = c /\ f = "down" THEN "select_bridge" ELSE relay[e][f].pc
           /\ relay'[e][f].bridge = relay[e][f].bridge
           /\ relay'[e][f].alone => e = c /\ f = "down"
      /\ relay'[c]["down"].alone <=> \A e \in Conns, f \in Dirs : Changing(e, f) => e = c /\ f = "down"
      /\ torn' \in BOOLEAN /\ (torn' <=> torn \/ ~relay'[c]["down"].alone)
  BY <1>t, <1>u, OneBegins DEF Dirs, PCs
<1> USE DEF None, Dirs
<1>d. /\ DOMAIN client \subseteq Conns /\ \A e \in DOMAIN client : client[e] \in Clients
      /\ mitm_packet_tx \in Conns \cup {None}
      /\ packet_senders \in [Clients -> Conns \cup {None}]
  BY ConnectionsAreNumbered DEF IInv, Sane, TypeOK
<1>0. TypeOK'
  BY <1>u, <1>r DEF IInv, Sane, TypeOK, RelayType, TaskType
<1>1. UnopenedInv'
  BY <1>u, <1>r DEF IInv, Sane, UnopenedInv
<1>2. OnePerAddress'
  BY <1>u, <1>r, <1>d DEF IInv, OnePerAddress, Finished, At
<1>3. TaskInv'
  BY <1>u, <1>r DEF IInv, TaskInv
<1>4. FlowInv'
  BY <1>u DEF IInv, FlowInv
<1>5. InUseIsMapped'
  BY <1>u, <1>r DEF IInv, InUseIsMapped
<1>6. OwnerInv'
  BY <1>u, <1>r, <1>d DEF IInv, OwnerInv, Finished, At
<1>7. SendersInv'
  BY <1>u, <1>r, <1>d DEF IInv, SendersInv
<1>8. AloneInv'
  BY <1>r DEF IInv, AloneInv, Changing
<1>9. SelectInv'
  <2> DEFINE x == packet_senders[client[c]]
  <2>1. x \in DOMAIN client /\ client[x] = client[c] /\ relay[x]["up"].pc \in {"reading", "unregister"}
    BY <1>u, <1>o DEF IInv, SendersInv
  <2>2. x = c
    BY <2>1, <1>o, <1>d, Underway, SameConnection
  <2>3. relay[c]["up"].bridge = relay[c]["down"].bridge
    BY <2>1, <2>2, <1>u DEF IInv, InUseIsMapped, TaskInv
  <2> QED BY <2>1, <2>2, <2>3, <1>r DEF SelectInv
<1>10. RouteInv'
  BY <1>u, <1>r, <1>d DEF IInv, RouteInv, Linked, AloneInv, SelectInv, TaskInv, Changing
<1> QED BY <1>0, <1>1, <1>2, <1>3, <1>4, <1>5, <1>6, <1>7, <1>8, <1>9, <1>10 DEF IInv, Sane

(* Unregister keeps IInv: the uplink begins to withdraw the route.           *)
LEMMA UnregisterStep ==
  ASSUME IInv, NEW c \in Conns, Unregister(c)
  PROVE  IInv'
<1>t. relay \in RelayType
  BY DEF IInv, Sane, TypeOK, RelayType, TaskType
<1>u. /\ relay[c]["up"].pc = "unregister"
      /\ packet_senders' = [packet_senders EXCEPT ![client[c]] = None]
      /\ Begins(c, "up", "clear_tx")
      /\ UNCHANGED <<client, bridges, next_flow_id, madeFor, kept, packet_bridge, mitm_packet_tx,
                     txLock, manager>>
  BY DEF Unregister, At, proxy, route
<1>o. c \in DOMAIN client /\ client[c] \in Clients /\ ~Finished(c) /\ c # None
  BY <1>u, Underway DEF Dirs
<1>r. /\ relay' \in RelayType
      /\ \A e \in Conns, f \in Dirs :
           /\ relay'[e][f].pc = IF e = c /\ f = "up" THEN "clear_tx" ELSE relay[e][f].pc
           /\ relay'[e][f].bridge = relay[e][f].bridge
           /\ relay'[e][f].alone => e = c /\ f = "up"
      /\ relay'[c]["up"].alone <=> \A e \in Conns, f \in Dirs : Changing(e, f) => e = c /\ f = "up"
      /\ torn' \in BOOLEAN /\ (torn' <=> torn \/ ~relay'[c]["up"].alone)
  BY <1>t, <1>u, OneBegins DEF Dirs, PCs
<1> USE DEF None, Dirs
<1>d. /\ DOMAIN client \subseteq Conns /\ \A e \in DOMAIN client : client[e] \in Clients
      /\ mitm_packet_tx \in Conns \cup {None}
      /\ packet_senders \in [Clients -> Conns \cup {None}]
  BY ConnectionsAreNumbered DEF IInv, Sane, TypeOK
<1>0. TypeOK'
  BY <1>u, <1>r DEF IInv, Sane, TypeOK, RelayType, TaskType
<1>1. UnopenedInv'
  BY <1>u, <1>r DEF IInv, Sane, UnopenedInv
<1>2. OnePerAddress'
  BY <1>u, <1>r, <1>d DEF IInv, OnePerAddress, Finished, At
<1>3. TaskInv'
  BY <1>u, <1>r DEF IInv, TaskInv
<1>4. FlowInv'
  BY <1>u DEF IInv, FlowInv
<1>5. InUseIsMapped'
  BY <1>u, <1>r DEF IInv, InUseIsMapped
<1>6. OwnerInv'
  BY <1>u, <1>r, <1>d DEF IInv, OwnerInv, Finished, At
<1>7. SendersInv'
  BY <1>u, <1>r, <1>d DEF IInv, SendersInv
<1>8. AloneInv'
  BY <1>r DEF IInv, AloneInv, Changing
<1>9. SelectInv'
  BY <1>r DEF IInv, SelectInv, AloneInv, Changing
<1>10. RouteInv'
  BY <1>u, <1>r, <1>d DEF IInv, RouteInv, Linked, AloneInv, SelectInv, TaskInv, Changing
<1> QED BY <1>0, <1>1, <1>2, <1>3, <1>4, <1>5, <1>6, <1>7, <1>8, <1>9, <1>10 DEF IInv, Sane

(* Acquire keeps IInv:                                                       *)
(*   the bridge of the address, or a new one with a number of its own.       *)
LEMMA AcquireStep ==
  ASSUME IInv, NEW c \in Conns, NEW d \in Dirs, Acquire(c, d)
  PROVE  IInv'
<1> DEFINE a == client[c]
           b == IF bridges[a] = None THEN next_flow_id ELSE bridges[a]
           p == IF d = "up" THEN "register" ELSE "reading"
<1>t. relay \in RelayType
  BY DEF IInv, Sane, TypeOK, RelayType, TaskType
<1>u. /\ relay[c][d].pc = "start"
      /\ relay' = [relay EXCEPT ![c][d] = Task(p, b)]
      /\ bridges' = [bridges EXCEPT ![a] = b]
      /\ bridges[a] = None => next_flow_id' = next_flow_id + 1 /\ madeFor' = Append(madeFor, c)
      /\ bridges[a] # None => UNCHANGED <<next_flow_id, madeFor>>
      /\ UNCHANGED <<client, kept, packet_senders, packet_bridge, mitm_packet_tx, txLock,
                     manager, torn>>
  BY DEF Acquire, At, proxy, route
<1>o. c \in DOMAIN client /\ client[c] \in Clients /\ ~Finished(c) /\ c # None
  BY <1>u, Underway DEF Dirs
<1>m. /\ p \in PCs /\ p \in {"register", "reading"} /\ (p = "register" => d = "up")
      /\ a \in Clients /\ a = client[c] /\ b \in Nat /\ b # None
      /\ bridges[a] = None => b = next_flow_id
      /\ bridges[a] # None => b = bridges[a]
  BY <1>o DEF IInv, Sane, TypeOK, FlowInv, PCs, None
<1> HIDE DEF a, b, p
<1>g. /\ bridges' \in [Clients -> Nat] /\ bridges'[a] = b
      /\ \A g \in Clients \ {a} : bridges'[g] = bridges[g]
  BY <1>u, <1>o, <1>m DEF IInv, Sane, TypeOK
<1>l. /\ madeFor \in Seq(Conns) /\ Len(madeFor) \in Nat /\ next_flow_id = Len(madeFor) + 1
      /\ \A g \in Clients : bridges[g] \in Nat /\ bridges[g] < next_flow_id
  BY DEF IInv, Sane, TypeOK, FlowInv
<1>h. /\ madeFor' \in Seq(Conns) /\ next_flow_id' \in Nat \ {0} /\ next_flow_id' >= next_flow_id
      /\ next_flow_id' = Len(madeFor') + 1
      /\ \A i \in 1..Len(madeFor) : madeFor'[i] = madeFor[i]
      /\ bridges[a] = None => b < next_flow_id' /\ madeFor'[b] = c
  <2>1. CASE bridges[a] = None
    <3>1. madeFor' = Append(madeFor, c) /\ next_flow_id' = next_flow_id + 1 /\ b = next_flow_id
      BY <1>u, <1>m, <2>1
    <3> QED BY <3>1, <1>l
  <2>2. CASE bridges[a] # None
    BY <1>u, <1>l, <2>2
  <2> QED BY <2>1, <2>2
<1>r. /\ relay' \in RelayType
      /\ \A e \in Conns, f \in Dirs :
           /\ relay'[e][f].pc = IF e = c /\ f = d THEN p ELSE relay[e][f].pc
           /\ relay'[e][f].bridge = IF e = c /\ f = d THEN b ELSE relay[e][f].bridge
           /\ relay'[e][f].alone <=> (e # c \/ f # d) /\ relay[e][f].alone
  BY <1>t, <1>u, <1>m, OneBecomes
<1> USE DEF None, Dirs
<1>d. /\ DOMAIN client \subseteq Conns /\ \A e \in DOMAIN client : client[e] \in Clients
      /\ mitm_packet_tx \in Conns \cup {None}
      /\ packet_senders \in [Clients -> Conns \cup {None}]
  BY ConnectionsAreNumbered DEF IInv, Sane, TypeOK
<1>0. TypeOK'
  BY <1>u, <1>r, <1>g, <1>h DEF IInv, Sane, TypeOK, RelayType, TaskType
<1>1. UnopenedInv'
  BY <1>u DEF IInv, Sane, UnopenedInv
<1>2. OnePerAddress'
  BY <1>u DEF IInv, OnePerAddress, Finished, At
<1>3. TaskInv'
  BY <1>m, <1>r DEF IInv, TaskInv
<1>4. FlowInv'
  <2>1. b < next_flow_id' /\ \A g \in Clients : bridges[g] < next_flow_id'
    BY <1>m, <1>l, <1>h
  <2>2. \A g \in Clients : bridges'[g] < next_flow_id'
    BY <2>1, <1>g
  <2>3. ASSUME NEW x \in Clients, NEW y \in Clients, bridges'[x] = bridges'[y], bridges'[x] # None
        PROVE  x = y
    <3>1. CASE bridges[a] = None
      <4>1. \A g \in Clients \ {a} : bridges'[g] < b
        BY <3>1, <1>g, <1>l, <1>m
      <4>2. \A g \in Clients \ {a} : bridges'[g] # b
        BY <4>1, <1>g, <1>m
      <4>3. \A g, k \in Clients \ {a} : bridges'[g] = bridges'[k] /\ bridges'[g] # None => g = k
        BY <1>g DEF IInv, FlowInv
      <4> QED BY <2>3, <4>2, <4>3, <1>g
    <3>2. CASE bridges[a] # None
      <4>1. \A g \in Clients : bridges'[g] = bridges[g]
        BY <3>2, <1>g, <1>m
      <4> QED BY <2>3, <4>1 DEF IInv, FlowInv
    <3> QED BY <3>1, <3>2
  <2> QED BY <2>2, <2>3, <1>h DEF FlowInv
<1>5. InUseIsMapped'
  <2>1. ASSUME NEW e \in Conns, NEW f \in Dirs, relay[e][f].bridge # None
        PROVE  client[e] \in Clients /\ bridges[client[e]] = relay[e][f].bridge
    BY <2>1, Underway DEF IInv, InUseIsMapped, TaskInv
  <2> QED BY <2>1, <1>o, <1>u, <1>m, <1>r, <1>g DEF InUseIsMapped
<1>6. OwnerInv'
  <2>1. \A e \in DOMAIN client : ~Finished(e) => (\E f \in Dirs : relay'[e][f].pc # "gone")
    BY <1>u, <1>m, <1>r, <1>d DEF Finished, At
  <2>2. ASSUME NEW g \in Clients, bridges[g] # None, bridges[g] \notin kept
        PROVE  /\ madeFor'[bridges[g]] \in DOMAIN client /\ client[madeFor'[bridges[g]]] = g
               /\ (\E f \in Dirs : relay'[madeFor'[bridges[g]]][f].pc # "gone")
    <3>1. madeFor'[bridges[g]] = madeFor[bridges[g]]
      BY <2>2, <1>h, <1>l
    <3> QED BY <2>1, <2>2, <3>1 DEF IInv, OwnerInv
  <2>3. CASE bridges[a] = None
    <3>1. (\E f \in Dirs : relay'[c][f].pc # "gone")
      BY <2>1, <1>o
    <3> QED BY <2>2, <2>3, <3>1, <1>g, <1>h, <1>m, <1>o, <1>u DEF OwnerInv, Finished, At
  <2>4. CASE bridges[a] # None
    BY <2>2, <2>4, <1>g, <1>h, <1>m, <1>o, <1>u DEF OwnerInv, Finished, At
  <2> QED BY <2>3, <2>4
<1>7. SendersInv'
  BY <1>u DEF IInv, SendersInv
<1>8. AloneInv'
  BY <1>u, <1>m, <1>r DEF IInv, AloneInv, Changing
<1>9. SelectInv'
  BY <1>u, <1>r DEF IInv, SelectInv, AloneInv, Changing
<1>10. RouteInv'
  BY <1>u DEF IInv, RouteInv, Linked, AloneInv, SelectInv, TaskInv, Changing
<1> QED BY <1>0, <1>1, <1>2, <1>3, <1>4, <1>5, <1>6, <1>7, <1>8, <1>9, <1>10 DEF IInv, Sane

(* Open keeps IInv:                                                          *)
(*   a new connection of an address whose earlier ones have returned.        *)
LEMMA OpenStep ==
  ASSUME IInv, NEW a \in Clients, Open(a)
  PROVE  IInv'
<1> DEFINE n == Len(client) + 1
<1>u. /\ Len(client) < MaxConns
      /\ client' = Append(client, a)
      /\ \A c \in DOMAIN client : client[c] = a => Finished(c)
      /\ relay' = [relay EXCEPT ![n] = [d \in Dirs |-> Task("start", None)]]
      /\ UNCHANGED <<bridges, next_flow_id, madeFor, kept, packet_senders, packet_bridge,
                     mitm_packet_tx, txLock, manager, torn>>
  BY DEF Open, proxy, route
<1>n. /\ n \in Conns /\ n \notin DOMAIN client
      /\ client' \in Seq(Clients) /\ Len(client') = n /\ DOMAIN client' = DOMAIN client \cup {n}
      /\ client'[n] = a /\ \A c \in DOMAIN client : client'[c] = client[c]
  BY <1>u, ConnsAssumption DEF IInv, Sane, TypeOK, Conns
<1>t. relay \in RelayType
  BY DEF IInv, Sane, TypeOK, RelayType, TaskType
<1>o. \A f \in Dirs : relay[n][f].pc = "unopened" /\ relay[n][f].bridge = None /\ ~relay[n][f].alone
  BY <1>n DEF IInv, Sane, UnopenedInv, TaskInv, AloneInv, Changing
<1> HIDE DEF n
<1>r. /\ relay' \in RelayType
      /\ \A e \in Conns, f \in Dirs :
           /\ relay'[e][f].pc = IF e = n THEN "start" ELSE relay[e][f].pc
           /\ relay'[e][f].bridge = relay[e][f].bridge
           /\ relay'[e][f].alone <=> relay[e][f].alone
  <2>1. PICK t \in TaskType : t = Task("start", None)
    BY DEF Task, TaskType, PCs, None
  <2>2. t.pc = "start" /\ t.bridge = None /\ t.alone = FALSE
    BY <2>1 DEF Task
  <2>3. relay' = [relay EXCEPT ![n] = [d \in Dirs |-> t]]
    BY <1>u, <2>1
  <2>4. /\ relay' \in RelayType
        /\ \A e \in Conns, f \in Dirs : relay'[e][f] = IF e = n THEN t ELSE relay[e][f]
    BY <2>3, <1>t, <1>n DEF RelayType
  <2> QED BY <2>2, <2>4, <1>o
<1> USE DEF None, Dirs
<1>d. /\ DOMAIN client \subseteq Conns /\ \A e \in DOMAIN client : client[e] \in Clients
      /\ mitm_packet_tx \in Conns \cup {None}
      /\ packet_senders \in [Clients -> Conns \cup {None}]
  BY ConnectionsAreNumbered DEF IInv, Sane, TypeOK
<1>0. TypeOK'
  BY <1>u, <1>n, <1>r, ConnsAssumption DEF IInv, Sane, TypeOK, RelayType, TaskType, Conns
<1>1. UnopenedInv'
  BY <1>u, <1>n DEF IInv, Sane, UnopenedInv
<1>2. OnePerAddress'
  BY <1>u, <1>n DEF IInv, OnePerAddress, Finished, At
<1>3. TaskInv'
  BY <1>n, <1>o, <1>r DEF IInv, TaskInv
<1>4. FlowInv'
  BY <1>u, <1>n DEF IInv, FlowInv
<1>5. InUseIsMapped'
  BY <1>u, <1>n, <1>r, Underway DEF IInv, InUseIsMapped, TaskInv
<1>6. OwnerInv'
  BY <1>u, <1>n DEF IInv, OwnerInv, Finished, At
<1>7. SendersInv'
  BY <1>u, <1>n DEF IInv, SendersInv
<1>8. AloneInv'
  BY <1>u, <1>n, <1>r DEF IInv, AloneInv, Changing
<1>9. SelectInv'
  BY <1>u, <1>n, <1>r DEF IInv, SelectInv, AloneInv, Changing
<1>10. RouteInv'
  BY <1>u, <1>n, <1>o DEF IInv, RouteInv, Linked, AloneInv, SelectInv, TaskInv, Changing
<1> QED BY <1>0, <1>1, <1>2, <1>3, <1>4, <1>5, <1>6, <1>7, <1>8, <1>9, <1>10 DEF IInv, Sane

(* The manager changes nothing that the invariant is about.                  *)
LEMMA ManagerStep ==
  ASSUME IInv, TakesBridge \/ SendsFrame \/ UNCHANGED vars
  PROVE  IInv'
<1>1. manager' \in [pc : {"rest", "send"}, bridge : Nat]
  BY DEF IInv, Sane, TypeOK, TakesBridge, SendsFrame, Resting, None, vars
<1>2. UNCHANGED <<client, relay, bridges, next_flow_id, madeFor, kept, packet_senders,
                  packet_bridge, mitm_packet_tx, txLock, torn>>
  BY DEF TakesBridge, SendsFrame, vars, proxy, route
<1>3. Sane'
  BY <1>1, <1>2 DEF IInv, Sane, TypeOK, UnopenedInv
<1>4. (OnePerAddress /\ TaskInv /\ FlowInv /\ InUseIsMapped /\ OwnerInv)'
  BY <1>2 DEF IInv, OnePerAddress, TaskInv, FlowInv, InUseIsMapped, OwnerInv, Finished, At
<1>5. (SendersInv /\ AloneInv /\ SelectInv /\ RouteInv)'
  BY <1>2 DEF IInv, SendersInv, AloneInv, SelectInv, RouteInv, Linked, Changing
<1> QED BY <1>3, <1>4, <1>5 DEF IInv

(* The invariant holds at first, at every step, and so always.               *)
LEMMA InvInit == Init => IInv
<1> SUFFICES ASSUME Init PROVE IInv
  OBVIOUS
<1> USE DEF Init, None
<1>1. \A c \in Conns, d \in Dirs :
        relay[c][d].pc = "unopened" /\ relay[c][d].bridge = None /\ relay[c][d].alone = FALSE
  BY DEF NotOpen, Task
<1>2. TypeOK
  <2>1. NotOpen \in TaskType
    BY DEF NotOpen, Task, TaskType, PCs
  <2>2. relay \in [Conns -> [Dirs -> TaskType]]
    BY <2>1
  <2>3. client \in Seq(Clients) /\ Len(client) <= MaxConns /\ madeFor \in Seq(Conns)
    BY ConnsAssumption
  <2>4. manager \in [pc : {"rest", "send"}, bridge : Nat]
    BY DEF Resting
  <2>5. /\ {mitm_packet_tx, txLock} \subseteq Conns \cup {None}
        /\ packet_senders \in [Clients -> Conns \cup {None}]
    OBVIOUS
  <2>6. bridges \in [Clients -> Nat] /\ next_flow_id \in Nat \ {0} /\ packet_bridge \in Nat
    OBVIOUS
  <2> QED BY <2>2, <2>3, <2>4, <2>5, <2>6 DEF TypeOK, TaskType
<1>3. DOMAIN client = {} /\ Len(client) = 0 /\ Len(madeFor) = 0
  OBVIOUS
<1>4. UnopenedInv /\ OnePerAddress /\ TaskInv /\ FlowInv /\ InUseIsMapped /\ OwnerInv
  BY <1>1, <1>3 DEF UnopenedInv, OnePerAddress, TaskInv, FlowInv, InUseIsMapped, OwnerInv
<1>5. SendersInv /\ AloneInv /\ SelectInv /\ RouteInv
  BY <1>1 DEF SendersInv, AloneInv, SelectInv, RouteInv, Linked, Changing, Dirs
<1> QED BY <1>2, <1>4, <1>5 DEF IInv, Sane

LEMMA InvStep == IInv /\ [Next]_vars => IInv'
BY OpenStep, AcquireStep, EndsStep, DropStep, ReapStep, RegisterStep, LookStep, SelectBridgeStep,
   SelectTxStep, UnregisterStep, ClearTxStep, ClearBridgeStep, ManagerStep
   DEF Next

LEMMA Invariant == Spec => []IInv
BY InvInit, InvStep, PTL DEF Spec

(* Types, for any addresses and any number of connections.                   *)
THEOREM TypeSafety == Spec => []TypeOK
<1>1. IInv => TypeOK
  BY DEF IInv, Sane
<1> QED BY <1>1, Invariant, PTL

(* FlowBridges: the bridge a relay task holds is the one its address is mapped*)
(* to until the task gives it up, whoever opens and closes meanwhile.        *)
THEOREM SharedBridge == Spec => []InUseIsMapped
<1>1. IInv => InUseIsMapped
  BY DEF IInv
<1> QED BY <1>1, Invariant, PTL

(* FlowBridges::release: a connection starts with a bridge of its own unless the*)
(* route or the manager still held the last one when its relays let go of it.*)
THEOREM FreshState == Spec => []StateIsNotResumed
<1>1. ASSUME IInv, NEW c \in Conns, NEW d \in Dirs, relay[c][d].bridge # None,
             relay[c][d].bridge \notin kept
      PROVE  madeFor[relay[c][d].bridge] = c
  <2> DEFINE b == relay[c][d].bridge
             e == madeFor[b]
  <2>1. c \in DOMAIN client /\ client[c] \in Clients /\ ~Finished(c) /\ bridges[client[c]] = b
    BY <1>1, Underway DEF IInv, TaskInv, InUseIsMapped
  <2>2. e \in DOMAIN client /\ client[e] = client[c] /\ ~Finished(e)
    BY <1>1, <2>1 DEF IInv, OwnerInv
  <2> QED BY <1>1, <2>1, <2>2, SameConnection
<1>2. IInv => StateIsNotResumed
  BY <1>1 DEF StateIsNotResumed
<1> QED BY <1>2, Invariant, PTL

(* handler.rs and context.rs: when no relay is changing the route, and no two*)
(* changes overlapped, bridge and channel belong to one living connection.   *)
THEOREM WholeRoute == Spec => []RouteIsWhole
<1>1. ASSUME IInv, ~torn, \A c \in Conns, d \in Dirs : ~Changing(c, d)
      PROVE  \/ packet_bridge = None /\ mitm_packet_tx = None
             \/ /\ mitm_packet_tx # None /\ packet_bridge # None
                /\ relay[mitm_packet_tx]["up"].bridge = packet_bridge
  <2>1. mitm_packet_tx \in Conns \cup {None}
    BY <1>1, ConnectionsAreNumbered DEF IInv, Sane, TypeOK
  <2>2. Linked
    BY <1>1 DEF IInv, RouteInv, Changing, Dirs
  <2> QED BY <1>1, <2>1, <2>2 DEF IInv, Linked, TaskInv, Dirs
<1>2. IInv => RouteIsWhole
  BY <1>1 DEF RouteIsWhole
<1> QED BY <1>2, Invariant, PTL

(* ---- the sockets of the tabs (PageFlows) ---- *)

(* ---- what the proofs are about: a handler has run to some lock ---- *)

(* A flow is known by its socket; the number of its bridge does not matter.  *)
FlowIs(p, b, u) ==
  b # NoFlow => b[1] \in Sockets /\ p \in Tabs /\ p = tabOf[b[1]] /\ u = b[1]
Preferred == slot["preferred"]
Sound == FlowIs(slot["page"], slot["bridge"], slot["url"])
FallbackSound ==
  /\ FlowIs(slot["fallback_page"], slot["fallback_bridge"], slot["fallback_url"])
  /\ slot["fallback_bridge"] # NoFlow => slot["fallback_bridge"][1] = lastCreated
PrefersTarget == Preferred # NoFlow => TargetSocket = Preferred
PrefersLive == ~overlapped /\ Preferred # NoFlow => Preferred \notin handledClosed
Settled ==
  Sound /\ FallbackSound /\ PrefersTarget /\ PrefersLive /\ (~overlapped => Followed)

(* The handler of the task t, for the socket s whose bridge is b.            *)
Creating(t, s, b) ==
  /\ Sound /\ PrefersTarget /\ PrefersLive /\ lastCreated = s
  /\ \/ todo[t] = << <<"fallback_page", t>>, <<"fallback_bridge", b>>, <<"fallback_url", s>>,
                     <<"unless preferred", s>> >>
     \/ /\ todo[t] = << <<"fallback_bridge", b>>, <<"fallback_url", s>>,
                        <<"unless preferred", s>> >>
        /\ slot["fallback_page"] = t
     \/ /\ todo[t] = << <<"fallback_url", s>>, <<"unless preferred", s>> >>
        /\ slot["fallback_page"] = t /\ slot["fallback_bridge"] = b
     \/ /\ todo[t] = << <<"unless preferred", s>> >>
        /\ slot["fallback_page"] = t /\ slot["fallback_bridge"] = b /\ slot["fallback_url"] = s
Targeting(t, s, b) ==
  /\ FallbackSound /\ PrefersLive /\ s \notin deadThen /\ Preferred \in {NoFlow, s}
  /\ \/ todo[t] = << <<"page", t>>, <<"bridge", b>>, <<"url", s>> >>
     \/ todo[t] = << <<"bridge", b>>, <<"url", s>> >> /\ slot["page"] = t
     \/ todo[t] = << <<"url", s>> >> /\ slot["page"] = t /\ slot["bridge"] = b
Preferring(t, s, b) ==
  /\ FallbackSound /\ s \notin handledClosed
  /\ todo[t] = << <<"preferred", s>>, <<"page", t>>, <<"bridge", b>>, <<"url", s>> >>
Closing(t, s) ==
  /\ Sound /\ FallbackSound /\ PrefersTarget /\ (~overlapped => Followed)
  /\ ~overlapped /\ Preferred \notin {NoFlow, s} => Preferred \notin handledClosed
  /\ todo[t] = << <<"if preferred", s>> >>
Falling(t) ==
  /\ FallbackSound
  /\ \/ todo[t] = << <<"preferred", NoFlow>>, <<"fall back", "page">>,
                     <<"fall back", "bridge">>, <<"fall back", "url">> >>
     \/ /\ Preferred = NoFlow
        /\ \/ todo[t] = << <<"fall back", "page">>, <<"fall back", "bridge">>,
                           <<"fall back", "url">> >>
           \/ /\ todo[t] = << <<"fall back", "bridge">>, <<"fall back", "url">> >>
              /\ slot["page"] = slot["fallback_page"]
           \/ /\ todo[t] = << <<"fall back", "url">> >>
              /\ slot["page"] = slot["fallback_page"]
              /\ slot["bridge"] = slot["fallback_bridge"]
GameFlow(t, s) == s \in Sockets /\ tabOf[s] = t /\ game[s] /\ s \in urls[t]
Running(t, s, b) ==
  Creating(t, s, b) \/ Targeting(t, s, b) \/ Preferring(t, s, b) \/ Closing(t, s) \/ Falling(t)
InHandler(Numbers) ==
  \E t \in Tabs :
    /\ \A u \in Tabs \ {t} : todo[u] = <<>>
    /\ todo[t] # <<>> /\ \E s \in Sockets, n \in Numbers : GameFlow(t, s) /\ Running(t, s, <<s, n>>)

(* ---- the invariants ---- *)

Shapes ==
  /\ sock \in [Sockets -> {"none", "open", "closed"}]
  /\ tabOf \in [Sockets -> Tabs \cup {NoFlow}] /\ game \in [Sockets -> BOOLEAN]
  /\ created \in [Tabs -> Seq(Sockets)] /\ received \in [Tabs -> Seq(Sockets \X BOOLEAN)]
  /\ closed \in [Tabs -> Seq(Sockets)]
  /\ made \in [Sockets -> Nat] /\ mapped \in [Sockets -> BOOLEAN]
  /\ autoplayRequest \in [Tabs -> Sockets \cup {NoFlow}] /\ urls \in [Tabs -> SUBSET Sockets]
  /\ handledClosed \subseteq Sockets /\ deadThen \subseteq handledClosed
  /\ lastCreated \in Sockets \cup {NoFlow}

(* Events and references are of sockets that were opened in their tab.       *)
Heard ==
  /\ \A s \in Sockets : (sock[s] = "none" <=> tabOf[s] = NoFlow)
                        /\ (sock[s] = "none" => ~game[s])
  /\ \A t \in Tabs :
       /\ \A k \in DOMAIN created[t] : tabOf[created[t][k]] = t
       /\ \A k \in DOMAIN received[t] : tabOf[received[t][k][1]] = t
       /\ \A k \in DOMAIN closed[t] : tabOf[closed[t][k]] = t
       /\ autoplayRequest[t] # NoFlow =>
            game[autoplayRequest[t]] /\ autoplayRequest[t] \in urls[t]
       /\ \A s \in urls[t] : tabOf[s] = t

(* As long as a game plays on its platform's URL: its sockets come one after *)
(* another, the open one is its task's request, and so is the preferred one. *)
Played ==
  /\ DOMAIN slot = Slots /\ DOMAIN todo = Tabs /\ lastCreated \notin deadThen
  /\ \A t \in Tabs : \A k \in DOMAIN received[t] : received[t][k][2] => game[received[t][k][1]]
  /\ Preferred # NoFlow =>
       Preferred \in Sockets /\ game[Preferred] /\ Preferred \in urls[tabOf[Preferred]]
  /\ ~overlapped =>
       /\ \A g, h \in GameOpen : g = h
       /\ \A g \in GameOpen : g \in urls[tabOf[g]] => autoplayRequest[tabOf[g]] = g

OnTrack(Numbers) == ~disordered => Played /\ ((Idle /\ Settled) \/ InHandler(Numbers))

BridgeKept == \A s \in Sockets \ handledClosed : made[s] = 0 \/ (made[s] = 1 /\ mapped[s])

(* ---- sequences ---- *)

LEMMA One == ASSUME NEW a PROVE Head(<<a>>) = a /\ Tail(<<a>>) = <<>> /\ <<a>> # <<>>
<1>1. Tail(<<a>>) = <<>>
  OBVIOUS
<1>. QED
  BY <1>1

LEMMA Two ==
  ASSUME NEW a, NEW b PROVE Head(<<a, b>>) = a /\ Tail(<<a, b>>) = <<b>> /\ <<a, b>> # <<>>
<1>1. Tail(<<a, b>>) = <<b>>
  OBVIOUS
<1>. QED
  BY <1>1

LEMMA Three ==
  ASSUME NEW a, NEW b, NEW c
  PROVE  Head(<<a, b, c>>) = a /\ Tail(<<a, b, c>>) = <<b, c>> /\ <<a, b, c>> # <<>>
<1>1. Tail(<<a, b, c>>) = <<b, c>>
  OBVIOUS
<1>. QED
  BY <1>1

LEMMA Four ==
  ASSUME NEW a, NEW b, NEW c, NEW d
  PROVE  /\ Head(<<a, b, c, d>>) = a /\ Tail(<<a, b, c, d>>) = <<b, c, d>>
         /\ <<a, b, c, d>> # <<>> /\ <<a>> \o <<b, c, d>> = <<a, b, c, d>>
<1>1. Tail(<<a, b, c, d>>) = <<b, c, d>>
  OBVIOUS
<1>2. <<a>> \o <<b, c, d>> = <<a, b, c, d>>
  <2>. DEFINE S == {a, b, c, d}
  <2>1. \A i \in 1..4 : (<<a>> \o <<b, c, d>>)[i] = <<a, b, c, d>>[i]
    OBVIOUS
  <2>2. Len(<<a>> \o <<b, c, d>>) = 4
    OBVIOUS
  <2>3. <<a>> \in Seq(S) /\ <<b, c, d>> \in Seq(S) /\ <<a, b, c, d>> \in Seq(S)
    OBVIOUS
  <2>4. <<a>> \o <<b, c, d>> \in Seq(S)
    BY <2>3
  <2>. QED
    BY <2>1, <2>2, <2>3, <2>4, SeqEqual
<1>3. Head(<<a, b, c, d>>) = a /\ <<a, b, c, d>> # <<>>
  OBVIOUS
<1>. QED
  BY <1>1, <1>2, <1>3

LEMMA QueueMoves ==
  ASSUME NEW S, NEW q \in Seq(S)
  PROVE  /\ \A x \in S : /\ Append(q, x) \in Seq(S)
                         /\ DOMAIN Append(q, x) = 1..(Len(q) + 1)
                         /\ \A k \in DOMAIN Append(q, x) :
                              Append(q, x)[k] = x \/ (k \in DOMAIN q /\ Append(q, x)[k] = q[k])
         /\ q # <<>> => /\ Head(q) \in S /\ Head(q) = q[1] /\ 1 \in DOMAIN q /\ Tail(q) \in Seq(S)
                        /\ \A k \in DOMAIN Tail(q) : k + 1 \in DOMAIN q /\ Tail(q)[k] = q[k + 1]
<1>1. ASSUME NEW x \in S
      PROVE  /\ Append(q, x) \in Seq(S)
             /\ DOMAIN Append(q, x) = 1..(Len(q) + 1)
             /\ \A k \in DOMAIN Append(q, x) :
                  Append(q, x)[k] = x \/ (k \in DOMAIN q /\ Append(q, x)[k] = q[k])
  <2>1. Append(q, x) \in Seq(S) /\ DOMAIN Append(q, x) = 1..(Len(q) + 1) /\ DOMAIN q = 1..Len(q)
        /\ Len(q) \in Nat
    OBVIOUS
  <2>2. \A k \in 1..Len(q) : Append(q, x)[k] = q[k]
    OBVIOUS
  <2>3. Append(q, x)[Len(q) + 1] = x
    OBVIOUS
  <2>. QED
    BY <2>1, <2>2, <2>3
<1>2. ASSUME q # <<>>
      PROVE  /\ Head(q) \in S /\ Head(q) = q[1] /\ 1 \in DOMAIN q /\ Tail(q) \in Seq(S)
             /\ \A k \in DOMAIN Tail(q) : k + 1 \in DOMAIN q /\ Tail(q)[k] = q[k + 1]
  <2>1. Head(q) \in S /\ Head(q) = q[1] /\ 1 \in DOMAIN q
    BY <1>2
  <2>2. Tail(q) \in Seq(S) /\ DOMAIN Tail(q) = 1..(Len(q) - 1) /\ DOMAIN q = 1..Len(q)
        /\ Len(q) \in Nat
    BY <1>2
  <2>3. \A k \in 1..(Len(q) - 1) : Tail(q)[k] = q[k + 1]
    BY <1>2
  <2>. QED
    BY <2>1, <2>2, <2>3
<1>. QED
  BY <1>1, <1>2

(* ---- the tabs, their sockets and what is heard of them ---- *)

LEMMA Tabs0 == NoFlow \notin Tabs /\ NoFlow \notin Sockets
               /\ \A s \in Sockets, n \in Nat : <<s, n>> # NoFlow
BY FramesAssumption

LEMMA AcquiredType ==
  ASSUME Shapes, NEW s \in Sockets
  PROVE  /\ Acquired(s) \in Nat
         /\ AcquireFlow(s) \/ AcquireRelease(s) =>
              made' \in [Sockets -> Nat] /\ mapped' \in [Sockets -> BOOLEAN]
<1>1. Acquired(s) \in Nat
  BY DEF Shapes, Acquired
<1>2. \A b \in BOOLEAN : [mapped EXCEPT ![s] = b] \in [Sockets -> BOOLEAN]
  BY DEF Shapes
<1>3. (\E n \in {"bridge", "fallback_bridge"} : slot[n] = <<s, Acquired(s)>>) \in BOOLEAN
  OBVIOUS
<1>4. AcquireFlow(s) \/ AcquireRelease(s) => \E b \in BOOLEAN : mapped' = [mapped EXCEPT ![s] = b]
  BY <1>3 DEF AcquireFlow, AcquireRelease
<1>5. AcquireFlow(s) \/ AcquireRelease(s) => made' \in [Sockets -> Nat]
  BY <1>1 DEF Shapes, AcquireFlow, AcquireRelease
<1>. QED
  BY <1>1, <1>2, <1>4, <1>5

(* The event that a handler takes from its stream.                           *)
LEMMA EventTaken ==
  ASSUME Shapes, Heard, NEW t \in Tabs
  PROVE  /\ created[t] # <<>> => Head(created[t]) \in Sockets
                                 /\ tabOf[Head(created[t])] = t
         /\ received[t] # <<>> => /\ Head(received[t])[1] \in Sockets
                                  /\ Head(received[t])[2] \in BOOLEAN
                                  /\ tabOf[Head(received[t])[1]] = t
                                  /\ 1 \in DOMAIN received[t] /\ Head(received[t]) = received[t][1]
         /\ closed[t] # <<>> => Head(closed[t]) \in Sockets /\ tabOf[Head(closed[t])] = t
<1>1. /\ created[t] \in Seq(Sockets) /\ closed[t] \in Seq(Sockets)
      /\ received[t] \in Seq(Sockets \X BOOLEAN)
  BY DEF Shapes
<1>2. created[t] # <<>> => Head(created[t]) \in Sockets /\ tabOf[Head(created[t])] = t
  BY <1>1, QueueMoves DEF Heard
<1>3. closed[t] # <<>> => Head(closed[t]) \in Sockets /\ tabOf[Head(closed[t])] = t
  BY <1>1, QueueMoves DEF Heard
<1>4. received[t] # <<>> => /\ Head(received[t]) \in Sockets \X BOOLEAN
                            /\ 1 \in DOMAIN received[t] /\ Head(received[t]) = received[t][1]
  BY <1>1, QueueMoves
<1>5. received[t] # <<>> => tabOf[Head(received[t])[1]] = t
  BY <1>4 DEF Heard
<1>. QED
  BY <1>2, <1>3, <1>4, <1>5

LEMMA ShapesInductive == Shapes /\ Heard /\ PageNext => Shapes'
<1>. SUFFICES ASSUME Shapes, Heard, PageNext
              PROVE  Shapes'
  OBVIOUS
<1>0. /\ sock \in [Sockets -> {"none", "open", "closed"}]
      /\ tabOf \in [Sockets -> Tabs \cup {NoFlow}] /\ game \in [Sockets -> BOOLEAN]
      /\ created \in [Tabs -> Seq(Sockets)] /\ received \in [Tabs -> Seq(Sockets \X BOOLEAN)]
      /\ closed \in [Tabs -> Seq(Sockets)]
      /\ made \in [Sockets -> Nat] /\ mapped \in [Sockets -> BOOLEAN]
      /\ autoplayRequest \in [Tabs -> Sockets \cup {NoFlow}]
      /\ urls \in [Tabs -> SUBSET Sockets]
      /\ handledClosed \subseteq Sockets /\ deadThen \subseteq handledClosed
      /\ lastCreated \in Sockets \cup {NoFlow}
  BY DEF Shapes
<1>1. ASSUME NEW t \in Tabs, OpenTab(t) \/ Attach(t) \/ Step(t)
      PROVE  Shapes'
  <2>1. UNCHANGED <<sock, tabOf, game, eventVars, bridgeVars, autoplayRequest, urls, historyVars>>
    BY <1>1 DEF OpenTab, Attach, Step, browserVars, taskVars
  <2>. QED
    BY <1>0, <2>1 DEF eventVars, bridgeVars, historyVars, Shapes
<1>2. ASSUME NEW t \in Tabs, CloseTab(t)
      PROVE  Shapes'
  <2>1. sock' \in [Sockets -> {"none", "open", "closed"}]
    BY <1>0, <1>2 DEF CloseTab
  <2>. QED
    BY <1>0, <1>2, <2>1 DEF CloseTab, eventVars, bridgeVars, taskVars, historyVars, Shapes
<1>3. ASSUME NEW t \in Tabs, ReapTab(t)
      PROVE  Shapes'
  <2>1. /\ created' \in [Tabs -> Seq(Sockets)] /\ received' \in [Tabs -> Seq(Sockets \X BOOLEAN)]
        /\ closed' \in [Tabs -> Seq(Sockets)]
    <3>1. <<>> \in Seq(Sockets) /\ <<>> \in Seq(Sockets \X BOOLEAN)
      OBVIOUS
    <3>. QED
      BY <1>0, <1>3, <3>1 DEF ReapTab
  <2>. QED
    BY <1>0, <1>3, <2>1 DEF ReapTab, bridgeVars, historyVars, Shapes
<1>4. ASSUME NEW t \in Tabs, OnCreated(t)
      PROVE  Shapes'
  <2>. DEFINE s == Head(created[t])
  <2>1. s \in Sockets /\ created[t] # <<>>
    BY <1>4, EventTaken DEF OnCreated
  <2>2. created' \in [Tabs -> Seq(Sockets)]
    <3>1. created[t] \in Seq(Sockets)
      BY <1>0
    <3>2. Tail(created[t]) \in Seq(Sockets)
      BY <2>1, <3>1, QueueMoves
    <3>. QED
      BY <1>0, <1>4, <3>2 DEF OnCreated
  <2>3. made' \in [Sockets -> Nat] /\ mapped' \in [Sockets -> BOOLEAN]
    BY <1>4, <2>1, AcquiredType DEF OnCreated
  <2>4. urls' \in [Tabs -> SUBSET Sockets]
    BY <1>0, <1>4, <2>1 DEF OnCreated
  <2>5. /\ autoplayRequest' \in [Tabs -> Sockets \cup {NoFlow}]
        /\ lastCreated' \in Sockets \cup {NoFlow}
        /\ handledClosed' = handledClosed /\ deadThen' \subseteq handledClosed
    BY <1>0, <1>4, <2>1 DEF OnCreated
  <2>6. UNCHANGED <<sock, tabOf, game, received, closed>>
    BY <1>4 DEF OnCreated, browserVars
  <2>. QED
    BY <1>0, <2>2, <2>3, <2>4, <2>5, <2>6 DEF Shapes
<1>5. ASSUME NEW t \in Tabs, OnReceived(t)
      PROVE  Shapes'
  <2>1. Head(received[t])[1] \in Sockets /\ received[t] # <<>>
    BY <1>5, EventTaken DEF OnReceived
  <2>2. received' \in [Tabs -> Seq(Sockets \X BOOLEAN)]
    <3>1. received[t] \in Seq(Sockets \X BOOLEAN)
      BY <1>0
    <3>2. Tail(received[t]) \in Seq(Sockets \X BOOLEAN)
      BY <2>1, <3>1, QueueMoves
    <3>. QED
      BY <1>0, <1>5, <3>2 DEF OnReceived
  <2>3. made' \in [Sockets -> Nat] /\ mapped' \in [Sockets -> BOOLEAN]
    BY <1>5, <2>1, AcquiredType DEF OnReceived
  <2>4. UNCHANGED <<sock, tabOf, game, created, closed, autoplayRequest, urls, historyVars>>
    BY <1>5 DEF OnReceived, browserVars
  <2>. QED
    BY <1>0, <2>2, <2>3, <2>4 DEF historyVars, Shapes
<1>6. ASSUME NEW t \in Tabs, OnClosed(t)
      PROVE  Shapes'
  <2>1. Head(closed[t]) \in Sockets /\ closed[t] # <<>>
    BY <1>6, EventTaken DEF OnClosed
  <2>2. closed' \in [Tabs -> Seq(Sockets)]
    <3>1. closed[t] \in Seq(Sockets)
      BY <1>0
    <3>2. Tail(closed[t]) \in Seq(Sockets)
      BY <2>1, <3>1, QueueMoves
    <3>. QED
      BY <1>0, <1>6, <3>2 DEF OnClosed
  <2>3. made' \in [Sockets -> Nat] /\ mapped' \in [Sockets -> BOOLEAN]
    BY <1>6, <2>1, AcquiredType DEF OnClosed
  <2>4. autoplayRequest' \in [Tabs -> Sockets \cup {NoFlow}]
    BY <1>0, <1>6 DEF OnClosed
  <2>5. UNCHANGED <<sock, tabOf, game, created, received, urls, lastCreated, deadThen>>
        /\ handledClosed' = handledClosed \cup {Head(closed[t])}
    BY <1>6 DEF OnClosed, browserVars
  <2>. QED
    BY <1>0, <2>1, <2>2, <2>3, <2>4, <2>5 DEF Shapes
<1>7. ASSUME NEW t \in Tabs, NEW s \in Sockets, NEW isGame \in BOOLEAN, OpenSocket(s, t, isGame)
      PROVE  Shapes'
  <2>1. created' \in [Tabs -> Seq(Sockets)]
    <3>1. created[t] \in Seq(Sockets)
      BY <1>0
    <3>2. Append(created[t], s) \in Seq(Sockets)
      BY <3>1
    <3>. QED
      BY <1>0, <1>7, <3>2 DEF OpenSocket
  <2>2. /\ sock' \in [Sockets -> {"none", "open", "closed"}]
        /\ tabOf' \in [Sockets -> Tabs \cup {NoFlow}] /\ game' \in [Sockets -> BOOLEAN]
    BY <1>0, <1>7 DEF OpenSocket
  <2>. QED
    BY <1>0, <1>7, <2>1, <2>2 DEF OpenSocket, bridgeVars, taskVars, historyVars, Shapes
<1>8. ASSUME NEW s \in Sockets, CloseSocket(s)
      PROVE  Shapes'
  <2>1. sock' \in [Sockets -> {"none", "open", "closed"}]
    BY <1>0, <1>8 DEF CloseSocket
  <2>2. closed' \in [Tabs -> Seq(Sockets)]
    <3>1. \A t \in Tabs : Append(closed[t], s) \in Seq(Sockets)
      BY <1>0
    <3>. QED
      BY <1>0, <1>8, <3>1 DEF CloseSocket
  <2>. QED
    BY <1>0, <1>8, <2>1, <2>2 DEF CloseSocket, bridgeVars, taskVars, historyVars, Shapes
<1>9. ASSUME NEW s \in Sockets, NEW action \in BOOLEAN, ServerFrame(s, action)
      PROVE  Shapes'
  <2>1. received' \in [Tabs -> Seq(Sockets \X BOOLEAN)]
    <3>1. \A t \in Tabs : Append(received[t], <<s, action>>) \in Seq(Sockets \X BOOLEAN)
      BY <1>0
    <3>. QED
      BY <1>0, <1>9, <3>1 DEF ServerFrame
  <2>. QED
    BY <1>0, <1>9, <2>1 DEF ServerFrame, bridgeVars, taskVars, historyVars, Shapes
<1>. QED
  BY <1>1, <1>2, <1>3, <1>4, <1>5, <1>6, <1>7, <1>8, <1>9 DEF PageNext

(* Tab and kind of a socket are fixed once it is opened.                     *)
LEMMA Opened ==
  ASSUME Shapes, Heard, PageNext, NEW s \in Sockets, tabOf[s] # NoFlow
  PROVE  tabOf'[s] = tabOf[s] /\ game'[s] = game[s]
<1>1. sock[s] # "none"
  BY DEF Heard
<1>2. ASSUME NEW t \in Tabs, NEW z \in Sockets, NEW isGame \in BOOLEAN, OpenSocket(z, t, isGame)
      PROVE  tabOf'[s] = tabOf[s] /\ game'[s] = game[s]
  BY <1>1, <1>2 DEF OpenSocket, Shapes
<1>. QED
  BY <1>2 DEF PageNext, OpenTab, CloseTab, Attach, ReapTab, OnCreated, OnReceived, OnClosed, Step,
              CloseSocket, ServerFrame, browserVars

Thinner(p, q) == p = q \/ p = <<>> \/ (q # <<>> /\ p = Tail(q))

LEMMA HeardInductive == Shapes /\ Shapes' /\ Heard /\ PageNext => Heard'
<1>. SUFFICES ASSUME Shapes, Shapes', Heard, PageNext
              PROVE  Heard'
  OBVIOUS
<1>0. /\ sock \in [Sockets -> {"none", "open", "closed"}]
      /\ tabOf \in [Sockets -> Tabs \cup {NoFlow}] /\ game \in [Sockets -> BOOLEAN]
      /\ created \in [Tabs -> Seq(Sockets)] /\ received \in [Tabs -> Seq(Sockets \X BOOLEAN)]
      /\ closed \in [Tabs -> Seq(Sockets)]
      /\ autoplayRequest \in [Tabs -> Sockets \cup {NoFlow}]
      /\ urls \in [Tabs -> SUBSET Sockets] /\ NoFlow \notin Tabs \cup Sockets
  BY Tabs0 DEF Shapes
<1>1. /\ \A s \in Sockets : (sock[s] = "none" <=> tabOf[s] = NoFlow)
                            /\ (sock[s] = "none" => ~game[s])
      /\ \A t \in Tabs : \A k \in DOMAIN created[t] :
           created[t][k] \in Sockets /\ tabOf[created[t][k]] = t
      /\ \A t \in Tabs : \A k \in DOMAIN received[t] :
           received[t][k][1] \in Sockets /\ tabOf[received[t][k][1]] = t
      /\ \A t \in Tabs : \A k \in DOMAIN closed[t] :
           closed[t][k] \in Sockets /\ tabOf[closed[t][k]] = t
      /\ \A t \in Tabs : autoplayRequest[t] # NoFlow =>
           game[autoplayRequest[t]] /\ autoplayRequest[t] \in urls[t]
      /\ \A t \in Tabs : \A s \in urls[t] : s \in Sockets /\ tabOf[s] = t
  <2>1. \A t \in Tabs : \A k \in DOMAIN received[t] : received[t][k] \in Sockets \X BOOLEAN
    BY <1>0
  <2>. QED
    BY <1>0, <2>1 DEF Heard
<1>2. \A s \in Sockets : tabOf[s] \in Tabs => tabOf'[s] = tabOf[s] /\ game'[s] = game[s]
  BY <1>0, Opened
(* What a step keeps that only takes events away.                            *)
<1>3. ASSUME UNCHANGED <<sock, tabOf, game>>,
             \A t \in Tabs : Thinner(created'[t], created[t]) /\ Thinner(received'[t], received[t])
                             /\ Thinner(closed'[t], closed[t]),
             \A t \in Tabs : /\ \A s \in urls'[t] : s \in Sockets /\ tabOf[s] = t
                             /\ autoplayRequest'[t] # NoFlow =>
                                  game[autoplayRequest'[t]] /\ autoplayRequest'[t] \in urls'[t]
      PROVE  Heard'
  <2>1. ASSUME NEW t \in Tabs
        PROVE  /\ \A k \in DOMAIN created'[t] : tabOf[created'[t][k]] = t
               /\ \A k \in DOMAIN received'[t] : tabOf[received'[t][k][1]] = t
               /\ \A k \in DOMAIN closed'[t] : tabOf[closed'[t][k]] = t
    <3>0. /\ created[t] \in Seq(Sockets) /\ closed[t] \in Seq(Sockets)
          /\ received[t] \in Seq(Sockets \X BOOLEAN)
          /\ \A k \in DOMAIN <<>> : FALSE
      BY <1>0
    <3>1. \A k \in DOMAIN created'[t] : tabOf[created'[t][k]] = t
      <4>1. CASE created[t] # <<>> /\ created'[t] = Tail(created[t])
        BY <1>1, <1>3, <3>0, <4>1, QueueMoves
      <4>2. CASE created'[t] \in {created[t], <<>>}
        BY <1>1, <3>0, <4>2
      <4>. QED
        BY <1>3, <4>1, <4>2 DEF Thinner
    <3>2. \A k \in DOMAIN received'[t] : tabOf[received'[t][k][1]] = t
      <4>1. CASE received[t] # <<>> /\ received'[t] = Tail(received[t])
        BY <1>1, <1>3, <3>0, <4>1, QueueMoves
      <4>2. CASE received'[t] \in {received[t], <<>>}
        BY <1>1, <3>0, <4>2
      <4>. QED
        BY <1>3, <4>1, <4>2 DEF Thinner
    <3>3. \A k \in DOMAIN closed'[t] : tabOf[closed'[t][k]] = t
      <4>1. CASE closed[t] # <<>> /\ closed'[t] = Tail(closed[t])
        BY <1>1, <1>3, <3>0, <4>1, QueueMoves
      <4>2. CASE closed'[t] \in {closed[t], <<>>}
        BY <1>1, <3>0, <4>2
      <4>. QED
        BY <1>3, <4>1, <4>2 DEF Thinner
    <3>. QED
      BY <3>1, <3>2, <3>3
  <2>. QED
    BY <1>1, <1>3, <2>1 DEF Heard
<1>4. ASSUME NEW t \in Tabs, OpenTab(t) \/ Attach(t) \/ Step(t)
      PROVE  Heard'
  <2>1. UNCHANGED <<sock, tabOf, game, created, received, closed, autoplayRequest, urls>>
    BY <1>4 DEF OpenTab, Attach, Step, browserVars, eventVars, taskVars
  <2>. QED
    BY <1>1, <1>3, <2>1 DEF Thinner
<1>5. ASSUME NEW t \in Tabs, CloseTab(t)
      PROVE  Heard'
  <2>1. \A s \in Sockets : sock'[s] = "none" <=> sock[s] = "none"
    BY <1>0, <1>1, <1>5 DEF CloseTab
  <2>2. UNCHANGED <<tabOf, game, created, received, closed, autoplayRequest, urls>>
    BY <1>5 DEF CloseTab, eventVars, taskVars
  <2>. QED
    BY <1>1, <2>1, <2>2 DEF Heard
<1>6. ASSUME NEW t \in Tabs, ReapTab(t)
      PROVE  Heard'
  <2>1. UNCHANGED <<sock, tabOf, game, autoplayRequest, urls>>
    BY <1>6 DEF ReapTab
  <2>2. \A u \in Tabs : /\ created'[u] = IF u = t THEN <<>> ELSE created[u]
                        /\ received'[u] = IF u = t THEN <<>> ELSE received[u]
                        /\ closed'[u] = IF u = t THEN <<>> ELSE closed[u]
    BY <1>0, <1>6 DEF ReapTab
  <2>. QED
    BY <1>1, <1>3, <2>1, <2>2 DEF Thinner
<1>7. ASSUME NEW t \in Tabs, OnCreated(t)
      PROVE  Heard'
  <2>. DEFINE s == Head(created[t])
  <2>1. s \in Sockets /\ tabOf[s] = t /\ created[t] # <<>>
    BY <1>7, EventTaken DEF OnCreated
  <2>2. \A u \in Tabs : urls'[u] = IF u = t THEN urls[u] \cup {s} ELSE urls[u]
    BY <1>0, <1>7 DEF OnCreated
  <2>3. \A u \in Tabs : autoplayRequest'[u] = IF u = t /\ game[s] THEN s ELSE autoplayRequest[u]
    BY <1>0, <1>7 DEF OnCreated
  <2>. HIDE DEF s
  <2>4. ASSUME NEW u \in Tabs
        PROVE  /\ \A z \in urls'[u] : z \in Sockets /\ tabOf[z] = u
               /\ autoplayRequest'[u] # NoFlow =>
                    game[autoplayRequest'[u]] /\ autoplayRequest'[u] \in urls'[u]
    <3>1. \A z \in urls'[u] : z \in Sockets /\ tabOf[z] = u
      <4>1. CASE u = t
        <5>1. \A z \in urls'[u] : z = s \/ z \in urls[u]
          BY <2>2, <4>1
        <5>. QED
          BY <1>1, <2>1, <4>1, <5>1
      <4>2. CASE u # t
        <5>1. urls'[u] = urls[u]
          BY <2>2, <4>2
        <5>. QED
          BY <1>1, <5>1
      <4>. QED
        BY <4>1, <4>2
    <3>2. urls[u] \subseteq urls'[u] /\ (u = t => s \in urls'[u])
      BY <2>2
    <3>3. CASE u = t /\ game[s]
      BY <2>3, <3>1, <3>2, <3>3
    <3>4. CASE ~(u = t /\ game[s])
      <4>1. autoplayRequest'[u] = autoplayRequest[u]
        BY <2>3, <3>4
      <4>. QED
        BY <1>1, <3>1, <3>2, <4>1
    <3>. QED
      BY <3>3, <3>4
  <2>5. \A u \in Tabs : created'[u] = IF u = t THEN Tail(created[t]) ELSE created[u]
    BY <1>0, <1>7 DEF OnCreated
  <2>6. UNCHANGED <<sock, tabOf, game, received, closed>>
    BY <1>7 DEF OnCreated, browserVars
  <2>. QED
    BY <1>3, <2>1, <2>4, <2>5, <2>6 DEF Thinner
<1>8. ASSUME NEW t \in Tabs, OnReceived(t)
      PROVE  Heard'
  <2>1. \A u \in Tabs : received'[u] = IF u = t THEN Tail(received[t]) ELSE received[u]
    BY <1>0, <1>8 DEF OnReceived
  <2>2. UNCHANGED <<sock, tabOf, game, created, closed, autoplayRequest, urls>> /\ received[t] # <<>>
    BY <1>8 DEF OnReceived, browserVars
  <2>. QED
    BY <1>1, <1>3, <2>1, <2>2 DEF Thinner
<1>9. ASSUME NEW t \in Tabs, OnClosed(t)
      PROVE  Heard'
  <2>1. \A u \in Tabs : closed'[u] = IF u = t THEN Tail(closed[t]) ELSE closed[u]
    BY <1>0, <1>9 DEF OnClosed
  <2>2. UNCHANGED <<sock, tabOf, game, created, received, urls>> /\ closed[t] # <<>>
    BY <1>9 DEF OnClosed, browserVars
  <2>3. \A u \in Tabs : autoplayRequest'[u] \in {NoFlow, autoplayRequest[u]}
    BY <1>0, <1>9 DEF OnClosed
  <2>4. ASSUME NEW u \in Tabs, autoplayRequest'[u] # NoFlow
        PROVE  game[autoplayRequest'[u]] /\ autoplayRequest'[u] \in urls'[u]
    <3>1. autoplayRequest'[u] = autoplayRequest[u] /\ urls'[u] = urls[u]
      BY <2>2, <2>3, <2>4
    <3>. QED
      BY <1>1, <2>4, <3>1
  <2>. QED
    BY <1>1, <1>3, <2>1, <2>2, <2>4 DEF Thinner
<1>10. ASSUME NEW t \in Tabs, NEW s \in Sockets, NEW isGame \in BOOLEAN, OpenSocket(s, t, isGame)
       PROVE  Heard'
  <2>1. /\ tabOf' = [tabOf EXCEPT ![s] = t] /\ game' = [game EXCEPT ![s] = isGame]
        /\ sock' = [sock EXCEPT ![s] = "open"] /\ tabOf[s] = NoFlow
        /\ UNCHANGED <<received, closed, autoplayRequest, urls>>
    BY <1>1, <1>10 DEF OpenSocket, taskVars
  <2>2. \A z \in Sockets : (sock'[z] = "none" <=> tabOf'[z] = NoFlow)
                           /\ (sock'[z] = "none" => ~game'[z])
    BY <1>0, <1>1, <2>1
  <2>3. ASSUME NEW u \in Tabs
        PROVE  \A k \in DOMAIN created'[u] : tabOf'[created'[u][k]] = u
    <3>1. created'[u] = created[u] \/ (u = t /\ created'[u] = Append(created[u], s))
      BY <1>0, <1>10 DEF OpenSocket
    <3>2. created[u] \in Seq(Sockets) /\ tabOf'[s] = t
      BY <1>0, <2>1
    <3>3. \A k \in DOMAIN created'[u] : (u = t /\ created'[u][k] = s)
                                        \/ (k \in DOMAIN created[u] /\ created'[u][k] = created[u][k])
      BY <3>1, <3>2, QueueMoves
    <3>. QED
      BY <1>1, <1>2, <3>2, <3>3
  <2>4. ASSUME NEW u \in Tabs
        PROVE  /\ \A k \in DOMAIN received'[u] : tabOf'[received'[u][k][1]] = u
               /\ \A k \in DOMAIN closed'[u] : tabOf'[closed'[u][k]] = u
               /\ \A z \in urls'[u] : tabOf'[z] = u
    BY <1>1, <1>2, <2>1
  <2>5. ASSUME NEW u \in Tabs, autoplayRequest'[u] # NoFlow
        PROVE  game'[autoplayRequest'[u]] /\ autoplayRequest'[u] \in urls'[u]
    BY <1>0, <1>1, <1>2, <2>1, <2>5
  <2>. QED
    BY <2>2, <2>3, <2>4, <2>5 DEF Heard
<1>11. ASSUME NEW s \in Sockets, CloseSocket(s)
       PROVE  Heard'
  <2>1. sock' = [sock EXCEPT ![s] = "closed"] /\ sock[s] = "open"
        /\ UNCHANGED <<tabOf, game, created, received, autoplayRequest, urls>>
    BY <1>11 DEF CloseSocket, taskVars
  <2>2. \A z \in Sockets : sock'[z] = "none" <=> sock[z] = "none"
    BY <1>0, <2>1
  <2>3. ASSUME NEW u \in Tabs
        PROVE  \A k \in DOMAIN closed'[u] : tabOf[closed'[u][k]] = u
    <3>1. closed'[u] = closed[u] \/ (u = tabOf[s] /\ closed'[u] = Append(closed[u], s))
      BY <1>0, <1>11 DEF CloseSocket
    <3>2. closed[u] \in Seq(Sockets)
      BY <1>0
    <3>3. CASE closed'[u] = closed[u]
      BY <1>1, <3>3
    <3>4. CASE u = tabOf[s] /\ closed'[u] = Append(closed[u], s)
      <4>1. \A k \in DOMAIN closed'[u] :
              closed'[u][k] = s \/ (k \in DOMAIN closed[u] /\ closed'[u][k] = closed[u][k])
        BY <3>2, <3>4, QueueMoves
      <4>. QED
        BY <1>1, <3>4, <4>1
    <3>. QED
      BY <3>1, <3>3, <3>4
  <2>. QED
    BY <1>1, <2>1, <2>2, <2>3 DEF Heard
<1>12. ASSUME NEW s \in Sockets, NEW action \in BOOLEAN, ServerFrame(s, action)
       PROVE  Heard'
  <2>1. UNCHANGED <<sock, tabOf, game, created, closed, autoplayRequest, urls>>
    BY <1>12 DEF ServerFrame, taskVars
  <2>2. ASSUME NEW u \in Tabs
        PROVE  \A k \in DOMAIN received'[u] : tabOf[received'[u][k][1]] = u
    <3>1. received'[u] = received[u]
          \/ (u = tabOf[s] /\ received'[u] = Append(received[u], <<s, action>>))
      BY <1>0, <1>12 DEF ServerFrame
    <3>2. received[u] \in Seq(Sockets \X BOOLEAN) /\ <<s, action>> \in Sockets \X BOOLEAN
      BY <1>0
    <3>3. CASE received'[u] = received[u]
      BY <1>1, <3>3
    <3>4. CASE u = tabOf[s] /\ received'[u] = Append(received[u], <<s, action>>)
      <4>1. \A k \in DOMAIN received'[u] :
              \/ received'[u][k] = <<s, action>>
              \/ k \in DOMAIN received[u] /\ received'[u][k] = received[u][k]
        BY <3>2, <3>4, QueueMoves
      <4>2. <<s, action>>[1] = s
        OBVIOUS
      <4>. QED
        BY <1>1, <3>4, <4>1, <4>2
    <3>. QED
      BY <3>1, <3>3, <3>4
  <2>. QED
    BY <1>1, <2>1, <2>2 DEF Heard
<1>. QED
  BY <1>4, <1>5, <1>6, <1>7, <1>8, <1>9, <1>10, <1>11, <1>12 DEF PageNext

(* ---- the handlers ---- *)

LEMMA StepIs ==
  ASSUME DOMAIN todo = Tabs, DOMAIN slot = Slots, NEW t \in Tabs, Step(t),
         Head(todo[t])[1] \in Slots \cup {"unless preferred", "if preferred", "fall back"}
  PROVE  LET lock == Head(todo[t])[1]
             x == Head(todo[t])[2] IN
         /\ \A u \in Tabs \ {t} : todo'[u] = todo[u]
         /\ DOMAIN todo' = Tabs /\ DOMAIN slot' = Slots
         /\ lock = "unless preferred" => todo'[t] = UnlessPreferred(t, x) /\ slot' = slot
         /\ lock = "if preferred" => todo'[t] = IfPreferred(t, x) /\ slot' = slot
         /\ lock = "fall back" => /\ todo'[t] = Tail(todo[t])
                                  /\ slot' = [slot EXCEPT ![x] = slot[Fallback(x)]]
         /\ lock \in Slots =>
              /\ todo'[t] = Tail(todo[t]) /\ slot' = [slot EXCEPT ![lock] = x]
              /\ \A m \in Slots : slot'[m] = IF m = lock THEN x ELSE slot[m]
<1>1. CASE Head(todo[t])[1] = "unless preferred"
  BY <1>1 DEF Step, Slots
<1>2. CASE Head(todo[t])[1] = "if preferred"
  BY <1>2 DEF Step, Slots
<1>3. CASE Head(todo[t])[1] = "fall back"
  BY <1>3 DEF Step, Slots
<1>4. CASE Head(todo[t])[1] \in Slots
  BY <1>4 DEF Step, Slots
<1>. QED
  BY <1>1, <1>2, <1>3, <1>4

(* The sockets' side of the state, which the steps of a handler leave alone. *)
StepLeaves ==
  UNCHANGED <<tabOf, game, urls, made, mapped, handledClosed, lastCreated, deadThen, overlapped>>

LEMMA CreatingStep ==
  ASSUME Shapes, Heard, Played, NEW t \in Tabs, NEW s \in Sockets, NEW n \in Nat, Step(t),
         GameFlow(t, s), Creating(t, s, <<s, n>>), \A u \in Tabs \ {t} : todo[u] = <<>>
  PROVE  /\ \/ Creating(t, s, <<s, n>>)'
            \/ \E m \in Nat : Targeting(t, s, <<s, m>>)'
            \/ todo'[t] = <<>> /\ Settled'
         /\ DOMAIN slot' = Slots /\ DOMAIN todo' = Tabs /\ slot'["preferred"] = slot["preferred"]
         /\ \A u \in Tabs \ {t} : todo'[u] = todo[u]
<1>. DEFINE b == <<s, n>>
            e1 == <<"fallback_page", t>>
            e2 == <<"fallback_bridge", b>>
            e3 == <<"fallback_url", s>>
            e4 == <<"unless preferred", s>>
<1>e. /\ e1[1] = "fallback_page" /\ e1[2] = t /\ e2[1] = "fallback_bridge" /\ e2[2] = b
      /\ e3[1] = "fallback_url" /\ e3[2] = s /\ e4[1] = "unless preferred" /\ e4[2] = s
  OBVIOUS
<1>f. \/ todo[t] = <<e1, e2, e3, e4>>
      \/ todo[t] = <<e2, e3, e4>> /\ slot["fallback_page"] = t
      \/ todo[t] = <<e3, e4>> /\ slot["fallback_page"] = t /\ slot["fallback_bridge"] = b
      \/ /\ todo[t] = <<e4>> /\ slot["fallback_page"] = t /\ slot["fallback_bridge"] = b
         /\ slot["fallback_url"] = s
  BY DEF Creating
<1>. HIDE DEF e1, e2, e3, e4
<1>0. /\ DOMAIN slot = Slots /\ DOMAIN todo = Tabs /\ StepLeaves
      /\ lastCreated = s /\ s \notin deadThen /\ deadThen \subseteq handledClosed
      /\ tabOf[s] = t /\ NoFlow \notin Tabs \cup Sockets
      /\ Sound /\ PrefersTarget /\ PrefersLive
  BY Tabs0 DEF Played, Step, StepLeaves, browserVars, bridgeVars, historyVars, saneVars, Creating,
               GameFlow, Shapes
<1>. USE DEF Slots, StepLeaves
<1>1. ASSUME \A m \in {"page", "bridge", "url", "preferred"} : slot'[m] = slot[m]
      PROVE  Sound' /\ PrefersTarget' /\ PrefersLive' /\ Preferred' = Preferred
  BY <1>0, <1>1 DEF Sound, FlowIs, PrefersTarget, PrefersLive, Preferred, TargetSocket
<1>2. CASE todo[t] = <<e1, e2, e3, e4>>
  <2>1. Head(todo[t]) = e1 /\ Tail(todo[t]) = <<e2, e3, e4>>
    BY <1>2, Four
  <2>2. /\ DOMAIN slot' = Slots /\ DOMAIN todo' = Tabs /\ todo'[t] = Tail(todo[t])
        /\ \A m \in Slots : slot'[m] = IF m = "fallback_page" THEN t ELSE slot[m]
        /\ \A u \in Tabs \ {t} : todo'[u] = todo[u]
    <3>1. Head(todo[t])[1] = "fallback_page" /\ Head(todo[t])[2] = t /\ "fallback_page" \in Slots
      BY <1>e, <2>1
    <3>2. DOMAIN slot = Slots /\ DOMAIN todo = Tabs
      BY <1>0
    <3>. QED
      BY <3>1, <3>2, StepIs
  <2>3. Creating(t, s, b)'
    BY <1>0, <1>1, <2>1, <2>2 DEF Creating, e1, e2, e3, e4
  <2>. QED
    BY <2>2, <2>3
<1>3. CASE todo[t] = <<e2, e3, e4>> /\ slot["fallback_page"] = t
  <2>1. Head(todo[t]) = e2 /\ Tail(todo[t]) = <<e3, e4>>
    BY <1>3, Three
  <2>2. /\ DOMAIN slot' = Slots /\ DOMAIN todo' = Tabs /\ todo'[t] = Tail(todo[t])
        /\ \A m \in Slots : slot'[m] = IF m = "fallback_bridge" THEN b ELSE slot[m]
        /\ \A u \in Tabs \ {t} : todo'[u] = todo[u]
    <3>1. Head(todo[t])[1] = "fallback_bridge" /\ Head(todo[t])[2] = b /\ "fallback_bridge" \in Slots
      BY <1>e, <2>1
    <3>2. DOMAIN slot = Slots /\ DOMAIN todo = Tabs
      BY <1>0
    <3>. QED
      BY <3>1, <3>2, StepIs
  <2>3. Creating(t, s, b)'
    BY <1>0, <1>1, <1>3, <2>1, <2>2 DEF Creating, e1, e2, e3, e4
  <2>. QED
    BY <2>2, <2>3
<1>4. CASE /\ todo[t] = <<e3, e4>>
           /\ slot["fallback_page"] = t /\ slot["fallback_bridge"] = b
  <2>1. Head(todo[t]) = e3 /\ Tail(todo[t]) = <<e4>>
    BY <1>4, Two
  <2>2. /\ DOMAIN slot' = Slots /\ DOMAIN todo' = Tabs /\ todo'[t] = Tail(todo[t])
        /\ \A m \in Slots : slot'[m] = IF m = "fallback_url" THEN s ELSE slot[m]
        /\ \A u \in Tabs \ {t} : todo'[u] = todo[u]
    <3>1. Head(todo[t])[1] = "fallback_url" /\ Head(todo[t])[2] = s /\ "fallback_url" \in Slots
      BY <1>e, <2>1
    <3>2. DOMAIN slot = Slots /\ DOMAIN todo = Tabs
      BY <1>0
    <3>. QED
      BY <3>1, <3>2, StepIs
  <2>3. Creating(t, s, b)'
    BY <1>0, <1>1, <1>4, <2>1, <2>2 DEF Creating, e1, e2, e3, e4
  <2>. QED
    BY <2>2, <2>3
<1>5. CASE /\ todo[t] = <<e4>>
           /\ slot["fallback_page"] = t /\ slot["fallback_bridge"] = b
           /\ slot["fallback_url"] = s
  <2>1. Head(todo[t]) = e4
    BY <1>5, One
  <2>2. /\ slot' = slot /\ DOMAIN todo' = Tabs /\ todo'[t] = UnlessPreferred(t, s)
        /\ \A u \in Tabs \ {t} : todo'[u] = todo[u]
    BY <1>0, <1>e, <2>1, StepIs
  <2>3. Sound' /\ PrefersTarget' /\ PrefersLive' /\ Preferred' = Preferred
    BY <1>1, <2>2
  <2>4. FallbackSound'
    <3>1. b[1] = s
      OBVIOUS
    <3>. QED
      BY <1>0, <1>5, <2>2, <3>1 DEF FallbackSound, FlowIs
  <2>5. CASE Preferred = NoFlow
    <3>1. PICK m \in Nat : m = Acquired(s)
      BY AcquiredType
    <3>2. todo'[t] = << <<"page", t>>, <<"bridge", <<s, m>>>>, <<"url", s>> >>
      BY <2>2, <2>5, <3>1 DEF UnlessPreferred, Target, Preferred
    <3>3. Targeting(t, s, <<s, m>>)'
      BY <1>0, <2>3, <2>4, <2>5, <3>2 DEF Targeting
    <3>. QED
      BY <1>0, <2>2, <3>3
  <2>6. CASE Preferred # NoFlow
    <3>1. todo'[t] = <<>>
      BY <2>2, <2>6 DEF UnlessPreferred, Preferred
    <3>2. ~overlapped => TargetSocket \notin deadThen
      BY <1>0, <2>6 DEF PrefersTarget, PrefersLive
    <3>3. (~overlapped => Followed)'
      BY <1>0, <2>2, <3>2 DEF Followed, TargetSocket
    <3>. QED
      BY <1>0, <2>2, <2>3, <2>4, <3>1, <3>3 DEF Settled
  <2>. QED
    BY <2>5, <2>6
<1>. QED
  BY <1>f, <1>2, <1>3, <1>4, <1>5

LEMMA TargetingStep ==
  ASSUME Shapes, Played, NEW t \in Tabs, NEW s \in Sockets, NEW n \in Nat, Step(t),
         GameFlow(t, s), Targeting(t, s, <<s, n>>)
  PROVE  /\ Targeting(t, s, <<s, n>>)' \/ (todo'[t] = <<>> /\ Settled')
         /\ DOMAIN slot' = Slots /\ DOMAIN todo' = Tabs /\ slot'["preferred"] = slot["preferred"]
         /\ \A u \in Tabs \ {t} : todo'[u] = todo[u]
<1>. DEFINE b == <<s, n>>
            e1 == <<"page", t>>
            e2 == <<"bridge", b>>
            e3 == <<"url", s>>
<1>e. /\ e1[1] = "page" /\ e1[2] = t /\ e2[1] = "bridge" /\ e2[2] = b
      /\ e3[1] = "url" /\ e3[2] = s /\ b[1] = s /\ b # NoFlow
  BY Tabs0
<1>f. \/ todo[t] = <<e1, e2, e3>>
      \/ todo[t] = <<e2, e3>> /\ slot["page"] = t
      \/ todo[t] = <<e3>> /\ slot["page"] = t /\ slot["bridge"] = b
  BY DEF Targeting
<1>. HIDE DEF e1, e2, e3, b
<1>0. /\ DOMAIN slot = Slots /\ DOMAIN todo = Tabs /\ StepLeaves
      /\ FallbackSound /\ PrefersLive /\ s \notin deadThen /\ Preferred \in {NoFlow, s}
      /\ tabOf[s] = t /\ NoFlow \notin Tabs \cup Sockets
  BY Tabs0 DEF Played, Step, StepLeaves, browserVars, bridgeVars, historyVars, saneVars, Targeting,
               GameFlow
<1>. USE DEF Slots, StepLeaves
<1>1. ASSUME \A m \in Slots \ {"page", "bridge", "url"} : slot'[m] = slot[m]
      PROVE  /\ FallbackSound' /\ PrefersLive' /\ (s \notin deadThen)'
             /\ (Preferred \in {NoFlow, s})' /\ Preferred' = Preferred
  BY <1>0, <1>1 DEF FallbackSound, FlowIs, PrefersLive, Preferred
<1>2. CASE todo[t] = <<e1, e2, e3>>
  <2>1. Head(todo[t]) = e1 /\ Tail(todo[t]) = <<e2, e3>>
    BY <1>2, Three
  <2>2. /\ DOMAIN slot' = Slots /\ DOMAIN todo' = Tabs /\ todo'[t] = Tail(todo[t])
        /\ \A m \in Slots : slot'[m] = IF m = "page" THEN t ELSE slot[m]
        /\ \A u \in Tabs \ {t} : todo'[u] = todo[u]
    <3>1. Head(todo[t])[1] = "page" /\ Head(todo[t])[2] = t /\ "page" \in Slots
      BY <1>e, <2>1
    <3>2. DOMAIN slot = Slots /\ DOMAIN todo = Tabs
      BY <1>0
    <3>. QED
      BY <3>1, <3>2, StepIs
  <2>3. Targeting(t, s, b)'
    BY <1>0, <1>1, <2>1, <2>2 DEF Targeting, e1, e2, e3
  <2>. QED
    BY <2>2, <2>3 DEF b
<1>3. CASE todo[t] = <<e2, e3>> /\ slot["page"] = t
  <2>1. Head(todo[t]) = e2 /\ Tail(todo[t]) = <<e3>>
    BY <1>3, Two
  <2>2. /\ DOMAIN slot' = Slots /\ DOMAIN todo' = Tabs /\ todo'[t] = Tail(todo[t])
        /\ \A m \in Slots : slot'[m] = IF m = "bridge" THEN b ELSE slot[m]
        /\ \A u \in Tabs \ {t} : todo'[u] = todo[u]
    <3>1. Head(todo[t])[1] = "bridge" /\ Head(todo[t])[2] = b /\ "bridge" \in Slots
      BY <1>e, <2>1
    <3>2. DOMAIN slot = Slots /\ DOMAIN todo = Tabs
      BY <1>0
    <3>3. slot' = [slot EXCEPT ![Head(todo[t])[1]] = Head(todo[t])[2]]
          /\ DOMAIN slot' = Slots /\ DOMAIN todo' = Tabs /\ todo'[t] = Tail(todo[t])
          /\ \A u \in Tabs \ {t} : todo'[u] = todo[u]
      BY <3>1, <3>2, StepIs
    <3>. QED
      BY <3>1, <3>2, <3>3
  <2>3. Targeting(t, s, b)'
    BY <1>0, <1>1, <1>3, <2>1, <2>2 DEF Targeting, e1, e2, e3
  <2>. QED
    BY <2>2, <2>3 DEF b
<1>4. CASE todo[t] = <<e3>> /\ slot["page"] = t /\ slot["bridge"] = b
  <2>1. Head(todo[t]) = e3 /\ Tail(todo[t]) = <<>>
    BY <1>4, One
  <2>2. /\ DOMAIN slot' = Slots /\ DOMAIN todo' = Tabs /\ todo'[t] = Tail(todo[t])
        /\ \A m \in Slots : slot'[m] = IF m = "url" THEN s ELSE slot[m]
        /\ \A u \in Tabs \ {t} : todo'[u] = todo[u]
    <3>1. Head(todo[t])[1] = "url" /\ Head(todo[t])[2] = s /\ "url" \in Slots
      BY <1>e, <2>1
    <3>2. DOMAIN slot = Slots /\ DOMAIN todo = Tabs
      BY <1>0
    <3>3. slot' = [slot EXCEPT ![Head(todo[t])[1]] = Head(todo[t])[2]]
          /\ DOMAIN slot' = Slots /\ DOMAIN todo' = Tabs /\ todo'[t] = Tail(todo[t])
          /\ \A u \in Tabs \ {t} : todo'[u] = todo[u]
      BY <3>1, <3>2, StepIs
    <3>. QED
      BY <3>1, <3>2, <3>3
  <2>3. Sound'
    BY <1>0, <1>e, <1>4, <2>2 DEF Sound, FlowIs
  <2>4. TargetSocket' = s
    BY <1>0, <1>e, <1>4, <2>2 DEF TargetSocket
  <2>5. PrefersTarget' /\ Followed'
    BY <1>0, <1>1, <2>2, <2>4 DEF PrefersTarget, Followed
  <2>. QED
    BY <1>1, <2>1, <2>2, <2>3, <2>5 DEF Settled
<1>. QED
  BY <1>f, <1>2, <1>3, <1>4

LEMMA PreferringStep ==
  ASSUME Shapes, Played, NEW t \in Tabs, NEW s \in Sockets, NEW n \in Nat, Step(t),
         GameFlow(t, s), Preferring(t, s, <<s, n>>)
  PROVE  /\ Targeting(t, s, <<s, n>>)'
         /\ DOMAIN slot' = Slots /\ DOMAIN todo' = Tabs /\ slot'["preferred"] = s
         /\ \A u \in Tabs \ {t} : todo'[u] = todo[u]
<1>. DEFINE b == <<s, n>>
            e0 == <<"preferred", s>>
            e1 == <<"page", t>>
            e2 == <<"bridge", b>>
            e3 == <<"url", s>>
<1>e. e0[1] = "preferred" /\ e0[2] = s
  OBVIOUS
<1>f. todo[t] = <<e0, e1, e2, e3>>
  BY DEF Preferring
<1>. HIDE DEF e0, e1, e2, e3
<1>0. /\ DOMAIN slot = Slots /\ DOMAIN todo = Tabs /\ StepLeaves
      /\ FallbackSound /\ s \notin deadThen /\ s \notin handledClosed
  BY DEF Played, Step, StepLeaves, browserVars, bridgeVars, historyVars, saneVars, Preferring, Shapes
<1>1. Head(todo[t]) = e0 /\ Tail(todo[t]) = <<e1, e2, e3>>
  BY <1>f, Four
<1>2. /\ DOMAIN slot' = Slots /\ DOMAIN todo' = Tabs /\ todo'[t] = Tail(todo[t])
      /\ \A m \in Slots : slot'[m] = IF m = "preferred" THEN s ELSE slot[m]
      /\ \A u \in Tabs \ {t} : todo'[u] = todo[u]
  BY <1>0, <1>e, <1>1, StepIs DEF Slots
<1>3. FallbackSound' /\ PrefersLive' /\ (s \notin deadThen)' /\ Preferred' = s
  BY <1>0, <1>2 DEF FallbackSound, FlowIs, PrefersLive, Preferred, Slots, StepLeaves
<1>4. Targeting(t, s, b)'
  BY <1>1, <1>2, <1>3 DEF Targeting, e1, e2, e3
<1>. QED
  BY <1>2, <1>3, <1>4 DEF Preferred

LEMMA ClosingStep ==
  ASSUME Shapes, Played, NEW t \in Tabs, NEW s \in Sockets, Step(t), Closing(t, s)
  PROVE  /\ Falling(t)' \/ (todo'[t] = <<>> /\ Settled')
         /\ DOMAIN slot' = Slots /\ DOMAIN todo' = Tabs /\ slot'["preferred"] = slot["preferred"]
         /\ \A u \in Tabs \ {t} : todo'[u] = todo[u]
<1>. DEFINE e1 == <<"if preferred", s>>
<1>e. e1[1] = "if preferred" /\ e1[2] = s
  OBVIOUS
<1>f. todo[t] = <<e1>>
  BY DEF Closing
<1>. HIDE DEF e1
<1>0. /\ DOMAIN slot = Slots /\ DOMAIN todo = Tabs /\ StepLeaves
      /\ Sound /\ FallbackSound /\ PrefersTarget /\ (~overlapped => Followed)
      /\ ~overlapped /\ Preferred \notin {NoFlow, s} => Preferred \notin handledClosed
  BY DEF Played, Step, StepLeaves, browserVars, bridgeVars, historyVars, saneVars, Closing
<1>1. Head(todo[t]) = e1
  BY <1>f, One
<1>2. /\ slot' = slot /\ DOMAIN todo' = Tabs /\ todo'[t] = IfPreferred(t, s)
      /\ \A u \in Tabs \ {t} : todo'[u] = todo[u]
  BY <1>0, <1>e, <1>1, StepIs
<1>3. FallbackSound'
  BY <1>0, <1>2 DEF FallbackSound, FlowIs, StepLeaves
<1>4. CASE Preferred = s
  <2>1. todo'[t] = << <<"preferred", NoFlow>>, <<"fall back", "page">>,
                      <<"fall back", "bridge">>, <<"fall back", "url">> >>
    BY <1>2, <1>4 DEF IfPreferred, Preferred
  <2>2. Falling(t)'
    BY <1>3, <2>1 DEF Falling
  <2>. QED
    BY <1>0, <1>2, <2>2
<1>5. CASE Preferred # s
  <2>1. todo'[t] = <<>>
    BY <1>2, <1>5 DEF IfPreferred, Preferred
  <2>2. Sound' /\ PrefersTarget' /\ PrefersLive' /\ (~overlapped => Followed)'
    BY <1>0, <1>2, <1>5 DEF Sound, FlowIs, PrefersTarget, PrefersLive, Followed, TargetSocket,
                            Preferred, StepLeaves
  <2>. QED
    BY <1>0, <1>2, <1>3, <2>1, <2>2 DEF Settled
<1>. QED
  BY <1>4, <1>5

LEMMA FallingStep ==
  ASSUME Shapes, Played, NEW t \in Tabs, Step(t), Falling(t)
  PROVE  /\ Falling(t)' \/ (todo'[t] = <<>> /\ Settled')
         /\ DOMAIN slot' = Slots /\ DOMAIN todo' = Tabs /\ slot'["preferred"] = NoFlow
         /\ \A u \in Tabs \ {t} : todo'[u] = todo[u]
<1>. DEFINE e0 == <<"preferred", NoFlow>>
            e1 == <<"fall back", "page">>
            e2 == <<"fall back", "bridge">>
            e3 == <<"fall back", "url">>
<1>e. /\ e0[1] = "preferred" /\ e0[2] = NoFlow /\ e1[1] = "fall back" /\ e1[2] = "page"
      /\ e2[1] = "fall back" /\ e2[2] = "bridge" /\ e3[1] = "fall back" /\ e3[2] = "url"
  OBVIOUS
<1>f. \/ todo[t] = <<e0, e1, e2, e3>>
      \/ todo[t] = <<e1, e2, e3>> /\ Preferred = NoFlow
      \/ /\ todo[t] = <<e2, e3>> /\ Preferred = NoFlow
         /\ slot["page"] = slot["fallback_page"]
      \/ /\ todo[t] = <<e3>> /\ Preferred = NoFlow
         /\ slot["page"] = slot["fallback_page"] /\ slot["bridge"] = slot["fallback_bridge"]
  BY DEF Falling
<1>. HIDE DEF e0, e1, e2, e3
<1>0. /\ DOMAIN slot = Slots /\ DOMAIN todo = Tabs /\ StepLeaves /\ FallbackSound
      /\ Fallback("page") = "fallback_page" /\ Fallback("bridge") = "fallback_bridge"
      /\ Fallback("url") = "fallback_url" /\ lastCreated \notin deadThen
      /\ deadThen \subseteq Sockets /\ NoFlow \notin Sockets
  BY Tabs0 DEF Played, Step, StepLeaves, browserVars, bridgeVars, historyVars, saneVars, Falling,
               Fallback, Shapes
<1>. USE DEF Slots, StepLeaves, Preferred
<1>1. ASSUME \A m \in {"fallback_page", "fallback_bridge", "fallback_url"} : slot'[m] = slot[m]
      PROVE  FallbackSound'
  BY <1>0, <1>1 DEF FallbackSound, FlowIs
<1>2. CASE todo[t] = <<e0, e1, e2, e3>>
  <2>1. Head(todo[t]) = e0 /\ Tail(todo[t]) = <<e1, e2, e3>>
    BY <1>2, Four
  <2>2. /\ DOMAIN slot' = Slots /\ DOMAIN todo' = Tabs /\ todo'[t] = Tail(todo[t])
        /\ \A m \in Slots : slot'[m] = IF m = "preferred" THEN NoFlow ELSE slot[m]
        /\ \A u \in Tabs \ {t} : todo'[u] = todo[u]
    <3>1. Head(todo[t])[1] = "preferred" /\ Head(todo[t])[2] = NoFlow /\ "preferred" \in Slots
      BY <1>e, <2>1
    <3>2. DOMAIN slot = Slots /\ DOMAIN todo = Tabs
      BY <1>0
    <3>3. /\ slot' = [slot EXCEPT ![Head(todo[t])[1]] = Head(todo[t])[2]]
          /\ DOMAIN slot' = Slots /\ DOMAIN todo' = Tabs /\ todo'[t] = Tail(todo[t])
          /\ \A u \in Tabs \ {t} : todo'[u] = todo[u]
      BY <3>1, <3>2, StepIs
    <3>. QED
      BY <3>1, <3>2, <3>3
  <2>3. Falling(t)'
    BY <1>1, <2>1, <2>2 DEF Falling, e1, e2, e3
  <2>. QED
    BY <2>2, <2>3
<1>3. CASE todo[t] = <<e1, e2, e3>> /\ Preferred = NoFlow
  <2>1. Head(todo[t]) = e1 /\ Tail(todo[t]) = <<e2, e3>>
    BY <1>3, Three
  <2>2. /\ DOMAIN slot' = Slots /\ DOMAIN todo' = Tabs /\ todo'[t] = Tail(todo[t])
        /\ \A m \in Slots : slot'[m] = IF m = "page" THEN slot["fallback_page"] ELSE slot[m]
        /\ \A u \in Tabs \ {t} : todo'[u] = todo[u]
    <3>1. Head(todo[t])[1] = "fall back" /\ Head(todo[t])[2] = "page"
      BY <1>e, <2>1
    <3>2. slot[Fallback(Head(todo[t])[2])] = slot["fallback_page"]
      BY <3>1 DEF Fallback
    <3>3. DOMAIN slot = Slots /\ DOMAIN todo = Tabs
      BY <1>0
    <3>4. slot' = [slot EXCEPT ![Head(todo[t])[2]] = slot[Fallback(Head(todo[t])[2])]]
          /\ DOMAIN slot' = Slots /\ DOMAIN todo' = Tabs /\ todo'[t] = Tail(todo[t])
          /\ \A u \in Tabs \ {t} : todo'[u] = todo[u]
      BY <3>1, <3>3, StepIs
    <3>. QED
      BY <3>1, <3>2, <3>3, <3>4
  <2>3. Falling(t)'
    BY <1>1, <1>3, <2>1, <2>2 DEF Falling, e1, e2, e3
  <2>. QED
    BY <1>3, <2>2, <2>3
<1>4. CASE /\ todo[t] = <<e2, e3>> /\ Preferred = NoFlow
           /\ slot["page"] = slot["fallback_page"]
  <2>1. Head(todo[t]) = e2 /\ Tail(todo[t]) = <<e3>>
    BY <1>4, Two
  <2>2. /\ DOMAIN slot' = Slots /\ DOMAIN todo' = Tabs /\ todo'[t] = Tail(todo[t])
        /\ \A m \in Slots : slot'[m] = IF m = "bridge" THEN slot["fallback_bridge"] ELSE slot[m]
        /\ \A u \in Tabs \ {t} : todo'[u] = todo[u]
    <3>1. Head(todo[t])[1] = "fall back" /\ Head(todo[t])[2] = "bridge"
      BY <1>e, <2>1
    <3>2. slot[Fallback(Head(todo[t])[2])] = slot["fallback_bridge"]
      BY <3>1 DEF Fallback
    <3>3. DOMAIN slot = Slots /\ DOMAIN todo = Tabs
      BY <1>0
    <3>4. slot' = [slot EXCEPT ![Head(todo[t])[2]] = slot[Fallback(Head(todo[t])[2])]]
          /\ DOMAIN slot' = Slots /\ DOMAIN todo' = Tabs /\ todo'[t] = Tail(todo[t])
          /\ \A u \in Tabs \ {t} : todo'[u] = todo[u]
      BY <3>1, <3>3, StepIs
    <3>. QED
      BY <3>1, <3>2, <3>3, <3>4
  <2>3. Falling(t)'
    BY <1>1, <1>4, <2>1, <2>2 DEF Falling, e1, e2, e3
  <2>. QED
    BY <1>4, <2>2, <2>3
<1>5. CASE /\ todo[t] = <<e3>> /\ Preferred = NoFlow
           /\ slot["page"] = slot["fallback_page"] /\ slot["bridge"] = slot["fallback_bridge"]
  <2>1. Head(todo[t]) = e3 /\ Tail(todo[t]) = <<>>
    BY <1>5, One
  <2>2. /\ DOMAIN slot' = Slots /\ DOMAIN todo' = Tabs /\ todo'[t] = Tail(todo[t])
        /\ \A m \in Slots : slot'[m] = IF m = "url" THEN slot["fallback_url"] ELSE slot[m]
        /\ \A u \in Tabs \ {t} : todo'[u] = todo[u]
    <3>1. Head(todo[t])[1] = "fall back" /\ Head(todo[t])[2] = "url"
      BY <1>e, <2>1
    <3>2. slot[Fallback(Head(todo[t])[2])] = slot["fallback_url"]
      BY <3>1 DEF Fallback
    <3>3. DOMAIN slot = Slots /\ DOMAIN todo = Tabs
      BY <1>0
    <3>4. slot' = [slot EXCEPT ![Head(todo[t])[2]] = slot[Fallback(Head(todo[t])[2])]]
          /\ DOMAIN slot' = Slots /\ DOMAIN todo' = Tabs /\ todo'[t] = Tail(todo[t])
          /\ \A u \in Tabs \ {t} : todo'[u] = todo[u]
      BY <3>1, <3>3, StepIs
    <3>. QED
      BY <3>1, <3>2, <3>3, <3>4
  <2>3. Sound'
    BY <1>0, <1>5, <2>2 DEF Sound, FallbackSound, FlowIs
  <2>4. Preferred' = NoFlow /\ PrefersTarget' /\ PrefersLive'
    BY <1>5, <2>2 DEF PrefersTarget, PrefersLive
  <2>5. Followed'
    BY <1>0, <1>5, <2>2 DEF Followed, TargetSocket, FallbackSound
  <2>. QED
    BY <1>1, <1>5, <2>1, <2>2, <2>3, <2>4, <2>5 DEF Settled
<1>. QED
  BY <1>f, <1>2, <1>3, <1>4, <1>5

(* ---- the sockets that games play on ---- *)

(* A socket that is opened is named nowhere yet.                             *)
LEMMA Unheard ==
  ASSUME Shapes, Heard, NEW s \in Sockets, sock[s] = "none"
  PROVE  ~game[s] /\ \A t \in Tabs : s \notin urls[t]
BY Tabs0 DEF Heard, Shapes

LEMMA ReceivedType ==
  ASSUME Shapes, Heard, NEW t \in Tabs, NEW k \in DOMAIN received[t]
  PROVE  received[t][k][1] \in Sockets /\ tabOf[received[t][k][1]] = t
<1>1. received[t] \in Seq(Sockets \X BOOLEAN)
  BY DEF Shapes
<1>2. received[t][k] \in Sockets \X BOOLEAN
  BY <1>1
<1>. QED
  BY <1>2 DEF Heard

(* Steps that move no slot and open no socket.                               *)
LEMMA PlayedKept ==
  ASSUME Shapes, Heard, Played, UNCHANGED <<tabOf, game, slot, lastCreated>>,
         lastCreated \notin deadThen', DOMAIN todo' = Tabs,
         \A t \in Tabs : urls[t] \subseteq urls'[t] /\ Thinner(received'[t], received[t]),
         \A s \in Sockets : sock'[s] = "none" <=> sock[s] = "none",
         handledClosed \subseteq handledClosed', overlapped => overlapped',
         ~overlapped' => \A g \in GameOpen \ handledClosed' :
                           g \in urls'[tabOf[g]] => autoplayRequest'[tabOf[g]] = g
  PROVE  Played'
<1>1. ASSUME NEW t \in Tabs, NEW k \in DOMAIN received'[t], received'[t][k][2]
      PROVE  game'[received'[t][k][1]]
  <2>1. received[t] \in Seq(Sockets \X BOOLEAN)
    BY DEF Shapes
  <2>2. \E i \in DOMAIN received[t] : received'[t][k] = received[t][i]
    <3>1. CASE received'[t] = received[t]
      BY <3>1
    <3>2. CASE received'[t] = <<>>
      BY <3>2
    <3>3. CASE received[t] # <<>> /\ received'[t] = Tail(received[t])
      BY <2>1, <3>3, QueueMoves
    <3>. QED
      BY <3>1, <3>2, <3>3 DEF Thinner
  <2>. QED
    BY <1>1, <2>2 DEF Played
<1>2. Preferred' # NoFlow =>
        Preferred' \in Sockets /\ game'[Preferred'] /\ Preferred' \in urls'[tabOf'[Preferred']]
  <2>1. ASSUME Preferred # NoFlow
        PROVE  tabOf[Preferred] \in Tabs
    BY <2>1, Tabs0 DEF Played, Heard, Shapes
  <2>. QED
    BY <2>1 DEF Played, Preferred
<1>3. GameOpen' = GameOpen \ handledClosed'
  BY DEF GameOpen
<1>4. ~overlapped' =>
       /\ \A g, h \in GameOpen' : g = h
       /\ \A g \in GameOpen' : g \in urls'[tabOf'[g]] => autoplayRequest'[tabOf'[g]] = g
  BY <1>3 DEF Played
<1>. QED
  BY <1>1, <1>2, <1>4 DEF Played

(* Only the closing of a game's own socket, or one that nothing refers to,   *)
(* is handled while slots and handlers stay as they are.                     *)
LEMMA TrackKept ==
  ASSUME Shapes, Heard, Played, (Idle /\ Settled) \/ InHandler(Nat),
         UNCHANGED <<slot, lastCreated, deadThen>>, \A t \in Tabs : todo'[t] = todo[t],
         \A s \in Sockets : tabOf[s] \in Tabs => tabOf'[s] = tabOf[s] /\ game'[s] = game[s],
         \A t \in Tabs : urls[t] \subseteq urls'[t], overlapped => overlapped',
         handledClosed \subseteq handledClosed',
         \A s \in handledClosed' \ handledClosed :
           ~game[s] \/ (Idle /\ (~overlapped => s # Preferred))
  PROVE  ((Idle /\ Settled) \/ InHandler(Nat))'
<1>0. /\ tabOf \in [Sockets -> Tabs \cup {NoFlow}] /\ NoFlow \notin Tabs \cup Sockets
      /\ Preferred' = Preferred /\ TargetSocket' = TargetSocket
  BY Tabs0 DEF Shapes, Preferred, TargetSocket
<1>1. (Sound => Sound') /\ (FallbackSound => FallbackSound')
  BY DEF Sound, FallbackSound, FlowIs
<1>2. PrefersTarget => PrefersTarget'
  BY <1>0 DEF PrefersTarget
<1>3. (~overlapped => Followed) => (~overlapped => Followed)'
  BY <1>0 DEF Followed
<1>4. Preferred # NoFlow => Preferred \in Sockets /\ game[Preferred]
  BY DEF Played
<1>5. CASE Idle /\ Settled
  <2>1. Idle'
    BY <1>5 DEF Idle
  <2>2. PrefersLive'
    BY <1>0, <1>4, <1>5 DEF PrefersLive, Settled
  <2>. QED
    BY <1>1, <1>2, <1>3, <1>5, <2>1, <2>2 DEF Settled
<1>6. CASE InHandler(Nat)
  <2>1. PICK t \in Tabs, s \in Sockets, n \in Nat :
          /\ \A u \in Tabs \ {t} : todo[u] = <<>>
          /\ todo[t] # <<>> /\ GameFlow(t, s) /\ Running(t, s, <<s, n>>)
    BY <1>6 DEF InHandler
  <2>. DEFINE b == <<s, n>>
  <2>2. \A z \in handledClosed' \ handledClosed : ~game[z]
    BY <2>1 DEF Idle
  <2>3. PrefersLive => PrefersLive'
    BY <1>0, <1>4, <2>2 DEF PrefersLive
  <2>4. GameFlow(t, s)' /\ game[s]
    BY <2>1 DEF GameFlow
  <2>5. Creating(t, s, b) => Creating(t, s, b)'
    BY <1>1, <1>2, <2>3 DEF Creating
  <2>6. Targeting(t, s, b) => Targeting(t, s, b)'
    BY <1>0, <1>1, <2>3 DEF Targeting
  <2>7. Preferring(t, s, b) => Preferring(t, s, b)'
    BY <1>1, <2>2, <2>4 DEF Preferring
  <2>8. Closing(t, s) => Closing(t, s)'
    BY <1>0, <1>1, <1>2, <1>3, <1>4, <2>2 DEF Closing
  <2>9. Falling(t) => Falling(t)'
    BY <1>0, <1>1 DEF Falling
  <2>10. Running(t, s, b)'
    BY <2>1, <2>5, <2>6, <2>7, <2>8, <2>9 DEF Running
  <2>. QED
    BY <2>1, <2>4, <2>10 DEF InHandler
<1>. QED
  BY <1>5, <1>6

LEMMA StepTrack ==
  ASSUME Shapes, Heard, Played, (Idle /\ Settled) \/ InHandler(Nat), NEW t \in Tabs, Step(t)
  PROVE  Played' /\ ((Idle /\ Settled) \/ InHandler(Nat))'
<1>1. todo[t] # <<>> /\ DOMAIN slot = Slots /\ DOMAIN todo = Tabs /\ StepLeaves
      /\ UNCHANGED <<sock, received, autoplayRequest>>
  BY DEF Step, Played, StepLeaves, browserVars, eventVars, bridgeVars, historyVars, saneVars
<1>2. PICK s \in Sockets, n \in Nat :
        /\ \A u \in Tabs \ {t} : todo[u] = <<>>
        /\ GameFlow(t, s) /\ Running(t, s, <<s, n>>)
  BY <1>1 DEF Idle, InHandler
<1>. DEFINE b == <<s, n>>
<1>3. Acquired(s) \in Nat /\ GameFlow(t, s)'
  BY <1>1, <1>2, AcquiredType DEF GameFlow, StepLeaves
<1>4. /\ \E m \in Nat : Running(t, s, <<s, m>>)' \/ (todo'[t] = <<>> /\ Settled')
      /\ DOMAIN slot' = Slots /\ DOMAIN todo' = Tabs
      /\ slot'["preferred"] \in {slot["preferred"], s, NoFlow}
      /\ \A u \in Tabs \ {t} : todo'[u] = todo[u]
  <2>1. CASE Creating(t, s, b)
    BY <1>2, <1>3, <2>1, CreatingStep DEF Running
  <2>2. CASE Targeting(t, s, b)
    BY <1>2, <2>2, TargetingStep DEF Running
  <2>3. CASE Preferring(t, s, b)
    BY <1>2, <2>3, PreferringStep DEF Running
  <2>4. CASE Closing(t, s)
    BY <1>2, <2>4, ClosingStep DEF Running
  <2>5. CASE Falling(t)
    BY <1>2, <2>5, FallingStep DEF Running
  <2>. QED
    BY <1>2, <2>1, <2>2, <2>3, <2>4, <2>5 DEF Running
<1>5. \A u \in Tabs \ {t} : todo'[u] = <<>>
  BY <1>2, <1>4
<1>6. Played'
  <2>1. Preferred' # NoFlow =>
          Preferred' \in Sockets /\ game'[Preferred'] /\ Preferred' \in urls'[tabOf'[Preferred']]
    BY <1>1, <1>2, <1>4 DEF Played, Preferred, GameFlow, StepLeaves
  <2>2. GameOpen' = GameOpen
    BY <1>1 DEF GameOpen, StepLeaves
  <2>. QED
    BY <1>1, <1>4, <2>1, <2>2 DEF Played, StepLeaves
<1>7. CASE todo'[t] = <<>>
  <2>1. \A m \in Nat : ~Running(t, s, <<s, m>>)'
    <3>. SUFFICES ASSUME NEW m \in Nat
                  PROVE  ~Running(t, s, <<s, m>>)'
      OBVIOUS
    <3>1. \A c, d, e, f : <<c>> # <<>> /\ <<c, d>> # <<>> /\ <<c, d, e>> # <<>>
                          /\ <<c, d, e, f>> # <<>>
      OBVIOUS
    <3>2. ~Creating(t, s, <<s, m>>)'
      BY <1>7, <3>1 DEF Creating
    <3>3. ~Targeting(t, s, <<s, m>>)'
      BY <1>7, <3>1 DEF Targeting
    <3>4. ~Preferring(t, s, <<s, m>>)'
      BY <1>7, <3>1 DEF Preferring
    <3>5. ~Closing(t, s)'
      BY <1>7, <3>1 DEF Closing
    <3>6. ~Falling(t)'
      BY <1>7, <3>1 DEF Falling
    <3>. QED
      BY <3>2, <3>3, <3>4, <3>5, <3>6 DEF Running
  <2>2. Settled'
    BY <1>4, <2>1
  <2>3. Idle'
    BY <1>5, <1>7 DEF Idle
  <2>. QED
    BY <1>6, <2>2, <2>3
<1>8. CASE todo'[t] # <<>>
  <2>1. InHandler(Nat)'
    BY <1>3, <1>4, <1>5, <1>8 DEF InHandler
  <2>. QED
    BY <1>6, <2>1
<1>. QED
  BY <1>7, <1>8

LEMMA CreatedTrack ==
  ASSUME Shapes, Heard, Played, (Idle /\ Settled) \/ InHandler(Nat), NEW t \in Tabs, OnCreated(t),
         ~disordered'
  PROVE  Played' /\ ((Idle /\ Settled) \/ InHandler(Nat))'
<1>0. PICK s \in Sockets : s = Head(created[t])
  BY EventTaken DEF OnCreated
<1>n. PICK n \in Nat : n = Acquired(s)
  BY AcquiredType
<1>. DEFINE b == <<s, n>>
<1>1. /\ tabOf[s] = t /\ s \notin handledClosed /\ todo[t] = <<>>
      /\ game[s] => \A u \in Tabs \ {t} : todo[u] = <<>>
      /\ UNCHANGED <<sock, tabOf, game, received, slot, handledClosed, overlapped>>
      /\ DOMAIN todo = Tabs
  BY <1>0, EventTaken DEF OnCreated, Ready, browserVars, Played
<1>2. \A u \in Tabs : urls'[u] = IF u = t THEN urls[u] \cup {s} ELSE urls[u]
  BY <1>0 DEF OnCreated, Shapes
<1>3. \A g \in GameOpen \ {s} : g \in urls'[tabOf[g]] => g \in urls[tabOf[g]]
  <2>1. \A g \in GameOpen : tabOf[g] \in Tabs
    BY DEF GameOpen, Heard, Shapes
  <2>. QED
    BY <1>2, <2>1
<1>4. CASE ~game[s]
  <2>1. UNCHANGED <<todo, autoplayRequest, lastCreated, deadThen>>
    BY <1>0, <1>4 DEF OnCreated
  <2>2. s \notin GameOpen
    BY <1>4 DEF GameOpen
  <2>3. Played'
    BY <1>1, <1>2, <1>3, <2>1, <2>2, PlayedKept DEF Played, Thinner
  <2>4. ((Idle /\ Settled) \/ InHandler(Nat))'
    BY <1>1, <1>2, <2>1, TrackKept
  <2>. QED
    BY <2>3, <2>4
<1>5. CASE game[s]
  <2>1. /\ todo' = [todo EXCEPT ![t] =
              << <<"fallback_page", t>>, <<"fallback_bridge", b>>, <<"fallback_url", s>>,
                 <<"unless preferred", s>> >>]
        /\ autoplayRequest' = [autoplayRequest EXCEPT ![t] = s]
        /\ lastCreated' = s /\ deadThen' = handledClosed
    BY <1>0, <1>n, <1>5 DEF OnCreated
  <2>2. Idle /\ Settled
    BY <1>1, <1>5, Four DEF Idle, InHandler
  <2>3. Preferred' = Preferred /\ (Preferred # NoFlow => Preferred \in Sockets /\ game[Preferred]
                                   /\ Preferred \in urls[tabOf[Preferred]]
                                   /\ tabOf[Preferred] \in Tabs)
    <3>1. tabOf \in [Sockets -> Tabs \cup {NoFlow}]
      BY DEF Shapes
    <3>. QED
      BY <1>1, <3>1 DEF Played, Preferred, Heard
  <2>4. GameOpen' = GameOpen /\ s \in GameOpen
    BY <1>1, <1>5, Tabs0 DEF GameOpen, Heard
  <2>5. ASSUME ~overlapped
        PROVE  /\ \A g, h \in GameOpen : g = h
               /\ \A g \in GameOpen : autoplayRequest'[tabOf[g]] = g
    <3>1. \A g \in GameOpen : g = s
      BY <2>4, <2>5 DEF Played
    <3>2. autoplayRequest'[t] = s
      BY <2>1 DEF Shapes
    <3>. QED
      BY <1>1, <3>1, <3>2
  <2>6. Played'
    <3>1. \A u \in Tabs : \A k \in DOMAIN received[u] : received[u][k][2] => game[received[u][k][1]]
      BY DEF Played
    <3>2. Preferred' # NoFlow => Preferred' \in urls'[tabOf[Preferred']]
      BY <1>2, <2>3
    <3>3. DOMAIN slot' = Slots /\ DOMAIN todo' = Tabs /\ lastCreated' \notin deadThen'
      BY <1>1, <2>1 DEF Played
    <3>4. Preferred' # NoFlow => Preferred' \in Sockets /\ game[Preferred']
      BY <2>3
    <3>. QED
      BY <1>1, <2>4, <2>5, <3>1, <3>2, <3>3, <3>4 DEF Played
  <2>7. Sound' /\ PrefersTarget' /\ PrefersLive'
    BY <1>1, <2>2 DEF Settled, Sound, FlowIs, PrefersTarget, PrefersLive, Preferred, TargetSocket
  <2>8. todo'[t] = << <<"fallback_page", t>>, <<"fallback_bridge", b>>, <<"fallback_url", s>>,
                      <<"unless preferred", s>> >>
        /\ \A u \in Tabs \ {t} : todo'[u] = <<>>
    BY <1>1, <1>5, <2>1
  <2>9. Creating(t, s, b)'
    BY <2>1, <2>7, <2>8 DEF Creating
  <2>10. GameFlow(t, s)'
    BY <1>1, <1>2, <1>5 DEF GameFlow
  <2>11. todo'[t] # <<>>
    <3>1. \A c, d, e, f : <<c, d, e, f>> # <<>>
      OBVIOUS
    <3>. QED
      BY <2>8, <3>1
  <2>12. InHandler(Nat)'
    BY <2>8, <2>9, <2>10, <2>11 DEF InHandler, Running
  <2>. QED
    BY <2>6, <2>12
<1>. QED
  BY <1>4, <1>5

LEMMA ReceivedTrack ==
  ASSUME Shapes, Heard, Played, (Idle /\ Settled) \/ InHandler(Nat), NEW t \in Tabs, OnReceived(t),
         ~disordered'
  PROVE  Played' /\ ((Idle /\ Settled) \/ InHandler(Nat))'
<1>0. PICK s \in Sockets, action \in BOOLEAN :
        s = Head(received[t])[1] /\ action = Head(received[t])[2]
  BY EventTaken DEF OnReceived
<1>n. PICK n \in Nat : n = Acquired(s)
  BY AcquiredType
<1>. DEFINE b == <<s, n>>
<1>1. /\ tabOf[s] = t /\ s \notin handledClosed /\ todo[t] = <<>> /\ received[t] # <<>>
      /\ action => s \in urls[t] /\ \A u \in Tabs \ {t} : todo[u] = <<>>
      /\ UNCHANGED <<sock, tabOf, game, slot, autoplayRequest, urls, handledClosed, lastCreated,
                     deadThen, overlapped>>
      /\ DOMAIN todo = Tabs
  BY <1>0, EventTaken DEF OnReceived, Ready, browserVars, historyVars, Played
<1>2. action => game[s]
  <2>1. 1 \in DOMAIN received[t] /\ Head(received[t]) = received[t][1]
    BY <1>1, EventTaken
  <2>. QED
    BY <1>0, <2>1 DEF Played
<1>3. Played'
  <2>1. \A u \in Tabs : Thinner(received'[u], received[u])
    BY <1>1 DEF OnReceived, Shapes, Thinner
  <2>2. DOMAIN todo' = Tabs
    BY <1>1 DEF OnReceived
  <2>3. ~overlapped' => \A g \in GameOpen \ handledClosed' :
                          g \in urls'[tabOf[g]] => autoplayRequest'[tabOf[g]] = g
    BY <1>1 DEF Played
  <2>4. lastCreated \notin deadThen'
    BY <1>1 DEF Played
  <2>. QED
    BY <1>1, <2>1, <2>2, <2>3, <2>4, PlayedKept
<1>4. CASE ~action
  <2>1. todo' = todo
    BY <1>0, <1>4 DEF OnReceived
  <2>. QED
    BY <1>1, <1>3, <2>1, TrackKept
<1>5. CASE action
  <2>1. todo' = [todo EXCEPT ![t] =
          << <<"preferred", s>> >> \o << <<"page", t>>, <<"bridge", b>>, <<"url", s>> >>]
    BY <1>0, <1>n, <1>1, <1>5 DEF OnReceived, Target
  <2>2. << <<"preferred", s>> >> \o << <<"page", t>>, <<"bridge", b>>, <<"url", s>> >> =
        << <<"preferred", s>>, <<"page", t>>, <<"bridge", b>>, <<"url", s>> >>
    <3>. DEFINE e0 == <<"preferred", s>>
                e1 == <<"page", t>>
                e2 == <<"bridge", b>>
                e3 == <<"url", s>>
    <3>. HIDE DEF e0, e1, e2, e3
    <3>1. <<e0>> \o <<e1, e2, e3>> = <<e0, e1, e2, e3>>
      BY Four
    <3>. QED
      BY <3>1 DEF e0, e1, e2, e3
  <2>3. todo'[t] = << <<"preferred", s>>, <<"page", t>>, <<"bridge", b>>, <<"url", s>> >>
        /\ \A u \in Tabs \ {t} : todo'[u] = <<>>
    BY <1>1, <1>5, <2>1, <2>2
  <2>4. FallbackSound'
    <3>1. \A c, d, e, f : <<c>> # <<>> /\ <<c, d>> # <<>> /\ <<c, d, e>> # <<>>
                          /\ <<c, d, e, f>> # <<>>
      OBVIOUS
    <3>2. Idle /\ Settled
      BY <1>1, <1>5 DEF Idle, InHandler
    <3>. QED
      BY <1>1, <3>2 DEF Settled, FallbackSound, FlowIs
  <2>5. Preferring(t, s, b)' /\ GameFlow(t, s)'
    BY <1>1, <1>2, <1>5, <2>3, <2>4 DEF Preferring, GameFlow
  <2>6. todo'[t] # <<>>
    <3>1. \A c, d, e, f : <<c, d, e, f>> # <<>>
      OBVIOUS
    <3>. QED
      BY <2>3, <3>1
  <2>7. InHandler(Nat)'
    BY <2>3, <2>5, <2>6 DEF InHandler, Running
  <2>. QED
    BY <1>3, <2>7
<1>. QED
  BY <1>4, <1>5

LEMMA ClosedTrack ==
  ASSUME Shapes, Heard, Played, (Idle /\ Settled) \/ InHandler(Nat), NEW t \in Tabs, OnClosed(t),
         ~disordered'
  PROVE  Played' /\ ((Idle /\ Settled) \/ InHandler(Nat))'
<1>0. PICK s \in Sockets : s = Head(closed[t])
  BY EventTaken DEF OnClosed
<1>1. /\ tabOf[s] = t /\ todo[t] = <<>>
      /\ game[s] => \A u \in Tabs \ {t} : todo[u] = <<>>
      /\ UNCHANGED <<sock, tabOf, game, slot, received, urls, lastCreated, deadThen, overlapped>>
      /\ handledClosed' = handledClosed \cup {s} /\ DOMAIN todo = Tabs
      /\ autoplayRequest \in [Tabs -> Sockets \cup {NoFlow}]
  BY <1>0, EventTaken DEF OnClosed, Ready, browserVars, Played, Shapes
<1>2. game[s] => Idle /\ Settled
  BY <1>1 DEF Idle, InHandler
<1>3. autoplayRequest[t] = s => game[s] /\ s \in urls[t]
  BY Tabs0 DEF Heard
<1>4. \A g \in GameOpen : tabOf[g] \in Tabs
  BY DEF GameOpen, Heard, Shapes
<1>5. Played'
  <2>1. \A u \in Tabs : autoplayRequest'[u] = IF u = t /\ autoplayRequest[t] = s THEN NoFlow
                                              ELSE autoplayRequest[u]
    BY <1>0, <1>1 DEF OnClosed
  <2>2. ASSUME ~overlapped', NEW g \in GameOpen \ handledClosed', g \in urls'[tabOf[g]]
        PROVE  autoplayRequest'[tabOf[g]] = g
    <3>1. autoplayRequest[tabOf[g]] = g /\ g # s
      BY <1>1, <2>2 DEF Played
    <3>. QED
      BY <1>4, <2>1, <3>1
  <2>3. DOMAIN todo' = Tabs
    BY <1>1 DEF OnClosed
  <2>4. lastCreated \notin deadThen'
    BY <1>1 DEF Played
  <2>. QED
    BY <1>1, <2>2, <2>3, <2>4, PlayedKept DEF Thinner
<1>6. CASE autoplayRequest[t] # s
  <2>1. todo' = todo
    BY <1>0, <1>6 DEF OnClosed
  <2>2. ASSUME game[s], ~overlapped, s \notin handledClosed
        PROVE  s # Preferred
    <3>. SUFFICES ASSUME s = Preferred
                  PROVE  FALSE
      OBVIOUS
    <3>1. s \in GameOpen
      BY <1>1, <2>2, Tabs0 DEF GameOpen, Heard
    <3>2. s \in urls[t]
      BY <1>1, Tabs0 DEF Played
    <3>. QED
      BY <1>1, <1>6, <2>2, <3>1, <3>2 DEF Played
  <2>. QED
    BY <1>1, <1>2, <1>5, <2>1, <2>2, TrackKept
<1>7. CASE autoplayRequest[t] = s
  <2>1. todo' = [todo EXCEPT ![t] = << <<"if preferred", s>> >>]
    BY <1>0, <1>7 DEF OnClosed
  <2>2. todo'[t] = << <<"if preferred", s>> >> /\ \A u \in Tabs \ {t} : todo'[u] = <<>>
    BY <1>1, <1>3, <1>7, <2>1
  <2>3. Sound' /\ FallbackSound' /\ PrefersTarget' /\ Preferred' = Preferred
    BY <1>1, <1>2, <1>3, <1>7
       DEF Settled, Sound, FallbackSound, FlowIs, PrefersTarget, Preferred, TargetSocket
  <2>4. (~overlapped => Followed)'
    BY <1>1, <1>2, <1>3, <1>7 DEF Settled, Followed, TargetSocket
  <2>5. (~overlapped /\ Preferred \notin {NoFlow, s} => Preferred \notin handledClosed)'
    BY <1>1, <1>2, <1>3, <1>7, <2>3 DEF Settled, PrefersLive
  <2>6. Closing(t, s)' /\ GameFlow(t, s)'
    BY <1>1, <1>3, <1>7, <2>2, <2>3, <2>4, <2>5 DEF Closing, GameFlow
  <2>7. todo'[t] # <<>>
    <3>1. \A c : <<c>> # <<>>
      OBVIOUS
    <3>. QED
      BY <2>2, <3>1
  <2>8. 0 \in Nat
    OBVIOUS
  <2>9. InHandler(Nat)'
    BY <2>2, <2>6, <2>7, <2>8 DEF InHandler, Running
  <2>. QED
    BY <1>5, <2>9
<1>. QED
  BY <1>6, <1>7

LEMMA BrowserTrack ==
  ASSUME Shapes, Heard, Shapes', Heard', Played, (Idle /\ Settled) \/ InHandler(Nat), PageNext,
         UNCHANGED <<slot, autoplayRequest, urls, handledClosed, lastCreated, deadThen>>,
         DOMAIN todo' = Tabs, \A t \in Tabs : todo'[t] = todo[t], overlapped => overlapped',
         \A t \in Tabs : \A k \in DOMAIN received'[t] :
           received'[t][k][2] => game'[received'[t][k][1]],
         ~overlapped' => \A g, h \in GameOpen' : g = h,
         GameOpen' \subseteq GameOpen \cup {z \in Sockets : sock[z] = "none"}
  PROVE  Played' /\ ((Idle /\ Settled) \/ InHandler(Nat))'
<1>1. \A s \in Sockets : tabOf[s] \in Tabs => tabOf'[s] = tabOf[s] /\ game'[s] = game[s]
  BY Opened, Tabs0
<1>2. ((Idle /\ Settled) \/ InHandler(Nat))'
  BY <1>1, TrackKept
<1>3. Preferred' # NoFlow =>
        Preferred' \in Sockets /\ game'[Preferred'] /\ Preferred' \in urls'[tabOf'[Preferred']]
  <2>1. ASSUME Preferred # NoFlow
        PROVE  tabOf[Preferred] \in Tabs
    BY <2>1, Tabs0 DEF Played, Heard, Shapes
  <2>. QED
    BY <1>1, <2>1 DEF Played, Preferred
<1>4. ASSUME ~overlapped', NEW g \in GameOpen', g \in urls'[tabOf'[g]]
      PROVE  autoplayRequest'[tabOf'[g]] = g
  <2>1. CASE g \in GameOpen
    <3>1. tabOf[g] \in Tabs
      BY <2>1 DEF GameOpen, Heard, Shapes
    <3>. QED
      BY <1>1, <1>4, <2>1, <3>1 DEF Played, GameOpen
  <2>2. CASE g \in Sockets /\ sock[g] = "none"
    <3>1. \A t \in Tabs : g \notin urls[t]
      BY <2>2, Unheard
    <3>2. tabOf'[g] \in Tabs
      BY <1>4 DEF GameOpen, Heard, Shapes
    <3>. QED
      BY <1>4, <3>1, <3>2
  <2>. QED
    BY <1>4, <2>1, <2>2
<1>. QED
  BY <1>2, <1>3, <1>4 DEF Played

LEMMA TrackInductive ==
  Shapes /\ Heard /\ Shapes' /\ Heard' /\ OnTrack(Nat) /\ PageNext => OnTrack(Nat)'
<1>. SUFFICES ASSUME Shapes, Heard, Shapes', Heard', OnTrack(Nat), PageNext, ~disordered'
              PROVE  Played' /\ ((Idle /\ Settled) \/ InHandler(Nat))'
  BY DEF OnTrack
<1>1. ~disordered
  BY DEF PageNext, OpenTab, CloseTab, Attach, ReapTab, OnCreated, OnReceived, OnClosed, Step,
         OpenSocket, CloseSocket, ServerFrame, saneVars
<1>2. Played /\ ((Idle /\ Settled) \/ InHandler(Nat))
  BY <1>1 DEF OnTrack
<1>3. /\ DOMAIN todo = Tabs
      /\ \A t \in Tabs : \A k \in DOMAIN received[t] : received[t][k][2] => game[received[t][k][1]]
      /\ ~overlapped => \A g, h \in GameOpen : g = h
  BY <1>2 DEF Played
<1>4. ASSUME NEW t \in Tabs, OpenTab(t) \/ Attach(t)
      PROVE  Played' /\ ((Idle /\ Settled) \/ InHandler(Nat))'
  <2>1. UNCHANGED <<sock, tabOf, game, received, todo, slot, autoplayRequest, urls, handledClosed,
                    lastCreated, deadThen, overlapped>>
    BY <1>4 DEF OpenTab, Attach, eventVars, taskVars, historyVars, saneVars
  <2>2. GameOpen' = GameOpen
    BY <2>1 DEF GameOpen
  <2>. QED
    BY <1>2, <1>3, <2>1, <2>2, BrowserTrack
<1>5. ASSUME NEW t \in Tabs, CloseTab(t)
      PROVE  Played' /\ ((Idle /\ Settled) \/ InHandler(Nat))'
  <2>1. UNCHANGED <<tabOf, game, received, todo, slot, autoplayRequest, urls, handledClosed,
                    lastCreated, deadThen>> /\ (overlapped => overlapped')
    BY <1>5 DEF CloseTab, eventVars, taskVars, historyVars
  <2>2. \A s \in Sockets : sock'[s] = "none" <=> sock[s] = "none"
    <3>1. \A s \in Sockets : sock'[s] = IF tabOf[s] = t THEN "closed" ELSE sock[s]
      BY <1>5 DEF CloseTab
    <3>. QED
      BY <3>1, Tabs0 DEF Heard
  <2>3. GameOpen' = GameOpen
    BY <2>1, <2>2 DEF GameOpen
  <2>. QED
    BY <1>2, <1>3, <2>1, <2>3, BrowserTrack
<1>6. ASSUME NEW t \in Tabs, ReapTab(t)
      PROVE  Played' /\ ((Idle /\ Settled) \/ InHandler(Nat))'
  <2>1. UNCHANGED <<sock, tabOf, game, slot, autoplayRequest, urls, handledClosed, lastCreated,
                    deadThen, overlapped>>
    BY <1>6 DEF ReapTab, historyVars
  <2>2. todo[t] = <<>> /\ DOMAIN todo' = Tabs /\ \A u \in Tabs : todo'[u] = todo[u]
    BY <1>3, <1>6 DEF ReapTab
  <2>3. \A u \in Tabs : \A k \in DOMAIN received'[u] : received'[u][k][2] => game[received'[u][k][1]]
    <3>1. \A u \in Tabs : received'[u] = IF u = t THEN <<>> ELSE received[u]
      BY <1>6 DEF ReapTab, Shapes
    <3>2. \A k \in DOMAIN <<>> : FALSE
      OBVIOUS
    <3>. QED
      BY <1>3, <3>1, <3>2
  <2>4. GameOpen' = GameOpen
    BY <2>1 DEF GameOpen
  <2>. QED
    BY <1>2, <1>3, <2>1, <2>2, <2>3, <2>4, BrowserTrack
<1>7. ASSUME NEW t \in Tabs, NEW s \in Sockets, NEW isGame \in BOOLEAN, OpenSocket(s, t, isGame)
      PROVE  Played' /\ ((Idle /\ Settled) \/ InHandler(Nat))'
  <2>1. /\ UNCHANGED <<received, todo, slot, autoplayRequest, urls, handledClosed, lastCreated,
                       deadThen>>
        /\ sock[s] = "none" /\ sock' = [sock EXCEPT ![s] = "open"]
        /\ game' = [game EXCEPT ![s] = isGame]
        /\ overlapped' = (overlapped \/ (isGame /\ (GameOpen # {} \/ ~Watched(t))))
    BY <1>7 DEF OpenSocket, taskVars, historyVars
  <2>2. \A z \in Sockets : z # s => sock'[z] = sock[z] /\ game'[z] = game[z]
    BY <2>1 DEF Shapes
  <2>3. game'[s] = isGame
    BY <2>1 DEF Shapes
  <2>4. GameOpen' \subseteq GameOpen \cup {s} /\ (~isGame => GameOpen' \subseteq GameOpen)
    BY <2>1, <2>2, <2>3 DEF GameOpen
  <2>5. ~overlapped' => \A g, h \in GameOpen' : g = h
    BY <1>3, <2>1, <2>4
  <2>6. \A u \in Tabs : \A k \in DOMAIN received'[u] :
          received'[u][k][2] => game'[received'[u][k][1]]
    <3>. SUFFICES ASSUME NEW u \in Tabs, NEW k \in DOMAIN received[u], received[u][k][2]
                  PROVE  game'[received[u][k][1]]
      BY <2>1
    <3>1. received[u][k][1] \in Sockets /\ tabOf[received[u][k][1]] = u
      BY ReceivedType
    <3>2. received[u][k][1] # s
      BY <2>1, <3>1, Tabs0 DEF Heard
    <3>. QED
      BY <1>3, <2>2, <3>1, <3>2
  <2>. QED
    BY <1>2, <1>3, <2>1, <2>4, <2>5, <2>6, BrowserTrack
<1>8. ASSUME NEW s \in Sockets, CloseSocket(s)
      PROVE  Played' /\ ((Idle /\ Settled) \/ InHandler(Nat))'
  <2>1. UNCHANGED <<tabOf, game, received, todo, slot, autoplayRequest, urls, handledClosed,
                    lastCreated, deadThen, overlapped>>
    BY <1>8 DEF CloseSocket, taskVars, historyVars, saneVars
  <2>2. \A z \in Sockets : sock'[z] = "none" <=> sock[z] = "none"
    BY <1>8 DEF CloseSocket, Shapes
  <2>3. GameOpen' = GameOpen
    BY <2>1, <2>2 DEF GameOpen
  <2>. QED
    BY <1>2, <1>3, <2>1, <2>3, BrowserTrack
<1>9. ASSUME NEW s \in Sockets, NEW action \in BOOLEAN, ServerFrame(s, action)
      PROVE  Played' /\ ((Idle /\ Settled) \/ InHandler(Nat))'
  <2>1. UNCHANGED <<sock, tabOf, game, todo, slot, autoplayRequest, urls, handledClosed,
                    lastCreated, deadThen, overlapped>> /\ (action => game[s])
    BY <1>9 DEF ServerFrame, taskVars, historyVars
  <2>2. GameOpen' = GameOpen
    BY <2>1 DEF GameOpen
  <2>3. ASSUME NEW u \in Tabs, NEW k \in DOMAIN received'[u], received'[u][k][2]
        PROVE  game[received'[u][k][1]]
    <3>1. received'[u] = received[u] \/ received'[u] = Append(received[u], <<s, action>>)
      BY <1>9 DEF ServerFrame, Shapes
    <3>2. received[u] \in Seq(Sockets \X BOOLEAN) /\ <<s, action>> \in Sockets \X BOOLEAN
      BY DEF Shapes
    <3>3. CASE received'[u] = received[u]
      BY <1>3, <2>3, <3>3
    <3>4. CASE received'[u] = Append(received[u], <<s, action>>)
      <4>1. \/ received'[u][k] = <<s, action>>
            \/ k \in DOMAIN received[u] /\ received'[u][k] = received[u][k]
        BY <3>2, <3>4, <2>3, QueueMoves
      <4>2. <<s, action>>[1] = s /\ <<s, action>>[2] = action
        OBVIOUS
      <4>. QED
        BY <1>3, <2>1, <2>3, <4>1, <4>2
    <3>. QED
      BY <3>1, <3>3, <3>4
  <2>. QED
    BY <1>2, <1>3, <2>1, <2>2, <2>3, BrowserTrack
<1>10. ASSUME NEW t \in Tabs, OnCreated(t) \/ OnReceived(t) \/ OnClosed(t) \/ Step(t)
       PROVE  Played' /\ ((Idle /\ Settled) \/ InHandler(Nat))'
  BY <1>2, <1>10, CreatedTrack, ReceivedTrack, ClosedTrack, StepTrack
<1>. QED
  BY <1>4, <1>5, <1>6, <1>7, <1>8, <1>9, <1>10 DEF PageNext

LEMMA BridgeInductive == Shapes /\ Heard /\ BridgeKept /\ PageNext => BridgeKept'
<1>. SUFFICES ASSUME Shapes, Heard, BridgeKept, PageNext
              PROVE  BridgeKept'
  OBVIOUS
<1>1. ASSUME NEW s \in Sockets, AcquireFlow(s), handledClosed' = handledClosed
      PROVE  BridgeKept'
  <2>1. \A z \in Sockets : z # s => made'[z] = made[z] /\ mapped'[z] = mapped[z]
    BY <1>1 DEF AcquireFlow, Shapes
  <2>2. made'[s] = Acquired(s) /\ mapped'[s]
    BY <1>1 DEF AcquireFlow, Shapes
  <2>. QED
    BY <1>1, <2>1, <2>2 DEF BridgeKept, Acquired
<1>2. ASSUME NEW s \in Sockets, AcquireRelease(s), handledClosed' = handledClosed \cup {s}
      PROVE  BridgeKept'
  <2>1. \A z \in Sockets : z # s => made'[z] = made[z] /\ mapped'[z] = mapped[z]
    BY <1>2 DEF AcquireRelease, Shapes
  <2>. QED
    BY <1>2, <2>1 DEF BridgeKept
<1>3. ASSUME UNCHANGED <<made, mapped, handledClosed>>
      PROVE  BridgeKept'
  BY <1>3 DEF BridgeKept
<1>4. ASSUME NEW t \in Tabs, OnCreated(t) \/ OnReceived(t)
      PROVE  BridgeKept'
  <2>1. handledClosed' = handledClosed
    BY <1>4 DEF OnCreated, OnReceived, historyVars
  <2>. QED
    BY <1>1, <1>4, <2>1, EventTaken DEF OnCreated, OnReceived
<1>5. ASSUME NEW t \in Tabs, OnClosed(t)
      PROVE  BridgeKept'
  BY <1>2, <1>5, EventTaken DEF OnClosed
<1>. QED
  BY <1>3, <1>4, <1>5
     DEF PageNext, OpenTab, CloseTab, Attach, ReapTab, Step, OpenSocket, CloseSocket,
         ServerFrame, bridgeVars, historyVars

PageInv == Shapes /\ Heard /\ OnTrack(Nat) /\ BridgeKept

LEMMA PageInitial == PageInit => PageInv
<1>. SUFFICES ASSUME PageInit
              PROVE  PageInv
  OBVIOUS
<1>0. /\ \A t \in Tabs : created[t] = <<>> /\ received[t] = <<>> /\ closed[t] = <<>>
                         /\ autoplayRequest[t] = NoFlow /\ urls[t] = {} /\ todo[t] = <<>>
      /\ <<>> \in Seq(Sockets) /\ <<>> \in Seq(Sockets \X BOOLEAN)
      /\ \A k \in DOMAIN <<>> : FALSE
      /\ \A m \in Slots : slot[m] = NoFlow
  BY DEF PageInit
<1>1. Shapes
  BY <1>0 DEF PageInit, Shapes
<1>2. Heard
  BY <1>0 DEF PageInit, Heard
<1>3. Played
  BY <1>0, Tabs0 DEF PageInit, Played, Preferred, Slots, GameOpen
<1>4. Idle /\ Settled
  BY <1>0, Tabs0 DEF PageInit, Idle, Settled, Sound, FallbackSound, FlowIs, PrefersTarget,
                     PrefersLive, Followed, TargetSocket, Preferred, Slots
<1>5. BridgeKept
  BY DEF PageInit, BridgeKept
<1>. QED
  BY <1>1, <1>2, <1>3, <1>4, <1>5 DEF PageInv, OnTrack

LEMMA PageInductive == PageInv /\ [PageNext]_pageVars => PageInv'
<1>. SUFFICES ASSUME PageInv, [PageNext]_pageVars
              PROVE  PageInv'
  OBVIOUS
<1>1. CASE PageNext
  BY <1>1, ShapesInductive, HeardInductive, TrackInductive, BridgeInductive DEF PageInv
<1>2. CASE UNCHANGED pageVars
  <2>1. UNCHANGED <<sock, tabOf, game, created, received, closed, made, mapped, slot, todo,
                    autoplayRequest, urls, handledClosed, lastCreated, deadThen, overlapped,
                    disordered>>
    BY <1>2 DEF pageVars, browserVars, eventVars, bridgeVars, taskVars, historyVars, saneVars
  <2>2. Shapes' /\ Heard' /\ BridgeKept'
    BY <2>1 DEF PageInv, Shapes, Heard, BridgeKept
  <2>3. OnTrack(Nat)'
    <3>. SUFFICES ASSUME ~disordered, Played, (Idle /\ Settled) \/ InHandler(Nat)
                  PROVE  Played' /\ ((Idle /\ Settled) \/ InHandler(Nat))'
      BY <2>1 DEF PageInv, OnTrack
    <3>1. Played'
      BY <2>1 DEF Played, Preferred, GameOpen
    <3>2. ((Idle /\ Settled) \/ InHandler(Nat))'
      BY <2>1, TrackKept DEF PageInv
    <3>. QED
      BY <3>1, <3>2
  <2>. QED
    BY <2>2, <2>3 DEF PageInv
<1>. QED
  BY <1>1, <1>2

LEMMA PageInvariant == PageSpec => []PageInv
BY PageInitial, PageInductive, PTL DEF PageSpec

(* TargetIsOneFlow: between the handlers of cdp.rs, whose locks interleave   *)
(* with the browser and with each other, page, bridge and URL of the         *)
(* autoplay target belong to one flow; a preferred flow is the target; and a *)
(* game that reopens its socket is followed to the new one.                  *)
THEOREM TargetSafety == PageSpec => []TargetIsOneFlow
<1>1. ASSUME PageInv, Idle, ~disordered
      PROVE  Settled
  <2>1. ~InHandler(Nat)
    BY <1>1 DEF InHandler, Idle
  <2>. QED
    BY <1>1, <2>1 DEF PageInv, OnTrack
<1>2. ASSUME PageInv, TargetSocket # NoFlow, Sound
      PROVE  slot["page"] = tabOf[TargetSocket] /\ slot["url"] \in {TargetSocket, NoFlow}
  BY <1>2 DEF Sound, FlowIs, TargetSocket
<1>3. PageInv => TargetIsOneFlow
  BY <1>1, <1>2 DEF TargetIsOneFlow, Settled, PrefersTarget, Preferred
<1>. QED
  BY <1>3, PageInvariant, PTL

(* OneBridge: however created, received and closed events of a socket are    *)
(* ordered, a second bridge is made for it only after its closing was        *)
(* handled (acquire and release of flow.rs).                                 *)
THEOREM BridgeSafety == PageSpec => []OneBridge
<1>1. PageInv => OneBridge
  BY DEF PageInv, BridgeKept, OneBridge
<1>. QED
  BY <1>1, PageInvariant, PTL
=============================================================================
