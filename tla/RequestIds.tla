------------------------------ MODULE RequestIds ------------------------------
(***************************************************************************)
(* The 16-bit message ids of one Mahjong Soul socket that the game client   *)
(* and the autoplay manager both send on.                                   *)
(*                                                                         *)
(* On the "page" leg every send goes through the WebSocket hook             *)
(* (WS_HOOK_SCRIPT of src/src/autoplay/cdp_input.rs), which numbers the     *)
(* wire and gives each response the id its request was called with; the     *)
(* bridge sees the frames through the browser's events, sent and received   *)
(* frames on a stream each.  On the "mitm" leg nothing renumbers and the    *)
(* bridge sees each frame as it is relayed.                                 *)
(*                                                                         *)
(* A request is its number, 1 to MaxRequests.  Content tells apart what two *)
(* frames of one id may differ in.  The socket stays open.                  *)
(***************************************************************************)
EXTENDS Naturals, Sequences

CONSTANTS MaxId,         \* 0xffff: the last message id
          MaxRequests    \* bound: requests sent on the socket

ASSUME IdsAssumption == MaxId \in Nat \ {0} /\ MaxRequests \in Nat

Ids == 1..MaxId
Requests == 1..MaxRequests
Contents == {"discard", "other"}
None == 0

VARIABLES
  leg,          \* "page" or "mitm"
  made,         \* requests made so far
  by,           \* who made a request: "client" or "us"
  supplied,     \* the id it was called with
  content,      \* what it says
  nextClient,   \* the client's own counter
  waiting,      \* the client's unanswered requests, by its id
  building,     \* our frame that is built and not sent yet
  queue,        \* hook: sends behind a Blob that is being read
  nextMsgId,    \* hook: the next wire id, None before the first request
  pendingByWireId,  \* hook: wire id to the id supplied
  wire,         \* the id a request has on the wire, None before
  onWire,       \* history: the requests in the order of the wire
  called,       \* history: the requests in the order of the calls of send
  packetRx,     \* mitm: our frames for the relay
  sentEv,       \* frames of the client's side for the bridge, in wire order
  recvEv,       \* responses for the bridge
  toClient,     \* responses on their way to the client
  answered,     \* requests the server has answered
  pending,      \* bridge: id to the request whose method decodes its response
  bridgeNext,   \* bridge: next_msg_id
  marks,        \* injected_ws_frames
  decoded,      \* history: the request a response was decoded as, None: an error
  took,         \* history: whose response the client took for a request
  flagged       \* history: requests the inspector shows as injected

clientVars == <<nextClient, waiting, took>>
hookVars == <<queue, nextMsgId, pendingByWireId, called>>
bridgeVars == <<pending, bridgeNext, decoded>>
wireVars == <<wire, onWire, sentEv>>
requestVars == <<made, by, supplied, content>>
markVars == <<marks, flagged>>
vars == <<leg, requestVars, clientVars, building, hookVars, wireVars, packetRx,
          recvEv, toClient, answered, bridgeVars, markVars>>

Unanswered == MaxRequests + 1

Init ==
  /\ leg \in {"page", "mitm"} /\ made = 0 /\ building = None
  /\ by = [q \in Requests |-> "client"] /\ supplied = [q \in Requests |-> None]
  /\ content = [q \in Requests |-> "other"]
  /\ nextClient \in Ids /\ waiting = [i \in Ids |-> None]
  /\ took = [q \in Requests |-> Unanswered]
  /\ queue = <<>> /\ nextMsgId = None /\ pendingByWireId = [i \in Ids |-> None]
  /\ called = <<>>
  /\ wire = [q \in Requests |-> None] /\ onWire = <<>> /\ sentEv = <<>>
  /\ packetRx = <<>> /\ recvEv = <<>> /\ toClient = <<>> /\ answered = {}
  /\ pending = [i \in Ids |-> None] /\ bridgeNext = 1
  /\ decoded = [q \in Requests |-> Unanswered]
  /\ marks = <<>> /\ flagged = {}

(* nextMsgId, and wrapping_add(1).max(1): 0 is skipped.                      *)
Successor(id) == IF id = MaxId THEN 1 ELSE id + 1

(* ---- the hook ---- *)

(* The first request gives the sequence its start, every later one follows.  *)
WireId(id) == IF nextMsgId = None THEN id ELSE nextMsgId
(* prepareRequest, then nativeSend.                                          *)
PutOnWire(q, id) ==
  LET wireId == WireId(id) IN
  /\ wire' = [wire EXCEPT ![q] = wireId]
  /\ pendingByWireId' = [pendingByWireId EXCEPT ![wireId] = id]
  /\ nextMsgId' = Successor(wireId)
  /\ onWire' = Append(onWire, q) /\ sentEv' = Append(sentEv, q)

(* Mutant of SendAtOnce: only a Blob waits.                                  *)
SendUnlessBlob(blob) == ~blob
(* A Blob is read first, and what is sent meanwhile waits behind it.         *)
SendAtOnce(blob) == ~blob /\ queue = <<>>

(* ws.send on the page.                                                      *)
HookSend(q, id, blob) ==
  /\ called' = Append(called, q)
  /\ IF SendAtOnce(blob)
       THEN PutOnWire(q, id) /\ UNCHANGED queue
       ELSE /\ queue' = Append(queue, q)
            /\ UNCHANGED <<nextMsgId, pendingByWireId, wireVars>>

(* The first task of sendQueue is done.                                      *)
RunQueued ==
  /\ queue # <<>> /\ PutOnWire(Head(queue), supplied[Head(queue)])
  /\ queue' = Tail(queue)
  /\ UNCHANGED <<leg, requestVars, clientVars, building, called, packetRx, recvEv,
                 toClient, answered, bridgeVars, marks, flagged>>

(* ---- the two senders ---- *)

NewRequest(who, id, what) ==
  /\ made < MaxRequests /\ made' = made + 1
  /\ by' = [by EXCEPT ![made'] = who] /\ supplied' = [supplied EXCEPT ![made'] = id]
  /\ content' = [content EXCEPT ![made'] = what]

(* The client makes a request, unless as many wait as there are ids.         *)
ClientCall(blob, what) ==
  /\ waiting[nextClient] = None
  /\ NewRequest("client", nextClient, what)
  /\ waiting' = [waiting EXCEPT ![nextClient] = made']
  /\ nextClient' = Successor(nextClient)
  /\ IF leg = "page"
       THEN HookSend(made', nextClient, blob)
       ELSE /\ ~blob /\ sentEv' = Append(sentEv, made')
            /\ UNCHANGED <<hookVars, wire, onWire>>
  /\ UNCHANGED <<leg, building, packetRx, recvEv, toClient, answered, bridgeVars,
                 marks, flagged, took>>

(* build_with_hints: the bridge numbers our frame from what it has parsed.   *)
Build(what) ==
  /\ building = None
  /\ NewRequest("us", bridgeNext, what)
  /\ bridgeNext' = Successor(bridgeNext)
  /\ building' = made'
  /\ marks' = IF leg = "page" THEN Append(marks, <<bridgeNext, what>>) ELSE marks
  /\ UNCHANGED <<leg, clientVars, hookVars, wireVars, packetRx, recvEv, toClient,
                 answered, pending, decoded, flagged>>

(* dispatch_ws_binary, or send_mitm_packet.                                  *)
Dispatch ==
  /\ building # None /\ building' = None
  /\ IF leg = "page"
       THEN /\ HookSend(building, supplied[building], FALSE)
            /\ UNCHANGED packetRx
       ELSE /\ packetRx' = Append(packetRx, building)
            /\ UNCHANGED <<hookVars, wireVars>>
  /\ UNCHANGED <<leg, requestVars, clientVars, recvEv, toClient, answered, bridgeVars,
                 marks, flagged>>

(* The page has no socket of that address, or evaluating the script fails:   *)
(* the mark stays.                                                           *)
DispatchFails ==
  /\ building # None /\ leg = "page" /\ building' = None
  /\ UNCHANGED <<leg, requestVars, clientVars, hookVars, wireVars, packetRx, recvEv,
                 toClient, answered, bridgeVars, markVars>>

(* ---- the bridge ---- *)

(* parse_request and note_request_id.                                        *)
ParseRequest(q, id) ==
  /\ pending' = [pending EXCEPT ![id] = q]
  /\ bridgeNext' = Successor(id)

(* take_injected_ws_frame_mark: the first mark of the same bytes.            *)
MarkOf(q) == {k \in DOMAIN marks : marks[k] = <<wire[q], content[q]>>}
TakeMark(q) ==
  IF MarkOf(q) = {} THEN UNCHANGED <<marks, flagged>>
  ELSE LET k == CHOOSE k \in MarkOf(q) : \A j \in MarkOf(q) : k <= j
       IN  /\ marks' = SubSeq(marks, 1, k - 1) \o SubSeq(marks, k + 1, Len(marks))
           /\ flagged' = flagged \cup {q}

(* on_sent of the page task.                                                 *)
OnSent ==
  LET q == Head(sentEv) IN
  /\ leg = "page" /\ sentEv # <<>>
  /\ ParseRequest(q, wire[q]) /\ TakeMark(q) /\ sentEv' = Tail(sentEv)
  /\ UNCHANGED <<leg, requestVars, clientVars, building, hookVars, wire, onWire,
                 packetRx, recvEv, toClient, answered, decoded>>

(* The uplink relay: its select takes a frame of the client or one of ours,  *)
(* the bridge parses it, and it goes on as it is.                            *)
Relay(q) ==
  /\ ParseRequest(q, supplied[q])
  /\ wire' = [wire EXCEPT ![q] = supplied[q]] /\ onWire' = Append(onWire, q)
  /\ flagged' = IF by[q] = "us" THEN flagged \cup {q} ELSE flagged
  /\ UNCHANGED <<leg, requestVars, clientVars, building, hookVars, recvEv, toClient,
                 answered, decoded, marks>>
RelayClient ==
  /\ leg = "mitm" /\ sentEv # <<>>
  /\ Relay(Head(sentEv)) /\ sentEv' = Tail(sentEv) /\ UNCHANGED packetRx
RelayInjected ==
  /\ leg = "mitm" /\ packetRx # <<>>
  /\ Relay(Head(packetRx)) /\ packetRx' = Tail(packetRx) /\ UNCHANGED sentEv

(* The server answers a request, in any order.                               *)
ServerAnswer(q) ==
  /\ q \in {onWire[k] : k \in DOMAIN onWire} \ answered
  /\ answered' = answered \cup {q}
  /\ recvEv' = Append(recvEv, q)
  /\ toClient' = IF leg = "page" THEN Append(toClient, q) ELSE toClient
  /\ UNCHANGED <<leg, requestVars, clientVars, building, hookVars, wireVars, packetRx,
                 bridgeVars, markVars>>

(* parse_response, by on_recv or by the downlink relay.                      *)
OnRecv ==
  LET q == Head(recvEv) IN
  /\ recvEv # <<>> /\ recvEv' = Tail(recvEv)
  /\ decoded' = [decoded EXCEPT ![q] = pending[wire[q]]]
  /\ pending' = [pending EXCEPT ![wire[q]] = None]
  /\ toClient' = IF leg = "mitm" THEN Append(toClient, q) ELSE toClient
  /\ UNCHANGED <<leg, requestVars, clientVars, building, hookVars, wireVars, packetRx,
                 answered, bridgeNext, markVars>>

(* Mutant of TranslatedId: the client sees the id of the wire.               *)
UntranslatedId(q) == wire[q]
(* The hook's message listener puts the supplied id back.                    *)
TranslatedId(q) ==
  IF leg = "page" /\ pendingByWireId[wire[q]] # None
    THEN pendingByWireId[wire[q]] ELSE wire[q]

(* The client takes a response by its id; one it does not wait for is        *)
(* ignored.                                                                  *)
Deliver ==
  LET q == Head(toClient)
      id == TranslatedId(q)
  IN  /\ toClient # <<>> /\ toClient' = Tail(toClient)
      /\ pendingByWireId' = IF leg = "page" THEN [pendingByWireId EXCEPT ![wire[q]] = None]
                            ELSE pendingByWireId
      /\ IF waiting[id] = None THEN UNCHANGED <<waiting, took>>
         ELSE /\ took' = [took EXCEPT ![waiting[id]] = q]
              /\ waiting' = [waiting EXCEPT ![id] = None]
      /\ UNCHANGED <<leg, requestVars, nextClient, building, queue, nextMsgId, called,
                     wireVars, packetRx, recvEv, answered, bridgeVars, markVars>>

Next ==
  \/ \E blob \in BOOLEAN, what \in Contents : ClientCall(blob, what)
  \/ \E what \in Contents : Build(what)
  \/ Dispatch \/ DispatchFails \/ RunQueued
  \/ OnSent \/ RelayClient \/ RelayInjected
  \/ \E q \in Requests : ServerAnswer(q)
  \/ OnRecv \/ Deliver

Spec == Init /\ [][Next]_vars

(* ---- properties ---- *)

(* Types: the ids in use are ids of the wire, 0 and what is beyond the last  *)
(* one never are.                                                            *)
TypeOK ==
  /\ leg \in {"page", "mitm"} /\ made \in 0..MaxRequests
  /\ by \in [Requests -> {"client", "us"}] /\ content \in [Requests -> Contents]
  /\ supplied \in [Requests -> Ids \cup {None}] /\ wire \in [Requests -> Ids \cup {None}]
  /\ nextClient \in Ids /\ bridgeNext \in Ids /\ nextMsgId \in Ids \cup {None}
  /\ waiting \in [Ids -> Requests \cup {None}] /\ pending \in [Ids -> Requests \cup {None}]
  /\ pendingByWireId \in [Ids -> Ids \cup {None}]
  /\ building \in Requests \cup {None}
  /\ {queue, onWire, called, packetRx, sentEv, recvEv, toClient} \subseteq Seq(Requests)
  /\ marks \in Seq(Ids \X Contents)
  /\ answered \subseteq Requests /\ flagged \subseteq Requests
  /\ {took, decoded} \subseteq [Requests -> 0..Unanswered]

(* On the page leg the wire carries the requests in the order of the calls,  *)
(* whoever called and however long a Blob takes to read, under ids that      *)
(* follow one another.                                                       *)
OneSequence ==
  leg = "page" =>
    /\ onWire = SubSeq(called, 1, Len(onWire))
    /\ \A k \in 2..Len(onWire) : wire[onWire[k]] = Successor(wire[onWire[k - 1]])

(* A response the client takes for a request of its own answers that         *)
(* request, or one of ours that was built with the id the client had given   *)
(* its own: the hook keeps the two apart on the wire and not in the page.    *)
TakesOwnOrTwin ==
  \A q \in Requests :
    took[q] \notin {q, Unanswered} =>
      by[took[q]] = "us" /\ supplied[took[q]] = supplied[q]

(* While fewer requests are open than there are ids, the bridge decodes a    *)
(* response of the page leg as the answer to its own request or, when it     *)
(* handles the response first, not at all.                                   *)
NeverAnothersMethod ==
  (leg = "page" /\ MaxRequests < MaxId) =>
    \A q \in Requests : decoded[q] \in {q, None, Unanswered}

(* A frame of ours that nothing overtook between its building and its        *)
(* numbering by the hook is shown as injected once the bridge has seen it.   *)
OursIsFlagged ==
  \A k \in DOMAIN onWire :
    LET q == onWire[k] IN
    (by[q] = "us" /\ wire[q] = supplied[q] /\ sentEv = <<>>) => q \in flagged

(* Two senders under one sequence of ids are kept apart by the client, the   *)
(* bridge and the inspector alike.                                           *)
SendersAreToldApart == TakesOwnOrTwin /\ NeverAnothersMethod /\ OursIsFlagged
=============================================================================
