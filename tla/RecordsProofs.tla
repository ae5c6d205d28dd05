---------------------------- MODULE RecordsProofs ----------------------------
(* What Akagi writes down of what passes by: requests and their answers on a  *)
(* Majsoul socket (RequestIds) and in the recording proxy (HttpPairing), what *)
(* the recorder makes of the games it hears (HistoryRecorder), and what       *)
(* becomes of a recorded game on disk (HistoryStore), for any number of       *)
(* requests, connections, games and workers.                                  *)
EXTENDS RequestIds, HttpPairing, HistoryRecorder, HistoryStore, FiniteSetTheorems,
        SequenceTheorems, WellFoundedInduction, Functions, TLAPS

(* ------------------------------ HttpPairing ------------------------------- *)

(* What makes the two properties inductive: an address that speaks HTTP/2    *)
(* is muddled, and a wrong record needs a muddled address.                   *)
VersionsKnown == \A c \in Addresses : version[c] = "h2" => c \in muddled
HInv == HttpTypeOK /\ QueueIsInFlight /\ VersionsKnown /\ AnsweredUnderOwn

(* In HTTP/1 an answer claims the one entry there is, which is its own.      *)
LEMMA OwnEntry ==
  ASSUME HInv, NEW c \in Addresses \ muddled, NEW r \in Exchanges, r \in upstream[c]
  PROVE  /\ inflight[c] = <<r>> /\ Claimed(c, FALSE) = r
         /\ upstream[c] \ {r} = {}
  <1>1. inflight[c] = <<r>>
    BY DEF HInv, QueueIsInFlight
  <1>2. \A q \in upstream[c] : q = r
    BY <1>1 DEF HInv, HttpTypeOK, QueueIsInFlight
  <1>3. Claimed(c, FALSE) = r
    BY <1>1 DEF Claimed
  <1> QED  BY <1>1, <1>2, <1>3

(* A claim keeps the types and empties the queue of an address in order.     *)
LEMMA ClaimKeeps ==
  ASSUME HInv, NEW c \in Addresses, NEW r \in Exchanges, NEW multiplexed \in BOOLEAN,
         Claim(c, r, multiplexed),
         muddled' = muddled \/ muddled' = muddled \cup {c},
         multiplexed => c \in muddled'
  PROVE  HInv'
  <1>1. Claimed(c, multiplexed) \in Exchanges \cup {Unattributed}
    BY DEF HInv, HttpTypeOK, Claimed
  <1>2. inflight' \in [Addresses -> Seq(Exchanges)]
    <2>1. inflight[c] \in Seq(Exchanges)
      BY DEF HInv, HttpTypeOK
    <2>2. CASE Claimed(c, multiplexed) = Unattributed
      BY <2>2 DEF HInv, HttpTypeOK, Claim
    <2>3. CASE Claimed(c, multiplexed) # Unattributed
      <3>1. inflight[c] # <<>>
        BY <2>3 DEF Claimed
      <3>2. Tail(inflight[c]) \in Seq(Exchanges)
        BY <2>1, <3>1
      <3> QED  BY <2>3, <3>2 DEF HInv, HttpTypeOK, Claim
    <2> QED  BY <2>2, <2>3
  <1>3. HttpTypeOK'
    BY <1>1, <1>2 DEF HInv, HttpTypeOK, Claim
  <1>4. VersionsKnown'
    BY DEF HInv, VersionsKnown, Claim
  <1>5. CASE c \in muddled'
    <2>1. QueueIsInFlight'
      BY <1>5 DEF HInv, HttpTypeOK, QueueIsInFlight, Claim
    <2>2. AnsweredUnderOwn'
      BY <1>5 DEF AnsweredUnderOwn
    <2> QED  BY <1>3, <1>4, <2>1, <2>2 DEF HInv
  <1>6. CASE c \notin muddled'
    <2>1. c \in Addresses \ muddled /\ muddled' = muddled /\ multiplexed = FALSE
      BY <1>6
    <2>2. inflight[c] = <<r>> /\ Claimed(c, FALSE) = r /\ upstream[c] \ {r} = {}
      BY <2>1, OwnEntry DEF Claim
    <2>3. upstream'[c] = {} /\ inflight'[c] = <<>>
      <3>1. Tail(inflight[c]) = <<>>
        BY <2>2
      <3>2. r # Unattributed
        BY DEF Exchanges, Unattributed
      <3> QED  BY <2>1, <2>2, <3>1, <3>2 DEF HInv, HttpTypeOK, Claim
    <2>4. QueueIsInFlight'
      BY <2>1, <2>3 DEF HInv, HttpTypeOK, QueueIsInFlight, Claim
    <2>5. AnsweredUnderOwn'
      BY <2>1, <2>2 DEF HInv, HttpTypeOK, AnsweredUnderOwn, Claim
    <2> QED  BY <1>3, <1>4, <2>4, <2>5 DEF HInv
  <1> QED  BY <1>5, <1>6

(* The initial states have the invariant.                                    *)
LEMMA InitHInv == HttpInit => HInv
  BY ExchangesAssumption DEF HttpInit, HInv, HttpTypeOK, QueueIsInFlight, VersionsKnown,
     AnsweredUnderOwn, Exchanges

(* Every step keeps it.                                                      *)
LEMMA NextHInv == HInv /\ [HttpNext]_httpVars => HInv'
  <1> SUFFICES ASSUME HInv, [HttpNext]_httpVars  PROVE HInv'
    OBVIOUS
  <1>1. CASE UNCHANGED httpVars
    BY <1>1 DEF httpVars, HInv, HttpTypeOK, QueueIsInFlight, VersionsKnown, AnsweredUnderOwn
  <1>2. ASSUME NEW c \in Addresses, NEW v \in Versions, Connect(c, v)  PROVE HInv'
    BY <1>2 DEF Connect, HInv, HttpTypeOK, QueueIsInFlight, VersionsKnown, AnsweredUnderOwn
  <1>3. ASSUME NEW c \in Addresses, Disconnect(c)  PROVE HInv'
    <2>1. HttpTypeOK' /\ VersionsKnown' /\ AnsweredUnderOwn'
      BY <1>3 DEF Disconnect, HInv, HttpTypeOK, VersionsKnown, AnsweredUnderOwn
    <2>2. QueueIsInFlight'
      BY <1>3 DEF Disconnect, HInv, HttpTypeOK, QueueIsInFlight
    <2> QED  BY <2>1, <2>2 DEF HInv
  <1>4. ASSUME NEW c \in Addresses, NEW kind \in ExchangeKinds, HandleRequest(c, kind)  PROVE HInv'
    <2> DEFINE id == asked + 1
               goes == kind = "plain"
    <2>1. id \in Exchanges /\ asked' \in 0..MaxExchanges
      BY <1>4, ExchangesAssumption DEF HandleRequest, HInv, HttpTypeOK, Exchanges
    <2>2. /\ inflight' = IF goes THEN [inflight EXCEPT ![c] = Append(@, id)] ELSE inflight
          /\ upstream' = IF goes THEN [upstream EXCEPT ![c] = @ \cup {id}] ELSE upstream
      BY <1>4 DEF HandleRequest, Forwarded, will_be_answered_by_handle_response, ExchangeKinds
    <2>3. HttpTypeOK'
      <3>1. Append(inflight[c], id) \in Seq(Exchanges)
        BY <2>1 DEF HInv, HttpTypeOK
      <3> QED  BY <1>4, <2>1, <2>2, <3>1 DEF HandleRequest, HInv, HttpTypeOK
    <2>4. VersionsKnown' /\ AnsweredUnderOwn'
      BY <1>4 DEF HandleRequest, HInv, VersionsKnown, AnsweredUnderOwn
    <2>5. QueueIsInFlight'
      <3>1. CASE c \in muddled \/ ~goes
        BY <1>4, <2>2, <3>1 DEF HandleRequest, HInv, HttpTypeOK, QueueIsInFlight
      <3>2. CASE c \notin muddled /\ goes
        <4>1. upstream[c] = {} /\ inflight[c] = <<>>
          BY <1>4, <3>2 DEF HandleRequest, HInv, HttpTypeOK, VersionsKnown, QueueIsInFlight,
             Versions
        <4>2. upstream'[c] = {id} /\ inflight'[c] = <<id>>
          BY <2>2, <3>2, <4>1 DEF HInv, HttpTypeOK
        <4> QED  BY <1>4, <2>2, <3>2, <4>2 DEF HandleRequest, HInv, HttpTypeOK, QueueIsInFlight
      <3> QED  BY <3>1, <3>2
    <2> QED  BY <2>3, <2>4, <2>5 DEF HInv
  <1>5. ASSUME NEW c \in Addresses, NEW r \in Exchanges, HandleError(c, r)  PROVE HInv'
    BY <1>5, ClaimKeeps DEF HandleError
  <1>6. ASSUME NEW c \in Addresses, NEW r \in Exchanges, NEW v \in Versions,
               HandleResponse(c, r, v)
        PROVE  HInv'
    BY <1>6, ClaimKeeps DEF HandleResponse
  <1> QED  BY <1>1, <1>2, <1>3, <1>4, <1>5, <1>6 DEF HttpNext

(* The invariant holds in every reachable state.                             *)
LEMMA Invariant == HttpSpec => []HInv
  <1> QED  BY InitHInv, NextHInv, PTL DEF HttpSpec

(* An HTTP/1 address's queue is the request in flight, whatever requests it  *)
(* interleaves with CONNECTs, upgrades, blocked beacons and failures.        *)
THEOREM PairingSafety == HttpSpec => []QueueIsInFlight
  <1>1. HInv => QueueIsInFlight
    BY DEF HInv
  <1> QED  BY Invariant, <1>1, PTL

(* On HTTP/1 every answer is recorded under its own request.                 *)
THEOREM AttributionSafety == HttpSpec => []AnsweredUnderOwn
  <1>1. HInv => AnsweredUnderOwn
    BY DEF HInv
  <1> QED  BY Invariant, <1>1, PTL

(* ------------------------------- RequestIds ------------------------------- *)

(* The types the argument needs; that an id is one of the wire is not.       *)
Typed ==
  /\ leg \in {"page", "mitm"} /\ made \in 0..MaxRequests /\ building \in 0..made
  /\ supplied \in [Requests -> Nat] /\ wire \in [Requests -> Nat]
  /\ nextClient \in Nat /\ bridgeNext \in Nat /\ nextMsgId \in Nat
  /\ queue \in Seq(Requests) /\ onWire \in Seq(Requests) /\ called \in Seq(Requests)
  /\ sentEv \in Seq(Requests) /\ packetRx \in Seq(Requests)

(* A request is called once, and not while it is being built.                *)
CalledOnce ==
  /\ \A k \in 1..Len(called) : called[k] <= made /\ called[k] # building
  /\ \A j, k \in 1..Len(called) : called[j] = called[k] => j = k

(* What is called is on the wire or waits in the queue, and the next id is   *)
(* the one after the last of the wire.                                       *)
Chained ==
  leg = "page" =>
    /\ called = onWire \o queue
    /\ onWire = <<>> <=> nextMsgId = None
    /\ onWire # <<>> => nextMsgId = Successor(wire[onWire[Len(onWire)]])
    /\ \A k \in 2..Len(onWire) : wire[onWire[k]] = Successor(wire[onWire[k - 1]])

WInv == Typed /\ CalledOnce /\ Chained

(* No id has 0 for its successor.                                            *)
LEMMA SuccessorIsId == \A id \in Nat : Successor(id) \in Nat \ {0}
  BY IdsAssumption DEF Successor

(* Moving the head of a queue to the end of what precedes it.                *)
LEMMA MoveHead ==
  ASSUME NEW S, NEW s \in Seq(S), NEW t \in Seq(S), t # <<>>
  PROVE  Append(s, Head(t)) \o Tail(t) = s \o t
  <1>1. /\ Head(t) \in S /\ Tail(t) \in Seq(S) /\ Len(Tail(t)) = Len(t) - 1
        /\ \A k \in 1..Len(t) - 1 : Tail(t)[k] = t[k + 1]
    OBVIOUS
  <1> DEFINE a == Append(s, Head(t)) \o Tail(t)
             b == s \o t
  <1>2. a \in Seq(S) /\ b \in Seq(S) /\ Len(a) = Len(b)
    BY <1>1
  <1>3. \A k \in 1..Len(a) : a[k] = b[k]
    BY <1>1
  <1> QED  BY <1>2, <1>3

(* Appending to the second of two sequences.                                 *)
LEMMA AppendConcat ==
  ASSUME NEW s \in Seq(Requests), NEW t \in Seq(Requests), NEW e \in Requests
  PROVE  Append(s \o t, e) = s \o Append(t, e)
  <1> DEFINE a == Append(s \o t, e)
             b == s \o Append(t, e)
  <1>1. a \in Seq(Requests) /\ b \in Seq(Requests) /\ Len(a) = Len(b)
    OBVIOUS
  <1>2. \A k \in 1..Len(a) : a[k] = b[k]
    OBVIOUS
  <1> QED  BY <1>1, <1>2

(* The elements of a sequence of requests are requests.                      *)
LEMMA Elements ==
  ASSUME NEW s \in Seq(Requests)
  PROVE  Len(s) \in Nat /\ \A k \in 1..Len(s) : s[k] \in Nat \ {0}
  <1>1. \A k \in 1..Len(s) : s[k] \in Requests
    OBVIOUS
  <1> QED  BY <1>1 DEF Requests

(* A new call keeps the calls apart.                                         *)
LEMMA CallApart ==
  ASSUME Typed, CalledOnce, Typed', NEW q \in Requests, called' = Append(called, q),
         \A k \in 1..Len(called) : called[k] # q /\ called[k] # building',
         q # building', q <= made', made <= made'
  PROVE  CalledOnce'
  <1>1. /\ Len(called') = Len(called) + 1 /\ called'[Len(called) + 1] = q
        /\ Len(called) \in Nat
        /\ \A k \in 1..Len(called) : called'[k] = called[k] /\ called[k] \in Nat
    <2>1. called \in Seq(Requests)
      BY DEF Typed
    <2> QED  BY <2>1, Elements
  <1>2. made \in Nat /\ made' \in Nat
    BY IdsAssumption DEF Typed
  <1>3. \A k \in 1..Len(called') : called'[k] <= made' /\ called'[k] # building'
    BY <1>1, <1>2 DEF CalledOnce
  <1>4. \A j, k \in 1..Len(called') : called'[j] = called'[k] => j = k
    BY <1>1 DEF CalledOnce
  <1> QED  BY <1>3, <1>4 DEF CalledOnce

(* A request that goes on the wire after all others lengthens the chain.     *)
LEMMA PutChains ==
  ASSUME WInv, leg = "page", NEW q \in Requests, NEW id \in Nat, PutOnWire(q, id),
         \A k \in 1..Len(onWire) : onWire[k] # q
  PROVE  /\ onWire' \in Seq(Requests) /\ sentEv' \in Seq(Requests)
         /\ wire' \in [Requests -> Nat] /\ nextMsgId' \in Nat
         /\ onWire' # <<>> /\ nextMsgId' # None
         /\ nextMsgId' = Successor(wire'[onWire'[Len(onWire')]])
         /\ \A k \in 2..Len(onWire') : wire'[onWire'[k]] = Successor(wire'[onWire'[k - 1]])
  <1>1. WireId(id) \in Nat
    BY DEF WireId, WInv, Typed
  <1>2. /\ onWire' = Append(onWire, q) /\ sentEv' = Append(sentEv, q)
        /\ wire' = [wire EXCEPT ![q] = WireId(id)] /\ nextMsgId' = Successor(WireId(id))
    BY DEF PutOnWire
  <1>3. /\ onWire' \in Seq(Requests) /\ sentEv' \in Seq(Requests)
        /\ wire' \in [Requests -> Nat] /\ nextMsgId' \in Nat /\ nextMsgId' # None
    <2>1. onWire' \in Seq(Requests) /\ sentEv' \in Seq(Requests)
      BY <1>2 DEF WInv, Typed
    <2>2. wire' \in [Requests -> Nat]
      BY <1>1, <1>2 DEF WInv, Typed
    <2>3. nextMsgId' \in Nat /\ nextMsgId' # None
      BY <1>1, <1>2, SuccessorIsId DEF None
    <2> QED  BY <2>1, <2>2, <2>3
  <1>4. /\ Len(onWire') = Len(onWire) + 1 /\ onWire'[Len(onWire) + 1] = q
        /\ Len(onWire) \in Nat
        /\ \A k \in 1..Len(onWire) : onWire'[k] = onWire[k] /\ onWire[k] \in Requests
    BY <1>2 DEF WInv, Typed
  <1>5. wire'[q] = WireId(id) /\ \A k \in 1..Len(onWire) : wire'[onWire[k]] = wire[onWire[k]]
    BY <1>2, <1>4 DEF WInv, Typed
  <1>6. ASSUME NEW k \in 2..Len(onWire')
        PROVE  wire'[onWire'[k]] = Successor(wire'[onWire'[k - 1]])
    <2>1. CASE k <= Len(onWire)
      <3>1. k \in 2..Len(onWire) /\ k \in 1..Len(onWire) /\ k - 1 \in 1..Len(onWire)
        BY <2>1 DEF WInv, Typed
      <3>2. wire[onWire[k]] = Successor(wire[onWire[k - 1]])
        BY <3>1 DEF WInv, Chained
      <3> QED  BY <1>4, <1>5, <3>1, <3>2
    <2>2. CASE k = Len(onWire) + 1
      <3>1. onWire # <<>> /\ k - 1 = Len(onWire)
        BY <1>4, <2>2 DEF WInv, Typed
      <3>2. WireId(id) = Successor(wire[onWire[Len(onWire)]])
        BY <3>1 DEF WInv, Chained, WireId
      <3>3. Len(onWire) \in 1..Len(onWire)
        BY <3>1 DEF WInv, Typed
      <3> QED  BY <1>4, <1>5, <2>2, <3>1, <3>2, <3>3
    <2>3. k \in Nat /\ k <= Len(onWire) + 1
      BY <1>4
    <2> QED  BY <1>4, <2>1, <2>2, <2>3
  <1>7. onWire' # <<>>
    BY <1>3, <1>4 DEF WInv, Typed
  <1> QED  BY <1>2, <1>3, <1>4, <1>5, <1>6, <1>7 DEF WInv, Typed

(* A call of send by a request that was not called yet.                      *)
LEMMA SendChains ==
  ASSUME WInv, leg = "page", NEW q \in Requests, NEW id \in Nat, NEW blob \in BOOLEAN,
         HookSend(q, id, blob), \A k \in 1..Len(called) : called[k] # q, UNCHANGED leg
  PROVE  /\ called' = Append(called, q)
         /\ queue' \in Seq(Requests) /\ onWire' \in Seq(Requests) /\ sentEv' \in Seq(Requests)
         /\ called' \in Seq(Requests) /\ wire' \in [Requests -> Nat] /\ nextMsgId' \in Nat
         /\ Chained'
  <1>1. called' = Append(called, q) /\ called' \in Seq(Requests)
    BY DEF HookSend, WInv, Typed
  <1>2. CASE SendAtOnce(blob)
    <2>1. PutOnWire(q, id) /\ queue' = queue /\ queue = <<>>
      BY <1>2 DEF HookSend, SendAtOnce
    <2>2. called = onWire
      BY <2>1 DEF WInv, Typed, Chained
    <2>3. \A k \in 1..Len(onWire) : onWire[k] # q
      BY <2>2
    <2>4. onWire' = Append(onWire, q)
      BY <2>1 DEF PutOnWire
    <2>5. called' = onWire' \o queue'
      BY <1>1, <2>1, <2>2, <2>4 DEF WInv, Typed
    <2> QED  BY <1>1, <2>1, <2>3, <2>5, PutChains DEF Chained, WInv, Typed
  <1>3. CASE ~SendAtOnce(blob)
    <2>1. queue' = Append(queue, q) /\ UNCHANGED <<nextMsgId, wire, onWire, sentEv>>
      BY <1>3 DEF HookSend, wireVars
    <2>2. called' = onWire' \o queue'
      <3>1. called = onWire \o queue
        BY DEF WInv, Chained
      <3>2. Append(onWire \o queue, q) = onWire \o Append(queue, q)
        <4>1. onWire \in Seq(Requests) /\ queue \in Seq(Requests)
          BY DEF WInv, Typed
        <4> QED  BY <4>1, AppendConcat
      <3> QED  BY <1>1, <2>1, <3>1, <3>2
    <2> QED  BY <1>1, <2>1, <2>2 DEF WInv, Typed, Chained
  <1> QED  BY <1>2, <1>3

(* The initial states have the invariant.                                    *)
LEMMA InitWInv == Init => WInv
  BY IdsAssumption DEF Init, WInv, Typed, CalledOnce, Chained, Ids, Requests, None

(* Every step keeps it.                                                      *)
LEMMA NextWInv == WInv /\ [Next]_vars => WInv'
  <1> SUFFICES ASSUME WInv, [Next]_vars  PROVE WInv'
    OBVIOUS
  <1> USE DEF requestVars, clientVars, hookVars, bridgeVars, wireVars, markVars
  <1>1. CASE UNCHANGED vars
    BY <1>1 DEF vars, WInv, Typed, CalledOnce, Chained
  <1>2. ASSUME NEW blob \in BOOLEAN, NEW what \in Contents, ClientCall(blob, what)
        PROVE  WInv'
    <2>1. /\ made' = made + 1 /\ made' \in Requests /\ building' = building
          /\ supplied' = [supplied EXCEPT ![made'] = nextClient]
          /\ nextClient' = Successor(nextClient) /\ UNCHANGED <<leg, bridgeNext, packetRx>>
      BY <1>2, IdsAssumption DEF ClientCall, NewRequest, WInv, Typed, Requests
    <2>2. \A k \in 1..Len(called) : called[k] # made'
      BY <2>1 DEF WInv, Typed, CalledOnce, Requests
    <2>3. supplied' \in [Requests -> Nat] /\ nextClient' \in Nat
      BY <2>1, SuccessorIsId DEF WInv, Typed
    <2>4. CASE leg = "page"
      <3>1. HookSend(made', nextClient, blob)
        BY <1>2, <2>4 DEF ClientCall
      <3>2. /\ called' = Append(called, made') /\ Chained'
            /\ queue' \in Seq(Requests) /\ onWire' \in Seq(Requests)
            /\ sentEv' \in Seq(Requests) /\ called' \in Seq(Requests)
            /\ wire' \in [Requests -> Nat] /\ nextMsgId' \in Nat
        BY <2>1, <2>2, <2>4, <3>1, SendChains DEF WInv, Typed
      <3>3. Typed'
        BY <2>1, <2>3, <3>2 DEF WInv, Typed, Requests
      <3>4. CalledOnce'
        <4>1. made \in Nat /\ building \in 0..made
          BY IdsAssumption DEF WInv, Typed
        <4>2. building' # made' /\ made' <= made' /\ made <= made'
          BY <2>1, <4>1
        <4>3. \A k \in 1..Len(called) : called[k] # building'
          BY <2>1 DEF WInv, CalledOnce
        <4> QED  BY <2>1, <2>2, <3>2, <3>3, <4>2, <4>3, CallApart DEF WInv
      <3> QED  BY <3>2, <3>3, <3>4 DEF WInv
    <2>5. CASE leg = "mitm"
      <3>1. sentEv' = Append(sentEv, made') /\ UNCHANGED <<hookVars, wire, onWire>>
        BY <1>2, <2>5 DEF ClientCall
      <3>2. Typed'
        BY <2>1, <2>3, <3>1 DEF WInv, Typed, Requests
      <3>3. CalledOnce'
        <4>1. made \in Nat /\ \A k \in 1..Len(called) : called[k] \in Nat
          BY IdsAssumption, Elements DEF WInv, Typed
        <4> QED  BY <2>1, <3>1, <4>1 DEF WInv, CalledOnce
      <3> QED  BY <2>1, <2>5, <3>2, <3>3 DEF WInv, Chained
    <2> QED  BY <2>4, <2>5 DEF WInv, Typed
  <1>3. ASSUME NEW what \in Contents, Build(what)  PROVE WInv'
    <2>1. /\ made' = made + 1 /\ made' \in Requests /\ building' = made'
          /\ supplied' = [supplied EXCEPT ![made'] = bridgeNext]
          /\ bridgeNext' = Successor(bridgeNext)
          /\ UNCHANGED <<leg, nextClient, hookVars, wireVars, packetRx>>
      BY <1>3, IdsAssumption DEF Build, NewRequest, WInv, Typed, Requests
    <2>2. Typed'
      <3>1. supplied' \in [Requests -> Nat] /\ bridgeNext' \in Nat
        BY <2>1, SuccessorIsId DEF WInv, Typed
      <3>2. made' \in 0..MaxRequests /\ building' \in 0..made'
        BY <2>1, IdsAssumption DEF Requests
      <3> QED  BY <2>1, <3>1, <3>2 DEF WInv, Typed
    <2>3. CalledOnce'
      <3>1. made \in Nat /\ \A k \in 1..Len(called) : called[k] \in Nat /\ called[k] <= made
        BY IdsAssumption, Elements DEF WInv, Typed, CalledOnce
      <3> QED  BY <2>1, <3>1 DEF WInv, CalledOnce
    <2> QED  BY <2>1, <2>2, <2>3 DEF WInv, Chained
  <1>4. CASE Dispatch
    <2>1. building \in Requests /\ building' = 0 /\ building <= made /\ made \in Nat
      <3>1. building # 0 /\ building' = 0
        BY <1>4 DEF Dispatch, None
      <3> QED  BY <3>1, IdsAssumption DEF WInv, Typed, Requests
    <2>2. UNCHANGED <<leg, made, supplied, nextClient, bridgeNext>>
      BY <1>4 DEF Dispatch
    <2>3. \A k \in 1..Len(called) : called[k] # building
      BY DEF WInv, CalledOnce
    <2>4. CASE leg = "page"
      <3>1. HookSend(building, supplied[building], FALSE) /\ UNCHANGED packetRx
        BY <1>4, <2>4 DEF Dispatch
      <3>2. supplied[building] \in Nat
        BY <2>1 DEF WInv, Typed
      <3>3. /\ called' = Append(called, building) /\ Chained'
            /\ queue' \in Seq(Requests) /\ onWire' \in Seq(Requests)
            /\ sentEv' \in Seq(Requests) /\ called' \in Seq(Requests)
            /\ wire' \in [Requests -> Nat] /\ nextMsgId' \in Nat
        BY <2>1, <2>2, <2>3, <2>4, <3>1, <3>2, SendChains
      <3>4. Typed'
        BY <2>1, <2>2, <3>1, <3>3 DEF WInv, Typed
      <3>5. CalledOnce'
        <4>1. \A k \in 1..Len(called) : called[k] # building'
          BY <2>1, Elements DEF WInv, Typed
        <4>2. building # building' /\ building <= made' /\ made <= made'
          BY <2>1, <2>2 DEF Requests
        <4> QED  BY <2>1, <2>3, <3>3, <3>4, <4>1, <4>2, CallApart DEF WInv
      <3> QED  BY <3>3, <3>4, <3>5 DEF WInv
    <2>5. CASE leg = "mitm"
      <3>1. packetRx' = Append(packetRx, building) /\ UNCHANGED <<hookVars, wireVars>>
        BY <1>4, <2>5 DEF Dispatch
      <3>2. \A k \in 1..Len(called) : called[k] # 0
        BY Elements DEF WInv, Typed
      <3> QED  BY <2>1, <2>2, <2>5, <3>1, <3>2 DEF WInv, Typed, CalledOnce, Chained
    <2> QED  BY <2>4, <2>5 DEF WInv, Typed
  <1>5. CASE DispatchFails
    <2>1. \A k \in 1..Len(called) : called[k] # 0
      BY Elements DEF WInv, Typed
    <2> QED  BY <1>5, <2>1 DEF DispatchFails, None, WInv, Typed, CalledOnce, Chained
  <1>6. CASE RunQueued
    <2> DEFINE q == Head(queue)
    <2>1. /\ queue # <<>> /\ PutOnWire(q, supplied[q]) /\ queue' = Tail(queue)
          /\ UNCHANGED <<leg, made, supplied, nextClient, building, called, packetRx, bridgeNext>>
      BY <1>6 DEF RunQueued
    <2>2. q \in Requests /\ supplied[q] \in Nat /\ queue' \in Seq(Requests)
      BY <2>1 DEF WInv, Typed
    <2>3. CASE leg = "page"
      <3>1. called = onWire \o queue
        BY <2>3 DEF WInv, Chained
      <3>2. \A k \in 1..Len(onWire) : onWire[k] # q
        <4>1. /\ Len(onWire) + 1 \in 1..Len(called) /\ called[Len(onWire) + 1] = q
              /\ \A k \in 1..Len(onWire) : k \in 1..Len(called) /\ called[k] = onWire[k]
          BY <2>1, <3>1 DEF WInv, Typed
        <4>2. \A k \in 1..Len(onWire) : called[k] = called[Len(onWire) + 1] => k = Len(onWire) + 1
          BY <4>1 DEF WInv, CalledOnce
        <4>3. Len(onWire) \in Nat
          BY DEF WInv, Typed
        <4> QED  BY <4>1, <4>2, <4>3
      <3>3. /\ onWire' \in Seq(Requests) /\ sentEv' \in Seq(Requests)
            /\ wire' \in [Requests -> Nat] /\ nextMsgId' \in Nat
            /\ onWire' # <<>> /\ nextMsgId' # None
            /\ nextMsgId' = Successor(wire'[onWire'[Len(onWire')]])
            /\ \A k \in 2..Len(onWire') : wire'[onWire'[k]] = Successor(wire'[onWire'[k - 1]])
        BY <2>1, <2>2, <2>3, <3>2, PutChains
      <3>4. called' = onWire' \o queue'
        <4>1. onWire' = Append(onWire, q)
          BY <2>1 DEF PutOnWire
        <4> QED  BY <2>1, <3>1, <4>1, MoveHead DEF WInv, Typed
      <3> QED  BY <2>1, <2>2, <3>3, <3>4 DEF WInv, Typed, CalledOnce, Chained
    <2>4. CASE leg = "mitm"
      <3>1. WireId(supplied[q]) \in Nat
        BY <2>2 DEF WInv, Typed, WireId
      <3>2. Typed'
        <4>1. /\ wire' = [wire EXCEPT ![q] = WireId(supplied[q])]
              /\ nextMsgId' = Successor(WireId(supplied[q]))
              /\ onWire' = Append(onWire, q) /\ sentEv' = Append(sentEv, q)
          BY <2>1 DEF PutOnWire
        <4>2. nextMsgId' \in Nat
          BY <3>1, <4>1, SuccessorIsId
        <4>3. wire' \in [Requests -> Nat]
          BY <3>1, <4>1 DEF WInv, Typed
        <4>4. onWire' \in Seq(Requests) /\ sentEv' \in Seq(Requests)
          BY <2>2, <4>1 DEF WInv, Typed
        <4> QED  BY <2>1, <2>2, <4>2, <4>3, <4>4 DEF WInv, Typed
      <3> QED  BY <2>1, <2>4, <3>2 DEF WInv, CalledOnce, Chained
    <2> QED  BY <2>3, <2>4 DEF WInv, Typed
  <1>7. CASE OnSent
    <2>1. sentEv # <<>> /\ sentEv' = Tail(sentEv) /\ bridgeNext' = Successor(wire[Head(sentEv)])
      BY <1>7 DEF OnSent, ParseRequest
    <2>2. sentEv' \in Seq(Requests) /\ bridgeNext' \in Nat
      <3>1. Head(sentEv) \in Requests /\ sentEv' \in Seq(Requests)
        BY <2>1 DEF WInv, Typed
      <3>2. wire[Head(sentEv)] \in Nat
        BY <3>1 DEF WInv, Typed
      <3> QED  BY <2>1, <3>1, <3>2, SuccessorIsId
    <2> QED  BY <1>7, <2>2 DEF OnSent, WInv, Typed, CalledOnce, Chained
  <1>8. ASSUME NEW q \in Requests, Relay(q), leg = "mitm",
               sentEv' \in Seq(Requests), packetRx' \in Seq(Requests)
        PROVE  WInv'
    <2>1. /\ supplied[q] \in Nat /\ bridgeNext' = Successor(supplied[q])
          /\ wire' = [wire EXCEPT ![q] = supplied[q]] /\ onWire' = Append(onWire, q)
          /\ UNCHANGED <<leg, made, supplied, nextClient, building, hookVars>>
      BY <1>8 DEF Relay, ParseRequest, WInv, Typed
    <2>2. Typed'
      <3>1. wire' \in [Requests -> Nat] /\ bridgeNext' \in Nat
        BY <2>1, SuccessorIsId DEF WInv, Typed
      <3>2. onWire' \in Seq(Requests)
        BY <2>1 DEF WInv, Typed
      <3> QED  BY <1>8, <2>1, <3>1, <3>2 DEF WInv, Typed, hookVars
    <2> QED  BY <1>8, <2>1, <2>2 DEF WInv, CalledOnce, Chained
  <1>9. CASE RelayClient
    <2>1. Head(sentEv) \in Requests /\ sentEv' \in Seq(Requests) /\ packetRx' = packetRx
      BY <1>9 DEF RelayClient, WInv, Typed
    <2> QED  BY <1>8, <1>9, <2>1 DEF RelayClient, WInv, Typed
  <1>10. CASE RelayInjected
    <2>1. Head(packetRx) \in Requests /\ packetRx' \in Seq(Requests) /\ sentEv' = sentEv
      BY <1>10 DEF RelayInjected, WInv, Typed
    <2> QED  BY <1>8, <1>10, <2>1 DEF RelayInjected, WInv, Typed
  <1>11. ASSUME NEW q \in Requests, ServerAnswer(q)  PROVE WInv'
    BY <1>11 DEF ServerAnswer, WInv, Typed, CalledOnce, Chained
  <1>12. CASE OnRecv
    BY <1>12 DEF OnRecv, WInv, Typed, CalledOnce, Chained
  <1>13. CASE Deliver
    BY <1>13 DEF Deliver, WInv, Typed, CalledOnce, Chained
  <1> QED  BY <1>1, <1>2, <1>3, <1>4, <1>5, <1>6, <1>7, <1>9, <1>10, <1>11, <1>12, <1>13
           DEF Next

(* The order of the calls is the order of the wire, and ids follow one       *)
(* another there, whatever the client and the autoplay manager interleave.   *)
THEOREM WireSequence == Spec => []OneSequence
  <1>1. WInv => OneSequence
    <2> SUFFICES ASSUME WInv, leg = "page"  PROVE OneSequence
      BY DEF OneSequence
    <2>1. called = onWire \o queue
      BY DEF WInv, Chained
    <2>2. onWire = SubSeq(called, 1, Len(onWire))
      <3> DEFINE s == SubSeq(called, 1, Len(onWire))
      <3>1. /\ s \in Seq(Requests) /\ Len(s) = Len(onWire)
            /\ \A k \in 1..Len(onWire) : s[k] = onWire[k]
        BY <2>1 DEF WInv, Typed
      <3>2. onWire \in Seq(Requests)
        BY DEF WInv, Typed
      <3> HIDE DEF s
      <3>3. s = onWire
        BY <3>1, <3>2
      <3> QED  BY <3>3 DEF s
    <2> QED  BY <2>2 DEF OneSequence, WInv, Chained
  <1> QED  BY InitWInv, NextWInv, <1>1, PTL DEF Spec

(* The id reached from the id first in k - 1 steps, for k up to MaxId + 1.   *)
IdAt(first, k) == IF first + k - 1 <= MaxId THEN first + k - 1 ELSE first + k - 1 - MaxId
Once(s) == \A j, k \in DOMAIN s : s[j] = s[k] => j = k

(* TypeOK, and what was made is numbered and known to have been made.        *)
MadeTypes ==
  /\ leg \in {"page", "mitm"} /\ made \in 0..MaxRequests /\ building \in 0..made
  /\ by \in [Requests -> {"client", "us"}] /\ content \in [Requests -> Contents]
  /\ supplied \in [Requests -> Ids \cup {None}] /\ wire \in [Requests -> Ids \cup {None}]
  /\ nextClient \in Ids /\ bridgeNext \in Ids /\ nextMsgId \in Ids \cup {None}
  /\ waiting \in [Ids -> Requests \cup {None}] /\ pending \in [Ids -> Requests \cup {None}]
  /\ pendingByWireId \in [Ids -> Ids \cup {None}]
  /\ queue \in Seq(Requests) /\ onWire \in Seq(Requests)
  /\ sentEv \in Seq(Requests) /\ recvEv \in Seq(Requests)
  /\ packetRx \in Seq(Requests) /\ toClient \in Seq(Requests)
  /\ marks \in Seq(Ids \X Contents) /\ answered \subseteq Requests /\ flagged \subseteq Requests
  /\ took \in [Requests -> 0..Unanswered] /\ decoded \in [Requests -> 0..Unanswered]
MadeInv ==
  /\ Range(queue) \cup Range(onWire) \cup Range(sentEv) \cup Range(packetRx) \subseteq 1..made
  /\ answered \subseteq Range(onWire) /\ Range(recvEv) \subseteq answered
  /\ Range(toClient) \subseteq answered
  /\ \A q \in 1..made : supplied[q] \in Ids
  /\ \A q \in Range(onWire) : wire[q] \in Ids

(* The page leg: a request is in one place, and seen and answered once.      *)
OncePerPlace ==
  /\ Once(queue) /\ Once(onWire) /\ Once(sentEv) /\ Once(toClient)
  /\ Range(queue) \cap Range(onWire) = {} /\ building \notin Range(queue) \cup Range(onWire)
  /\ Range(sentEv) \subseteq Range(onWire)
  /\ Len(onWire) + Len(queue) + (IF building = None THEN 0 ELSE 1) <= made

(* The page leg: the wire's ids follow one another from the first.           *)
WireFollows ==
  /\ onWire = <<>> <=> nextMsgId = None
  /\ onWire # <<>> => nextMsgId = IdAt(wire[onWire[1]], Len(onWire) + 1)
  /\ \A k \in DOMAIN onWire : wire[onWire[k]] = IdAt(wire[onWire[1]], k)

(* The mitm leg renumbers nothing and flags what comes from the manager.     *)
MitmInv ==
  /\ queue = <<>>
  /\ \A q \in Range(onWire) : wire[q] = supplied[q] /\ (by[q] = "us" => q \in flagged)

(* The client's ids follow one another, so it has used each of them once.    *)
ClientFollows ==
  /\ \E first \in Ids, c \in 0..made :
       /\ nextClient = IdAt(first, c + 1)
       /\ \A q \in 1..made : by[q] = "client" => \E k \in 1..c : supplied[q] = IdAt(first, k)
  /\ \A q, r \in 1..made :
       by[q] = "client" /\ by[r] = "client" /\ supplied[q] = supplied[r] => q = r

(* What the client waits for it asked for, and what it took is its own       *)
(* answer or a twin's.                                                       *)
WaitsInv ==
  /\ \A i \in Ids : waiting[i] # None =>
       waiting[i] \in 1..made /\ by[waiting[i]] = "client" /\ supplied[waiting[i]] = i
  /\ \A q \in Requests : took[q] # Unanswered =>
       /\ q \in 1..made /\ took[q] \in 1..made /\ supplied[took[q]] = supplied[q]
       /\ took[q] = q \/ by[took[q]] = "us"

(* The page leg: the hook knows the id of every request that is answered     *)
(* later, the bridge the request of every id that is pending.                *)
Translates ==
  \A q \in Range(onWire) : q \notin answered \/ q \in Range(toClient) =>
    pendingByWireId[wire[q]] = supplied[q]
MethodsInv ==
  /\ \A i \in Ids : pending[i] # None => pending[i] \in Range(onWire) /\ wire[pending[i]] = i
  /\ \A q \in Requests : decoded[q] \in {q, None, Unanswered}

(* The page leg: the mark of a frame of ours stays until the bridge has seen *)
(* a frame under its id.                                                     *)
Marked(q) == \E k \in DOMAIN marks : marks[k] = <<supplied[q], content[q]>>
Overtaken(q) == \E r \in Range(onWire) \ (Range(sentEv) \cup {q}) : wire[r] = supplied[q]
MarksInv ==
  /\ \A q \in 1..made : by[q] = "us" => q \in flagged \/ Marked(q) \/ Overtaken(q)
  /\ \A q \in Range(onWire) \ Range(sentEv) :
       by[q] = "us" /\ wire[q] = supplied[q] => q \in flagged

ToldInv ==
  /\ MadeTypes /\ MadeInv /\ ClientFollows /\ WaitsInv
  /\ leg = "page" => OncePerPlace /\ WireFollows /\ Translates /\ MethodsInv /\ MarksInv
  /\ leg = "mitm" => MitmInv

(* As long as no id is used twice.                                           *)
Enough == MaxRequests <= MaxId

(* What is in a sequence after something was appended or its head taken.     *)
LEMMA Joined ==
  ASSUME NEW S, NEW s \in Seq(S), NEW x \in S
  PROVE  /\ Append(s, x) \in Seq(S) /\ Range(Append(s, x)) = Range(s) \cup {x}
         /\ Len(Append(s, x)) = Len(s) + 1
         /\ Once(s) /\ x \notin Range(s) => Once(Append(s, x))
<1>1. /\ Append(s, x) \in Seq(S) /\ Len(Append(s, x)) = Len(s) + 1 /\ Len(s) \in Nat
      /\ DOMAIN s = 1..Len(s) /\ DOMAIN Append(s, x) = 1..Len(s) + 1
      /\ \A k \in DOMAIN s : k \in 1..Len(s) + 1 /\ k # Len(s) + 1 /\ Append(s, x)[k] = s[k]
      /\ Append(s, x)[Len(s) + 1] = x
  OBVIOUS
<1>2. \A k \in DOMAIN Append(s, x) : k \in DOMAIN s \/ k = Len(s) + 1
  BY <1>1
<1>3. Len(s) + 1 \in DOMAIN Append(s, x)
  BY <1>1
<1>4. Range(Append(s, x)) = Range(s) \cup {x}
  BY <1>1, <1>2, <1>3 DEF Range
<1>5. Once(s) /\ x \notin Range(s) => Once(Append(s, x))
  BY <1>1, <1>2 DEF Range, Once
<1>. QED
  BY <1>1, <1>4, <1>5

LEMMA Left ==
  ASSUME NEW S, NEW s \in Seq(S), s # <<>>
  PROVE  /\ Head(s) \in S /\ Tail(s) \in Seq(S) /\ Len(Tail(s)) = Len(s) - 1
         /\ Head(s) \in Range(s) /\ Range(s) = Range(Tail(s)) \cup {Head(s)}
         /\ Once(s) => Once(Tail(s)) /\ Head(s) \notin Range(Tail(s))
<1>1. /\ Head(s) \in S /\ Tail(s) \in Seq(S) /\ Len(Tail(s)) = Len(s) - 1
      /\ Len(s) \in Nat /\ Len(s) >= 1 /\ DOMAIN s = 1..Len(s) /\ Head(s) = s[1]
      /\ DOMAIN Tail(s) = 1..Len(s) - 1 /\ \A k \in DOMAIN Tail(s) : Tail(s)[k] = s[k + 1]
  OBVIOUS
<1>2. \A k \in DOMAIN s : k = 1 \/ (k - 1 \in DOMAIN Tail(s) /\ Tail(s)[k - 1] = s[k])
  BY <1>1
<1>3. \A k \in DOMAIN Tail(s) : k + 1 \in DOMAIN s /\ k + 1 # 1
  BY <1>1
<1>4. 1 \in DOMAIN s
  BY <1>1
<1>5. Range(s) = Range(Tail(s)) \cup {Head(s)}
  <2>1. ASSUME NEW k \in DOMAIN s  PROVE s[k] = Head(s) \/ s[k] \in Range(Tail(s))
    <3>1. CASE k = 1
      BY <1>1, <3>1
    <3>2. CASE k - 1 \in DOMAIN Tail(s) /\ Tail(s)[k - 1] = s[k]
      BY <3>2 DEF Range
    <3>. QED
      BY <1>2, <3>1, <3>2
  <2>2. Head(s) \in Range(s) /\ \A x \in Range(Tail(s)) : x \in Range(s)
    BY <1>1, <1>3, <1>4 DEF Range
  <2>3. \A x \in Range(s) : \E k \in DOMAIN s : s[k] = x
    BY DEF Range
  <2>. QED
    BY <2>1, <2>2, <2>3
<1>6. ASSUME Once(s)  PROVE Once(Tail(s)) /\ Head(s) \notin Range(Tail(s))
  <2>1. ASSUME NEW j \in DOMAIN Tail(s), NEW k \in DOMAIN Tail(s), Tail(s)[j] = Tail(s)[k]
        PROVE  j = k
    <3>1. j + 1 = k + 1
      BY <1>1, <1>3, <1>6, <2>1 DEF Once
    <3>. QED
      BY <1>1, <3>1
  <2>. QED
    BY <1>1, <1>3, <1>4, <1>6, <2>1 DEF Once, Range
<1>. QED
  BY <1>1, <1>5, <1>6

(* What is in a sequence of requests is a request.                           *)
LEMMA Members ==
  ASSUME NEW S, NEW s \in Seq(S)
  PROVE  /\ Range(s) \subseteq S /\ \A x \in Range(s) : \E k \in DOMAIN s : s[k] = x
         /\ \A k \in DOMAIN s : s[k] \in Range(s)
         /\ DOMAIN s = 1..Len(s) /\ Len(s) \in Nat /\ Range(<<>>) = {}
<1>1. DOMAIN s = 1..Len(s) /\ Len(s) \in Nat /\ \A k \in DOMAIN s : s[k] \in S
  OBVIOUS
<1>2. Range(<<>>) = {}
  BY DEF Range
<1>. QED
  BY <1>1, <1>2 DEF Range

(* A set of numbers that is not empty has a least one.                       *)
LEMMA LeastOf ==
  ASSUME NEW M, M \subseteq Nat, M # {}
  PROVE  \E k \in M : \A j \in M : k <= j
<1>1. IsWellFoundedOn(OpToRel(<, Nat), Nat)
  BY NatLessThanWellFounded
<1>2. PICK k \in M : \A j \in M : ~(<<j, k>> \in OpToRel(<, Nat))
  BY <1>1, WFMin
<1>3. \A j \in M : j < k => <<j, k>> \in OpToRel(<, Nat)
  BY DEF OpToRel
<1>4. \A j \in M : ~(j < k)
  BY <1>2, <1>3
<1>. QED
  BY <1>4

(* All entries but one stay when that one is taken out.                      *)
LEMMA WithoutOne ==
  ASSUME NEW S, NEW s \in Seq(S), NEW i \in Nat, 1 <= i, i <= Len(s)
  PROVE  LET t == SubSeq(s, 1, i - 1) \o SubSeq(s, i + 1, Len(s)) IN
         /\ t \in Seq(S)
         /\ \A k \in DOMAIN s : k # i => \E j \in DOMAIN t : t[j] = s[k]
<1> DEFINE a == SubSeq(s, 1, i - 1)
           b == SubSeq(s, i + 1, Len(s))
           t == a \o b
<1>0. Len(s) \in Nat /\ DOMAIN s = 1..Len(s) /\ \A k \in 1..Len(s) : s[k] \in S
  OBVIOUS
<1>1. a \in Seq(S) /\ Len(a) = i - 1 /\ \A k \in 1..i - 1 : a[k] = s[k]
  <2>1. Len(a) = i - 1 /\ \A k \in 1..i - 1 : a[k] = s[k]
    BY <1>0
  <2>2. a \in Seq(S)
    <3>1. \A k \in 1..i - 1 : s[k] \in S
      BY <1>0
    <3>. QED
      BY <3>1
  <2>. QED
    BY <2>1, <2>2
<1>2. b \in Seq(S) /\ Len(b) = Len(s) - i /\ \A k \in 1..Len(s) - i : b[k] = s[i + k]
  <2>1. CASE i = Len(s)
    BY <1>0, <2>1
  <2>2. CASE i < Len(s)
    <3>0. i + 1 \in 1..Len(s) + 1 /\ Len(s) \in i..Len(s)
      BY <1>0, <2>2
    <3>1. b \in Seq(S)
      BY <1>0, <2>2, SubSeqProperties
    <3>2. Len(b) = Len(s) - i
      <4>1. /\ i + 1 \in Int /\ Len(s) \in Int /\ i + 1 <= Len(s)
            /\ Len(s) - (i + 1) + 1 = Len(s) - i
            /\ \A k \in i + 1..Len(s) : s[k] \in S
        BY <1>0, <2>2
      <4> DEFINE m == i + 1
                 n == Len(s)
      <4>2. m \in Int /\ n \in Int /\ m <= n /\ \A k \in m..n : s[k] \in S
        BY <4>1
      <4>3. n - m + 1 = Len(s) - i
        BY <4>1
      <4>. HIDE DEF m, n
      <4>4. Len(SubSeq(s, m, n)) = n - m + 1
        BY <4>2, SubSeqProperties
      <4>. QED
        BY <4>3, <4>4 DEF m, n
    <3>3. \A k \in 1..Len(s) - i : b[k] = s[i + k]
      <4>1. \A k \in 1..Len(s) - (i + 1) + 1 : b[k] = s[(i + 1) + k - 1]
        BY <1>0, <2>2, <3>0, SubSeqProperties
      <4>2. \A k \in 1..Len(s) - i :
              k \in 1..Len(s) - (i + 1) + 1 /\ (i + 1) + k - 1 = i + k
        BY <1>0
      <4>. QED
        BY <4>1, <4>2
    <3>. QED
      BY <3>1, <3>2, <3>3
  <2>3. \A m, n \in Nat : m <= n => m = n \/ m < n
    OBVIOUS
  <2>4. i = Len(s) \/ i < Len(s)
    BY <1>0, <2>3, Zenon
  <2>. QED
    BY <2>1, <2>2, <2>4
<1>. HIDE DEF a, b
<1>4. /\ t \in Seq(S) /\ DOMAIN t = 1..Len(a) + Len(b)
      /\ \A k \in 1..Len(a) : t[k] = a[k]
      /\ \A k \in 1..Len(b) : t[Len(a) + k] = b[k]
  <2>1. Len(a) \in Nat /\ Len(b) \in Nat
    BY <1>1, <1>2
  <2>2. /\ t \in Seq(S) /\ Len(t) = Len(a) + Len(b)
        /\ \A k \in 1..Len(a) + Len(b) : t[k] = IF k <= Len(a) THEN a[k] ELSE b[k - Len(a)]
    BY <1>1, <1>2, ConcatProperties
  <2>3. \A k \in 1..Len(a) : k \in 1..Len(a) + Len(b) /\ k <= Len(a)
    BY <2>1
  <2>4. \A k \in 1..Len(b) : /\ Len(a) + k \in 1..Len(a) + Len(b) /\ ~(Len(a) + k <= Len(a))
                             /\ (Len(a) + k) - Len(a) = k
    BY <2>1
  <2>5. DOMAIN t = 1..Len(t)
    BY <2>2
  <2>6. \A k \in 1..Len(b) : t[Len(a) + k] = b[(Len(a) + k) - Len(a)]
    BY <2>2, <2>4
  <2>. QED
    BY <2>2, <2>3, <2>4, <2>5, <2>6
<1>. HIDE DEF t
<1>r. /\ Len(a) = i - 1 /\ Len(b) = Len(s) - i /\ DOMAIN t = 1..Len(a) + Len(b)
      /\ DOMAIN s = 1..Len(s) /\ Len(s) \in Nat /\ i \in 1..Len(s)
  BY <1>0, <1>1, <1>2, <1>4
<1>5. ASSUME NEW k \in DOMAIN s, k < i
      PROVE  \E j \in DOMAIN t : t[j] = s[k]
  <2>1. k \in 1..i - 1 /\ k \in 1..Len(a) /\ k \in DOMAIN t
    BY <1>r, <1>5
  <2>. QED
    BY <1>1, <1>4, <2>1
<1>6. ASSUME NEW k \in DOMAIN s, k > i
      PROVE  \E j \in DOMAIN t : t[j] = s[k]
  <2> DEFINE m == k - i
  <2>1. m \in 1..Len(s) - i /\ m \in 1..Len(b) /\ Len(a) + m \in DOMAIN t /\ i + m = k
    BY <1>r, <1>6
  <2>. HIDE DEF m
  <2>2. t[Len(a) + m] = s[k]
    BY <1>2, <1>4, <2>1
  <2>. QED
    BY <2>1, <2>2
<1>7. \A k \in DOMAIN s : k < i \/ k = i \/ k > i
  BY <1>0
<1>. QED
  BY <1>4, <1>5, <1>6, <1>7 DEF t, a, b

(* The ids that follow one another are ids, and apart until they come round. *)
LEMMA IdsFollow ==
  ASSUME NEW first \in Ids
  PROVE  /\ IdAt(first, 1) = first
         /\ \A k \in 1..MaxId : IdAt(first, k) \in Ids
                                /\ Successor(IdAt(first, k)) = IdAt(first, k + 1)
         /\ \A j, k \in 1..MaxId : IdAt(first, j) = IdAt(first, k) => j = k
<1>. USE IdsAssumption DEF Ids, IdAt, Successor
<1>1. IdAt(first, 1) = first
  OBVIOUS
<1>2. ASSUME NEW k \in 1..MaxId
      PROVE  IdAt(first, k) \in Ids /\ Successor(IdAt(first, k)) = IdAt(first, k + 1)
  <2>1. CASE first + k - 1 < MaxId
    BY <2>1
  <2>2. CASE first + k - 1 = MaxId
    BY <2>2
  <2>3. CASE first + k - 1 > MaxId
    BY <2>3
  <2>. QED
    BY <2>1, <2>2, <2>3
<1>3. ASSUME NEW j \in 1..MaxId, NEW k \in 1..MaxId, IdAt(first, j) = IdAt(first, k)
      PROVE  j = k
  BY <1>3
<1>. QED
  BY <1>1, <1>2, <1>3

LEMMA SuccessorOfId == \A id \in Ids : Successor(id) \in Ids /\ id # None
  BY IdsAssumption DEF Ids, Successor, None

(* The page leg: no two requests share an id on the wire.                    *)
LEMMA WireApart ==
  ASSUME Enough, ToldInv, leg = "page"
  PROVE  /\ Len(onWire) <= MaxId
         /\ \A q, r \in Range(onWire) : wire[q] = wire[r] => q = r
<1>1. /\ onWire \in Seq(Requests) /\ queue \in Seq(Requests) /\ made \in 0..MaxRequests
      /\ Len(onWire) + Len(queue) + (IF building = None THEN 0 ELSE 1) <= made
      /\ \A q \in Range(onWire) : wire[q] \in Ids
      /\ \A k \in DOMAIN onWire : wire[onWire[k]] = IdAt(wire[onWire[1]], k)
  BY DEF ToldInv, MadeTypes, MadeInv, OncePerPlace, WireFollows
<1>2. Len(onWire) <= MaxId /\ DOMAIN onWire = 1..Len(onWire) /\ Len(onWire) \in Nat
  <2>1. Len(onWire) \in Nat /\ Len(queue) \in Nat /\ DOMAIN onWire = 1..Len(onWire)
    BY <1>1
  <2>. QED
    BY <1>1, <2>1, IdsAssumption DEF Enough
<1>3. ASSUME NEW j \in DOMAIN onWire, NEW k \in DOMAIN onWire,
             wire[onWire[j]] = wire[onWire[k]]
      PROVE  j = k
  <2>1. 1 \in DOMAIN onWire /\ j \in 1..MaxId /\ k \in 1..MaxId
    BY <1>2, IdsAssumption
  <2>2. wire[onWire[1]] \in Ids
    BY <1>1, <2>1, Members
  <2>. QED
    BY <1>1, <1>3, <2>1, <2>2, IdsFollow
<1>4. \A q \in Range(onWire) : \E k \in DOMAIN onWire : onWire[k] = q
  BY DEF Range
<1>. QED
  BY <1>2, <1>3, <1>4

(* ---- the hook puts a request on the wire ---- *)

LEMMA PutTold ==
  ASSUME Enough, ToldInv, leg = "page", NEW q \in Requests, q \notin Range(onWire),
         NEW id \in Ids, PutOnWire(q, id), Len(onWire) < MaxId,
         supplied'[q] = id, \A r \in Range(onWire) : supplied'[r] = supplied[r],
         UNCHANGED <<answered, toClient, pending, decoded>>
  PROVE  /\ onWire' \in Seq(Requests) /\ Range(onWire') = Range(onWire) \cup {q} /\ Once(onWire)'
         /\ Len(onWire') = Len(onWire) + 1
         /\ sentEv' \in Seq(Requests) /\ Range(sentEv') = Range(sentEv) \cup {q} /\ Once(sentEv)'
         /\ wire' \in [Requests -> Ids \cup {None}] /\ nextMsgId' \in Ids
         /\ pendingByWireId' \in [Ids -> Ids \cup {None}]
         /\ \A r \in Range(onWire) : wire'[r] = wire[r]
         /\ \A r \in Range(onWire') : wire'[r] \in Ids
         /\ WireFollows' /\ Translates' /\ MethodsInv'
<1> DEFINE w == WireId(id)
           n == Len(onWire) + 1
<1>0. /\ onWire \in Seq(Requests) /\ sentEv \in Seq(Requests)
      /\ wire \in [Requests -> Ids \cup {None}] /\ nextMsgId \in Ids \cup {None}
      /\ pendingByWireId \in [Ids -> Ids \cup {None}] /\ pending \in [Ids -> Requests \cup {None}]
      /\ Once(onWire) /\ Once(sentEv) /\ Range(sentEv) \subseteq Range(onWire)
      /\ answered \subseteq Range(onWire) /\ Range(toClient) \subseteq answered
      /\ \A r \in Range(onWire) : wire[r] \in Ids
      /\ (onWire = <<>> <=> nextMsgId = None)
      /\ (onWire # <<>> => nextMsgId = IdAt(wire[onWire[1]], Len(onWire) + 1))
      /\ \A k \in DOMAIN onWire : wire[onWire[k]] = IdAt(wire[onWire[1]], k)
  BY DEF ToldInv, MadeTypes, MadeInv, OncePerPlace, WireFollows
<1>1. /\ onWire' = Append(onWire, q) /\ sentEv' = Append(sentEv, q)
      /\ wire' = [wire EXCEPT ![q] = w] /\ nextMsgId' = Successor(w)
      /\ pendingByWireId' = [pendingByWireId EXCEPT ![w] = id]
  BY DEF PutOnWire
<1>2. w \in Ids
  BY <1>0, SuccessorOfId DEF WireId
<1>. HIDE DEF w
<1>3. /\ onWire' \in Seq(Requests) /\ Range(onWire') = Range(onWire) \cup {q} /\ Once(onWire')
      /\ Len(onWire') = n /\ Len(onWire) \in Nat
      /\ \A k \in DOMAIN onWire : k \in 1..Len(onWire) /\ onWire'[k] = onWire[k]
      /\ onWire'[n] = q /\ DOMAIN onWire' = 1..n /\ DOMAIN onWire = 1..Len(onWire)
  <2>1. /\ \A k \in DOMAIN onWire : k \in 1..Len(onWire) /\ onWire'[k] = onWire[k]
        /\ onWire'[n] = q /\ Len(onWire) \in Nat /\ DOMAIN onWire = 1..Len(onWire)
        /\ onWire' \in Seq(Requests) /\ Len(onWire') = n /\ DOMAIN onWire' = 1..n
    BY <1>0, <1>1
  <2>. QED
    BY <1>0, <1>1, <2>1, Joined
<1>4. /\ sentEv' \in Seq(Requests) /\ Range(sentEv') = Range(sentEv) \cup {q} /\ Once(sentEv')
  BY <1>0, <1>1, Joined
<1>5. /\ wire' \in [Requests -> Ids \cup {None}] /\ nextMsgId' \in Ids
      /\ pendingByWireId' \in [Ids -> Ids \cup {None}] /\ wire'[q] = w
      /\ \A r \in Requests : r # q => wire'[r] = wire[r]
      /\ pendingByWireId'[w] = id
      /\ \A i \in Ids : i # w => pendingByWireId'[i] = pendingByWireId[i]
  BY <1>0, <1>1, <1>2, SuccessorOfId
<1>6. Range(onWire) \subseteq Requests /\ \A k \in DOMAIN onWire : onWire[k] \in Range(onWire)
  BY <1>0, Members
<1>7. /\ \A r \in Range(onWire) : wire'[r] = wire[r]
      /\ \A r \in Range(onWire') : wire'[r] \in Ids
  BY <1>0, <1>2, <1>3, <1>5, <1>6
<1>8. /\ nextMsgId' # None /\ onWire' # <<>>
      /\ nextMsgId' = IdAt(wire'[onWire'[1]], n + 1)
      /\ \A k \in DOMAIN onWire' : wire'[onWire'[k]] = IdAt(wire'[onWire'[1]], k)
  <2>1. nextMsgId' # None /\ onWire' # <<>> /\ n \in 1..MaxId
    BY <1>1, <1>2, <1>3, SuccessorOfId, IdsAssumption
  <2>2. CASE onWire = <<>>
    <3>1. n = 1 /\ wire'[onWire'[1]] = w
      BY <1>3, <1>5, <2>2
    <3>. QED
      BY <1>1, <1>2, <1>3, <2>1, <3>1, IdsFollow
  <2>3. CASE onWire # <<>>
    <3>1. 1 \in DOMAIN onWire /\ onWire'[1] = onWire[1] /\ onWire[1] \in Range(onWire)
      BY <1>0, <1>3, <1>6, <2>3
    <3>2. wire'[onWire'[1]] = wire[onWire[1]] /\ wire[onWire[1]] \in Ids
      BY <1>0, <1>7, <3>1
    <3>3. w = nextMsgId /\ w = IdAt(wire[onWire[1]], n)
      BY <1>0, <2>3 DEF w, WireId
    <3>4. nextMsgId' = IdAt(wire[onWire[1]], n + 1)
      BY <1>1, <2>1, <3>2, <3>3, IdsFollow
    <3>5. ASSUME NEW k \in DOMAIN onWire'
          PROVE  wire'[onWire'[k]] = IdAt(wire[onWire[1]], k)
      <4>1. CASE k \in DOMAIN onWire
        BY <1>0, <1>3, <1>6, <1>7, <4>1
      <4>2. CASE k = n
        BY <1>3, <1>5, <3>3, <4>2
      <4>. QED
        BY <1>3, <4>1, <4>2
    <3>. QED
      BY <2>1, <3>2, <3>4, <3>5
  <2>. QED
    BY <2>2, <2>3
<1>9. WireFollows'
  BY <1>3, <1>8 DEF WireFollows
<1>10. \A r \in Range(onWire) : wire[r] # w
  <2>1. ASSUME NEW k \in DOMAIN onWire  PROVE wire[onWire[k]] # w
    <3>1. 1 \in DOMAIN onWire /\ onWire # <<>> /\ onWire[1] \in Range(onWire)
      BY <1>3, <1>6
    <3>2. w = IdAt(wire[onWire[1]], n) /\ wire[onWire[1]] \in Ids
      BY <1>0, <3>1 DEF w, WireId
    <3>3. k \in 1..MaxId /\ n \in 1..MaxId /\ k # n
      BY <1>3, IdsAssumption
    <3>. QED
      BY <1>0, <3>2, <3>3, IdsFollow
  <2>. QED
    BY <1>0, <2>1, Members
<1>11. Translates'
  <2>1. ASSUME NEW r \in Range(onWire'), r \notin answered' \/ r \in Range(toClient')
        PROVE  pendingByWireId'[wire'[r]] = supplied'[r]
    <3>1. CASE r = q
      BY <1>5, <3>1
    <3>2. CASE r # q
      <4>1. r \in Range(onWire) /\ wire'[r] = wire[r] /\ wire[r] \in Ids /\ wire[r] # w
        BY <1>0, <1>3, <1>7, <1>10, <3>2
      <4>2. pendingByWireId[wire[r]] = supplied[r]
        BY <2>1, <4>1 DEF ToldInv, Translates
      <4>. QED
        BY <1>5, <4>1, <4>2
    <3>. QED
      BY <3>1, <3>2
  <2>. QED
    BY <2>1 DEF Translates
<1>12. MethodsInv'
  BY <1>3, <1>7 DEF ToldInv, MethodsInv
<1>. QED
  BY <1>3, <1>4, <1>5, <1>7, <1>9, <1>11, <1>12

(* A call of send: the request goes on the wire or behind those that wait.   *)
LEMMA SendTold ==
  ASSUME Enough, ToldInv, leg = "page", NEW q \in Requests, NEW id \in Ids, NEW blob,
         HookSend(q, id, blob), q \notin Range(onWire) \cup Range(queue), building' # q,
         Range(queue) \cup Range(onWire) \cup {q} \subseteq 1..made', made' \in 0..MaxRequests,
         building' \notin Range(queue) \cup Range(onWire),
         Len(onWire) + Len(queue) + 1 + (IF building' = None THEN 0 ELSE 1) <= made',
         supplied'[q] = id, \A r \in Range(onWire) : supplied'[r] = supplied[r],
         UNCHANGED <<answered, toClient, pending, decoded>>
  PROVE  /\ onWire' \in Seq(Requests) /\ Range(onWire) \subseteq Range(onWire')
         /\ Range(onWire') \subseteq 1..made' /\ queue' \in Seq(Requests)
         /\ Range(queue') \subseteq 1..made'
         /\ sentEv' \in Seq(Requests) /\ Range(sentEv') \subseteq 1..made'
         /\ wire' \in [Requests -> Ids \cup {None}] /\ nextMsgId' \in Ids \cup {None}
         /\ pendingByWireId' \in [Ids -> Ids \cup {None}]
         /\ \A r \in Range(onWire) : wire'[r] = wire[r]
         /\ \A r \in Range(onWire') : wire'[r] \in Ids
         /\ Range(onWire) \cap Range(sentEv') \subseteq Range(sentEv)
         /\ Range(onWire') \ Range(sentEv') \subseteq Range(onWire) \ Range(sentEv)
         /\ OncePerPlace' /\ WireFollows' /\ Translates' /\ MethodsInv'
<1>0. /\ onWire \in Seq(Requests) /\ queue \in Seq(Requests) /\ sentEv \in Seq(Requests)
      /\ wire \in [Requests -> Ids \cup {None}] /\ nextMsgId \in Ids \cup {None}
      /\ pendingByWireId \in [Ids -> Ids \cup {None}]
      /\ \A r \in Range(onWire) : wire[r] \in Ids
      /\ OncePerPlace /\ WireFollows /\ Translates /\ MethodsInv
      /\ made' \in Nat /\ Len(onWire) \in Nat /\ Len(queue) \in Nat
  <2>1. /\ onWire \in Seq(Requests) /\ queue \in Seq(Requests) /\ made' \in Nat
    BY IdsAssumption DEF ToldInv, MadeTypes
  <2>. QED
    BY <2>1 DEF ToldInv, MadeTypes, MadeInv
<1>1. CASE SendAtOnce(blob)
  <2>1. PutOnWire(q, id) /\ queue' = queue /\ queue = <<>>
    BY <1>1 DEF HookSend, SendAtOnce
  <2>2. Len(onWire) < MaxId /\ Len(queue) = 0
    BY <1>0, <2>1, IdsAssumption DEF Enough
  <2>3. /\ onWire' \in Seq(Requests) /\ Range(onWire') = Range(onWire) \cup {q} /\ Once(onWire)'
        /\ Len(onWire') = Len(onWire) + 1
        /\ sentEv' \in Seq(Requests) /\ Range(sentEv') = Range(sentEv) \cup {q} /\ Once(sentEv)'
        /\ wire' \in [Requests -> Ids \cup {None}] /\ nextMsgId' \in Ids
        /\ pendingByWireId' \in [Ids -> Ids \cup {None}]
        /\ \A r \in Range(onWire) : wire'[r] = wire[r]
        /\ \A r \in Range(onWire') : wire'[r] \in Ids
        /\ WireFollows' /\ Translates' /\ MethodsInv'
    BY <2>1, <2>2, PutTold
  <2>4. OncePerPlace'
    BY <1>0, <2>1, <2>2, <2>3 DEF OncePerPlace, Once
  <2>5. Range(sentEv') \subseteq Range(onWire') /\ Range(onWire') \subseteq 1..made'
        /\ Range(queue') \subseteq 1..made'
    BY <1>0, <2>1, <2>3 DEF OncePerPlace
  <2>. QED
    BY <1>0, <2>1, <2>3, <2>4, <2>5
<1>2. CASE ~SendAtOnce(blob)
  <2>1. queue' = Append(queue, q)
        /\ UNCHANGED <<nextMsgId, pendingByWireId, wire, onWire, sentEv>>
    BY <1>2 DEF HookSend, wireVars
  <2>2. /\ queue' \in Seq(Requests) /\ Range(queue') = Range(queue) \cup {q}
        /\ Len(queue') = Len(queue) + 1 /\ Once(queue')
    BY <1>0, <2>1, Joined DEF OncePerPlace
  <2>3. OncePerPlace'
    BY <1>0, <2>1, <2>2 DEF OncePerPlace, Once
  <2>4. WireFollows' /\ MethodsInv'
    BY <1>0, <2>1 DEF WireFollows, MethodsInv
  <2>5. Translates'
    BY <1>0, <2>1 DEF Translates
  <2>6. Range(sentEv') \subseteq 1..made'
    BY <1>0, <2>1 DEF OncePerPlace
  <2>. QED
    BY <1>0, <2>1, <2>2, <2>3, <2>4, <2>5, <2>6
<1>. QED
  BY <1>1, <1>2

(* ---- the parts that a new request touches ---- *)

LEMMA NewIs ==
  ASSUME MadeTypes, NEW who \in {"client", "us"}, NEW id \in Ids, NEW what \in Contents,
         NewRequest(who, id, what)
  PROVE  /\ made' = made + 1 /\ made' \in Requests /\ made' \in 0..MaxRequests /\ made \in Nat
         /\ by' \in [Requests -> {"client", "us"}] /\ content' \in [Requests -> Contents]
         /\ supplied' \in [Requests -> Ids \cup {None}]
         /\ by'[made'] = who /\ supplied'[made'] = id /\ content'[made'] = what
         /\ \A q \in 1..made : /\ q \in Requests /\ q # made' /\ q \in 1..made'
                               /\ by'[q] = by[q] /\ supplied'[q] = supplied[q]
                               /\ content'[q] = content[q]
         /\ \A q \in 1..made' : q \in 1..made \/ q = made'
         /\ 1..made \subseteq 1..made' /\ made' \in 1..made' /\ made' # None
<1>1. /\ made < MaxRequests /\ made' = made + 1 /\ made \in 0..MaxRequests
      /\ by' = [by EXCEPT ![made'] = who] /\ supplied' = [supplied EXCEPT ![made'] = id]
      /\ content' = [content EXCEPT ![made'] = what]
      /\ by \in [Requests -> {"client", "us"}] /\ content \in [Requests -> Contents]
      /\ supplied \in [Requests -> Ids \cup {None}]
  BY DEF NewRequest, MadeTypes
<1>2. /\ made' \in Requests /\ made' \in 0..MaxRequests /\ made \in Nat /\ made' \in 1..made'
      /\ made' # None
      /\ \A q \in 1..made : q \in Requests /\ q # made' /\ q \in 1..made'
      /\ \A q \in 1..made' : q \in 1..made \/ q = made'
  BY <1>1, IdsAssumption DEF Requests, None
<1>. QED
  BY <1>1, <1>2

LEMMA ClientFollowsOn ==
  ASSUME Enough, MadeTypes, MadeInv, ClientFollows,
         NEW who \in {"client", "us"}, NEW id \in Ids, NEW what \in Contents,
         NewRequest(who, id, what),
         \/ who = "client" /\ id = nextClient /\ nextClient' = Successor(nextClient)
         \/ who = "us" /\ nextClient' = nextClient
  PROVE  ClientFollows' /\ nextClient' \in Ids
<1>1. /\ made' = made + 1 /\ made' \in 0..MaxRequests /\ made \in Nat
      /\ by'[made'] = who /\ supplied'[made'] = id
      /\ \A q \in 1..made : q \in Requests /\ q # made' /\ by'[q] = by[q] /\ supplied'[q] = supplied[q]
      /\ \A q \in 1..made' : q \in 1..made \/ q = made'
  BY NewIs
<1>2. PICK first \in Ids, c \in 0..made :
        /\ nextClient = IdAt(first, c + 1)
        /\ \A q \in 1..made : by[q] = "client" => \E k \in 1..c : supplied[q] = IdAt(first, k)
  BY DEF ClientFollows
<1>3. /\ nextClient \in Ids
      /\ \A q, r \in 1..made :
           by[q] = "client" /\ by[r] = "client" /\ supplied[q] = supplied[r] => q = r
  BY DEF ClientFollows, MadeTypes
<1>4. /\ c \in Nat /\ c + 1 \in 1..MaxId /\ c + 1 \in 0..made' /\ c \in 0..made'
      /\ \A k \in 1..c : k \in 1..MaxId /\ k # c + 1 /\ k \in 1..c + 1
      /\ c + 1 \in 1..c + 1 /\ MaxId \in Nat
  BY <1>1, IdsAssumption DEF Enough
<1>5. CASE who = "client" /\ id = nextClient /\ nextClient' = Successor(nextClient)
  <2>1. nextClient' = IdAt(first, (c + 1) + 1) /\ nextClient' \in Ids
    BY <1>2, <1>4, <1>3, <1>5, IdsFollow, SuccessorOfId
  <2>2. \A q \in 1..made' : by'[q] = "client" => \E k \in 1..c + 1 : supplied'[q] = IdAt(first, k)
    BY <1>1, <1>2, <1>4, <1>5
  <2>3. \A q \in 1..made : by[q] = "client" => supplied[q] # id
    BY <1>2, <1>4, <1>5, IdsFollow
  <2>4. \A q, r \in 1..made' :
           by'[q] = "client" /\ by'[r] = "client" /\ supplied'[q] = supplied'[r] => q = r
    BY <1>1, <1>3, <2>3
  <2>. QED
    BY <1>4, <2>1, <2>2, <2>4 DEF ClientFollows
<1>6. CASE who = "us" /\ nextClient' = nextClient
  <2>1. \A q \in 1..made' : by'[q] = "client" => \E k \in 1..c : supplied'[q] = IdAt(first, k)
    BY <1>1, <1>2, <1>6
  <2>2. \A q, r \in 1..made' :
           by'[q] = "client" /\ by'[r] = "client" /\ supplied'[q] = supplied'[r] => q = r
    BY <1>1, <1>3, <1>6
  <2>. QED
    BY <1>2, <1>3, <1>4, <1>6, <2>1, <2>2 DEF ClientFollows
<1>. QED
  BY <1>5, <1>6

(* The marks stay enough when frames only come, or are seen with their mark  *)
(* in place.                                                                 *)
LEMMA MarksKept ==
  ASSUME MarksInv,
         \A r \in Range(onWire) \ Range(sentEv) :
           r \in Range(onWire') \ Range(sentEv') /\ wire'[r] = wire[r],
         \A q \in 1..made' :
           \/ by'[q] = "client" \/ Marked(q)'
           \/ /\ q \in 1..made /\ by'[q] = by[q] /\ supplied'[q] = supplied[q]
              /\ content'[q] = content[q],
         \A r \in Range(onWire') \ Range(sentEv') :
           /\ r \in Range(onWire) \ Range(sentEv)
           /\ by'[r] = by[r] /\ supplied'[r] = supplied[r],
         flagged \subseteq flagged',
         \A k \in DOMAIN marks : k \in DOMAIN marks' /\ marks'[k] = marks[k]
  PROVE  MarksInv'
<1>1. ASSUME NEW q \in 1..made', by'[q] = "us"
      PROVE  q \in flagged' \/ Marked(q)' \/ Overtaken(q)'
  <2>1. CASE Marked(q)'
    BY <2>1
  <2>2. CASE /\ q \in 1..made /\ by'[q] = by[q] /\ supplied'[q] = supplied[q]
             /\ content'[q] = content[q]
    <3>1. q \in flagged \/ Marked(q) \/ Overtaken(q)
      BY <1>1, <2>2 DEF MarksInv
    <3>2. Marked(q) => Marked(q)'
      BY <2>2 DEF Marked
    <3>3. Overtaken(q) => Overtaken(q)'
      BY <2>2 DEF Overtaken
    <3>. QED
      BY <3>1, <3>2, <3>3
  <2>. QED
    BY <1>1, <2>1, <2>2
<1>2. \A q \in Range(onWire') \ Range(sentEv') :
        by'[q] = "us" /\ wire'[q] = supplied'[q] => q \in flagged'
  BY DEF MarksInv
<1>. QED
  BY <1>1, <1>2 DEF MarksInv

LEMMA WaitsOn ==
  ASSUME MadeTypes, WaitsInv, NEW who \in {"client", "us"}, NEW id \in Ids, NEW what \in Contents,
         NewRequest(who, id, what), took' = took,
         \/ waiting' = waiting
         \/ who = "client" /\ waiting' = [waiting EXCEPT ![id] = made']
  PROVE  WaitsInv' /\ waiting' \in [Ids -> Requests \cup {None}]
<1>1. /\ made' \in Requests /\ made' \in 1..made'
      /\ by'[made'] = who /\ supplied'[made'] = id
      /\ \A q \in 1..made : q \in 1..made' /\ by'[q] = by[q] /\ supplied'[q] = supplied[q]
  BY NewIs
<1>2. waiting \in [Ids -> Requests \cup {None}]
  BY DEF MadeTypes
<1>3. ASSUME NEW i \in Ids, waiting'[i] # None
      PROVE  waiting'[i] \in 1..made' /\ by'[waiting'[i]] = "client" /\ supplied'[waiting'[i]] = i
  <2>1. CASE waiting'[i] = waiting[i]
    BY <1>1, <1>3, <2>1 DEF WaitsInv
  <2>2. CASE who = "client" /\ i = id /\ waiting'[i] = made'
    BY <1>1, <2>2
  <2>. QED
    BY <1>2, <2>1, <2>2
<1>4. \A q \in Requests : took'[q] # Unanswered =>
        /\ q \in 1..made' /\ took'[q] \in 1..made' /\ supplied'[took'[q]] = supplied'[q]
        /\ took'[q] = q \/ by'[took'[q]] = "us"
  BY <1>1 DEF WaitsInv
<1>. QED
  BY <1>1, <1>2, <1>3, <1>4 DEF WaitsInv

(* ---- the page leg ---- *)

LEMMA PageCallTold ==
  ASSUME Enough, ToldInv, leg = "page", NEW blob \in BOOLEAN, NEW what \in Contents,
         ClientCall(blob, what)
  PROVE  ToldInv'
<1>0. MadeTypes /\ MadeInv /\ ClientFollows /\ WaitsInv /\ OncePerPlace /\ MarksInv
  BY DEF ToldInv
<1>1. /\ NewRequest("client", nextClient, what) /\ nextClient \in Ids
      /\ waiting' = [waiting EXCEPT ![nextClient] = made']
      /\ nextClient' = Successor(nextClient) /\ HookSend(made', nextClient, blob)
      /\ UNCHANGED <<leg, building, packetRx, recvEv, toClient, answered, pending, bridgeNext,
                     decoded, marks, flagged, took>>
  BY <1>0 DEF ClientCall, bridgeVars, MadeTypes
<1>2. /\ made' = made + 1 /\ made' \in Requests /\ made' \in 0..MaxRequests /\ made \in Nat
      /\ by' \in [Requests -> {"client", "us"}] /\ content' \in [Requests -> Contents]
      /\ supplied' \in [Requests -> Ids \cup {None}]
      /\ by'[made'] = "client" /\ supplied'[made'] = nextClient
      /\ \A q \in 1..made : /\ q \in Requests /\ q # made' /\ q \in 1..made'
                            /\ by'[q] = by[q] /\ supplied'[q] = supplied[q]
                            /\ content'[q] = content[q]
      /\ \A q \in 1..made' : q \in 1..made \/ q = made'
      /\ 1..made \subseteq 1..made' /\ made' \in 1..made' /\ made' # None
  BY <1>0, <1>1, NewIs
<1>3. ClientFollows' /\ nextClient' \in Ids
  BY <1>0, <1>1, ClientFollowsOn
<1>4. WaitsInv' /\ waiting' \in [Ids -> Requests \cup {None}]
  BY <1>0, <1>1, WaitsOn
<1>5. /\ Range(onWire) \cup Range(queue) \cup Range(sentEv) \cup Range(packetRx) \subseteq 1..made
      /\ building \in 0..made /\ building \notin Range(queue) \cup Range(onWire)
      /\ Len(onWire) + Len(queue) + (IF building = None THEN 0 ELSE 1) <= made
      /\ onWire \in Seq(Requests) /\ queue \in Seq(Requests)
  BY <1>0 DEF MadeInv, MadeTypes, OncePerPlace
<1>6. /\ made' \notin Range(onWire) \cup Range(queue) /\ building' # made'
      /\ Range(queue) \cup Range(onWire) \cup {made'} \subseteq 1..made'
      /\ building' \notin Range(queue) \cup Range(onWire) /\ building' \in 0..made'
      /\ Len(onWire) + Len(queue) + 1 + (IF building' = None THEN 0 ELSE 1) <= made'
      /\ \A r \in Range(onWire) : supplied'[r] = supplied[r]
  <2>1. /\ made' \notin Range(onWire) \cup Range(queue) /\ building' # made'
        /\ building' \notin Range(queue) \cup Range(onWire) /\ building' \in 0..made'
        /\ Range(queue) \cup Range(onWire) \cup {made'} \subseteq 1..made'
        /\ \A r \in Range(onWire) : supplied'[r] = supplied[r]
    BY <1>1, <1>2, <1>5
  <2>2. Len(onWire) \in Nat /\ Len(queue) \in Nat
    BY <1>5
  <2>. QED
    BY <1>1, <1>2, <1>5, <2>1, <2>2
<1>7. /\ onWire' \in Seq(Requests) /\ Range(onWire) \subseteq Range(onWire')
      /\ Range(onWire') \subseteq 1..made' /\ queue' \in Seq(Requests)
      /\ Range(queue') \subseteq 1..made'
      /\ sentEv' \in Seq(Requests) /\ Range(sentEv') \subseteq 1..made'
      /\ wire' \in [Requests -> Ids \cup {None}] /\ nextMsgId' \in Ids \cup {None}
      /\ pendingByWireId' \in [Ids -> Ids \cup {None}]
      /\ \A r \in Range(onWire) : wire'[r] = wire[r]
      /\ \A r \in Range(onWire') : wire'[r] \in Ids
      /\ Range(onWire) \cap Range(sentEv') \subseteq Range(sentEv)
      /\ Range(onWire') \ Range(sentEv') \subseteq Range(onWire) \ Range(sentEv)
      /\ OncePerPlace' /\ WireFollows' /\ Translates' /\ MethodsInv'
  BY <1>1, <1>2, <1>6, SendTold
<1>8. MadeTypes'
  BY <1>0, <1>1, <1>2, <1>3, <1>4, <1>6, <1>7 DEF MadeTypes
<1>9. MadeInv'
  BY <1>0, <1>1, <1>2, <1>5, <1>7 DEF MadeInv
<1>10. MarksInv'
  <2>1. \A r \in Range(onWire') \ Range(sentEv') :
          /\ r \in Range(onWire) \ Range(sentEv)
          /\ by'[r] = by[r] /\ supplied'[r] = supplied[r]
    BY <1>2, <1>5, <1>7
  <2>. QED
    BY <1>0, <1>1, <1>2, <1>7, <2>1, MarksKept
<1>. QED
  BY <1>1, <1>3, <1>4, <1>7, <1>8, <1>9, <1>10 DEF ToldInv

LEMMA BuildTold ==
  ASSUME Enough, ToldInv, NEW what \in Contents, Build(what)
  PROVE  ToldInv'
<1>0. MadeTypes /\ MadeInv /\ ClientFollows /\ WaitsInv
  BY DEF ToldInv
<1>1. /\ NewRequest("us", bridgeNext, what) /\ bridgeNext \in Ids /\ building = None
      /\ bridgeNext' = Successor(bridgeNext) /\ building' = made'
      /\ marks' = IF leg = "page" THEN Append(marks, <<bridgeNext, what>>) ELSE marks
      /\ UNCHANGED <<leg, nextClient, waiting, took, queue, nextMsgId, pendingByWireId, called,
                     wire, onWire, sentEv, packetRx, recvEv, toClient, answered, pending,
                     decoded, flagged>>
  BY <1>0 DEF Build, clientVars, hookVars, wireVars, MadeTypes
<1>2. /\ made' = made + 1 /\ made' \in Requests /\ made' \in 0..MaxRequests /\ made \in Nat
      /\ by' \in [Requests -> {"client", "us"}] /\ content' \in [Requests -> Contents]
      /\ supplied' \in [Requests -> Ids \cup {None}]
      /\ by'[made'] = "us" /\ supplied'[made'] = bridgeNext /\ content'[made'] = what
      /\ \A q \in 1..made : /\ q \in Requests /\ q # made' /\ q \in 1..made'
                            /\ by'[q] = by[q] /\ supplied'[q] = supplied[q]
                            /\ content'[q] = content[q]
      /\ \A q \in 1..made' : q \in 1..made \/ q = made'
      /\ 1..made \subseteq 1..made' /\ made' \in 1..made' /\ made' # None
  BY <1>0, <1>1, NewIs
<1>3. ClientFollows'
  BY <1>0, <1>1, ClientFollowsOn
<1>4. WaitsInv'
  BY <1>0, <1>1, WaitsOn
<1>5. /\ marks' \in Seq(Ids \X Contents) /\ bridgeNext' \in Ids
      /\ \A k \in DOMAIN marks : k \in DOMAIN marks' /\ marks'[k] = marks[k]
      /\ leg = "page" => \E k \in DOMAIN marks' : marks'[k] = <<bridgeNext, what>>
  <2>1. /\ marks \in Seq(Ids \X Contents) /\ <<bridgeNext, what>> \in Ids \X Contents
        /\ bridgeNext' \in Ids
    BY <1>0, <1>1, SuccessorOfId DEF MadeTypes
  <2>2. CASE leg = "page"
    <3>1. marks' = Append(marks, <<bridgeNext, what>>)
      BY <1>1, <2>2
    <3>2. /\ Len(marks) \in Nat /\ DOMAIN marks = 1..Len(marks)
          /\ DOMAIN marks' = 1..Len(marks) + 1 /\ marks'[Len(marks) + 1] = <<bridgeNext, what>>
          /\ \A k \in 1..Len(marks) : marks'[k] = marks[k]
          /\ marks' \in Seq(Ids \X Contents)
      BY <2>1, <3>1
    <3>3. Len(marks) + 1 \in DOMAIN marks' /\ DOMAIN marks \subseteq DOMAIN marks'
      BY <3>2
    <3>. QED
      BY <2>1, <3>2, <3>3
  <2>3. CASE leg # "page"
    BY <1>1, <2>1, <2>3
  <2>. QED
    BY <2>2, <2>3
<1>6. /\ Range(onWire) \cup Range(queue) \cup Range(sentEv) \cup Range(packetRx) \subseteq 1..made
      /\ onWire \in Seq(Requests) /\ queue \in Seq(Requests)
  BY <1>0 DEF MadeInv, MadeTypes
<1>7. MadeTypes'
  <2>1. building' \in 0..made'
    BY <1>1, <1>2
  <2>. QED
    BY <1>0, <1>1, <1>2, <1>5, <2>1 DEF MadeTypes
<1>8. MadeInv'
  BY <1>0, <1>1, <1>2, <1>6 DEF MadeInv
<1>9. CASE leg = "page"
  <2>0. OncePerPlace /\ WireFollows /\ Translates /\ MethodsInv /\ MarksInv
    BY <1>9 DEF ToldInv
  <2>1. OncePerPlace'
    <3>1. building' \notin Range(queue) \cup Range(onWire) /\ building' # None
      BY <1>1, <1>2, <1>6
    <3>2. Len(onWire) + Len(queue) + 1 <= made'
      <4>1. Len(onWire) \in Nat /\ Len(queue) \in Nat /\ Len(onWire) + Len(queue) + 0 <= made
        BY <1>1, <1>6, <2>0 DEF OncePerPlace
      <4>. QED
        BY <1>2, <4>1
    <3>. QED
      BY <1>1, <2>0, <3>1, <3>2 DEF OncePerPlace
  <2>2. WireFollows' /\ MethodsInv'
    BY <1>1, <2>0 DEF WireFollows, MethodsInv
  <2>3. Translates'
    BY <1>1, <1>2, <1>6, <2>0 DEF Translates
  <2>4. MarksInv'
    <3>1. \A q \in 1..made' :
             \/ \E k \in DOMAIN marks' : marks'[k] = <<supplied'[q], content'[q]>>
             \/ /\ q \in 1..made /\ by'[q] = by[q] /\ supplied'[q] = supplied[q]
                /\ content'[q] = content[q]
      BY <1>2, <1>5, <1>9
    <3>2. \A q \in 1..made' :
             \/ Marked(q)'
             \/ /\ q \in 1..made /\ by'[q] = by[q] /\ supplied'[q] = supplied[q]
                /\ content'[q] = content[q]
      BY <3>1 DEF Marked
    <3>3. \A r \in Range(onWire') \ Range(sentEv') :
             /\ r \in Range(onWire) \ Range(sentEv)
             /\ by'[r] = by[r] /\ supplied'[r] = supplied[r]
      BY <1>1, <1>2, <1>6
    <3>. QED
      BY <1>1, <1>2, <1>5, <2>0, <3>2, <3>3, MarksKept
  <2>. QED
    BY <1>1, <1>3, <1>4, <1>7, <1>8, <1>9, <2>1, <2>2, <2>3, <2>4 DEF ToldInv
<1>10. CASE leg = "mitm"
  <2>1. MitmInv'
    BY <1>1, <1>2, <1>6, <1>10 DEF ToldInv, MitmInv
  <2>. QED
    BY <1>1, <1>3, <1>4, <1>7, <1>8, <1>10, <2>1 DEF ToldInv
<1>. QED
  BY <1>9, <1>10, <1>0 DEF MadeTypes

(* What a step that makes no request and numbers none leaves alone.          *)
LEMMA OthersTold ==
  ASSUME ToldInv, UNCHANGED <<leg, requestVars, nextClient>>
  PROVE  /\ leg' \in {"page", "mitm"} /\ made' = made /\ made \in Nat
         /\ ClientFollows' /\ nextClient' \in Ids
         /\ by' = by /\ supplied' = supplied /\ content' = content /\ leg' = leg
         /\ MadeTypes /\ MadeInv /\ WaitsInv
         /\ UNCHANGED <<waiting, took>> => WaitsInv'
<1>1. /\ MadeTypes /\ MadeInv /\ WaitsInv /\ ClientFollows
      /\ made' = made /\ by' = by /\ supplied' = supplied /\ content' = content /\ leg' = leg
      /\ nextClient' = nextClient
  BY DEF ToldInv, requestVars
<1>2. made \in Nat /\ leg \in {"page", "mitm"} /\ nextClient \in Ids
  BY <1>1, IdsAssumption DEF MadeTypes
<1>3. ClientFollows'
  BY <1>1 DEF ClientFollows
<1>4. UNCHANGED <<waiting, took>> => WaitsInv'
  BY <1>1 DEF WaitsInv
<1>. QED
  BY <1>1, <1>2, <1>3, <1>4

LEMMA DispatchTold ==
  ASSUME Enough, ToldInv, leg = "page", Dispatch
  PROVE  ToldInv'
<1>1. /\ building # None /\ building' = None
      /\ HookSend(building, supplied[building], FALSE)
      /\ UNCHANGED <<leg, requestVars, nextClient, waiting, took, packetRx, recvEv, toClient,
                     answered, pending, bridgeNext, decoded, marks, flagged>>
  BY DEF Dispatch, clientVars, bridgeVars
<1>2. /\ made' = made /\ made \in Nat /\ made \in 0..MaxRequests
      /\ by' = by /\ supplied' = supplied /\ content' = content /\ leg' = leg
      /\ MadeTypes /\ MadeInv /\ ClientFollows' /\ WaitsInv' /\ OncePerPlace /\ MarksInv
  BY <1>1, OthersTold DEF ToldInv, MadeTypes
<1>3. /\ building \in Requests /\ supplied[building] \in Ids /\ building \in 1..made
      /\ None \notin Range(queue) \cup Range(onWire)
      /\ Range(queue) \cup Range(onWire) \cup {building} \subseteq 1..made
  BY <1>1, <1>2, IdsAssumption DEF MadeTypes, MadeInv, None, Requests
<1>4. /\ building \notin Range(onWire) \cup Range(queue)
      /\ Len(onWire) + Len(queue) + 1 + (IF building' = None THEN 0 ELSE 1) <= made'
  <2>1. Len(onWire) \in Nat /\ Len(queue) \in Nat
    BY <1>2 DEF MadeTypes
  <2>2. Len(onWire) + Len(queue) + 1 <= made /\ building \notin Range(onWire) \cup Range(queue)
    BY <1>1, <1>2 DEF OncePerPlace
  <2>. QED
    BY <1>1, <1>2, <2>1, <2>2
<1>7. /\ onWire' \in Seq(Requests) /\ Range(onWire) \subseteq Range(onWire')
      /\ Range(onWire') \subseteq 1..made' /\ queue' \in Seq(Requests)
      /\ Range(queue') \subseteq 1..made'
      /\ sentEv' \in Seq(Requests) /\ Range(sentEv') \subseteq 1..made'
      /\ wire' \in [Requests -> Ids \cup {None}] /\ nextMsgId' \in Ids \cup {None}
      /\ pendingByWireId' \in [Ids -> Ids \cup {None}]
      /\ \A r \in Range(onWire) : wire'[r] = wire[r]
      /\ \A r \in Range(onWire') : wire'[r] \in Ids
      /\ Range(onWire) \cap Range(sentEv') \subseteq Range(sentEv)
      /\ Range(onWire') \ Range(sentEv') \subseteq Range(onWire) \ Range(sentEv)
      /\ OncePerPlace' /\ WireFollows' /\ Translates' /\ MethodsInv'
  BY <1>1, <1>2, <1>3, <1>4, SendTold
<1>8. MadeTypes'
  <2>1. building' \in 0..made'
    BY <1>1, <1>2 DEF None
  <2>. QED
    BY <1>1, <1>2, <1>7, <2>1 DEF MadeTypes
<1>9. MadeInv'
  BY <1>1, <1>2, <1>7 DEF MadeInv
<1>10. MarksInv'
  BY <1>1, <1>2, <1>7, MarksKept
<1>. QED
  BY <1>1, <1>2, <1>7, <1>8, <1>9, <1>10 DEF ToldInv

LEMMA DispatchFailsTold ==
  ASSUME ToldInv, DispatchFails
  PROVE  ToldInv'
<1>1. /\ building' = None /\ leg = "page"
      /\ UNCHANGED <<leg, requestVars, nextClient, waiting, took, queue, nextMsgId,
                     pendingByWireId, wire, onWire, sentEv, packetRx, recvEv, toClient, answered,
                     pending, bridgeNext, decoded, marks, flagged>>
  BY DEF DispatchFails, clientVars, hookVars, wireVars, bridgeVars, markVars
<1>2. /\ made' = made /\ made \in Nat
      /\ by' = by /\ supplied' = supplied /\ content' = content /\ leg' = leg
      /\ MadeTypes /\ MadeInv /\ ClientFollows' /\ WaitsInv'
      /\ OncePerPlace /\ WireFollows /\ Translates /\ MethodsInv /\ MarksInv
  BY <1>1, OthersTold DEF ToldInv
<1>3. MadeTypes'
  <2>1. building' \in 0..made'
    BY <1>1, <1>2 DEF None
  <2>. QED
    BY <1>1, <1>2, <2>1 DEF MadeTypes
<1>4. OncePerPlace'
  <2>1. Len(onWire) \in Nat /\ Len(queue) \in Nat
    BY <1>2 DEF MadeTypes
  <2>2. None \notin Range(queue) \cup Range(onWire)
    BY <1>2 DEF MadeInv, None
  <2>3. Len(onWire) + Len(queue) + 0 <= made
    BY <1>2, <2>1 DEF OncePerPlace
  <2>. QED
    BY <1>1, <1>2, <2>2, <2>3 DEF OncePerPlace
<1>5. MadeInv' /\ WireFollows' /\ Translates' /\ MethodsInv'
  BY <1>1, <1>2 DEF MadeInv, WireFollows, Translates, MethodsInv
<1>6. MarksInv'
  BY <1>1, <1>2, MarksKept
<1>. QED
  BY <1>1, <1>2, <1>3, <1>4, <1>5, <1>6 DEF ToldInv

LEMMA RunQueuedTold ==
  ASSUME Enough, ToldInv, leg = "page", RunQueued
  PROVE  ToldInv'
<1> DEFINE q == Head(queue)
<1>1. /\ queue # <<>> /\ PutOnWire(q, supplied[q]) /\ queue' = Tail(queue)
      /\ UNCHANGED <<leg, requestVars, nextClient, waiting, took, building, packetRx, recvEv,
                     toClient, answered, pending, bridgeNext, decoded, marks, flagged>>
  BY DEF RunQueued, clientVars, bridgeVars
<1>2. /\ made' = made /\ made \in Nat /\ made \in 0..MaxRequests
      /\ by' = by /\ supplied' = supplied /\ content' = content /\ leg' = leg
      /\ MadeTypes /\ MadeInv /\ ClientFollows' /\ WaitsInv' /\ OncePerPlace /\ MarksInv
  BY <1>1, OthersTold DEF ToldInv, MadeTypes
<1>3. /\ q \in Requests /\ queue' \in Seq(Requests) /\ Len(queue') = Len(queue) - 1
      /\ q \in Range(queue) /\ Range(queue) = Range(queue') \cup {q}
      /\ Once(queue') /\ q \notin Range(queue')
  BY <1>1, <1>2, Left DEF MadeTypes, OncePerPlace
<1>4. /\ q \in 1..made /\ supplied[q] \in Ids /\ q \notin Range(onWire) /\ q # building
  BY <1>2, <1>3 DEF MadeInv, OncePerPlace
<1>5. Len(onWire) \in Nat /\ Len(queue') \in Nat /\ Len(onWire) < MaxId
      /\ Len(onWire) + Len(queue) + (IF building = None THEN 0 ELSE 1) <= made
  <2>1. Len(onWire) \in Nat /\ Len(queue) \in Nat /\ Len(queue') \in Nat
    BY <1>2, <1>3 DEF MadeTypes
  <2>2. Len(onWire) + Len(queue) + (IF building = None THEN 0 ELSE 1) <= made
    BY <1>2 DEF OncePerPlace
  <2>. QED
    BY <1>2, <1>3, <2>1, <2>2, IdsAssumption DEF Enough
<1>. HIDE DEF q
<1>6. /\ onWire' \in Seq(Requests) /\ Range(onWire') = Range(onWire) \cup {q} /\ Once(onWire)'
      /\ Len(onWire') = Len(onWire) + 1
      /\ sentEv' \in Seq(Requests) /\ Range(sentEv') = Range(sentEv) \cup {q} /\ Once(sentEv)'
      /\ wire' \in [Requests -> Ids \cup {None}] /\ nextMsgId' \in Ids
      /\ pendingByWireId' \in [Ids -> Ids \cup {None}]
      /\ \A r \in Range(onWire) : wire'[r] = wire[r]
      /\ \A r \in Range(onWire') : wire'[r] \in Ids
      /\ WireFollows' /\ Translates' /\ MethodsInv'
  BY <1>1, <1>2, <1>3, <1>4, <1>5, PutTold
<1>7. OncePerPlace'
  <2>1. Len(onWire') + Len(queue') + (IF building' = None THEN 0 ELSE 1) <= made'
    BY <1>1, <1>2, <1>3, <1>5, <1>6
  <2>. QED
    BY <1>1, <1>2, <1>3, <1>4, <1>6, <2>1 DEF OncePerPlace, Once
<1>8. MadeTypes'
  BY <1>1, <1>2, <1>3, <1>6 DEF MadeTypes
<1>9. MadeInv'
  BY <1>1, <1>2, <1>3, <1>4, <1>6 DEF MadeInv
<1>10. MarksInv'
  BY <1>1, <1>2, <1>4, <1>6, MarksKept
<1>. QED
  BY <1>1, <1>2, <1>6, <1>7, <1>8, <1>9, <1>10 DEF ToldInv

(* The page's frame is seen: its mark goes, if it has one.                   *)
LEMMA MarkTaken ==
  ASSUME MadeTypes, NEW q \in Requests, wire[q] \in Ids, TakeMark(q)
  PROVE  /\ marks' \in Seq(Ids \X Contents) /\ flagged \subseteq flagged'
         /\ flagged' \subseteq flagged \cup {q}
         /\ (\E k \in DOMAIN marks : marks[k] = <<wire[q], content[q]>>) => q \in flagged'
         /\ \A k \in DOMAIN marks : marks[k] # <<wire[q], content[q]>> =>
              \E j \in DOMAIN marks' : marks'[j] = marks[k]
<1>0. marks \in Seq(Ids \X Contents) /\ Len(marks) \in Nat /\ DOMAIN marks = 1..Len(marks)
  BY DEF MadeTypes
<1>1. CASE MarkOf(q) = {}
  BY <1>0, <1>1 DEF TakeMark, MarkOf
<1>2. CASE MarkOf(q) # {}
  <2> DEFINE i == CHOOSE k \in MarkOf(q) : \A j \in MarkOf(q) : k <= j
  <2>1. \E k \in MarkOf(q) : \A j \in MarkOf(q) : k <= j
    <3>1. \A k \in MarkOf(q) : k \in 1..Len(marks)
      BY <1>0 DEF MarkOf
    <3>2. MarkOf(q) \subseteq Nat
      BY <1>0, <3>1
    <3>. QED
      BY <1>2, <3>2, LeastOf
  <2>2. i \in MarkOf(q)
    BY <2>1
  <2>3. /\ marks' = SubSeq(marks, 1, i - 1) \o SubSeq(marks, i + 1, Len(marks))
        /\ flagged' = flagged \cup {q}
    BY <1>2 DEF TakeMark
  <2>4. /\ i \in 1..Len(marks) /\ marks[i] = <<wire[q], content[q]>>
        /\ i \in Nat /\ 1 <= i /\ i <= Len(marks)
    <3>1. i \in DOMAIN marks /\ marks[i] = <<wire[q], content[q]>>
      BY <2>2 DEF MarkOf
    <3>. HIDE DEF i
    <3>. QED
      BY <1>0, <3>1
  <2>. HIDE DEF i
  <2>5. /\ marks' \in Seq(Ids \X Contents)
        /\ \A k \in DOMAIN marks : k # i => \E j \in DOMAIN marks' : marks'[j] = marks[k]
    BY <1>0, <2>3, <2>4, WithoutOne
  <2>. QED
    BY <2>3, <2>4, <2>5
<1>. QED
  BY <1>1, <1>2

LEMMA SeenTold ==
  ASSUME Enough, ToldInv, OnSent
  PROVE  ToldInv'
<1> DEFINE q == Head(sentEv)
<1>1. /\ leg = "page" /\ sentEv # <<>> /\ sentEv' = Tail(sentEv)
      /\ pending' = [pending EXCEPT ![wire[q]] = q] /\ bridgeNext' = Successor(wire[q])
      /\ TakeMark(q)
      /\ UNCHANGED <<leg, requestVars, nextClient, waiting, took, building, queue, nextMsgId,
                     pendingByWireId, wire, onWire, packetRx, recvEv, toClient, answered, decoded>>
  BY DEF OnSent, ParseRequest, clientVars, hookVars
<1>2. /\ made' = made /\ made \in Nat
      /\ by' = by /\ supplied' = supplied /\ content' = content /\ leg' = leg
      /\ MadeTypes /\ MadeInv /\ ClientFollows' /\ WaitsInv'
      /\ OncePerPlace /\ WireFollows /\ Translates /\ MethodsInv /\ MarksInv
  BY <1>1, OthersTold DEF ToldInv
<1>3. /\ q \in Requests /\ sentEv' \in Seq(Requests) /\ q \in Range(sentEv)
      /\ Range(sentEv) = Range(sentEv') \cup {q} /\ Once(sentEv') /\ q \notin Range(sentEv')
  BY <1>1, <1>2, Left DEF MadeTypes, OncePerPlace
<1>4. q \in Range(onWire) /\ wire[q] \in Ids
  BY <1>2, <1>3 DEF OncePerPlace, MadeInv
<1>. HIDE DEF q
<1>5. /\ marks' \in Seq(Ids \X Contents) /\ flagged \subseteq flagged'
      /\ flagged' \subseteq flagged \cup {q}
      /\ (\E k \in DOMAIN marks : marks[k] = <<wire[q], content[q]>>) => q \in flagged'
      /\ \A k \in DOMAIN marks : marks[k] # <<wire[q], content[q]>> =>
           \E j \in DOMAIN marks' : marks'[j] = marks[k]
  BY <1>1, <1>2, <1>3, <1>4, MarkTaken
<1>6. pending' \in [Ids -> Requests \cup {None}] /\ bridgeNext' \in Ids
      /\ flagged' \subseteq Requests
  <2>1. pending \in [Ids -> Requests \cup {None}] /\ flagged \subseteq Requests
    BY <1>2 DEF MadeTypes
  <2>. QED
    BY <1>1, <1>3, <1>4, <1>5, <2>1, SuccessorOfId
<1>7. MadeTypes'
  BY <1>1, <1>2, <1>3, <1>5, <1>6 DEF MadeTypes
<1>8. MadeInv' /\ OncePerPlace' /\ WireFollows' /\ Translates'
  BY <1>1, <1>2, <1>3 DEF MadeInv, OncePerPlace, WireFollows, Translates
<1>9. MethodsInv'
  <2>1. pending \in [Ids -> Requests \cup {None}]
    BY <1>2 DEF MadeTypes
  <2>2. \A i \in Ids : pending'[i] = IF i = wire[q] THEN q ELSE pending[i]
    BY <1>1, <2>1
  <2>3. \A i \in Ids : pending'[i] # None => pending'[i] \in Range(onWire') /\ wire'[pending'[i]] = i
    BY <1>1, <1>2, <1>4, <2>2 DEF MethodsInv
  <2>. QED
    BY <1>1, <1>2, <2>3 DEF MethodsInv
<1>10. MarksInv'
  <2>1. ASSUME NEW r \in 1..made, by[r] = "us"
        PROVE  r \in flagged' \/ Marked(r)' \/ Overtaken(r)'
    <3>1. r \in flagged \/ Marked(r) \/ Overtaken(r)
      BY <1>2, <2>1 DEF MarksInv
    <3>2. CASE Overtaken(r)
      BY <1>1, <1>2, <1>3, <3>2 DEF Overtaken
    <3>3. CASE Marked(r)
      <4>1. PICK k \in DOMAIN marks : marks[k] = <<supplied[r], content[r]>>
        BY <3>3 DEF Marked
      <4>2. CASE marks[k] = <<wire[q], content[q]>>
        <5>1. supplied[r] = wire[q]
          BY <4>1, <4>2
        <5>2. r = q => r \in flagged'
          BY <1>5, <4>2
        <5>3. r # q => Overtaken(r)'
          BY <1>1, <1>2, <1>3, <1>4, <5>1 DEF Overtaken
        <5>. QED
          BY <5>2, <5>3
      <4>3. CASE marks[k] # <<wire[q], content[q]>>
        BY <1>2, <1>5, <4>1, <4>3 DEF Marked
      <4>. QED
        BY <4>2, <4>3
    <3>. QED
      BY <1>5, <3>1, <3>2, <3>3
  <2>2. ASSUME NEW r \in Range(onWire') \ Range(sentEv'), by[r] = "us", wire[r] = supplied[r]
        PROVE  r \in flagged'
    <3>1. CASE r \notin Range(sentEv)
      BY <1>1, <1>2, <1>5, <2>2, <3>1 DEF MarksInv
    <3>2. CASE r = q
      <4>1. r \in flagged \/ Marked(r) \/ Overtaken(r)
        BY <1>2, <1>4, <2>2, <3>2 DEF MarksInv, MadeInv
      <4>2. ~Overtaken(r)
        <5>1. \A u, v \in Range(onWire) : wire[u] = wire[v] => u = v
          BY <1>1, WireApart
        <5>. QED
          BY <1>4, <2>2, <3>2, <5>1 DEF Overtaken
      <4>3. Marked(r) => r \in flagged'
        BY <1>5, <2>2, <3>2 DEF Marked
      <4>. QED
        BY <1>5, <4>1, <4>2, <4>3
    <3>. QED
      BY <1>3, <2>2, <3>1, <3>2
  <2>. QED
    BY <1>1, <1>2, <2>1, <2>2 DEF MarksInv
<1>. QED
  BY <1>1, <1>2, <1>7, <1>8, <1>9, <1>10 DEF ToldInv

(* ---- the mitm leg ---- *)

LEMMA MitmCallTold ==
  ASSUME Enough, ToldInv, leg = "mitm", NEW blob \in BOOLEAN, NEW what \in Contents,
         ClientCall(blob, what)
  PROVE  ToldInv'
<1>0. MadeTypes /\ MadeInv /\ ClientFollows /\ WaitsInv /\ MitmInv
  BY DEF ToldInv
<1>1. /\ NewRequest("client", nextClient, what) /\ nextClient \in Ids
      /\ waiting' = [waiting EXCEPT ![nextClient] = made']
      /\ nextClient' = Successor(nextClient) /\ sentEv' = Append(sentEv, made')
      /\ UNCHANGED <<leg, building, queue, nextMsgId, pendingByWireId, wire, onWire, packetRx,
                     recvEv, toClient, answered, pending, bridgeNext, decoded, marks, flagged, took>>
  BY <1>0 DEF ClientCall, hookVars, bridgeVars, MadeTypes
<1>2. /\ made' = made + 1 /\ made' \in Requests /\ made' \in 0..MaxRequests /\ made \in Nat
      /\ by' \in [Requests -> {"client", "us"}] /\ content' \in [Requests -> Contents]
      /\ supplied' \in [Requests -> Ids \cup {None}]
      /\ by'[made'] = "client" /\ supplied'[made'] = nextClient
      /\ \A q \in 1..made : /\ q \in Requests /\ q # made' /\ q \in 1..made'
                            /\ by'[q] = by[q] /\ supplied'[q] = supplied[q]
                            /\ content'[q] = content[q]
      /\ \A q \in 1..made' : q \in 1..made \/ q = made'
      /\ 1..made \subseteq 1..made' /\ made' \in 1..made' /\ made' # None
  BY <1>0, <1>1, NewIs
<1>3. ClientFollows' /\ nextClient' \in Ids
  BY <1>0, <1>1, ClientFollowsOn
<1>4. WaitsInv' /\ waiting' \in [Ids -> Requests \cup {None}]
  BY <1>0, <1>1, WaitsOn
<1>5. sentEv' \in Seq(Requests) /\ Range(sentEv') = Range(sentEv) \cup {made'}
  BY <1>0, <1>1, <1>2, Joined DEF MadeTypes
<1>6. MadeTypes'
  <2>1. building' \in 0..made'
    BY <1>0, <1>1, <1>2 DEF MadeTypes
  <2>. QED
    BY <1>0, <1>1, <1>2, <1>3, <1>4, <1>5, <2>1 DEF MadeTypes
<1>7. MadeInv'
  BY <1>0, <1>1, <1>2, <1>5 DEF MadeInv
<1>8. MitmInv'
  BY <1>0, <1>1, <1>2 DEF MadeInv, MitmInv
<1>. QED
  BY <1>1, <1>3, <1>4, <1>6, <1>7, <1>8 DEF ToldInv

LEMMA MitmDispatchTold ==
  ASSUME ToldInv, leg = "mitm", Dispatch
  PROVE  ToldInv'
<1>1. /\ building # None /\ building' = None /\ packetRx' = Append(packetRx, building)
      /\ UNCHANGED <<leg, requestVars, nextClient, waiting, took, queue, nextMsgId,
                     pendingByWireId, wire, onWire, sentEv, recvEv, toClient, answered,
                     pending, bridgeNext, decoded, marks, flagged>>
  BY DEF Dispatch, clientVars, hookVars, wireVars, bridgeVars
<1>2. /\ made' = made /\ made \in Nat /\ made \in 0..MaxRequests
      /\ by' = by /\ supplied' = supplied /\ content' = content /\ leg' = leg
      /\ MadeTypes /\ MadeInv /\ ClientFollows' /\ WaitsInv' /\ MitmInv
  BY <1>1, OthersTold DEF ToldInv, MadeTypes
<1>3. building \in Requests /\ building \in 1..made /\ building' \in 0..made'
  BY <1>1, <1>2, IdsAssumption DEF MadeTypes, None, Requests
<1>4. packetRx' \in Seq(Requests) /\ Range(packetRx') = Range(packetRx) \cup {building}
  BY <1>1, <1>2, <1>3, Joined DEF MadeTypes
<1>5. MadeTypes'
  BY <1>1, <1>2, <1>3, <1>4 DEF MadeTypes
<1>6. MadeInv' /\ MitmInv'
  BY <1>1, <1>2, <1>3, <1>4 DEF MadeInv, MitmInv
<1>. QED
  BY <1>1, <1>2, <1>5, <1>6 DEF ToldInv

LEMMA RelayTold ==
  ASSUME ToldInv, leg = "mitm", NEW q \in Requests, Relay(q),
         q \in Range(sentEv) \cup Range(packetRx),
         sentEv' \in Seq(Requests), packetRx' \in Seq(Requests),
         Range(sentEv') \subseteq Range(sentEv), Range(packetRx') \subseteq Range(packetRx)
  PROVE  ToldInv'
<1>1. /\ pending' = [pending EXCEPT ![supplied[q]] = q] /\ bridgeNext' = Successor(supplied[q])
      /\ wire' = [wire EXCEPT ![q] = supplied[q]] /\ onWire' = Append(onWire, q)
      /\ flagged' = IF by[q] = "us" THEN flagged \cup {q} ELSE flagged
      /\ UNCHANGED <<leg, requestVars, nextClient, waiting, took, building, queue, nextMsgId,
                     pendingByWireId, recvEv, toClient, answered, decoded, marks>>
  BY DEF Relay, ParseRequest, clientVars, hookVars
<1>2. /\ made' = made /\ made \in Nat
      /\ by' = by /\ supplied' = supplied /\ content' = content /\ leg' = leg
      /\ MadeTypes /\ MadeInv /\ ClientFollows' /\ WaitsInv' /\ MitmInv
  BY <1>1, OthersTold DEF ToldInv
<1>3. q \in 1..made /\ supplied[q] \in Ids
  BY <1>2 DEF MadeInv
<1>4. onWire' \in Seq(Requests) /\ Range(onWire') = Range(onWire) \cup {q}
  BY <1>1, <1>2, Joined DEF MadeTypes
<1>5. /\ pending' \in [Ids -> Requests \cup {None}] /\ bridgeNext' \in Ids
      /\ wire' \in [Requests -> Ids \cup {None}] /\ flagged' \subseteq Requests
      /\ wire'[q] = supplied[q] /\ \A r \in Requests : r # q => wire'[r] = wire[r]
  <2>1. /\ pending \in [Ids -> Requests \cup {None}] /\ flagged \subseteq Requests
        /\ wire \in [Requests -> Ids \cup {None}]
    BY <1>2 DEF MadeTypes
  <2>. QED
    BY <1>1, <1>3, <2>1, SuccessorOfId
<1>6. Range(onWire) \subseteq Requests
  BY <1>2, Members DEF MadeTypes
<1>7. MadeTypes'
  BY <1>1, <1>2, <1>4, <1>5 DEF MadeTypes
<1>8. MadeInv'
  BY <1>1, <1>2, <1>3, <1>4, <1>5, <1>6 DEF MadeInv
<1>9. MitmInv'
  BY <1>1, <1>2, <1>4, <1>5, <1>6 DEF MitmInv
<1>. QED
  BY <1>1, <1>2, <1>7, <1>8, <1>9 DEF ToldInv

(* ---- the answers ---- *)

LEMMA AnswerTold ==
  ASSUME ToldInv, NEW q \in Requests, ServerAnswer(q)
  PROVE  ToldInv'
<1>1. /\ q \in {onWire[k] : k \in DOMAIN onWire} \ answered /\ answered' = answered \cup {q}
      /\ recvEv' = Append(recvEv, q)
      /\ toClient' = IF leg = "page" THEN Append(toClient, q) ELSE toClient
      /\ UNCHANGED <<leg, requestVars, nextClient, waiting, took, building, queue, nextMsgId,
                     pendingByWireId, wire, onWire, sentEv, packetRx, pending, bridgeNext,
                     decoded, marks, flagged>>
  BY DEF ServerAnswer, clientVars, hookVars, wireVars, bridgeVars, markVars
<1>2. /\ made' = made /\ made \in Nat
      /\ by' = by /\ supplied' = supplied /\ content' = content /\ leg' = leg
      /\ MadeTypes /\ MadeInv /\ ClientFollows' /\ WaitsInv'
  BY <1>1, OthersTold
<1>3. q \in Range(onWire) /\ q \notin answered
  BY <1>1 DEF Range
<1>4. /\ recvEv' \in Seq(Requests) /\ Range(recvEv') = Range(recvEv) \cup {q}
      /\ answered' \subseteq Requests
  BY <1>1, <1>2, Joined DEF MadeTypes
<1>5. /\ toClient' \in Seq(Requests) /\ Range(toClient') \subseteq Range(toClient) \cup {q}
      /\ leg = "page" => (Once(toClient) => Once(toClient'))
  <2>1. toClient \in Seq(Requests) /\ q \notin Range(toClient)
    BY <1>2, <1>3 DEF MadeTypes, MadeInv
  <2>2. CASE leg = "page"
    BY <1>1, <2>1, <2>2, Joined
  <2>3. CASE leg # "page"
    BY <1>1, <2>1, <2>3
  <2>. QED
    BY <2>2, <2>3
<1>6. MadeTypes'
  BY <1>1, <1>2, <1>4, <1>5 DEF MadeTypes
<1>7. MadeInv'
  BY <1>1, <1>2, <1>3, <1>4, <1>5 DEF MadeInv
<1>8. ASSUME leg = "page"
      PROVE  OncePerPlace' /\ WireFollows' /\ Translates' /\ MethodsInv' /\ MarksInv'
  <2>0. OncePerPlace /\ WireFollows /\ Translates /\ MethodsInv /\ MarksInv
    BY <1>8 DEF ToldInv
  <2>1. OncePerPlace'
    BY <1>1, <1>2, <1>5, <1>8, <2>0 DEF OncePerPlace, Once
  <2>2. WireFollows' /\ MethodsInv'
    BY <1>1, <2>0 DEF WireFollows, MethodsInv
  <2>3. Translates'
    BY <1>1, <1>2, <1>3, <1>5, <2>0 DEF Translates
  <2>4. MarksInv'
    BY <1>1, <1>2, <2>0 DEF MarksInv, Marked, Overtaken
  <2>. QED
    BY <2>1, <2>2, <2>3, <2>4
<1>9. leg = "mitm" => MitmInv'
  BY <1>1, <1>2 DEF ToldInv, MitmInv
<1>. QED
  BY <1>2, <1>6, <1>7, <1>8, <1>9 DEF ToldInv

LEMMA ReceivedTold ==
  ASSUME Enough, ToldInv, OnRecv
  PROVE  ToldInv'
<1> DEFINE q == Head(recvEv)
<1>1. /\ recvEv # <<>> /\ recvEv' = Tail(recvEv)
      /\ decoded' = [decoded EXCEPT ![q] = pending[wire[q]]]
      /\ pending' = [pending EXCEPT ![wire[q]] = None]
      /\ toClient' = IF leg = "mitm" THEN Append(toClient, q) ELSE toClient
      /\ UNCHANGED <<leg, requestVars, nextClient, waiting, took, building, queue, nextMsgId,
                     pendingByWireId, wire, onWire, sentEv, packetRx, answered, bridgeNext,
                     marks, flagged>>
  BY DEF OnRecv, clientVars, hookVars, wireVars, markVars
<1>2. /\ made' = made /\ made \in Nat
      /\ by' = by /\ supplied' = supplied /\ content' = content /\ leg' = leg
      /\ MadeTypes /\ MadeInv /\ ClientFollows' /\ WaitsInv'
  BY <1>1, OthersTold
<1>3. /\ q \in Requests /\ recvEv' \in Seq(Requests) /\ q \in Range(recvEv)
      /\ Range(recvEv) = Range(recvEv') \cup {q}
  BY <1>1, <1>2, Left DEF MadeTypes
<1>4. q \in answered /\ q \in Range(onWire) /\ wire[q] \in Ids
  BY <1>2, <1>3 DEF MadeInv
<1>. HIDE DEF q
<1>5. /\ pending' \in [Ids -> Requests \cup {None}] /\ decoded' \in [Requests -> 0..Unanswered]
      /\ \A i \in Ids : pending'[i] = IF i = wire[q] THEN None ELSE pending[i]
      /\ \A r \in Requests : decoded'[r] = IF r = q THEN pending[wire[q]] ELSE decoded[r]
  <2>1. /\ pending \in [Ids -> Requests \cup {None}] /\ decoded \in [Requests -> 0..Unanswered]
    BY <1>2 DEF MadeTypes
  <2>2. pending[wire[q]] \in Requests \cup {None}
    BY <1>4, <2>1
  <2>3. pending[wire[q]] \in 0..Unanswered
    BY <2>2, IdsAssumption DEF Requests, None, Unanswered
  <2>. QED
    BY <1>1, <1>3, <1>4, <2>1, <2>3
<1>6. /\ toClient' \in Seq(Requests) /\ Range(toClient') \subseteq Range(toClient) \cup {q}
      /\ leg = "page" => toClient' = toClient
  <2>1. toClient \in Seq(Requests)
    BY <1>2 DEF MadeTypes
  <2>2. CASE leg = "mitm"
    BY <1>1, <1>3, <2>1, <2>2, Joined
  <2>3. CASE leg # "mitm"
    BY <1>1, <2>1, <2>3
  <2>. QED
    BY <2>2, <2>3
<1>7. MadeTypes'
  BY <1>1, <1>2, <1>3, <1>5, <1>6 DEF MadeTypes
<1>8. MadeInv'
  BY <1>1, <1>2, <1>3, <1>4, <1>6 DEF MadeInv
<1>9. ASSUME leg = "page"
      PROVE  OncePerPlace' /\ WireFollows' /\ Translates' /\ MethodsInv' /\ MarksInv'
  <2>0. OncePerPlace /\ WireFollows /\ Translates /\ MethodsInv /\ MarksInv
    BY <1>9 DEF ToldInv
  <2>1. OncePerPlace' /\ WireFollows' /\ Translates'
    BY <1>1, <1>2, <1>6, <1>9, <2>0 DEF OncePerPlace, WireFollows, Translates
  <2>2. \A i \in Ids : pending'[i] # None => pending'[i] \in Range(onWire') /\ wire'[pending'[i]] = i
    BY <1>1, <1>5, <2>0 DEF MethodsInv
  <2>3. pending[wire[q]] \in {q, None}
    <3>1. pending[wire[q]] # None =>
            pending[wire[q]] \in Range(onWire) /\ wire[pending[wire[q]]] = wire[q]
      BY <1>4, <2>0 DEF MethodsInv
    <3>2. \A r, s \in Range(onWire) : wire[r] = wire[s] => r = s
      BY <1>9, WireApart
    <3>. QED
      BY <1>4, <3>1, <3>2
  <2>4. \A r \in Requests : decoded'[r] \in {r, None, Unanswered}
    BY <1>5, <2>0, <2>3 DEF MethodsInv
  <2>5. MarksInv'
    BY <1>1, <1>2, <2>0 DEF MarksInv, Marked, Overtaken
  <2>. QED
    BY <2>1, <2>2, <2>4, <2>5 DEF MethodsInv
<1>10. leg = "mitm" => MitmInv'
  BY <1>1, <1>2 DEF ToldInv, MitmInv
<1>. QED
  BY <1>2, <1>7, <1>8, <1>9, <1>10 DEF ToldInv

LEMMA DeliveredTold ==
  ASSUME Enough, ToldInv, Deliver
  PROVE  ToldInv'
<1> DEFINE q == Head(toClient)
           id == TranslatedId(q)
<1>1. /\ toClient # <<>> /\ toClient' = Tail(toClient)
      /\ pendingByWireId' = IF leg = "page" THEN [pendingByWireId EXCEPT ![wire[q]] = None]
                            ELSE pendingByWireId
      /\ IF waiting[id] = None THEN UNCHANGED <<waiting, took>>
         ELSE /\ took' = [took EXCEPT ![waiting[id]] = q]
              /\ waiting' = [waiting EXCEPT ![id] = None]
      /\ UNCHANGED <<leg, requestVars, nextClient, building, queue, nextMsgId,
                     wire, onWire, sentEv, packetRx, recvEv, answered, pending, bridgeNext,
                     decoded, marks, flagged>>
  BY DEF Deliver, wireVars, bridgeVars, markVars
<1>2. /\ made' = made /\ made \in Nat
      /\ by' = by /\ supplied' = supplied /\ content' = content /\ leg' = leg
      /\ MadeTypes /\ MadeInv /\ ClientFollows' /\ WaitsInv
  BY <1>1, OthersTold
<1>3. /\ q \in Requests /\ toClient' \in Seq(Requests) /\ q \in Range(toClient)
      /\ Range(toClient) = Range(toClient') \cup {q}
      /\ Once(toClient) => Once(toClient') /\ q \notin Range(toClient')
  BY <1>1, <1>2, Left DEF MadeTypes
<1>4. q \in answered /\ q \in Range(onWire) /\ wire[q] \in Ids /\ q \in 1..made /\ supplied[q] \in Ids
  BY <1>2, <1>3 DEF MadeInv
<1>5. id = supplied[q]
  <2>1. CASE leg = "page"
    <3>1. pendingByWireId[wire[q]] = supplied[q] /\ supplied[q] # None
      BY <1>3, <1>4, <2>1, SuccessorOfId DEF ToldInv, Translates
    <3>. QED
      BY <2>1, <3>1 DEF TranslatedId
  <2>2. CASE leg = "mitm"
    BY <1>4, <2>2 DEF ToldInv, MitmInv, TranslatedId
  <2>. QED
    BY <1>2, <2>1, <2>2 DEF MadeTypes
<1>. HIDE DEF q, id
<1>6. /\ pendingByWireId' \in [Ids -> Ids \cup {None}]
      /\ leg = "page" => \A i \in Ids : i # wire[q] => pendingByWireId'[i] = pendingByWireId[i]
  BY <1>1, <1>2, <1>4 DEF MadeTypes
<1>7. /\ waiting \in [Ids -> Requests \cup {None}] /\ took \in [Requests -> 0..Unanswered]
      /\ q \in 0..Unanswered
  BY <1>2, <1>3, IdsAssumption DEF MadeTypes, Requests, Unanswered
<1>8. WaitsInv' /\ waiting' \in [Ids -> Requests \cup {None}] /\ took' \in [Requests -> 0..Unanswered]
  <2>1. CASE waiting[id] = None
    <3>1. waiting' = waiting /\ took' = took
      BY <1>1, <2>1
    <3>. QED
      BY <1>2, <1>7, <3>1 DEF WaitsInv
  <2>2. CASE waiting[id] # None
    <3> DEFINE r == waiting[id]
    <3>1. r \in 1..made /\ by[r] = "client" /\ supplied[r] = supplied[q] /\ r \in Requests
      BY <1>2, <1>4, <1>5, <1>7, <2>2 DEF WaitsInv
    <3>2. took' = [took EXCEPT ![r] = q] /\ waiting' = [waiting EXCEPT ![id] = None]
      BY <1>1, <2>2
    <3>3. q = r \/ by[q] = "us"
      <4>1. by[q] \in {"client", "us"}
        BY <1>2, <1>3 DEF MadeTypes
      <4>. QED
        BY <1>4, <3>1, <4>1 DEF ToldInv, ClientFollows
    <3>. HIDE DEF r
    <3>4. /\ waiting' \in [Ids -> Requests \cup {None}] /\ took' \in [Requests -> 0..Unanswered]
          /\ \A i \in Ids : waiting'[i] = IF i = id THEN None ELSE waiting[i]
          /\ \A s \in Requests : took'[s] = IF s = r THEN q ELSE took[s]
      BY <1>4, <1>5, <1>7, <3>1, <3>2
    <3>5. \A i \in Ids : waiting'[i] # None =>
            waiting'[i] \in 1..made /\ by[waiting'[i]] = "client" /\ supplied[waiting'[i]] = i
      BY <1>2, <3>4 DEF WaitsInv
    <3>6. \A s \in Requests : took'[s] # Unanswered =>
            /\ s \in 1..made /\ took'[s] \in 1..made /\ supplied[took'[s]] = supplied[s]
            /\ took'[s] = s \/ by[took'[s]] = "us"
      BY <1>2, <1>4, <3>1, <3>3, <3>4 DEF WaitsInv
    <3>. QED
      BY <1>2, <3>4, <3>5, <3>6 DEF WaitsInv
  <2>. QED
    BY <2>1, <2>2
<1>9. MadeTypes'
  BY <1>1, <1>2, <1>3, <1>6, <1>8 DEF MadeTypes
<1>10. MadeInv'
  BY <1>1, <1>2, <1>3 DEF MadeInv
<1>11. ASSUME leg = "page"
       PROVE  OncePerPlace' /\ WireFollows' /\ Translates' /\ MethodsInv' /\ MarksInv'
  <2>0. OncePerPlace /\ WireFollows /\ Translates /\ MethodsInv /\ MarksInv
    BY <1>11 DEF ToldInv
  <2>1. OncePerPlace' /\ WireFollows' /\ MethodsInv'
    BY <1>1, <1>2, <1>3, <2>0 DEF OncePerPlace, WireFollows, MethodsInv
  <2>2. \A r, s \in Range(onWire) : wire[r] = wire[s] => r = s
    BY <1>11, WireApart
  <2>3. ASSUME NEW r \in Range(onWire), r \notin answered \/ r \in Range(toClient')
        PROVE  pendingByWireId'[wire[r]] = supplied[r]
    <3>1. r # q /\ (r \notin answered \/ r \in Range(toClient))
      BY <1>3, <1>4, <2>0, <2>3 DEF OncePerPlace
    <3>2. wire[r] # wire[q] /\ wire[r] \in Ids
      BY <1>2, <1>4, <2>2, <3>1 DEF MadeInv
    <3>3. pendingByWireId[wire[r]] = supplied[r]
      BY <2>0, <3>1 DEF Translates
    <3>. QED
      BY <1>6, <1>11, <3>2, <3>3
  <2>4. Translates'
    BY <1>1, <1>2, <2>3 DEF Translates
  <2>5. MarksInv'
    BY <1>1, <1>2, <2>0 DEF MarksInv, Marked, Overtaken
  <2>. QED
    BY <2>1, <2>4, <2>5
<1>12. leg = "mitm" => MitmInv'
  BY <1>1, <1>2 DEF ToldInv, MitmInv
<1>. QED
  BY <1>2, <1>8, <1>9, <1>10, <1>11, <1>12 DEF ToldInv

(* ---- all together ---- *)

LEMMA ToldInitially == Init => ToldInv
<1>. SUFFICES ASSUME Init  PROVE ToldInv
  OBVIOUS
<1>0. /\ Range(queue) = {} /\ Range(onWire) = {} /\ Range(sentEv) = {} /\ Range(packetRx) = {}
      /\ Range(recvEv) = {} /\ Range(toClient) = {}
  <2>1. Range(<<>>) = {}
    BY DEF Range
  <2>. QED
    BY <2>1 DEF Init
<1>1. MadeTypes
  BY IdsAssumption DEF Init, MadeTypes, Ids, Requests, None, Unanswered, Contents
<1>2. MadeInv
  BY <1>0, IdsAssumption DEF Init, MadeInv
<1>3. ClientFollows
  <2>1. nextClient \in Ids /\ made = 0 /\ nextClient = IdAt(nextClient, 0 + 1) /\ 0 \in 0..made
    BY IdsFollow, IdsAssumption DEF Init
  <2>2. 1..made = {}
    BY <2>1
  <2>. QED
    BY <2>1, <2>2 DEF ClientFollows
<1>4. WaitsInv
  BY DEF Init, WaitsInv
<1>5. OncePerPlace /\ WireFollows
  BY <1>0 DEF Init, OncePerPlace, WireFollows, Once, None
<1>6. Translates /\ MethodsInv /\ MitmInv
  BY <1>0 DEF Init, Translates, MethodsInv, MitmInv
<1>7. MarksInv
  <2>1. made = 0
    BY DEF Init
  <2>2. 1..made = {}
    BY <2>1
  <2>. QED
    BY <1>0, <2>2 DEF MarksInv
<1>. QED
  BY <1>1, <1>2, <1>3, <1>4, <1>5, <1>6, <1>7 DEF ToldInv

LEMMA ToldInductive ==
  ASSUME Enough, ToldInv, [Next]_vars  PROVE ToldInv'
<1>1. CASE UNCHANGED vars
  <2>. USE <1>1 DEF vars, requestVars, clientVars, hookVars, bridgeVars, wireVars, markVars
  <2>1. /\ MadeTypes' <=> MadeTypes
        /\ MadeInv' <=> MadeInv
    BY DEF MadeTypes, MadeInv
  <2>2. /\ ClientFollows' <=> ClientFollows
        /\ WaitsInv' <=> WaitsInv
    BY DEF ClientFollows, WaitsInv
  <2>3. /\ OncePerPlace' <=> OncePerPlace
        /\ WireFollows' <=> WireFollows
        /\ Translates' <=> Translates
        /\ MethodsInv' <=> MethodsInv
    BY DEF OncePerPlace, WireFollows, Translates, MethodsInv
  <2>4. MarksInv' <=> MarksInv
    BY DEF MarksInv, Marked, Overtaken
  <2>5. MitmInv' <=> MitmInv
    BY DEF MitmInv
  <2>. QED
    BY <2>1, <2>2, <2>3, <2>4, <2>5 DEF ToldInv
<1>2. leg \in {"page", "mitm"} /\ sentEv \in Seq(Requests) /\ packetRx \in Seq(Requests)
  BY DEF ToldInv, MadeTypes
<1>3. ASSUME NEW blob \in BOOLEAN, NEW what \in Contents, ClientCall(blob, what)  PROVE ToldInv'
  BY <1>2, <1>3, PageCallTold, MitmCallTold
<1>4. CASE Dispatch
  BY <1>2, <1>4, DispatchTold, MitmDispatchTold
<1>5. CASE RunQueued
  <2>1. leg = "page"
    BY <1>2, <1>5 DEF RunQueued, ToldInv, MitmInv
  <2>. QED
    BY <1>5, <2>1, RunQueuedTold
<1>6. CASE RelayClient
  <2>1. /\ leg = "mitm" /\ sentEv # <<>> /\ Relay(Head(sentEv)) /\ sentEv' = Tail(sentEv)
        /\ packetRx' = packetRx
    BY <1>6 DEF RelayClient
  <2>2. /\ Head(sentEv) \in Requests /\ sentEv' \in Seq(Requests)
        /\ Head(sentEv) \in Range(sentEv) /\ Range(sentEv') \subseteq Range(sentEv)
    BY <1>2, <2>1, Left
  <2>. QED
    BY <1>2, <2>1, <2>2, RelayTold
<1>7. CASE RelayInjected
  <2>1. /\ leg = "mitm" /\ packetRx # <<>> /\ Relay(Head(packetRx)) /\ packetRx' = Tail(packetRx)
        /\ sentEv' = sentEv
    BY <1>7 DEF RelayInjected
  <2>2. /\ Head(packetRx) \in Requests /\ packetRx' \in Seq(Requests)
        /\ Head(packetRx) \in Range(packetRx) /\ Range(packetRx') \subseteq Range(packetRx)
    BY <1>2, <2>1, Left
  <2>. QED
    BY <1>2, <2>1, <2>2, RelayTold
<1>. QED
  BY <1>1, <1>3, <1>4, <1>5, <1>6, <1>7, BuildTold, DispatchFailsTold, SeenTold, AnswerTold,
     ReceivedTold, DeliveredTold DEF Next

(* While no more requests are made on a socket than there are ids, a client  *)
(* takes for its own an answer to its own request or to a twin of ours, the  *)
(* bridge decodes a response by no other request's method, and a frame of    *)
(* ours that kept its id is flagged, however the two senders, the hook, the  *)
(* bridge and the server interleave.                                         *)
THEOREM SendersSafety ==
  ASSUME MaxRequests <= MaxId  PROVE Spec => []SendersAreToldApart
<1>0. Enough
  BY DEF Enough
<1>1. ToldInv => SendersAreToldApart
  <2>. SUFFICES ASSUME ToldInv  PROVE SendersAreToldApart
    OBVIOUS
  <2>1. TakesOwnOrTwin
    BY DEF ToldInv, WaitsInv, TakesOwnOrTwin
  <2>2. NeverAnothersMethod
    BY DEF ToldInv, MethodsInv, NeverAnothersMethod
  <2>3. OursIsFlagged
    <3>1. ASSUME NEW k \in DOMAIN onWire, by[onWire[k]] = "us",
                 wire[onWire[k]] = supplied[onWire[k]], sentEv = <<>>
          PROVE  onWire[k] \in flagged
      <4> DEFINE q == onWire[k]
      <4>1. /\ q \in Range(onWire) /\ q \in 1..made /\ Range(sentEv) = {}
            /\ leg \in {"page", "mitm"}
        <5>1. Range(<<>>) = {} /\ q \in Range(onWire)
          BY DEF Range
        <5>. QED
          BY <3>1, <5>1 DEF ToldInv, MadeTypes, MadeInv
      <4>2. CASE leg = "mitm"
        BY <3>1, <4>1, <4>2 DEF ToldInv, MitmInv
      <4>3. CASE leg = "page"
        BY <3>1, <4>1, <4>3 DEF ToldInv, MarksInv
      <4>. QED
        BY <4>1, <4>2, <4>3
    <3>. QED
      BY <3>1 DEF OursIsFlagged
  <2>. QED
    BY <2>1, <2>2, <2>3 DEF SendersAreToldApart
<1>2. ToldInv /\ [Next]_vars => ToldInv'
  BY <1>0, ToldInductive
<1>. QED
  BY <1>1, <1>2, ToldInitially, PTL DEF Spec

(* -------------------------- HistoryStore -------------------------------- *)

(* An open line is there and holds a record, and what is on it is known.     *)
OpenLine ==
  open => /\ Len(lines) >= 1 /\ Len(lines[Len(lines)]) >= 1
          /\ OnOpenLine \subseteq used \ deleted /\ IsFiniteSet(OnOpenLine)

(* Whoever is inside append or delete holds the lock and works on one game.  *)
Inside ==
  \A w \in Workers :
    pc[w] # "idle" => lock = w /\ job[w] \in Games

(* What every list has been told: its games were appended, and what was      *)
(* deleted is not listed.                                                    *)
Archived ==
  /\ Listed \cup deleted \cup harmed \cup acked \subseteq used
  /\ Listed \cap deleted = {}

(* How far the holder of the lock has come with its game.                    *)
StageOf(w) ==
  /\ pc[w] \in {"log", "line", "newline", "undo"} => job[w] \in used \ deleted
  /\ pc[w] \in {"log", "line"} => job[w] \notin Listed \cup harmed
  /\ pc[w] \in {"line", "newline"} => log[job[w]] = "complete"
  /\ pc[w] = "newline" => /\ open /\ OnOpenLine \subseteq harmed \cup {job[w]}
                          /\ job[w] \in Listed \cup harmed
  /\ pc[w] = "undo" => job[w] \notin Listed \ harmed
  /\ pc[w] = "rename" => /\ job[w] \in Listed
                         /\ {kept[w][i] : i \in 1..Len(kept[w])} = Listed \ {job[w]}
  /\ pc[w] = "unlink" => job[w] \in deleted
Stage == \A w \in Workers : StageOf(w)

(* An open line nobody is about to end may yet cost the games on it and the  *)
(* one appended next: the interrupted write that left it pays for them.      *)
PaidFor ==
  /\ IsFiniteSet(harmed) /\ Cardinality(harmed) <= 2 * breaks
  /\ open /\ (\A w \in Workers : pc[w] # "newline")
       => Cardinality(OnOpenLine \cup harmed) + 1 <= 2 * breaks

Survives ==
  /\ acked \subseteq Listed \cup deleted \cup harmed
  /\ \A g \in Listed \ harmed : log[g] = "complete"

SInv == StoreTypeOK /\ OpenLine /\ Inside /\ Archived /\ Stage /\ PaidFor /\ Survives

(* ------ what delete reads back ------------------------------------------- *)

(* k is the list delete builds, after each of the first m lines.             *)
Reads(k, m, g) ==
  k = [n \in 0..m |->
        IF n = 0 THEN <<>>
        ELSE IF Parses(lines[n]) /\ lines[n][1].game # g
             THEN Append(k[n - 1], lines[n][1].game)
             ELSE k[n - 1]]

(* There is such a list, whatever the lines are.                             *)
LEMMA ReadExists ==
  ASSUME NEW g, lines \in Seq(Seq(Pieces)), NEW top \in 0..Len(lines)
  PROVE  \E k : Reads(k, top, g)
<1> DEFINE Bad == {m \in Nat : m <= Len(lines) /\ ~ \E k : Reads(k, m, g)}
<1>0. Len(lines) \in Nat
  OBVIOUS
<1>1. SUFFICES ASSUME Bad # {} PROVE FALSE
  BY <1>0
<1>2. PICK m \in Bad : \A j \in Bad : m <= j
  <2> HIDE DEF Bad
  <2>1. Bad \subseteq Nat
    BY DEF Bad
  <2>. QED
    BY <2>1, <1>1, LeastOf
<1>3. m \in Nat /\ m <= Len(lines) /\ ~ \E k : Reads(k, m, g)
  BY <1>2
<1>4. m # 0
  <2> DEFINE k == [n \in 0..0 |-> <<>>]
  <2>1. Reads(k, 0, g)
    <3>1. \A n \in 0..0 : n = 0
      OBVIOUS
    <3>. QED
      BY <3>1 DEF Reads
  <2>. QED
    BY <2>1, <1>3
<1>5. PICK k : Reads(k, m - 1, g)
  <2>1. m - 1 \in Nat /\ m - 1 <= Len(lines) /\ ~(m <= m - 1)
    BY <1>0, <1>3, <1>4
  <2>. QED
    BY <2>1, <1>2
<1> DEFINE kk == [n \in 0..m |->
                    IF n < m THEN k[n]
                    ELSE IF Parses(lines[n]) /\ lines[n][1].game # g
                         THEN Append(k[n - 1], lines[n][1].game)
                         ELSE k[n - 1]]
<1>6. ASSUME NEW n \in 0..m
      PROVE  kk[n] = IF n = 0 THEN <<>>
                     ELSE IF Parses(lines[n]) /\ lines[n][1].game # g
                          THEN Append(kk[n - 1], lines[n][1].game)
                          ELSE kk[n - 1]
  <2>1. CASE n = 0
    <3>1. n < m /\ n \in 0..(m - 1)
      BY <2>1, <1>3, <1>4
    <3>2. kk[n] = k[n]
      BY <3>1
    <3>3. k[n] = <<>>
      BY <2>1, <3>1, <1>5 DEF Reads
    <3>. QED
      BY <3>2, <3>3, <2>1
  <2>2. CASE n # 0
    <3>1. n - 1 \in 0..m /\ n - 1 < m
      BY <2>2, <1>3
    <3>2. kk[n - 1] = k[n - 1]
      BY <3>1
    <3>3. CASE n = m
      <4>1. ~(n < m)
        BY <3>3, <1>3
      <4>. QED
        BY <4>1, <3>2, <2>2
    <3>4. CASE n # m
      <4>1. n < m /\ n \in 0..(m - 1)
        BY <3>4, <1>3
      <4>2. kk[n] = k[n]
        BY <4>1
      <4>3. k[n] = IF Parses(lines[n]) /\ lines[n][1].game # g
                   THEN Append(k[n - 1], lines[n][1].game)
                   ELSE k[n - 1]
        BY <4>1, <2>2, <1>5 DEF Reads
      <4>. QED
        BY <4>2, <4>3, <3>2, <2>2
    <3>. QED
      BY <3>3, <3>4
  <2>. QED
    BY <2>1, <2>2
<1>7. DOMAIN kk = 0..m /\ kk = [n \in 0..m |-> kk[n]]
  OBVIOUS
<1>8. Reads(kk, m, g)
  <2> HIDE DEF kk
  <2>. QED
    BY <1>6, <1>7 DEF Reads
<1>. QED
  BY <1>8, <1>3

(* What it holds then: the games of the records up to there, but for g.      *)
HoldsAt(k, m, g) ==
  /\ k[m] \in Seq(Games)
  /\ \A h : (\E i \in 1..Len(k[m]) : k[m][i] = h)
              <=> h # g /\ \E i \in 1..m : Parses(lines[i]) /\ lines[i][1].game = h

LEMMA ReadGives ==
  ASSUME NEW g, lines \in Seq(Seq(Pieces)), NEW k, Reads(k, Len(lines), g),
         NEW top \in 0..Len(lines)
  PROVE  HoldsAt(k, top, g)
<1> DEFINE Holds(m) == HoldsAt(k, m, g)
<1> DEFINE Bad == {m \in Nat : m <= Len(lines) /\ ~Holds(m)}
<1>0. Len(lines) \in Nat
  OBVIOUS
<1>1. SUFFICES ASSUME Bad # {} PROVE FALSE
  <2>1. ~Holds(top) => top \in Bad
    <3> HIDE DEF Holds
    <3>. QED
      BY <1>0
  <2>. QED
    BY <2>1, Zenon
<1>2. PICK m \in Bad : \A j \in Bad : m <= j
  <2> HIDE DEF Bad
  <2>1. Bad \subseteq Nat
    BY DEF Bad
  <2>. QED
    BY <2>1, <1>1, LeastOf
<1>3. m \in Nat /\ m <= Len(lines) /\ ~Holds(m)
  BY <1>2
<1>4. m # 0
  <2>1. k[0] = <<>>
    BY <1>0 DEF Reads
  <2>2. Holds(0)
    BY <2>1 DEF HoldsAt
  <2>. QED
    BY <2>2, <1>3
<1>5. Holds(m - 1)
  <2>1. m - 1 \in Nat /\ m - 1 <= Len(lines) /\ ~(m <= m - 1)
    BY <1>0, <1>3, <1>4
  <2>. QED
    BY <2>1, <1>2
<1>6. m \in 1..Len(lines) /\ lines[m] \in Seq(Pieces)
  BY <1>0, <1>3, <1>4
<1>7. k[m] = IF Parses(lines[m]) /\ lines[m][1].game # g
             THEN Append(k[m - 1], lines[m][1].game)
             ELSE k[m - 1]
  <2>1. m \in 0..Len(lines)
    BY <1>0, <1>3
  <2>2. \A n \in 0..Len(lines) :
          k[n] = IF n = 0 THEN <<>>
                 ELSE IF Parses(lines[n]) /\ lines[n][1].game # g
                      THEN Append(k[n - 1], lines[n][1].game)
                      ELSE k[n - 1]
    <3> DEFINE G(n) == IF n = 0 THEN <<>>
                      ELSE IF Parses(lines[n]) /\ lines[n][1].game # g
                           THEN Append(k[n - 1], lines[n][1].game)
                           ELSE k[n - 1]
    <3>1. k = [n \in 0..Len(lines) |-> G(n)]
      BY DEF Reads
    <3> HIDE DEF G
    <3>2. \A n \in 0..Len(lines) : k[n] = G(n)
      BY <3>1
    <3>. QED
      BY <3>2 DEF G
  <2>. QED
    BY <2>1, <2>2, <1>4
<1>8. \A i \in Nat : i \in 1..m <=> i = m \/ i \in 1..(m - 1)
  BY <1>3, <1>4
<1>9. CASE Parses(lines[m]) /\ lines[m][1].game # g
  <2>1. lines[m][1].game \in Games
    <3>1. lines[m][1] \in Pieces
      BY <1>6, <1>9 DEF Parses
    <3>. QED
      BY <3>1 DEF Pieces
  <2> DEFINE s == k[m - 1]  x == lines[m][1].game
  <2>2. s \in Seq(Games) /\ k[m] = Append(s, x) /\ x \in Games /\ x # g
    BY <1>5, <1>7, <1>9, <2>1 DEF HoldsAt
  <2>3. \A h : (\E i \in 1..Len(k[m]) : k[m][i] = h) <=> h = x \/ \E i \in 1..Len(s) : s[i] = h
    <3> HIDE DEF s, x
    <3>1. Len(k[m]) = Len(s) + 1 /\ Len(s) \in Nat /\ k[m][Len(s) + 1] = x
          /\ \A i \in 1..Len(s) : k[m][i] = s[i]
      BY <2>2
    <3>2. \A i \in Nat : i \in 1..(Len(s) + 1) <=> i = Len(s) + 1 \/ i \in 1..Len(s)
      BY <3>1
    <3>3. Len(s) + 1 \in 1..(Len(s) + 1) /\ \A i \in 1..(Len(s) + 1) : i \in Nat
      BY <3>1
    <3>4. \A i \in 1..Len(s) : i \in Nat
      BY <3>1
    <3>. QED
      BY <3>1, <3>2, <3>3, <3>4
  <2>4. \A h : (\E i \in 1..m : Parses(lines[i]) /\ lines[i][1].game = h)
               <=> h = x \/ \E i \in 1..(m - 1) : Parses(lines[i]) /\ lines[i][1].game = h
    BY <1>3, <1>4, <1>8, <1>9
  <2>5. \A h : (\E i \in 1..Len(s) : s[i] = h)
               <=> h # g /\ \E i \in 1..(m - 1) : Parses(lines[i]) /\ lines[i][1].game = h
    BY <1>5 DEF HoldsAt
  <2>6. k[m] \in Seq(Games)
    BY <2>2
  <2>7. \A h : (\E i \in 1..Len(k[m]) : k[m][i] = h)
               <=> h # g /\ \E i \in 1..m : Parses(lines[i]) /\ lines[i][1].game = h
    <3> HIDE DEF s, x
    <3>. QED
      BY <2>2, <2>3, <2>4, <2>5, Zenon
  <2>. QED
    BY <2>6, <2>7, <1>3 DEF HoldsAt
<1>10. CASE ~(Parses(lines[m]) /\ lines[m][1].game # g)
  <2>1. k[m] = k[m - 1]
    BY <1>7, <1>10
  <2>2. \A h : h # g /\ (\E i \in 1..m : Parses(lines[i]) /\ lines[i][1].game = h)
               <=> h # g /\ \E i \in 1..(m - 1) : Parses(lines[i]) /\ lines[i][1].game = h
    BY <1>3, <1>4, <1>8, <1>10
  <2>3. Holds(m)
    BY <2>1, <2>2, <1>5 DEF HoldsAt
  <2>. QED
    BY <2>3, <1>3
<1>. QED
  BY <1>9, <1>10

LEMMA RecordsButGives ==
  ASSUME NEW g, lines \in Seq(Seq(Pieces))
  PROVE  /\ RecordsBut(g) \in Seq(Games)
         /\ {RecordsBut(g)[i] : i \in 1..Len(RecordsBut(g))} = Listed \ {g}
<1>0. Len(lines) \in 0..Len(lines)
  OBVIOUS
<1>1. \E k : Reads(k, Len(lines), g)
  BY <1>0, ReadExists
<1>2. PICK k : Reads(k, Len(lines), g) /\ RecordsBut(g) = k[Len(lines)]
  <2> DEFINE c == CHOOSE k : Reads(k, Len(lines), g)
  <2>1. Reads(c, Len(lines), g)
    BY <1>1
  <2>2. RecordsBut(g) = c[Len(lines)]
    BY DEF RecordsBut, Reads
  <2>. QED
    BY <2>1, <2>2
<1>3. HoldsAt(k, Len(lines), g)
  BY <1>0, <1>2, ReadGives
<1>4. \A h : h \in Listed <=> \E i \in 1..Len(lines) : Parses(lines[i]) /\ lines[i][1].game = h
  <2>1. DOMAIN lines = 1..Len(lines)
    OBVIOUS
  <2>2. \A i \in 1..Len(lines) : Parses(lines[i]) => lines[i][1].game \in Games
    <3>1. ASSUME NEW i \in 1..Len(lines), Parses(lines[i]) PROVE lines[i][1] \in Pieces
      BY <3>1 DEF Parses
    <3>. QED
      BY <3>1 DEF Pieces
  <2>. QED
    BY <2>1, <2>2 DEF Listed
<1> DEFINE s == k[Len(lines)]
<1>5. \A h : (\E i \in 1..Len(s) : s[i] = h) <=> h # g /\ h \in Listed
  BY <1>3, <1>4, Zenon DEF HoldsAt
<1>6. s \in Seq(Games) /\ s = RecordsBut(g)
  BY <1>2, <1>3, Zenon DEF HoldsAt
<1> HIDE DEF s
<1>7. {s[i] : i \in 1..Len(s)} = Listed \ {g}
  BY <1>5
<1>. QED
  BY <1>6, <1>7

(* ------ what the steps do to the list ------------------------------------ *)

LEMMA WriteGives ==
  ASSUME StoreTypeOK, OpenLine, NEW piece \in Pieces, Write(piece)
  PROVE  /\ lines' \in Seq(Seq(Pieces)) /\ open' = TRUE
         /\ Len(lines') >= 1 /\ Len(lines'[Len(lines')]) >= 1
         /\ OnOpenLine' = OnOpenLine \cup {piece.game}
         /\ Listed' \subseteq Listed \cup {piece.game}
         /\ open \/ ~piece.whole => Listed' \subseteq Listed
         /\ Listed \subseteq Listed' \cup OnOpenLine
         /\ ~open /\ piece.whole => piece.game \in Listed'
<1>0. lines \in Seq(Seq(Pieces)) /\ Len(lines) \in Nat /\ open \in BOOLEAN
  BY DEF StoreTypeOK
<1>1. piece.game \in Games /\ piece.whole \in BOOLEAN
  BY DEF Pieces
<1>2. CASE open
  <2> DEFINE n == Len(lines)  last == lines[n]
  <2>1. n \in 1..n /\ last \in Seq(Pieces) /\ Len(last) >= 1
    BY <1>0, <1>2 DEF OpenLine
  <2>2. lines' = [lines EXCEPT ![n] = Append(last, piece)] /\ open' = TRUE
    BY <1>2 DEF Write
  <2> HIDE DEF last
  <2>3. Append(last, piece) \in Seq(Pieces)
    BY <2>1
  <2>4. /\ lines' \in Seq(Seq(Pieces)) /\ Len(lines') = n
        /\ lines'[n] = Append(last, piece)
        /\ \A i \in 1..n : i # n => lines'[i] = lines[i]
    BY <1>0, <2>1, <2>2, <2>3
  <2>5. /\ Len(Append(last, piece)) = Len(last) + 1
        /\ Append(last, piece)[Len(last) + 1] = piece
        /\ \A i \in 1..Len(last) : Append(last, piece)[i] = last[i]
    BY <2>1
  <2>6. OnOpenLine = {last[i].game : i \in 1..Len(last)}
    BY <1>2, <2>1 DEF OnOpenLine, last
  <2>7. OnOpenLine' = {lines'[n][i].game : i \in 1..(Len(last) + 1)}
    <3>1. DOMAIN lines'[n] = 1..(Len(last) + 1)
      BY <2>3, <2>4, <2>5
    <3>2. OnOpenLine' = {lines'[n][i].game : i \in DOMAIN lines'[n]}
      BY <2>2, <2>4 DEF OnOpenLine
    <3>. QED
      BY <3>1, <3>2
  <2>8. OnOpenLine' = OnOpenLine \cup {piece.game}
    <3>1. \A i \in Nat : i \in 1..(Len(last) + 1) <=> i = Len(last) + 1 \/ i \in 1..Len(last)
      BY <2>1
    <3>. QED
      BY <2>1, <2>4, <2>5, <2>6, <2>7, <3>1
  <2>9. ~Parses(lines'[n])
    BY <2>1, <2>4, <2>5 DEF Parses
  <2>10. /\ DOMAIN lines = 1..n /\ DOMAIN lines' = 1..n
         /\ \A i \in 1..n : Parses(lines'[i]) => i # n /\ lines'[i] = lines[i]
    <3>1. DOMAIN lines = 1..n /\ DOMAIN lines' = 1..n
      BY <1>0, <2>4
    <3>2. \A i \in 1..n : Parses(lines'[i]) => i # n
      BY <2>9
    <3>. QED
      BY <2>4, <3>1, <3>2
  <2>11. Listed' \subseteq Listed
    BY <2>10 DEF Listed
  <2>12. \A i \in 1..n : Parses(lines[i]) =>
           \/ Parses(lines'[i]) /\ lines'[i][1].game = lines[i][1].game
           \/ lines[i][1].game \in OnOpenLine
    <3>1. ASSUME NEW i \in 1..n, Parses(lines[i]), i = n
          PROVE  lines[i][1].game \in OnOpenLine
      BY <3>1, <2>1, <2>6 DEF last
    <3>2. ASSUME NEW i \in 1..n, Parses(lines[i]), i # n
          PROVE  Parses(lines'[i]) /\ lines'[i][1].game = lines[i][1].game
      BY <3>2, <2>4 DEF Parses
    <3>. QED
      BY <3>1, <3>2
  <2>13. Listed \subseteq Listed' \cup OnOpenLine
    BY <2>10, <2>12 DEF Listed
  <2>14. Len(lines') >= 1 /\ Len(lines'[Len(lines')]) >= 1
    BY <2>1, <2>4, <2>5
  <2>. QED
    BY <1>2, <2>2, <2>4, <2>8, <2>11, <2>13, <2>14
<1>3. CASE ~open
  <2> DEFINE n == Len(lines)
  <2>1. lines' = Append(lines, <<piece>>) /\ open' = TRUE
    BY <1>3 DEF Write
  <2>2. <<piece>> \in Seq(Pieces) /\ Len(<<piece>>) = 1 /\ <<piece>>[1] = piece
    OBVIOUS
  <2>3. /\ lines' \in Seq(Seq(Pieces)) /\ Len(lines') = n + 1 /\ lines'[n + 1] = <<piece>>
        /\ \A i \in 1..n : lines'[i] = lines[i]
    BY <1>0, <2>1, <2>2
  <2>4. DOMAIN lines = 1..n /\ DOMAIN lines' = 1..(n + 1)
    BY <1>0, <2>3
  <2>5. OnOpenLine = {}
    BY <1>3 DEF OnOpenLine
  <2>6. OnOpenLine' = {piece.game}
    <3>1. OnOpenLine' = {lines'[n + 1][i].game : i \in DOMAIN lines'[n + 1]}
      BY <2>1, <2>3 DEF OnOpenLine
    <3>2. DOMAIN lines'[n + 1] = {1}
      BY <2>3, <2>2
    <3>. QED
      BY <3>1, <3>2, <2>2, <2>3
  <2>7. \A i \in Nat : i \in 1..(n + 1) <=> i = n + 1 \/ i \in 1..n
    BY <1>0
  <2>8. Parses(lines'[n + 1]) <=> piece.whole
    BY <2>2, <2>3 DEF Parses
  <2>9. n + 1 \in 1..(n + 1)
    BY <1>0
  <2>10. Listed \subseteq Listed'
    BY <2>3, <2>4, <2>7 DEF Listed
  <2>11. Listed' \subseteq Listed \cup {piece.game}
    BY <2>2, <2>3, <2>4, <2>7 DEF Listed
  <2>12. ~piece.whole => Listed' \subseteq Listed
    BY <2>3, <2>4, <2>7, <2>8 DEF Listed
  <2>13. piece.whole => piece.game \in Listed'
    BY <1>1, <2>2, <2>3, <2>4, <2>8, <2>9 DEF Listed
  <2>14. Len(lines') >= 1 /\ Len(lines'[Len(lines')]) >= 1
    BY <1>0, <2>2, <2>3
  <2>. QED
    BY <1>3, <2>1, <2>3, <2>5, <2>6, <2>10, <2>11, <2>12, <2>13, <2>14
<1>. QED
  BY <1>0, <1>2, <1>3

LEMMA RewriteGives ==
  ASSUME NEW rest \in Seq(Games), Rewrite(rest)
  PROVE  /\ lines' \in Seq(Seq(Pieces)) /\ open' = FALSE /\ OnOpenLine' = {}
         /\ Listed' = {rest[i] : i \in 1..Len(rest)}
<1> DEFINE n == Len(rest)
<1>0. n \in Nat /\ \A i \in 1..n : rest[i] \in Games
  OBVIOUS
<1>1. lines' = [i \in 1..n |-> <<[game |-> rest[i], whole |-> TRUE]>>] /\ open' = FALSE
  BY DEF Rewrite
<1>2. \A i \in 1..n : lines'[i] = <<[game |-> rest[i], whole |-> TRUE]>>
  BY <1>1
<1>3. \A i \in 1..n : [game |-> rest[i], whole |-> TRUE] \in Pieces
  BY <1>0 DEF Pieces
<1>4. \A i \in 1..n : lines'[i] \in Seq(Pieces)
  <2>1. \A p \in Pieces : <<p>> \in Seq(Pieces)
    OBVIOUS
  <2>. QED
    BY <1>2, <1>3, <2>1
<1>5. lines' \in Seq(Seq(Pieces)) /\ DOMAIN lines' = 1..n
  BY <1>0, <1>1, <1>4
<1>6. \A i \in 1..n : Parses(lines'[i]) /\ lines'[i][1].game = rest[i]
  <2>1. \A p : Len(<<p>>) = 1 /\ <<p>>[1] = p
    OBVIOUS
  <2>2. ASSUME NEW i \in 1..n
        PROVE  Len(lines'[i]) = 1 /\ lines'[i][1] = [game |-> rest[i], whole |-> TRUE]
    BY <1>2, <2>1
  <2>3. \A g : [game |-> g, whole |-> TRUE].whole /\ [game |-> g, whole |-> TRUE].game = g
    OBVIOUS
  <2>4. ASSUME NEW i \in 1..n
        PROVE  lines'[i][1].whole /\ lines'[i][1].game = rest[i]
    BY <2>2, <2>3, Zenon
  <2>. QED
    BY <2>2, <2>4 DEF Parses
<1>7. Listed' = {rest[i] : i \in 1..n}
  BY <1>0, <1>5, <1>6 DEF Listed
<1>. QED
  BY <1>1, <1>5, <1>7 DEF OnOpenLine

LEMMA SameLines ==
  ASSUME UNCHANGED lines
  PROVE  Listed' = Listed /\ (open' = open => OnOpenLine' = OnOpenLine)
         /\ (open' = FALSE => OnOpenLine' = {})
BY DEF Listed, OnOpenLine

(* Whoever moves is alone inside.                                            *)
LEMMA Alone ==
  ASSUME Inside, NEW w \in Workers, pc[w] # "idle" \/ lock = NoWorker
  PROVE  \A v \in Workers : v # w => pc[v] = "idle"
BY StoreAssumption DEF StoreAssumption, Inside

(* One more game is at most one more.                                        *)
LEMMA OneMore ==
  ASSUME NEW S, IsFiniteSet(S), NEW x
  PROVE  /\ IsFiniteSet(S \cup {x}) /\ Cardinality(S) \in Nat
         /\ Cardinality(S \cup {x}) \in Nat /\ Cardinality(S \cup {x}) <= Cardinality(S) + 1
<1>1. /\ IsFiniteSet(S \cup {x})
      /\ Cardinality(S \cup {x}) = IF x \in S THEN Cardinality(S) ELSE Cardinality(S)+1
  BY FS_AddElement, Zenon
<1>2. Cardinality(S) \in Nat
  BY FS_CardinalityType, Zenon
<1>. QED
  BY <1>1, <1>2

(* ------ the invariant ---------------------------------------------------- *)

LEMMA InitSInv == StoreInit => SInv
<1> SUFFICES ASSUME StoreInit PROVE SInv
  OBVIOUS
<1>1. Listed = {} /\ OnOpenLine = {}
  BY DEF StoreInit, Listed, OnOpenLine
<1>2. StoreTypeOK
  <2>1. <<>> \in Seq(Seq(Pieces)) /\ <<>> \in Seq(Games)
    OBVIOUS
  <2>2. /\ log \in [Games -> {"none", "partial", "complete"}]
        /\ pc \in [Workers -> Phases] /\ job \in [Workers -> Games \cup {NoGame}]
    BY DEF StoreInit, Phases
  <2>3. kept \in [Workers -> Seq(Games)]
    BY <2>1 DEF StoreInit
  <2>. QED
    BY <2>1, <2>2, <2>3 DEF StoreInit, StoreTypeOK
<1>3. IsFiniteSet({}) /\ Cardinality({}) = 0
  BY FS_EmptySet
<1>4. OpenLine /\ Inside
  BY DEF StoreInit, OpenLine, Inside
<1>5. Archived /\ Survives
  BY <1>1 DEF StoreInit, Archived, Survives
<1>6. Stage
  BY DEF StoreInit, Stage, StageOf
<1>7. PaidFor
  BY <1>3 DEF StoreInit, PaidFor
<1>. QED
  BY <1>2, <1>4, <1>5, <1>6, <1>7 DEF SInv


(* When nobody is left inside there is nothing to say of anyone.             *)
LEMMA NobodyInside ==
  ASSUME \A v \in Workers : pc'[v] = "idle"
  PROVE  Inside' /\ Stage'
BY DEF Inside, Stage, StageOf

(* A move of the one inside concerns that one's stage only.                  *)
LEMMA OneInside ==
  ASSUME NEW w \in Workers, \A v \in Workers : v # w => pc'[v] = "idle",
         lock' = w, job'[w] \in Games, StageOf(w)'
  PROVE  Inside' /\ Stage'
BY DEF Inside, Stage, StageOf

LEMMA AppendLogSaves ==
  ASSUME SInv, NEW w \in Workers, AppendLog(w)
  PROVE  SInv'
<1>1. /\ pc[w] = "log" /\ lock = w /\ job[w] \in Games /\ pc \in [Workers -> Phases]
      /\ \A v \in Workers : v # w => pc[v] = "idle"
  BY Alone DEF SInv, Inside, StoreTypeOK, AppendLog, Step
<1>2. StageOf(w)
  BY DEF SInv, Stage
<1>3. Listed' = Listed /\ (open' = open => OnOpenLine' = OnOpenLine)
  BY SameLines DEF AppendLog, Step, Finish, disk, damage
<1>4. StoreTypeOK'
  BY <1>1 DEF SInv, StoreTypeOK, AppendLog, Step, Finish, disk, damage, Phases
<1>5. StageOf(w)'
  BY <1>1, <1>2, <1>3 DEF StageOf, AppendLog, Step, Finish, disk, damage, SInv, StoreTypeOK
<1>6. Inside' /\ Stage'
  BY <1>1, <1>5, OneInside DEF AppendLog, Step, Finish, disk, damage, SInv, StoreTypeOK
<1>7. OpenLine'
  BY <1>3 DEF SInv, OpenLine, AppendLog, Step, Finish, disk, damage
<1>8. Archived'
  BY <1>2, <1>1, <1>3 DEF SInv, Archived, StageOf, AppendLog, Step, Finish, disk, damage
<1>9. Survives'
  BY <1>1, <1>2, <1>3 DEF SInv, Survives, StageOf, StoreTypeOK, AppendLog, Step, Finish, disk, damage
<1>10. PaidFor'
  BY <1>1, <1>2, <1>3 DEF SInv, PaidFor, StageOf, AppendLog, Step, Finish, disk, damage
<1>. QED
  BY <1>4, <1>6, <1>7, <1>8, <1>9, <1>10 DEF SInv

LEMMA AppendLogFailsSaves ==
  ASSUME SInv, NEW w \in Workers, AppendLogFails(w)
  PROVE  SInv'
<1>1. /\ pc[w] = "log" /\ lock = w /\ job[w] \in Games /\ pc \in [Workers -> Phases]
      /\ \A v \in Workers : v # w => pc[v] = "idle"
  BY Alone DEF SInv, Inside, StoreTypeOK, AppendLogFails, Step
<1>2. StageOf(w)
  BY DEF SInv, Stage
<1>3. Listed' = Listed /\ (open' = open => OnOpenLine' = OnOpenLine)
  BY SameLines DEF AppendLogFails, Step, Finish, disk, damage
<1>4. StoreTypeOK'
  BY <1>1 DEF SInv, StoreTypeOK, AppendLogFails, Step, Finish, disk, damage, Phases
<1>6. Inside' /\ Stage'
  BY <1>1, NobodyInside DEF AppendLogFails, Step, Finish, disk, damage
<1>7. OpenLine'
  BY <1>3 DEF SInv, OpenLine, AppendLogFails, Step, Finish, disk, damage
<1>8. Archived'
  BY <1>2, <1>1, <1>3 DEF SInv, Archived, StageOf, AppendLogFails, Step, Finish, disk, damage
<1>9. Survives'
  BY <1>1, <1>2, <1>3 DEF SInv, Survives, StageOf, StoreTypeOK, AppendLogFails, Step, Finish, disk, damage
<1>10. PaidFor'
  BY <1>1, <1>2, <1>3 DEF SInv, PaidFor, StageOf, AppendLogFails, Step, Finish, disk, damage
<1>. QED
  BY <1>4, <1>6, <1>7, <1>8, <1>9, <1>10 DEF SInv

LEMMA AppendLineFailsSaves ==
  ASSUME SInv, NEW w \in Workers, AppendLineFails(w)
  PROVE  SInv'
<1>1. /\ pc[w] = "line" /\ lock = w /\ job[w] \in Games /\ pc \in [Workers -> Phases]
      /\ \A v \in Workers : v # w => pc[v] = "idle"
  BY Alone DEF SInv, Inside, StoreTypeOK, AppendLineFails, Step
<1>2. StageOf(w)
  BY DEF SInv, Stage
<1>3. Listed' = Listed /\ (open' = open => OnOpenLine' = OnOpenLine)
  BY SameLines DEF AppendLineFails, Step, Finish, disk, damage
<1>4. StoreTypeOK'
  BY <1>1 DEF SInv, StoreTypeOK, AppendLineFails, Step, Finish, disk, damage, Phases
<1>5. StageOf(w)'
  BY <1>1, <1>2, <1>3 DEF StageOf, AppendLineFails, Step, Finish, disk, damage, SInv, StoreTypeOK
<1>6. Inside' /\ Stage'
  BY <1>1, <1>5, OneInside DEF AppendLineFails, Step, Finish, disk, damage, SInv, StoreTypeOK
<1>7. OpenLine'
  BY <1>3 DEF SInv, OpenLine, AppendLineFails, Step, Finish, disk, damage
<1>8. Archived'
  BY <1>2, <1>1, <1>3 DEF SInv, Archived, StageOf, AppendLineFails, Step, Finish, disk, damage
<1>9. Survives'
  BY <1>1, <1>2, <1>3 DEF SInv, Survives, StageOf, StoreTypeOK, AppendLineFails, Step, Finish, disk, damage
<1>10. PaidFor'
  BY <1>1, <1>2, <1>3 DEF SInv, PaidFor, StageOf, AppendLineFails, Step, Finish, disk, damage
<1>. QED
  BY <1>4, <1>6, <1>7, <1>8, <1>9, <1>10 DEF SInv

LEMMA AppendNewlineSaves ==
  ASSUME SInv, NEW w \in Workers, AppendNewline(w)
  PROVE  SInv'
<1>1. /\ pc[w] = "newline" /\ lock = w /\ job[w] \in Games /\ pc \in [Workers -> Phases]
      /\ \A v \in Workers : v # w => pc[v] = "idle"
  BY Alone DEF SInv, Inside, StoreTypeOK, AppendNewline, Step
<1>2. StageOf(w)
  BY DEF SInv, Stage
<1>3. Listed' = Listed /\ (open' = open => OnOpenLine' = OnOpenLine)
  BY SameLines DEF AppendNewline, Step, Finish, disk, damage
<1>4. StoreTypeOK'
  <2>1. <<>> \in Seq(Games)
    OBVIOUS
  <2>2. kept' \in [Workers -> Seq(Games)] /\ lock' \in Workers \cup {NoWorker}
    BY <2>1 DEF SInv, StoreTypeOK, AppendNewline, Finish
  <2>3. pc' \in [Workers -> Phases] /\ job' \in [Workers -> Games \cup {NoGame}]
    BY <1>1 DEF SInv, StoreTypeOK, AppendNewline, Finish, Phases
  <2>4. acked' \subseteq Games /\ open' \in BOOLEAN
    BY <1>1 DEF SInv, StoreTypeOK, AppendNewline
  <2>. QED
    BY <2>2, <2>3, <2>4 DEF SInv, StoreTypeOK, AppendNewline, damage
<1>6. Inside' /\ Stage'
  BY <1>1, NobodyInside DEF AppendNewline, Step, Finish, disk, damage
<1>7. OpenLine'
  BY <1>3 DEF SInv, OpenLine, AppendNewline, Step, Finish, disk, damage
<1>8. Archived'
  BY <1>2, <1>1, <1>3 DEF SInv, Archived, StageOf, AppendNewline, Step, Finish, disk, damage
<1>9. Survives'
  BY <1>1, <1>2, <1>3 DEF SInv, Survives, StageOf, StoreTypeOK, AppendNewline, Step, Finish, disk, damage
<1>10. PaidFor'
  BY <1>1, <1>2, <1>3 DEF SInv, PaidFor, StageOf, AppendNewline, Step, Finish, disk, damage
<1>. QED
  BY <1>4, <1>6, <1>7, <1>8, <1>9, <1>10 DEF SInv

LEMMA AppendNewlineFailsSaves ==
  ASSUME SInv, NEW w \in Workers, AppendNewlineFails(w)
  PROVE  SInv'
<1>1. /\ pc[w] = "newline" /\ lock = w /\ job[w] \in Games /\ pc \in [Workers -> Phases]
      /\ \A v \in Workers : v # w => pc[v] = "idle"
  BY Alone DEF SInv, Inside, StoreTypeOK, AppendNewlineFails, Step
<1>2. StageOf(w)
  BY DEF SInv, Stage
<1>3. Listed' = Listed /\ (open' = open => OnOpenLine' = OnOpenLine)
  BY SameLines DEF AppendNewlineFails, Step, Finish, disk, damage
<1>4. StoreTypeOK'
  BY <1>1 DEF SInv, StoreTypeOK, AppendNewlineFails, Step, Finish, disk, damage, Phases
<1>5. StageOf(w)'
  BY <1>1, <1>2, <1>3 DEF StageOf, AppendNewlineFails, Step, Finish, disk, damage, SInv, StoreTypeOK
<1>6. Inside' /\ Stage'
  BY <1>1, <1>5, OneInside DEF AppendNewlineFails, Step, Finish, disk, damage, SInv, StoreTypeOK
<1>7. OpenLine'
  BY <1>3 DEF SInv, OpenLine, AppendNewlineFails, Step, Finish, disk, damage
<1>8. Archived'
  BY <1>2, <1>1, <1>3 DEF SInv, Archived, StageOf, AppendNewlineFails, Step, Finish, disk, damage
<1>9. Survives'
  BY <1>1, <1>2, <1>3 DEF SInv, Survives, StageOf, StoreTypeOK, AppendNewlineFails, Step, Finish, disk, damage
<1>10. PaidFor'
  <2>1. /\ IsFiniteSet(harmed) /\ Cardinality(harmed) <= 2 * breaks
        /\ breaks \in Nat /\ OnOpenLine \subseteq harmed \cup {job[w]}
    BY <1>1, <1>2 DEF SInv, PaidFor, StoreTypeOK, StageOf
  <2>2. /\ harmed' = harmed \cup {job[w]} /\ breaks' = breaks + 1
        /\ OnOpenLine' \cup harmed' = harmed'
    BY <1>3, <2>1 DEF AppendNewlineFails, disk
  <2>3. /\ IsFiniteSet(harmed') /\ Cardinality(harmed) \in Nat
        /\ Cardinality(harmed') <= Cardinality(harmed) + 1 /\ Cardinality(harmed') \in Nat
    BY <2>1, <2>2, OneMore
  <2>4. breaks' \in Nat /\ 2 * breaks' = 2 * breaks + 2
    BY <2>1, <2>2
  <2>5. /\ Cardinality(harmed') <= 2 * breaks'
        /\ Cardinality(OnOpenLine' \cup harmed') + 1 <= 2 * breaks'
    <3>1. Cardinality(OnOpenLine' \cup harmed') = Cardinality(harmed')
      BY <2>2, Zenon
    <3>2. \A k, h, b, bb \in Nat : k <= h + 1 /\ h <= 2 * b /\ 2 * bb = 2 * b + 2
                                   => k <= 2 * bb /\ k + 1 <= 2 * bb
      OBVIOUS
    <3>3. Cardinality(harmed') <= 2 * breaks' /\ Cardinality(harmed') + 1 <= 2 * breaks'
      BY <2>1, <2>3, <2>4, <3>2, Zenon
    <3>. QED
      BY <3>1, <3>3, Zenon
  <2>. QED
    BY <2>3, <2>5 DEF PaidFor
<1>. QED
  BY <1>4, <1>6, <1>7, <1>8, <1>9, <1>10 DEF SInv

LEMMA AppendUndoSaves ==
  ASSUME SInv, NEW w \in Workers, AppendUndo(w)
  PROVE  SInv'
<1>1. /\ pc[w] = "undo" /\ lock = w /\ job[w] \in Games /\ pc \in [Workers -> Phases]
      /\ \A v \in Workers : v # w => pc[v] = "idle"
  BY Alone DEF SInv, Inside, StoreTypeOK, AppendUndo, Step
<1>2. StageOf(w)
  BY DEF SInv, Stage
<1>3. Listed' = Listed /\ (open' = open => OnOpenLine' = OnOpenLine)
  BY SameLines DEF AppendUndo, Step, Finish, disk, damage
<1>4. StoreTypeOK'
  BY <1>1 DEF SInv, StoreTypeOK, AppendUndo, Step, Finish, disk, damage, Phases
<1>6. Inside' /\ Stage'
  BY <1>1, NobodyInside DEF AppendUndo, Step, Finish, disk, damage
<1>7. OpenLine'
  BY <1>3 DEF SInv, OpenLine, AppendUndo, Step, Finish, disk, damage
<1>8. Archived'
  BY <1>2, <1>1, <1>3 DEF SInv, Archived, StageOf, AppendUndo, Step, Finish, disk, damage
<1>9. Survives'
  <2>1. \A g \in Listed \ harmed : g \in Games /\ g # job[w]
    BY <1>1, <1>2 DEF StageOf, Listed
  <2>2. \A g \in Games : g # job[w] => log'[g] = log[g]
    BY DEF AppendUndo, SInv, StoreTypeOK
  <2>. QED
    BY <1>3, <2>1, <2>2 DEF SInv, Survives, AppendUndo, damage
<1>10. PaidFor'
  BY <1>1, <1>2, <1>3 DEF SInv, PaidFor, StageOf, AppendUndo, Step, Finish, disk, damage
<1>. QED
  BY <1>4, <1>6, <1>7, <1>8, <1>9, <1>10 DEF SInv

LEMMA DeleteReadSaves ==
  ASSUME SInv, NEW w \in Workers, DeleteRead(w)
  PROVE  SInv'
<1>1. /\ pc[w] = "read" /\ lock = w /\ job[w] \in Games /\ pc \in [Workers -> Phases]
      /\ \A v \in Workers : v # w => pc[v] = "idle"
  BY Alone DEF SInv, Inside, StoreTypeOK, DeleteRead, Step
<1>2. StageOf(w)
  BY DEF SInv, Stage
<1>3. Listed' = Listed /\ (open' = open => OnOpenLine' = OnOpenLine)
  BY SameLines DEF DeleteRead, Step, Finish, disk, damage
<1>4. StoreTypeOK'
  <2>1. <<>> \in Seq(Games) /\ RecordsBut(job[w]) \in Seq(Games)
    BY RecordsButGives DEF SInv, StoreTypeOK
  <2>2. kept' \in [Workers -> Seq(Games)] /\ lock' \in Workers \cup {NoWorker}
    BY <2>1 DEF SInv, StoreTypeOK, DeleteRead, Finish
  <2>3. pc' \in [Workers -> Phases] /\ job' \in [Workers -> Games \cup {NoGame}]
    <3>1. \/ pc' = [pc EXCEPT ![w] = "rename"] /\ job' = job
          \/ pc' = [pc EXCEPT ![w] = "idle"] /\ job' = [job EXCEPT ![w] = NoGame]
      BY DEF DeleteRead, Finish
    <3>2. "rename" \in Phases /\ "idle" \in Phases /\ job \in [Workers -> Games \cup {NoGame}]
      BY DEF SInv, StoreTypeOK, Phases
    <3>. QED
      BY <1>1, <3>1, <3>2
  <2>. QED
    BY <2>2, <2>3 DEF SInv, StoreTypeOK, DeleteRead, disk, damage
<1>6. Inside' /\ Stage'
  <2>1. CASE job[w] \in Listed
    <3>1. /\ pc' = [pc EXCEPT ![w] = "rename"] /\ kept' = [kept EXCEPT ![w] = RecordsBut(job[w])]
          /\ UNCHANGED <<lock, job>>
      BY <2>1 DEF DeleteRead
    <3>2. pc'[w] = "rename" /\ kept'[w] = RecordsBut(job[w]) /\ job'[w] = job[w] /\ lock' = w
      BY <1>1, <3>1 DEF SInv, StoreTypeOK
    <3>3. {RecordsBut(job[w])[i] : i \in 1..Len(RecordsBut(job[w]))} = Listed \ {job[w]}
      BY RecordsButGives DEF SInv, StoreTypeOK
    <3>4. StageOf(w)'
      BY <1>3, <2>1, <3>2, <3>3 DEF StageOf
    <3>. QED
      BY <1>1, <3>1, <3>2, <3>4, OneInside
  <2>2. CASE job[w] \notin Listed
    <3>1. pc' = [pc EXCEPT ![w] = "idle"]
      BY <2>2 DEF DeleteRead, Finish
    <3>. QED
      BY <1>1, <3>1, NobodyInside
  <2>. QED
    BY <2>1, <2>2
<1>7. OpenLine'
  BY <1>3 DEF SInv, OpenLine, DeleteRead, Step, Finish, disk, damage
<1>8. Archived'
  BY <1>2, <1>1, <1>3 DEF SInv, Archived, StageOf, DeleteRead, Step, Finish, disk, damage
<1>9. Survives'
  BY <1>1, <1>2, <1>3 DEF SInv, Survives, StageOf, StoreTypeOK, DeleteRead, Step, Finish, disk, damage
<1>10. PaidFor'
  BY <1>1, <1>2, <1>3 DEF SInv, PaidFor, StageOf, DeleteRead, Step, Finish, disk, damage
<1>. QED
  BY <1>4, <1>6, <1>7, <1>8, <1>9, <1>10 DEF SInv

LEMMA DeleteUnlinkSaves ==
  ASSUME SInv, NEW w \in Workers, DeleteUnlink(w)
  PROVE  SInv'
<1>1. /\ pc[w] = "unlink" /\ lock = w /\ job[w] \in Games /\ pc \in [Workers -> Phases]
      /\ \A v \in Workers : v # w => pc[v] = "idle"
  BY Alone DEF SInv, Inside, StoreTypeOK, DeleteUnlink, Step
<1>2. StageOf(w)
  BY DEF SInv, Stage
<1>3. Listed' = Listed /\ (open' = open => OnOpenLine' = OnOpenLine)
  BY SameLines DEF DeleteUnlink, Step, Finish, disk, damage
<1>4. StoreTypeOK'
  BY <1>1 DEF SInv, StoreTypeOK, DeleteUnlink, Step, Finish, disk, damage, Phases
<1>6. Inside' /\ Stage'
  BY <1>1, NobodyInside DEF DeleteUnlink, Step, Finish, disk, damage
<1>7. OpenLine'
  BY <1>3 DEF SInv, OpenLine, DeleteUnlink, Step, Finish, disk, damage
<1>8. Archived'
  BY <1>2, <1>1, <1>3 DEF SInv, Archived, StageOf, DeleteUnlink, Step, Finish, disk, damage
<1>9. Survives'
  <2>1. \A g \in Listed \ harmed : g \in Games /\ g # job[w]
    BY <1>1, <1>2 DEF StageOf, Listed, SInv, Archived
  <2>2. \A g \in Games : g # job[w] => log'[g] = log[g]
    BY DEF DeleteUnlink, SInv, StoreTypeOK
  <2>. QED
    BY <1>3, <2>1, <2>2 DEF SInv, Survives, DeleteUnlink, damage
<1>10. PaidFor'
  BY <1>1, <1>2, <1>3 DEF SInv, PaidFor, StageOf, DeleteUnlink, Step, Finish, disk, damage
<1>. QED
  BY <1>4, <1>6, <1>7, <1>8, <1>9, <1>10 DEF SInv

LEMMA AppendBeginSaves ==
  ASSUME SInv, NEW w \in Workers, NEW g \in Games, AppendBegin(w, g)
  PROVE  SInv'
<1>1. /\ pc[w] = "idle" /\ lock = NoWorker /\ pc \in [Workers -> Phases]
      /\ \A v \in Workers : pc[v] = "idle"
  BY Alone DEF SInv, StoreTypeOK, AppendBegin, Acquire
<1>2. Listed' = Listed /\ OnOpenLine' = OnOpenLine
  BY SameLines DEF AppendBegin
<1>3. /\ lock' = w /\ pc' = [pc EXCEPT ![w] = "log"] /\ job' = [job EXCEPT ![w] = g]
      /\ log' = [log EXCEPT ![g] = "partial"] /\ g \notin used /\ used' = used \cup {g}
      /\ UNCHANGED <<lines, open, kept, acked, deleted, harmed, breaks>>
  BY DEF AppendBegin, Acquire, Step, damage
<1>4. StoreTypeOK'
  BY <1>3 DEF SInv, StoreTypeOK, Phases
<1>5. g \notin Listed \cup deleted \cup harmed \cup acked
  BY <1>3 DEF SInv, Archived
<1>6. pc'[w] = "log" /\ job'[w] = g
  BY <1>1, <1>3 DEF SInv, StoreTypeOK
<1>7. StageOf(w)'
  BY <1>2, <1>3, <1>5, <1>6 DEF StageOf
<1>8. Inside' /\ Stage'
  BY <1>1, <1>3, <1>6, <1>7, OneInside
<1>9. OpenLine'
  BY <1>2, <1>3 DEF SInv, OpenLine
<1>10. Archived'
  BY <1>2, <1>3 DEF SInv, Archived
<1>11. Survives'
  <2>1. \A h \in Listed : h \in Games /\ h # g
    BY <1>5 DEF Listed
  <2>2. \A h \in Games : h # g => log'[h] = log[h]
    BY <1>3 DEF SInv, StoreTypeOK
  <2>. QED
    BY <1>2, <1>3, <2>1, <2>2 DEF SInv, Survives
<1>12. PaidFor'
  BY <1>1, <1>2, <1>3 DEF SInv, PaidFor
<1>. QED
  BY <1>4, <1>8, <1>9, <1>10, <1>11, <1>12 DEF SInv

LEMMA DeleteBeginSaves ==
  ASSUME SInv, NEW w \in Workers, NEW g \in Games, DeleteBegin(w, g)
  PROVE  SInv'
<1>1. /\ pc[w] = "idle" /\ lock = NoWorker /\ pc \in [Workers -> Phases]
      /\ \A v \in Workers : pc[v] = "idle"
  BY Alone DEF SInv, StoreTypeOK, DeleteBegin, Acquire
<1>2. Listed' = Listed /\ OnOpenLine' = OnOpenLine
  BY SameLines DEF DeleteBegin, disk
<1>3. /\ lock' = w /\ pc' = [pc EXCEPT ![w] = "read"] /\ job' = [job EXCEPT ![w] = g]
      /\ UNCHANGED <<lines, open, log, kept, used, acked, deleted, harmed, breaks>>
  BY DEF DeleteBegin, Acquire, Step, damage, disk
<1>4. StoreTypeOK'
  BY <1>3 DEF SInv, StoreTypeOK, Phases
<1>6. pc'[w] = "read" /\ job'[w] = g
  BY <1>1, <1>3 DEF SInv, StoreTypeOK
<1>7. StageOf(w)'
  BY <1>6 DEF StageOf
<1>8. Inside' /\ Stage'
  BY <1>1, <1>3, <1>6, <1>7, OneInside
<1>9. OpenLine' /\ Archived' /\ Survives'
  BY <1>2, <1>3 DEF SInv, OpenLine, Archived, Survives
<1>10. PaidFor'
  BY <1>1, <1>2, <1>3 DEF SInv, PaidFor
<1>. QED
  BY <1>4, <1>8, <1>9, <1>10 DEF SInv

LEMMA DeleteFailsSaves ==
  ASSUME SInv, NEW w \in Workers, DeleteFails(w)
  PROVE  SInv'
<1>1. /\ pc[w] \in {"read", "rename", "unlink"} /\ pc \in [Workers -> Phases]
      /\ \A v \in Workers : v # w => pc[v] = "idle"
  BY Alone DEF SInv, StoreTypeOK, DeleteFails
<1>2. Listed' = Listed /\ OnOpenLine' = OnOpenLine
  BY SameLines DEF DeleteFails, disk
<1>3. /\ pc' = [pc EXCEPT ![w] = "idle"]
      /\ UNCHANGED <<lines, open, log, used, acked, deleted, harmed, breaks>>
  BY DEF DeleteFails, Finish, damage, disk
<1>4. StoreTypeOK'
  <2>1. <<>> \in Seq(Games)
    OBVIOUS
  <2>. QED
    BY <1>3, <2>1 DEF SInv, StoreTypeOK, Phases, DeleteFails, Finish
<1>8. Inside' /\ Stage'
  BY <1>1, <1>3, NobodyInside
<1>9. OpenLine' /\ Archived' /\ Survives'
  BY <1>2, <1>3 DEF SInv, OpenLine, Archived, Survives
<1>10. PaidFor'
  BY <1>1, <1>2, <1>3 DEF SInv, PaidFor
<1>. QED
  BY <1>4, <1>8, <1>9, <1>10 DEF SInv

LEMMA DeleteRenameSaves ==
  ASSUME SInv, NEW w \in Workers, DeleteRename(w)
  PROVE  SInv'
<1>1. /\ pc[w] = "rename" /\ lock = w /\ job[w] \in Games /\ pc \in [Workers -> Phases]
      /\ kept[w] \in Seq(Games) /\ \A v \in Workers : v # w => pc[v] = "idle"
  BY Alone DEF SInv, Inside, StoreTypeOK, DeleteRename, Step
<1>2. job[w] \in Listed /\ {kept[w][i] : i \in 1..Len(kept[w])} = Listed \ {job[w]}
  BY <1>1 DEF SInv, Stage, StageOf
<1>3. /\ lines' \in Seq(Seq(Pieces)) /\ open' = FALSE /\ OnOpenLine' = {}
      /\ Listed' = Listed \ {job[w]}
  BY <1>1, <1>2, RewriteGives DEF DeleteRename
<1>4. /\ pc' = [pc EXCEPT ![w] = "unlink"] /\ deleted' = deleted \cup {job[w]}
      /\ UNCHANGED <<log, lock, job, kept, used, acked, harmed, breaks>>
  BY DEF DeleteRename, Step, damage
<1>5. StoreTypeOK'
  BY <1>1, <1>3, <1>4 DEF SInv, StoreTypeOK, Phases
<1>6. pc'[w] = "unlink" /\ job'[w] = job[w] /\ lock' = w
  BY <1>1, <1>4
<1>7. StageOf(w)'
  BY <1>4, <1>6 DEF StageOf
<1>8. Inside' /\ Stage'
  BY <1>1, <1>4, <1>6, <1>7, OneInside
<1>9. OpenLine' /\ Archived'
  BY <1>2, <1>3, <1>4 DEF SInv, OpenLine, Archived
<1>10. Survives'
  BY <1>2, <1>3, <1>4 DEF SInv, Survives
<1>11. PaidFor'
  BY <1>3, <1>4 DEF SInv, PaidFor
<1>. QED
  BY <1>5, <1>8, <1>9, <1>10, <1>11 DEF SInv

LEMMA CrashSaves ==
  ASSUME SInv, Crash
  PROVE  SInv'
<1>1. Listed' = Listed /\ OnOpenLine' = OnOpenLine
  BY SameLines DEF Crash, disk
<1>2. UNCHANGED <<lines, open, log, used, acked, deleted, harmed>>
  BY DEF Crash, disk
<1>3. StoreTypeOK'
  <2>1. <<>> \in Seq(Games) /\ breaks' \in Nat
    BY DEF SInv, StoreTypeOK, Crash
  <2>. QED
    BY <1>2, <2>1 DEF SInv, StoreTypeOK, Phases, Crash
<1>4. Inside' /\ Stage'
  BY NobodyInside DEF Crash
<1>5. OpenLine' /\ Archived' /\ Survives'
  BY <1>1, <1>2 DEF SInv, OpenLine, Archived, Survives
<1>6. PaidFor'
  <2>0. breaks \in Nat /\ IsFiniteSet(harmed) /\ Cardinality(harmed) <= 2 * breaks
    BY DEF SInv, StoreTypeOK, PaidFor
  <2>1. CASE \E w \in Workers : pc[w] = "newline"
    <3>1. PICK w \in Workers : pc[w] = "newline"
      BY <2>1
    <3>2. OnOpenLine \subseteq harmed \cup {job[w]} /\ breaks' = breaks + 1
      BY <2>1, <3>1 DEF SInv, Stage, StageOf, Crash
    <3>3. /\ IsFiniteSet(harmed \cup {job[w]}) /\ Cardinality(harmed) \in Nat
          /\ Cardinality(harmed \cup {job[w]}) \in Nat
          /\ Cardinality(harmed \cup {job[w]}) <= Cardinality(harmed) + 1
      BY <2>0, OneMore
    <3>4. OnOpenLine \cup harmed \in SUBSET (harmed \cup {job[w]})
      BY <3>2
    <3>5. /\ IsFiniteSet(OnOpenLine \cup harmed)
          /\ Cardinality(OnOpenLine \cup harmed) <= Cardinality(harmed \cup {job[w]})
      BY <3>3, <3>4, FS_Subset
    <3>6. Cardinality(OnOpenLine \cup harmed) \in Nat
      BY <3>5, FS_CardinalityType
    <3>. QED
      BY <1>1, <1>2, <2>0, <3>2, <3>3, <3>5, <3>6 DEF PaidFor
  <2>2. CASE ~ \E w \in Workers : pc[w] = "newline"
    BY <1>1, <1>2, <2>2 DEF SInv, PaidFor, Crash
  <2>. QED
    BY <2>1, <2>2
<1>. QED
  BY <1>3, <1>4, <1>5, <1>6 DEF SInv

(* AppendLine and AppendTorn: what the write spoils is paid for.             *)
LEMMA WriteSaves ==
  ASSUME SInv, NEW w \in Workers, NEW whole \in BOOLEAN,
         pc[w] = "line", Write([game |-> job[w], whole |-> whole]),
         whole => pc' = [pc EXCEPT ![w] = "newline"] /\ breaks' = breaks,
         ~whole => pc' = [pc EXCEPT ![w] = "undo"] /\ breaks' = breaks + 1,
         UNCHANGED <<log, lock, job, kept, used, acked, deleted>>
  PROVE  SInv'
<1> DEFINE piece == [game |-> job[w], whole |-> whole]
<1>1. /\ lock = w /\ job[w] \in Games /\ pc \in [Workers -> Phases]
      /\ \A v \in Workers : v # w => pc[v] = "idle"
  BY Alone DEF SInv, Inside, StoreTypeOK
<1>2. /\ job[w] \in used \ deleted /\ job[w] \notin Listed \cup harmed
      /\ log[job[w]] = "complete"
  BY DEF SInv, Stage, StageOf
<1>3. piece \in Pieces /\ piece.game = job[w] /\ piece.whole = whole
  BY <1>1 DEF Pieces
<1>4. /\ lines' \in Seq(Seq(Pieces)) /\ open' = TRUE
      /\ Len(lines') >= 1 /\ Len(lines'[Len(lines')]) >= 1
      /\ OnOpenLine' = OnOpenLine \cup {job[w]}
      /\ Listed' \subseteq Listed \cup {job[w]}
      /\ open \/ ~whole => Listed' \subseteq Listed
      /\ Listed \subseteq Listed' \cup OnOpenLine
      /\ ~open /\ whole => job[w] \in Listed'
  <2> HIDE DEF piece
  <2>1. Write(piece)
    BY DEF piece
  <2>. QED
    BY <1>3, <2>1, WriteGives DEF SInv
<1>5. harmed' = IF open \/ ~whole THEN harmed \cup OnOpenLine \cup {job[w]} ELSE harmed
  BY <1>3 DEF Write
<1>6. ~open => OnOpenLine = {}
  BY DEF OnOpenLine
<1>7. open => OnOpenLine \subseteq used \ deleted /\ IsFiniteSet(OnOpenLine)
  BY DEF SInv, OpenLine
<1>8. pc' \in [Workers -> Phases] /\ pc'[w] = IF whole THEN "newline" ELSE "undo"
  BY <1>1 DEF Phases
<1>9. breaks \in Nat /\ breaks' \in Nat
  BY DEF SInv, StoreTypeOK
<1>10. harmed' \subseteq used
  BY <1>2, <1>5, <1>6, <1>7 DEF SInv, Archived
<1>11. used \subseteq Games /\ open \in BOOLEAN
  BY DEF SInv, StoreTypeOK
<1>12. StoreTypeOK'
  BY <1>4, <1>8, <1>9, <1>10, <1>11 DEF SInv, StoreTypeOK
<1>13. StageOf(w)'
  BY <1>2, <1>4, <1>5, <1>6, <1>8, <1>11 DEF StageOf
<1>14. Inside' /\ Stage'
  <2>1. \A v \in Workers : v # w => pc'[v] = "idle"
    BY <1>1
  <2>. QED
    BY <1>1, <1>13, <2>1, OneInside
<1>15. OpenLine'
  <2>1. IsFiniteSet(OnOpenLine)
    BY <1>6, <1>7, FS_EmptySet
  <2>2. IsFiniteSet(OnOpenLine \cup {job[w]})
    BY <2>1, OneMore
  <2>3. OnOpenLine' \subseteq used \ deleted
    BY <1>2, <1>4, <1>6, <1>7
  <2>. QED
    BY <1>4, <2>2, <2>3 DEF OpenLine
<1>16. Archived'
  BY <1>2, <1>4, <1>10 DEF SInv, Archived
<1>17. Survives'
  <2>1. acked \subseteq Listed' \cup deleted \cup harmed'
    BY <1>4, <1>5, <1>6 DEF SInv, Survives
  <2>2. Listed' \ harmed' \subseteq (Listed \ harmed) \cup {job[w]}
    BY <1>4, <1>5
  <2>. QED
    BY <1>2, <2>1, <2>2 DEF SInv, Survives
<1>18. PaidFor'
  <2>1. IsFiniteSet(harmed) /\ Cardinality(harmed) <= 2 * breaks /\ Cardinality(harmed) \in Nat
    BY OneMore DEF SInv, PaidFor
  <2>2. /\ IsFiniteSet(harmed \cup {job[w]}) /\ Cardinality(harmed \cup {job[w]}) \in Nat
        /\ Cardinality(harmed \cup {job[w]}) <= Cardinality(harmed) + 1
    BY <2>1, OneMore
  <2>3. whole => pc'[w] = "newline"
    BY <1>8
  <2>4. CASE ~open /\ whole
    BY <1>5, <2>1, <2>3, <2>4 DEF PaidFor
  <2>5. CASE ~open /\ ~whole
    <3>1. harmed' = harmed \cup {job[w]} /\ OnOpenLine' \cup harmed' = harmed \cup {job[w]}
      BY <1>4, <1>5, <1>6, <2>5
    <3>2. \A k, h, b \in Nat : k <= h + 1 /\ h <= 2 * b
                               => k <= 2 * (b + 1) /\ k + 1 <= 2 * (b + 1)
      OBVIOUS
    <3>3. /\ Cardinality(harmed \cup {job[w]}) <= 2 * (breaks + 1)
          /\ Cardinality(harmed \cup {job[w]}) + 1 <= 2 * (breaks + 1)
      BY <1>9, <2>1, <2>2, <3>2, Zenon
    <3>4. IsFiniteSet(harmed') /\ Cardinality(harmed') <= 2 * breaks'
          /\ Cardinality(OnOpenLine' \cup harmed') + 1 <= 2 * breaks'
      BY <2>2, <2>5, <3>1, <3>3, Zenon
    <3>. QED
      BY <3>4 DEF PaidFor
  <2>6. CASE open
    <3> DEFINE both == OnOpenLine \cup harmed
    <3>1. \A v \in Workers : pc[v] # "newline"
      BY <1>1
    <3>2. Cardinality(both) + 1 <= 2 * breaks
      BY <2>6, <3>1 DEF SInv, PaidFor
    <3>3. IsFiniteSet(both)
      BY <1>7, <2>1, <2>6, FS_Union
    <3>4. harmed' = both \cup {job[w]} /\ OnOpenLine' \cup harmed' = both \cup {job[w]}
      BY <1>4, <1>5, <2>6
    <3> HIDE DEF both
    <3>5. /\ IsFiniteSet(both \cup {job[w]}) /\ Cardinality(both) \in Nat
          /\ Cardinality(both \cup {job[w]}) \in Nat
          /\ Cardinality(both \cup {job[w]}) <= Cardinality(both) + 1
      BY <3>3, OneMore
    <3>6. \A k, h, b \in Nat : k <= h + 1 /\ h + 1 <= 2 * b
                               => k <= 2 * b /\ k <= 2 * (b + 1) /\ k + 1 <= 2 * (b + 1)
      OBVIOUS
    <3>7. /\ Cardinality(both \cup {job[w]}) <= 2 * breaks
          /\ Cardinality(both \cup {job[w]}) <= 2 * (breaks + 1)
          /\ Cardinality(both \cup {job[w]}) + 1 <= 2 * (breaks + 1)
      BY <1>9, <3>2, <3>5, <3>6, Zenon
    <3>8. /\ IsFiniteSet(harmed') /\ Cardinality(harmed') <= 2 * breaks'
          /\ ~whole => Cardinality(OnOpenLine' \cup harmed') + 1 <= 2 * breaks'
      BY <3>4, <3>5, <3>7, Zenon
    <3>9. whole => ~ \A v \in Workers : pc'[v] # "newline"
      BY <2>3
    <3>. QED
      BY <3>8, <3>9, Zenon DEF PaidFor
  <2>. QED
    BY <1>11, <2>4, <2>5, <2>6
<1>. QED
  BY <1>12, <1>14, <1>15, <1>16, <1>17, <1>18 DEF SInv

LEMMA NextSInv ==
  ASSUME SInv, [StoreNext]_storeVars
  PROVE  SInv'
<1>1. ASSUME NEW w \in Workers, AppendStep(w)
      PROVE  SInv'
  <2>1. ASSUME AppendLine(w) PROVE SInv'
    BY <2>1, WriteSaves DEF AppendLine, Step
  <2>2. ASSUME AppendTorn(w) PROVE SInv'
    BY <2>2, WriteSaves DEF AppendTorn, Step
  <2>. QED
    BY <1>1, <2>1, <2>2, AppendBeginSaves, AppendLogSaves, AppendLogFailsSaves,
       AppendLineFailsSaves, AppendNewlineSaves, AppendNewlineFailsSaves, AppendUndoSaves
       DEF AppendStep
<1>2. ASSUME NEW w \in Workers, DeleteStep(w)
      PROVE  SInv'
  BY <1>2, DeleteBeginSaves, DeleteReadSaves, DeleteRenameSaves, DeleteUnlinkSaves,
     DeleteFailsSaves DEF DeleteStep
<1>3. ASSUME UNCHANGED storeVars
      PROVE  SInv'
  <2>1. Listed' = Listed /\ OnOpenLine' = OnOpenLine
    BY <1>3, SameLines DEF storeVars
  <2>2. StoreTypeOK' /\ OpenLine' /\ Inside' /\ Archived'
    BY <1>3, <2>1 DEF storeVars, SInv, StoreTypeOK, OpenLine, Inside, Archived
  <2>3. Stage' /\ Survives' /\ PaidFor'
    BY <1>3, <2>1 DEF storeVars, SInv, Stage, StageOf, Survives, PaidFor
  <2>. QED
    BY <2>2, <2>3 DEF SInv
<1>. QED
  BY <1>1, <1>2, <1>3, CrashSaves DEF StoreNext

(* What append has confirmed survives (AckedSurvives): it stays listed with  *)
(* its whole log until it is deleted, after any crash and any failed call,   *)
(* but for the two records an interrupted write may cost; for any number of  *)
(* workers, games and faults.                                                *)
THEOREM ArchiveSafety == StoreSpec => []AckedSurvives
<1>1. SInv => AckedSurvives
  BY DEF SInv, Survives, PaidFor, AckedSurvives
<1>2. SInv /\ [StoreNext]_storeVars => SInv'
  BY NextSInv
<1>. QED
  BY <1>1, <1>2, InitSInv, PTL DEF StoreSpec

(* ------ the archive ------------------------------------------------------ *)

(* A step of the store is a step of the archive, or leaves it as it is.      *)
LEMMA StepOfArchive ==
  ASSUME SInv, [StoreNext]_storeVars
  PROVE  [Archive!Next]_(Archive!archive)
<1> DEFINE listing == Listed \ harmed
<1>0. StoreTypeOK /\ OpenLine /\ Archived
  BY DEF SInv
<1>s. ASSUME Listed' = Listed, UNCHANGED <<deleted, harmed>>
      PROVE  UNCHANGED Archive!archive
  BY <1>s DEF Archive!archive
<1>d. ASSUME NEW D \in SUBSET Games, D \cap (deleted \cup harmed) = {},
             Listed' \ harmed' = (Listed \ harmed) \ D, harmed' = harmed \cup D,
             UNCHANGED deleted
      PROVE  Archive!Next
  <2>1. Archive!Damage(D)
    BY <1>d DEF Archive!Damage
  <2>. QED
    BY <2>1 DEF Archive!Next
<1>w. ASSUME NEW w \in Workers, NEW whole \in BOOLEAN, pc[w] = "line",
             Write([game |-> job[w], whole |-> whole]), UNCHANGED deleted
      PROVE  Archive!Next
  <2> DEFINE piece == [game |-> job[w], whole |-> whole]
  <2>1. job[w] \in Games
    BY <1>w DEF SInv, Inside
  <2>2. job[w] \in used \ deleted /\ job[w] \notin Listed \cup harmed
    BY <1>w DEF SInv, Stage, StageOf
  <2>3. piece \in Pieces /\ piece.game = job[w] /\ piece.whole = whole
    BY <2>1 DEF Pieces
  <2>4. /\ Listed' \subseteq Listed \cup {job[w]}
        /\ open \/ ~whole => Listed' \subseteq Listed
        /\ Listed \subseteq Listed' \cup OnOpenLine
        /\ ~open /\ whole => job[w] \in Listed'
    <3> HIDE DEF piece
    <3>1. Write(piece)
      BY <1>w DEF piece
    <3>. QED
      BY <1>0, <2>3, <3>1, WriteGives
  <2>5. harmed' = IF open \/ ~whole THEN harmed \cup OnOpenLine \cup {job[w]} ELSE harmed
    BY <1>w, <2>3 DEF Write
  <2>6. ~open => OnOpenLine = {}
    BY DEF OnOpenLine
  <2>7. OnOpenLine \subseteq used \ deleted /\ used \subseteq Games
    BY <1>0, <2>6 DEF OpenLine, StoreTypeOK
  <2>8. CASE ~open /\ whole
    <3>1. Archive!Add(job[w])
      BY <1>w, <2>2, <2>4, <2>5, <2>6, <2>8 DEF Archive!Add
    <3>. QED
      BY <2>1, <3>1 DEF Archive!Next
  <2>9. CASE open \/ ~whole
    <3> DEFINE D == (OnOpenLine \cup {job[w]}) \ harmed
    <3>1. D \in SUBSET Games /\ D \cap (deleted \cup harmed) = {} /\ harmed' = harmed \cup D
      BY <2>1, <2>2, <2>5, <2>7, <2>9
    <3>2. Listed' \ harmed' = (Listed \ harmed) \ D
      BY <2>4, <2>5, <2>9
    <3> HIDE DEF D
    <3>. QED
      BY <1>d, <1>w, <3>1, <3>2
  <2>. QED
    BY <2>8, <2>9
<1>1. ASSUME NEW w \in Workers, AppendStep(w)
      PROVE  [Archive!Next]_(Archive!archive)
  <2>1. ASSUME NEW g \in Games, AppendBegin(w, g) PROVE UNCHANGED Archive!archive
    BY <2>1, <1>s, SameLines DEF AppendBegin, damage
  <2>2. ASSUME AppendLog(w) \/ AppendLogFails(w) \/ AppendLineFails(w) \/ AppendNewline(w)
               \/ AppendUndo(w)
        PROVE  UNCHANGED Archive!archive
    BY <2>2, <1>s, SameLines
       DEF AppendLog, AppendLogFails, AppendLineFails, AppendNewline, AppendUndo, disk, damage
  <2>3. ASSUME AppendLine(w) PROVE Archive!Next
    BY <2>3, <1>w DEF AppendLine, Step
  <2>4. ASSUME AppendTorn(w) PROVE Archive!Next
    BY <2>4, <1>w DEF AppendTorn, Step
  <2>5. ASSUME AppendNewlineFails(w) PROVE Archive!Next
    <3> DEFINE D == {job[w]} \ harmed
    <3>1. pc[w] = "newline" /\ harmed' = harmed \cup {job[w]} /\ UNCHANGED <<lines, deleted>>
      BY <2>5 DEF AppendNewlineFails, Step, disk
    <3>2. job[w] \in Games /\ job[w] \notin deleted
      BY <3>1 DEF SInv, Inside, Stage, StageOf
    <3>3. Listed' = Listed
      BY <3>1, SameLines
    <3>4. /\ D \in SUBSET Games /\ D \cap (deleted \cup harmed) = {} /\ harmed' = harmed \cup D
          /\ Listed' \ harmed' = (Listed \ harmed) \ D
      BY <3>1, <3>2, <3>3
    <3> HIDE DEF D
    <3>. QED
      BY <1>d, <3>1, <3>4
  <2>. QED
    BY <1>1, <2>1, <2>2, <2>3, <2>4, <2>5 DEF AppendStep
<1>2. ASSUME NEW w \in Workers, DeleteStep(w)
      PROVE  [Archive!Next]_(Archive!archive)
  <2>1. ASSUME NEW g \in Games, DeleteBegin(w, g) PROVE UNCHANGED Archive!archive
    BY <2>1, <1>s, SameLines DEF DeleteBegin, disk, damage
  <2>2. ASSUME DeleteRead(w) \/ DeleteUnlink(w) \/ DeleteFails(w)
        PROVE  UNCHANGED Archive!archive
    BY <2>2, <1>s, SameLines DEF DeleteRead, DeleteUnlink, DeleteFails, disk, damage
  <2>3. ASSUME DeleteRename(w) PROVE Archive!Next
    <3>1. pc[w] = "rename" /\ kept[w] \in Seq(Games) /\ job[w] \in Games
      BY <2>3, <1>0 DEF SInv, Inside, StoreTypeOK, DeleteRename, Step
    <3>2. job[w] \in Listed /\ {kept[w][i] : i \in 1..Len(kept[w])} = Listed \ {job[w]}
      BY <3>1 DEF SInv, Stage, StageOf
    <3>3. Listed' = Listed \ {job[w]} /\ job[w] \notin deleted
      BY <1>0, <2>3, <3>1, <3>2, RewriteGives DEF DeleteRename, Archived
    <3>4. deleted' = deleted \cup {job[w]} /\ harmed' = harmed
      BY <2>3 DEF DeleteRename, damage
    <3>5. Archive!Remove(job[w])
      BY <3>3, <3>4 DEF Archive!Remove
    <3>. QED
      BY <3>1, <3>5 DEF Archive!Next
  <2>. QED
    BY <1>2, <2>1, <2>2, <2>3 DEF DeleteStep
<1>3. ASSUME Crash PROVE UNCHANGED Archive!archive
  BY <1>3, <1>s, SameLines DEF Crash, disk
<1>4. ASSUME UNCHANGED storeVars PROVE UNCHANGED Archive!archive
  BY <1>4, <1>s, SameLines DEF storeVars
<1>. QED
  BY <1>1, <1>2, <1>3, <1>4 DEF StoreNext

(* The store implements the archive (ImplementsArchive), whatever fails.     *)
THEOREM ArchiveRefinement == StoreSpec => ImplementsArchive
<1>1. StoreInit => Archive!Init
  BY DEF StoreInit, Archive!Init, Listed
<1>2. SInv /\ [StoreNext]_storeVars => SInv'
  BY NextSInv
<1>3. SInv /\ [StoreNext]_storeVars => [Archive!Next]_(Archive!archive)
  BY StepOfArchive
<1>. QED
  BY <1>1, <1>2, <1>3, InitSInv, PTL DEF StoreSpec, ImplementsArchive, Archive!Spec

(* ------------------------------ HistoryRecorder --------------------------- *)

Ends == {"confirmed", "terminated"}
Carries == {"start_kyoku", "play", "end_kyoku"}
Hearing == buffering /\ ~overflown

(* f may be published right after e, where the games in d are disturbed:     *)
(* only such a game is followed by a start_game without an end, or has a     *)
(* start_game that is not its first.                                         *)
Follows(d, e, f) ==
  /\ f.kind = "start_game" => /\ e.game <= f.game
                              /\ e.kind \in Ends => e.game < f.game
                              /\ e.kind \notin Ends => e.game \in d
  /\ f.kind # "start_game" => f.game = e.game /\ e.kind \notin Ends
  /\ f.kind = "start_kyoku" => \/ e.kind = "end_kyoku" /\ e.round < f.round
                               \/ e.kind = "start_game" /\ (f.round = 1 \/ e.game \in d)
  /\ f.kind = "play" => /\ e.round = f.round
                        /\ \/ e.kind = "play" /\ f.step = e.step + 1
                           \/ e.kind = "start_kyoku" /\ f.step = 1
  /\ f.kind = "end_kyoku" => /\ e.round = f.round
                             /\ \/ e.kind = "play" /\ e.step = HandLen
                                \/ e.kind = "start_kyoku" /\ HandLen = 0
  /\ f.kind = "confirmed" => \/ e.kind = "end_kyoku"
                             \/ e.kind = "start_game" /\ e.game \in d

(* e may be the last event published: of game g in phase ph, at the k-th     *)
(* event of round r, with the client at c.                                   *)
Fits(d, g, ph, r, k, c, e) ==
  /\ e.game = g
  /\ ph = "over" => e.kind \in Ends \/ g \in d
  /\ ph # "over" => e.kind \notin Ends
  /\ c = "syncing" => e.kind = "start_game"
  /\ c = "here" /\ ph = "hand" =>
       e.round = r /\ IF k = 0 THEN e.kind = "start_kyoku" ELSE e.kind = "play" /\ e.step = k
  /\ c = "here" /\ ph = "between" =>
       \/ e.kind = "end_kyoku" /\ e.round = r
       \/ e.kind = "start_game" /\ (r = 0 \/ g \in d)

(* e was published some time before f; some time before game g was in phase  *)
(* ph and round r and the games in en had ended.                             *)
Before(e, f) ==
  /\ e.game <= f.game /\ (e.kind \in Ends => e.game < f.game)
  /\ e.game = f.game /\ f.kind \in Carries => e.round <= f.round
Past(g, ph, r, en, e) ==
  /\ e.game <= g /\ (e.kind \in Ends /\ ph # "over" => e.game < g)
  /\ e.game = g => e.round <= r
  /\ e.kind = "confirmed" => e.game \in en
  /\ e.kind = "start_game" => e.id \in {NoId, e.game} /\ e.round = 0
  /\ e.kind \in {"start_kyoku", "end_kyoku"} => e.step = 0

(* What the recorder has heard last, as far as the buffer shows it.          *)
LastHeard == IF awaiting THEN buf[1] ELSE buf[Len(buf)]

TableFine ==
  /\ game \in 0..MaxGames /\ tagged \in BOOLEAN /\ phase \in {"over", "between", "hand"}
  /\ round \in 0..MaxRounds /\ step \in 0..HandLen /\ client \in {"away", "syncing", "here"}
  /\ phase = "over" => client = "away"
  /\ phase # "over" => game # 0
  /\ phase = "hand" => round # 0
  /\ phase # "over" /\ client # "here" => game \in disturbed
Receives == rx \in Seq(Event) /\ Len(rx) <= BusCap /\ lagged \in BOOLEAN

Chain ==
  /\ \A i \in 1..Len(rx) : Past(game, phase, round, ended, rx[i])
  /\ \A i, j \in 1..Len(rx) : i < j => Before(rx[i], rx[j])
  /\ \A i \in 1..(Len(rx) - 1) : Follows(disturbed, rx[i], rx[i + 1])
  /\ rx # <<>> => Fits(disturbed, game, phase, round, step, client, rx[Len(rx)])
Link ==
  Hearing /\ ~lagged =>
    IF rx = <<>> THEN Fits(disturbed, game, phase, round, step, client, LastHeard)
    ELSE Follows(disturbed, LastHeard, rx[1])

(* The q-th event of heard belongs to the round that starts at the i-th, where *)
(* it belongs in it.                                                         *)
InRound(heard, i, q) ==
  /\ heard[q].round = heard[i].round
  /\ IF q = i THEN heard[q].kind = "start_kyoku" /\ heard[q].step = 0
     ELSE IF q - i <= HandLen THEN heard[q].kind = "play" /\ heard[q].step = q - i
     ELSE q - i = HandLen + 1 /\ heard[q].kind = "end_kyoku" /\ heard[q].step = 0

(* The rounds of a heard up to its n-th event.                                 *)
Whole(heard, n) ==
  /\ \A i \in 1..n : heard[i].game = heard[1].game /\ (i > 1 => heard[i].kind \in Carries)
  /\ heard[1].kind = "start_game"
  /\ \A i, j \in 2..n : i < j => /\ heard[i].round <= heard[j].round
                                 /\ heard[j].kind = "start_kyoku" => heard[i].round < heard[j].round
  /\ \A p \in 3..n : heard[p].kind = "start_kyoku" => heard[p - 1].kind = "end_kyoku"
  /\ \A p \in 2..n : \E i \in 2..p : /\ heard[i].kind = "start_kyoku"
                                     /\ \A q \in i..p : InRound(heard, i, q)

BufFine ==
  /\ buffering \in BOOLEAN /\ overflown \in BOOLEAN /\ awaiting \in BOOLEAN /\ buf \in Seq(Event)
  /\ ~Hearing => buf = <<>> /\ ~awaiting
  /\ Hearing =>
       /\ buf # <<>> /\ Whole(buf, Len(buf)) /\ gameId \in {NoId, buf[1].game}
       /\ \A i \in 1..Len(buf) : Past(game, phase, round, ended, buf[i])
       /\ \A i \in 1..Len(buf), j \in 1..Len(rx) : Before(buf[i], rx[j])
       /\ buf[1].game \in disturbed \/ (Len(buf) > 1 => buf[2].round = 1)
       /\ awaiting \/ lagged => buf[1].game \in disturbed

GoodRecord(en, heard) ==
  /\ heard[1].game \in en /\ \A i \in DOMAIN heard : heard[i].game = heard[1].game
  /\ RoundsOnceInOrder(heard) /\ RoundsHaveNoGap(heard)
RecordsFine ==
  /\ records \in Seq(Seq(Event))
  /\ \A n \in 1..Len(records) :
       /\ records[n] # <<>> /\ GoodRecord(ended, records[n])
       /\ records[n][1].game <= game /\ (phase # "over" => records[n][1].game < game)
       /\ \A j \in 1..Len(rx) : records[n][1].game < rx[j].game
       /\ Hearing => records[n][1].game < buf[1].game
  /\ \A n, k \in 1..Len(records) : n # k => records[n][1].game # records[k][1].game

(* The start of game g is buffered or still to come.                         *)
InFlight(g) ==
  \/ \E j \in 1..Len(rx) : rx[j].kind = "start_game" /\ rx[j].game = g
  \/ Hearing /\ buf[1].game = g
EndToCome(g) == \E j \in 1..Len(rx) : rx[j].kind = "confirmed" /\ rx[j].game = g
Recorded(g) == \E n \in 1..Len(records) : records[n][1].game = g /\ records[n][2].round = 1
QuietFine ==
  /\ phase # "over" /\ game \notin disturbed => InFlight(game)
  /\ \A g \in ended \ (disturbed \cup unsaved) : Recorded(g) \/ (InFlight(g) /\ EndToCome(g))

RInv == TableFine /\ Receives /\ Chain /\ Link /\ BufFine /\ RecordsFine /\ QuietFine

LEMMA EventSorts ==
  ASSUME NEW e \in Event
  PROVE  /\ e.game \in Nat /\ e.game >= 1 /\ e.round \in Nat /\ e.step \in Nat /\ e.id \in Nat
         /\ e.kind \in Kinds /\ e.game \in 1..MaxGames /\ e.round \in 0..MaxRounds
         /\ e.step \in 0..HandLen
  BY RecorderAssumption DEF Event, RecorderAssumption

(* ------ what more disturbed games do -------------------------------------- *)

LEMMA FollowsMore ==
  ASSUME NEW d, NEW dd, d \subseteq dd, NEW e, NEW f, Follows(d, e, f)
  PROVE  Follows(dd, e, f)
  BY DEF Follows

LEMMA FitsMore ==
  ASSUME NEW d, NEW dd, d \subseteq dd, NEW g, NEW ph, NEW r, NEW k, NEW c, NEW e,
         Fits(d, g, ph, r, k, c, e)
  PROVE  Fits(dd, g, ph, r, k, c, e)
  BY DEF Fits

(* The recorder has last heard an event of the buffered game, not its end.   *)
LEMMA LastIsOfGame ==
  ASSUME BufFine, Hearing
  PROVE  LastHeard \in Event /\ LastHeard.game = buf[1].game /\ LastHeard.kind \notin Ends
<1>1. /\ buf \in Seq(Event) /\ buf # <<>> /\ Len(buf) \in Nat /\ Len(buf) >= 1
      /\ \A i \in 1..Len(buf) : buf[i].game = buf[1].game /\ (i > 1 => buf[i].kind \in Carries)
      /\ buf[1].kind = "start_game"
  BY DEF BufFine, Whole
<1>2. ASSUME NEW i \in 1..Len(buf)
      PROVE  buf[i] \in Event /\ buf[i].game = buf[1].game /\ buf[i].kind \notin Ends
  BY <1>1, <1>2 DEF Ends, Carries
<1>3. 1 \in 1..Len(buf) /\ Len(buf) \in 1..Len(buf)
  BY <1>1
<1>. QED
  BY <1>2, <1>3 DEF LastHeard

(* ------ publishing ------------------------------------------------------- *)

(* A burst goes behind what is there; what was first may be lost.            *)
LEMMA PublishGives ==
  ASSUME Receives, NEW events \in Seq(Event), Publish(events)
  PROVE  \E all \in Seq(Event), d \in Nat :
           /\ Len(all) = Len(rx) + Len(events) /\ d <= Len(all) /\ (Len(all) >= 1 => d < Len(all))
           /\ \A i \in 1..Len(rx) : all[i] = rx[i]
           /\ \A i \in 1..Len(events) : all[Len(rx) + i] = events[i]
           /\ Receives' /\ Len(rx') = Len(all) - d
           /\ \A i \in 1..(Len(all) - d) : rx'[i] = all[i + d]
           /\ d = 0 => lagged' = lagged /\ disturbed' = disturbed
           /\ d # 0 => lagged' /\ \A i \in 1..d : all[i].game \in disturbed'
           /\ disturbed \subseteq disturbed'
<1>0. rx \in Seq(Event) /\ Len(rx) \in Nat /\ Len(events) \in Nat
  BY DEF Receives
<1>a. \A S : \A u, v \in Seq(S) : u \o v \in Seq(S)
  OBVIOUS
<1>1. PICK all \in Seq(Event) : all = rx \o events
  BY <1>0, <1>a
<1>2. /\ Len(all) = Len(rx) + Len(events) /\ Len(all) \in Nat /\ BusCap \in Nat \ {0}
      /\ \A i \in 1..Len(rx) : all[i] = rx[i]
      /\ \A i \in 1..Len(events) : all[Len(rx) + i] = events[i]
  BY <1>0, <1>1, RecorderAssumption DEF RecorderAssumption
<1>3. CASE Len(all) <= BusCap
  <2>1. rx' = all /\ lagged' = lagged /\ disturbed' = disturbed
    BY <1>1, <1>3 DEF Publish
  <2>2. \A i \in 1..(Len(all) - 0) : rx'[i] = all[i + 0]
    BY <1>2, <2>1
  <2>3. Receives'
    BY <1>3, <2>1 DEF Receives
  <2>4. /\ 0 <= Len(all) /\ (Len(all) >= 1 => 0 < Len(all)) /\ Len(rx') = Len(all) - 0
        /\ disturbed \subseteq disturbed'
    BY <1>2, <2>1
  <2>. WITNESS all \in Seq(Event), 0 \in Nat
  <2>. QED
    BY <1>2, <2>1, <2>2, <2>3, <2>4
<1>4. CASE ~(Len(all) <= BusCap)
  <2>0. Len(all) \in Nat /\ BusCap \in Nat
    BY <1>2
  <2>1. PICK d \in Nat : d = Len(all) - BusCap
    BY <1>4, <2>0
  <2>2. /\ rx' = SubSeq(all, d + 1, Len(all)) /\ lagged' = TRUE
        /\ disturbed' = disturbed \cup {all[i].game : i \in 1..d}
    BY <1>1, <1>2, <1>4, <2>1 DEF Publish
  <2>3. d # 0 /\ d < Len(all) /\ Len(all) - d = BusCap
    BY <1>2, <1>4, <2>1
  <2>4. /\ rx' \in Seq(Event) /\ Len(rx') = Len(all) - d
        /\ \A i \in 1..(Len(all) - d) : rx'[i] = all[i + d]
    BY <1>2, <2>1, <2>2, <2>3
  <2>5. Receives'
    BY <1>2, <2>2, <2>3, <2>4 DEF Receives
  <2>6. disturbed \subseteq disturbed' /\ \A i \in 1..d : all[i].game \in disturbed'
    BY <2>2
  <2>7. d <= Len(all)
    BY <2>0, <2>3
  <2>. WITNESS all \in Seq(Event), d \in Nat
  <2>. QED
    BY <1>2, <2>2, <2>3, <2>4, <2>5, <2>6, <2>7
<1>. QED
  BY <1>3, <1>4

(* What a step of the table must see to when it publishes.                   *)
Tells(events) ==
  /\ events # <<>> /\ Publish(events)
  /\ UNCHANGED <<buffering, buf, overflown, gameId, awaiting, records, unsaved>>
  /\ \A e \in Event : Past(game, phase, round, ended, e) =>
       /\ Past(game', phase', round', ended', e)
       /\ \A i \in 1..Len(events) : Before(e, events[i])
  /\ \A i \in 1..Len(events) : Past(game', phase', round', ended', events[i])
  /\ \A i, j \in 1..Len(events) : i < j => Before(events[i], events[j])
  /\ \A i \in 1..(Len(events) - 1) : Follows(disturbed, events[i], events[i + 1])
  /\ \A e \in Event : Fits(disturbed, game, phase, round, step, client, e)
                        => Follows(disturbed, e, events[1])
  /\ Fits(disturbed, game', phase', round', step', client', events[Len(events)])
  /\ \A i \in 1..Len(events) : events[i].game = game'
  /\ game' \in Nat /\ ended \subseteq ended'
  /\ \/ game < game' /\ events[1].kind = "start_game"
     \/ game = game' /\ phase # "over"
  /\ \A g \in ended' \ ended : /\ g = game /\ game' = game /\ phase # "over"
                               /\ \E i \in 1..Len(events) : events[i].kind = "confirmed"

LEMMA Publishing ==
  ASSUME RInv, NEW events \in Seq(Event), Tells(events)
  PROVE  Receives' /\ Chain' /\ Link' /\ BufFine' /\ RecordsFine' /\ QuietFine'
<1>0. /\ TableFine /\ Receives /\ Chain /\ Link /\ BufFine /\ RecordsFine /\ QuietFine
      /\ rx \in Seq(Event) /\ Len(rx) \in Nat /\ Len(events) \in Nat /\ Len(events) >= 1
  BY DEF RInv, Receives, Tells
<1>1. PICK all \in Seq(Event), d \in Nat :
           /\ Len(all) = Len(rx) + Len(events) /\ d <= Len(all) /\ (Len(all) >= 1 => d < Len(all))
           /\ \A i \in 1..Len(rx) : all[i] = rx[i]
           /\ \A i \in 1..Len(events) : all[Len(rx) + i] = events[i]
           /\ Receives' /\ Len(rx') = Len(all) - d
           /\ \A i \in 1..(Len(all) - d) : rx'[i] = all[i + d]
           /\ d = 0 => lagged' = lagged /\ disturbed' = disturbed
           /\ d # 0 => lagged' /\ \A i \in 1..d : all[i].game \in disturbed'
           /\ disturbed \subseteq disturbed'
  <2>1. Publish(events)
    BY DEF Tells
  <2>. QED
    BY <1>0, <2>1, PublishGives
<1>2. PICK n \in Nat, m \in Nat : n = Len(rx) /\ m = Len(events)
  BY <1>0
<1>3. /\ m >= 1 /\ Len(all) = n + m /\ d < n + m /\ Len(rx') = (n + m) - d /\ rx' # <<>>
      /\ \A i \in 1..((n + m) - d) : rx'[i] = all[i + d] /\ i + d \in 1..(n + m)
      /\ rx' \in Seq(Event)
  BY <1>0, <1>1, <1>2 DEF Receives
<1>4. \A i \in 1..(n + m) : \/ i \in 1..n /\ all[i] = rx[i] /\ rx[i] \in Event
                            \/ i - n \in 1..m /\ i = n + (i - n) /\ all[i] = events[i - n]
  <2>1. SUFFICES ASSUME NEW i \in 1..(n + m)
                 PROVE  \/ i \in 1..n /\ all[i] = rx[i] /\ rx[i] \in Event
                        \/ i - n \in 1..m /\ i = n + (i - n) /\ all[i] = events[i - n]
    OBVIOUS
  <2>2. CASE i <= n
    BY <1>0, <1>1, <1>2, <2>2
  <2>3. CASE ~(i <= n)
    <3>1. i - n \in 1..m /\ i = n + (i - n)
      BY <2>3
    <3>2. all[Len(rx) + (i - n)] = events[i - n]
      BY <1>1, <1>2, <3>1
    <3>. QED
      BY <1>2, <3>1, <3>2
  <2>. QED
    BY <2>2, <2>3
<1>5. Receives' /\ disturbed \subseteq disturbed'
  BY <1>1
<1>6. UNCHANGED <<buffering, buf, overflown, gameId, awaiting, records, unsaved>>
      /\ Hearing' = Hearing /\ LastHeard' = LastHeard
  BY DEF Tells, Hearing, LastHeard
(* The line before anything is lost.                                         *)
<1>7. /\ \A i \in 1..(n + m) : Past(game', phase', round', ended', all[i])
      /\ \A i, j \in 1..(n + m) : i < j => Before(all[i], all[j])
  <2>1. /\ \A i \in 1..n : Past(game, phase, round, ended, rx[i])
        /\ \A i, j \in 1..n : i < j => Before(rx[i], rx[j])
    BY <1>0, <1>2 DEF Chain
  <2>2. /\ \A e \in Event : Past(game, phase, round, ended, e) =>
             /\ Past(game', phase', round', ended', e)
             /\ \A i \in 1..m : Before(e, events[i])
        /\ \A i \in 1..m : Past(game', phase', round', ended', events[i])
        /\ \A i, j \in 1..m : i < j => Before(events[i], events[j])
    BY <1>2 DEF Tells
  <2>3. \A i \in 1..(n + m) : Past(game', phase', round', ended', all[i])
    BY <1>4, <2>1, <2>2
  <2>4. ASSUME NEW i \in 1..(n + m), NEW j \in 1..(n + m), i < j PROVE Before(all[i], all[j])
    <3>1. CASE j \in 1..n
      BY <1>1, <1>2, <2>1, <2>4, <3>1
    <3>2. CASE i \in 1..n /\ j \notin 1..n
      BY <1>4, <2>1, <2>2, <3>2
    <3>3. CASE i \notin 1..n
      <4>1. /\ i - n \in 1..m /\ j - n \in 1..m /\ i - n < j - n
            /\ all[i] = events[i - n] /\ all[j] = events[j - n]
        BY <1>4, <2>4, <3>3
      <4>. QED
        BY <2>2, <4>1
    <3>. QED
      BY <2>4, <3>1, <3>2, <3>3
  <2>. QED
    BY <2>3, <2>4
<1>8. /\ \A i \in 1..((n + m) - 1) : Follows(disturbed', all[i], all[i + 1])
      /\ Fits(disturbed', game', phase', round', step', client', all[n + m])
  <2>1. /\ \A i \in 1..(n - 1) : Follows(disturbed, rx[i], rx[i + 1])
        /\ rx # <<>> => Fits(disturbed, game, phase, round, step, client, rx[n])
    BY <1>0, <1>2 DEF Chain
  <2>2. /\ \A i \in 1..(m - 1) : Follows(disturbed, events[i], events[i + 1])
        /\ \A e \in Event : Fits(disturbed, game, phase, round, step, client, e)
                              => Follows(disturbed, e, events[1])
        /\ Fits(disturbed, game', phase', round', step', client', events[m])
    BY <1>2 DEF Tells
  <2>3. ASSUME NEW i \in 1..((n + m) - 1) PROVE Follows(disturbed', all[i], all[i + 1])
    <3>1. CASE i < n
      <4>1. i \in 1..(n - 1) /\ all[i] = rx[i] /\ all[i + 1] = rx[i + 1]
        BY <1>1, <1>2, <3>1
      <4>. QED
        BY <1>5, <2>1, <4>1, FollowsMore
    <3>2. CASE i = n
      <4>1. all[i] = rx[n] /\ all[i + 1] = events[1] /\ rx # <<>> /\ rx[n] \in Event
        BY <1>0, <1>1, <1>2, <1>3, <3>2
      <4>. QED
        BY <1>5, <2>1, <2>2, <4>1, FollowsMore
    <3>3. CASE i > n
      <4>0. /\ i - n \in 1..(m - 1) /\ (i + 1) - n = (i - n) + 1 /\ (i - n) + 1 \in 1..m
            /\ i - n \in 1..m /\ n + (i - n) = i /\ n + ((i - n) + 1) = i + 1
        BY <3>3
      <4>1. /\ i - n \in 1..(m - 1)
            /\ all[i] = events[i - n] /\ all[i + 1] = events[(i - n) + 1]
        BY <1>1, <1>2, <4>0
      <4>. QED
        BY <1>5, <2>2, <4>1, FollowsMore
    <3>. QED
      BY <3>1, <3>2, <3>3
  <2>4. all[n + m] = events[m]
    BY <1>1, <1>2, <1>3
  <2>. QED
    BY <1>5, <2>2, <2>3, <2>4, FitsMore
<1>9. Chain'
  <2>1. /\ \A i \in 1..Len(rx') : Past(game', phase', round', ended', rx'[i])
        /\ \A i, j \in 1..Len(rx') : i < j => Before(rx'[i], rx'[j])
    <3>1. \A i, j \in 1..((n + m) - d) : i < j => i + d < j + d
      OBVIOUS
    <3>. QED
      BY <1>3, <1>7, <3>1
  <2>2. \A i \in 1..(Len(rx') - 1) : Follows(disturbed', rx'[i], rx'[i + 1])
    <3>1. \A i \in 1..(((n + m) - d) - 1) : /\ i + d \in 1..((n + m) - 1) /\ i \in 1..((n + m) - d)
                                            /\ i + 1 \in 1..((n + m) - d) /\ (i + 1) + d = (i + d) + 1
      OBVIOUS
    <3>2. \A i \in 1..(((n + m) - d) - 1) : rx'[i] = all[i + d] /\ rx'[i + 1] = all[(i + d) + 1]
      BY <1>3, <3>1
    <3>. QED
      BY <1>3, <1>8, <3>1, <3>2
  <2>3. rx'[Len(rx')] = all[n + m]
    <3>1. ((n + m) - d) \in 1..((n + m) - d) /\ ((n + m) - d) + d = n + m
      BY <1>3
    <3>. QED
      BY <1>3, <3>1
  <2>. QED
    BY <1>8, <2>1, <2>2, <2>3 DEF Chain
(* What was heard last goes before it.                                       *)
<1>10. Hearing /\ ~lagged => Follows(disturbed, LastHeard, all[1])
  <2>1. SUFFICES ASSUME Hearing, ~lagged PROVE Follows(disturbed, LastHeard, all[1])
    OBVIOUS
  <2>2. CASE rx = <<>>
    <3>1. Fits(disturbed, game, phase, round, step, client, LastHeard) /\ LastHeard \in Event
      BY <1>0, <2>1, <2>2, LastIsOfGame DEF Link
    <3>2. all[1] = events[1]
      BY <1>0, <1>1, <2>2
    <3>. QED
      BY <3>1, <3>2 DEF Tells
  <2>3. CASE rx # <<>>
    <3>1. 1 \in 1..Len(rx)
      BY <1>0, <2>3
    <3>. QED
      BY <1>0, <1>1, <2>1, <2>3, <3>1 DEF Link
  <2>. QED
    BY <2>2, <2>3
<1>11. Link'
  <2>1. SUFFICES ASSUME Hearing', ~lagged' PROVE Follows(disturbed', LastHeard', rx'[1])
    BY <1>3 DEF Link
  <2>2. d = 0 /\ ~lagged
    BY <1>1, <2>1
  <2>3. rx'[1] = all[1]
    BY <1>3, <2>2
  <2>. QED
    BY <1>5, <1>6, <1>10, <2>1, <2>2, <2>3, FollowsMore
<1>12. BufFine'
  <2>1. SUFFICES ASSUME Hearing
        PROVE  /\ \A i \in 1..Len(buf) : Past(game', phase', round', ended', buf[i])
               /\ \A i \in 1..Len(buf), j \in 1..Len(rx') : Before(buf[i], rx'[j])
               /\ lagged' => buf[1].game \in disturbed'
    BY <1>0, <1>5, <1>6 DEF BufFine
  <2>2. \A i \in 1..Len(buf) : buf[i] \in Event /\ Past(game, phase, round, ended, buf[i])
    BY <1>0, <2>1 DEF BufFine
  <2>3. \A i \in 1..Len(buf) : /\ Past(game', phase', round', ended', buf[i])
                               /\ \A j \in 1..m : Before(buf[i], events[j])
    BY <1>2, <2>2 DEF Tells
  <2>4. \A i \in 1..Len(buf), j \in 1..n : Before(buf[i], rx[j])
    BY <1>0, <1>2, <2>1 DEF BufFine
  <2>5. \A i \in 1..Len(buf), j \in 1..(n + m) : Before(buf[i], all[j])
    BY <1>4, <2>3, <2>4
  <2>6. \A i \in 1..Len(buf), j \in 1..Len(rx') : Before(buf[i], rx'[j])
    BY <1>3, <2>5
  <2>7. ASSUME lagged' PROVE buf[1].game \in disturbed'
    <3>1. CASE lagged
      BY <1>0, <1>5, <2>1, <3>1 DEF BufFine
    <3>2. CASE ~lagged
      <4>1. d # 0
        BY <1>1, <2>7, <3>2
      <4>2. all[1].game \in disturbed'
        BY <1>1, <4>1
      <4>3. Follows(disturbed, LastHeard, all[1])
        BY <1>10, <2>1, <3>2
      <4>4. LastHeard.game = buf[1].game /\ LastHeard.kind \notin Ends
        BY <1>0, <2>1, LastIsOfGame
      <4>. QED
        BY <1>5, <4>2, <4>3, <4>4 DEF Follows
    <3>. QED
      BY <3>1, <3>2
  <2>. QED
    BY <2>3, <2>6, <2>7
<1>13. RecordsFine'
  <2>1. game' \in Nat /\ game \in Nat /\ (game < game' \/ (game = game' /\ phase # "over"))
        /\ ended \subseteq ended' /\ \A i \in 1..m : events[i].game = game'
    BY <1>0, <1>2 DEF Tells, TableFine
  <2>2. ASSUME NEW k \in 1..Len(records)
        PROVE  /\ GoodRecord(ended', records[k])
               /\ records[k][1].game < game' /\ records[k][1].game <= game'
               /\ \A j \in 1..Len(rx') : records[k][1].game < rx'[j].game
    <3>1. /\ GoodRecord(ended, records[k]) /\ records[k][1].game <= game
          /\ (phase # "over" => records[k][1].game < game)
          /\ \A j \in 1..Len(rx) : records[k][1].game < rx[j].game
          /\ records[k] \in Seq(Event) /\ records[k] # <<>>
      <4>1. \A S : \A u \in Seq(S) : \A i \in 1..Len(u) : u[i] \in S
        OBVIOUS
      <4>2. records[k] \in Seq(Event)
        BY <1>0, <4>1 DEF RecordsFine
      <4>. QED
        BY <1>0, <4>2 DEF RecordsFine
    <3>2. records[k][1] \in Event
      BY <3>1
    <3>3. records[k][1].game \in Nat
      BY <3>2, EventSorts
    <3>4. records[k][1].game < game'
      BY <2>1, <3>1, <3>3
    <3>5. \A j \in 1..(n + m) : records[k][1].game < all[j].game
      BY <1>2, <1>4, <2>1, <3>1, <3>4
    <3>6. records[k][1].game <= game'
      BY <2>1, <3>3, <3>4
    <3>. QED
      BY <1>3, <2>1, <3>1, <3>4, <3>5, <3>6 DEF GoodRecord
  <2>. QED
    BY <1>0, <1>6, <2>2 DEF RecordsFine
<1>14. QuietFine'
  <2>1. ASSUME NEW g, g \notin disturbed', InFlight(g) PROVE InFlight(g)'
    <3>1. CASE \E j \in 1..n : rx[j].kind = "start_game" /\ rx[j].game = g
      <4>1. PICK j \in 1..n : rx[j].kind = "start_game" /\ rx[j].game = g
        BY <3>1
      <4>2. all[j] = rx[j] /\ j \in 1..(n + m)
        BY <1>1, <1>2
      <4>3. j > d
        BY <1>1, <2>1, <4>1, <4>2
      <4>4. j - d \in 1..((n + m) - d) /\ (j - d) + d = j
        BY <4>2, <4>3
      <4>5. rx'[j - d] = rx[j]
        BY <1>3, <4>2, <4>4
      <4>. QED
        BY <1>3, <4>1, <4>4, <4>5 DEF InFlight
    <3>2. CASE Hearing /\ buf[1].game = g
      BY <1>6, <3>2 DEF InFlight
    <3>. QED
      BY <1>2, <2>1, <3>1, <3>2 DEF InFlight
  <2>2. ASSUME NEW g, g \notin disturbed', NEW i \in 1..(n + m), NEW k, all[i].kind = k, all[i].game = g
        PROVE  \E j \in 1..Len(rx') : rx'[j].kind = k /\ rx'[j].game = g
    <3>1. i > d
      BY <1>1, <2>2
    <3>2. i - d \in 1..((n + m) - d) /\ (i - d) + d = i
      BY <3>1
    <3>. QED
      BY <1>3, <2>2, <3>2
  <2>3. ASSUME phase' # "over", game' \notin disturbed' PROVE InFlight(game)' 
    <3>1. CASE game < game' /\ events[1].kind = "start_game"
      <4>1. n + 1 \in 1..(n + m) /\ all[n + 1] = events[1] /\ events[1].game = game'
        BY <1>1, <1>2, <1>3 DEF Tells
      <4>2. \E j \in 1..Len(rx') : rx'[j].kind = "start_game" /\ rx'[j].game = game'
        BY <2>2, <2>3, <3>1, <4>1
      <4>. QED
        BY <4>2 DEF InFlight
    <3>2. CASE game = game' /\ phase # "over"
      <4>1. PICK g : g = game
        OBVIOUS
      <4>2. InFlight(g)
        BY <1>0, <1>5, <2>3, <3>2, <4>1 DEF QuietFine
      <4>3. InFlight(g)'
        BY <2>1, <2>3, <3>2, <4>1, <4>2
      <4>. QED
        BY <3>2, <4>1, <4>3 DEF InFlight
    <3>. QED
      BY <3>1, <3>2 DEF Tells
  <2>4. ASSUME NEW g \in ended' \ (disturbed' \cup unsaved')
        PROVE  Recorded(g)' \/ (InFlight(g)' /\ EndToCome(g)')
    <3>1. CASE g \in ended
      <4>1. g \in ended \ (disturbed \cup unsaved)
        BY <1>5, <1>6, <2>4, <3>1
      <4>2. CASE Recorded(g)
        BY <1>6, <4>2 DEF Recorded
      <4>3. CASE InFlight(g) /\ EndToCome(g)
        <5>1. PICK j \in 1..n : rx[j].kind = "confirmed" /\ rx[j].game = g
          BY <1>2, <4>3 DEF EndToCome
        <5>2. j \in 1..(n + m) /\ all[j] = rx[j]
          BY <1>1, <1>2
        <5>3. EndToCome(g)'
          BY <2>2, <2>4, <5>1, <5>2 DEF EndToCome
        <5>. QED
          BY <2>1, <2>4, <4>3, <5>3
      <4>. QED
        BY <1>0, <4>1, <4>2, <4>3 DEF QuietFine
    <3>2. CASE g \notin ended
      <4>1. PICK i \in 1..m : events[i].kind = "confirmed"
        BY <1>2, <2>4, <3>2 DEF Tells
      <4>2. g = game /\ phase # "over" /\ events[i].game = game' /\ game' = game 
        BY <1>2, <2>4, <3>2 DEF Tells
      <4>3. InFlight(g)
        BY <1>0, <1>5, <2>4, <4>2 DEF QuietFine
      <4>5. n + i \in 1..(n + m) /\ all[n + i] = events[i]
        BY <1>1, <1>2
      <4>6. EndToCome(g)'
        BY <2>2, <2>4, <4>1, <4>2, <4>5 DEF EndToCome
      <4>. QED
        BY <2>1, <2>4, <4>3, <4>6
    <3>. QED
      BY <3>1, <3>2
  <2>. QED
    BY <2>3, <2>4 DEF QuietFine
<1>. QED
  BY <1>5, <1>9, <1>11, <1>12, <1>13, <1>14

(* ------ the table -------------------------------------------------------- *)

LEMMA EvIsEvent ==
  ASSUME TableFine, game # 0, NEW k \in Kinds, NEW r \in 0..MaxRounds, NEW s \in 0..HandLen
  PROVE  /\ Ev(k, r, s) \in Event
         /\ Ev(k, r, s).kind = k /\ Ev(k, r, s).game = game /\ Ev(k, r, s).round = r
         /\ Ev(k, r, s).step = s
         /\ k = "start_game" => Ev(k, r, s).id \in {NoId, game}
<1>1. game \in 1..MaxGames /\ game \in Nat /\ NoId \in Nat
  BY RecorderAssumption DEF TableFine, NoId, RecorderAssumption
<1>2. tagged \in BOOLEAN
  BY DEF TableFine
<1>3. (IF k = "start_game" /\ tagged THEN game ELSE NoId) \in Nat
  BY <1>1
<1>. QED
  BY <1>1, <1>2, <1>3 DEF Ev, Event

(* One event is published.                                                   *)
LEMMA TellsOne ==
  ASSUME NEW e \in Event, Publish(<<e>>),
         UNCHANGED <<buffering, buf, overflown, gameId, awaiting, records, unsaved>>,
         \A x \in Event : Past(game, phase, round, ended, x) =>
           Past(game', phase', round', ended', x) /\ Before(x, e),
         Past(game', phase', round', ended', e),
         \A x \in Event : Fits(disturbed, game, phase, round, step, client, x)
                            => Follows(disturbed, x, e),
         Fits(disturbed, game', phase', round', step', client', e),
         e.game = game', game' \in Nat, ended \subseteq ended',
         \/ game < game' /\ e.kind = "start_game"
         \/ game = game' /\ phase # "over",
         \A g \in ended' \ ended : /\ g = game /\ game' = game /\ phase # "over"
                                   /\ e.kind = "confirmed"
  PROVE  <<e>> \in Seq(Event) /\ Tells(<<e>>)
<1>0. \A S : \A x \in S : <<x>> \in Seq(S)
  OBVIOUS
<1>1. PICK s \in Seq(Event) : s = <<e>>
  BY <1>0
<1>2. s # <<>> /\ Len(s) = 1 /\ s[1] = e /\ \A i \in 1..1 : i = 1
  BY <1>1
<1>3. (1..(1 - 1)) = {} /\ \A i, j \in 1..1 : ~(i < j)
  OBVIOUS
<1>4. Tells(s)
  BY <1>1, <1>2, <1>3 DEF Tells
<1>. QED
  BY <1>1, <1>4

(* A step of the table of which the recorder hears nothing.                  *)
LEMMA Silent ==
  ASSUME RInv, UNCHANGED <<rx, lagged, buffering, buf, overflown, gameId, awaiting, records, unsaved, ended>>,
         disturbed \subseteq disturbed', game' = game, round <= round', round' \in Nat,
         phase' # "over" => phase # "over",
         \A e \in Event : Fits(disturbed, game, phase, round, step, client, e)
                            => Fits(disturbed', game', phase', round', step', client', e)
  PROVE  Receives' /\ Chain' /\ Link' /\ BufFine' /\ RecordsFine' /\ QuietFine'
<1>0. TableFine /\ Receives /\ Chain /\ Link /\ BufFine /\ RecordsFine /\ QuietFine
  BY DEF RInv
<1>1. Hearing' = Hearing /\ LastHeard' = LastHeard /\ Receives'
  BY <1>0 DEF Hearing, LastHeard, Receives
<1>2. /\ rx \in Seq(Event) /\ Len(rx) \in Nat /\ \A i \in 1..Len(rx) : rx[i] \in Event
      /\ rx # <<>> => Len(rx) \in 1..Len(rx) /\ 1 \in 1..Len(rx)
      /\ game \in Nat /\ round \in Nat
  BY <1>0 DEF Receives, TableFine
<1>3. \A e \in Event : Past(game, phase, round, ended, e) => Past(game', phase', round', ended', e)
  <2>1. SUFFICES ASSUME NEW e \in Event, Past(game, phase, round, ended, e)
                 PROVE  Past(game', phase', round', ended', e)
    OBVIOUS
  <2>2. e.round \in Nat
    BY EventSorts
  <2>3. e.game = game' => e.round <= round'
    BY <1>2, <2>1, <2>2 DEF Past
  <2>. QED
    BY <2>1, <2>3 DEF Past
<1>4. Chain'
  <2>1. \A i \in 1..Len(rx) : Past(game', phase', round', ended', rx[i])
    BY <1>0, <1>2, <1>3 DEF Chain
  <2>2. \A i \in 1..(Len(rx) - 1) : Follows(disturbed', rx[i], rx[i + 1])
    BY <1>0, FollowsMore DEF Chain
  <2>3. rx # <<>> => Fits(disturbed', game', phase', round', step', client', rx[Len(rx)])
    BY <1>0, <1>2 DEF Chain
  <2>. QED
    BY <1>0, <2>1, <2>2, <2>3 DEF Chain
<1>5. Link'
  <2>1. SUFFICES ASSUME Hearing, ~lagged
                 PROVE  IF rx = <<>> THEN Fits(disturbed', game', phase', round', step', client', LastHeard)
                        ELSE Follows(disturbed', LastHeard, rx[1])
    BY <1>1 DEF Link
  <2>2. LastHeard \in Event
    BY <1>0, <2>1, LastIsOfGame
  <2>. QED
    BY <1>0, <2>1, <2>2, FollowsMore DEF Link
<1>6. BufFine'
  <2>1. Hearing => \A i \in 1..Len(buf) : Past(game', phase', round', ended', buf[i])
    <3>1. Hearing => \A i \in 1..Len(buf) : buf[i] \in Event /\ Past(game, phase, round, ended, buf[i])
      BY <1>0 DEF BufFine
    <3>. QED
      BY <1>3, <3>1
  <2>. QED
    BY <1>0, <1>1, <2>1 DEF BufFine
<1>7. RecordsFine'
  BY <1>0, <1>1 DEF RecordsFine
<1>8. QuietFine'
  <2>1. \A g : InFlight(g) => InFlight(g)'
    BY <1>1 DEF InFlight
  <2>2. phase' # "over" /\ game' \notin disturbed' => InFlight(game)'
    <3>1. SUFFICES ASSUME phase' # "over", game' \notin disturbed' PROVE InFlight(game)'
      OBVIOUS
    <3>2. InFlight(game)
      BY <1>0, <3>1 DEF QuietFine
    <3>. QED
      BY <1>1, <3>2 DEF InFlight
  <2>3. \A g \in ended' \ (disturbed' \cup unsaved') : Recorded(g)' \/ (InFlight(g)' /\ EndToCome(g)')
    <3>1. \A g : (Recorded(g) => Recorded(g)') /\ (EndToCome(g) => EndToCome(g)')
      BY DEF Recorded, EndToCome
    <3>2. \A g \in ended' \ (disturbed' \cup unsaved') : g \in ended \ (disturbed \cup unsaved)
      OBVIOUS
    <3>. QED
      BY <1>0, <2>1, <3>1, <3>2 DEF QuietFine
  <2>. QED
    BY <2>2, <2>3 DEF QuietFine
<1>. QED
  BY <1>1, <1>4, <1>5, <1>6, <1>7, <1>8

LEMMA TableSorts ==
  ASSUME TableFine
  PROVE  /\ game \in Nat /\ round \in Nat /\ step \in Nat /\ MaxGames \in Nat /\ MaxRounds \in Nat
         /\ HandLen \in Nat
  BY RecorderAssumption DEF TableFine, RecorderAssumption

LEMMA NewGameKeeps == ASSUME RInv, NEW withId \in BOOLEAN, NewGame(withId) PROVE RInv'
<1>0. TableFine
  BY DEF RInv
<1> DEFINE e == [kind |-> "start_game", id |-> IF withId THEN game + 1 ELSE NoId,
                 game |-> game + 1, round |-> 0, step |-> 0]
<1>1. /\ phase = "over" /\ game < MaxGames /\ game' = game + 1 /\ phase' = "between"
      /\ round' = 0 /\ step' = 0 /\ client' = "here" /\ tagged' = withId
      /\ Publish(<<e>>) /\ ended' = ended
      /\ UNCHANGED <<buffering, buf, overflown, gameId, awaiting, records, unsaved>>
  BY DEF NewGame, state
<1>2. game \in Nat /\ MaxGames \in Nat /\ MaxRounds \in Nat /\ HandLen \in Nat
  BY <1>0, TableSorts
<1>3. game + 1 \in 1..MaxGames /\ game + 1 \in Nat /\ game < game + 1
  BY <1>1, <1>2
<1>4. e \in Event
  <2>1. e.id \in Nat /\ e.kind \in Kinds
    BY <1>3 DEF NoId, Kinds
  <2>2. e.round \in 0..MaxRounds /\ e.step \in 0..HandLen
    BY <1>2
  <2>. QED
    BY <1>3, <2>1, <2>2 DEF Event
<1>5. \A x \in Event : Past(game, phase, round, ended, x) =>
           Past(game', phase', round', ended', x) /\ Before(x, e)
  <2>1. SUFFICES ASSUME NEW x \in Event, Past(game, phase, round, ended, x)
                 PROVE  Past(game', phase', round', ended', x) /\ Before(x, e)
    OBVIOUS
  <2>2. x.game \in Nat /\ x.game <= game
    BY <2>1, EventSorts DEF Past
  <2>3. x.game < game' /\ x.game <= game' /\ x.game # game'
    BY <1>1, <1>2, <2>2
  <2>. QED
    BY <1>1, <2>1, <2>3 DEF Past, Before
<1>6. Past(game', phase', round', ended', e)
  BY <1>1, <1>2, <1>3 DEF Past, Ends, NoId
<1>7. \A x \in Event : Fits(disturbed, game, phase, round, step, client, x)
                         => Follows(disturbed, x, e)
  BY <1>1, <1>2 DEF Fits, Follows
<1>8. Fits(disturbed, game', phase', round', step', client', e)
  BY <1>1 DEF Fits, Ends
<1>9. <<e>> \in Seq(Event) /\ Tells(<<e>>)
  <2>1. e.game = game' /\ game' \in Nat /\ ended \subseteq ended' /\ ended' \ ended = {}
        /\ game < game' /\ e.kind = "start_game"
    BY <1>1, <1>3
  <2> HIDE DEF e
  <2>. QED
    BY <1>1, <1>4, <1>5, <1>6, <1>7, <1>8, <2>1, TellsOne
<1>10. TableFine'
  BY <1>1, <1>2, <1>3 DEF TableFine
<1> HIDE DEF e
<1>. QED
  BY <1>9, <1>10, Publishing DEF RInv

(* The game goes on: what was past is past.                                  *)
LEMMA StillPast ==
  ASSUME RInv, game' = game, round' \in Nat, round <= round', ended \subseteq ended',
         phase # "over", NEW e, e.game = game, e.kind \in Carries => e.round >= round
  PROVE  \A x \in Event : Past(game, phase, round, ended, x) =>
           Past(game', phase', round', ended', x) /\ (e.round \in Nat => Before(x, e))
<1>0. game \in Nat /\ round \in Nat
  BY TableSorts DEF RInv
<1>. SUFFICES ASSUME NEW x \in Event, Past(game, phase, round, ended, x)
              PROVE  Past(game', phase', round', ended', x) /\ (e.round \in Nat => Before(x, e))
  OBVIOUS
<1>1. x.round \in Nat /\ x.game \in Nat
  BY EventSorts
<1>2. x.game = game' => x.round <= round'
  BY <1>0, <1>1 DEF Past
<1>3. e.round \in Nat => Before(x, e)
  BY <1>0, <1>1 DEF Past, Before
<1>4. Past(game', phase', round', ended', x)
  BY <1>2 DEF Past
<1>. QED
  BY <1>3, <1>4

LEMMA DealKeeps == RInv /\ Deal => RInv'
<1> SUFFICES ASSUME RInv, Deal PROVE RInv'
  OBVIOUS
<1>0. TableFine
  BY DEF RInv
<1>1. /\ phase = "between" /\ round < MaxRounds /\ phase' = "hand" /\ round' = round + 1 /\ step' = 0
      /\ game' = game /\ client' = client /\ tagged' = tagged /\ ended' = ended
      /\ UNCHANGED <<buffering, buf, overflown, gameId, awaiting, records, unsaved>>
      /\ PublishIfHere(<<Ev("start_kyoku", round + 1, 0)>>)
  BY DEF Deal, state
<1>2. /\ game \in Nat /\ round \in Nat /\ MaxRounds \in Nat /\ HandLen \in Nat /\ game # 0
      /\ round + 1 \in 0..MaxRounds /\ round + 1 \in Nat /\ 0 \in 0..HandLen /\ round <= round + 1
      /\ round + 1 # 0
  BY <1>0, <1>1, TableSorts DEF TableFine
<1>3. PICK e \in Event : /\ e = Ev("start_kyoku", round + 1, 0) /\ e.kind = "start_kyoku"
                         /\ e.game = game /\ e.round = round + 1 /\ e.step = 0
  BY <1>0, <1>2, EvIsEvent DEF Kinds
<1>4. CASE client = "here"
  <2>1. Publish(<<e>>)
    BY <1>1, <1>3, <1>4 DEF PublishIfHere
  <2>2. \A x \in Event : Past(game, phase, round, ended, x) =>
           Past(game', phase', round', ended', x) /\ Before(x, e)
    BY <1>1, <1>2, <1>3, StillPast
  <2>3. Past(game', phase', round', ended', e)
    BY <1>1, <1>2, <1>3 DEF Past, Ends
  <2>4. \A x \in Event : Fits(disturbed, game, phase, round, step, client, x)
                            => Follows(disturbed, x, e)
    BY <1>1, <1>2, <1>3, <1>4 DEF Fits, Follows, Ends
  <2>5. Fits(disturbed, game', phase', round', step', client', e)
    BY <1>1, <1>3, <1>4 DEF Fits, Ends
  <2>6. <<e>> \in Seq(Event) /\ Tells(<<e>>)
    BY <1>1, <1>2, <1>3, <2>1, <2>2, <2>3, <2>4, <2>5, TellsOne
  <2>7. disturbed \subseteq disturbed'
    BY <2>1, <2>6, PublishGives DEF RInv
  <2>8. TableFine'
    BY <1>0, <1>1, <1>2, <1>4, <2>7 DEF TableFine
  <2>. QED
    BY <2>6, <2>8, Publishing DEF RInv
<1>5. CASE client # "here"
  <2>1. UNCHANGED <<rx, lagged, disturbed>>
    BY <1>1, <1>5 DEF PublishIfHere
  <2>2. \A x \in Event : Fits(disturbed, game, phase, round, step, client, x)
                            => Fits(disturbed', game', phase', round', step', client', x)
    BY <1>1, <1>5, <2>1 DEF Fits
  <2>3. TableFine'
    BY <1>0, <1>1, <1>2, <2>1 DEF TableFine
  <2>. QED
    BY <1>1, <1>2, <2>1, <2>2, <2>3, Silent DEF RInv
<1>. QED
  BY <1>4, <1>5

LEMMA PlayKeeps == RInv /\ Play => RInv'
<1> SUFFICES ASSUME RInv, Play PROVE RInv'
  OBVIOUS
<1>0. TableFine
  BY DEF RInv
<1>1. /\ phase = "hand" /\ step < HandLen /\ phase' = phase /\ round' = round /\ step' = step + 1
      /\ game' = game /\ client' = client /\ tagged' = tagged /\ ended' = ended
      /\ UNCHANGED <<buffering, buf, overflown, gameId, awaiting, records, unsaved>>
      /\ PublishIfHere(<<Ev("play", round, step + 1)>>)
  BY DEF Play, state
<1>2. /\ game \in Nat /\ round \in Nat /\ step \in Nat /\ HandLen \in Nat /\ game # 0
      /\ step + 1 \in 0..HandLen /\ round \in 0..MaxRounds /\ round <= round /\ round >= round
      /\ step + 1 # 0
  BY <1>0, <1>1, TableSorts DEF TableFine
<1>3. PICK e \in Event : /\ e = Ev("play", round, step + 1) /\ e.kind = "play"
                         /\ e.game = game /\ e.round = round /\ e.step = step + 1
  BY <1>0, <1>2, EvIsEvent DEF Kinds
<1>4. CASE client = "here"
  <2>1. Publish(<<e>>)
    BY <1>1, <1>3, <1>4 DEF PublishIfHere
  <2>2. \A x \in Event : Past(game, phase, round, ended, x) =>
           Past(game', phase', round', ended', x) /\ Before(x, e)
    BY <1>1, <1>2, <1>3, StillPast
  <2>3. Past(game', phase', round', ended', e)
    BY <1>1, <1>2, <1>3 DEF Past, Ends
  <2>4. \A x \in Event : Fits(disturbed, game, phase, round, step, client, x)
                            => Follows(disturbed, x, e)
    BY <1>1, <1>2, <1>3, <1>4 DEF Fits, Follows, Ends
  <2>5. Fits(disturbed, game', phase', round', step', client', e)
    BY <1>1, <1>2, <1>3, <1>4 DEF Fits, Ends
  <2>6. <<e>> \in Seq(Event) /\ Tells(<<e>>)
    BY <1>1, <1>2, <1>3, <2>1, <2>2, <2>3, <2>4, <2>5, TellsOne
  <2>7. disturbed \subseteq disturbed'
    BY <2>1, <2>6, PublishGives DEF RInv
  <2>8. TableFine'
    BY <1>0, <1>1, <1>2, <1>4, <2>7 DEF TableFine
  <2>. QED
    BY <2>6, <2>8, Publishing DEF RInv
<1>5. CASE client # "here"
  <2>1. UNCHANGED <<rx, lagged, disturbed>>
    BY <1>1, <1>5 DEF PublishIfHere
  <2>2. \A x \in Event : Fits(disturbed, game, phase, round, step, client, x)
                            => Fits(disturbed', game', phase', round', step', client', x)
    BY <1>1, <1>5, <2>1 DEF Fits
  <2>3. TableFine'
    BY <1>0, <1>1, <1>2, <2>1 DEF TableFine
  <2>. QED
    BY <1>1, <1>2, <2>1, <2>2, <2>3, Silent DEF RInv
<1>. QED
  BY <1>4, <1>5

LEMMA EndHandKeeps == RInv /\ EndHand => RInv'
<1> SUFFICES ASSUME RInv, EndHand PROVE RInv'
  OBVIOUS
<1>0. TableFine
  BY DEF RInv
<1>1. /\ phase = "hand" /\ step = HandLen /\ phase' = "between" /\ round' = round /\ step' = step
      /\ game' = game /\ client' = client /\ tagged' = tagged /\ ended' = ended
      /\ UNCHANGED <<buffering, buf, overflown, gameId, awaiting, records, unsaved>>
      /\ PublishIfHere(<<Ev("end_kyoku", round, 0)>>)
  BY DEF EndHand, state
<1>2. /\ game \in Nat /\ round \in Nat /\ step \in Nat /\ HandLen \in Nat /\ game # 0
      /\ 0 \in 0..HandLen /\ round \in 0..MaxRounds /\ round <= round /\ round >= round
  BY <1>0, <1>1, TableSorts DEF TableFine
<1>3. PICK e \in Event : /\ e = Ev("end_kyoku", round, 0) /\ e.kind = "end_kyoku"
                         /\ e.game = game /\ e.round = round /\ e.step = 0
  BY <1>0, <1>2, EvIsEvent DEF Kinds
<1>4. CASE client = "here"
  <2>1. Publish(<<e>>)
    BY <1>1, <1>3, <1>4 DEF PublishIfHere
  <2>2. \A x \in Event : Past(game, phase, round, ended, x) =>
           Past(game', phase', round', ended', x) /\ Before(x, e)
    BY <1>1, <1>2, <1>3, StillPast
  <2>3. Past(game', phase', round', ended', e)
    BY <1>1, <1>2, <1>3 DEF Past, Ends
  <2>4. \A x \in Event : Fits(disturbed, game, phase, round, step, client, x)
                            => Follows(disturbed, x, e)
    BY <1>1, <1>2, <1>3, <1>4 DEF Fits, Follows, Ends
  <2>5. Fits(disturbed, game', phase', round', step', client', e)
    BY <1>1, <1>3, <1>4 DEF Fits, Ends
  <2>6. <<e>> \in Seq(Event) /\ Tells(<<e>>)
    BY <1>1, <1>2, <1>3, <2>1, <2>2, <2>3, <2>4, <2>5, TellsOne
  <2>7. disturbed \subseteq disturbed'
    BY <2>1, <2>6, PublishGives DEF RInv
  <2>8. TableFine'
    BY <1>0, <1>1, <1>2, <1>4, <2>7 DEF TableFine
  <2>. QED
    BY <2>6, <2>8, Publishing DEF RInv
<1>5. CASE client # "here"
  <2>1. UNCHANGED <<rx, lagged, disturbed>>
    BY <1>1, <1>5 DEF PublishIfHere
  <2>2. \A x \in Event : Fits(disturbed, game, phase, round, step, client, x)
                            => Fits(disturbed', game', phase', round', step', client', x)
    BY <1>1, <1>5, <2>1 DEF Fits
  <2>3. TableFine'
    BY <1>0, <1>1, <1>2, <2>1 DEF TableFine
  <2>. QED
    BY <1>1, <1>2, <2>1, <2>2, <2>3, Silent DEF RInv
<1>. QED
  BY <1>4, <1>5


LEMMA EndGameKeeps == ASSUME RInv, NEW kind \in Ends, EndGame(kind) PROVE RInv'
<1>0. TableFine
  BY DEF RInv
<1>1. /\ phase # "over" /\ (kind = "confirmed" => phase = "between" /\ round > 0)
      /\ phase' = "over" /\ client' = "away" /\ round' = round /\ step' = step
      /\ game' = game /\ tagged' = tagged
      /\ ended' = IF kind = "confirmed" /\ client = "here" THEN ended \cup {game} ELSE ended
      /\ UNCHANGED <<buffering, buf, overflown, gameId, awaiting, records, unsaved>>
      /\ PublishIfHere(<<Ev(kind, 0, 0)>>)
  BY DEF EndGame, state, Ends
<1>2. /\ game \in Nat /\ round \in Nat /\ step \in Nat /\ HandLen \in Nat /\ game # 0
      /\ MaxRounds \in Nat /\ 0 \in 0..HandLen /\ 0 \in 0..MaxRounds /\ round <= round /\ 0 <= round
  BY <1>0, <1>1, TableSorts DEF TableFine
<1>3. PICK e \in Event : /\ e = Ev(kind, 0, 0) /\ e.kind = kind
                         /\ e.game = game /\ e.round = 0 /\ e.step = 0
  BY <1>0, <1>2, EvIsEvent DEF Kinds, Ends
<1>a. kind = "confirmed" \/ kind = "terminated"
  BY DEF Ends
<1>b. ended \subseteq ended'
  BY <1>1
<1>4. CASE client = "here"
  <2>1. Publish(<<e>>)
    BY <1>1, <1>3, <1>4 DEF PublishIfHere
  <2>2. \A x \in Event : Past(game, phase, round, ended, x) =>
           Past(game', phase', round', ended', x) /\ Before(x, e)
    <3>1. e.kind \in Carries => e.round >= round
      BY <1>3, <1>a DEF Carries
    <3>. QED
      BY <1>1, <1>2, <1>3, <1>b, <3>1, StillPast
  <2>3. Past(game', phase', round', ended', e)
    BY <1>1, <1>2, <1>3, <1>4, <1>a DEF Past, Ends
  <2>4. \A x \in Event : Fits(disturbed, game, phase, round, step, client, x)
                            => Follows(disturbed, x, e)
    BY <1>1, <1>2, <1>3, <1>4, <1>a DEF Fits, Follows, Ends
  <2>5. Fits(disturbed, game', phase', round', step', client', e)
    BY <1>1, <1>3, <1>4 DEF Fits, Ends
  <2>6. <<e>> \in Seq(Event) /\ Tells(<<e>>)
    <3>1. \A g \in ended' \ ended : /\ g = game /\ game' = game /\ phase # "over"
                                    /\ e.kind = "confirmed"
      BY <1>1, <1>3
    <3>. QED
      BY <1>1, <1>2, <1>3, <1>b, <2>1, <2>2, <2>3, <2>4, <2>5, <3>1, TellsOne
  <2>7. disturbed \subseteq disturbed'
    BY <2>1, <2>6, PublishGives DEF RInv
  <2>8. TableFine'
    BY <1>0, <1>1, <1>2, <2>7 DEF TableFine
  <2>. QED
    BY <2>6, <2>8, Publishing DEF RInv
<1>5. CASE client # "here"
  <2>1. UNCHANGED <<rx, lagged, disturbed>> /\ ended' = ended
    BY <1>1, <1>5 DEF PublishIfHere
  <2>2. game \in disturbed
    BY <1>0, <1>1, <1>5 DEF TableFine
  <2>3. \A x \in Event : Fits(disturbed, game, phase, round, step, client, x)
                            => Fits(disturbed', game', phase', round', step', client', x)
    BY <1>1, <1>5, <2>1, <2>2 DEF Fits
  <2>4. TableFine'
    BY <1>0, <1>1, <1>2, <2>1 DEF TableFine
  <2>. QED
    BY <1>1, <1>2, <2>1, <2>3, <2>4, Silent DEF RInv
<1>. QED
  BY <1>4, <1>5

LEMMA LeaveKeeps == RInv /\ Leave => RInv'
<1> SUFFICES ASSUME RInv, Leave PROVE RInv'
  OBVIOUS
<1>0. TableFine
  BY DEF RInv
<1>1. /\ phase # "over" /\ client' = "away" /\ disturbed' = disturbed \cup {game}
      /\ UNCHANGED <<game, tagged, phase, round, step, rx, lagged, ended>>
      /\ UNCHANGED <<buffering, buf, overflown, gameId, awaiting, records, unsaved>>
  BY DEF Leave, state
<1>2. round \in Nat /\ round <= round
  BY <1>0, TableSorts
<1>3. \A x \in Event : Fits(disturbed, game, phase, round, step, client, x)
                          => Fits(disturbed', game', phase', round', step', client', x)
  BY <1>1 DEF Fits
<1>4. TableFine'
  BY <1>0, <1>1 DEF TableFine
<1>. QED
  BY <1>1, <1>2, <1>3, <1>4, Silent DEF RInv

LEMMA RejoinKeeps == RInv /\ Rejoin => RInv'
<1> SUFFICES ASSUME RInv, Rejoin PROVE RInv'
  OBVIOUS
<1>0. TableFine
  BY DEF RInv
<1>1. /\ phase # "over" /\ client = "away" /\ client' = "syncing"
      /\ phase' = phase /\ round' = round /\ step' = step
      /\ game' = game /\ tagged' = tagged /\ ended' = ended
      /\ UNCHANGED <<buffering, buf, overflown, gameId, awaiting, records, unsaved>>
      /\ Publish(<<Ev("start_game", 0, 0)>>)
  BY DEF Rejoin, state
<1>2. /\ game \in Nat /\ round \in Nat /\ step \in Nat /\ HandLen \in Nat /\ game # 0
      /\ MaxRounds \in Nat /\ 0 \in 0..HandLen /\ 0 \in 0..MaxRounds /\ round <= round /\ 0 <= round
      /\ game \in disturbed
  BY <1>0, <1>1, TableSorts DEF TableFine
<1>3. PICK e \in Event : /\ e = Ev("start_game", 0, 0) /\ e.kind = "start_game"
                         /\ e.game = game /\ e.round = 0 /\ e.step = 0 /\ e.id \in {NoId, game}
  BY <1>0, <1>2, EvIsEvent DEF Kinds
<1>4. Publish(<<e>>)
  BY <1>1, <1>3
<1>5. \A x \in Event : Past(game, phase, round, ended, x) =>
         Past(game', phase', round', ended', x) /\ Before(x, e)
  <2>1. e.kind \notin Carries
    BY <1>3 DEF Carries
  <2>. QED
    BY <1>1, <1>2, <1>3, <2>1, StillPast
<1>6. Past(game', phase', round', ended', e)
  BY <1>1, <1>2, <1>3 DEF Past, Ends
<1>7. \A x \in Event : Fits(disturbed, game, phase, round, step, client, x)
                          => Follows(disturbed, x, e)
  BY <1>1, <1>2, <1>3 DEF Fits, Follows, Ends
<1>8. Fits(disturbed, game', phase', round', step', client', e)
  BY <1>1, <1>3 DEF Fits, Ends
<1>9. <<e>> \in Seq(Event) /\ Tells(<<e>>)
  BY <1>1, <1>2, <1>3, <1>4, <1>5, <1>6, <1>7, <1>8, TellsOne
<1>10. disturbed \subseteq disturbed'
  BY <1>4, <1>9, PublishGives DEF RInv
<1>11. TableFine'
  BY <1>0, <1>1, <1>2, <1>10 DEF TableFine
<1>. QED
  BY <1>9, <1>11, Publishing DEF RInv

(* A restored round is a round from its start.                               *)
LEMMA ReplayGives ==
  ASSUME TableFine, phase # "over", round # 0, NEW k \in 0..HandLen
  PROVE  /\ Replay(round, k) \in Seq(Event) /\ Len(Replay(round, k)) = k + 1
         /\ \A i \in 1..(k + 1) : /\ Replay(round, k)[i].game = game /\ Replay(round, k)[i].round = round
                                  /\ InRound(Replay(round, k), 1, i)
<1>0. /\ k \in Nat /\ HandLen \in Nat /\ k <= HandLen /\ 0 \in 0..HandLen /\ game # 0 /\ round \in 0..MaxRounds
      /\ MaxRounds \in Nat
  BY TableSorts DEF TableFine
<1>1. \A i \in 1..k : Ev("play", round, i) \in Event /\ i \in 0..HandLen
  BY <1>0, EvIsEvent DEF Kinds
<1>2. Ev("start_kyoku", round, 0) \in Event
  BY <1>0, EvIsEvent DEF Kinds
<1>3. PICK p \in Seq(Event) : p = [i \in 1..k |-> Ev("play", round, i)]
  <2>1. \A S : \A f \in [1..k -> S] : f \in Seq(S)
    BY <1>0
  <2>. QED
    BY <1>1, <2>1
<1>4. Len(p) = k /\ \A i \in 1..k : p[i] = Ev("play", round, i)
  BY <1>0, <1>3
<1>5. PICK s \in Seq(Event) : s = <<Ev("start_kyoku", round, 0)>>
  <2>1. \A S : \A x \in S : <<x>> \in Seq(S)
    OBVIOUS
  <2>. QED
    BY <1>2, <2>1
<1>6. Len(s) = 1 /\ s[1] = Ev("start_kyoku", round, 0)
  BY <1>5
<1>7. PICK t \in Seq(Event) : t = s \o p
  <2>1. \A S : \A u, v \in Seq(S) : u \o v \in Seq(S)
    OBVIOUS
  <2>. QED
    BY <2>1
<1>8. t = Replay(round, k)
  BY <1>3, <1>5, <1>7 DEF Replay
<1>9. Len(t) = k + 1 /\ t[1] = Ev("start_kyoku", round, 0)
      /\ \A i \in 2..(k + 1) : t[i] = Ev("play", round, i - 1)
  <2>1. \A i \in 2..(k + 1) : i - 1 \in 1..k /\ i \in 1..(k + 1) /\ i > 1
    BY <1>0
  <2>2. \A u, v \in Seq(Event) : /\ Len(u \o v) = Len(u) + Len(v)
                                 /\ \A i \in 1..Len(u) : (u \o v)[i] = u[i]
                                 /\ \A i \in 1..Len(v) : (u \o v)[Len(u) + i] = v[i]
    OBVIOUS
  <2>3. Len(t) = 1 + k /\ t[1] = s[1] /\ \A i \in 1..k : t[1 + i] = p[i]
    <3>1. 1 \in 1..Len(s)
      BY <1>6
    <3>2. Len(t) = Len(s) + Len(p)
      BY <1>7, <2>2
    <3>3. t[1] = s[1]
      BY <1>7, <2>2, <3>1
    <3>4. \A i \in 1..Len(p) : t[Len(s) + i] = p[i]
      BY <1>7, <2>2
    <3>. QED
      BY <1>4, <1>6, <3>2, <3>3, <3>4
  <2>4. \A i \in 2..(k + 1) : t[1 + (i - 1)] = Ev("play", round, i - 1) /\ 1 + (i - 1) = i
    BY <1>0, <1>4, <2>1, <2>3
  <2>. QED
    BY <1>0, <1>6, <2>3, <2>4
<1>10. ASSUME NEW i \in 1..(k + 1)
       PROVE  t[i].game = game /\ t[i].round = round /\ InRound(t, 1, i)
  <2>1. t[1].game = game /\ t[1].round = round /\ t[1].kind = "start_kyoku" /\ t[1].step = 0
    BY <1>9 DEF Ev
  <2>2. CASE i = 1
    BY <2>1, <2>2 DEF InRound
  <2>3. CASE i # 1
    <3>1. i \in 2..(k + 1) /\ i - 1 <= HandLen
      BY <1>0, <2>3
    <3>2. t[i].game = game /\ t[i].round = round /\ t[i].kind = "play" /\ t[i].step = i - 1
      <4>1. t[i] = Ev("play", round, i - 1)
        BY <1>9, <3>1
      <4>. QED
        BY <4>1 DEF Ev
    <3>. QED
      BY <2>1, <2>3, <3>1, <3>2 DEF InRound
  <2>. QED
    BY <2>2, <2>3
<1>. QED
  BY <1>7, <1>8, <1>9, <1>10

LEMMA BurstTells ==
  ASSUME RInv, Restore, NEW events \in Seq(Event), NEW m \in Nat, m >= 1, m <= HandLen + 2, Len(events) = m,
         Publish(events), round # 0,
         \A i \in 1..m : events[i].game = game /\ events[i].round = round /\ InRound(events, 1, i),
         IF phase = "hand" THEN m = step + 1 ELSE m = HandLen + 2
  PROVE  Tells(events)
<1>0. TableFine
  BY DEF RInv
<1>1. /\ phase # "over" /\ client = "syncing" /\ client' = "here"
      /\ phase' = phase /\ round' = round /\ step' = step
      /\ game' = game /\ tagged' = tagged /\ ended' = ended
      /\ UNCHANGED <<buffering, buf, overflown, gameId, awaiting, records, unsaved>>
  BY DEF Restore, state
<1>2. /\ game \in Nat /\ round \in Nat /\ step \in Nat /\ HandLen \in Nat /\ game # 0
      /\ game \in disturbed /\ step <= HandLen
      /\ phase = "between" \/ phase = "hand"
  BY <1>0, <1>1, TableSorts DEF TableFine
<1>3. ASSUME NEW i \in 1..m
      PROVE  /\ i \in Nat /\ i >= 1 /\ events[i] \in Event
             /\ events[i].game = game /\ events[i].round = round
             /\ events[i].kind \in Carries /\ events[i].kind \notin Ends
             /\ i = 1 => events[i].kind = "start_kyoku" /\ events[i].step = 0
             /\ i # 1 /\ i <= HandLen + 1 => events[i].kind = "play" /\ events[i].step = i - 1
             /\ i > HandLen + 1 => i = HandLen + 2 /\ events[i].kind = "end_kyoku" /\ events[i].step = 0
  BY <1>2 DEF InRound, Carries, Ends
<1>4. ASSUME NEW i \in 1..m PROVE Past(game', phase', round', ended', events[i])
  <2>1. events[i].kind # "confirmed" /\ events[i].kind # "start_game"
    BY <1>3 DEF Carries
  <2>2. events[i].kind \in {"start_kyoku", "end_kyoku"} => events[i].step = 0
    BY <1>2, <1>3
  <2>. QED
    BY <1>1, <1>2, <1>3, <2>1, <2>2 DEF Past
<1>5. ASSUME NEW i \in 1..m
      PROVE  \A x \in Event : Past(game, phase, round, ended, x) =>
               Past(game', phase', round', ended', x) /\ Before(x, events[i])
  BY <1>1, <1>2, <1>3, StillPast
<1>6. ASSUME NEW i \in 1..m, NEW j \in 1..m PROVE Before(events[i], events[j])
  BY <1>2, <1>3 DEF Before
<1>7. ASSUME NEW i \in 1..(m - 1) PROVE Follows(disturbed, events[i], events[i + 1])
  <2>1. i \in 1..m /\ i + 1 \in 1..m /\ i \in Nat /\ i + 1 # 1 /\ (i + 1) - 1 = i /\ i <= HandLen + 1
    BY <1>2
  <2>2. CASE i + 1 <= HandLen + 1
    BY <1>2, <1>3, <2>1, <2>2 DEF Follows
  <2>3. CASE ~(i + 1 <= HandLen + 1)
    <3>1. events[i + 1].kind = "end_kyoku" /\ i + 1 = HandLen + 2 /\ i - 1 = HandLen
      BY <1>2, <1>3, <2>1, <2>3
    <3>2. IF i = 1 THEN events[i].kind = "start_kyoku" ELSE events[i].kind = "play" /\ events[i].step = HandLen
      BY <1>2, <1>3, <2>1, <3>1
    <3>3. i = 1 => HandLen = 0
      BY <2>1, <3>1
    <3>. QED
      BY <1>3, <2>1, <3>1, <3>2, <3>3 DEF Follows
  <2>. QED
    BY <2>2, <2>3
<1>8. \A x \in Event : Fits(disturbed, game, phase, round, step, client, x)
                          => Follows(disturbed, x, events[1])
  <2>1. 1 \in 1..m
    OBVIOUS
  <2>2. events[1].kind = "start_kyoku" /\ events[1].game = game
    BY <1>3, <2>1
  <2>. QED
    BY <1>1, <1>2, <2>2 DEF Fits, Follows, Ends
<1>9. Fits(disturbed, game', phase', round', step', client', events[m])
  <2>1. m \in 1..m
    OBVIOUS
  <2>2. events[m].game = game /\ events[m].round = round /\ events[m].kind \notin Ends
    BY <1>3, <2>1
  <2>3. CASE phase = "hand"
    <3>1. m = step + 1 /\ m - 1 = step /\ (m = 1 <=> step = 0) /\ m <= HandLen + 1
      BY <1>2, <2>3
    <3>2. IF step = 0 THEN events[m].kind = "start_kyoku" ELSE events[m].kind = "play" /\ events[m].step = step
      BY <1>3, <2>1, <3>1
    <3>. QED
      BY <1>1, <2>2, <2>3, <3>2 DEF Fits
  <2>4. CASE phase # "hand"
    <3>1. events[m].kind = "end_kyoku" /\ phase = "between"
      BY <1>2, <1>3, <2>1, <2>4
    <3>. QED
      BY <1>1, <2>2, <3>1 DEF Fits
  <2>. QED
    BY <2>3, <2>4
<1>10. events # <<>> /\ ended' \ ended = {} /\ ended \subseteq ended' /\ game' \in Nat
  BY <1>1, <1>2
<1>11. \A i \in 1..m : events[i].game = game'
  BY <1>1
<1>12. \A e \in Event : Past(game, phase, round, ended, e) =>
         /\ Past(game', phase', round', ended', e)
         /\ \A i \in 1..m : Before(e, events[i])
  <2>1. 1 \in 1..m
    OBVIOUS
  <2>. QED
    BY <1>5, <2>1
<1>. QED
  BY <1>1, <1>4, <1>6, <1>7, <1>8, <1>9, <1>10, <1>11, <1>12 DEF Tells

LEMMA RestoreKeeps == RInv /\ Restore => RInv'
<1> SUFFICES ASSUME RInv, Restore PROVE RInv'
  OBVIOUS
<1>0. TableFine /\ Receives
  BY DEF RInv
<1>1. /\ phase # "over" /\ client = "syncing" /\ client' = "here"
      /\ phase' = phase /\ round' = round /\ step' = step
      /\ game' = game /\ tagged' = tagged /\ ended' = ended
      /\ UNCHANGED <<buffering, buf, overflown, gameId, awaiting, records, unsaved>>
      /\ \/ phase = "hand" /\ Publish(Replay(round, step))
         \/ phase = "between" /\ Publish(<<>>)
         \/ /\ phase = "between" /\ round > 0
            /\ Publish(Append(Replay(round, HandLen), Ev("end_kyoku", round, 0)))
  BY DEF Restore, state
<1>2. /\ game \in Nat /\ round \in Nat /\ step \in Nat /\ HandLen \in Nat /\ game # 0
      /\ game \in disturbed /\ step \in 0..HandLen /\ HandLen \in 0..HandLen /\ round <= round
      /\ 0 \in 0..HandLen /\ round \in 0..MaxRounds /\ (phase = "hand" => round # 0)
      /\ step + 1 >= 1 /\ step + 1 <= HandLen + 2 /\ step + 1 \in Nat
      /\ HandLen + 2 >= 1 /\ HandLen + 2 <= HandLen + 2 /\ HandLen + 2 \in Nat
  BY <1>0, <1>1, TableSorts DEF TableFine
<1>3. ASSUME NEW events \in Seq(Event), Tells(events) PROVE RInv'
  <2>1. disturbed \subseteq disturbed'
    BY <1>0, <1>3, PublishGives DEF Tells
  <2>2. TableFine'
    BY <1>0, <1>1, <1>2, <2>1 DEF TableFine
  <2>. QED
    BY <1>3, <2>2, Publishing DEF RInv
<1>4. CASE phase = "hand" /\ Publish(Replay(round, step))
  <2>1. Tells(Replay(round, step)) /\ Replay(round, step) \in Seq(Event)
    BY <1>0, <1>1, <1>2, <1>4, ReplayGives, BurstTells
  <2>. QED
    BY <1>3, <2>1
<1>5. CASE phase = "between" /\ Publish(<<>>)
  <2>1. UNCHANGED <<rx, lagged, disturbed>>
    <3>1. rx \in Seq(Event) /\ Len(rx) <= BusCap
      BY <1>0 DEF Receives
    <3>2. rx \o <<>> = rx
      BY <3>1
    <3>. QED
      BY <1>5, <3>1, <3>2 DEF Publish
  <2>2. \A x \in Event : Fits(disturbed, game, phase, round, step, client, x)
                          => Fits(disturbed', game', phase', round', step', client', x)
    BY <1>1, <1>2, <1>5, <2>1 DEF Fits
  <2>3. TableFine'
    BY <1>0, <1>1, <1>2, <2>1 DEF TableFine
  <2>. QED
    BY <1>1, <1>2, <2>1, <2>2, <2>3, Silent DEF RInv
<1>6. CASE /\ phase = "between" /\ round > 0
           /\ Publish(Append(Replay(round, HandLen), Ev("end_kyoku", round, 0)))
  <2>0. round # 0
    BY <1>2, <1>6
  <2>1. PICK s \in Seq(Event) : s = Replay(round, HandLen)
    BY <1>0, <1>1, <1>2, <2>0, ReplayGives
  <2>2. /\ Len(s) = HandLen + 1
        /\ \A i \in 1..(HandLen + 1) : s[i].game = game /\ s[i].round = round /\ InRound(s, 1, i)
    BY <1>0, <1>1, <1>2, <2>0, <2>1, ReplayGives
  <2>3. PICK e \in Event : /\ e = Ev("end_kyoku", round, 0) /\ e.kind = "end_kyoku"
                           /\ e.game = game /\ e.round = round /\ e.step = 0
    BY <1>0, <1>2, EvIsEvent DEF Kinds
  <2>4. PICK t \in Seq(Event) : t = Append(s, e)
    <3>1. \A S : \A u \in Seq(S), x \in S : Append(u, x) \in Seq(S)
      OBVIOUS
    <3>. QED
      BY <3>1
  <2>5. /\ Len(t) = HandLen + 2 /\ t[HandLen + 2] = e
        /\ \A i \in 1..(HandLen + 1) : t[i] = s[i]
    BY <1>2, <2>2, <2>4
  <2>6. ASSUME NEW i \in 1..(HandLen + 2)
        PROVE  t[i].game = game /\ t[i].round = round /\ InRound(t, 1, i)
    <3>0. t[1] = s[1] /\ t[1].round = round
      BY <1>2, <2>2, <2>5
    <3>1. CASE i <= HandLen + 1
      <4>1. i \in 1..(HandLen + 1)
        BY <1>2, <3>1
      <4>. QED
        BY <2>2, <2>5, <3>0, <4>1 DEF InRound
    <3>2. CASE ~(i <= HandLen + 1)
      <4>1. i = HandLen + 2 /\ i # 1 /\ ~(i - 1 <= HandLen) /\ i - 1 = HandLen + 1
        BY <1>2, <3>2
      <4>. QED
        BY <2>3, <2>5, <3>0, <4>1 DEF InRound
    <3>. QED
      BY <3>1, <3>2
  <2>7. Publish(t)
    BY <1>6, <2>1, <2>3, <2>4
  <2>8. Tells(t)
    BY <1>2, <1>6, <2>0, <2>5, <2>6, <2>7, BurstTells
  <2>. QED
    BY <1>3, <2>8
<1>. QED
  BY <1>1, <1>4, <1>5, <1>6

(* ------ the recorder takes an event --------------------------------------- *)

(* x may be the last that the recorder has heard after the step.             *)
Linked(x) == IF rx = <<>> THEN Fits(disturbed, game, phase, round, step, client, x)
             ELSE Follows(disturbed, x, rx[1])

LEMMA Taking ==
  ASSUME RInv, NEW e, Take(e), UNCHANGED <<table, ended>>, disturbed \subseteq disturbed'
  PROVE  /\ e \in Event /\ TableFine' /\ Receives' /\ Chain' /\ Linked(e)'
         /\ rx # <<>> /\ 1 \in 1..Len(rx) /\ e = rx[1] /\ Past(game, phase, round, ended, e)
         /\ \A j \in 1..Len(rx') : /\ j + 1 \in 1..Len(rx) /\ rx'[j] = rx[j + 1] /\ rx'[j] \in Event
                                   /\ Before(e, rx'[j])
         /\ \A j \in 1..Len(rx) : j # 1 => j - 1 \in 1..Len(rx') /\ rx'[j - 1] = rx[j]
         /\ ~lagged /\ ~lagged'
         /\ Hearing => Follows(disturbed, LastHeard, e)
<1>0. TableFine /\ Receives /\ Chain /\ Link
  BY DEF RInv
<1>1. /\ rx # <<>> /\ ~lagged /\ e = Head(rx) /\ rx' = Tail(rx) /\ lagged' = lagged
      /\ UNCHANGED <<game, tagged, phase, round, step, client, leaves, ended>>
      /\ rx \in Seq(Event) /\ Len(rx) <= BusCap /\ lagged \in BOOLEAN /\ BusCap \in Nat
  BY <1>0, RecorderAssumption DEF Take, table, Receives, RecorderAssumption
<1>2. PICK n \in Nat : n = Len(rx)
  BY <1>1
<1>3. /\ n >= 1 /\ e = rx[1] /\ e \in Event /\ rx' \in Seq(Event) /\ Len(rx') = n - 1
      /\ \A j \in 1..(n - 1) : rx'[j] = rx[j + 1]
  BY <1>1, <1>2
<1>4. /\ \A j \in 1..(n - 1) : j \in 1..n /\ j + 1 \in 1..n /\ 1 < j + 1
      /\ 1 \in 1..n
      /\ \A j \in 1..n : j # 1 => j - 1 \in 1..(n - 1) /\ (j - 1) + 1 = j
      /\ \A i, j \in 1..(n - 1) : i < j => i + 1 < j + 1
  BY <1>3
<1>5. Receives'
  BY <1>1, <1>2, <1>3 DEF Receives
<1>6. TableFine'
  BY <1>0, <1>1 DEF TableFine
<1>7. /\ \A i \in 1..n : Past(game, phase, round, ended, rx[i])
      /\ \A i, j \in 1..n : i < j => Before(rx[i], rx[j])
      /\ \A i \in 1..(n - 1) : Follows(disturbed, rx[i], rx[i + 1])
      /\ Fits(disturbed, game, phase, round, step, client, rx[n])
  BY <1>0, <1>1, <1>2 DEF Chain
<1>8. \A i \in 1..(n - 1) : Follows(disturbed', rx[i], rx[i + 1])
  BY <1>7, FollowsMore
<1>9. Fits(disturbed', game', phase', round', step', client', rx[n])
  BY <1>1, <1>7, FitsMore
<1>10. rx' # <<>> => n - 1 >= 1 /\ rx'[Len(rx')] = rx[n] /\ rx'[1] = rx[2] /\ 1 \in 1..(n - 1)
  <2>1. SUFFICES ASSUME rx' # <<>> PROVE n - 1 >= 1 /\ rx'[Len(rx')] = rx[n] /\ rx'[1] = rx[2] /\ 1 \in 1..(n - 1)
    OBVIOUS
  <2>2. n - 1 >= 1
    BY <1>3, <2>1
  <2>3. n - 1 \in 1..(n - 1) /\ (n - 1) + 1 = n /\ 1 \in 1..(n - 1) /\ 1 + 1 = 2
    BY <2>2
  <2>. QED
    BY <1>3, <2>2, <2>3
<1>11. Chain'
  <2>1. \A i \in 1..(n - 1) : Past(game', phase', round', ended', rx'[i])
    BY <1>1, <1>3, <1>4, <1>7
  <2>2. \A i, j \in 1..(n - 1) : i < j => Before(rx'[i], rx'[j])
    BY <1>3, <1>4, <1>7
  <2>3. \A i \in 1..((n - 1) - 1) : Follows(disturbed', rx'[i], rx'[i + 1])
    <3>1. \A i \in 1..((n - 1) - 1) : i \in 1..(n - 1) /\ i + 1 \in 1..(n - 1)
      BY <1>3
    <3>. QED
      BY <1>3, <1>8, <3>1
  <2>. QED
    BY <1>3, <1>9, <1>10, <2>1, <2>2, <2>3 DEF Chain
<1>12. Linked(e)'
  <2>1. rx' = <<>> => n = 1
    BY <1>3
  <2>2. rx' # <<>> => Follows(disturbed', rx[1], rx'[1])
    <3>1. rx' # <<>> => Follows(disturbed', rx[1], rx[1 + 1])
      BY <1>8, <1>10
    <3>. QED
      BY <1>10, <3>1
  <2>. QED
    BY <1>3, <1>9, <2>1, <2>2 DEF Linked
<1>13. \A j \in 1..(n - 1) : rx'[j] \in Event /\ Before(e, rx'[j])
  BY <1>1, <1>2, <1>3, <1>4, <1>7
<1>14. Hearing => Follows(disturbed, LastHeard, e)
  BY <1>0, <1>1, <1>3 DEF Link
<1>. QED
  BY <1>1, <1>2, <1>3, <1>4, <1>5, <1>6, <1>7, <1>11, <1>12, <1>13, <1>14

(* A second start_game of a game stands for its first.                       *)
LEMMA SameStart ==
  ASSUME NEW x, NEW e, x.kind = "start_game", e.kind = "start_game", x.game = e.game, Linked(e)'
  PROVE  Linked(x)'
<1>1. \A d, f : Follows(d, e, f) => Follows(d, x, f)
  BY DEF Follows, Ends
<1>2. \A d, g, ph, r, k, c : Fits(d, g, ph, r, k, c, e) => Fits(d, g, ph, r, k, c, x)
  BY DEF Fits, Ends
<1>. QED
  BY <1>1, <1>2 DEF Linked

(* ------ the rounds of a heard ----------------------------------------------- *)

LEMMA WholeOne == ASSUME NEW e, e.kind = "start_game", NEW s, s[1] = e PROVE Whole(s, 1)
<1>1. (1..1) = {1} /\ (2..1) = {} /\ (3..1) = {} /\ ~(1 > 1)
  OBVIOUS
<1>. QED
  BY <1>1 DEF Whole

LEMMA WholePrefix ==
  ASSUME NEW heard, NEW n \in Nat, Whole(heard, n), NEW t \in 1..n, NEW s, \A i \in 1..t : s[i] = heard[i]
  PROVE  Whole(s, t)
<1>1. /\ \A i \in 1..n : heard[i].game = heard[1].game /\ (i > 1 => heard[i].kind \in Carries)
      /\ heard[1].kind = "start_game"
      /\ \A i, j \in 2..n : i < j => /\ heard[i].round <= heard[j].round
                                     /\ heard[j].kind = "start_kyoku" => heard[i].round < heard[j].round
      /\ \A p \in 3..n : heard[p].kind = "start_kyoku" => heard[p - 1].kind = "end_kyoku"
      /\ \A p \in 2..n : \E i \in 2..p : /\ heard[i].kind = "start_kyoku"
                                         /\ \A q \in i..p : InRound(heard, i, q)
  BY DEF Whole
<1>2. /\ t \in Nat /\ t >= 1 /\ t <= n /\ 1 \in 1..t
      /\ \A i \in 1..t : i \in 1..n
      /\ \A i \in 2..t : i \in 2..n /\ i \in 1..t
      /\ \A p \in 3..t : p \in 3..n /\ p \in 1..t /\ p - 1 \in 1..t
      /\ \A p \in 2..t : \A i \in 2..p : i \in 1..t /\ \A q \in i..p : q \in 1..t
  OBVIOUS
<1>3. /\ \A i \in 1..t : s[i].game = s[1].game /\ (i > 1 => s[i].kind \in Carries)
      /\ s[1].kind = "start_game"
  BY <1>1, <1>2
<1>4. \A i, j \in 2..t : i < j => /\ s[i].round <= s[j].round
                                  /\ s[j].kind = "start_kyoku" => s[i].round < s[j].round
  BY <1>1, <1>2
<1>5. \A p \in 3..t : s[p].kind = "start_kyoku" => s[p - 1].kind = "end_kyoku"
  BY <1>1, <1>2
<1>6. ASSUME NEW p \in 2..t
      PROVE  \E i \in 2..p : s[i].kind = "start_kyoku" /\ \A q \in i..p : InRound(s, i, q)
  <2>1. PICK i \in 2..p : heard[i].kind = "start_kyoku" /\ \A q \in i..p : InRound(heard, i, q)
    BY <1>1, <1>2
  <2>2. s[i] = heard[i] /\ \A q \in i..p : s[q] = heard[q]
    BY <1>2
  <2>3. \A q \in i..p : InRound(s, i, q)
    BY <2>1, <2>2 DEF InRound
  <2>. QED
    BY <2>1, <2>2, <2>3
<1>. QED
  BY <1>3, <1>4, <1>5, <1>6 DEF Whole

(* s is heard with one more event: the start of a later round after an end, or *)
(* what the round of the last event goes on with.                            *)
LEMMA WholeGrows ==
  ASSUME NEW heard, NEW n \in Nat, n >= 1, Whole(heard, n), \A i \in 1..n : heard[i] \in Event,
         NEW s, \A i \in 1..n : s[i] = heard[i],
         s[n + 1] \in Event, s[n + 1].game = heard[1].game, s[n + 1].kind \in Carries,
         \/ /\ s[n + 1].kind = "start_kyoku" /\ s[n + 1].step = 0
            /\ \A i \in 2..n : heard[i].round < s[n + 1].round
            /\ n = 1 \/ heard[n].kind = "end_kyoku"
         \/ /\ s[n + 1].kind # "start_kyoku" /\ n >= 2
            /\ \A i \in 2..n : /\ heard[i].kind = "start_kyoku"
                               /\ \A q \in i..n : InRound(heard, i, q)
                               => InRound(s, i, n + 1)
  PROVE  Whole(s, n + 1)
<1>1. /\ \A i \in 1..n : heard[i].game = heard[1].game /\ (i > 1 => heard[i].kind \in Carries)
      /\ heard[1].kind = "start_game"
      /\ \A i, j \in 2..n : i < j => /\ heard[i].round <= heard[j].round
                                     /\ heard[j].kind = "start_kyoku" => heard[i].round < heard[j].round
      /\ \A p \in 3..n : heard[p].kind = "start_kyoku" => heard[p - 1].kind = "end_kyoku"
      /\ \A p \in 2..n : \E i \in 2..p : /\ heard[i].kind = "start_kyoku"
                                         /\ \A q \in i..p : InRound(heard, i, q)
  BY DEF Whole
<1>2. /\ \A i \in 1..(n + 1) : i \in 1..n \/ i = n + 1
      /\ \A i \in 2..(n + 1) : (i \in 2..n /\ i \in 1..n) \/ i = n + 1
      /\ \A i \in 2..n : i \in 1..n /\ i <= n
      /\ 1 \in 1..n /\ n + 1 > 1
  OBVIOUS
<1>3. \A i \in 1..n : s[i] = heard[i] /\ s[i].round \in Nat
  BY EventSorts
<1>4. s[n + 1].round \in Nat
  BY EventSorts
<1>5. \A i \in 1..(n + 1) : s[i].game = s[1].game /\ (i > 1 => s[i].kind \in Carries)
  BY <1>1, <1>2
<1>6. ASSUME n >= 2, s[n + 1].kind # "start_kyoku"
      PROVE  \E i \in 2..n : /\ s[i].kind = "start_kyoku" /\ s[n + 1].round = s[n].round
                             /\ \A q \in i..(n + 1) : InRound(s, i, q)
  <2>1. n \in 2..n
    BY <1>6
  <2>2. PICK i \in 2..n : heard[i].kind = "start_kyoku" /\ \A q \in i..n : InRound(heard, i, q)
    BY <1>1, <2>1
  <2>3. InRound(s, i, n + 1)
    BY <1>6, <2>2
  <2>4. /\ i \in Nat /\ i <= n /\ i \in 1..n /\ n \in i..n /\ n \in 1..n
        /\ \A q \in i..n : q \in 1..n
        /\ \A q \in i..(n + 1) : q \in i..n \/ q = n + 1
    BY <1>6
  <2>5. \A q \in i..n : InRound(s, i, q)
    BY <1>3, <2>2, <2>4 DEF InRound
  <2>6. s[n + 1].round = s[i].round /\ s[n].round = s[i].round
    BY <2>3, <2>4, <2>5 DEF InRound
  <2>7. s[i].kind = "start_kyoku"
    BY <1>3, <2>2, <2>4
  <2>8. \A q \in i..(n + 1) : InRound(s, i, q)
    BY <2>3, <2>4, <2>5
  <2>. QED
    BY <2>6, <2>7, <2>8
<1>7. ASSUME NEW i \in 2..(n + 1), NEW j \in 2..(n + 1), i < j
      PROVE  s[i].round <= s[j].round /\ (s[j].kind = "start_kyoku" => s[i].round < s[j].round)
  <2>1. i \in 2..n /\ i \in 1..n /\ i <= n /\ n >= 2
    BY <1>7
  <2>2. CASE j \in 2..n
    BY <1>1, <1>2, <1>7, <2>1, <2>2
  <2>3. CASE j = n + 1
    <3>1. CASE s[n + 1].kind = "start_kyoku"
      <4>1. heard[i].round < s[n + 1].round
        BY <2>1, <3>1
      <4>. QED
        BY <1>3, <1>4, <2>1, <2>3, <4>1
    <3>2. CASE s[n + 1].kind # "start_kyoku"
      <4>1. s[n + 1].round = s[n].round
        BY <1>6, <2>1, <3>2
      <4>2. s[i].round <= s[n].round
        <5>1. CASE i = n
          BY <1>3, <2>1, <5>1
        <5>2. CASE i # n
          <6>1. i < n /\ n \in 2..n /\ n \in 1..n
            BY <2>1, <5>2
          <6>. QED
            BY <1>1, <1>3, <2>1, <6>1
        <5>. QED
          BY <5>1, <5>2
      <4>. QED
        BY <2>3, <3>2, <4>1, <4>2
    <3>. QED
      BY <3>1, <3>2
  <2>. QED
    BY <1>2, <2>2, <2>3
<1>8. ASSUME NEW p \in 3..(n + 1), s[p].kind = "start_kyoku"
      PROVE  s[p - 1].kind = "end_kyoku"
  <2>1. p \in Nat /\ p - 1 \in 1..n
    OBVIOUS
  <2>2. CASE p <= n
    <3>1. p \in 3..n /\ p \in 1..n
      BY <2>2
    <3>. QED
      BY <1>1, <1>3, <1>8, <2>1, <3>1
  <2>3. CASE ~(p <= n)
    <3>1. p = n + 1 /\ n # 1 /\ p - 1 = n /\ n \in 1..n
      BY <2>3
    <3>. QED
      BY <1>3, <1>8, <3>1
  <2>. QED
    BY <2>2, <2>3
<1>9. ASSUME NEW p \in 2..(n + 1)
      PROVE  \E i \in 2..p : s[i].kind = "start_kyoku" /\ \A q \in i..p : InRound(s, i, q)
  <2>1. CASE p \in 2..n
    <3>1. PICK i \in 2..p : heard[i].kind = "start_kyoku" /\ \A q \in i..p : InRound(heard, i, q)
      BY <1>1, <2>1
    <3>2. i \in 1..n /\ \A q \in i..p : q \in 1..n
      BY <2>1
    <3>3. s[i].kind = "start_kyoku" /\ \A q \in i..p : InRound(s, i, q)
      BY <1>3, <3>1, <3>2 DEF InRound
    <3>. QED
      BY <3>3
  <2>2. CASE p = n + 1 /\ s[n + 1].kind # "start_kyoku"
    <3>1. n >= 2
      BY <2>2
    <3>2. PICK i \in 2..n : /\ s[i].kind = "start_kyoku"
                            /\ \A q \in i..(n + 1) : InRound(s, i, q)
      BY <1>6, <2>2, <3>1
    <3>3. i \in 2..p
      BY <2>2
    <3>. QED
      BY <2>2, <3>2, <3>3
  <2>3. CASE p = n + 1 /\ s[n + 1].kind = "start_kyoku"
    <3>1. s[p].kind = "start_kyoku" /\ s[p].step = 0
      BY <2>3
    <3>2. p \in 2..p /\ \A q \in p..p : q = p
      OBVIOUS
    <3>3. InRound(s, p, p)
      BY <3>1 DEF InRound
    <3>. QED
      BY <3>1, <3>2, <3>3
  <2>. QED
    BY <1>2, <2>1, <2>2, <2>3
<1>10. s[1].kind = "start_game"
  BY <1>1, <1>2
<1>. QED
  BY <1>5, <1>7, <1>8, <1>9, <1>10 DEF Whole

(* ------ the recorder ------------------------------------------------------ *)

(* The records are older than what the recorder hears.                       *)
LEMMA RecordsStay ==
  ASSUME RInv, NEW e, Take(e), UNCHANGED <<table, ended, records>>, disturbed \subseteq disturbed',
         Hearing' => buf'[1].game = e.game \/ (Hearing /\ buf'[1] = buf[1])
  PROVE  RecordsFine'
<1>0. RecordsFine
  BY DEF RInv
<1>1. /\ 1 \in 1..Len(rx) /\ e = rx[1]
      /\ \A j \in 1..Len(rx') : j + 1 \in 1..Len(rx) /\ rx'[j] = rx[j + 1]
  BY Taking
<1>2. game' = game /\ phase' = phase
  BY DEF table
<1>3. ASSUME NEW n \in 1..Len(records)
      PROVE  /\ \A j \in 1..Len(rx') : records[n][1].game < rx'[j].game
             /\ Hearing' => records[n][1].game < buf'[1].game
  BY <1>0, <1>1 DEF RecordsFine
<1>. QED
  BY <1>0, <1>2, <1>3 DEF RecordsFine, GoodRecord

(* No game is lost from sight but by an end or a disturbance.                *)
LEMMA QuietStays ==
  ASSUME RInv, NEW e, Take(e), UNCHANGED <<table, ended, records, unsaved>>, disturbed \subseteq disturbed',
         e.kind # "confirmed",
         e.kind = "start_game" => Hearing' /\ buf'[1].game = e.game,
         Hearing => \/ buf[1].game \in disturbed'
                    \/ e.kind = "terminated" /\ e.game = buf[1].game
                    \/ Hearing' /\ buf'[1].game = buf[1].game
  PROVE  QuietFine'
<1>0. QuietFine /\ TableFine
  BY DEF RInv
<1>1. /\ e \in Event /\ 1 \in 1..Len(rx) /\ e = rx[1] /\ Past(game, phase, round, ended, e)
      /\ \A j \in 1..Len(rx') : rx'[j] \in Event /\ Before(e, rx'[j])
      /\ \A j \in 1..Len(rx) : j # 1 => j - 1 \in 1..Len(rx') /\ rx'[j - 1] = rx[j]
  BY Taking
<1>2. game' = game /\ phase' = phase /\ ended' = ended /\ unsaved' = unsaved /\ records' = records
  BY DEF table
<1>3. ASSUME NEW g, InFlight(g), g \notin disturbed'
      PROVE  InFlight(g)' \/ (e.kind = "terminated" /\ e.game = g)
  <2>1. CASE \E j \in 1..Len(rx) : rx[j].kind = "start_game" /\ rx[j].game = g
    <3>1. PICK j \in 1..Len(rx) : rx[j].kind = "start_game" /\ rx[j].game = g
      BY <2>1
    <3>2. CASE j = 1
      <4>1. Hearing' /\ buf'[1].game = g
        BY <1>1, <3>1, <3>2
      <4>. QED
        BY <4>1 DEF InFlight
    <3>3. CASE j # 1
      <4>1. j - 1 \in 1..Len(rx') /\ rx'[j - 1].kind = "start_game" /\ rx'[j - 1].game = g
        BY <1>1, <3>1, <3>3
      <4>. QED
        BY <4>1 DEF InFlight
    <3>. QED
      BY <3>2, <3>3
  <2>2. CASE Hearing /\ buf[1].game = g
    <3>1. (e.kind = "terminated" /\ e.game = g) \/ (Hearing' /\ buf'[1].game = g)
      BY <1>3, <2>2
    <3>. QED
      BY <3>1 DEF InFlight
  <2>. QED
    BY <1>3, <2>1, <2>2 DEF InFlight
<1>4. ASSUME phase # "over", game \notin disturbed' PROVE InFlight(game)'
  <2>1. InFlight(game)
    BY <1>0, <1>4 DEF QuietFine
  <2>2. ~(e.kind = "terminated" /\ e.game = game)
    <3>1. game \in Nat
      BY <1>0, TableSorts
    <3>. QED
      BY <1>1, <1>4, <3>1 DEF Past, Ends
  <2>. QED
    BY <1>2, <1>3, <1>4, <2>1, <2>2
<1>5. ASSUME NEW g \in ended \ (disturbed' \cup unsaved)
      PROVE  Recorded(g)' \/ (InFlight(g)' /\ EndToCome(g)')
  <2>1. Recorded(g) \/ (InFlight(g) /\ EndToCome(g))
    BY <1>0, <1>5 DEF QuietFine
  <2>2. CASE Recorded(g)
    BY <1>2, <2>2 DEF Recorded
  <2>3. CASE InFlight(g) /\ EndToCome(g)
    <3>1. PICK k \in 1..Len(rx) : rx[k].kind = "confirmed" /\ rx[k].game = g
      BY <2>3 DEF EndToCome
    <3>2. k # 1
      BY <1>1, <3>1
    <3>3. k - 1 \in 1..Len(rx') /\ rx'[k - 1].kind = "confirmed" /\ rx'[k - 1].game = g
      BY <1>1, <3>1, <3>2
    <3>4. ~(e.kind = "terminated" /\ e.game = g)
      <4>1. Before(e, rx'[k - 1]) /\ e.game \in Nat
        BY <1>1, <3>3, EventSorts
      <4>. QED
        BY <3>3, <4>1 DEF Before, Ends
    <3>. QED
      BY <1>3, <1>5, <2>3, <3>3, <3>4 DEF EndToCome
  <2>. QED
    BY <2>1, <2>2, <2>3
<1>. QED
  BY <1>2, <1>4, <1>5 DEF QuietFine

(* The recorder hears no game any more.                                      *)
LEMMA Cleared ==
  ASSUME RInv, NEW e, Take(e), UNCHANGED <<table, ended, records, unsaved>>, disturbed \subseteq disturbed',
         e.kind \notin {"confirmed", "start_game"},
         Hearing => buf[1].game \in disturbed' \/ e.kind = "terminated",
         buffering' \in BOOLEAN, overflown' \in BOOLEAN, ~Hearing', buf' = <<>>, awaiting' = FALSE
  PROVE  RInv'
<1>0. BufFine
  BY DEF RInv
<1>1. TableFine' /\ Receives' /\ Chain' /\ (Hearing => Follows(disturbed, LastHeard, e))
  BY Taking
<1>2. Link'
  BY DEF Link
<1>3. BufFine'
  <2>1. buf' \in Seq(Event)
    OBVIOUS
  <2>. QED
    BY <2>1 DEF BufFine
<1>4. RecordsFine'
  BY RecordsStay
<1>5. Hearing => e.game = buf[1].game
  BY <1>0, <1>1, LastIsOfGame DEF Follows
<1>6. QuietFine'
  BY <1>5, QuietStays
<1>. QED
  BY <1>1, <1>2, <1>3, <1>4, <1>6 DEF RInv

(* The buffer becomes its first t events and the one taken.                  *)
LEMMA Grown ==
  ASSUME RInv, NEW e, Take(e), UNCHANGED <<table, ended, records, unsaved>>, disturbed' = disturbed,
         e.kind \notin {"confirmed", "start_game"}, Hearing, Hearing', UNCHANGED <<buffering, overflown, gameId>>,
         awaiting' = FALSE, NEW t \in 1..Len(buf), buf' \in Seq(Event), Len(buf') = t + 1,
         \A i \in 1..t : buf'[i] = buf[i], buf'[t + 1] = e, Whole(buf', t + 1),
         buf[1].game \in disturbed \/ buf'[2].round = 1
  PROVE  RInv'
<1>0. BufFine /\ Receives
  BY DEF RInv
<1>1. /\ TableFine' /\ Receives' /\ Chain' /\ Linked(e)' /\ Past(game, phase, round, ended, e) /\ ~lagged'
      /\ \A j \in 1..Len(rx') : /\ j + 1 \in 1..Len(rx) /\ rx'[j] = rx[j + 1] /\ Before(e, rx'[j])
  BY Taking
<1>2. /\ t \in Nat /\ t >= 1 /\ 1 \in 1..t /\ \A i \in 1..(t + 1) : i \in 1..t \/ i = t + 1
      /\ \A i \in 1..t : i \in 1..Len(buf)
  <2>1. Len(buf) \in Nat
    BY <1>0 DEF BufFine
  <2>. QED
    BY <2>1
<1>3. LastHeard' = e
  BY DEF LastHeard
<1>4. Link'
  BY <1>1, <1>3 DEF Link, Linked
<1>5. BufFine'
  <2>1. /\ \A i \in 1..Len(buf) : Past(game, phase, round, ended, buf[i])
        /\ \A i \in 1..Len(buf), j \in 1..Len(rx) : Before(buf[i], rx[j])
        /\ gameId \in {NoId, buf[1].game}
    BY <1>0 DEF BufFine
  <2>2. \A i \in 1..(t + 1) : Past(game', phase', round', ended', buf'[i])
    BY <1>1, <1>2, <2>1 DEF table
  <2>3. \A i \in 1..(t + 1), j \in 1..Len(rx') : Before(buf'[i], rx'[j])
    BY <1>1, <1>2, <2>1
  <2>4. buf' # <<>> /\ buf'[1] = buf[1]
    BY <1>2
  <2>5. buffering' \in BOOLEAN /\ overflown' \in BOOLEAN
    BY <1>0 DEF BufFine
  <2>. QED
    BY <1>1, <2>1, <2>2, <2>3, <2>4, <2>5 DEF BufFine
<1>6. buf'[1] = buf[1]
  BY <1>2
<1>7. RecordsFine'
  BY <1>6, RecordsStay
<1>8. QuietFine'
  BY <1>6, QuietStays
<1>. QED
  BY <1>1, <1>4, <1>5, <1>7, <1>8 DEF RInv

LEMMA AgainKeeps == ASSUME RInv, NEW e, StartGameAgain(e) PROVE RInv'
<1>0. BufFine /\ Receives
  BY DEF RInv
<1>1. /\ Take(e) /\ e.kind = "start_game" /\ Reconnecting(e) /\ awaiting' = TRUE
      /\ UNCHANGED <<table, ended, records, unsaved>> /\ UNCHANGED <<buffering, buf, overflown, gameId>>
      /\ disturbed' = disturbed /\ disturbed \subseteq disturbed'
  BY DEF StartGameAgain, hist
<1>2. Hearing /\ Hearing' /\ e.id # NoId /\ e.id = gameId
  BY <1>1 DEF Reconnecting, Hearing
<1>3. /\ e \in Event /\ TableFine' /\ Receives' /\ Chain' /\ Linked(e)' /\ ~lagged'
      /\ Past(game, phase, round, ended, e) /\ Follows(disturbed, LastHeard, e)
      /\ \A j \in 1..Len(rx') : /\ j + 1 \in 1..Len(rx) /\ rx'[j] = rx[j + 1] /\ Before(e, rx'[j])
  BY <1>1, <1>2, Taking
<1>4. e.game = buf[1].game
  BY <1>0, <1>1, <1>2, <1>3 DEF BufFine, Past
<1>5. buf[1].game \in disturbed
  BY <1>0, <1>1, <1>2, <1>3, LastIsOfGame DEF Follows
<1>6. buf[1].kind = "start_game"
  BY <1>0, <1>2 DEF BufFine, Whole
<1>7. Link'
  <2>1. LastHeard' = buf[1]
    BY <1>1 DEF LastHeard
  <2>2. Linked(buf[1])'
    <3>1. PICK x : x = buf[1]
      OBVIOUS
    <3>2. Linked(x)'
      BY <1>1, <1>3, <1>4, <1>6, <3>1, SameStart
    <3>. QED
      BY <1>1, <3>1, <3>2 DEF Linked
  <2>. QED
    BY <1>1, <2>1, <2>2 DEF Link, Linked
<1>8. BufFine'
  <2>1. /\ \A i \in 1..Len(buf) : Past(game, phase, round, ended, buf[i])
        /\ \A i \in 1..Len(buf), j \in 1..Len(rx) : Before(buf[i], rx[j])
        /\ gameId \in {NoId, buf[1].game}
    BY <1>0, <1>2 DEF BufFine
  <2>2. \A i \in 1..Len(buf) : Past(game', phase', round', ended', buf[i])
    BY <1>1, <2>1 DEF table
  <2>3. \A i \in 1..Len(buf), j \in 1..Len(rx') : Before(buf[i], rx'[j])
    BY <1>3, <2>1
  <2>. QED
    BY <1>0, <1>1, <1>2, <1>3, <1>5, <2>1, <2>2, <2>3 DEF BufFine
<1>9. RecordsFine'
  BY <1>1, <1>2, RecordsStay
<1>10. QuietFine'
  BY <1>1, <1>2, <1>4, QuietStays
<1>. QED
  BY <1>3, <1>7, <1>8, <1>9, <1>10 DEF RInv

LEMMA FreshKeeps == ASSUME RInv, NEW e, StartGameFresh(e) PROVE RInv'
<1>0. BufFine /\ Receives
  BY DEF RInv
<1>1. /\ Take(e) /\ e.kind = "start_game" /\ awaiting' = FALSE
      /\ UNCHANGED <<table, ended, records, unsaved>> /\ gameId' = e.id
      /\ buffering' = TRUE /\ buf' = <<e>> /\ overflown' = FALSE
      /\ disturbed' = disturbed /\ disturbed \subseteq disturbed'
  BY DEF StartGameFresh, hist
<1>2. Hearing'
  BY <1>1 DEF Hearing
<1>3. /\ e \in Event /\ TableFine' /\ Receives' /\ Chain' /\ Linked(e)' /\ ~lagged'
      /\ Past(game, phase, round, ended, e) /\ (Hearing => Follows(disturbed, LastHeard, e))
      /\ \A j \in 1..Len(rx') : Before(e, rx'[j])
  BY <1>1, Taking
<1>4. PICK s \in Seq(Event) : s = <<e>>
  <2>1. \A S : \A x \in S : <<x>> \in Seq(S)
    OBVIOUS
  <2>. QED
    BY <1>3, <2>1
<1>5. buf' \in Seq(Event) /\ Len(buf') = 1 /\ buf'[1] = e /\ buf' # <<>>
  BY <1>1, <1>4
<1>6. Link'
  <2>1. LastHeard' = e
    BY <1>1, <1>5 DEF LastHeard
  <2>. QED
    BY <1>3, <2>1 DEF Link, Linked
<1>7. BufFine'
  <2>1. \A i \in 1..1 : i = 1
    OBVIOUS
  <2>2. Whole(buf', 1)
    BY <1>1, <1>5, WholeOne
  <2>3. \A i \in 1..1 : Past(game', phase', round', ended', buf'[i])
    BY <1>1, <1>3, <1>5, <2>1 DEF table
  <2>4. gameId' \in {NoId, buf'[1].game}
    BY <1>1, <1>3, <1>5 DEF Past
  <2>5. \A i \in 1..1, j \in 1..Len(rx') : Before(buf'[i], rx'[j])
    BY <1>3, <1>5, <2>1
  <2>6. /\ Whole(buf', Len(buf')) /\ ~(Len(buf') > 1)
        /\ \A i \in 1..Len(buf') : Past(game', phase', round', ended', buf'[i])
        /\ \A i \in 1..Len(buf'), j \in 1..Len(rx') : Before(buf'[i], rx'[j])
    BY <1>5, <2>2, <2>3, <2>5
  <2>7. buffering' \in BOOLEAN /\ overflown' \in BOOLEAN /\ awaiting' \in BOOLEAN
    BY <1>1
  <2>. QED
    BY <1>1, <1>2, <1>3, <1>5, <2>4, <2>6, <2>7 DEF BufFine
<1>8. RecordsFine'
  BY <1>1, <1>5, RecordsStay
<1>9. QuietFine'
  <2>1. Hearing => buf[1].game \in disturbed
    BY <1>0, <1>1, <1>3, LastIsOfGame DEF Follows
  <2>. QED
    BY <1>1, <1>2, <1>5, <2>1, QuietStays
<1>. QED
  BY <1>3, <1>6, <1>7, <1>8, <1>9 DEF RInv

LEMMA TerminatedKeeps == ASSUME RInv, NEW e, GameTerminated(e) PROVE RInv'
<1>1. /\ Take(e) /\ e.kind = "terminated" /\ awaiting' = FALSE
      /\ UNCHANGED <<table, ended, records, unsaved>>
      /\ buffering' = FALSE /\ buf' = <<>> /\ overflown' = FALSE
      /\ disturbed' = disturbed /\ disturbed \subseteq disturbed'
  BY DEF GameTerminated, hist, Reset
<1>2. ~Hearing'
  BY <1>1 DEF Hearing
<1>. QED
  BY <1>1, <1>2, Cleared

LEMMA OtherKeeps == ASSUME RInv, NEW e, Other(e) PROVE RInv'
<1>0. BufFine /\ Receives
  BY DEF RInv
<1>1. /\ Take(e) /\ e.kind \in Carries /\ (e.kind = "start_kyoku" => ~awaiting)
      /\ UNCHANGED <<table, ended, records, unsaved>> /\ UNCHANGED <<buffering, gameId, awaiting>>
      /\ PushTo(buf, e)
  BY DEF Other, Carries
<1>2. disturbed \subseteq disturbed' /\ e.kind \notin {"confirmed", "start_game"}
  BY <1>1 DEF PushTo, Carries
<1>3. CASE ~Hearing
  <2>1. UNCHANGED <<overflown, disturbed>> /\ buf' = buf /\ buf = <<>> /\ awaiting = FALSE
    BY <1>0, <1>1, <1>3 DEF PushTo, Hearing, BufFine
  <2>2. ~Hearing' /\ buffering' \in BOOLEAN /\ overflown' \in BOOLEAN
    BY <1>0, <1>1, <1>3, <2>1 DEF Hearing, BufFine
  <2>. QED
    BY <1>1, <1>2, <1>3, <2>1, <2>2, Cleared
<1>4. CASE Hearing
  <2>1. /\ e \in Event /\ Follows(disturbed, LastHeard, e) /\ Past(game, phase, round, ended, e)
    BY <1>1, <1>2, <1>4, Taking
  <2>2. /\ buf \in Seq(Event) /\ buf # <<>> /\ Whole(buf, Len(buf)) /\ Len(buf) \in Nat /\ Len(buf) >= 1
        /\ buf[1].kind = "start_game"
        /\ \A i \in 1..Len(buf) : /\ Past(game, phase, round, ended, buf[i]) /\ (i > 1 => buf[i].kind \in Carries)
                                  /\ buf[i] \in Event
        /\ buf[1].game \in disturbed \/ (Len(buf) > 1 => buf[2].round = 1)
    BY <1>0, <1>4 DEF BufFine, Whole
  <2>3. e.game = buf[1].game
    BY <1>0, <1>2, <1>4, <2>1, LastIsOfGame DEF Follows
  <2>4. ~awaiting /\ LastHeard = buf[Len(buf)]
    <3>1. ASSUME awaiting PROVE FALSE
      <4>1. LastHeard = buf[1] /\ e.kind \in {"play", "end_kyoku"}
        BY <1>1, <3>1 DEF LastHeard, Carries
      <4>. QED
        BY <2>1, <2>2, <4>1 DEF Follows
    <3>. QED
      BY <3>1 DEF LastHeard
  <2>5. PICK n \in Nat : n = Len(buf)
    BY <2>2
  <2>6. CASE n >= BufCap
    <3>1. buf' = <<>> /\ overflown' = TRUE /\ disturbed' = disturbed \cup {e.game}
      BY <1>1, <1>4, <2>5, <2>6 DEF PushTo, Hearing
    <3>2. ~Hearing' /\ buffering' \in BOOLEAN /\ overflown' \in BOOLEAN /\ awaiting' = FALSE
          /\ buf[1].game \in disturbed'
      BY <1>0, <1>1, <2>3, <2>4, <3>1 DEF Hearing, BufFine
    <3>. QED
      BY <1>1, <1>2, <3>1, <3>2, Cleared
  <2>7. CASE ~(n >= BufCap)
    <3>1. buf' = Append(buf, e) /\ UNCHANGED <<overflown, disturbed>>
      BY <1>1, <1>4, <2>5, <2>7 DEF PushTo, Hearing
    <3>2. \A S : \A u \in Seq(S), x \in S :
             /\ Append(u, x) \in Seq(S) /\ Len(Append(u, x)) = Len(u) + 1
             /\ \A i \in 1..Len(u) : Append(u, x)[i] = u[i]
             /\ Append(u, x)[Len(u) + 1] = x
      OBVIOUS
    <3>3. /\ buf' \in Seq(Event) /\ Len(buf') = n + 1 /\ buf'[n + 1] = e
          /\ \A i \in 1..n : buf'[i] = buf[i]
      BY <2>1, <2>2, <2>5, <3>1, <3>2
    <3>4. Hearing' /\ awaiting' = FALSE
      BY <1>0, <1>1, <1>4, <2>4, <3>1 DEF Hearing, BufFine
    <3>5. /\ n >= 1 /\ n \in 1..n /\ \A i \in 1..n : buf[i] \in Event /\ buf[i].round \in Nat
      BY <2>2, <2>5, EventSorts
    <3>6. e.round \in Nat /\ e.step \in Nat /\ e.step <= HandLen /\ HandLen \in Nat
      BY <2>1, EventSorts, RecorderAssumption DEF RecorderAssumption
    <3>7. Follows(disturbed, buf[n], e)
      BY <2>1, <2>4, <2>5
    <3>8. n = 1 \/ buf[n].kind \in Carries
      BY <2>2, <2>5, <3>5
    <3>9. Whole(buf', n + 1)
      <4>1. \/ /\ e.kind = "start_kyoku" /\ e.step = 0
               /\ \A i \in 2..n : buf[i].round < e.round
               /\ n = 1 \/ buf[n].kind = "end_kyoku"
            \/ /\ e.kind # "start_kyoku" /\ n >= 2
               /\ \A i \in 2..n : /\ buf[i].kind = "start_kyoku"
                                  /\ \A q \in i..n : InRound(buf, i, q)
                                  => InRound(buf', i, n + 1)
        <5>1. CASE e.kind = "start_kyoku"
          <6>1. e.step = 0
            BY <2>1, <5>1 DEF Past
          <6>2. n = 1 \/ (buf[n].kind = "end_kyoku" /\ buf[n].round < e.round)
            BY <3>7, <3>8, <5>1 DEF Follows, Carries
          <6>3. ASSUME NEW i \in 2..n PROVE buf[i].round < e.round
            <7>1. n # 1 /\ i \in 1..n /\ n \in 2..n
              BY <3>5
            <7>2. buf[i].round <= buf[n].round
              <8>1. CASE i = n
                BY <3>5, <7>1, <8>1
              <8>2. CASE i # n
                BY <2>2, <2>5, <7>1, <8>2 DEF Whole
              <8>. QED
                BY <8>1, <8>2
            <7>. QED
              BY <3>5, <3>6, <6>2, <7>1, <7>2
          <6>. QED
            BY <5>1, <6>1, <6>2, <6>3
        <5>2. CASE e.kind # "start_kyoku"
          <6>0. e.kind = "play" \/ e.kind = "end_kyoku"
            BY <1>1, <5>2 DEF Carries
          <6>1. /\ e.round = buf[n].round
                /\ buf[n].kind = "play" \/ buf[n].kind = "start_kyoku"
                /\ e.kind = "play" /\ buf[n].kind = "play" => e.step = buf[n].step + 1
                /\ e.kind = "play" /\ buf[n].kind = "start_kyoku" => e.step = 1
                /\ e.kind = "end_kyoku" => IF buf[n].kind = "play" THEN buf[n].step = HandLen ELSE HandLen = 0
            BY <3>7, <6>0 DEF Follows
          <6>2. n # 1 /\ n >= 2
            BY <2>2, <3>5, <6>1
          <6>3. e.kind = "end_kyoku" => e.step = 0
            BY <2>1 DEF Past
          <6>4. ASSUME NEW i \in 2..n, buf[i].kind = "start_kyoku", \A q \in i..n : InRound(buf, i, q)
                PROVE  InRound(buf', i, n + 1)
            <7>1. i \in Nat /\ i <= n /\ i \in 1..n /\ n \in i..n /\ n + 1 # i /\ (n + 1) - i = (n - i) + 1
                  /\ n - i \in Nat
              OBVIOUS
            <7>2. InRound(buf, i, n)
              BY <6>4, <7>1
            <7>3. buf'[i] = buf[i]
              BY <3>3, <7>1
            <7>4. /\ buf[n].round = buf[i].round
                  /\ n = i => buf[n].kind = "start_kyoku"
                  /\ n # i => n - i <= HandLen /\ buf[n].kind = "play" /\ buf[n].step = n - i
              BY <6>1, <7>2 DEF InRound
            <7>5. e.kind = "play" => (n + 1) - i <= HandLen /\ e.step = (n + 1) - i
              BY <3>6, <6>1, <7>1, <7>4
            <7>6. e.kind = "end_kyoku" => (n + 1) - i = HandLen + 1 /\ ~((n + 1) - i <= HandLen)
              BY <3>6, <6>1, <7>1, <7>4
            <7>7. e.round = buf[i].round
              BY <6>1, <7>4
            <7>. QED
              BY <3>3, <6>0, <6>3, <7>1, <7>3, <7>5, <7>6, <7>7 DEF InRound
          <6>. QED
            BY <5>2, <6>2, <6>4
        <5>. QED
          BY <5>1, <5>2
      <4>. QED
        BY <1>1, <2>1, <2>2, <2>3, <2>5, <3>3, <3>5, <4>1, WholeGrows
    <3>10. buf[1].game \in disturbed \/ buf'[2].round = 1
      <4>1. CASE n = 1
        <5>1. buf'[2] = e /\ buf[n].kind = "start_game"
          BY <2>2, <3>3, <4>1
        <5>2. buf[1].game \in disturbed \/ e.round = 1
          BY <1>1, <3>7, <4>1, <5>1 DEF Follows, Carries
        <5>. QED
          BY <5>1, <5>2
      <4>2. CASE n # 1
        <5>1. n > 1 /\ 2 \in 1..n
          BY <3>5, <4>2
        <5>. QED
          BY <2>2, <2>5, <3>3, <5>1
      <4>. QED
        BY <4>1, <4>2
    <3>11. disturbed' = disturbed /\ UNCHANGED <<buffering, overflown, gameId>>
      BY <1>1, <3>1
    <3>. QED
      BY <1>1, <1>2, <1>4, <2>5, <3>3, <3>4, <3>5, <3>9, <3>10, <3>11, Grown
  <2>. QED
    BY <2>6, <2>7
<1>. QED
  BY <1>3, <1>4

(* rposition finds the last of a kind.                                       *)
LEMMA LastOfGives ==
  ASSUME buf \in Seq(Event), NEW kind
  PROVE  /\ LastOf(kind) = 0 => \A i \in 1..Len(buf) : buf[i].kind # kind
         /\ LastOf(kind) # 0 => /\ LastOf(kind) \in 1..Len(buf) /\ buf[LastOf(kind)].kind = kind
                                /\ \A i \in 1..Len(buf) : buf[i].kind = kind => i <= LastOf(kind)
<1>1. PICK I : I = {i \in 1..Len(buf) : buf[i].kind = kind}
  OBVIOUS
<1>2. LastOf(kind) = IF I # {} THEN CHOOSE x \in I : \A y \in I : x >= y ELSE 0
  BY <1>1 DEF LastOf, SelectLastInSeq, Max
<1>3. CASE I = {}
  BY <1>1, <1>2, <1>3
<1>4. CASE I # {}
  <2>1. PICK n \in Nat : n = Len(buf)
    OBVIOUS
  <2>2. PICK M : M = {k \in Nat : n - k \in I}
    OBVIOUS
  <2>3. \A i \in I : i \in 1..n /\ n - i \in M /\ i \in Nat
    <3>1. \A i \in I : i \in 1..n
      BY <1>1, <2>1
    <3>2. \A i \in 1..n : n - i \in Nat /\ n - (n - i) = i /\ i \in Nat
      OBVIOUS
    <3>. QED
      BY <2>2, <3>1, <3>2
  <2>4. M # {} /\ M \subseteq Nat
    BY <1>4, <2>2, <2>3
  <2>5. PICK k \in M : \A j \in M : k <= j
    BY <2>4, LeastOf
  <2>6. k \in Nat /\ n - k \in I
    BY <2>2
  <2>7. \A y \in I : n - k >= y
    <3>1. \A y \in Nat : k <= n - y => n - k >= y
      BY <2>6
    <3>. QED
      BY <2>3, <2>5, <3>1
  <2>8. LastOf(kind) \in I /\ \A y \in I : LastOf(kind) >= y
    <3>1. \E x \in I : \A y \in I : x >= y
      BY <2>6, <2>7
    <3>2. PICK m : m = CHOOSE x \in I : \A y \in I : x >= y
      OBVIOUS
    <3>3. m \in I /\ \A y \in I : m >= y
      BY <3>1, <3>2
    <3>. QED
      BY <1>2, <1>4, <3>2, <3>3
  <2>9. LastOf(kind) \in 1..n
    BY <2>3, <2>8
  <2>10. \A i \in 1..n : buf[i].kind = kind => i <= LastOf(kind)
    <3>1. \A i \in 1..n : buf[i].kind = kind => i \in I
      BY <1>1, <2>1
    <3>2. \A i \in 1..n, x \in 1..n : x >= i => i <= x
      OBVIOUS
    <3>. QED
      BY <2>8, <2>9, <3>1, <3>2
  <2>11. buf[LastOf(kind)].kind = kind /\ LastOf(kind) # 0
    BY <1>1, <2>8, <2>9
  <2>. QED
    BY <2>1, <2>9, <2>10, <2>11
<1>. QED
  BY <1>3, <1>4

(* Behind what is kept, the restored round is a new one.                     *)
LEMMA TruncatedGives ==
  ASSUME RInv, Hearing, NEW e \in Event, e.kind = "start_kyoku", e.game = buf[1].game,
         \A i \in 1..Len(buf) : Before(buf[i], e)
  PROVE  \E t \in 1..Len(buf) : /\ Truncated(e) = SubSeq(buf, 1, t)
                                /\ \A i \in 2..t : buf[i].round < e.round
                                /\ t = 1 \/ buf[t].kind = "end_kyoku"
<1>0. BufFine
  BY DEF RInv
<1>1. /\ buf \in Seq(Event) /\ buf # <<>> /\ Whole(buf, Len(buf)) /\ Len(buf) \in Nat /\ Len(buf) >= 1
  BY <1>0 DEF BufFine
<1>2. PICK n \in Nat : n = Len(buf)
  BY <1>1
<1>3. /\ \A i \in 1..n : buf[i] \in Event /\ buf[i].round \in Nat /\ buf[i].game = e.game
      /\ buf[1].kind = "start_game" /\ n >= 1
      /\ \A i, j \in 2..n : i < j => /\ buf[i].round <= buf[j].round
                                     /\ buf[j].kind = "start_kyoku" => buf[i].round < buf[j].round
      /\ \A p \in 3..n : buf[p].kind = "start_kyoku" => buf[p - 1].kind = "end_kyoku"
      /\ \A p \in 2..n : \E i \in 2..p : /\ buf[i].kind = "start_kyoku"
                                         /\ \A q \in i..p : InRound(buf, i, q)
  BY <1>1, <1>2, EventSorts DEF Whole
<1>4. e.round \in Nat
  BY EventSorts
<1>5. \A i \in 1..n : buf[i].round <= e.round
  BY <1>2, <1>3 DEF Before, Carries
<1>6. PICK start, end : start = LastOf("start_kyoku") /\ end = LastOf("end_kyoku")
  OBVIOUS
<1>7. /\ start = 0 => \A i \in 1..n : buf[i].kind # "start_kyoku"
      /\ start # 0 => /\ start \in 1..n /\ buf[start].kind = "start_kyoku"
                      /\ \A i \in 1..n : buf[i].kind = "start_kyoku" => i <= start
      /\ end # 0 => end \in 1..n /\ buf[end].kind = "end_kyoku"
  BY <1>1, <1>2, <1>6, LastOfGives
<1>8. ASSUME NEW t \in 1..n,
             t = IF start # 0 /\ buf[start].round = e.round THEN start - 1
                 ELSE IF end # 0 THEN end ELSE 1
      PROVE  Truncated(e) = SubSeq(buf, 1, t)
  <2>1. (IF t < n THEN t ELSE n) = t
    OBVIOUS
  <2>. QED
    BY <1>2, <1>6, <1>8, <2>1 DEF Truncated
<1>9. CASE start # 0 /\ buf[start].round = e.round
  <2>1. start \in 2..n /\ start \in Nat /\ start - 1 \in 1..n
    <3>1. start # 1
      BY <1>3, <1>7, <1>9
    <3>. QED
      BY <1>7, <1>9, <3>1
  <2>2. ASSUME NEW i \in 2..(start - 1) PROVE buf[i].round < e.round
    <3>1. i \in 2..n /\ i < start
      BY <2>1
    <3>. QED
      BY <1>3, <1>7, <1>9, <2>1, <3>1
  <2>3. start - 1 = 1 \/ buf[start - 1].kind = "end_kyoku"
    <3>1. start - 1 # 1 => start \in 3..n
      BY <2>1
    <3>. QED
      BY <1>3, <1>7, <1>9, <3>1
  <2>4. Truncated(e) = SubSeq(buf, 1, start - 1)
    BY <1>8, <1>9, <2>1
  <2>. QED
    BY <1>2, <2>1, <2>2, <2>3, <2>4
<1>10. CASE ~(start # 0 /\ buf[start].round = e.round) /\ end # 0
  <2>1. end \in 1..n /\ buf[end].kind = "end_kyoku" /\ end \in 2..n /\ end \in Nat
    <3>1. end # 1
      BY <1>3, <1>7, <1>10
    <3>. QED
      BY <1>7, <1>10, <3>1
  <2>2. buf[end].round # e.round
    <3>1. SUFFICES ASSUME buf[end].round = e.round PROVE FALSE
      OBVIOUS
    <3>2. PICK i \in 2..end : buf[i].kind = "start_kyoku" /\ \A q \in i..end : InRound(buf, i, q)
      BY <1>3, <2>1
    <3>3. i \in 2..n /\ i \in 1..n /\ end \in i..end /\ i \in Nat
      BY <2>1
    <3>4. buf[i].round = e.round
      BY <3>1, <3>2, <3>3 DEF InRound
    <3>5. start # 0 /\ i <= start /\ start \in 1..n /\ buf[start].kind = "start_kyoku"
      BY <1>7, <3>2, <3>3
    <3>6. CASE i = start
      BY <1>10, <3>4, <3>5, <3>6
    <3>7. CASE i # start
      <4>1. start \in 2..n /\ i < start
        BY <3>3, <3>5, <3>7
      <4>2. buf[i].round < buf[start].round /\ buf[start].round <= e.round /\ buf[start].round \in Nat
        BY <1>3, <1>5, <3>3, <3>5, <4>1
      <4>. QED
        BY <1>4, <3>4, <4>2
    <3>. QED
      BY <3>6, <3>7
  <2>3. ASSUME NEW i \in 2..end PROVE buf[i].round < e.round
    <3>1. i \in 2..n /\ i \in 1..n
      BY <2>1
    <3>2. buf[i].round <= buf[end].round
      <4>1. CASE i = end
        BY <1>3, <3>1, <4>1
      <4>2. CASE i # end
        <5>1. i < end
          BY <2>1, <4>2
        <5>. QED
          BY <1>3, <2>1, <3>1, <5>1
      <4>. QED
        BY <4>1, <4>2
    <3>3. buf[end].round <= e.round /\ buf[end].round \in Nat /\ buf[i].round \in Nat
      BY <1>3, <1>5, <2>1, <3>1
    <3>. QED
      BY <1>4, <2>2, <3>2, <3>3
  <2>4. Truncated(e) = SubSeq(buf, 1, end)
    BY <1>8, <1>10, <2>1
  <2>. QED
    BY <1>2, <2>1, <2>3, <2>4
<1>11. CASE ~(start # 0 /\ buf[start].round = e.round) /\ end = 0
  <2>1. 1 \in 1..n /\ (2..1) = {}
    BY <1>3
  <2>2. Truncated(e) = SubSeq(buf, 1, 1)
    BY <1>8, <1>11, <2>1
  <2>. QED
    BY <1>2, <2>1, <2>2
<1>. QED
  BY <1>9, <1>10, <1>11

LEMMA RestoredKeeps == ASSUME RInv, NEW e, RestoredRound(e) PROVE RInv'
<1>0. BufFine /\ Receives
  BY DEF RInv
<1>1. /\ Take(e) /\ e.kind = "start_kyoku" /\ awaiting /\ awaiting' = FALSE
      /\ UNCHANGED <<table, ended, records, unsaved>> /\ UNCHANGED <<buffering, gameId>>
  BY DEF RestoredRound
<1>2. Hearing /\ buffering /\ ~overflown
  BY <1>0, <1>1 DEF BufFine, Hearing
<1>3. PushTo(Truncated(e), e)
  BY <1>2 DEF RestoredRound
<1>4. disturbed \subseteq disturbed' /\ e.kind \notin {"confirmed", "start_game"}
  BY <1>1, <1>3 DEF PushTo
<1>5. /\ e \in Event /\ Follows(disturbed, LastHeard, e) /\ Past(game, phase, round, ended, e)
      /\ 1 \in 1..Len(rx) /\ e = rx[1]
  BY <1>1, <1>2, <1>4, Taking
<1>6. e.game = buf[1].game
  BY <1>0, <1>1, <1>2, <1>5, LastIsOfGame DEF Follows
<1>7. /\ buf \in Seq(Event) /\ buf # <<>> /\ Whole(buf, Len(buf)) /\ Len(buf) \in Nat /\ Len(buf) >= 1
      /\ \A i \in 1..Len(buf) : buf[i] \in Event /\ Before(buf[i], e)
      /\ buf[1].game \in disturbed
  BY <1>0, <1>1, <1>2, <1>5 DEF BufFine
<1>8. PICK t \in 1..Len(buf) : /\ Truncated(e) = SubSeq(buf, 1, t)
                               /\ \A i \in 2..t : buf[i].round < e.round
                               /\ t = 1 \/ buf[t].kind = "end_kyoku"
  BY <1>1, <1>2, <1>5, <1>6, <1>7, TruncatedGives
<1>9. t \in Nat /\ t >= 1 /\ \A i \in 1..t : i \in 1..Len(buf)
  BY <1>7
<1>10. PICK heard \in Seq(Event) : heard = Truncated(e) /\ Len(heard) = t /\ \A i \in 1..t : heard[i] = buf[i]
  <2>1. \A S : \A u \in Seq(S) : \A k \in 1..Len(u) :
          /\ SubSeq(u, 1, k) \in Seq(S) /\ Len(SubSeq(u, 1, k)) = k
          /\ \A i \in 1..k : SubSeq(u, 1, k)[i] = u[i]
    OBVIOUS
  <2>. QED
    BY <1>7, <1>8, <2>1
<1>11. CASE t >= BufCap
  <2>1. buf' = <<>> /\ overflown' = TRUE /\ disturbed' = disturbed \cup {e.game}
    BY <1>2, <1>3, <1>10, <1>11 DEF PushTo
  <2>2. ~Hearing' /\ buffering' \in BOOLEAN /\ overflown' \in BOOLEAN /\ buf[1].game \in disturbed'
    BY <1>0, <1>1, <1>7, <2>1 DEF Hearing, BufFine
  <2>. QED
    BY <1>1, <1>4, <2>1, <2>2, Cleared
<1>12. CASE ~(t >= BufCap)
  <2>1. buf' = Append(heard, e) /\ UNCHANGED <<overflown, disturbed>>
    BY <1>2, <1>3, <1>10, <1>12 DEF PushTo
  <2>2. \A S : \A u \in Seq(S), x \in S :
           /\ Append(u, x) \in Seq(S) /\ Len(Append(u, x)) = Len(u) + 1
           /\ \A i \in 1..Len(u) : Append(u, x)[i] = u[i]
           /\ Append(u, x)[Len(u) + 1] = x
    OBVIOUS
  <2>3. /\ buf' \in Seq(Event) /\ Len(buf') = t + 1 /\ buf'[t + 1] = e
        /\ \A i \in 1..t : buf'[i] = buf[i]
    BY <1>5, <1>10, <2>1, <2>2
  <2>4. Hearing'
    BY <1>1, <1>2, <2>1 DEF Hearing
  <2>5. e.step = 0
    BY <1>1, <1>5 DEF Past
  <2>6. Whole(heard, t)
    BY <1>7, <1>10, WholePrefix
  <2>7. Whole(buf', t + 1)
    <3>1. /\ \A i \in 1..t : heard[i] \in Event /\ buf'[i] = heard[i]
          /\ heard[1] = buf[1] /\ (t = 1 \/ heard[t].kind = "end_kyoku")
          /\ \A i \in 2..t : heard[i].round < e.round
      <4>1. 1 \in 1..t /\ t \in 1..t /\ \A i \in 2..t : i \in 1..t
        BY <1>9
      <4>. QED
        BY <1>7, <1>8, <1>9, <1>10, <2>3, <4>1
    <3>2. e.kind \in Carries
      BY <1>1 DEF Carries
    <3>3. PICK s : s = buf'
      OBVIOUS
    <3>4. /\ \A i \in 1..t : s[i] = heard[i]
          /\ s[t + 1] = e /\ s[t + 1] \in Event /\ s[t + 1].game = heard[1].game /\ s[t + 1].kind \in Carries
          /\ s[t + 1].kind = "start_kyoku" /\ s[t + 1].step = 0
          /\ \A i \in 2..t : heard[i].round < s[t + 1].round
      BY <1>1, <1>5, <1>6, <2>3, <2>5, <3>1, <3>2, <3>3
    <3>5. Whole(s, t + 1)
      BY <1>9, <2>6, <3>1, <3>4, WholeGrows
    <3>. QED
      BY <3>3, <3>5
  <2>8. disturbed' = disturbed /\ UNCHANGED <<buffering, overflown, gameId>>
    BY <1>1, <2>1
  <2>. QED
    BY <1>1, <1>2, <1>4, <1>7, <1>9, <2>3, <2>4, <2>7, <2>8, Grown
<1>. QED
  BY <1>11, <1>12

LEMMA LagKeeps == RInv /\ Lagged => RInv'
<1> SUFFICES ASSUME RInv, Lagged PROVE RInv'
  OBVIOUS
<1>0. TableFine /\ Receives /\ Chain /\ Link /\ BufFine /\ RecordsFine /\ QuietFine
  BY DEF RInv
<1>1. /\ lagged /\ lagged' = FALSE /\ rx' = rx
      /\ UNCHANGED <<game, tagged, phase, round, step, client, records, unsaved, disturbed, ended>>
      /\ buffering' = FALSE /\ buf' = <<>> /\ overflown' = FALSE /\ awaiting' = FALSE
  BY DEF Lagged, Reset, table, hist
<1>2. ~Hearing'
  BY <1>1 DEF Hearing
<1>3. TableFine' /\ Receives' /\ Chain'
  BY <1>0, <1>1 DEF TableFine, Receives, Chain
<1>4. Link'
  BY <1>2 DEF Link
<1>5. BufFine'
  <2>1. buf' \in Seq(Event)
    BY <1>1
  <2>. QED
    BY <1>1, <1>2, <2>1 DEF BufFine
<1>6. RecordsFine'
  BY <1>0, <1>1, <1>2 DEF RecordsFine
<1>7. \A g : g \notin disturbed /\ InFlight(g) => InFlight(g)'
  BY <1>0, <1>1 DEF InFlight, BufFine
<1>8. QuietFine'
  <2>1. phase' # "over" /\ game' \notin disturbed' => InFlight(game)'
    BY <1>0, <1>1, <1>7 DEF QuietFine
  <2>2. \A g : (Recorded(g) => Recorded(g)') /\ (EndToCome(g) => EndToCome(g)')
    BY <1>1 DEF Recorded, EndToCome
  <2>3. \A g \in ended' \ (disturbed' \cup unsaved') : Recorded(g)' \/ (InFlight(g)' /\ EndToCome(g)')
    BY <1>0, <1>1, <1>7, <2>2 DEF QuietFine
  <2>. QED
    BY <2>1, <2>3 DEF QuietFine
<1>. QED
  BY <1>3, <1>4, <1>5, <1>6, <1>8 DEF RInv

(* ------ the record of a game ---------------------------------------------- *)

PlainEvent == [kind : Kinds, round : 0..MaxRounds, step : 0..HandLen]

LEMMA WholeRoundGives ==
  ASSUME NEW r \in 0..MaxRounds
  PROVE  /\ WholeRound(r) \in Seq(PlainEvent) /\ Len(WholeRound(r)) = HandLen + 2
         /\ WholeRound(r)[1] = [kind |-> "start_kyoku", round |-> r, step |-> 0]
         /\ \A m \in 1..HandLen : WholeRound(r)[m + 1] = [kind |-> "play", round |-> r, step |-> m]
         /\ WholeRound(r)[HandLen + 2] = [kind |-> "end_kyoku", round |-> r, step |-> 0]
<1>1. HandLen \in Nat /\ MaxRounds \in Nat
  BY RecorderAssumption DEF RecorderAssumption
<1>a. /\ "start_kyoku" \in Kinds /\ "end_kyoku" \in Kinds
      /\ 0 \in 0..HandLen /\ r \in 0..MaxRounds
  BY <1>1 DEF Kinds
<1>b. /\ [kind |-> "start_kyoku", round |-> r, step |-> 0] \in PlainEvent
      /\ [kind |-> "end_kyoku", round |-> r, step |-> 0] \in PlainEvent
  BY <1>a DEF PlainEvent
<1>2. PICK first \in PlainEvent : first = [kind |-> "start_kyoku", round |-> r, step |-> 0]
  BY <1>b
<1>3. PICK last \in PlainEvent : last = [kind |-> "end_kyoku", round |-> r, step |-> 0]
  BY <1>b
<1>4. \A i \in 1..HandLen : [kind |-> "play", round |-> r, step |-> i] \in PlainEvent
  BY <1>1 DEF PlainEvent, Kinds
<1>5. PICK p \in Seq(PlainEvent) : p = [i \in 1..HandLen |-> [kind |-> "play", round |-> r, step |-> i]]
  <2>1. \A S : \A f \in [1..HandLen -> S] : f \in Seq(S)
    BY <1>1
  <2>. QED
    BY <1>4, <2>1
<1>6. Len(p) = HandLen /\ \A i \in 1..HandLen : p[i] = [kind |-> "play", round |-> r, step |-> i]
  BY <1>1, <1>5
<1>7. \A S : /\ \A x \in S : <<x>> \in Seq(S) /\ Len(<<x>>) = 1 /\ <<x>>[1] = x
             /\ \A u, v \in Seq(S) : /\ u \o v \in Seq(S) /\ Len(u \o v) = Len(u) + Len(v)
                                     /\ \A i \in 1..Len(u) : (u \o v)[i] = u[i]
                                     /\ \A i \in 1..Len(v) : (u \o v)[Len(u) + i] = v[i]
             /\ \A u \in Seq(S), x \in S : /\ Append(u, x) \in Seq(S) /\ Len(Append(u, x)) = Len(u) + 1
                                           /\ \A i \in 1..Len(u) : Append(u, x)[i] = u[i]
                                           /\ Append(u, x)[Len(u) + 1] = x
  OBVIOUS
<1>8. PICK h \in Seq(PlainEvent) : h = <<first>> /\ Len(h) = 1 /\ h[1] = first
  BY <1>7
<1>9. PICK s \in Seq(PlainEvent) : s = h \o p
  BY <1>7
<1>10. Len(s) = 1 + HandLen /\ s[1] = first /\ \A i \in 1..HandLen : s[1 + i] = p[i]
  <2>1. 1 \in 1..Len(h)
    BY <1>8
  <2>2. Len(s) = Len(h) + Len(p) /\ s[1] = h[1] /\ \A i \in 1..Len(p) : s[Len(h) + i] = p[i]
    BY <1>7, <1>9, <2>1
  <2>. QED
    BY <1>6, <1>8, <2>2
<1>11. PICK t \in Seq(PlainEvent) : t = Append(s, last)
  BY <1>7
<1>12. /\ Len(t) = (1 + HandLen) + 1 /\ t[(1 + HandLen) + 1] = last
       /\ \A i \in 1..(1 + HandLen) : t[i] = s[i]
  <2>1. /\ Len(t) = Len(s) + 1 /\ t[Len(s) + 1] = last /\ \A i \in 1..Len(s) : t[i] = s[i]
    BY <1>7, <1>11
  <2>. QED
    BY <1>10, <2>1
<1>13. t = WholeRound(r)
  BY <1>2, <1>3, <1>5, <1>8, <1>9, <1>11 DEF WholeRound
<1>14. (1 + HandLen) + 1 = HandLen + 2 /\ 1 \in 1..(1 + HandLen)
       /\ \A m \in 1..HandLen : m + 1 = 1 + m /\ 1 + m \in 1..(1 + HandLen)
  BY <1>1
<1>. QED
  BY <1>2, <1>3, <1>6, <1>10, <1>12, <1>13, <1>14

(* An event of a round is where it belongs.                                  *)
LEMMA InPlace ==
  ASSUME NEW heard, NEW i \in Nat, NEW q \in Nat, i <= q, heard[i] \in Event, heard[q] \in Event, InRound(heard, i, q)
  PROVE  (q - i) + 1 \in 1..(HandLen + 2) /\ Plain(heard[q]) = WholeRound(heard[i].round)[(q - i) + 1]
<1>1. heard[i].round \in 0..MaxRounds /\ HandLen \in Nat
  BY EventSorts, RecorderAssumption DEF RecorderAssumption
<1>2. PICK r \in 0..MaxRounds, m \in Nat : r = heard[i].round /\ m = q - i
  BY <1>1
<1>3. /\ WholeRound(r)[1] = [kind |-> "start_kyoku", round |-> r, step |-> 0]
      /\ \A k \in 1..HandLen : WholeRound(r)[k + 1] = [kind |-> "play", round |-> r, step |-> k]
      /\ WholeRound(r)[HandLen + 2] = [kind |-> "end_kyoku", round |-> r, step |-> 0]
  BY WholeRoundGives
<1>4. heard[q].round = r
  BY <1>2 DEF InRound
<1>5. CASE m = 0
  <2>1. q = i /\ m + 1 = 1
    BY <1>2, <1>5
  <2>2. Plain(heard[q]) = [kind |-> "start_kyoku", round |-> r, step |-> 0]
    BY <1>4, <2>1 DEF InRound, Plain
  <2>. QED
    BY <1>1, <1>2, <1>3, <2>1, <2>2
<1>6. CASE m # 0 /\ m <= HandLen
  <2>1. q # i /\ m \in 1..HandLen /\ m + 1 \in 1..(HandLen + 2)
    BY <1>1, <1>2, <1>6
  <2>2. Plain(heard[q]) = [kind |-> "play", round |-> r, step |-> m]
    BY <1>2, <1>4, <1>6, <2>1 DEF InRound, Plain
  <2>. QED
    BY <1>2, <1>3, <2>1, <2>2
<1>7. CASE m # 0 /\ ~(m <= HandLen)
  <2>1. q # i /\ ~(q - i <= HandLen)
    BY <1>2, <1>7
  <2>2. q - i = HandLen + 1 /\ heard[q].kind = "end_kyoku" /\ heard[q].step = 0
    BY <2>1 DEF InRound
  <2>3. m = HandLen + 1 /\ m + 1 = HandLen + 2 /\ m + 1 \in 1..(HandLen + 2)
    BY <1>1, <1>2, <2>2
  <2>4. Plain(heard[q]) = [kind |-> "end_kyoku", round |-> r, step |-> 0]
    BY <1>4, <2>2 DEF Plain
  <2>. QED
    BY <1>2, <1>3, <2>3, <2>4
<1>. QED
  BY <1>5, <1>6, <1>7

(* Whole rounds and the end of the game are a good record.                   *)
LEMMA RecordIsGood ==
  ASSUME NEW heard \in Seq(Event), NEW n \in Nat, n >= 1, Len(heard) = n + 1, Whole(heard, n),
         heard[n + 1].kind = "confirmed", heard[n + 1].game = heard[1].game, NEW en, heard[1].game \in en
  PROVE  GoodRecord(en, heard)
<1>1. /\ \A i \in 1..n : heard[i].game = heard[1].game /\ (i > 1 => heard[i].kind \in Carries)
      /\ heard[1].kind = "start_game"
      /\ \A i, j \in 2..n : i < j => /\ heard[i].round <= heard[j].round
                                     /\ heard[j].kind = "start_kyoku" => heard[i].round < heard[j].round
      /\ \A p \in 3..n : heard[p].kind = "start_kyoku" => heard[p - 1].kind = "end_kyoku"
      /\ \A p \in 2..n : \E i \in 2..p : /\ heard[i].kind = "start_kyoku"
                                         /\ \A q \in i..p : InRound(heard, i, q)
  BY DEF Whole
<1>2. /\ DOMAIN heard = 1..(n + 1) /\ \A i \in 1..(n + 1) : heard[i] \in Event /\ (i \in 1..n \/ i = n + 1)
      /\ n + 1 \in Nat /\ HandLen \in Nat
  BY RecorderAssumption DEF RecorderAssumption
<1>3. PICK S : S = Starts(heard)
  OBVIOUS
<1>4. \A i \in S : i \in 2..n /\ i \in 1..n /\ i \in Nat /\ heard[i].kind = "start_kyoku"
  <2>1. ASSUME NEW i \in S PROVE i \in 2..n /\ heard[i].kind = "start_kyoku"
    <3>1. i \in 1..(n + 1) /\ heard[i].kind = "start_kyoku"
      BY <1>2, <1>3 DEF Starts
    <3>2. i # n + 1 /\ i # 1
      BY <1>1, <3>1
    <3>. QED
      BY <3>1, <3>2
  <2>2. \A i \in 2..n : i \in 1..n /\ i \in Nat
    OBVIOUS
  <2>. QED
    BY <2>1, <2>2
<1>5. \A i \in 2..n : heard[i].kind = "start_kyoku" => i \in S
  <2>1. \A i \in 2..n : i \in 1..(n + 1)
    OBVIOUS
  <2>. QED
    BY <1>2, <1>3, <2>1 DEF Starts
<1>6. \A i \in DOMAIN heard : heard[i].game = heard[1].game
  BY <1>1, <1>2
<1>7. RoundsOnceInOrder(heard)
  BY <1>1, <1>3, <1>4 DEF RoundsOnceInOrder
<1>8. ASSUME NEW i \in S
      PROVE  IF \E j \in S : j > i THEN RoundAt(heard, i) = WholeRound(heard[i].round)
             ELSE IsPrefix(RoundAt(heard, i), WholeRound(heard[i].round))
  <2>0. i \in 2..n /\ i \in 1..n /\ i \in Nat /\ heard[i].kind = "start_kyoku" /\ heard[i] \in Event
        /\ heard[i].round \in 0..MaxRounds
    BY <1>2, <1>4, EventSorts
  <2>1. PICK later : later = {j \in S \cup {n + 1} : j > i}
    OBVIOUS
  <2>2. later # {} /\ later \subseteq Nat
    <3>1. n + 1 > i
      BY <2>0
    <3>. QED
      BY <1>2, <1>4, <2>1, <3>1
  <2>3. PICK next : next = CHOOSE j \in later : \A k \in later : j <= k
    OBVIOUS
  <2>4. next \in later /\ \A k \in later : next <= k
    <3>1. \E j \in later : \A k \in later : j <= k
      BY <2>2, LeastOf
    <3>. QED
      BY <2>3, <3>1
  <2>5. next \in Nat /\ i < next /\ next <= n + 1 /\ (next \in S \/ next = n + 1)
    <3>1. next \in S \cup {n + 1} /\ next > i
      BY <2>1, <2>4
    <3>2. next \in Nat /\ (next \in S \/ next = n + 1)
      BY <1>2, <1>4, <3>1
    <3>3. next \in S => next \in 1..n
      BY <1>4
    <3>4. next <= n + 1
      BY <3>2, <3>3
    <3>. QED
      BY <2>0, <3>1, <3>2, <3>4
  <2>6. PICK m \in Nat : m = next - i /\ m >= 1
    BY <2>0, <2>5
  <2>7. PICK round_ : round_ = RoundAt(heard, i)
    OBVIOUS
  <2>8. round_ = [k \in 1..m |-> Plain(heard[i + k - 1])]
    BY <1>3, <2>1, <2>3, <2>6, <2>7 DEF RoundAt
  <2>9. ASSUME NEW q \in i..(next - 1) PROVE InRound(heard, i, q)
    <3>1. next - 1 \in 2..n /\ next - 1 \in Nat
      BY <2>0, <2>5
    <3>2. PICK k \in 2..(next - 1) : heard[k].kind = "start_kyoku" /\ \A x \in k..(next - 1) : InRound(heard, k, x)
      BY <1>1, <3>1
    <3>3. k \in 2..n /\ k \in Nat /\ k <= next - 1 /\ k < next
      BY <2>5, <3>1
    <3>4. ~(k > i)
      BY <1>5, <2>1, <2>4, <2>5, <3>2, <3>3
    <3>5. ~(k < i)
      <4>1. SUFFICES ASSUME k < i PROVE FALSE
        OBVIOUS
      <4>2. i \in k..(next - 1) /\ i # k
        BY <2>0, <2>5, <3>3, <4>1
      <4>3. InRound(heard, k, i)
        BY <3>2, <4>2
      <4>. QED
        BY <2>0, <4>2, <4>3 DEF InRound
    <3>6. k = i
      BY <2>0, <3>3, <3>4, <3>5
    <3>. QED
      BY <3>2, <3>6
  <2>10. ASSUME NEW k \in 1..m
         PROVE  /\ k \in 1..(HandLen + 2) /\ round_[k] = WholeRound(heard[i].round)[k]
    <3>1. PICK q \in Nat : q = i + k - 1 /\ i <= q /\ q \in i..(next - 1) /\ (q - i) + 1 = k /\ q \in 1..(n + 1)
      BY <2>0, <2>5, <2>6
    <3>2. heard[q] \in Event /\ InRound(heard, i, q)
      BY <1>2, <2>9, <3>1
    <3>3. (q - i) + 1 \in 1..(HandLen + 2) /\ Plain(heard[q]) = WholeRound(heard[i].round)[(q - i) + 1]
      BY <2>0, <3>1, <3>2, InPlace
    <3>4. round_[k] = Plain(heard[q])
      BY <2>8, <3>1
    <3>. QED
      BY <3>1, <3>3, <3>4
  <2>11. m <= HandLen + 2
    <3>1. m \in 1..m
      BY <2>6
    <3>2. m \in 1..(HandLen + 2)
      BY <2>10, <3>1
    <3>. QED
      BY <1>2, <3>2
  <2>12. PICK w \in Seq(PlainEvent) : w = WholeRound(heard[i].round) /\ Len(w) = HandLen + 2
    BY <2>0, WholeRoundGives
  <2>13. round_ \in Seq(PlainEvent) /\ Len(round_) = m
    <3>1. \A k \in 1..m : round_[k] \in PlainEvent
      BY <2>10, <2>12
    <3>2. round_ \in [1..m -> PlainEvent]
      BY <2>8, <3>1
    <3>. QED
      BY <2>6, <3>2
  <2>14. CASE \E j \in S : j > i
    <3>1. PICK j \in S : j > i
      BY <2>14
    <3>2. next <= j /\ next \in S
      BY <1>4, <2>1, <2>4, <2>5, <3>1
    <3>3. next \in 3..n
      BY <1>4, <2>0, <2>5, <3>2
    <3>4. heard[next - 1].kind = "end_kyoku" /\ next - 1 \in i..(next - 1)
      BY <1>1, <1>4, <2>0, <2>5, <3>2, <3>3
    <3>5. InRound(heard, i, next - 1)
      BY <2>9, <3>4
    <3>6. (next - 1) - i = HandLen + 1
      BY <2>0, <3>4, <3>5 DEF InRound
    <3>7. m = HandLen + 2
      BY <1>2, <2>0, <2>5, <2>6, <3>6
    <3>8. round_ = w
      BY <1>2, <2>10, <2>12, <2>13, <3>7
    <3>. QED
      BY <2>7, <2>12, <2>14, <3>8
  <2>15. CASE ~\E j \in S : j > i
    <3>1. PICK p \in Seq(PlainEvent) : /\ p = SubSeq(w, 1, m) /\ Len(p) = m
                                       /\ \A k \in 1..m : p[k] = w[k]
      <4>1. \A X : \A u \in Seq(X) : \A k \in 1..Len(u) :
              /\ SubSeq(u, 1, k) \in Seq(X) /\ Len(SubSeq(u, 1, k)) = k
              /\ \A i_ \in 1..k : SubSeq(u, 1, k)[i_] = u[i_]
        OBVIOUS
      <4>2. m \in 1..Len(w)
        BY <1>2, <2>6, <2>11, <2>12
      <4>3. PICK x \in Seq(PlainEvent) : x = SubSeq(w, 1, m)
        BY <4>1, <4>2
      <4>4. Len(x) = m /\ \A k \in 1..m : x[k] = w[k]
        BY <4>1, <4>2, <4>3
      <4>. QED
        BY <4>3, <4>4
    <3>2. \A k \in 1..m : round_[k] = w[k]
      BY <2>10, <2>12
    <3>3. round_ = p
      BY <2>6, <2>13, <3>1, <3>2
    <3>4. SubSeq(round_, 1, m) = round_
      <4>1. \A X : \A u \in Seq(X) : SubSeq(u, 1, Len(u)) = u
        OBVIOUS
      <4>. QED
        BY <2>13, <4>1
    <3>5. IsPrefix(round_, w)
      BY <2>11, <2>12, <2>13, <3>1, <3>3, <3>4 DEF IsPrefix
    <3>. QED
      BY <2>7, <2>12, <2>15, <3>5
  <2>. QED
    BY <2>14, <2>15
<1>9. RoundsHaveNoGap(heard)
  BY <1>3, <1>8 DEF RoundsHaveNoGap
<1>. QED
  BY <1>6, <1>7, <1>9 DEF GoodRecord

LEMMA ConfirmedKeeps == ASSUME RInv, NEW e, GameConfirmed(e) PROVE RInv'
<1>0. TableFine /\ Receives /\ BufFine /\ RecordsFine /\ QuietFine
  BY DEF RInv
<1>1. /\ Take(e) /\ e.kind = "confirmed" /\ UNCHANGED <<table, ended>>
      /\ buffering' = FALSE /\ buf' = <<>> /\ overflown' = FALSE /\ awaiting' = FALSE
      /\ IF buffering /\ ~overflown /\ Len(buf) < BufCap
         THEN \/ records' = Append(records, Append(buf, e)) /\ UNCHANGED unsaved
              \/ unsaved' = unsaved \cup {e.game} /\ UNCHANGED records
         ELSE UNCHANGED <<records, unsaved>>
      /\ disturbed' = IF buffering /\ ~overflown /\ Len(buf) >= BufCap
                      THEN disturbed \cup {e.game} ELSE disturbed
      /\ disturbed \subseteq disturbed'
  BY DEF GameConfirmed, Reset
<1>2. /\ game' = game /\ phase' = phase /\ ended' = ended /\ ~Hearing'
  BY <1>1 DEF table, Hearing
<1>3. /\ e \in Event /\ TableFine' /\ Receives' /\ Chain' /\ 1 \in 1..Len(rx) /\ e = rx[1]
      /\ Past(game, phase, round, ended, e) /\ (Hearing => Follows(disturbed, LastHeard, e))
      /\ \A j \in 1..Len(rx') : /\ j + 1 \in 1..Len(rx) /\ rx'[j] = rx[j + 1] /\ rx'[j] \in Event
                                /\ Before(e, rx'[j])
      /\ \A j \in 1..Len(rx) : j # 1 => j - 1 \in 1..Len(rx') /\ rx'[j - 1] = rx[j]
  BY <1>1, Taking
<1>4. /\ e.game \in Nat /\ e.game \in ended /\ e.game <= game /\ game \in Nat
      /\ phase # "over" => e.game < game
      /\ \A j \in 1..Len(rx') : e.game < rx'[j].game
  BY <1>0, <1>1, <1>3, EventSorts, TableSorts DEF Past, Before, Ends
<1>5. Hearing => e.game = buf[1].game
  BY <1>0, <1>1, <1>3, LastIsOfGame DEF Follows
<1>6. Link'
  BY <1>2 DEF Link
<1>7. BufFine'
  <2>1. buf' \in Seq(Event)
    BY <1>1
  <2>. QED
    BY <1>1, <1>2, <2>1 DEF BufFine
<1>8. /\ records \in Seq(Seq(Event))
      /\ \A k \in 1..Len(records) :
           /\ records[k] # <<>> /\ GoodRecord(ended, records[k])
           /\ records[k][1].game <= game /\ (phase # "over" => records[k][1].game < game)
           /\ \A j \in 1..Len(rx) : records[k][1].game < rx[j].game
           /\ Hearing => records[k][1].game < buf[1].game
      /\ \A k, m \in 1..Len(records) : k # m => records[k][1].game # records[m][1].game
  BY <1>0 DEF RecordsFine
<1>9. /\ \A k \in 1..Len(records) : \A j \in 1..Len(rx') : records[k][1].game < rx'[j].game
      /\ \A k \in 1..Len(records) : records[k] \in Seq(Event)
  <2>1. \A S : \A u \in Seq(S) : \A k \in 1..Len(u) : u[k] \in S
    OBVIOUS
  <2>2. \A k \in 1..Len(records) : records[k] \in Seq(Event)
    BY <1>8, <2>1
  <2>3. \A k \in 1..Len(records) : \A j \in 1..Len(rx') : records[k][1].game < rx'[j].game
    <3>1. SUFFICES ASSUME NEW k \in 1..Len(records), NEW j \in 1..Len(rx')
                   PROVE  records[k][1].game < rx'[j].game
      OBVIOUS
    <3>2. j + 1 \in 1..Len(rx) /\ rx'[j] = rx[j + 1]
      BY <1>3
    <3>. QED
      BY <1>8, <3>2
  <2>. QED
    BY <2>2, <2>3
(* No game but the one that ends is lost from sight.                         *)
<1>10. ASSUME NEW g, InFlight(g), g # e.game PROVE InFlight(g)'
  <2>1. PICK j \in 1..Len(rx) : rx[j].kind = "start_game" /\ rx[j].game = g
    BY <1>5, <1>10 DEF InFlight
  <2>2. j # 1
    BY <1>1, <1>3, <2>1
  <2>3. j - 1 \in 1..Len(rx') /\ rx'[j - 1].kind = "start_game" /\ rx'[j - 1].game = g
    BY <1>3, <2>1, <2>2
  <2>. QED
    BY <2>3 DEF InFlight
<1>11. ASSUME phase # "over", game \notin disturbed' PROVE InFlight(game)'
  <2>1. InFlight(game) /\ game # e.game
    BY <1>0, <1>1, <1>4, <1>11 DEF QuietFine
  <2>. QED
    BY <1>2, <1>10, <2>1
<1>12. ASSUME NEW g, g # e.game, EndToCome(g) PROVE EndToCome(g)'
  <2>1. PICK k \in 1..Len(rx) : rx[k].kind = "confirmed" /\ rx[k].game = g
    BY <1>12 DEF EndToCome
  <2>2. k - 1 \in 1..Len(rx') /\ rx'[k - 1].kind = "confirmed" /\ rx'[k - 1].game = g
    BY <1>3, <1>12, <2>1
  <2>. QED
    BY <2>2 DEF EndToCome
(* A game that ends undisturbed is in the buffer, with its first round.      *)
<1>13. ASSUME InFlight(e.game) PROVE Hearing
  <2>1. SUFFICES ASSUME NEW j \in 1..Len(rx), rx[j].kind = "start_game", rx[j].game = e.game
                 PROVE  FALSE
    BY <1>13 DEF InFlight
  <2>2. j # 1
    BY <1>1, <1>3, <2>1
  <2>3. j - 1 \in 1..Len(rx') /\ rx'[j - 1].game = e.game
    BY <1>3, <2>1, <2>2
  <2>. QED
    BY <1>4, <2>3
<1>14. ASSUME Hearing, e.game \notin disturbed PROVE Len(buf) > 1 /\ buf[2].round = 1
  <2>1. /\ buf \in Seq(Event) /\ Len(buf) \in Nat /\ Len(buf) >= 1 /\ buf[1].kind = "start_game"
        /\ buf[1].game \in disturbed \/ (Len(buf) > 1 => buf[2].round = 1)
        /\ ~awaiting
    BY <1>0, <1>5, <1>14 DEF BufFine, Whole
  <2>2. buf[Len(buf)].kind # "start_game"
    <3>1. Follows(disturbed, buf[Len(buf)], e) /\ buf[Len(buf)].game = e.game
      BY <1>0, <1>3, <1>5, <1>14, <2>1, LastIsOfGame DEF LastHeard
    <3>. QED
      BY <1>1, <1>14, <3>1 DEF Follows
  <2>3. Len(buf) > 1
    BY <2>1, <2>2
  <2>. QED
    BY <1>5, <1>14, <2>1, <2>3
<1>15. CASE buffering /\ ~overflown /\ Len(buf) < BufCap /\ records' = Append(records, Append(buf, e))
            /\ unsaved' = unsaved
  <2>0. Hearing
    BY <1>15 DEF Hearing
  <2>1. \A S : \A u \in Seq(S), x \in S :
           /\ Append(u, x) \in Seq(S) /\ Len(Append(u, x)) = Len(u) + 1
           /\ \A i \in 1..Len(u) : Append(u, x)[i] = u[i]
           /\ Append(u, x)[Len(u) + 1] = x
    OBVIOUS
  <2>2. /\ buf \in Seq(Event) /\ Len(buf) \in Nat /\ Len(buf) >= 1 /\ Whole(buf, Len(buf))
    BY <1>0, <2>0 DEF BufFine
  <2>3. PICK n \in Nat : n = Len(buf) /\ n >= 1 /\ n \in 1..n /\ 1 \in 1..n
    BY <2>2
  <2>4. PICK heard \in Seq(Event) : /\ heard = Append(buf, e) /\ Len(heard) = n + 1 /\ heard[n + 1] = e
                                  /\ \A i \in 1..n : heard[i] = buf[i]
    <3>1. PICK x \in Seq(Event) : x = Append(buf, e)
      BY <1>3, <2>1, <2>2
    <3>2. Len(x) = n + 1 /\ x[n + 1] = e /\ \A i \in 1..n : x[i] = buf[i]
      BY <1>3, <2>1, <2>2, <2>3, <3>1
    <3>. QED
      BY <3>1, <3>2
  <2>5. Whole(heard, n)
    BY <2>2, <2>3, <2>4, WholePrefix
  <2>6. heard[1].game = e.game /\ heard # <<>>
    BY <1>5, <2>0, <2>3, <2>4
  <2>7. GoodRecord(ended, heard)
    BY <1>1, <1>4, <2>3, <2>4, <2>5, <2>6, RecordIsGood
  <2>8. PICK m \in Nat : m = Len(records)
    BY <1>8
  <2>9. /\ records' \in Seq(Seq(Event)) /\ Len(records') = m + 1 /\ records'[m + 1] = heard
        /\ \A k \in 1..m : records'[k] = records[k]
    <3>1. records' = Append(records, heard) /\ heard \in Seq(Event)
      BY <1>15, <2>4
    <3>2. PICK T : T = Seq(Event)
      OBVIOUS
    <3>3. records \in Seq(T) /\ heard \in T
      BY <1>8, <3>1, <3>2
    <3>4. /\ Append(records, heard) \in Seq(T) /\ Len(Append(records, heard)) = Len(records) + 1
          /\ \A i \in 1..Len(records) : Append(records, heard)[i] = records[i]
          /\ Append(records, heard)[Len(records) + 1] = heard
      BY <2>1, <3>3
    <3>. QED
      BY <2>8, <3>1, <3>2, <3>4
  <2>10. \A k \in 1..(m + 1) : k \in 1..m \/ k = m + 1
    OBVIOUS
  <2>11. RecordsFine'
    <3>1. ASSUME NEW k \in 1..(m + 1)
          PROVE  /\ records'[k] # <<>> /\ GoodRecord(ended, records'[k])
                 /\ records'[k][1].game <= game /\ (phase # "over" => records'[k][1].game < game)
                 /\ \A j \in 1..Len(rx') : records'[k][1].game < rx'[j].game
      <4>1. CASE k \in 1..m
        BY <1>8, <1>9, <2>8, <2>9, <4>1
      <4>2. CASE k = m + 1
        BY <1>4, <2>6, <2>7, <2>9, <4>2
      <4>. QED
        BY <2>10, <4>1, <4>2
    <3>2. \A k \in 1..m : records[k][1].game # e.game
      <4>1. SUFFICES ASSUME NEW k \in 1..m PROVE records[k][1].game # e.game
        OBVIOUS
      <4>2. records[k][1].game < e.game
        BY <1>5, <1>8, <2>0, <2>8
      <4>3. records[k][1].game \in Nat
        <5>1. records[k][1] \in Event
          BY <1>8, <1>9, <2>8
        <5>. QED
          BY <5>1, EventSorts
      <4>. QED
        BY <1>4, <4>2, <4>3
    <3>3. \A k, x \in 1..(m + 1) : k # x => records'[k][1].game # records'[x][1].game
      <4>1. SUFFICES ASSUME NEW k \in 1..(m + 1), NEW x \in 1..(m + 1), k # x
                     PROVE  records'[k][1].game # records'[x][1].game
        OBVIOUS
      <4>2. records'[m + 1][1].game = e.game
        BY <2>6, <2>9
      <4>3. \A i \in 1..m : records'[i][1].game = records[i][1].game /\ records'[i][1].game # e.game
        BY <2>9, <3>2
      <4>4. CASE k \in 1..m /\ x \in 1..m
        BY <1>8, <2>8, <4>1, <4>3, <4>4
      <4>. QED
        BY <2>10, <4>1, <4>2, <4>3, <4>4
    <3>. QED
      BY <1>2, <2>9, <3>1, <3>3 DEF RecordsFine
  <2>12. ASSUME NEW g \in ended \ (disturbed' \cup unsaved')
         PROVE  Recorded(g)' \/ (InFlight(g)' /\ EndToCome(g)')
    <3>0. g \in ended \ (disturbed \cup unsaved)
      BY <1>1, <1>15, <2>12
    <3>1. Recorded(g) \/ (InFlight(g) /\ EndToCome(g))
      BY <1>0, <3>0 DEF QuietFine
    <3>2. CASE Recorded(g)
      <4>1. PICK k \in 1..Len(records) : records[k][1].game = g /\ records[k][2].round = 1
        BY <3>2 DEF Recorded
      <4>2. k \in 1..(m + 1) /\ records'[k] = records[k]
        BY <2>8, <2>9, <4>1
      <4>3. Recorded(g)'
        BY <2>9, <4>1, <4>2 DEF Recorded
      <4>. QED
        BY <4>3
    <3>3. CASE InFlight(g) /\ EndToCome(g) /\ g # e.game
      BY <1>10, <1>12, <3>3
    <3>4. CASE g = e.game
      <4>1. Len(buf) > 1 /\ buf[2].round = 1
        BY <1>14, <2>0, <3>0, <3>4
      <4>2. 2 \in 1..n
        BY <2>3, <4>1
      <4>3. m + 1 \in 1..(m + 1) /\ records'[m + 1][1].game = g /\ records'[m + 1][2].round = 1
        BY <2>4, <2>6, <2>9, <3>4, <4>1, <4>2
      <4>4. Recorded(g)'
        BY <2>9, <4>3 DEF Recorded
      <4>. QED
        BY <4>4
    <3>. QED
      BY <3>1, <3>2, <3>3, <3>4
  <2>13. QuietFine'
    BY <1>2, <1>11, <2>12 DEF QuietFine
  <2>. QED
    BY <1>3, <1>6, <1>7, <2>11, <2>13 DEF RInv
<1>16. CASE /\ records' = records /\ unsaved \subseteq unsaved'
            /\ Hearing => e.game \in disturbed' \cup unsaved'
  <2>1. RecordsFine'
    BY <1>2, <1>8, <1>9, <1>16 DEF RecordsFine
  <2>2. ASSUME NEW g \in ended \ (disturbed' \cup unsaved')
        PROVE  Recorded(g)' \/ (InFlight(g)' /\ EndToCome(g)')
    <3>0. g \in ended \ (disturbed \cup unsaved)
      BY <1>1, <1>16, <2>2
    <3>1. Recorded(g) \/ (InFlight(g) /\ EndToCome(g))
      BY <1>0, <3>0 DEF QuietFine
    <3>2. CASE Recorded(g)
      BY <1>16, <3>2 DEF Recorded
    <3>3. CASE InFlight(g) /\ EndToCome(g)
      <4>1. g # e.game
        BY <1>13, <1>16, <2>2, <3>3
      <4>. QED
        BY <1>10, <1>12, <3>3, <4>1
    <3>. QED
      BY <3>1, <3>2, <3>3
  <2>3. QuietFine'
    BY <1>2, <1>11, <2>2 DEF QuietFine
  <2>. QED
    BY <1>3, <1>6, <1>7, <2>1, <2>3 DEF RInv
<1>17. CASE buffering /\ ~overflown /\ Len(buf) < BufCap /\ unsaved' = unsaved \cup {e.game} /\ UNCHANGED records
  BY <1>16, <1>17
<1>18. CASE ~(buffering /\ ~overflown /\ Len(buf) < BufCap)
  <2>1. records' = records /\ unsaved' = unsaved
    BY <1>1, <1>18
  <2>2. ASSUME Hearing PROVE e.game \in disturbed'
    <3>1. Len(buf) \in Nat /\ BufCap \in Nat
      BY <1>0, RecorderAssumption DEF BufFine, RecorderAssumption
    <3>2. Len(buf) >= BufCap
      BY <1>18, <2>2, <3>1 DEF Hearing
    <3>. QED
      BY <1>1, <2>2, <3>2 DEF Hearing
  <2>. QED
    BY <1>16, <2>1, <2>2
<1>. QED
  BY <1>1, <1>15, <1>17, <1>18

LEMMA RInvInitially == RecorderInit => RInv
<1> SUFFICES ASSUME RecorderInit PROVE RInv
  OBVIOUS
<1>1. /\ game = 0 /\ tagged = FALSE /\ phase = "over" /\ round = 0 /\ step = 0 /\ client = "away"
      /\ rx = <<>> /\ lagged = FALSE /\ buffering = FALSE /\ buf = <<>> /\ overflown = FALSE
      /\ awaiting = FALSE /\ records = <<>> /\ unsaved = {} /\ disturbed = {} /\ ended = {} /\ ~Hearing
  BY DEF RecorderInit, Hearing
<1>2. \A S : <<>> \in Seq(S)
  OBVIOUS
<1>3. Len(<<>>) = 0 /\ (1..0) = {} /\ (1..(0 - 1)) = {}
  OBVIOUS
<1>4. TableFine
  <2>1. 0 \in 0..MaxGames /\ 0 \in 0..MaxRounds /\ 0 \in 0..HandLen
    BY RecorderAssumption DEF RecorderAssumption
  <2>. QED
    BY <1>1, <2>1 DEF TableFine
<1>5. Receives
  <2>1. 0 <= BusCap
    BY RecorderAssumption DEF RecorderAssumption
  <2>2. rx \in Seq(Event) /\ Len(rx) = 0
    BY <1>1, <1>2, <1>3
  <2>. QED
    BY <1>1, <2>1, <2>2 DEF Receives
<1>6. Chain
  BY <1>1, <1>3 DEF Chain
<1>7. Link /\ BufFine
  BY <1>1, <1>2 DEF Link, BufFine
<1>8. RecordsFine
  BY <1>1, <1>2, <1>3 DEF RecordsFine
<1>9. QuietFine
  BY <1>1 DEF QuietFine
<1>. QED
  BY <1>4, <1>5, <1>6, <1>7, <1>8, <1>9 DEF RInv

LEMMA RInvInductive == RInv /\ [RecorderNext]_recorderVars => RInv'
<1> SUFFICES ASSUME RInv, [RecorderNext]_recorderVars PROVE RInv'
  OBVIOUS
<1>1. CASE Table
  <2>1. CASE \E withId \in BOOLEAN : NewGame(withId)
    BY <2>1, NewGameKeeps
  <2>2. CASE Deal \/ Play \/ EndHand \/ Leave \/ Rejoin \/ Restore
    BY <2>2, DealKeeps, PlayKeeps, EndHandKeeps, LeaveKeeps, RejoinKeeps, RestoreKeeps
  <2>3. CASE \E kind \in {"confirmed", "terminated"} : EndGame(kind)
    BY <2>3, EndGameKeeps DEF Ends
  <2>. QED
    BY <1>1, <2>1, <2>2, <2>3 DEF Table
<1>2. CASE rx # <<>> /\ Handle(Head(rx))
  <2>1. PICK e : e = Head(rx)
    OBVIOUS
  <2>2. Handle(e)
    BY <1>2, <2>1
  <2>. QED
    BY <2>2, AgainKeeps, FreshKeeps, ConfirmedKeeps, TerminatedKeeps, RestoredKeeps, OtherKeeps DEF Handle
<1>3. CASE Lagged
  BY <1>3, LagKeeps
<1>4. CASE UNCHANGED recorderVars
  BY <1>4 DEF recorderVars, RInv, TableFine, Receives, Chain, Link, BufFine, RecordsFine, QuietFine,
              Hearing, LastHeard, InFlight, EndToCome, Recorded
<1>. QED
  BY <1>1, <1>2, <1>3, <1>4 DEF RecorderNext

LEMMA RInvAlways == RecorderSpec => []RInv
  BY RInvInitially, RInvInductive, PTL DEF RecorderSpec

(* However often the client leaves and its round is restored, whatever the   *)
(* bus overwrites and the buffer overflows: what the recorder hands to the   *)
(* store (RecorderState::finalise) is one game that was seen to end, its     *)
(* rounds in order, each once and without a gap, and no game twice.          *)
THEOREM RecordSafety == RecorderSpec => []RecordsAreWhole
<1>1. RInv => RecordsAreWhole
  <2>1. SUFFICES ASSUME RecordsFine PROVE RecordsAreWhole
    BY DEF RInv
  <2>2. DOMAIN records = 1..Len(records)
    BY <2>1 DEF RecordsFine
  <2>. QED
    BY <2>1, <2>2 DEF RecordsFine, RecordsAreWhole, GoodRecord
<1>. QED
  BY <1>1, RInvAlways, PTL

(* A game that the client did not leave and of which the recorder missed     *)
(* nothing is recorded when it has ended, from its first round on, unless    *)
(* the store could not write it.                                             *)
THEOREM QuietRecordSafety == RecorderSpec => []QuietGameIsRecorded
<1>1. RInv => QuietGameIsRecorded
  <2>1. SUFFICES ASSUME RecordsFine, QuietFine, rx = <<>>, NEW g \in ended \ (disturbed \cup unsaved)
                 PROVE  \E n \in DOMAIN records : records[n][1].game = g /\ records[n][2].round = 1
    BY DEF RInv, QuietGameIsRecorded
  <2>2. DOMAIN records = 1..Len(records)
    BY <2>1 DEF RecordsFine
  <2>3. ~EndToCome(g)
    BY <2>1 DEF EndToCome
  <2>4. Recorded(g)
    BY <2>1, <2>3 DEF QuietFine
  <2>. QED
    BY <2>2, <2>4 DEF Recorded
<1>. QED
  BY <1>1, RInvAlways, PTL
=============================================================================
