----------------------------- MODULE HttpPairing -----------------------------
(***************************************************************************)
(* Which request a recorded HTTP response belongs to (ExchangePairing of    *)
(* src/src/capture/http.rs and its three callers in                         *)
(* src/src/proxy/handler.rs).  The proxy library names a request by the     *)
(* client's address alone, so the handler keeps a queue per address: a      *)
(* forwarded request joins it, a response or a failed forward claims its    *)
(* first entry, a response in HTTP/2 claims none.                           *)
(*                                                                         *)
(* A connection's client side and its server side negotiate their version   *)
(* each for themselves.  A client may go away while it is owed a response;   *)
(* another connection may have the same address later.                       *)
(***************************************************************************)
EXTENDS Naturals, Sequences

CONSTANTS Addresses,    \* socket addresses
          MaxExchanges   \* bound: requests over time

ASSUME ExchangesAssumption == MaxExchanges \in Nat

Exchanges == 1..MaxExchanges
Versions == {"h1", "h2"}
ExchangeKinds == {"plain", "connect", "upgrade", "beacon"}
Unattributed == 0

VARIABLES
  version,   \* the version each address's connection speaks, or "closed"
  inflight,  \* address to the queue of exchange ids
  upstream,  \* the requests whose answer is awaited, per address
  asked,     \* requests so far; an exchange id is its request's number
  recorded,  \* history: the exchange each answered request was recorded under
  muddled    \* history: addresses where the order of answers no longer tells

httpVars == <<version, inflight, upstream, asked, recorded, muddled>>

HttpInit ==
  /\ version = [c \in Addresses |-> "closed"]
  /\ inflight = [c \in Addresses |-> <<>>] /\ upstream = [c \in Addresses |-> {}]
  /\ asked = 0 /\ recorded = [r \in Exchanges |-> r] /\ muddled = {}

Connect(c, v) ==
  /\ version[c] = "closed"
  /\ version' = [version EXCEPT ![c] = v]
  /\ muddled' = IF v = "h2" THEN muddled \cup {c} ELSE muddled
  /\ UNCHANGED <<inflight, upstream, asked, recorded>>

(* The connection ends.  What it was still owed is dropped with it, and      *)
(* nobody calls forget.                                                      *)
Disconnect(c) ==
  /\ version[c] # "closed"
  /\ version' = [version EXCEPT ![c] = "closed"]
  /\ upstream' = [upstream EXCEPT ![c] = {}]
  /\ muddled' = IF upstream[c] # {} THEN muddled \cup {c} ELSE muddled
  /\ UNCHANGED <<inflight, asked, recorded>>

(* A blocked beacon is answered by the handler itself, a CONNECT and an      *)
(* upgrade by the library: only the rest come back through the handler.      *)
Forwarded(kind) == kind # "beacon"
will_be_answered_by_handle_response(kind) == kind \notin {"connect", "upgrade"}

(* handle_request.  In HTTP/1 the next request waits for the answer.         *)
HandleRequest(c, kind) ==
  LET id == asked + 1
      queued == Forwarded(kind) /\ will_be_answered_by_handle_response(kind)
  IN  /\ asked < MaxExchanges /\ version[c] # "closed"
      /\ version[c] = "h1" => upstream[c] = {}
      /\ asked' = id
      /\ inflight' = IF queued THEN [inflight EXCEPT ![c] = Append(@, id)] ELSE inflight
      /\ upstream' = IF Forwarded(kind) /\ kind \notin {"connect", "upgrade"}
                       THEN [upstream EXCEPT ![c] = @ \cup {id}] ELSE upstream
      /\ UNCHANGED <<version, recorded, muddled>>

(* ExchangePairing::close.                                                   *)
Claimed(c, multiplexed) ==
  IF multiplexed \/ inflight[c] = <<>> THEN Unattributed ELSE Head(inflight[c])
Claim(c, r, multiplexed) ==
  /\ r \in upstream[c]
  /\ upstream' = [upstream EXCEPT ![c] = @ \ {r}]
  /\ recorded' = [recorded EXCEPT ![r] = Claimed(c, multiplexed)]
  /\ inflight' = IF Claimed(c, multiplexed) = Unattributed THEN inflight
                 ELSE [inflight EXCEPT ![c] = Tail(@)]
  /\ UNCHANGED <<version, asked>>

(* handle_response: v is the version of the response.                        *)
HandleResponse(c, r, v) ==
  /\ Claim(c, r, v = "h2")
  /\ muddled' = IF v = "h2" THEN muddled \cup {c} ELSE muddled

(* Mutant of HandleError: the claim leaves the entry where it is.            *)
HandleErrorKeeps(c, r) ==
  /\ r \in upstream[c]
  /\ upstream' = [upstream EXCEPT ![c] = @ \ {r}]
  /\ recorded' = [recorded EXCEPT ![r] = Claimed(c, FALSE)]
  /\ UNCHANGED <<version, inflight, asked, muddled>>
(* handle_error does not ask which version the client speaks.                *)
HandleError(c, r) == Claim(c, r, FALSE) /\ UNCHANGED muddled

HttpNext ==
  \E c \in Addresses :
    \/ \E v \in Versions : Connect(c, v)
    \/ Disconnect(c)
    \/ \E kind \in ExchangeKinds : HandleRequest(c, kind)
    \/ \E r \in Exchanges : HandleError(c, r) \/ \E v \in Versions : HandleResponse(c, r, v)

HttpSpec == HttpInit /\ [][HttpNext]_httpVars

(* ---- properties ---- *)

(* Types.                                                                    *)
HttpTypeOK ==
  /\ version \in [Addresses -> Versions \cup {"closed"}]
  /\ inflight \in [Addresses -> Seq(Exchanges)]
  /\ upstream \in [Addresses -> SUBSET Exchanges]
  /\ asked \in 0..MaxExchanges /\ recorded \in [Exchanges -> Exchanges \cup {Unattributed}]
  /\ muddled \subseteq Addresses

(* While an address has only spoken HTTP/1 on both sides and no client of    *)
(* its went away before its answer, its queue is the one request in flight:  *)
(* a CONNECT, an upgrade and a blocked beacon leave nothing behind.          *)
QueueIsInFlight ==
  \A c \in Addresses \ muddled :
    /\ \A r \in upstream[c] : inflight[c] = <<r>>
    /\ upstream[c] = {} => inflight[c] = <<>>

(* As long as that is so of every address, each answer, a failed forward     *)
(* included, is recorded under the request it answers.                       *)
AnsweredUnderOwn == muddled = {} => \A r \in Exchanges : recorded[r] = r
=============================================================================
