--------------------------- MODULE FrontEndProofs ---------------------------
(***************************************************************************)
(* Theorems about the three parts of the front end that MCFrontEnd puts     *)
(* side by side: Purchase for any number of orders, ConfigSaves for any     *)
(* calls and crashes, and Reviews for any keys, games and reviews.          *)
(***************************************************************************)
EXTENDS ConfigSaves, Purchase, Reviews, SequenceTheorems, TLAPS

(* ---- the purchase of a key (Purchase) ---- *)

Phases == {"idle", "creating", "approving", "redeeming", "redeem_failed", "done", "delivered",
           "failed"}
Shown == [phase : Phases, code : Nat, key : Nat, renew : BOOLEAN, deliveredToUi : BOOLEAN,
          persistedFallback : BOOLEAN]
CallKinds == {"create", "poll", "redeem"}
AnyCall == [kind : CallKinds, gen : Nat, order : Nat, subscription : BOOLEAN, renew : BOOLEAN]
Statuses == {"open", "ready", "delivered", "refunded", "spent"}
AnyOrder == [status : Statuses, gives : {"key", "code"}]

Typed ==
  /\ shown \in Shown /\ calls \subseteq AnyCall /\ order \in Seq(AnyOrder)
  /\ generation \in Nat /\ timer \in Nat /\ active \in Nat /\ sink \in BOOLEAN

(* Calls are of the present generation or an older one; all but the call     *)
(* that creates an order are about one that the server has.                  *)
CallsArePast ==
  \A c \in calls : c.gen <= generation /\ (c.kind # "create" => c.order \in DOMAIN order)

(* The order on hand, by phase, and the calls about it.                      *)
OrderOnHand ==
  /\ active # None => active \in DOMAIN order
  /\ shown.phase = "creating" => shown.code = None /\ shown.key = None
  /\ shown.phase = "approving" => active # None
  /\ shown.phase \in {"redeeming", "redeem_failed"} => active # None /\ shown.code = active
  /\ \A c \in Mine : c.kind # "create" => c.order = active

IInv == Typed /\ CallsArePast /\ OrderOnHand /\ OneActivity /\ ShownIsCurrent

(* The calls of the present generation, after one call was answered.         *)
LEMMA MineWithout ==
  ASSUME NEW c, calls' = calls \ {c}, generation' = generation
  PROVE  Mine' = Mine \ {c}
BY DEF Mine

LEMMA InitHolds == PurchaseInit => IInv
<1> SUFFICES ASSUME PurchaseInit PROVE IInv
  OBVIOUS
<1>1. Typed
  BY EmptySeq DEF PurchaseInit, Typed, Idle, Shown, Phases, None
<1>2. CallsArePast /\ OrderOnHand /\ OneActivity /\ ShownIsCurrent
  BY DEF PurchaseInit, CallsArePast, OrderOnHand, OneActivity, ShownIsCurrent, Idle, Mine, None
<1> QED
  BY <1>1, <1>2 DEF IInv

(* ---- start ---- *)

LEMMA StartKeeps ==
  ASSUME IInv, NEW subscription \in BOOLEAN, NEW renew \in BOOLEAN, Start(subscription, renew)
  PROVE  IInv'
<1> DEFINE new == [kind |-> "create", gen |-> generation + 1, order |-> None,
                   subscription |-> subscription, renew |-> renew /\ ~subscription]
<1>1. /\ shown' = [Idle EXCEPT !.phase = "creating", !.renew = renew /\ ~subscription]
      /\ calls' = calls \cup {new} /\ generation' = generation + 1 /\ timer' = 0 /\ active' = None
      /\ order' = order /\ sink' = sink
  BY DEF Start, Call, pageVars, IInv
<1>2. new \in AnyCall
  BY DEF IInv, Typed, AnyCall, CallKinds, None
<1>3. Typed'
  <2>1. shown' = [phase |-> "creating", code |-> 0, key |-> 0, renew |-> renew /\ ~subscription,
                  deliveredToUi |-> FALSE, persistedFallback |-> FALSE]
    BY <1>1 DEF Idle, None
  <2>2. (renew /\ ~subscription) \in BOOLEAN
    OBVIOUS
  <2>3. shown' \in Shown
    BY <2>1, <2>2 DEF Shown, Phases
  <2> QED
    BY <1>1, <1>2, <2>3 DEF IInv, Typed, None
<1>4. CallsArePast'
  BY <1>1 DEF IInv, Typed, CallsArePast, AnyCall
<1>5. Mine' = {new}
  BY <1>1, <1>2 DEF IInv, Typed, CallsArePast, AnyCall, Mine
<1>6. OrderOnHand' /\ ShownIsCurrent'
  BY <1>1, <1>5 DEF OrderOnHand, ShownIsCurrent, Idle, None
<1>7. OneActivity'
  BY <1>1, <1>5 DEF OneActivity, Idle
<1> QED
  BY <1>3, <1>4, <1>6, <1>7 DEF IInv

LEMMA CreatedKeeps ==
  ASSUME IInv, NEW c, Created(c)
  PROVE  IInv'
<1>1. /\ c \in calls /\ c.kind = "create" /\ calls' = calls \ {c}
      /\ generation' = generation /\ sink' = sink
  BY DEF Created, pageVars
<1>2. PICK gives \in {"key", "code"} : order' = Append(order, [status |-> "open", gives |-> gives])
  BY DEF Created, Gives
<1>3. order' \in Seq(AnyOrder) /\ Len(order') = Len(order) + 1 /\ DOMAIN order' = 1..Len(order) + 1
      /\ DOMAIN order = 1..Len(order) /\ Len(order) \in Nat
  <2>1. [status |-> "open", gives |-> gives] \in AnyOrder
    BY DEF AnyOrder, Statuses
  <2> QED
    BY <1>2, <2>1, AppendProperties, LenProperties DEF IInv, Typed
<1>4. CallsArePast'
  BY <1>1, <1>3 DEF IInv, CallsArePast
<1>5. Mine' = Mine \ {c}
  BY <1>1, MineWithout
<1>6. CASE c.gen = generation
  <2>1. active' = Len(order) + 1 /\ timer' = generation
        /\ shown' = [shown EXCEPT !.phase = "approving"]
    BY <1>6 DEF Created
  <2>2. Mine = {c} /\ shown.phase = "creating"
    BY <1>1, <1>6 DEF IInv, OneActivity, Mine
  <2>3. Mine' = {}
    BY <2>2, <1>5
  <2>4. Typed'
    BY <1>1, <1>3, <2>1 DEF IInv, Typed, Shown, Phases
  <2>5. shown'.phase = "approving" /\ shown'.code = None /\ shown'.key = None
    BY <2>1, <2>2 DEF IInv, Typed, Shown, OrderOnHand
  <2>6. OrderOnHand' /\ ShownIsCurrent' /\ OneActivity'
    BY <1>1, <1>3, <2>1, <2>3, <2>5 DEF OrderOnHand, ShownIsCurrent, OneActivity, None
  <2> QED
    BY <2>4, <2>6, <1>4 DEF IInv
<1>7. CASE c.gen # generation
  <2>1. UNCHANGED <<active, timer, shown>>
    BY <1>7 DEF Created
  <2>2. Mine' = Mine
    BY <1>5, <1>7 DEF Mine
  <2>3. Typed'
    BY <1>1, <1>3, <2>1 DEF IInv, Typed
  <2>4. OrderOnHand' /\ ShownIsCurrent' /\ OneActivity'
    BY <1>1, <1>3, <2>1, <2>2 DEF IInv, OrderOnHand, ShownIsCurrent, OneActivity
  <2> QED
    BY <2>3, <2>4, <1>4 DEF IInv
<1> QED
  BY <1>6, <1>7

(* ---- what an answer leaves behind ---- *)

(* An answer of an older generation changes nothing that matters.            *)
LEMMA StaleAnswer ==
  ASSUME IInv, NEW c, c.gen # generation, calls' = calls \ {c},
         order' \in Seq(AnyOrder), DOMAIN order' = DOMAIN order,
         UNCHANGED <<generation, active, shown, timer, sink>>
  PROVE  IInv'
<1>1. Mine' = Mine
  BY DEF Mine
<1>2. Typed' /\ CallsArePast'
  BY DEF IInv, Typed, CallsArePast
<1>3. OrderOnHand' /\ ShownIsCurrent' /\ OneActivity'
  BY <1>1 DEF IInv, OrderOnHand, ShownIsCurrent, OneActivity
<1> QED
  BY <1>2, <1>3 DEF IInv

(* A call of the present generation is the only one, and its phase waits for *)
(* it.                                                                       *)
LEMMA OnlyCall ==
  ASSUME IInv, NEW c \in calls, c.gen = generation
  PROVE  /\ Mine = {c} /\ timer = 0
         /\ c.kind = "create" => shown.phase = "creating"
         /\ c.kind = "poll" => shown.phase = "approving"
         /\ c.kind = "redeem" => shown.phase = "redeeming"
BY DEF IInv, OneActivity, Mine

(* A purchase that waits for nothing.                                        *)
Over == {"idle", "redeem_failed", "done", "delivered", "failed"}
LEMMA NothingUnderWay ==
  ASSUME Typed', CallsArePast', Mine' = {}, timer' = 0, shown'.phase \in Over,
         active' # None => active' \in DOMAIN order',
         shown'.phase = "redeem_failed" => active' # None /\ shown'.code = active',
         ShownIsCurrent'
  PROVE  IInv'
<1>1. OrderOnHand' /\ OneActivity'
  BY DEF OrderOnHand, OneActivity, Over
<1> QED
  BY <1>1 DEF IInv

(* An order that changes stays one, and the others stay as they are.         *)
LEMMA OrderChanges ==
  ASSUME IInv, NEW o \in DOMAIN order, NEW status \in Statuses,
         order' = [order EXCEPT ![o].status = status]
  PROVE  order' \in Seq(AnyOrder) /\ DOMAIN order' = DOMAIN order
<1>1. order \in Seq(AnyOrder) /\ DOMAIN order = 1..Len(order) /\ Len(order) \in Nat
  BY LenProperties DEF IInv, Typed
<1>2. order[o] \in AnyOrder
  BY <1>1, ElementOfSeq
<1>3. [order[o] EXCEPT !.status = status] \in AnyOrder
  BY <1>2 DEF AnyOrder
<1>4. order' = [order EXCEPT ![o] = [order[o] EXCEPT !.status = status]]
  OBVIOUS
<1> QED
  BY <1>1, <1>3, <1>4, ExceptSeq

LEMMA CreateFailsKeeps ==
  ASSUME IInv, NEW c, CreateFails(c)
  PROVE  IInv'
<1>1. /\ c \in calls /\ calls' = calls \ {c} /\ c.kind = "create"
      /\ UNCHANGED <<generation, active, order, sink>>
  BY DEF CreateFails, pageVars
<1>2. CASE c.gen # generation
  BY <1>1, <1>2, StaleAnswer DEF CreateFails, IInv, Typed
<1>3. CASE c.gen = generation
  <2>1. timer' = 0 /\ shown' = [shown EXCEPT !.phase = "failed"]
    BY <1>3 DEF CreateFails, Fail
  <2>2. Mine' = {}
    BY <1>1, <1>3, OnlyCall, MineWithout
  <2>3. Typed' /\ CallsArePast'
    BY <1>1, <2>1 DEF IInv, Typed, CallsArePast, Shown, Phases
  <2>4. shown'.phase = "failed" /\ ShownIsCurrent'
    BY <1>1, <2>1 DEF IInv, Typed, Shown, ShownIsCurrent
  <2> QED
    BY <1>1, <2>1, <2>2, <2>3, <2>4, NothingUnderWay DEF IInv, OrderOnHand, Over
<1> QED
  BY <1>2, <1>3

(* ---- the server and the buyer ---- *)

LEMMA BecomesKeeps ==
  ASSUME IInv, NEW o, NEW from, NEW status \in Statuses, Becomes(o, from, status)
  PROVE  IInv'
<1>1. order' \in Seq(AnyOrder) /\ DOMAIN order' = DOMAIN order
  BY OrderChanges DEF Becomes
<1>2. UNCHANGED <<shown, generation, active, timer, calls, sink>>
  BY DEF Becomes, pageVars
<1>3. Mine' = Mine
  BY <1>2 DEF Mine
<1> QED
  BY <1>1, <1>2, <1>3
     DEF IInv, Typed, CallsArePast, OrderOnHand, OneActivity, ShownIsCurrent

(* ---- the poll ---- *)

LEMMA PollKeeps ==
  ASSUME IInv, Poll
  PROVE  IInv'
<1>1. /\ timer # 0 /\ timer' = 0
      /\ UNCHANGED <<shown, generation, active, order, sink>>
  BY DEF Poll, pageVars
<1>2. shown.phase = "approving" /\ timer = generation /\ Mine = {} /\ active # None
  BY <1>1 DEF IInv, OneActivity, OrderOnHand
<1> DEFINE new == [kind |-> "poll", gen |-> generation, order |-> active,
                   subscription |-> FALSE, renew |-> FALSE]
<1>3. calls' = calls \cup {new}
  BY <1>2 DEF Poll, Call
<1>4. new \in AnyCall /\ active \in DOMAIN order
  BY <1>2 DEF IInv, Typed, OrderOnHand, AnyCall, CallKinds
<1>5. Mine' = {new}
  BY <1>1, <1>2, <1>3 DEF Mine
<1>6. Typed' /\ CallsArePast'
  <2>1. Typed'
    BY <1>1, <1>3, <1>4 DEF IInv, Typed
  <2>2. new.gen = generation /\ new.order = active /\ generation <= generation
    BY DEF IInv, Typed
  <2>3. CallsArePast'
    BY <1>1, <1>3, <1>4, <2>2 DEF IInv, CallsArePast
  <2> QED
    BY <2>1, <2>3
<1>7. OrderOnHand' /\ ShownIsCurrent' /\ OneActivity'
  BY <1>1, <1>2, <1>5 DEF IInv, OrderOnHand, ShownIsCurrent, OneActivity
<1> QED
  BY <1>6, <1>7 DEF IInv

LEMMA PollDeadlineKeeps ==
  ASSUME IInv, PollDeadline
  PROVE  IInv'
<1>1. /\ timer # 0 /\ timer' = 0 /\ shown.phase = "approving"
      /\ shown' = [shown EXCEPT !.phase = "failed"]
      /\ UNCHANGED <<generation, active, calls, order, sink>>
  BY DEF PollDeadline, Fail, pageVars
<1>2. Mine' = {}
  BY <1>1 DEF IInv, OneActivity, Mine
<1>3. Typed' /\ CallsArePast'
  BY <1>1 DEF IInv, Typed, CallsArePast, Shown, Phases
<1>4. shown'.phase = "failed" /\ ShownIsCurrent'
  BY <1>1 DEF IInv, Typed, Shown, ShownIsCurrent
<1> QED
  BY <1>1, <1>2, <1>3, <1>4, NothingUnderWay DEF IInv, OrderOnHand, Over

(* The key is there: c was the last call.                                    *)
LEMMA DeliverKeeps ==
  ASSUME IInv, NEW c \in calls, c.gen = generation, calls' = calls \ {c}, deliverKey(c.order),
         c.kind # "create", UNCHANGED <<generation, active>>,
         order' \in Seq(AnyOrder), DOMAIN order' = DOMAIN order
  PROVE  IInv'
<1>1. /\ timer' = 0 /\ sink' = sink
      /\ shown' = [shown EXCEPT !.phase = "done", !.key = c.order, !.deliveredToUi = sink]
  BY DEF deliverKey
<1>2. Mine' = {}
  BY OnlyCall, MineWithout
<1>3. c.order = active
  BY DEF IInv, OrderOnHand, Mine
<1>4. Typed' /\ CallsArePast'
  BY <1>1, <1>3 DEF IInv, Typed, CallsArePast, Shown, Phases
<1>5. shown'.phase = "done" /\ shown'.key = active /\ shown'.code = shown.code
  BY <1>1, <1>3 DEF IInv, Typed, Shown
<1>6. ShownIsCurrent'
  BY <1>5 DEF IInv, ShownIsCurrent
<1> QED
  BY <1>1, <1>2, <1>4, <1>5, <1>6, NothingUnderWay DEF IInv, OrderOnHand, Over

(* The purchase is over without a key.                                       *)
LEMMA EndKeeps ==
  ASSUME IInv, NEW c \in calls, c.gen = generation, calls' = calls \ {c},
         NEW phase \in Over \ {"redeem_failed"}, timer' = 0,
         shown' = [shown EXCEPT !.phase = phase], UNCHANGED <<generation, active, sink>>,
         order' \in Seq(AnyOrder), DOMAIN order' = DOMAIN order
  PROVE  IInv'
<1>1. Mine' = {}
  BY OnlyCall, MineWithout
<1>2. Typed' /\ CallsArePast'
  BY DEF IInv, Typed, CallsArePast, Shown, Phases, Over
<1>3. shown'.phase = phase /\ ShownIsCurrent'
  BY DEF IInv, Typed, Shown, ShownIsCurrent
<1> QED
  BY <1>1, <1>2, <1>3, NothingUnderWay DEF IInv, OrderOnHand

(* The exchange of the code of the order on hand begins.                     *)
LEMMA RedeemKeeps ==
  ASSUME IInv, NEW renew \in BOOLEAN, active # None, redeemCode(active, renew), timer = 0,
         \A c \in Mine : c.kind = "poll",
         UNCHANGED <<generation, active, timer, order, sink>>
  PROVE  IInv'
<1> DEFINE new == [kind |-> "redeem", gen |-> generation, order |-> active,
                   subscription |-> FALSE, renew |-> renew]
<1>1. /\ shown' = [shown EXCEPT !.phase = "redeeming", !.code = active, !.renew = renew]
      /\ calls' = (calls \ {c \in calls : c.kind = "poll" /\ c.gen = generation}) \cup {new}
  BY DEF redeemCode, Call
<1>2. new \in AnyCall /\ active \in DOMAIN order
  BY DEF IInv, Typed, OrderOnHand, AnyCall, CallKinds
<1>3. Mine' = {new}
  BY <1>1 DEF Mine
<1>4. Typed' /\ CallsArePast'
  <2>1. shown' \in Shown
    BY <1>1 DEF IInv, Typed, Shown, Phases
  <2>2. calls' \subseteq AnyCall
    BY <1>1, <1>2 DEF IInv, Typed
  <2>3. new.gen = generation /\ new.order = active /\ generation <= generation
    BY DEF IInv, Typed
  <2>4. CallsArePast'
    BY <1>1, <1>2, <2>3 DEF IInv, CallsArePast
  <2> QED
    BY <2>1, <2>2, <2>4 DEF IInv, Typed
<1>5. shown'.phase = "redeeming" /\ shown'.code = active /\ shown'.key = shown.key
  BY <1>1 DEF IInv, Typed, Shown
<1>6. OrderOnHand' /\ ShownIsCurrent' /\ OneActivity'
  BY <1>2, <1>3, <1>5 DEF IInv, OrderOnHand, ShownIsCurrent, OneActivity
<1> QED
  BY <1>4, <1>6 DEF IInv

LEMMA WaitsOnKeeps ==
  ASSUME IInv, NEW c \in calls, c.gen = generation, c.kind = "poll", calls' = calls \ {c},
         timer' = generation, UNCHANGED <<generation, active, shown, order, sink>>
  PROVE  IInv'
<1>1. Mine' = {} /\ shown.phase = "approving"
  BY OnlyCall, MineWithout
<1>2. Typed' /\ CallsArePast'
  BY DEF IInv, Typed, CallsArePast
<1>3. OrderOnHand' /\ ShownIsCurrent' /\ OneActivity'
  BY <1>1 DEF IInv, OrderOnHand, ShownIsCurrent, OneActivity
<1> QED
  BY <1>2, <1>3 DEF IInv

LEMMA PollAnswerKeeps ==
  ASSUME IInv, NEW c, PollAnswer(c)
  PROVE  IInv'
<1>1. /\ c \in calls /\ c.kind = "poll"
      /\ UNCHANGED <<generation, active, order>>
  BY DEF PollAnswer
<1>2. order' \in Seq(AnyOrder) /\ DOMAIN order' = DOMAIN order
  BY <1>1 DEF IInv, Typed
<1>3. CASE c.gen # generation
  BY <1>1, <1>2, <1>3, StaleAnswer DEF PollAnswer, Current, pageVars
<1>4. CASE c.gen = generation
  <2>1. HandleResult(c)
    BY <1>4 DEF PollAnswer, Current
  <2>2. c.order = active /\ c.order \in DOMAIN order /\ active # None
    BY <1>1, <1>4, OnlyCall DEF IInv, OrderOnHand, CallsArePast, Mine
  <2>3. order[c.order] \in AnyOrder
    BY <2>2, ElementOfSeq, LenProperties DEF IInv, Typed
  <2>4. CASE order[c.order].status = "open"
    BY <1>1, <1>4, <2>1, <2>4, WaitsOnKeeps DEF HandleResult, pageVars
  <2>5. CASE order[c.order].status = "ready" /\ order[c.order].gives = "key"
    BY <1>1, <1>2, <1>4, <2>1, <2>5, DeliverKeeps DEF HandleResult
  <2>6. CASE order[c.order].status = "ready" /\ order[c.order].gives = "code"
    <3>1. redeemCode(active, shown.renew) /\ UNCHANGED <<timer, sink>>
      BY <2>1, <2>2, <2>6 DEF HandleResult, pageVars
    <3>2. timer = 0 /\ \A d \in Mine : d.kind = "poll"
      BY <1>1, <1>4, OnlyCall
    <3>3. shown.renew \in BOOLEAN
      BY DEF IInv, Typed, Shown
    <3> QED
      BY <1>1, <2>2, <3>1, <3>2, <3>3, RedeemKeeps
  <2>7. CASE order[c.order].status \in {"delivered", "spent"}
    BY <1>1, <1>2, <1>4, <2>1, <2>7, EndKeeps DEF HandleResult, Delivered, pageVars, Over
  <2>8. CASE order[c.order].status = "refunded"
    BY <1>1, <1>2, <1>4, <2>1, <2>8, EndKeeps DEF HandleResult, Fail, pageVars, Over
  <2> QED
    BY <2>3, <2>4, <2>5, <2>6, <2>7, <2>8 DEF AnyOrder, Statuses
<1> QED
  BY <1>3, <1>4

LEMMA PollFailsKeeps ==
  ASSUME IInv, NEW c, PollFails(c) \/ PollRefused(c)
  PROVE  IInv'
<1>1. /\ c \in calls /\ c.kind = "poll" /\ calls' = calls \ {c}
      /\ UNCHANGED <<generation, active, order, sink>>
  BY DEF PollFails, PollRefused, pageVars
<1>2. order' \in Seq(AnyOrder) /\ DOMAIN order' = DOMAIN order
  BY <1>1 DEF IInv, Typed
<1>3. CASE c.gen # generation
  <2>1. UNCHANGED <<shown, timer>>
    BY <1>3 DEF PollFails, PollRefused, Current
  <2> QED
    BY <1>1, <1>2, <1>3, <2>1, StaleAnswer
<1>4. CASE c.gen = generation /\ PollFails(c)
  BY <1>1, <1>4, WaitsOnKeeps DEF PollFails, Retry, Current
<1>5. CASE c.gen = generation /\ PollRefused(c)
  <2>1. timer' = 0 /\ shown' = [shown EXCEPT !.phase = "failed"]
    BY <1>5 DEF PollRefused, Current, Fail
  <2> QED
    BY <1>1, <1>2, <1>5, <2>1, EndKeeps DEF Over
<1> QED
  BY <1>3, <1>4, <1>5

(* ---- the exchange of a code ---- *)

LEMMA RedeemAnswerKeeps ==
  ASSUME IInv, NEW c, RedeemAnswer(c)
  PROVE  IInv'
<1>1. /\ c \in calls /\ c.kind = "redeem" /\ calls' = calls \ {c}
      /\ order' = [order EXCEPT ![c.order].status = "spent"]
      /\ UNCHANGED <<generation, active>>
  BY DEF RedeemAnswer
<1>2. c.order \in DOMAIN order
  BY <1>1 DEF IInv, CallsArePast
<1>3. order' \in Seq(AnyOrder) /\ DOMAIN order' = DOMAIN order
  BY <1>1, <1>2, OrderChanges DEF Statuses
<1>4. CASE ~Current(c)
  BY <1>1, <1>3, <1>4, StaleAnswer DEF RedeemAnswer, Current, pageVars
<1>5. CASE Current(c) /\ ~c.renew
  BY <1>1, <1>3, <1>5, DeliverKeeps DEF RedeemAnswer, Current
<1>6. CASE Current(c) /\ c.renew
  <2>1. timer' = 0 /\ shown' = [shown EXCEPT !.phase = "done"] /\ sink' = sink
    BY <1>6 DEF RedeemAnswer, pageVars
  <2> QED
    BY <1>1, <1>3, <1>6, <2>1, EndKeeps DEF Current, Over
<1> QED
  BY <1>4, <1>5, <1>6

LEMMA RedeemFailsKeeps ==
  ASSUME IInv, NEW c, RedeemFails(c)
  PROVE  IInv'
<1>1. /\ c \in calls /\ c.kind = "redeem" /\ calls' = calls \ {c}
      /\ UNCHANGED <<generation, active, timer, sink>>
  BY DEF RedeemFails, pageVars
<1>2. c.order \in DOMAIN order
  BY <1>1 DEF IInv, CallsArePast
<1>3. order' \in Seq(AnyOrder) /\ DOMAIN order' = DOMAIN order
  <2>1. CASE order' = order
    BY <2>1 DEF IInv, Typed
  <2>2. CASE order' = [order EXCEPT ![c.order].status = "spent"]
    BY <1>2, <2>2, OrderChanges DEF Statuses
  <2> QED
    BY <2>1, <2>2 DEF RedeemFails
<1>4. CASE c.gen # generation
  <2>1. shown' = shown
    BY <1>4 DEF RedeemFails, Current
  <2> QED
    BY <1>1, <1>3, <1>4, <2>1, StaleAnswer
<1>5. CASE c.gen = generation
  <2>1. shown' = [shown EXCEPT !.phase = "redeem_failed"]
    BY <1>5 DEF RedeemFails, Current
  <2>2. Mine' = {} /\ timer = 0 /\ shown.phase = "redeeming"
    BY <1>1, <1>5, OnlyCall, MineWithout
  <2>3. active # None /\ shown.code = active
    BY <2>2 DEF IInv, OrderOnHand
  <2>4. Typed' /\ CallsArePast'
    BY <1>1, <1>3, <2>1 DEF IInv, Typed, CallsArePast, Shown, Phases
  <2>5. shown'.phase = "redeem_failed" /\ shown'.code = shown.code /\ shown'.key = shown.key
    BY <2>1 DEF IInv, Typed, Shown
  <2>6. ShownIsCurrent' /\ active \in DOMAIN order
    BY <1>1, <2>3, <2>5 DEF IInv, ShownIsCurrent, OrderOnHand
  <2> QED
    BY <1>1, <1>3, <2>2, <2>3, <2>4, <2>5, <2>6, NothingUnderWay DEF Over
<1> QED
  BY <1>4, <1>5

LEMMA RetryRedeemKeeps ==
  ASSUME IInv, NEW renew \in BOOLEAN, retryRedeem(renew)
  PROVE  IInv'
<1>1. shown.phase = "redeem_failed" /\ UNCHANGED <<generation, active, timer, order, sink>>
  BY DEF retryRedeem, pageVars
<1>2. active # None /\ shown.code = active /\ timer = 0 /\ Mine = {}
  BY <1>1 DEF IInv, OrderOnHand, OneActivity
<1>3. redeemCode(active, renew)
  BY <1>2 DEF retryRedeem
<1> QED
  BY <1>1, <1>2, <1>3, RedeemKeeps

(* ---- the dialog and the page ---- *)

LEMMA DismissKeeps ==
  ASSUME IInv, Dismiss
  PROVE  IInv'
<1>1. /\ timer' = 0 /\ generation' = generation + 1 /\ active' = None /\ shown' = Idle
      /\ sink' \in BOOLEAN /\ UNCHANGED <<calls, order>>
  BY DEF Dismiss
<1>2. Typed'
  <2>1. Idle \in Shown
    BY DEF Idle, Shown, Phases, None
  <2> QED
    BY <1>1, <2>1 DEF IInv, Typed, None
<1>3. CallsArePast' /\ Mine' = {}
  BY <1>1 DEF IInv, Typed, CallsArePast, AnyCall, Mine
<1>4. shown'.phase = "idle" /\ ShownIsCurrent'
  BY <1>1 DEF Idle, ShownIsCurrent
<1> QED
  BY <1>1, <1>2, <1>3, <1>4, NothingUnderWay DEF Over

(* What only the flags on display, the dialog and the page change.           *)
LEMMA PageKeeps ==
  ASSUME IInv, shown' \in Shown, sink' \in BOOLEAN, shown'.phase = shown.phase,
         shown'.code = shown.code, shown'.key = shown.key,
         UNCHANGED <<generation, active, timer, calls, order>>
  PROVE  IInv'
<1>1. Mine' = Mine
  BY DEF Mine
<1>2. Typed' /\ CallsArePast'
  BY DEF IInv, Typed, CallsArePast
<1>3. OrderOnHand' /\ ShownIsCurrent'
  BY <1>1 DEF IInv, OrderOnHand, ShownIsCurrent
<1>4. OneActivity'
  BY <1>1 DEF IInv, OneActivity
<1> QED
  BY <1>2, <1>3, <1>4 DEF IInv

LEMMA OpenKeeps ==
  ASSUME IInv, Open \/ Leave \/ \E s \in saves : SaveEnds(s) \/ SaveFails(s)
  PROVE  IInv'
<1>1. UNCHANGED <<generation, active, timer, calls, order>>
  BY DEF Open, Leave, SaveEnds, SaveFails
<1>2. sink' \in BOOLEAN
  BY DEF Open, Leave, SaveEnds, SaveFails, IInv, Typed
<1>3. \/ shown' = shown \/ shown' = [shown EXCEPT !.deliveredToUi = TRUE]
      \/ shown' = [shown EXCEPT !.persistedFallback = TRUE]
  BY DEF Open, Leave, SaveEnds, SaveFails
<1>4. /\ shown' \in Shown /\ shown'.phase = shown.phase
      /\ shown'.code = shown.code /\ shown'.key = shown.key
  BY <1>3 DEF IInv, Typed, Shown
<1> QED
  BY <1>1, <1>2, <1>4, PageKeeps

LEMMA StepKeeps == IInv /\ [PurchaseNext]_purchaseVars => IInv'
<1> SUFFICES ASSUME IInv, [PurchaseNext]_purchaseVars PROVE IInv'
  OBVIOUS
<1>1. CASE \E subscription, renew \in BOOLEAN : Start(subscription, renew)
  BY <1>1, StartKeeps
<1>2. ASSUME NEW c \in calls, Created(c) \/ CreateFails(c) PROVE IInv'
  BY <1>2, CreatedKeeps, CreateFailsKeeps
<1>3. ASSUME NEW c \in calls, PollAnswer(c) \/ PollFails(c) \/ PollRefused(c) PROVE IInv'
  BY <1>3, PollAnswerKeeps, PollFailsKeeps
<1>4. ASSUME NEW c \in calls, RedeemAnswer(c) \/ RedeemFails(c) PROVE IInv'
  BY <1>4, RedeemAnswerKeeps, RedeemFailsKeeps
<1>5. ASSUME NEW o \in Orders, Pay(o) \/ WindowPasses(o) \/ CallOff(o) PROVE IInv'
  BY <1>5, BecomesKeeps DEF Pay, WindowPasses, CallOff, Statuses
<1>6. CASE Poll \/ PollDeadline
  BY <1>6, PollKeeps, PollDeadlineKeeps
<1>7. CASE \E renew \in BOOLEAN : retryRedeem(renew)
  BY <1>7, RetryRedeemKeeps
<1>8. CASE Dismiss
  BY <1>8, DismissKeeps
<1>9. CASE Open \/ Leave \/ \E s \in saves : SaveEnds(s) \/ SaveFails(s)
  BY <1>9, OpenKeeps
<1>10. CASE UNCHANGED purchaseVars
  <2>1. Mine' = Mine
    BY <1>10 DEF Mine, purchaseVars
  <2> QED
    BY <1>10, <2>1 DEF IInv, Typed, CallsArePast, OrderOnHand, OneActivity, ShownIsCurrent,
                       purchaseVars
<1> QED
  BY <1>1, <1>2, <1>3, <1>4, <1>5, <1>6, <1>7, <1>8, <1>9, <1>10 DEF PurchaseNext

(* The invariant holds throughout.                                           *)
THEOREM InvariantHolds == PurchaseSpec => []IInv
<1> QED
  BY InitHolds, StepKeeps, PTL DEF PurchaseSpec

(* A purchase that waits has one timer or one call under way, the one its    *)
(* phase waits for, and one that does not wait has none (purchaseStore.ts:   *)
(* the timer, the generation and the phases).                                *)
THEOREM ActivitySafety == PurchaseSpec => []OneActivity
<1>1. IInv => OneActivity
  BY DEF IInv
<1> QED
  BY <1>1, InvariantHolds, PTL

(* The code and the key on display are those of the order on hand, whatever  *)
(* answers of purchases that were dismissed come in (the generation, :132).  *)
THEOREM DisplaySafety == PurchaseSpec => []ShownIsCurrent
<1>1. IInv => ShownIsCurrent
  BY DEF IInv
<1> QED
  BY <1>1, InvariantHolds, PTL

(* ---- the key ---- *)

(* The key on display is the one delivered last, and while no save failed or *)
(* met another, that one is being saved or saved.                            *)
KeyShown == shown.key \in {None, newest}
KeyUnderWay == (\A s \in saves : s.key = newest) /\ (saves = {} => saved = newest)
KeyInv == KeyShown /\ (spoiled \/ newest = None \/ KeyUnderWay)

LEMMA KeyDelivered ==
  ASSUME Typed, KeyInv, NEW k, deliverKey(k)
  PROVE  KeyInv'
<1>1. /\ newest' = k /\ saved' = saved /\ spoiled' = (spoiled \/ saves # {})
      /\ saves' = saves \cup {[key |-> k, fallback |-> ~sink]}
  BY DEF deliverKey, SaveKey
<1>2. shown'.key = k
  BY DEF deliverKey, Typed, Shown
<1>3. ASSUME ~spoiled' PROVE KeyUnderWay'
  <2>1. saves = {}
    BY <1>1, <1>3, Zenon
  <2>2. saves' = {[key |-> k, fallback |-> ~sink]}
    BY <1>1, <2>1, Zenon
  <2>3. [key |-> k, fallback |-> ~sink].key = k
    OBVIOUS
  <2> QED
    BY <1>1, <2>2, <2>3 DEF KeyUnderWay
<1>4. KeyShown'
  BY <1>1, <1>2 DEF KeyShown
<1> QED
  BY <1>3, <1>4 DEF KeyInv

(* Steps that leave key and saves alone, or take the key off display.        *)
LEMMA KeyUntouched ==
  ASSUME KeyInv, UNCHANGED <<saved, saves, newest, spoiled>>, shown'.key \in {None, shown.key}
  PROVE  KeyInv'
BY DEF KeyInv, KeyShown, KeyUnderWay

LEMMA KeyStep == IInv /\ KeyInv /\ [PurchaseNext]_purchaseVars => KeyInv'
<1> SUFFICES ASSUME IInv, KeyInv, [PurchaseNext]_purchaseVars PROVE KeyInv'
  OBVIOUS
<1> USE DEF pageVars
<1>0. Typed /\ shown \in Shown
  BY DEF IInv, Typed
<1>1. CASE \E subscription, renew \in BOOLEAN : Start(subscription, renew)
  BY <1>1, KeyUntouched DEF Start, Idle
<1>2. ASSUME NEW c \in calls, Created(c) \/ CreateFails(c) PROVE KeyInv'
  <2>1. shown' = shown \/ \E phase \in Phases : shown' = [shown EXCEPT !.phase = phase]
    BY <1>2 DEF Created, CreateFails, Fail, Phases
  <2>2. shown'.key = shown.key
    BY <1>0, <2>1 DEF Shown
  <2> QED
    BY <1>2, <2>2, KeyUntouched DEF Created, CreateFails
<1>3. ASSUME NEW c \in calls, PollAnswer(c) PROVE KeyInv'
  <2>1. CASE ~Current(c)
    BY <1>3, <2>1, KeyUntouched DEF PollAnswer
  <2>2. CASE Current(c) /\ deliverKey(c.order)
    BY <1>0, <2>2, KeyDelivered
  <2>3. CASE Current(c) /\ ~deliverKey(c.order)
    <3>1. HandleResult(c) /\ ~deliverKey(c.order)
      BY <1>3, <2>3 DEF PollAnswer
    <3>2. \/ shown' = shown
          \/ \E phase \in Phases : shown' = [shown EXCEPT !.phase = phase]
          \/ shown' = [shown EXCEPT !.phase = "redeeming", !.code = c.order,
                                    !.renew = shown.renew]
      BY <3>1 DEF HandleResult, redeemCode, Delivered, Fail, Phases
    <3>3. shown'.key = shown.key
      BY <1>0, <3>2 DEF Shown
    <3> QED
      BY <3>1, <3>3, KeyUntouched DEF HandleResult
  <2> QED
    BY <2>1, <2>2, <2>3
<1>4. ASSUME NEW c \in calls, PollFails(c) \/ PollRefused(c) PROVE KeyInv'
  <2>1. shown' = shown \/ shown' = [shown EXCEPT !.phase = "failed"]
    BY <1>4 DEF PollFails, PollRefused, Fail
  <2>2. shown'.key = shown.key
    BY <1>0, <2>1 DEF Shown
  <2> QED
    BY <1>4, <2>2, KeyUntouched DEF PollFails, PollRefused
<1>5. ASSUME NEW c \in calls, RedeemAnswer(c) PROVE KeyInv'
  <2>1. CASE ~Current(c)
    BY <1>5, <2>1, KeyUntouched DEF RedeemAnswer
  <2>2. CASE Current(c) /\ ~c.renew
    BY <1>0, <1>5, <2>2, KeyDelivered DEF RedeemAnswer
  <2>3. CASE Current(c) /\ c.renew
    <3>1. shown' = [shown EXCEPT !.phase = "done"]
      BY <1>5, <2>3 DEF RedeemAnswer
    <3>2. shown'.key = shown.key
      BY <1>0, <3>1 DEF Shown
    <3> QED
      BY <1>5, <2>3, <3>2, KeyUntouched DEF RedeemAnswer
  <2> QED
    BY <2>1, <2>2, <2>3
<1>6. ASSUME NEW c \in calls, RedeemFails(c) PROVE KeyInv'
  <2>1. shown' = shown \/ shown' = [shown EXCEPT !.phase = "redeem_failed"]
    BY <1>6 DEF RedeemFails
  <2>2. shown'.key = shown.key
    BY <1>0, <2>1 DEF Shown
  <2> QED
    BY <1>6, <2>2, KeyUntouched DEF RedeemFails
<1>7. ASSUME NEW o \in Orders, Pay(o) \/ WindowPasses(o) \/ CallOff(o) PROVE KeyInv'
  BY <1>7, KeyUntouched DEF Pay, WindowPasses, CallOff, Becomes
<1>8. CASE Poll
  BY <1>8, KeyUntouched DEF Poll
<1>9. CASE PollDeadline
  <2>1. shown'.key = shown.key
    BY <1>0, <1>9 DEF PollDeadline, Fail, Shown
  <2> QED
    BY <1>9, <2>1, KeyUntouched DEF PollDeadline
<1>10. ASSUME NEW renew \in BOOLEAN, retryRedeem(renew) PROVE KeyInv'
  <2>1. shown'.key = shown.key
    BY <1>0, <1>10 DEF retryRedeem, redeemCode, Shown
  <2> QED
    BY <1>10, <2>1, KeyUntouched DEF retryRedeem
<1>11. CASE Dismiss
  BY <1>11, KeyUntouched DEF Dismiss, Idle
<1>12. CASE Open
  <2>1. CASE UNCHANGED <<shown, field, saves, spoiled>>
    BY <1>12, <2>1, KeyUntouched DEF Open
  <2>2. CASE ~UNCHANGED <<shown, field, saves, spoiled>>
    <3>1. /\ shown.key # None /\ shown' = [shown EXCEPT !.deliveredToUi = TRUE]
          /\ saves' = saves \cup {[key |-> shown.key, fallback |-> FALSE]}
          /\ spoiled' = (spoiled \/ saves # {}) /\ UNCHANGED <<saved, newest>>
      BY <1>12, <2>2 DEF Open, SaveKey
    <3>2. shown'.key = shown.key /\ shown.key = newest
      BY <1>0, <3>1 DEF Shown, KeyInv, KeyShown, KeyUnderWay
    <3>3. ASSUME ~spoiled' PROVE KeyUnderWay'
      <4>1. saves = {}
        BY <3>1, <3>3, Zenon
      <4>2. saves' = {[key |-> newest, fallback |-> FALSE]}
        BY <3>1, <3>2, <4>1, Zenon
      <4>3. newest' = newest
        BY <3>1, Zenon
      <4>4. [key |-> newest, fallback |-> FALSE].key = newest
        OBVIOUS
      <4>5. (\A s \in saves' : s.key = newest) /\ saves' # {}
        BY <4>2, <4>4
      <4> QED
        BY <4>3, <4>5 DEF KeyUnderWay
    <3>4. KeyShown'
      BY <3>1, <3>2 DEF KeyShown
    <3> QED
      BY <3>3, <3>4 DEF KeyInv
  <2> QED
    BY <2>1, <2>2
<1>13. CASE Leave
  BY <1>13, KeyUntouched DEF Leave
<1>14. ASSUME NEW s \in saves, SaveEnds(s) PROVE KeyInv'
  <2>1. shown' = shown \/ shown' = [shown EXCEPT !.persistedFallback = TRUE]
    BY <1>14 DEF SaveEnds
  <2>2. shown'.key = shown.key
    BY <1>0, <2>1 DEF Shown
  <2>3. saved' = s.key /\ saves' = saves \ {s} /\ UNCHANGED <<newest, spoiled>>
    BY <1>14 DEF SaveEnds
  <2> QED
    BY <2>2, <2>3 DEF KeyInv, KeyShown, KeyUnderWay
<1>15. ASSUME NEW s \in saves, SaveFails(s) PROVE KeyInv'
  BY <1>15 DEF SaveFails, KeyInv, KeyShown, KeyUnderWay
<1>16. CASE UNCHANGED purchaseVars
  BY <1>16, KeyUntouched DEF purchaseVars
<1> QED
  BY <1>1, <1>2, <1>3, <1>4, <1>5, <1>6, <1>7, <1>8, <1>9, <1>10, <1>11, <1>12, <1>13, <1>14,
     <1>15, <1>16 DEF PurchaseNext

(* "A paid key must never be lost" (purchaseStore.ts:45): while no save      *)
(* fails or meets another, the key delivered last is being saved or saved.   *)
THEOREM KeySafety == PurchaseSpec => []KeyIsKept
<1>1. PurchaseInit => KeyInv
  BY DEF PurchaseInit, KeyInv, KeyShown, Idle
<1>2. KeyInv => KeyIsKept
  <2> SUFFICES ASSUME KeyInv, newest # None, ~spoiled
               PROVE  saved = newest \/ \E s \in saves : s.key = newest
    BY DEF KeyIsKept
  <2> QED
    BY DEF KeyInv, KeyShown, KeyUnderWay
<1> QED
  BY <1>1, <1>2, KeyStep, InvariantHolds, PTL DEF PurchaseSpec

(* ---- the changes of the configuration (ConfigSaves) ---- *)

(* What is known of the values besides TypeOK: a call is at a step of its    *)
(* command and about a section that the command changes.                     *)
Task == [kind : {"none", "save", "active", "overlay"}, section : Sections, value : BOOLEAN,
         cfg : Configs, changed : BOOLEAN,
         pc : {"idle", "persist", "read", "write", "reply", "lock", "refresh", "backfill",
               "set", "failed", "done"}]
Steps(kind) ==
  CASE kind = "none"    -> {"idle", "done"}
    [] kind = "save"    -> {"persist", "read", "write", "reply"}
    [] kind = "active"  -> {"lock", "refresh", "backfill"}
    [] kind = "overlay" -> {"set", "persist", "reply", "failed"}
CallsFine ==
  /\ call \in [Calls -> Task]
  /\ \A c \in Calls :
       /\ call[c].pc \in Steps(call[c].kind)
       /\ call[c].kind \in {"active", "overlay"} => call[c].section = call[c].kind

Types ==
  TypeOK /\ CallsFine /\ events \in Seq(BOOLEAN) /\ starting \in Seq({"save", "boot"})

(* RunsWhatIsSaved, strengthened: while no two saves cross, a save knows     *)
(* whether the capture must be restarted, and a restart that is due is       *)
(* spawned; and no bot manager runs or starts that was not claimed.          *)
RunsInv ==
  /\ managers + Len(starting) <= 1
  /\ ~managerStarted => managers = 0 /\ starting = <<>>
  /\ ~savesCrossed =>
       /\ \A b, c \in Calls : call[b].kind = "save" /\ call[c].kind = "save" => b = c
       /\ \A c \in Calls : call[c].pc = "write" => call[c].changed = CaptureChanged(c)
       /\ restarts = 0 => running = memory["capture"]

(* SavedIsKept, strengthened with what holds at each step of the only call   *)
(* under way.  Only of a section that is not unsure is it known what was     *)
(* saved, and only the page's overlay switch may differ from the memory.     *)
Sure == Sections \ unsure
Known == IF "overlay" \in unsure THEN Sections \ {"overlay"} ELSE Sections
Same(f, g, A) == \A s \in A : f[s] = g[s]

(* Memory and file are what was saved.                                       *)
Kept == Same(memory, wanted, Sure) /\ Same(file, wanted, Sure)

AtRest ==
  /\ Kept
  /\ \/ events = <<>> /\ Same(store, memory, Known)
     \/ events = <<memory["overlay"]>> /\ Same(store, memory, Sections \ {"overlay"})

(* What update_config has been given to write.                               *)
Given(k) == Same(k.cfg, wanted, Sure \ {k.section}) /\ k.cfg[k.section] = k.value
Told(k) == events \in {<<>>, <<k.cfg["overlay"]>>}

Saving(k) ==
  /\ k.pc = "persist" => Kept /\ Given(k) /\ Same(store, memory, Known)
  /\ k.pc \in {"read", "write", "reply"} => Given(k) /\ file = k.cfg
  /\ k.pc = "reply" => memory = k.cfg /\ Told(k)
  /\ k.pc # "reply" => events = <<>>
Activating(k) ==
  Kept /\ events = <<>> /\ (k.pc = "backfill" => k.cfg = memory)
Overlaying(k) ==
  /\ Same(store, memory, Sections \ {"overlay"})
  /\ k.pc \in {"set", "failed"} => Kept
  /\ k.pc \in {"set", "persist"} => store["overlay"] = k.value
  /\ k.pc = "persist" =>
       k.cfg = memory /\ Given(k) /\ Same(file, wanted, Sure)
  /\ k.pc = "reply" => unsure = {} /\ k.cfg = memory /\ Kept /\ store = memory /\ Told(k)
  /\ k.pc = "failed" => "overlay" \in unsure
  /\ k.pc # "reply" => events = <<>>

KeptInv ==
  ~crossed =>
    /\ \A b, c \in Busy : b = c
    /\ Busy = {} => AtRest
    /\ \A c \in Busy :
         CASE call[c].kind = "save" -> Saving(call[c])
           [] call[c].kind = "active" -> Activating(call[c])
           [] call[c].kind = "overlay" -> Overlaying(call[c])

LEMMA SectionsAre == Sections = {"bot", "active", "api", "capture", "overlay"}
<1>1. DOMAIN Order = 1..5 /\ 1..5 = {1, 2, 3, 4, 5}
  BY DEF Order
<1>2. Order[1] = "bot" /\ Order[2] = "active" /\ Order[3] = "api" /\ Order[4] = "capture"
      /\ Order[5] = "overlay"
  BY DEF Order
<1>. QED
  BY <1>1, <1>2 DEF Sections

LEMMA DefaultType == Default \in Configs
BY DEF Default, Configs

LEMMA NoCallType == NoCall \in Task /\ [NoCall EXCEPT !.pc = "done"] \in Task
BY DefaultType, SectionsAre DEF NoCall, Task

(* What is left of a file is a configuration.                                *)
LEMMA TornType ==
  ASSUME NEW cfg \in Configs, NEW n
  PROVE  Torn(cfg, n) \in Configs
BY DEF Torn, Configs, Default

(* A call goes on at another step, or ends.                                  *)
LEMMA GoesOn ==
  ASSUME Types, NEW c \in Calls, NEW pc, Goes(c, pc), pc \in Steps(call[c].kind), pc # "done"
  PROVE  /\ CallsFine'
         /\ \A b \in Calls \ {c} : call'[b] = call[b]
         /\ call'[c].pc = pc /\ call'[c].kind = call[c].kind
         /\ call'[c].section = call[c].section /\ call'[c].value = call[c].value
         /\ call'[c].cfg = call[c].cfg /\ call'[c].changed = call[c].changed
<1>1. call' = [call EXCEPT ![c].pc = pc]
  BY DEF Goes
<1>2. pc \in {"idle", "persist", "read", "write", "reply", "lock", "refresh", "backfill",
              "set", "failed", "done"}
  <2>1. call[c].kind \in {"none", "save", "active", "overlay"}
    BY DEF Types, CallsFine, Task
  <2>. QED
    BY <2>1 DEF Steps
<1>3. call \in [Calls -> Task] /\ call' \in [Calls -> Task]
  BY <1>1, <1>2 DEF Types, CallsFine, Task
<1>4. /\ \A b \in Calls \ {c} : call'[b] = call[b]
      /\ call'[c] = [call[c] EXCEPT !.pc = pc]
  BY <1>1, <1>3
<1>5. /\ call'[c].pc = pc /\ call'[c].kind = call[c].kind
      /\ call'[c].section = call[c].section /\ call'[c].value = call[c].value
      /\ call'[c].cfg = call[c].cfg /\ call'[c].changed = call[c].changed
  BY <1>3, <1>4 DEF Task
<1>. QED
  BY <1>3, <1>4, <1>5 DEF Types, CallsFine

LEMMA GoesDone ==
  ASSUME Types, NEW c \in Calls, Goes(c, "done")
  PROVE  /\ CallsFine' /\ \A b \in Calls \ {c} : call'[b] = call[b]
         /\ call'[c].pc = "done" /\ call'[c].kind = "none"
<1>1. call' = [call EXCEPT ![c] = [NoCall EXCEPT !.pc = "done"]]
  BY DEF Goes
<1>2. [NoCall EXCEPT !.pc = "done"].pc = "done" /\ [NoCall EXCEPT !.pc = "done"].kind = "none"
  BY DEF NoCall
<1>3. call \in [Calls -> Task] /\ call' \in [Calls -> Task]
  BY <1>1, NoCallType DEF Types, CallsFine
<1>4. /\ \A b \in Calls \ {c} : call'[b] = call[b]
      /\ call'[c].pc = "done" /\ call'[c].kind = "none"
  BY <1>1, <1>2, <1>3
<1>. QED
  BY <1>3, <1>4 DEF Types, CallsFine, Steps

(* A call at a step is of a kind that has that step.                         *)
LEMMA StepsOf ==
  ASSUME Types, NEW c \in Calls
  PROVE  /\ call[c] \in Task
         /\ call[c].pc \in {"read", "write"} => call[c].kind = "save"
         /\ call[c].pc \in {"lock", "refresh", "backfill"} => call[c].kind = "active"
         /\ call[c].pc \in {"set", "failed"} => call[c].kind = "overlay"
         /\ call[c].pc = "persist" => call[c].kind \in {"save", "overlay"}
         /\ call[c].pc \in Ended <=> call[c].kind = "none"
         /\ call[c].kind \in {"active", "overlay"} => call[c].section = call[c].kind
         /\ Steps("save") = {"persist", "read", "write", "reply"}
         /\ Steps("active") = {"lock", "refresh", "backfill"}
         /\ Steps("overlay") = {"set", "persist", "reply", "failed"}
<1>1. call[c] \in Task /\ call[c].pc \in Steps(call[c].kind)
  BY DEF Types, CallsFine
<1>2. call[c].kind \in {"none", "save", "active", "overlay"}
  BY <1>1 DEF Task
<1>3. call[c].kind \in {"active", "overlay"} => call[c].section = call[c].kind
  BY DEF Types, CallsFine
<1>. QED
  BY <1>1, <1>2, <1>3 DEF Steps, Ended

(* The answer to a command that wrote a configuration.                       *)
LEMMA AcknowledgedType ==
  ASSUME Types, NEW c \in Calls, NEW cfg \in Configs, Acknowledged(c, cfg)
  PROVE  wanted' \in Configs /\ unsure' = {}
<1>1. wanted \in Configs /\ call[c].value \in BOOLEAN
  BY StepsOf DEF Types, TypeOK, Task
<1>. QED
  BY <1>1 DEF Acknowledged, Configs

LEMMA WriteFailsType ==
  ASSUME Types, NEW c \in Calls, NEW cfg \in Configs, WriteFails(c, cfg)
  PROVE  file' \in Configs /\ unsure' \subseteq Sections /\ wanted' = wanted
<1>1. file \in Configs /\ unsure \subseteq Sections /\ call[c].section \in Sections
  BY StepsOf DEF Types, TypeOK, Task
<1>2. \A n \in 0..Len(Order) - 1 : Torn(cfg, n) \in Configs
  BY TornType
<1>. QED
  BY <1>1, <1>2 DEF WriteFails

(* The program starts from a configuration.                                  *)
LEMMA StartType ==
  ASSUME Types, NEW cfg \in Configs, StartFrom(cfg), wanted' \in Configs
  PROVE  /\ Types' /\ Busy' = {}
         /\ \A c \in Calls : call'[c].kind = "none"
<1>1. /\ crashes' \in 0..MaxCrashes /\ file' = cfg /\ memory' = cfg /\ store' = cfg
      /\ events' = <<>> /\ restarts' = 0 /\ managers' = 0 /\ unsure' = {}
      /\ savesCrossed' = FALSE /\ crossed' = FALSE
      /\ running' = cfg["capture"] /\ managerStarted' = cfg["bot"]
  BY ChangeableAssumption DEF StartFrom, Types, TypeOK
<1>2. cfg["capture"] \in BOOLEAN /\ cfg["bot"] \in BOOLEAN
  BY SectionsAre DEF Configs
<1>3. starting' \in Seq({"save", "boot"})
  <2>1. starting' = <<"boot">> \/ starting' = <<>>
    BY DEF StartFrom
  <2>2. <<"boot">> \in Seq({"save", "boot"}) /\ <<>> \in Seq({"save", "boot"})
    OBVIOUS
  <2>. QED
    BY <2>1, <2>2
<1>4. \A c \in Calls : call'[c] = NoCall \/ call'[c] = [NoCall EXCEPT !.pc = "done"]
  BY DEF StartFrom
<1>5. \A c \in Calls : call'[c].kind = "none" /\ call'[c].pc \in {"idle", "done"}
  BY <1>4 DEF NoCall
<1>6. call' \in [Calls -> Task]
  BY <1>4, NoCallType DEF StartFrom
<1>7. CallsFine'
  BY <1>5, <1>6 DEF CallsFine, Steps
<1>8. Busy' = {}
  BY <1>5 DEF Busy, Ended
<1>9. {file', memory', store', wanted'} \subseteq Configs /\ unsure' \subseteq Sections
  BY <1>1
<1>10. {running', managerStarted', savesCrossed', crossed'} \subseteq BOOLEAN
  BY <1>1, <1>2
<1>11. restarts' \in Nat /\ managers' \in Nat /\ crashes' \in 0..MaxCrashes
  BY <1>1
<1>12. TypeOK'
  BY <1>9, <1>10, <1>11 DEF TypeOK
<1>13. events' \in Seq(BOOLEAN)
  BY <1>1
<1>. QED
  BY <1>3, <1>5, <1>7, <1>8, <1>12, <1>13 DEF Types

(* A configuration with one section changed.                                 *)
LEMMA ChangedType ==
  ASSUME NEW f \in Configs, NEW s \in Sections, NEW v \in BOOLEAN
  PROVE  /\ f[s] \in BOOLEAN /\ (~f[s]) \in BOOLEAN /\ (~v) \in BOOLEAN
         /\ [f EXCEPT ![s] = v] \in Configs /\ [f EXCEPT ![s] = ~f[s]] \in Configs
<1>1. f[s] \in BOOLEAN
  BY DEF Configs
<1>2. (~f[s]) \in BOOLEAN /\ (~v) \in BOOLEAN
  BY Zenon
<1>3. \A w \in BOOLEAN : [f EXCEPT ![s] = w] \in Configs
  BY DEF Configs
<1>. QED
  BY <1>1, <1>2, <1>3

(* A call whose record is replaced.                                          *)
LEMMA CallReplaced ==
  ASSUME CallsFine, NEW c \in Calls, NEW k \in Task, call' = [call EXCEPT ![c] = k],
         k.pc \in Steps(k.kind), k.kind \in {"active", "overlay"} => k.section = k.kind
  PROVE  CallsFine' /\ call'[c] = k /\ \A b \in Calls \ {c} : call'[b] = call[b]
BY DEF CallsFine

LEMMA TypesInductive == Types /\ [Next]_vars => Types'
<1>. SUFFICES ASSUME Types, [Next]_vars
              PROVE  Types'
  OBVIOUS
<1>0. /\ {file, memory, store, wanted} \subseteq Configs /\ unsure \subseteq Sections
      /\ {running, managerStarted, savesCrossed, crossed} \subseteq BOOLEAN
      /\ restarts \in Nat /\ managers \in Nat /\ crashes \in 0..MaxCrashes
      /\ events \in Seq(BOOLEAN) /\ starting \in Seq({"save", "boot"})
      /\ CallsFine /\ call \in [Calls -> Task]
      /\ file \in Configs /\ memory \in Configs /\ store \in Configs
      /\ managerStarted \in BOOLEAN
  BY DEF Types, TypeOK, CallsFine
<1>. USE DEF backendVars, historyVars
<1>1. ASSUME NEW c \in Calls, NEW kind \in {"save", "active", "overlay"}, NEW s \in Sections,
             NEW value \in BOOLEAN, NEW cfg \in Configs,
             NEW pc \in {"persist", "lock", "set"}, Begin(c, kind, s, value, cfg, pc),
             pc \in Steps(kind), kind \in {"active", "overlay"} => s = kind, store' \in Configs
      PROVE  Types'
  <2>. DEFINE k == [kind |-> kind, section |-> s, value |-> value,
                    cfg |-> cfg, pc |-> pc, changed |-> FALSE]
  <2>1. k \in Task /\ k.pc = pc /\ k.kind = kind /\ k.section = s
    BY <1>1 DEF Task
  <2>2. call' = [call EXCEPT ![c] = k]
    BY <1>1 DEF Begin
  <2>. HIDE DEF k
  <2>3. CallsFine'
    BY <1>0, <1>1, <2>1, <2>2 DEF CallsFine
  <2>4. crossed' \in BOOLEAN /\ savesCrossed' \in BOOLEAN
    BY <1>0, <1>1 DEF Begin
  <2>. QED
    BY <1>0, <1>1, <2>3, <2>4 DEF Begin, Types, TypeOK
<1>2. ASSUME NEW c \in Calls, NEW s \in Changeable, Save(c, s)
      PROVE  Types'
  <2>1. s \in Sections /\ (~store[s]) \in BOOLEAN /\ [store EXCEPT ![s] = ~store[s]] \in Configs
    <3>1. s \in Sections /\ store \in Configs
      BY <1>0, ChangeableAssumption
    <3>. QED
      BY <3>1, ChangedType, Zenon
  <2>2. "persist" \in Steps("save")
    BY DEF Steps
  <2>. QED
    BY <1>0, <1>1, <1>2, <2>1, <2>2 DEF Save
<1>3. ASSUME NEW c \in Calls, SetActive(c)
      PROVE  Types'
  <2>1. "active" \in Sections /\ (~store["active"]) \in BOOLEAN /\ Default \in Configs
        /\ store' \in Configs
    <3>1. "active" \in Sections /\ store \in Configs
      BY <1>0, SectionsAre
    <3>2. (~store["active"]) \in BOOLEAN /\ [store EXCEPT !["active"] = ~store["active"]] \in Configs
      BY <3>1, ChangedType, Zenon
    <3>. QED
      BY <1>3, <3>1, <3>2, DefaultType DEF SetActive
  <2>2. "lock" \in Steps("active")
    BY DEF Steps
  <2>. QED
    BY <1>1, <1>3, <2>1, <2>2 DEF SetActive
<1>4. ASSUME NEW c \in Calls, ToggleOverlay(c)
      PROVE  Types'
  <2>1. "overlay" \in Sections /\ (~store["overlay"]) \in BOOLEAN /\ Default \in Configs
        /\ store' \in Configs
    <3>1. "overlay" \in Sections /\ store \in Configs
      BY <1>0, SectionsAre
    <3>2. (~store["overlay"]) \in BOOLEAN /\ [store EXCEPT !["overlay"] = ~store["overlay"]] \in Configs
      BY <3>1, ChangedType, Zenon
    <3>. QED
      BY <1>4, <3>1, <3>2, DefaultType DEF ToggleOverlay
  <2>2. "set" \in Steps("overlay")
    BY DEF Steps
  <2>. QED
    BY <1>1, <1>4, <2>1, <2>2 DEF ToggleOverlay
<1>5. ASSUME NEW c \in Calls, Persist(c)
      PROVE  Types'
  <2>1. call[c].cfg \in Configs /\ "read" \in Steps(call[c].kind)
    BY <1>5, StepsOf DEF Persist, Task
  <2>2. CallsFine'
    BY <1>5, <2>1, GoesOn, GoesDone DEF Persist
  <2>3. file' \in Configs /\ unsure' \subseteq Sections /\ wanted' = wanted
    BY <1>0, <1>5, <2>1, WriteFailsType DEF Persist
  <2>. QED
    BY <1>0, <1>5, <2>2, <2>3 DEF Persist, Types, TypeOK
<1>6. ASSUME NEW c \in Calls, ReadOld(c)
      PROVE  Types'
  <2>1. call[c].kind = "save" /\ call[c] \in Task
    BY <1>6, StepsOf DEF ReadOld
  <2>2. CaptureChanged(c) \in BOOLEAN
    BY DEF CaptureChanged
  <2>3. call' = [call EXCEPT ![c] = [call[c] EXCEPT !.pc = "write", !.changed = CaptureChanged(c)]]
    BY <1>0, <1>6, <2>1 DEF ReadOld, Task
  <2>. DEFINE k == [call[c] EXCEPT !.pc = "write", !.changed = CaptureChanged(c)]
  <2>4. k \in Task /\ k.pc = "write" /\ k.kind = "save" /\ k.pc \in Steps(k.kind)
    BY <2>1, <2>2, StepsOf DEF Task
  <2>5. CallsFine'
    BY <1>0, <2>3, <2>4, CallReplaced
  <2>. QED
    BY <1>0, <1>6, <2>5 DEF ReadOld, Types, TypeOK
<1>7. ASSUME NEW c \in Calls, WriteNew(c)
      PROVE  Types'
  <2>1. call[c].cfg \in Configs /\ "reply" \in Steps(call[c].kind) /\ call[c].cfg["overlay"] \in BOOLEAN
    BY <1>7, StepsOf, SectionsAre DEF WriteNew, Task, Configs
  <2>2. CallsFine'
    BY <1>7, <2>1, GoesOn DEF WriteNew
  <2>3. restarts' \in Nat /\ events' \in Seq(BOOLEAN) /\ managerStarted' \in BOOLEAN
        /\ starting' \in Seq({"save", "boot"})
    <3>1. restarts' \in Nat /\ events' \in Seq(BOOLEAN)
      BY <1>0, <1>7, <2>1 DEF WriteNew, OverlayEvent
    <3>2. managerStarted' \in BOOLEAN
      BY <1>0, <1>7 DEF WriteNew
    <3>3. starting' = Append(starting, "save") \/ starting' = starting
      BY <1>7 DEF WriteNew
    <3>4. starting' \in Seq({"save", "boot"})
      BY <1>0, <3>3
    <3>. QED
      BY <3>1, <3>2, <3>4
  <2>. QED
    BY <1>0, <1>7, <2>1, <2>2, <2>3 DEF WriteNew, Types, TypeOK
<1>8. ASSUME NEW c \in Calls, Reply(c)
      PROVE  Types'
  <2>1. call[c].cfg \in Configs
    BY StepsOf DEF Task
  <2>2. CallsFine' /\ wanted' \in Configs /\ unsure' = {}
    BY <1>8, <2>1, GoesDone, AcknowledgedType DEF Reply
  <2>. QED
    BY <1>0, <1>8, <2>1, <2>2 DEF Reply, Types, TypeOK
<1>9. ASSUME NEW c \in Calls, Lock(c)
      PROVE  Types'
  <2>1. Activated(c) \in Configs /\ "refresh" \in Steps(call[c].kind)
    BY <1>0, <1>9, StepsOf DEF Lock, Activated, Configs, Task
  <2>2. CallsFine'
    BY <1>9, <2>1, GoesOn DEF Lock
  <2>3. memory' \in Configs /\ file' \in Configs /\ wanted' \in Configs /\ unsure' \subseteq Sections
    <3>1. CASE UNCHANGED <<file, memory, wanted, unsure>>
      BY <1>0, <3>1
    <3>2. CASE memory' = Activated(c) /\ file' = memory' /\ Acknowledged(c, memory')
      BY <2>1, <3>2, AcknowledgedType
    <3>3. CASE memory' = Activated(c) /\ WriteFails(c, Activated(c))
      BY <1>0, <2>1, <3>3, WriteFailsType
    <3>. QED
      BY <1>9, <3>1, <3>2, <3>3 DEF Lock
  <2>. QED
    BY <1>0, <1>9, <2>2, <2>3 DEF Lock, Types, TypeOK
<1>10. ASSUME NEW c \in Calls, GetConfig(c)
       PROVE  Types'
  <2>1. call[c].kind = "active" /\ call[c] \in Task
    BY <1>10, StepsOf DEF GetConfig
  <2>2. call' = [call EXCEPT ![c] = [call[c] EXCEPT !.pc = "backfill", !.cfg = memory]]
    BY <1>0, <1>10, <2>1 DEF GetConfig, Task
  <2>. DEFINE k == [call[c] EXCEPT !.pc = "backfill", !.cfg = memory]
  <2>3. /\ k \in Task /\ k.pc = "backfill" /\ k.kind = "active" /\ k.section = "active"
        /\ k.pc \in Steps(k.kind)
    BY <1>0, <2>1, StepsOf DEF Task
  <2>4. CallsFine'
    BY <1>0, <2>2, <2>3, CallReplaced
  <2>. QED
    BY <1>0, <1>10, <2>4 DEF GetConfig, Types, TypeOK
<1>11. ASSUME NEW c \in Calls, Backfill(c)
       PROVE  Types'
  <2>1. call[c].cfg \in Configs
    BY StepsOf DEF Task
  <2>2. CallsFine'
    BY <1>11, GoesDone DEF Backfill
  <2>. QED
    BY <1>0, <1>11, <2>1, <2>2 DEF Backfill, Types, TypeOK
<1>12. ASSUME NEW c \in Calls, SetOverlay(c)
       PROVE  Types'
  <2>1. call[c].kind = "overlay" /\ call[c] \in Task
    BY <1>12, StepsOf DEF SetOverlay
  <2>2. memory' \in Configs
    BY <1>0, <1>12, <2>1 DEF SetOverlay, Configs, Task
  <2>3. call' = [call EXCEPT ![c] = [call[c] EXCEPT !.pc = "persist", !.cfg = memory']]
    BY <1>0, <1>12, <2>1 DEF SetOverlay, Task
  <2>. DEFINE k == [call[c] EXCEPT !.pc = "persist", !.cfg = memory']
  <2>4. /\ k \in Task /\ k.pc = "persist" /\ k.kind = "overlay" /\ k.section = "overlay"
        /\ k.pc \in Steps(k.kind)
    BY <2>1, <2>2, StepsOf DEF Task
  <2>5. CallsFine'
    BY <1>0, <2>3, <2>4, CallReplaced
  <2>. QED
    BY <1>0, <1>12, <2>2, <2>5 DEF SetOverlay, Types, TypeOK
<1>13. ASSUME NEW c \in Calls, PersistOverlay(c)
       PROVE  Types'
  <2>1. call[c].cfg \in Configs /\ call[c].cfg["overlay"] \in BOOLEAN
        /\ "reply" \in Steps(call[c].kind) /\ "failed" \in Steps(call[c].kind)
    BY <1>13, StepsOf, SectionsAre DEF PersistOverlay, Task, Configs
  <2>2. CallsFine'
    BY <1>13, <2>1, GoesOn DEF PersistOverlay
  <2>3. file' \in Configs /\ wanted' \in Configs /\ unsure' \subseteq Sections
        /\ events' \in Seq(BOOLEAN)
    <3>1. CASE file' = call[c].cfg /\ OverlayEvent(c) /\ Acknowledged(c, call[c].cfg)
      BY <1>0, <2>1, <3>1, AcknowledgedType DEF OverlayEvent
    <3>2. CASE WriteFails(c, call[c].cfg) /\ UNCHANGED events
      BY <1>0, <2>1, <3>2, WriteFailsType
    <3>. QED
      BY <1>13, <3>1, <3>2 DEF PersistOverlay
  <2>. QED
    BY <1>0, <1>13, <2>2, <2>3 DEF PersistOverlay, Types, TypeOK
<1>14. ASSUME NEW c \in Calls, OverlayReply(c)
       PROVE  Types'
  <2>1. call[c].value \in BOOLEAN
    BY StepsOf DEF Task
  <2>2. store \in Configs /\ (~call[c].value) \in BOOLEAN /\ "overlay" \in Sections
    BY <1>0, <2>1, SectionsAre, ChangedType
  <2>3. CallsFine' /\ store' \in Configs
    BY <1>14, <2>2, GoesDone, ChangedType DEF OverlayReply
  <2>. QED
    BY <1>0, <1>14, <2>3 DEF OverlayReply, Types, TypeOK
<1>15. ASSUME NEW c \in Calls, CrashInWrite(c)
       PROVE  Types'
  <2>1. Payload(c) \in Configs
    BY <1>0, StepsOf DEF Payload, Activated, Configs, Task
  <2>. QED
    BY <1>15, <2>1, TornType, StartType DEF CrashInWrite
<1>16. CASE DeliverEvent
  <2>1. Head(events) \in BOOLEAN /\ events' \in Seq(BOOLEAN)
    BY <1>0, <1>16 DEF DeliverEvent
  <2>2. store' \in Configs
    BY <1>0, <1>16, <2>1 DEF DeliverEvent, Configs
  <2>. QED
    BY <1>0, <1>16, <2>1, <2>2 DEF DeliverEvent, CallsFine, Types, TypeOK
<1>17. CASE Restart
  <2>1. restarts' \in Nat /\ running' \in BOOLEAN
    BY <1>0, <1>17, SectionsAre DEF Restart, Configs
  <2>. QED
    BY <1>0, <1>17, <2>1 DEF Restart, CallsFine, Types, TypeOK
<1>18. CASE SetUp
  <2>1. starting' \in Seq({"save", "boot"}) /\ managers' \in Nat /\ managerStarted' \in BOOLEAN
    <3>1. starting # <<>> /\ starting' = Tail(starting)
      BY <1>18 DEF SetUp
    <3>2. managers' = managers + 1 \/ managers' = managers
      BY <1>18 DEF SetUp
    <3>3. managerStarted' \in {managerStarted, FALSE}
      BY <1>18 DEF SetUp
    <3>4. starting' \in Seq({"save", "boot"})
      BY <1>0, <3>1
    <3>5. managers' \in Nat
      BY <1>0, <3>2
    <3>6. managerStarted' \in BOOLEAN
      BY <1>0, <3>3
    <3>. QED
      BY <3>4, <3>5, <3>6
  <2>. QED
    BY <1>0, <1>18, <2>1 DEF SetUp, CallsFine, Types, TypeOK
<1>19. CASE Crash
  <2>1. wanted' \in Configs
    BY <1>0, <1>19 DEF Crash, Configs
  <2>. QED
    BY <1>0, <1>19, <2>1, StartType DEF Crash
<1>20. CASE UNCHANGED vars
  BY <1>0, <1>20 DEF vars, CallsFine, Types, TypeOK
<1>. QED
  BY <1>2, <1>3, <1>4, <1>5, <1>6, <1>7, <1>8, <1>9, <1>10, <1>11, <1>12, <1>13, <1>14, <1>15,
     <1>16, <1>17, <1>18, <1>19, <1>20 DEF Next

(* A call that moves on without a word about the capture.                    *)
LEMMA RunsMoved ==
  ASSUME Types, RunsInv, NEW c \in Calls, \A b \in Calls \ {c} : call'[b] = call[b],
         call'[c].kind \in {call[c].kind, "none"}, call'[c].pc # "write",
         memory'["capture"] = memory["capture"], savesCrossed' = savesCrossed,
         UNCHANGED backendVars
  PROVE  RunsInv'
<1>1. managers' + Len(starting') <= 1 /\ (~managerStarted' => managers' = 0 /\ starting' = <<>>)
  BY DEF RunsInv, backendVars
<1>2. ASSUME ~savesCrossed'
      PROVE  /\ \A a, b \in Calls : call'[a].kind = "save" /\ call'[b].kind = "save" => a = b
             /\ \A b \in Calls : call'[b].pc = "write" =>
                  call'[b].changed = (memory'["capture"] # call'[b].cfg["capture"])
             /\ restarts' = 0 => running' = memory'["capture"]
  BY <1>2 DEF RunsInv, CaptureChanged, backendVars
<1>. QED
  BY <1>1, <1>2 DEF RunsInv, CaptureChanged

LEMMA RunsInductive == Types /\ RunsInv /\ [Next]_vars => RunsInv'
<1>. SUFFICES ASSUME Types, RunsInv, [Next]_vars
              PROVE  RunsInv'
  OBVIOUS
<1>0. /\ memory \in Configs /\ call \in [Calls -> Task] /\ restarts \in Nat /\ managers \in Nat
      /\ starting \in Seq({"save", "boot"}) /\ unsure \subseteq Sections
  BY DEF Types, TypeOK, CallsFine
<1>1. ASSUME NEW c \in Calls, NEW kind, NEW s, NEW value, NEW cfg, NEW pc \in {"persist", "lock", "set"},
             Begin(c, kind, s, value, cfg, pc)
      PROVE  RunsInv'
  <2>1. /\ call' = [call EXCEPT ![c] = [kind |-> kind, section |-> s, value |-> value,
                                        cfg |-> cfg, pc |-> pc, changed |-> FALSE]]
        /\ savesCrossed' = (savesCrossed \/ (kind = "save" /\ \E b \in Busy : call[b].kind = "save"))
        /\ UNCHANGED <<memory, running, restarts, managers, managerStarted, starting>>
    BY <1>1 DEF Begin, backendVars
  <2>2. /\ \A b \in Calls \ {c} : call'[b] = call[b]
        /\ call'[c].kind = kind /\ call'[c].pc # "write"
    BY <1>0, <2>1
  <2>3. ASSUME ~savesCrossed', NEW b \in Calls \ {c}, kind = "save", call[b].kind = "save"
        PROVE  FALSE
    <3>1. call[b].pc \notin Ended
      BY <2>3, StepsOf
    <3>. QED
      BY <2>1, <2>3, <3>1 DEF Busy
  <2>4. ASSUME ~savesCrossed'
        PROVE  /\ \A a, b \in Calls : call'[a].kind = "save" /\ call'[b].kind = "save" => a = b
               /\ \A b \in Calls : call'[b].pc = "write" =>
                    call'[b].changed = (memory'["capture"] # call'[b].cfg["capture"])
               /\ restarts' = 0 => running' = memory'["capture"]
    <3>1. ~savesCrossed
      BY <2>1, <2>4
    <3>2. \A a, b \in Calls : call'[a].kind = "save" /\ call'[b].kind = "save" => a = b
      BY <2>2, <2>3, <2>4, <3>1 DEF RunsInv
    <3>3. ASSUME NEW b \in Calls, call'[b].pc = "write"
          PROVE  call'[b].changed = (memory'["capture"] # call'[b].cfg["capture"])
      <4>1. call'[b] = call[b] /\ call[b].pc = "write" /\ memory' = memory
        BY <2>1, <2>2, <3>3
      <4>. QED
        BY <3>1, <4>1 DEF RunsInv, CaptureChanged
    <3>4. restarts' = 0 => running' = memory'["capture"]
      BY <2>1, <3>1 DEF RunsInv
    <3>. QED
      BY <3>2, <3>3, <3>4
  <2>. QED
    BY <2>1, <2>4 DEF RunsInv, CaptureChanged
<1>2. ASSUME NEW c \in Calls, SetActive(c) \/ ToggleOverlay(c) \/ \E s \in Changeable : Save(c, s)
      PROVE  RunsInv'
  BY <1>1, <1>2 DEF SetActive, ToggleOverlay, Save
<1>3. ASSUME NEW c \in Calls, Persist(c)
      PROVE  RunsInv'
  <2>1. "read" \in Steps(call[c].kind) /\ "read" # "done"
    BY <1>3, StepsOf DEF Persist
  <2>2. /\ \A b \in Calls \ {c} : call'[b] = call[b]
        /\ call'[c].kind \in {call[c].kind, "none"} /\ call'[c].pc # "write"
    BY <1>3, <2>1, GoesOn, GoesDone DEF Persist
  <2>. QED
    BY <1>3, <2>2, RunsMoved DEF Persist
<1>4. ASSUME NEW c \in Calls, ReadOld(c)
      PROVE  RunsInv'
  <2>1. call' = [call EXCEPT ![c] = [call[c] EXCEPT !.pc = "write", !.changed = CaptureChanged(c)]]
    BY <1>0, <1>4 DEF ReadOld, Task
  <2>2. /\ \A b \in Calls \ {c} : call'[b] = call[b]
        /\ call'[c].kind = call[c].kind /\ call'[c].cfg = call[c].cfg
        /\ call'[c].changed = CaptureChanged(c)
    BY <1>0, <2>1 DEF Task
  <2>3. UNCHANGED <<memory, running, restarts, managers, managerStarted, starting, savesCrossed>>
    BY <1>4 DEF ReadOld, backendVars, historyVars
  <2>. QED
    BY <2>2, <2>3 DEF RunsInv, CaptureChanged
<1>5. ASSUME NEW c \in Calls, WriteNew(c)
      PROVE  RunsInv'
  <2>1. call[c].kind = "save" /\ "reply" \in Steps(call[c].kind) /\ call[c].pc = "write"
    BY <1>5, StepsOf DEF WriteNew
  <2>2. /\ \A b \in Calls \ {c} : call'[b] = call[b]
        /\ call'[c].kind = call[c].kind /\ call'[c].pc = "reply"
    BY <1>5, <2>1, GoesOn DEF WriteNew
  <2>3. /\ memory' = call[c].cfg /\ restarts' = IF call[c].changed THEN restarts + 1 ELSE restarts
        /\ running' = running /\ managers' = managers /\ savesCrossed' = savesCrossed
    BY <1>5 DEF WriteNew, historyVars
  <2>4. managers' + Len(starting') <= 1 /\ (~managerStarted' => managers' = 0 /\ starting' = <<>>)
    <3>1. CASE Claim(call[c].cfg["bot"])
      <4>1. managers = 0 /\ starting = <<>> /\ managerStarted' /\ starting' = Append(<<>>, "save")
        BY <1>5, <3>1 DEF WriteNew, Claim, RunsInv
      <4>2. Len(starting') = 1
        BY <4>1
      <4>. QED
        BY <2>3, <4>1, <4>2
    <3>2. CASE ~Claim(call[c].cfg["bot"])
      BY <1>5, <2>3, <3>2 DEF WriteNew, RunsInv
    <3>. QED
      BY <3>1, <3>2
  <2>5. ASSUME ~savesCrossed'
        PROVE  /\ \A a, b \in Calls : call'[a].kind = "save" /\ call'[b].kind = "save" => a = b
               /\ \A b \in Calls : call'[b].pc # "write"
               /\ restarts' = 0 => running' = memory'["capture"]
    <3>1. \A a, b \in Calls : call'[a].kind = "save" /\ call'[b].kind = "save" => a = b
      BY <2>2, <2>3, <2>5 DEF RunsInv
    <3>2. ASSUME NEW b \in Calls, call'[b].pc = "write"
          PROVE  FALSE
      <4>1. b # c /\ call[b].pc = "write" /\ call[b].kind = "save"
        BY <2>2, <3>2, StepsOf
      <4>. QED
        BY <2>1, <2>3, <2>5, <4>1 DEF RunsInv
    <3>3. restarts' = 0 => running' = memory'["capture"]
      <4>. SUFFICES ASSUME restarts' = 0
                    PROVE  running' = memory'["capture"]
        OBVIOUS
      <4>1. ~call[c].changed /\ restarts = 0
        BY <1>0, <2>3
      <4>2. call[c].changed = CaptureChanged(c) /\ running = memory["capture"]
        BY <2>1, <2>3, <2>5, <4>1 DEF RunsInv
      <4>3. memory["capture"] = call[c].cfg["capture"]
        BY <4>1, <4>2 DEF CaptureChanged
      <4>. QED
        BY <2>3, <4>2, <4>3
    <3>. QED
      BY <3>1, <3>2, <3>3
  <2>. QED
    BY <2>4, <2>5 DEF RunsInv
<1>6. ASSUME NEW c \in Calls, Reply(c) \/ Backfill(c) \/ OverlayReply(c)
      PROVE  RunsInv'
  <2>1. Goes(c, "done") /\ UNCHANGED <<memory, savesCrossed, backendVars>>
    BY <1>6 DEF Reply, Backfill, OverlayReply, historyVars
  <2>2. /\ \A b \in Calls \ {c} : call'[b] = call[b]
        /\ call'[c].kind = "none" /\ call'[c].pc # "write"
    BY <2>1, GoesDone
  <2>. QED
    BY <2>1, <2>2, RunsMoved
<1>7. ASSUME NEW c \in Calls, Lock(c)
      PROVE  RunsInv'
  <2>1. "refresh" \in Steps(call[c].kind) /\ "refresh" # "done"
    BY <1>7, StepsOf DEF Lock
  <2>2. /\ \A b \in Calls \ {c} : call'[b] = call[b]
        /\ call'[c].kind = call[c].kind /\ call'[c].pc # "write"
    BY <1>7, <2>1, GoesOn DEF Lock
  <2>3. memory'["capture"] = memory["capture"]
    BY <1>0, <1>7, SectionsAre DEF Lock, Activated, Configs
  <2>. QED
    BY <1>7, <2>2, <2>3, RunsMoved DEF Lock
<1>8. ASSUME NEW c \in Calls, GetConfig(c) \/ SetOverlay(c)
      PROVE  RunsInv'
  <2>1. /\ \A b \in Calls \ {c} : call'[b] = call[b]
        /\ call'[c].kind = call[c].kind /\ call'[c].pc # "write"
    BY <1>0, <1>8 DEF GetConfig, SetOverlay, Task
  <2>2. memory'["capture"] = memory["capture"]
    BY <1>0, <1>8, SectionsAre DEF GetConfig, SetOverlay, Configs
  <2>. QED
    BY <1>8, <2>1, <2>2, RunsMoved DEF GetConfig, SetOverlay, historyVars
<1>9. ASSUME NEW c \in Calls, PersistOverlay(c)
      PROVE  RunsInv'
  <2>1. "reply" \in Steps(call[c].kind) /\ "failed" \in Steps(call[c].kind)
    BY <1>9, StepsOf DEF PersistOverlay
  <2>2. /\ \A b \in Calls \ {c} : call'[b] = call[b]
        /\ call'[c].kind = call[c].kind /\ call'[c].pc # "write"
    BY <1>9, <2>1, GoesOn DEF PersistOverlay
  <2>. QED
    BY <1>9, <2>2, RunsMoved DEF PersistOverlay
<1>10. ASSUME NEW cfg \in Configs, StartFrom(cfg)
       PROVE  RunsInv'
  <2>1. \A c \in Calls : call'[c].kind = "none" /\ call'[c].pc # "write"
    BY <1>10 DEF StartFrom, NoCall
  <2>2. Len(starting') <= 1 /\ (~managerStarted' => starting' = <<>>) /\ Len(starting') \in Nat
    BY <1>10 DEF StartFrom
  <2>3. managers' = 0 /\ running' = memory'["capture"]
    BY <1>10 DEF StartFrom
  <2>. QED
    BY <2>1, <2>2, <2>3 DEF RunsInv
<1>11. CASE Crash \/ \E c \in Calls : CrashInWrite(c)
  <2>1. ASSUME NEW c \in Calls
        PROVE  Payload(c) \in Configs
    BY <1>0, StepsOf DEF Payload, Activated, Configs, Task
  <2>2. file \in Configs
    BY DEF Types, TypeOK
  <2>. QED
    BY <1>10, <1>11, <2>1, <2>2, TornType DEF Crash, CrashInWrite
<1>12. CASE DeliverEvent
  BY <1>12 DEF DeliverEvent, RunsInv, CaptureChanged, backendVars, historyVars
<1>13. CASE Restart
  BY <1>13 DEF Restart, RunsInv, CaptureChanged, historyVars
<1>14. CASE SetUp
  <2>1. Len(starting) = 1 /\ managers = 0 /\ managerStarted
    <3>1. Len(starting) >= 1 /\ Len(starting) \in Nat
      BY <1>0, <1>14 DEF SetUp
    <3>2. managers + Len(starting) <= 1 /\ (~managerStarted => starting = <<>>)
      BY DEF RunsInv
    <3>3. managers \in Nat /\ starting # <<>>
      BY <1>0, <1>14 DEF SetUp
    <3>4. \A m, n \in Nat : n >= 1 /\ m + n <= 1 => n = 1 /\ m = 0
      OBVIOUS
    <3>5. Len(starting) = 1 /\ managers = 0
      BY <3>1, <3>2, <3>3, <3>4
    <3>. QED
      BY <3>2, <3>3, <3>5
  <2>2. starting' = <<>> /\ Len(starting') = 0 /\ ((managers' = 1 /\ managerStarted') \/ managers' = 0)
    <3>1. starting' = <<>> /\ Len(starting') = 0
      BY <1>0, <1>14, <2>1 DEF SetUp
    <3>2. managers' = managers + 1 /\ UNCHANGED managerStarted => managers' = 1 /\ managerStarted'
      BY <2>1
    <3>3. UNCHANGED managers => managers' = 0
      BY <2>1
    <3>. QED
      BY <1>14, <3>1, <3>2, <3>3 DEF SetUp
  <2>3. UNCHANGED <<memory, call, running, restarts, savesCrossed>>
    BY <1>14 DEF SetUp, historyVars
  <2>4. managers' + Len(starting') <= 1 /\ (~managerStarted' => managers' = 0 /\ starting' = <<>>)
    BY <2>2
  <2>. QED
    BY <2>3, <2>4 DEF RunsInv, CaptureChanged
<1>15. CASE UNCHANGED vars
  BY <1>15 DEF vars, RunsInv, CaptureChanged, backendVars, historyVars
<1>. QED
  BY <1>2, <1>3, <1>4, <1>5, <1>6, <1>7, <1>8, <1>9, <1>11, <1>12, <1>13, <1>14, <1>15 DEF Next

(* What holds of the only call under way.                                    *)
LEMMA UnderWay ==
  ASSUME Types, KeptInv, ~crossed, NEW c \in Calls, call[c].pc \notin Ended
  PROVE  /\ \A b \in Calls \ {c} : call[b].pc \in Ended
         /\ call[c].kind = "save" => Saving(call[c])
         /\ call[c].kind = "active" => Activating(call[c])
         /\ call[c].kind = "overlay" => Overlaying(call[c])
<1>1. c \in Busy /\ \A b \in Calls : call[b].pc \notin Ended => b \in Busy
  BY DEF Busy
<1>. QED
  BY <1>1 DEF KeptInv

(* It moves on to a step of which the same is known, or it ends and all is   *)
(* at rest.                                                                  *)
LEMMA KeptMoved ==
  ASSUME Types, NEW c \in Calls, CallsFine',
         \A b \in Calls \ {c} : call'[b] = call[b] /\ call[b].pc \in Ended,
         call'[c].kind = "none" => AtRest',
         call'[c].kind = "save" => Saving(call[c])',
         call'[c].kind = "active" => Activating(call[c])',
         call'[c].kind = "overlay" => Overlaying(call[c])'
  PROVE  KeptInv'
<1>1. call'[c].kind \in {"none", "save", "active", "overlay"}
  BY DEF CallsFine, Task
<1>2. call'[c].kind = "none" <=> call'[c].pc \in Ended
  BY <1>1 DEF CallsFine, Steps, Ended
<1>3. Busy' = IF call'[c].kind = "none" THEN {} ELSE {c}
  BY <1>2 DEF Busy, Ended
<1>. QED
  BY <1>1, <1>3 DEF KeptInv

(* A command that answers Ok has written what is wanted of every section.    *)
LEMMA AcknowledgedAll ==
  ASSUME Types, NEW c \in Calls, NEW cfg \in Configs, Acknowledged(c, cfg),
         Same(cfg, wanted, Sure \ {call[c].section}), cfg[call[c].section] = call[c].value
  PROVE  unsure' = {} /\ wanted' \in Configs /\ Same(cfg, wanted', Sections) /\ cfg = wanted'
<1>1. wanted' \in Configs /\ unsure' = {}
  BY AcknowledgedType
<1>2. Same(cfg, wanted', Sections)
  BY DEF Acknowledged, Same, Sure
<1>. QED
  BY <1>1, <1>2 DEF Same, Configs

(* One that fails leaves the file as it was, or nothing sure.                *)
LEMMA FailedWrite ==
  ASSUME Types, NEW c \in Calls, NEW cfg \in Configs, WriteFails(c, cfg), Same(file, wanted, Sure)
  PROVE  /\ wanted' = wanted /\ unsure \subseteq unsure' /\ Same(file', wanted', Sure')
         /\ call[c].kind # "save" => call[c].section \in unsure'
         /\ \/ unsure' = unsure \cup (IF call[c].kind = "save" THEN {} ELSE {call[c].section})
            \/ unsure' = Sections
<1>1. unsure \subseteq Sections /\ call[c].section \in Sections
  BY StepsOf DEF Types, TypeOK, Task
<1>. QED
  BY <1>1 DEF WriteFails, Same, Sure

LEMMA KeptInductive == Types /\ KeptInv /\ [Next]_vars => KeptInv'
<1>. SUFFICES ASSUME Types, KeptInv, [Next]_vars, ~crossed'
              PROVE  KeptInv'
  BY DEF KeptInv
<1>0. /\ file \in Configs /\ memory \in Configs /\ store \in Configs /\ wanted \in Configs
      /\ unsure \subseteq Sections /\ events \in Seq(BOOLEAN) /\ call \in [Calls -> Task]
      /\ \A c \in Calls : call[c] \in Task
  BY DEF Types, TypeOK, CallsFine
<1>00. CallsFine'
  BY TypesInductive DEF Types
<1>1. ASSUME NEW c \in Calls, NEW kind \in {"save", "active", "overlay"}, NEW s, NEW value, NEW cfg,
             NEW pc \in {"persist", "lock", "set"}, Begin(c, kind, s, value, cfg, pc)
      PROVE  /\ \A b \in Calls \ {c} : call'[b] = call[b] /\ call[b].pc \in Ended
             /\ events = <<>> /\ Kept /\ Same(store, memory, Known)
             /\ call'[c].kind = kind /\ call'[c].section = s /\ call'[c].value = value
             /\ call'[c].cfg = cfg /\ call'[c].pc = pc
             /\ UNCHANGED <<file, memory, events, wanted, unsure>>
  <2>1. ~crossed /\ Busy = {} /\ events = <<>>
    BY <1>1 DEF Begin
  <2>2. Kept /\ Same(store, memory, Known)
    <3>1. AtRest
      BY <2>1 DEF KeptInv
    <3>2. events # <<memory["overlay"]>>
      BY <2>1
    <3>. QED
      BY <3>1, <3>2 DEF AtRest
  <2>3. \A b \in Calls : call[b].pc \in Ended
    BY <2>1 DEF Busy
  <2>. QED
    BY <1>0, <1>1, <2>1, <2>2, <2>3 DEF Begin
<1>2. ASSUME NEW c \in Calls, NEW s \in Changeable, Save(c, s)
      PROVE  KeptInv'
  <2>. DEFINE cfg == [store EXCEPT ![s] = ~@]
  <2>1. Begin(c, "save", s, ~store[s], cfg, "persist") /\ store' = store /\ s \in Sections
    BY <1>2, ChangeableAssumption DEF Save
  <2>2. cfg[s] = ~store[s] /\ \A x \in Sections \ {s} : cfg[x] = store[x]
    BY <1>0, <2>1 DEF Configs
  <2>. HIDE DEF cfg
  <2>3. /\ \A b \in Calls \ {c} : call'[b] = call[b] /\ call[b].pc \in Ended
        /\ events = <<>> /\ Kept /\ Same(store, memory, Known)
        /\ call'[c].kind = "save" /\ call'[c].section = s /\ call'[c].value = ~store[s]
        /\ call'[c].cfg = cfg /\ call'[c].pc = "persist"
        /\ UNCHANGED <<file, memory, events, wanted, unsure>>
    BY <1>1, <2>1
  <2>4. Same(cfg, wanted, Sure \ {s})
    <3>1. ASSUME NEW x \in Sure \ {s}
          PROVE  cfg[x] = wanted[x]
      <4>1. x \in Known /\ x \in Sections
        BY DEF Sure, Known
      <4>. QED
        BY <2>2, <2>3, <4>1 DEF Same, Kept
    <3>. QED
      BY <3>1 DEF Same
  <2>5. Given(call[c])'
    BY <2>2, <2>3, <2>4 DEF Given, Same, Sure
  <2>6. Kept' /\ Same(store', memory', Known')
    BY <2>1, <2>3 DEF Kept, Same, Sure, Known
  <2>7. Saving(call[c])'
    BY <2>3, <2>5, <2>6 DEF Saving
  <2>. QED
    BY <1>00, <2>3, <2>7, KeptMoved
<1>3. ASSUME NEW c \in Calls, SetActive(c)
      PROVE  KeptInv'
  <2>1. /\ \A b \in Calls \ {c} : call'[b] = call[b] /\ call[b].pc \in Ended
        /\ events = <<>> /\ Kept /\ call'[c].kind = "active" /\ call'[c].pc = "lock"
        /\ UNCHANGED <<file, memory, events, wanted, unsure>>
    BY <1>1, <1>3 DEF SetActive
  <2>2. Activating(call[c])'
    BY <2>1 DEF Activating, Kept, Same, Sure
  <2>. QED
    BY <1>00, <2>1, <2>2, KeptMoved
<1>4. ASSUME NEW c \in Calls, ToggleOverlay(c)
      PROVE  KeptInv'
  <2>1. /\ \A b \in Calls \ {c} : call'[b] = call[b] /\ call[b].pc \in Ended
        /\ events = <<>> /\ Kept /\ Same(store, memory, Known) /\ call'[c].kind = "overlay"
        /\ call'[c].pc = "set" /\ call'[c].value = ~store["overlay"]
        /\ UNCHANGED <<file, memory, events, wanted, unsure>>
    BY <1>1, <1>4 DEF ToggleOverlay
  <2>2. store'["overlay"] = ~store["overlay"] /\ \A x \in Sections \ {"overlay"} : store'[x] = store[x]
    BY <1>0, <1>4, SectionsAre DEF ToggleOverlay, Configs
  <2>3. Same(store', memory', Sections \ {"overlay"})
    BY <2>1, <2>2 DEF Same, Known
  <2>4. Overlaying(call[c])'
    BY <2>1, <2>2, <2>3 DEF Overlaying, Kept, Same, Sure
  <2>. QED
    BY <1>00, <2>1, <2>4, KeptMoved
<1>5. ASSUME NEW c \in Calls, Persist(c)
      PROVE  KeptInv'
  <2>1. /\ call[c].pc = "persist" /\ call[c].kind = "save" /\ "read" \in Steps(call[c].kind)
        /\ call[c].cfg \in Configs /\ ~crossed
        /\ UNCHANGED <<memory, store, events>>
    BY <1>5, StepsOf DEF Persist, Task
  <2>2. /\ \A b \in Calls \ {c} : call[b].pc \in Ended
        /\ Saving(call[c]) /\ Kept /\ Given(call[c]) /\ Same(store, memory, Known) /\ events = <<>>
    BY <2>1, UnderWay DEF Saving, Ended
  <2>3. CASE file' = call[c].cfg /\ Goes(c, "read") /\ UNCHANGED <<wanted, unsure>>
    <3>1. /\ \A b \in Calls \ {c} : call'[b] = call[b]
          /\ call'[c].pc = "read" /\ call'[c].kind = "save"
          /\ call'[c].section = call[c].section /\ call'[c].value = call[c].value
          /\ call'[c].cfg = call[c].cfg
      BY <2>1, <2>3, GoesOn
    <3>2. Saving(call[c])'
      BY <2>1, <2>2, <2>3, <3>1 DEF Saving, Given, Same, Sure
    <3>. QED
      BY <1>00, <2>2, <3>1, <3>2, KeptMoved
  <2>4. CASE WriteFails(c, call[c].cfg) /\ Goes(c, "done")
    <3>1. /\ \A b \in Calls \ {c} : call'[b] = call[b]
          /\ call'[c].kind = "none"
      BY <2>4, GoesDone
    <3>2. /\ wanted' = wanted /\ unsure \subseteq unsure' /\ Same(file', wanted', Sure')
      BY <2>1, <2>2, <2>4, FailedWrite DEF Kept
    <3>3. AtRest'
      BY <2>1, <2>2, <3>2 DEF AtRest, Kept, Same, Sure, Known
    <3>. QED
      BY <1>00, <2>2, <3>1, <3>3, KeptMoved
  <2>. QED
    BY <1>5, <2>3, <2>4 DEF Persist
<1>6. ASSUME NEW c \in Calls, ReadOld(c)
      PROVE  KeptInv'
  <2>1. /\ call[c].pc = "read" /\ call[c].kind = "save" /\ ~crossed
        /\ UNCHANGED <<file, memory, store, events, wanted, unsure>>
    BY <1>6, StepsOf DEF ReadOld, historyVars
  <2>2. /\ \A b \in Calls \ {c} : call[b].pc \in Ended
        /\ Given(call[c]) /\ file = call[c].cfg /\ events = <<>>
    BY <2>1, UnderWay DEF Saving, Ended
  <2>3. call' = [call EXCEPT ![c] = [call[c] EXCEPT !.pc = "write", !.changed = CaptureChanged(c)]]
    BY <1>0, <1>6 DEF ReadOld, Task
  <2>4. /\ \A b \in Calls \ {c} : call'[b] = call[b]
        /\ call'[c].pc = "write" /\ call'[c].kind = "save"
        /\ call'[c].section = call[c].section /\ call'[c].value = call[c].value
        /\ call'[c].cfg = call[c].cfg
    BY <1>0, <2>1, <2>3 DEF Task
  <2>5. Saving(call[c])'
    BY <2>1, <2>2, <2>4 DEF Saving, Given, Same, Sure
  <2>. QED
    BY <1>00, <2>2, <2>4, <2>5, KeptMoved
<1>7. ASSUME NEW c \in Calls, WriteNew(c)
      PROVE  KeptInv'
  <2>1. /\ call[c].pc = "write" /\ call[c].kind = "save" /\ "reply" \in Steps(call[c].kind) /\ ~crossed
        /\ memory' = call[c].cfg /\ events' = Append(events, call[c].cfg["overlay"])
        /\ UNCHANGED <<file, store, wanted, unsure>>
    BY <1>7, StepsOf DEF WriteNew, OverlayEvent, historyVars
  <2>2. /\ \A b \in Calls \ {c} : call[b].pc \in Ended
        /\ Given(call[c]) /\ file = call[c].cfg /\ events = <<>>
    BY <2>1, UnderWay DEF Saving, Ended
  <2>3. /\ \A b \in Calls \ {c} : call'[b] = call[b]
        /\ call'[c].pc = "reply" /\ call'[c].kind = "save"
        /\ call'[c].section = call[c].section /\ call'[c].value = call[c].value
        /\ call'[c].cfg = call[c].cfg
    BY <1>7, <2>1, GoesOn DEF WriteNew
  <2>4. events' = <<call[c].cfg["overlay"]>>
    BY <2>1, <2>2
  <2>5. Saving(call[c])'
    BY <2>1, <2>2, <2>3, <2>4 DEF Saving, Given, Told, Same, Sure
  <2>. QED
    BY <1>00, <2>2, <2>3, <2>5, KeptMoved
<1>8. ASSUME NEW c \in Calls, Reply(c)
      PROVE  KeptInv'
  <2>1. /\ call[c].pc = "reply" /\ call[c].kind = "save" /\ ~crossed /\ call[c].cfg \in Configs
        /\ store' = call[c].cfg /\ Acknowledged(c, call[c].cfg) /\ Goes(c, "done")
        /\ UNCHANGED <<file, memory, events>>
    BY <1>8, StepsOf DEF Reply, Task
  <2>2. /\ \A b \in Calls \ {c} : call[b].pc \in Ended
        /\ Given(call[c]) /\ file = call[c].cfg /\ memory = call[c].cfg /\ Told(call[c])
    BY <2>1, UnderWay DEF Saving, Ended
  <2>3. unsure' = {} /\ call[c].cfg = wanted'
    BY <2>1, <2>2, AcknowledgedAll DEF Given
  <2>4. AtRest'
    BY <2>1, <2>2, <2>3 DEF AtRest, Kept, Told, Same, Sure, Known
  <2>. QED
    BY <1>00, <2>1, <2>2, <2>4, GoesDone, KeptMoved
<1>9. ASSUME NEW c \in Calls, Lock(c)
      PROVE  KeptInv'
  <2>1. /\ call[c].pc = "lock" /\ call[c].kind = "active" /\ call[c].section = "active"
        /\ "refresh" \in Steps(call[c].kind) /\ ~crossed /\ UNCHANGED events
        /\ Activated(c) \in Configs
    BY <1>0, <1>9, StepsOf DEF Lock, Activated, Configs, Task
  <2>2. /\ \A b \in Calls \ {c} : call[b].pc \in Ended
        /\ Kept /\ events = <<>>
    BY <2>1, UnderWay DEF Activating, Ended
  <2>3. /\ \A b \in Calls \ {c} : call'[b] = call[b]
        /\ call'[c].pc = "refresh" /\ call'[c].kind = "active"
    BY <1>9, <2>1, GoesOn DEF Lock
  <2>4. /\ Activated(c)["active"] = call[c].value
        /\ \A x \in Sections \ {"active"} : Activated(c)[x] = memory[x]
    BY <1>0, SectionsAre DEF Activated, Configs
  <2>5. Kept'
    <3>1. CASE UNCHANGED <<file, memory, wanted, unsure>>
      BY <2>2, <3>1 DEF Kept, Same, Sure
    <3>2. CASE memory' = Activated(c) /\ file' = memory' /\ Acknowledged(c, memory')
      <4>1. Same(Activated(c), wanted, Sure \ {"active"})
        BY <2>2, <2>4 DEF Kept, Same, Sure
      <4>2. Activated(c) = wanted'
        BY <2>1, <2>4, <3>2, <4>1, AcknowledgedAll
      <4>. QED
        BY <3>2, <4>2 DEF Kept, Same
    <3>3. CASE memory' = Activated(c) /\ WriteFails(c, Activated(c))
      <4>1. /\ wanted' = wanted /\ unsure \subseteq unsure' /\ Same(file', wanted', Sure')
            /\ "active" \in unsure'
        BY <2>1, <2>2, <3>3, FailedWrite DEF Kept
      <4>. QED
        BY <2>2, <2>4, <3>3, <4>1 DEF Kept, Same, Sure
    <3>. QED
      BY <1>9, <3>1, <3>2, <3>3 DEF Lock
  <2>6. Activating(call[c])'
    BY <2>1, <2>2, <2>3, <2>5 DEF Activating
  <2>. QED
    BY <1>00, <2>2, <2>3, <2>6, KeptMoved
<1>10. ASSUME NEW c \in Calls, GetConfig(c)
       PROVE  KeptInv'
  <2>1. /\ call[c].pc = "refresh" /\ call[c].kind = "active" /\ ~crossed
        /\ UNCHANGED <<file, memory, store, events, wanted, unsure>>
    BY <1>10, StepsOf DEF GetConfig, historyVars
  <2>2. /\ \A b \in Calls \ {c} : call[b].pc \in Ended
        /\ Kept /\ events = <<>>
    BY <2>1, UnderWay DEF Activating, Ended
  <2>3. call' = [call EXCEPT ![c] = [call[c] EXCEPT !.pc = "backfill", !.cfg = memory]]
    BY <1>0, <1>10 DEF GetConfig, Task
  <2>4. /\ \A b \in Calls \ {c} : call'[b] = call[b]
        /\ call'[c].pc = "backfill" /\ call'[c].kind = "active" /\ call'[c].cfg = memory
    BY <1>0, <2>1, <2>3 DEF Task
  <2>5. Activating(call[c])'
    BY <2>1, <2>2, <2>4 DEF Activating, Kept, Same, Sure
  <2>. QED
    BY <1>00, <2>2, <2>4, <2>5, KeptMoved
<1>11. ASSUME NEW c \in Calls, Backfill(c)
       PROVE  KeptInv'
  <2>1. /\ call[c].pc = "backfill" /\ call[c].kind = "active" /\ ~crossed /\ Goes(c, "done")
        /\ store' = call[c].cfg /\ UNCHANGED <<file, memory, events, wanted, unsure>>
    BY <1>11, StepsOf DEF Backfill, historyVars
  <2>2. /\ \A b \in Calls \ {c} : call[b].pc \in Ended
        /\ Kept /\ events = <<>> /\ call[c].cfg = memory
    BY <2>1, UnderWay DEF Activating, Ended
  <2>3. AtRest'
    BY <2>1, <2>2 DEF AtRest, Kept, Same, Sure
  <2>. QED
    BY <1>00, <2>1, <2>2, <2>3, GoesDone, KeptMoved
<1>12. ASSUME NEW c \in Calls, SetOverlay(c)
       PROVE  KeptInv'
  <2>1. /\ call[c].pc = "set" /\ call[c].kind = "overlay" /\ call[c].section = "overlay" /\ ~crossed
        /\ memory' = [memory EXCEPT !["overlay"] = call[c].value]
        /\ UNCHANGED <<file, store, events, wanted, unsure>>
    BY <1>12, StepsOf DEF SetOverlay, historyVars
  <2>2. /\ \A b \in Calls \ {c} : call[b].pc \in Ended
        /\ Same(store, memory, Sections \ {"overlay"}) /\ Kept /\ store["overlay"] = call[c].value
        /\ events = <<>>
    BY <2>1, UnderWay DEF Overlaying, Ended
  <2>3. call' = [call EXCEPT ![c] = [call[c] EXCEPT !.pc = "persist", !.cfg = memory']]
    BY <1>0, <1>12 DEF SetOverlay, Task
  <2>4. /\ \A b \in Calls \ {c} : call'[b] = call[b]
        /\ call'[c].pc = "persist" /\ call'[c].kind = "overlay" /\ call'[c].cfg = memory'
        /\ call'[c].section = "overlay" /\ call'[c].value = call[c].value
    BY <1>0, <2>1, <2>3 DEF Task
  <2>5. memory'["overlay"] = call[c].value /\ \A x \in Sections \ {"overlay"} : memory'[x] = memory[x]
    BY <1>0, <2>1, SectionsAre DEF Configs
  <2>6. Same(store', memory', Sections \ {"overlay"}) /\ Given(call[c])' /\ Same(file', wanted', Sure')
    BY <2>1, <2>2, <2>4, <2>5 DEF Given, Kept, Same, Sure
  <2>7. Overlaying(call[c])'
    BY <2>1, <2>2, <2>4, <2>6 DEF Overlaying
  <2>. QED
    BY <1>00, <2>2, <2>4, <2>7, KeptMoved
<1>13. ASSUME NEW c \in Calls, PersistOverlay(c)
       PROVE  KeptInv'
  <2>1. /\ call[c].pc = "persist" /\ call[c].kind = "overlay" /\ call[c].section = "overlay"
        /\ "reply" \in Steps(call[c].kind) /\ "failed" \in Steps(call[c].kind)
        /\ ~crossed /\ call[c].cfg \in Configs /\ UNCHANGED <<memory, store>>
    BY <1>13, StepsOf DEF PersistOverlay, Task
  <2>2. /\ \A b \in Calls \ {c} : call[b].pc \in Ended
        /\ Same(store, memory, Sections \ {"overlay"}) /\ store["overlay"] = call[c].value
        /\ call[c].cfg = memory /\ Given(call[c]) /\ Same(file, wanted, Sure) /\ events = <<>>
    BY <2>1, UnderWay DEF Overlaying, Ended
  <2>3. CASE /\ file' = call[c].cfg /\ OverlayEvent(c) /\ Acknowledged(c, call[c].cfg)
             /\ Goes(c, "reply")
    <3>1. /\ \A b \in Calls \ {c} : call'[b] = call[b]
          /\ call'[c].pc = "reply" /\ call'[c].kind = "overlay" /\ call'[c].cfg = call[c].cfg
          /\ call'[c].value = call[c].value
      BY <2>1, <2>3, GoesOn
    <3>2. unsure' = {} /\ call[c].cfg = wanted'
      BY <2>1, <2>2, <2>3, AcknowledgedAll DEF Given
    <3>3. events' = <<call[c].cfg["overlay"]>>
      BY <2>2, <2>3 DEF OverlayEvent
    <3>4. store = memory
      <4>1. store["overlay"] = memory["overlay"]
        BY <2>1, <2>2 DEF Given
      <4>2. \A x \in Sections : store[x] = memory[x]
        BY <2>2, <4>1 DEF Same
      <4>. QED
        BY <1>0, <4>2 DEF Configs
    <3>5. Kept' /\ Same(store', memory', Sections \ {"overlay"})
      BY <2>1, <2>2, <2>3, <3>2, <3>4 DEF Kept, Same
    <3>6. Overlaying(call[c])'
      BY <2>1, <2>2, <3>1, <3>2, <3>3, <3>4, <3>5 DEF Overlaying, Told
    <3>. QED
      BY <1>00, <2>2, <3>1, <3>6, KeptMoved
  <2>4. CASE WriteFails(c, call[c].cfg) /\ Goes(c, "failed") /\ UNCHANGED events
    <3>1. /\ \A b \in Calls \ {c} : call'[b] = call[b]
          /\ call'[c].pc = "failed" /\ call'[c].kind = "overlay" /\ call'[c].cfg = call[c].cfg
      BY <2>1, <2>4, GoesOn
    <3>2. /\ wanted' = wanted /\ unsure \subseteq unsure' /\ Same(file', wanted', Sure')
          /\ "overlay" \in unsure'
      BY <2>1, <2>2, <2>4, FailedWrite
    <3>3. Kept' /\ Same(store', memory', Sections \ {"overlay"})
      BY <2>1, <2>2, <3>2 DEF Kept, Given, Same, Sure
    <3>4. Overlaying(call[c])'
      BY <2>1, <2>2, <2>4, <3>1, <3>2, <3>3 DEF Overlaying
    <3>. QED
      BY <1>00, <2>2, <3>1, <3>4, KeptMoved
  <2>. QED
    BY <1>13, <2>3, <2>4 DEF PersistOverlay
<1>14. ASSUME NEW c \in Calls, OverlayReply(c)
       PROVE  KeptInv'
  <2>1. /\ call[c].pc \in {"reply", "failed"} /\ call[c].kind = "overlay" /\ ~crossed
        /\ Goes(c, "done") /\ UNCHANGED <<file, memory, events, wanted, unsure>>
        /\ store' = IF call[c].pc = "reply" THEN store
                      ELSE [store EXCEPT !["overlay"] = ~call[c].value]
    BY <1>14 DEF OverlayReply, historyVars
  <2>2. /\ \A b \in Calls \ {c} : call[b].pc \in Ended
        /\ Overlaying(call[c])
    BY <2>1, UnderWay DEF Ended
  <2>3. \A x \in Sections \ {"overlay"} : store'[x] = store[x]
    BY <1>0, <2>1 DEF Configs
  <2>4. ASSUME call[c].pc = "reply"
        PROVE  AtRest'
    BY <2>1, <2>2, <2>4 DEF AtRest, Overlaying, Told, Kept, Same, Sure
  <2>5. ASSUME call[c].pc = "failed"
        PROVE  AtRest'
    BY <2>1, <2>2, <2>3, <2>5 DEF AtRest, Overlaying, Kept, Same, Sure, Known
  <2>6. AtRest'
    BY <2>1, <2>4, <2>5
  <2>. QED
    BY <1>00, <2>1, <2>2, <2>6, GoesDone, KeptMoved
<1>15. ASSUME NEW cfg \in Configs, StartFrom(cfg), wanted' = cfg
       PROVE  KeptInv'
  <2>1. Busy' = {}
    BY <1>15, StartType DEF StartFrom
  <2>2. file' = cfg /\ memory' = cfg /\ store' = cfg /\ events' = <<>>
    BY <1>15 DEF StartFrom
  <2>3. AtRest'
    BY <1>15, <2>2 DEF AtRest, Kept, Same
  <2>. QED
    BY <2>1, <2>3 DEF KeptInv
<1>16. ASSUME NEW c \in Calls, CrashInWrite(c)
       PROVE  KeptInv'
  <2>1. Payload(c) \in Configs
    BY <1>0, StepsOf DEF Payload, Activated, Configs, Task
  <2>. QED
    BY <1>15, <1>16, <2>1, TornType DEF CrashInWrite
<1>17. CASE Crash
  <2>1. ASSUME ~crossed, NEW s \in Sure, \A c \in Busy : call[c].section # s
        PROVE  file[s] = wanted[s]
    <3>1. CASE Busy = {}
      BY <2>1, <3>1 DEF KeptInv, AtRest, Kept, Same
    <3>2. ASSUME NEW c \in Busy
          PROVE  file[s] = wanted[s]
      <4>1. c \in Calls /\ call[c].pc \notin Ended
        BY DEF Busy
      <4>2. /\ call[c].kind = "save" => Saving(call[c])
            /\ call[c].kind = "active" => Activating(call[c])
            /\ call[c].kind = "overlay" => Overlaying(call[c])
        BY <2>1, <4>1, UnderWay
      <4>3. CASE call[c].kind = "save"
        <5>1. call[c].pc \in {"persist", "read", "write", "reply"}
          BY <4>1, <4>3 DEF Types, CallsFine, Steps
        <5>. QED
          BY <2>1, <3>2, <4>2, <4>3, <5>1 DEF Saving, Given, Kept, Same
      <4>4. CASE call[c].kind = "active"
        BY <2>1, <4>2, <4>4 DEF Activating, Kept, Same
      <4>5. CASE call[c].kind = "overlay"
        <5>1. call[c].pc \in {"set", "persist", "reply", "failed"}
          BY <4>1, <4>5 DEF Types, CallsFine, Steps
        <5>. QED
          BY <2>1, <4>2, <4>5, <5>1 DEF Overlaying, Kept, Same
      <4>. QED
        BY <4>1, <4>3, <4>4, <4>5, StepsOf DEF Task
    <3>. QED
      BY <3>1, <3>2
  <2>2. wanted' = file
    <3>1. CASE crossed
      BY <1>17, <3>1 DEF Crash
    <3>2. CASE ~crossed
      <4>1. ASSUME NEW s \in Sections
            PROVE  (IF s \in unsure \/ \E c \in Busy : call[c].section = s
                      THEN file[s] ELSE wanted[s]) = file[s]
        BY <2>1, <3>2 DEF Sure
      <4>2. wanted' = [s \in Sections |-> file[s]]
        BY <1>17, <3>2, <4>1 DEF Crash
      <4>. QED
        BY <1>0, <4>2 DEF Configs
    <3>. QED
      BY <3>1, <3>2
  <2>. QED
    BY <1>0, <1>15, <1>17, <2>2 DEF Crash
<1>18. CASE DeliverEvent
  <2>1. /\ events # <<>> /\ events' = Tail(events)
        /\ store' = [store EXCEPT !["overlay"] = Head(events)]
        /\ UNCHANGED <<file, memory, call, wanted, unsure, crossed>>
    BY <1>18 DEF DeliverEvent, historyVars
  <2>2. ~crossed /\ Busy' = Busy
    BY <2>1 DEF Busy
  <2>3. /\ "overlay" \in Sections /\ store'["overlay"] = Head(events)
        /\ \A x \in Sections \ {"overlay"} : store'[x] = store[x]
    BY <1>0, <2>1, SectionsAre DEF Configs
  <2>4. ASSUME NEW v, events = <<v>>
        PROVE  events' = <<>> /\ store'["overlay"] = v
    BY <2>1, <2>3, <2>4
  <2>5. CASE Busy = {}
    <3>1. AtRest
      BY <2>2, <2>5 DEF KeptInv
    <3>2. events = <<memory["overlay"]>> /\ Same(store, memory, Sections \ {"overlay"}) /\ Kept
      BY <2>1, <3>1 DEF AtRest
    <3>3. events' = <<>> /\ store'["overlay"] = memory["overlay"]
      BY <2>4, <3>2
    <3>4. AtRest'
      BY <2>1, <2>3, <3>2, <3>3 DEF AtRest, Kept, Same, Sure, Known
    <3>. QED
      BY <2>2, <2>5, <3>4 DEF KeptInv
  <2>6. ASSUME NEW c \in Busy
        PROVE  KeptInv'
    <3>1. c \in Calls /\ call[c].pc \notin Ended
      BY DEF Busy
    <3>2. /\ \A b \in Calls \ {c} : call[b].pc \in Ended
          /\ call[c].kind = "save" => Saving(call[c])
          /\ call[c].kind = "active" => Activating(call[c])
          /\ call[c].kind = "overlay" => Overlaying(call[c])
      BY <2>2, <3>1, UnderWay
    <3>3. \A b \in Calls \ {c} : call'[b] = call[b] /\ call[b].pc \in Ended
      BY <2>1, <3>2
    <3>4. CASE call[c].kind = "save"
      <4>1. call[c].pc = "reply" /\ Told(call[c])
        BY <2>1, <3>2, <3>4 DEF Saving
      <4>2. events' = <<>>
        BY <2>1, <2>4, <4>1 DEF Told
      <4>3. Saving(call[c])'
        BY <2>1, <3>2, <3>4, <4>1, <4>2 DEF Saving, Given, Told, Same, Sure
      <4>. QED
        BY <1>00, <2>1, <3>1, <3>3, <3>4, <4>3, KeptMoved
    <3>5. CASE call[c].kind = "active"
      BY <2>1, <3>2, <3>5 DEF Activating
    <3>6. CASE call[c].kind = "overlay"
      <4>1. call[c].pc = "reply" /\ Overlaying(call[c])
        BY <2>1, <3>2, <3>6 DEF Overlaying
      <4>2. /\ Told(call[c]) /\ unsure = {} /\ call[c].cfg = memory /\ Kept /\ store = memory
            /\ Same(store, memory, Sections \ {"overlay"})
        BY <4>1 DEF Overlaying
      <4>3. events' = <<>> /\ store'["overlay"] = memory["overlay"]
        BY <2>1, <2>4, <4>2 DEF Told
      <4>4. store' = memory /\ Kept'
        <5>1. \A x \in Sections : store'[x] = memory[x]
          BY <2>3, <4>2, <4>3
        <5>2. store' \in Configs
          BY TypesInductive DEF Types, TypeOK
        <5>. QED
          BY <1>0, <2>1, <4>2, <5>1, <5>2 DEF Configs, Kept, Same, Sure
      <4>5. Same(store', memory', Sections \ {"overlay"})
        BY <2>1, <4>4 DEF Same
      <4>6. Overlaying(call[c])'
        BY <2>1, <4>1, <4>2, <4>3, <4>4, <4>5 DEF Overlaying, Told
      <4>. QED
        BY <1>00, <2>1, <3>1, <3>3, <3>6, <4>6, KeptMoved
    <3>. QED
      BY <3>1, <3>4, <3>5, <3>6, StepsOf DEF Task
  <2>. QED
    BY <2>5, <2>6
<1>19. CASE Restart \/ SetUp \/ UNCHANGED vars
  <2>1. UNCHANGED <<file, memory, store, events, call, wanted, unsure, crossed>>
    BY <1>19 DEF Restart, SetUp, vars, historyVars
  <2>. USE DEF Kept, Given, Told, Same, Sure, Known
  <2>2. Busy' = Busy /\ (AtRest => AtRest')
    BY <2>1 DEF AtRest, Busy
  <2>3. CASE Busy = {}
    BY <2>1, <2>2, <2>3 DEF KeptInv
  <2>4. ASSUME NEW c \in Calls, call[c].pc \notin Ended
        PROVE  KeptInv'
    <3>1. \A b \in Calls \ {c} : call'[b] = call[b] /\ call[b].pc \in Ended
      BY <2>1, <2>4, UnderWay
    <3>2. call'[c] = call[c] /\ call[c].kind # "none"
      BY <2>1, <2>4, StepsOf
    <3>3. /\ call[c].kind = "save" => Saving(call[c])
          /\ call[c].kind = "active" => Activating(call[c])
          /\ call[c].kind = "overlay" => Overlaying(call[c])
      BY <2>1, <2>4, UnderWay
    <3>4. /\ call'[c].kind = "save" => Saving(call[c])'
          /\ call'[c].kind = "active" => Activating(call[c])'
          /\ call'[c].kind = "overlay" => Overlaying(call[c])'
      BY <2>1, <3>3 DEF Saving, Activating, Overlaying
    <3>. HIDE DEF Kept, Given, Told, Same, Sure, Known
    <3>. QED
      BY <1>00, <3>1, <3>2, <3>4, KeptMoved
  <2>. QED
    BY <2>3, <2>4 DEF Busy
<1>. QED
  BY <1>2, <1>3, <1>4, <1>5, <1>6, <1>7, <1>8, <1>9, <1>10, <1>11, <1>12, <1>13, <1>14, <1>16,
     <1>17, <1>18, <1>19 DEF Next

LEMMA ConfigInitial == Init => Types /\ RunsInv /\ KeptInv
<1>. SUFFICES ASSUME Init
              PROVE  Types /\ RunsInv /\ KeptInv
  OBVIOUS
<1>1. /\ file = Default /\ memory = Default /\ store = Default /\ wanted = Default
      /\ unsure = {} /\ events = <<>> /\ starting = <<>> /\ managers = 0 /\ restarts = 0
      /\ running = FALSE /\ managerStarted = FALSE /\ savesCrossed = FALSE /\ crossed = FALSE
      /\ crashes = 0 /\ call = [c \in Calls |-> NoCall]
  BY DEF Init
<1>2. \A c \in Calls : call[c].pc = "idle" /\ call[c].kind = "none"
  BY <1>1 DEF NoCall
<1>3. CallsFine
  BY <1>1, <1>2, NoCallType DEF CallsFine, Steps
<1>4. Busy = {}
  BY <1>2 DEF Busy, Ended
<1>5. TypeOK
  <2>1. {file, memory, store, wanted} \subseteq Configs /\ unsure \subseteq Sections
    BY <1>1, DefaultType
  <2>2. {running, managerStarted, savesCrossed, crossed} \subseteq BOOLEAN
    BY <1>1
  <2>3. restarts \in Nat /\ managers \in Nat /\ crashes \in 0..MaxCrashes
    BY <1>1, ChangeableAssumption
  <2>. QED
    BY <2>1, <2>2, <2>3 DEF TypeOK
<1>6. Types
  BY <1>1, <1>3, <1>5 DEF Types
<1>7. RunsInv
  <2>1. Len(starting) = 0 /\ Default["capture"] = FALSE
    BY <1>1, SectionsAre DEF Default
  <2>2. managers + Len(starting) <= 1
    BY <1>1, <2>1
  <2>3. running = memory["capture"]
    BY <1>1, <2>1, Zenon
  <2>. QED
    BY <1>1, <1>2, <2>2, <2>3 DEF RunsInv
<1>8. KeptInv
  BY <1>1, <1>4 DEF KeptInv, AtRest, Kept, Same
<1>. QED
  BY <1>6, <1>7, <1>8

(* What a command told the user is saved is in the memory, in the file and   *)
(* on the page once all is quiet, failed writes and restarts included, as    *)
(* long as calls came one after the other.                                   *)
THEOREM SavedSafety == Spec => []SavedIsKept
<1>1. Types /\ KeptInv => SavedIsKept
  <2>. SUFFICES ASSUME Types, KeptInv, Quiet, ~crossed
                PROVE  \A s \in Sections \ unsure : {memory[s], file[s], store[s]} = {wanted[s]}
    BY DEF SavedIsKept
  <2>1. AtRest /\ events = <<>>
    BY DEF KeptInv, Quiet
  <2>2. Kept /\ Same(store, memory, Known)
    BY <2>1 DEF AtRest
  <2>. QED
    BY <2>2 DEF Kept, Same, Sure, Known
<1>. QED
  BY <1>1, ConfigInitial, TypesInductive, KeptInductive, PTL DEF Spec

(* The capture runs by the settings that were saved, as long as no two saves *)
(* crossed, and crossing saves never start a second bot manager.             *)
THEOREM RunsSafety == Spec => []RunsWhatIsSaved
<1>1. Types /\ RunsInv => RunsWhatIsSaved
  BY DEF RunsInv, RunsWhatIsSaved, Quiet
<1>. QED
  BY <1>1, ConfigInitial, TypesInductive, RunsInductive, PTL DEF Spec

(* ---- the reviews (Reviews) ---- *)

Review == [key : Keys, game : Records, status : {"queued", "done", "failed", "gone"}]
JobMap == [job : Nat, gameMap : [Records -> Nat]]
Page == [owner : Keys \cup {NoKey}, job : Nat, gameMap : [Records -> Nat], timer : BOOLEAN]
Turn == [key : Keys, review : Nat]
OfGame == [key : Keys, game : Records, review : Nat]

Sorts ==
  /\ apiKey \in Keys \cup {NoKey} /\ page \in Page /\ slots \in [Keys -> JobMap]
  /\ polling \in Turn \cup {Unsent} /\ submitting \in OfGame \cup {Unsent}
  /\ resharing \in OfGame \cup {Unsent}
  /\ reviews \in Seq(Review) /\ known \subseteq 1..Len(reviews)
  /\ overtaken \in BOOLEAN /\ misdirected \in BOOLEAN /\ strayed \in BOOLEAN

(* Nothing refers to a review that the server has not accepted, and a        *)
(* submission whose answer is on its way is the server's latest review.      *)
Referred ==
  /\ \A k \in Keys : slots[k].job <= Len(reviews)
                     /\ \A g \in Records : slots[k].gameMap[g] <= Len(reviews)
  /\ polling # Unsent => polling.review \in 1..Len(reviews)
  /\ resharing # Unsent => resharing.review \in 1..Len(reviews)
  /\ submitting # Unsent /\ submitting.review # NoReview =>
       /\ submitting.review = Len(reviews) /\ Len(reviews) > 0
       /\ reviews[submitting.review].key = submitting.key
       /\ reviews[submitting.review].game = submitting.game

(* The store shows the slot of the key it is hydrated for.                   *)
PageIsSlot ==
  /\ page.owner \in Keys => page.job = slots[page.owner].job
                            /\ page.gameMap = slots[page.owner].gameMap
  /\ page.owner = NoKey => page = Fresh /\ submitting = Unsent /\ resharing = Unsent

(* Of one key only the latest review may still be queued.                    *)
OneQueued ==
  \A r, n \in DOMAIN reviews :
    r < n /\ reviews[r].key = reviews[n].key => reviews[r].status # "queued"

(* A poll asks for a review of the key it asks with.                         *)
PollsItsOwn ==
  ~strayed /\ ~misdirected /\ polling # Unsent => reviews[polling.review].key = polling.key

(* JobIsPolled, with what is known while a poll is under way.                *)
Followed ==
  ~overtaken =>
    IF polling = Unsent THEN page.job # NoReview => page.timer
                        ELSE page.job \in {NoReview, polling.review}

ReviewsInv ==
  /\ Sorts /\ Referred /\ PageIsSlot /\ OneQueued /\ PollsItsOwn /\ Followed
  /\ OwnNamespace /\ NotForgotten /\ MapIsKept

(* Unsent is no call, and every call has a key.                              *)
LEMMA UnsentIs ==
  /\ \A p \in Turn \cup OfGame : p # Unsent
  /\ \A p \in Turn \cup {Unsent} : p # Unsent => p \in Turn
  /\ \A p \in OfGame \cup {Unsent} : p # Unsent => p \in OfGame
<1>1. \A p \in Turn \cup OfGame : p.key \in Keys
  BY DEF Turn, OfGame
<1>2. Unsent.key = NoKey /\ NoKey \notin Keys
  BY ReviewsAssumption DEF Unsent
<1>. QED
  BY <1>1, <1>2

LEMMA FreshType == Fresh \in Page /\ Emptied \in JobMap /\ Unreviewed \in [Records -> Nat]
BY DEF Fresh, Emptied, Unreviewed, NoReview, Page, JobMap

(* Turning the store with the slots s to the key of the configuration.       *)
LEMMA Hydrating ==
  ASSUME apiKey \in Keys \cup {NoKey}, NEW p \in Page, NEW s \in [Keys -> JobMap]
  PROVE  /\ ensureHydrated(p, s) \in Page
         /\ apiKey = NoKey => ensureHydrated(p, s) = p
         /\ apiKey # NoKey => ensureHydrated(p, s).owner = apiKey
         /\ \/ ensureHydrated(p, s) = p
            \/ /\ apiKey \in Keys
               /\ ensureHydrated(p, s).owner = apiKey
               /\ ensureHydrated(p, s).job = s[apiKey].job
               /\ ensureHydrated(p, s).gameMap = s[apiKey].gameMap
               /\ ensureHydrated(p, s).timer = (s[apiKey].job # NoReview)
<1>1. CASE apiKey \in {NoKey, p.owner}
  BY <1>1 DEF ensureHydrated
<1>2. CASE apiKey \notin {NoKey, p.owner}
  <2>1. apiKey \in Keys /\ s[apiKey] \in JobMap
    BY <1>2
  <2>2. s[apiKey].job \in Nat /\ s[apiKey].gameMap \in [Records -> Nat]
    BY <2>1 DEF JobMap
  <2>3. ensureHydrated(p, s) =
          [owner |-> apiKey, job |-> s[apiKey].job, gameMap |-> s[apiKey].gameMap,
           timer |-> s[apiKey].job # NoReview]
    BY <1>2 DEF ensureHydrated
  <2>4. \A b \in BOOLEAN : [owner |-> apiKey, job |-> s[apiKey].job,
                           gameMap |-> s[apiKey].gameMap, timer |-> b] \in Page
    BY <2>1, <2>2 DEF Page
  <2>5. (s[apiKey].job # NoReview) \in BOOLEAN
    BY Zenon
  <2>6. ensureHydrated(p, s) \in Page
    BY <2>3, <2>4, <2>5
  <2>. QED
    BY <1>2, <2>1, <2>3, <2>6
<1>. QED
  BY <1>1, <1>2

(* A review of the server.                                                   *)
LEMMA ReviewIs ==
  ASSUME Sorts
  PROVE  /\ Len(reviews) \in Nat /\ DOMAIN reviews = 1..Len(reviews)
         /\ \A r \in 1..Len(reviews) :
              reviews[r] \in Review /\ reviews[r].key \in Keys /\ reviews[r].game \in Records
<1>1. reviews \in Seq(Review)
  BY DEF Sorts
<1>2. \A r \in 1..Len(reviews) : reviews[r] \in Review
  BY <1>1
<1>. QED
  BY <1>1, <1>2 DEF Review

LEMMA SortsInductive == Sorts /\ Referred /\ ReviewsNext => Sorts'
<1>. SUFFICES ASSUME Sorts, Referred, ReviewsNext
              PROVE  Sorts'
  OBVIOUS
<1>0. /\ apiKey \in Keys \cup {NoKey} /\ page \in Page /\ slots \in [Keys -> JobMap]
      /\ polling \in Turn \cup {Unsent} /\ submitting \in OfGame \cup {Unsent}
      /\ resharing \in OfGame \cup {Unsent} /\ Unsent \in Turn \cup {Unsent}
      /\ Unsent \in OfGame \cup {Unsent}
      /\ reviews \in Seq(Review) /\ known \subseteq 1..Len(reviews)
      /\ overtaken \in BOOLEAN /\ misdirected \in BOOLEAN /\ strayed \in BOOLEAN
  BY DEF Sorts
<1>1. overtaken' \in BOOLEAN
  BY <1>0 DEF ReviewsNext, Remember
<1>2. Hydrated \in Page /\ (apiKey # NoKey => Hydrated.owner = apiKey)
  BY <1>0, Hydrating DEF Hydrated
<1>3. ASSUME NEW k \in Keys \cup {NoKey}, SwitchKey(k)
      PROVE  Sorts'
  BY <1>0, <1>1, <1>3 DEF SwitchKey, serverVars, Sorts
<1>4. CASE Visit
  <2>1. [Hydrated EXCEPT !.timer = TRUE] \in Page
    BY <1>2 DEF Page
  <2>2. page' \in Page
    BY <1>2, <1>4, <2>1 DEF Visit
  <2>. QED
    BY <1>0, <1>1, <1>4, <2>2 DEF Visit, serverVars, Sorts
<1>5. CASE Relaunch
  BY <1>0, <1>1, <1>5, FreshType DEF Relaunch, serverVars, Sorts
<1>6. ASSUME NEW g \in Records, Submit(g)
      PROVE  Sorts'
  <2>1. submitting' \in OfGame
    BY <1>0, <1>6 DEF Submit, OfGame, NoReview
  <2>. QED
    BY <1>0, <1>1, <1>2, <1>6, <2>1 DEF Submit, serverVars, Sorts
<1>7. CASE Accept
  <2>1. submitting \in OfGame
    BY <1>0, <1>7, UnsentIs DEF Accept
  <2>2. [key |-> submitting.key, game |-> submitting.game, status |-> "queued"] \in Review
    BY <2>1 DEF Review, OfGame
  <2>3. reviews' \in Seq(Review) /\ Len(reviews') = Len(reviews) + 1 /\ Len(reviews) \in Nat
    BY <1>0, <1>7, <2>2 DEF Accept
  <2>4. submitting' \in OfGame /\ known' \subseteq 1..Len(reviews')
    BY <1>0, <1>7, <2>1, <2>3 DEF Accept, OfGame
  <2>. QED
    BY <1>0, <1>1, <1>7, <2>3, <2>4 DEF Accept, Sorts
<1>8. CASE Submitted
  <2>. DEFINE r == submitting.review
              map == [page.gameMap EXCEPT ![submitting.game] = r]
  <2>1. submitting \in OfGame /\ r \in 1..Len(reviews) /\ r \in Nat
    BY <1>0, <1>8, UnsentIs, ReviewIs DEF Submitted, OfGame, NoReview, Referred
  <2>2. map \in [Records -> Nat] /\ [job |-> r, gameMap |-> map] \in JobMap
    BY <1>0, <2>1 DEF OfGame, Page, JobMap
  <2>3. page' \in Page
    BY <1>0, <1>8, <2>1, <2>2 DEF Submitted, Page
  <2>4. slots' \in [Keys -> JobMap]
    BY <1>0, <1>8, <2>2 DEF Submitted
  <2>5. known' \subseteq 1..Len(reviews) /\ strayed' \in BOOLEAN
    BY <1>0, <1>8, <2>1 DEF Submitted
  <2>. QED
    BY <1>0, <1>1, <1>8, <2>3, <2>4, <2>5 DEF Submitted, Sorts
<1>9. CASE SubmitFails
  BY <1>0, <1>1, <1>2, <1>9 DEF SubmitFails, serverVars, Sorts
<1>10. CASE pollOnce
  <2>1. page' \in Page
    BY <1>0, <1>10 DEF pollOnce, Page
  <2>2. polling' \in Turn \cup {Unsent} /\ misdirected' \in BOOLEAN
    BY <1>0, <1>10 DEF pollOnce, Page, Turn
  <2>. QED
    BY <1>0, <1>1, <1>10, <2>1, <2>2 DEF pollOnce, serverVars, Sorts
<1>11. /\ Finished \in Page /\ [page EXCEPT !.timer = TRUE] \in Page
       /\ [slots EXCEPT ![page.owner].job = NoReview] \in [Keys -> JobMap]
  <2>1. Finished \in Page /\ [page EXCEPT !.timer = TRUE] \in Page
    BY <1>0 DEF Finished, Page, NoReview
  <2>2. [slots EXCEPT ![page.owner].job = NoReview] \in [Keys -> JobMap]
    <3>1. CASE page.owner \in Keys
      <4>1. [slots[page.owner] EXCEPT !.job = NoReview] \in JobMap
        BY <1>0, <3>1 DEF JobMap, NoReview
      <4>. QED
        BY <1>0, <3>1, <4>1
    <3>2. CASE page.owner \notin Keys
      BY <1>0, <3>2
    <3>. QED
      BY <3>1, <3>2
  <2>. QED
    BY <2>1, <2>2
<1>12. CASE JobAnswer \/ Job404 \/ JobPollFails
  <2>1. ensureHydrated(Finished, [slots EXCEPT ![page.owner].job = NoReview]) \in Page
    BY <1>0, <1>11, Hydrating
  <2>2. page' \in Page /\ slots' \in [Keys -> JobMap] /\ polling' = Unsent
        /\ UNCHANGED <<apiKey, submitting, resharing, serverVars, misdirected, strayed>>
    <3>1. CASE JobAnswer
      BY <1>0, <1>11, <2>1, <3>1 DEF JobAnswer, PollEnds, Ignored, finishJob, Rescheduled
    <3>2. CASE Job404
      BY <1>0, <1>11, <2>1, <3>2 DEF Job404, PollEnds, Ignored, finishJob, Rescheduled
    <3>3. CASE JobPollFails
      BY <1>0, <1>11, <2>1, <3>3 DEF JobPollFails, PollEnds, Ignored, finishJob, Rescheduled
    <3>. QED
      BY <1>12, <3>1, <3>2, <3>3
  <2>. QED
    BY <1>0, <1>1, <2>2 DEF serverVars, Sorts
<1>13. ASSUME NEW g \in Records, Reshare(g)
       PROVE  Sorts'
  <2>1. resharing' \in OfGame
    BY <1>0, <1>2, <1>13 DEF Reshare, OfGame, Page
  <2>. QED
    BY <1>0, <1>1, <1>2, <1>13, <2>1 DEF Reshare, serverVars, Sorts
<1>14. CASE ReshareIssued \/ ReshareFails
  BY <1>0, <1>1, <1>2, <1>14 DEF ReshareIssued, ReshareFails, ReshareEnds, serverVars, Sorts
<1>15. CASE Reshare404
  <2>1. resharing \in OfGame
    BY <1>0, <1>15, UnsentIs DEF Reshare404, ReshareEnds
  <2>2. [page.gameMap EXCEPT ![resharing.game] = NoReview] \in [Records -> Nat]
    BY <1>0, <2>1 DEF OfGame, Page, NoReview
  <2>3. page' = [page EXCEPT !.gameMap = [page.gameMap EXCEPT ![resharing.game] = NoReview]]
    BY <1>0, <1>15 DEF Reshare404, Unmarked, Page
  <2>4. page' \in Page /\ page'.gameMap \in [Records -> Nat]
    BY <1>0, <2>2, <2>3 DEF Page
  <2>5. slots' \in [Keys -> JobMap]
    <3>1. slots' = [slots EXCEPT ![page.owner].gameMap = page'.gameMap]
      BY <1>15 DEF Reshare404, Unmarked
    <3>2. CASE page.owner \in Keys
      <4>1. [slots[page.owner] EXCEPT !.gameMap = page'.gameMap] \in JobMap
        BY <1>0, <2>4, <3>2 DEF JobMap
      <4>. QED
        BY <1>0, <3>1, <3>2, <4>1
    <3>3. CASE page.owner \notin Keys
      BY <1>0, <3>1, <3>3
    <3>. QED
      BY <3>2, <3>3
  <2>6. strayed' \in BOOLEAN
    BY <1>0, <1>15 DEF Reshare404, Unmarked
  <2>. QED
    BY <1>0, <1>1, <1>15, <2>4, <2>5, <2>6 DEF Reshare404, ReshareEnds, serverVars, Sorts
<1>16. ASSUME NEW r \in DOMAIN reviews, ReviewEnds(r) \/ Evict(r)
       PROVE  Sorts'
  <2>1. PICK status \in {"done", "failed", "gone"} :
          ReviewBecomes(r, {"queued"}, status) \/ ReviewBecomes(r, {"done", "failed"}, status)
    BY <1>16 DEF ReviewEnds, Evict
  <2>2. reviews[r] \in Review /\ [reviews[r] EXCEPT !.status = status] \in Review
    BY <1>0, ReviewIs DEF Review
  <2>3. reviews' = [reviews EXCEPT ![r] = [reviews[r] EXCEPT !.status = status]]
    BY <1>0, <2>1 DEF ReviewBecomes, Review
  <2>4. reviews' \in Seq(Review) /\ Len(reviews') = Len(reviews)
    BY <1>0, <2>2, <2>3
  <2>. QED
    BY <1>0, <1>1, <2>1, <2>4 DEF ReviewBecomes, Sorts
<1>. QED
  BY <1>3, <1>4, <1>5, <1>6, <1>7, <1>8, <1>9, <1>10, <1>12, <1>13, <1>14, <1>15, <1>16
     DEF ReviewsNext

(* A store that shows its slot shows the slot it turns to.                   *)
LEMMA HydratedIsSlot ==
  ASSUME apiKey \in Keys \cup {NoKey}, NEW p \in Page, NEW s \in [Keys -> JobMap],
         p.owner \in Keys => p.job = s[p.owner].job /\ p.gameMap = s[p.owner].gameMap
  PROVE  LET h == ensureHydrated(p, s) IN
         /\ h.owner \in Keys => h.job = s[h.owner].job /\ h.gameMap = s[h.owner].gameMap
         /\ h.owner = NoKey => h = p
<1>. DEFINE h == ensureHydrated(p, s)
<1>1. h = p \/ (apiKey \in Keys /\ h.owner = apiKey /\ h.job = s[apiKey].job
                /\ h.gameMap = s[apiKey].gameMap)
  BY Hydrating
<1>. HIDE DEF h
<1>2. /\ h.owner \in Keys => h.job = s[h.owner].job /\ h.gameMap = s[h.owner].gameMap
      /\ h.owner = NoKey => h = p
  BY <1>1, ReviewsAssumption
<1>. QED
  BY <1>2 DEF h

LEMMA RefInductive ==
  Sorts /\ Sorts' /\ Referred /\ PageIsSlot /\ ReviewsNext => Referred' /\ PageIsSlot'
<1>. SUFFICES ASSUME Sorts, Sorts', Referred, PageIsSlot, ReviewsNext
              PROVE  Referred' /\ PageIsSlot'
  OBVIOUS
<1>0. /\ apiKey \in Keys \cup {NoKey} /\ page \in Page /\ slots \in [Keys -> JobMap]
      /\ polling \in Turn \cup {Unsent} /\ submitting \in OfGame \cup {Unsent}
      /\ resharing \in OfGame \cup {Unsent} /\ reviews \in Seq(Review)
      /\ page' \in Page /\ slots' \in [Keys -> JobMap] /\ Len(reviews) \in Nat
      /\ page.owner \in Keys \cup {NoKey} /\ page'.owner \in Keys \cup {NoKey}
      /\ NoKey \notin Keys
  BY ReviewsAssumption DEF Sorts, Page
<1>1. /\ \A k \in Keys : slots[k].job \in Nat /\ slots[k].job <= Len(reviews)
                         /\ \A g \in Records : slots[k].gameMap[g] \in Nat
                                               /\ slots[k].gameMap[g] <= Len(reviews)
      /\ polling # Unsent => polling.review \in 1..Len(reviews)
      /\ resharing # Unsent => resharing.review \in 1..Len(reviews)
      /\ submitting # Unsent /\ submitting.review # NoReview =>
           /\ submitting.review = Len(reviews) /\ Len(reviews) > 0
           /\ reviews[submitting.review].key = submitting.key
           /\ reviews[submitting.review].game = submitting.game
  BY <1>0 DEF Referred, JobMap
<1>2. /\ page.owner \in Keys => page.job = slots[page.owner].job
                                /\ page.gameMap = slots[page.owner].gameMap
      /\ page.owner = NoKey => page = Fresh /\ submitting = Unsent /\ resharing = Unsent
  BY DEF PageIsSlot
<1>3. /\ Hydrated \in Page /\ (apiKey # NoKey => Hydrated.owner = apiKey)
      /\ Hydrated.owner \in Keys => Hydrated.job = slots[Hydrated.owner].job
                                    /\ Hydrated.gameMap = slots[Hydrated.owner].gameMap
      /\ Hydrated.owner = NoKey => Hydrated = page
  BY <1>0, <1>2, Hydrating, HydratedIsSlot DEF Hydrated
<1>4. page.job # NoReview => page.owner \in Keys /\ page.job \in 1..Len(reviews)
  BY <1>0, <1>1, <1>2 DEF Fresh, NoReview
(* What a step that leaves the slots and the server alone has to keep.       *)
<1>5. ASSUME UNCHANGED <<slots, reviews>>,
             polling' \in {polling, Unsent}, submitting' \in {submitting, Unsent},
             resharing' \in {resharing, Unsent}
      PROVE  Referred'
  BY <1>1, <1>5 DEF Referred
<1>6. ASSUME UNCHANGED slots, submitting' \in {submitting, Unsent},
             resharing' \in {resharing, Unsent}, page' \in {page, Hydrated}
      PROVE  PageIsSlot'
  BY <1>0, <1>2, <1>3, <1>6 DEF PageIsSlot
<1>7. ASSUME NEW k \in Keys \cup {NoKey}, SwitchKey(k)
      PROVE  Referred' /\ PageIsSlot'
  BY <1>5, <1>6, <1>7 DEF SwitchKey, serverVars
<1>8. CASE Visit
  <2>1. Referred'
    BY <1>5, <1>8 DEF Visit, serverVars
  <2>2. page' = Hydrated \/ (Hydrated.job # NoReview
                             /\ page' = [Hydrated EXCEPT !.timer = TRUE])
    BY <1>8 DEF Visit
  <2>3. CASE page' = Hydrated
    BY <1>6, <1>8, <2>1, <2>3 DEF Visit
  <2>4. CASE Hydrated.job # NoReview /\ page' = [Hydrated EXCEPT !.timer = TRUE]
    <3>1. page'.owner = Hydrated.owner /\ page'.job = Hydrated.job
          /\ page'.gameMap = Hydrated.gameMap
      BY <1>3, <2>4 DEF Page
    <3>2. Hydrated.owner \in Keys
      BY <1>0, <1>3, <1>4, <2>4 DEF Page
    <3>3. slots' = slots
      BY <1>8 DEF Visit
    <3>4. PageIsSlot'
      BY <1>0, <1>3, <3>1, <3>2, <3>3 DEF PageIsSlot
    <3>. QED
      BY <2>1, <3>4
  <2>. QED
    BY <2>2, <2>3, <2>4
<1>9. CASE Relaunch
  <2>1. Referred'
    BY <1>5, <1>9 DEF Relaunch, serverVars
  <2>2. page' = Fresh /\ submitting' = Unsent /\ resharing' = Unsent /\ Fresh.owner = NoKey
    BY <1>9 DEF Relaunch, Fresh
  <2>3. PageIsSlot'
    BY <1>0, <2>2 DEF PageIsSlot
  <2>. QED
    BY <2>1, <2>3
<1>10. ASSUME NEW g \in Records, Submit(g)
       PROVE  Referred' /\ PageIsSlot'
  <2>1. /\ page' = Hydrated /\ Hydrated.owner = apiKey /\ apiKey \in Keys
        /\ UNCHANGED <<slots, polling, resharing, reviews>>
        /\ submitting'.review = NoReview
    BY <1>0, <1>3, <1>10 DEF Submit, serverVars
  <2>2. Referred'
    BY <1>1, <2>1 DEF Referred
  <2>3. PageIsSlot'
    BY <1>0, <1>3, <2>1 DEF PageIsSlot
  <2>. QED
    BY <2>2, <2>3
<1>11. CASE Accept
  <2>1. submitting \in OfGame /\ UNCHANGED <<page, slots, polling, resharing>>
        /\ submitting # Unsent
    BY <1>0, <1>11, UnsentIs DEF Accept
  <2>2. /\ Len(reviews') = Len(reviews) + 1
        /\ reviews'[Len(reviews')] = [key |-> submitting.key, game |-> submitting.game,
                                      status |-> "queued"]
        /\ submitting' = [submitting EXCEPT !.review = Len(reviews')]
    BY <1>0, <1>11 DEF Accept
  <2>3. /\ submitting'.review = Len(reviews') /\ submitting'.key = submitting.key
        /\ submitting'.game = submitting.game
    BY <2>1, <2>2 DEF OfGame
  <2>4. Referred'
    BY <1>0, <1>1, <2>1, <2>2, <2>3 DEF Referred
  <2>5. PageIsSlot'
    BY <1>0, <1>2, <2>1 DEF PageIsSlot
  <2>. QED
    BY <2>4, <2>5
<1>12. CASE Submitted
  <2>. DEFINE r == submitting.review
              map == [page.gameMap EXCEPT ![submitting.game] = r]
  <2>1. /\ submitting \in OfGame /\ submitting # Unsent /\ r = Len(reviews) /\ page.owner \in Keys
        /\ UNCHANGED <<polling, resharing, reviews>> /\ submitting' = Unsent
        /\ page' = [page EXCEPT !.job = r, !.gameMap = map, !.timer = TRUE]
        /\ slots' = [slots EXCEPT ![page.owner] = [job |-> r, gameMap |-> map]]
    BY <1>0, <1>1, <1>2, <1>12, UnsentIs DEF Submitted
  <2>2. page'.owner = page.owner /\ page'.job = r /\ page'.gameMap = map
    BY <1>0, <2>1 DEF Page
  <2>3. slots'[page.owner].job = r /\ slots'[page.owner].gameMap = map
        /\ \A k \in Keys : k # page.owner => slots'[k] = slots[k]
    BY <1>0, <2>1
  <2>4. PageIsSlot'
    BY <1>0, <2>1, <2>2, <2>3 DEF PageIsSlot
  <2>5. page.gameMap \in [Records -> Nat] /\ page.gameMap = slots[page.owner].gameMap
    BY <1>0, <1>2, <2>1 DEF Page
  <2>6. \A g \in Records : map[g] = r \/ map[g] = slots[page.owner].gameMap[g]
    BY <2>5
  <2>7. \A k \in Keys : slots'[k].job <= Len(reviews)
                        /\ \A g \in Records : slots'[k].gameMap[g] <= Len(reviews)
    <3>. SUFFICES ASSUME NEW k \in Keys
                  PROVE  slots'[k].job <= Len(reviews)
                         /\ \A g \in Records : slots'[k].gameMap[g] <= Len(reviews)
      OBVIOUS
    <3>1. CASE k = page.owner
      BY <1>0, <1>1, <2>1, <2>3, <2>6, <3>1
    <3>2. CASE k # page.owner
      BY <1>1, <2>3, <3>2
    <3>. QED
      BY <3>1, <3>2
  <2>8. Referred'
    BY <1>1, <2>1, <2>7 DEF Referred
  <2>. QED
    BY <2>4, <2>8
<1>13. CASE SubmitFails
  BY <1>5, <1>6, <1>13 DEF SubmitFails, serverVars
<1>14. CASE pollOnce
  <2>1. page'.owner = page.owner /\ page'.job = page.job /\ page'.gameMap = page.gameMap
        /\ page.timer
    BY <1>0, <1>14 DEF pollOnce, Page
  <2>2. page.owner \in Keys
    BY <1>0, <1>2, <2>1 DEF Fresh
  <2>3. PageIsSlot'
    BY <1>0, <1>2, <1>14, <2>1, <2>2 DEF PageIsSlot, pollOnce
  <2>4. polling' = polling \/ (page.job # NoReview
                               /\ polling' = [key |-> apiKey, review |-> page.job])
    BY <1>14 DEF pollOnce
  <2>5. polling' # Unsent => polling'.review \in 1..Len(reviews)
    BY <1>1, <1>4, <2>4
  <2>6. UNCHANGED <<slots, reviews, submitting, resharing>>
    BY <1>14 DEF pollOnce, serverVars
  <2>7. Referred'
    BY <1>1, <2>5, <2>6 DEF Referred
  <2>. QED
    BY <2>3, <2>7
<1>15. CASE JobAnswer \/ Job404 \/ JobPollFails
  <2>. DEFINE s == [slots EXCEPT ![page.owner].job = NoReview]
  <2>1. /\ polling # Unsent /\ polling' = Unsent
        /\ UNCHANGED <<submitting, resharing, reviews, apiKey>>
    BY <1>15 DEF JobAnswer, Job404, JobPollFails, PollEnds, serverVars
  <2>2. \/ UNCHANGED <<page, slots>>
        \/ page.job = polling.review /\ page' = [page EXCEPT !.timer = TRUE] /\ UNCHANGED slots
        \/ /\ page.job = polling.review /\ slots' = s
           /\ page' = Finished \/ page' = ensureHydrated(Finished, s)
    BY <1>15 DEF JobAnswer, Job404, JobPollFails, Ignored, Rescheduled, finishJob
  <2>3. CASE UNCHANGED <<page, slots>>
    BY <1>5, <1>6, <2>1, <2>3
  <2>4. page.job = polling.review => page.owner \in Keys
    BY <1>1, <1>4, <2>1 DEF NoReview
  <2>5. CASE page.job = polling.review /\ page' = [page EXCEPT !.timer = TRUE]
             /\ UNCHANGED slots
    <3>1. page'.owner = page.owner /\ page'.job = page.job /\ page'.gameMap = page.gameMap
      BY <1>0, <2>5 DEF Page
    <3>2. PageIsSlot'
      BY <1>0, <1>2, <2>4, <2>5, <3>1 DEF PageIsSlot
    <3>3. Referred'
      BY <1>5, <2>1, <2>5
    <3>. QED
      BY <3>2, <3>3
  <2>6. CASE /\ page.job = polling.review /\ slots' = s
             /\ page' = Finished \/ page' = ensureHydrated(Finished, s)
    <3>1. page.owner \in Keys
      BY <2>4, <2>6
    <3>2. slots[page.owner] \in JobMap
      BY <1>0, <3>1
    <3>3. s[page.owner] = [slots[page.owner] EXCEPT !.job = NoReview]
          /\ \A k \in Keys : k # page.owner => s[k] = slots[k]
      BY <1>0, <3>1
    <3>4. s[page.owner].job = NoReview /\ s[page.owner].gameMap = slots[page.owner].gameMap
      BY <3>2, <3>3 DEF JobMap
    <3>5. Finished.owner = page.owner /\ Finished.job = NoReview
          /\ Finished.gameMap = page.gameMap /\ Finished \in Page
      BY <1>0 DEF Finished, Page, NoReview
    <3>6. s \in [Keys -> JobMap]
      BY <1>0, <2>6
    <3>7. Finished.owner \in Keys => Finished.job = s[Finished.owner].job
                                     /\ Finished.gameMap = s[Finished.owner].gameMap
      BY <1>2, <3>1, <3>4, <3>5
    <3>. HIDE DEF s
    <3>8. page'.owner \in Keys => page'.job = s[page'.owner].job
                                  /\ page'.gameMap = s[page'.owner].gameMap
      <4>1. CASE page' = Finished
        BY <3>7, <4>1
      <4>2. CASE page' = ensureHydrated(Finished, s)
        BY <1>0, <3>5, <3>6, <3>7, <4>2, HydratedIsSlot
      <4>. QED
        BY <2>6, <4>1, <4>2
    <3>9. page'.owner # NoKey
      <4>1. CASE page' = Finished
        BY <1>0, <3>1, <3>5, <4>1
      <4>2. CASE page' = ensureHydrated(Finished, s)
        BY <1>0, <3>1, <3>5, <3>6, <3>7, <4>2, HydratedIsSlot
      <4>. QED
        BY <2>6, <4>1, <4>2
    <3>10. PageIsSlot'
      BY <2>6, <3>8, <3>9 DEF PageIsSlot
    <3>11. \A k \in Keys : s[k].job <= Len(reviews)
                           /\ \A g \in Records : s[k].gameMap[g] <= Len(reviews)
      BY <1>0, <1>1, <3>3, <3>4 DEF NoReview, s
    <3>12. Referred'
      BY <1>1, <2>1, <2>6, <3>11 DEF Referred
    <3>. QED
      BY <3>10, <3>12
  <2>. QED
    BY <2>2, <2>3, <2>5, <2>6
<1>16. ASSUME NEW g \in Records, Reshare(g)
       PROVE  Referred' /\ PageIsSlot'
  <2>1. /\ page' = Hydrated /\ Hydrated.owner = apiKey /\ apiKey \in Keys
        /\ UNCHANGED <<slots, polling, submitting, reviews>>
        /\ resharing'.review = Hydrated.gameMap[g] /\ Hydrated.gameMap[g] # NoReview
    BY <1>0, <1>3, <1>16 DEF Reshare, serverVars
  <2>2. resharing'.review \in 1..Len(reviews)
    BY <1>0, <1>1, <1>3, <2>1 DEF NoReview
  <2>3. Referred'
    BY <1>1, <2>1, <2>2 DEF Referred
  <2>4. PageIsSlot'
    BY <1>0, <1>3, <2>1 DEF PageIsSlot
  <2>. QED
    BY <2>3, <2>4
<1>17. CASE ReshareIssued \/ ReshareFails
  BY <1>5, <1>6, <1>17 DEF ReshareIssued, ReshareFails, ReshareEnds, serverVars
<1>18. CASE Reshare404
  <2>1. /\ resharing \in OfGame /\ resharing # Unsent /\ page.owner \in Keys
        /\ UNCHANGED <<polling, submitting, reviews>> /\ resharing' = Unsent
        /\ page' = [page EXCEPT !.gameMap[resharing.game] = NoReview]
        /\ slots' = [slots EXCEPT ![page.owner].gameMap = page'.gameMap]
    BY <1>0, <1>2, <1>18, UnsentIs DEF Reshare404, ReshareEnds, Unmarked, serverVars
  <2>2. page'.owner = page.owner /\ page'.job = page.job
        /\ page'.gameMap = [page.gameMap EXCEPT ![resharing.game] = NoReview]
        /\ page.gameMap \in [Records -> Nat]
    BY <1>0, <2>1 DEF Page
  <2>3. slots[page.owner] \in JobMap
    BY <1>0, <2>1
  <2>4. slots'[page.owner] = [slots[page.owner] EXCEPT !.gameMap = page'.gameMap]
        /\ \A k \in Keys : k # page.owner => slots'[k] = slots[k]
    BY <1>0, <2>1
  <2>5. slots'[page.owner].job = slots[page.owner].job
        /\ slots'[page.owner].gameMap = page'.gameMap
    BY <2>3, <2>4 DEF JobMap
  <2>6. PageIsSlot'
    BY <1>0, <1>2, <2>1, <2>2, <2>5 DEF PageIsSlot
  <2>7. \A g \in Records : page'.gameMap[g] = NoReview
                           \/ page'.gameMap[g] = slots[page.owner].gameMap[g]
    BY <1>2, <2>1, <2>2
  <2>8. \A k \in Keys : slots'[k].job <= Len(reviews)
                        /\ \A g \in Records : slots'[k].gameMap[g] <= Len(reviews)
    <3>. SUFFICES ASSUME NEW k \in Keys
                  PROVE  slots'[k].job <= Len(reviews)
                         /\ \A g \in Records : slots'[k].gameMap[g] <= Len(reviews)
      OBVIOUS
    <3>1. CASE k = page.owner
      BY <1>0, <1>1, <2>5, <2>7, <3>1 DEF NoReview
    <3>2. CASE k # page.owner
      BY <1>1, <2>4, <3>2
    <3>. QED
      BY <3>1, <3>2
  <2>9. Referred'
    BY <1>1, <2>1, <2>8 DEF Referred
  <2>. QED
    BY <2>6, <2>9
<1>19. ASSUME NEW r \in DOMAIN reviews, ReviewEnds(r) \/ Evict(r)
       PROVE  Referred' /\ PageIsSlot'
  <2>1. PICK status \in {"done", "failed", "gone"} :
          ReviewBecomes(r, {"queued"}, status) \/ ReviewBecomes(r, {"done", "failed"}, status)
    BY <1>19 DEF ReviewEnds, Evict
  <2>2. /\ reviews' = [reviews EXCEPT ![r] = [reviews[r] EXCEPT !.status = status]]
        /\ UNCHANGED <<page, slots, polling, submitting, resharing>>
    BY <1>0, <2>1 DEF ReviewBecomes
  <2>3. /\ Len(reviews') = Len(reviews)
        /\ \A n \in 1..Len(reviews) : reviews[n] \in Review
    BY <1>0, <2>2
  <2>4. \A n \in 1..Len(reviews) : reviews'[n].key = reviews[n].key
                                   /\ reviews'[n].game = reviews[n].game
    BY <1>0, <2>2, <2>3 DEF Review
  <2>5. Referred'
    BY <1>0, <1>1, <2>2, <2>3, <2>4 DEF Referred
  <2>6. PageIsSlot'
    BY <1>2, <2>2 DEF PageIsSlot
  <2>. QED
    BY <2>5, <2>6
<1>. QED
  BY <1>7, <1>8, <1>9, <1>10, <1>11, <1>12, <1>13, <1>14, <1>15, <1>16, <1>17, <1>18, <1>19
     DEF ReviewsNext

(* Every step but the end of a poll either lets the timer run for the job    *)
(* that it shows, or leaves job and timer; only a poll that is asked stops   *)
(* the timer of a job, and that poll is for this job.                        *)
LEMMA FollowedInductive ==
  Sorts /\ Referred /\ PageIsSlot /\ Followed /\ ReviewsNext => Followed'
<1>. SUFFICES ASSUME Sorts, Referred, PageIsSlot, Followed, ReviewsNext, ~overtaken'
              PROVE  IF polling' = Unsent THEN page'.job # NoReview => page'.timer
                                          ELSE page'.job \in {NoReview, polling'.review}
  BY DEF Followed
<1>0. /\ apiKey \in Keys \cup {NoKey} /\ page \in Page /\ slots \in [Keys -> JobMap]
      /\ polling \in Turn \cup {Unsent} /\ overtaken \in BOOLEAN
  BY DEF Sorts
<1>1. overtaken' = IF polling = Unsent /\ page'.timer THEN FALSE
                   ELSE overtaken \/ (polling # Unsent /\ page'.job \notin {NoReview, page.job})
  BY DEF ReviewsNext, Remember
<1>2. /\ polling # Unsent => ~overtaken /\ page'.job \in {NoReview, page.job}
                             /\ page.job \in {NoReview, polling.review}
      /\ polling = Unsent => \/ page'.timer
                             \/ page.job # NoReview => page.timer
  BY <1>0, <1>1 DEF Followed
<1>3. ASSUME polling' = polling,
             \/ page'.job # NoReview => page'.timer
             \/ page'.job = page.job /\ page'.timer = page.timer
      PROVE  IF polling' = Unsent THEN page'.job # NoReview => page'.timer
                                  ELSE page'.job \in {NoReview, polling'.review}
  BY <1>2, <1>3
<1>4. \/ Hydrated.job # NoReview => Hydrated.timer
      \/ Hydrated.job = page.job /\ Hydrated.timer = page.timer
  <2>1. Hydrated = page \/ (Hydrated.job = slots[apiKey].job
                            /\ Hydrated.timer = (slots[apiKey].job # NoReview))
    BY <1>0, Hydrating DEF Hydrated
  <2>. QED
    BY <2>1
<1>5. CASE \/ Accept \/ ReshareFails \/ \E k \in Keys \cup {NoKey} : SwitchKey(k)
           \/ \E r \in DOMAIN reviews : ReviewEnds(r) \/ Evict(r)
  <2>1. page' = page /\ polling' = polling
    BY <1>5 DEF Accept, ReshareFails, ReshareEnds, SwitchKey, ReviewEnds, Evict, ReviewBecomes
  <2>. QED
    BY <1>3, <2>1
<1>6. CASE \/ SubmitFails \/ ReshareIssued \/ \E g \in Records : Submit(g) \/ Reshare(g)
  <2>1. page' = Hydrated /\ polling' = polling
    BY <1>6 DEF SubmitFails, ReshareIssued, ReshareEnds, Submit, Reshare
  <2>. QED
    BY <1>3, <1>4, <2>1
<1>7. CASE Visit
  <2>1. polling' = polling
    BY <1>7 DEF Visit
  <2>2. Hydrated \in Page
    BY <1>0, Hydrating DEF Hydrated
  <2>3. page'.timer \/ page' = Hydrated
    BY <1>7, <2>2 DEF Visit, Page
  <2>. QED
    BY <1>3, <1>4, <2>1, <2>3
<1>8. CASE Relaunch
  BY <1>8 DEF Relaunch, Fresh
<1>9. CASE Submitted
  <2>1. page'.timer /\ polling' = polling
    BY <1>0, <1>9 DEF Submitted, Page
  <2>. QED
    BY <1>3, <2>1
<1>10. CASE Reshare404
  <2>1. page'.job = page.job /\ page'.timer = page.timer /\ polling' = polling
    BY <1>0, <1>10 DEF Reshare404, ReshareEnds, Unmarked, Page
  <2>. QED
    BY <1>3, <2>1
<1>11. CASE pollOnce
  <2>1. page'.job = page.job
    BY <1>0, <1>11 DEF pollOnce, Page
  <2>2. CASE polling # Unsent
    BY <1>2, <1>11, <2>1, <2>2 DEF pollOnce
  <2>3. CASE polling = Unsent /\ page.job = NoReview
    BY <1>11, <2>1, <2>3 DEF pollOnce
  <2>4. CASE polling = Unsent /\ page.job # NoReview /\ apiKey = NoKey
    BY <1>3, <1>11, <2>1, <2>4 DEF pollOnce
  <2>5. CASE polling = Unsent /\ page.job # NoReview /\ apiKey # NoKey
    <3>1. polling' = [key |-> apiKey, review |-> page.job]
      BY <1>11, <2>5 DEF pollOnce
    <3>2. polling' \in Turn
      BY <1>0, <2>5, <3>1 DEF Turn, Page
    <3>3. polling' # Unsent /\ polling'.review = page.job
      BY <3>1, <3>2, UnsentIs
    <3>. QED
      BY <2>1, <3>3
  <2>. QED
    BY <2>2, <2>3, <2>4, <2>5
<1>12. CASE JobAnswer \/ Job404 \/ JobPollFails
  <2>. DEFINE s == [slots EXCEPT ![page.owner].job = NoReview]
  <2>1. polling # Unsent /\ polling' = Unsent
    BY <1>12 DEF JobAnswer, Job404, JobPollFails, PollEnds
  <2>2. \/ page.job # polling.review /\ page' = page
        \/ page' = [page EXCEPT !.timer = TRUE]
        \/ page' = Finished
        \/ page' = ensureHydrated(Finished, s)
    BY <1>12 DEF JobAnswer, Job404, JobPollFails, Ignored, Rescheduled, finishJob
  <2>3. Finished \in Page /\ Finished.job = NoReview
    BY <1>0 DEF Finished, Page, NoReview
  <2>4. CASE page' = ensureHydrated(Finished, s)
    <3>1. page' = Finished \/ page'.timer = (page'.job # NoReview)
      BY <2>4 DEF ensureHydrated
    <3>. QED
      BY <2>1, <2>3, <3>1
  <2>5. CASE page' = [page EXCEPT !.timer = TRUE]
    BY <1>0, <2>1, <2>5 DEF Page
  <2>. QED
    BY <1>2, <2>1, <2>2, <2>3, <2>4, <2>5
<1>. QED
  BY <1>5, <1>6, <1>7, <1>8, <1>9, <1>10, <1>11, <1>12 DEF ReviewsNext

(* ---- what is kept ---- *)

Ledger == OneQueued /\ PollsItsOwn /\ OwnNamespace /\ NotForgotten /\ MapIsKept

LEMMA LedgerFrame ==
  ASSUME Ledger, UNCHANGED <<slots, reviews, known, strayed, misdirected>>,
         polling' \in {polling, Unsent}
  PROVE  Ledger'
BY DEF Ledger, OneQueued, PollsItsOwn, OwnNamespace, NotForgotten, MapIsKept, Newest

LEMMA LedgerPolled ==
  ASSUME Sorts, Referred, PageIsSlot, Ledger, pollOnce
  PROVE  Ledger'
<1>1. UNCHANGED <<slots, reviews, known, strayed>> /\ misdirected \in BOOLEAN
  BY DEF pollOnce, serverVars, Sorts
<1>2. CASE UNCHANGED <<polling, misdirected>>
  BY <1>1, <1>2, LedgerFrame
<1>3. CASE /\ polling' = [key |-> apiKey, review |-> page.job] /\ page.job # NoReview
           /\ apiKey # NoKey /\ misdirected' = (misdirected \/ page.owner # apiKey)
  <2>1. OneQueued' /\ OwnNamespace' /\ NotForgotten' /\ MapIsKept'
    BY <1>1, <1>3 DEF Ledger, OneQueued, OwnNamespace, NotForgotten, MapIsKept, Newest
  <2>2. ASSUME ~strayed, page.owner = apiKey
        PROVE  reviews[page.job].key = apiKey
    <3>1. apiKey \in Keys /\ page.job = slots[apiKey].job /\ page.job \in Nat
          /\ page.job <= Len(reviews)
      BY <1>3, <2>2 DEF Sorts, PageIsSlot, Referred, Page
    <3>2. page.job \in DOMAIN reviews
      BY <1>3, <3>1, ReviewIs DEF NoReview
    <3>. QED
      BY <2>2, <3>1, <3>2 DEF Ledger, OwnNamespace
  <2>3. PollsItsOwn'
    BY <1>1, <1>3, <2>2 DEF PollsItsOwn
  <2>. QED
    BY <2>1, <2>3 DEF Ledger
<1>. QED
  BY <1>2, <1>3 DEF pollOnce

(* A review that is new is nobody's mark yet, and the only one of its key    *)
(* that is queued.                                                           *)
LEMMA LedgerAccepted ==
  ASSUME Sorts, Referred, Ledger, Accept
  PROVE  Ledger'
<1>1. /\ submitting \in OfGame /\ UNCHANGED <<slots, known, polling, strayed, misdirected>>
      /\ Len(reviews) \in Nat /\ DOMAIN reviews = 1..Len(reviews)
      /\ known \subseteq 1..Len(reviews) /\ reviews \in Seq(Review)
      /\ \A r \in DOMAIN reviews : reviews[r].key = submitting.key
                                   => reviews[r].status # "queued"
  BY UnsentIs, ReviewIs DEF Accept, Sorts
<1>2. /\ DOMAIN reviews' = 1..(Len(reviews) + 1)
      /\ \A r \in 1..Len(reviews) : reviews'[r] = reviews[r]
      /\ reviews'[Len(reviews) + 1].key = submitting.key
  BY <1>1 DEF Accept
<1>3. OneQueued'
  <2>. SUFFICES ASSUME NEW r \in DOMAIN reviews', NEW n \in DOMAIN reviews', r < n,
                       reviews'[r].key = reviews'[n].key
                PROVE  reviews'[r].status # "queued"
    BY DEF OneQueued
  <2>1. CASE n \in 1..Len(reviews)
    BY <1>1, <1>2, <2>1 DEF Ledger, OneQueued
  <2>2. CASE n = Len(reviews) + 1
    BY <1>1, <1>2, <2>2
  <2>. QED
    BY <1>1, <1>2, <2>1, <2>2
<1>4. PollsItsOwn'
  BY <1>1, <1>2 DEF Ledger, PollsItsOwn, Referred
<1>5. OwnNamespace'
  <2>1. \A k \in Keys : slots[k].job # Len(reviews) + 1
                        /\ \A g \in Records : slots[k].gameMap[g] # Len(reviews) + 1
    BY <1>1 DEF Referred
  <2>. QED
    BY <1>1, <1>2, <2>1 DEF Ledger, OwnNamespace
<1>6. NotForgotten' /\ MapIsKept'
  BY <1>1, <1>2 DEF Ledger, NotForgotten, MapIsKept, Newest
<1>. QED
  BY <1>3, <1>4, <1>5, <1>6 DEF Ledger

(* The answer takes the place of a job that is over, for there is one queued *)
(* review of a key, and of the mark of an older review of the game.          *)
LEMMA LedgerSubmitted ==
  ASSUME Sorts, Referred, PageIsSlot, Ledger, Submitted
  PROVE  Ledger'
<1>. DEFINE r == submitting.review
            g == submitting.game
            k == submitting.key
            map == [page.gameMap EXCEPT ![g] = r]
<1>1. /\ submitting \in OfGame /\ k \in Keys /\ g \in Records
      /\ UNCHANGED <<reviews, polling, misdirected>> /\ known' = known \cup {r}
      /\ slots' = [slots EXCEPT ![page.owner] = [job |-> r, gameMap |-> map]]
      /\ strayed' = (strayed \/ page.owner # k) /\ strayed \in BOOLEAN
      /\ r = Len(reviews) /\ Len(reviews) > 0 /\ reviews[r].key = k /\ reviews[r].game = g
      /\ DOMAIN reviews = 1..Len(reviews) /\ known \subseteq 1..Len(reviews)
      /\ Len(reviews) \in Nat
  BY UnsentIs, ReviewIs DEF Submitted, Sorts, Referred, OfGame
<1>2. OneQueued' /\ PollsItsOwn'
  BY <1>1 DEF Ledger, OneQueued, PollsItsOwn
<1>3. CASE strayed'
  BY <1>2, <1>3 DEF Ledger, OwnNamespace, NotForgotten, MapIsKept
<1>4. CASE ~strayed'
  <2>1. ~strayed /\ page.owner = k
    BY <1>1, <1>4
  <2>2. page.gameMap = slots[k].gameMap /\ page.gameMap \in [Records -> Nat]
    BY <1>1, <2>1 DEF PageIsSlot, Sorts, Page
  <2>3. /\ slots'[k].job = r /\ slots'[k].gameMap = map
        /\ \A l \in Keys : l # k => slots'[l] = slots[l]
    BY <1>1, <2>1 DEF Sorts
  <2>4. map[g] = r /\ \A h \in Records : h # g => map[h] = slots[k].gameMap[h]
    BY <1>1, <2>2
  <2>. HIDE DEF map, r, g, k
  <2>5. OwnNamespace'
    BY <1>1, <2>1, <2>3, <2>4 DEF Ledger, OwnNamespace
  <2>6. NotForgotten'
    <3>. SUFFICES ASSUME ~misdirected, NEW n \in known', reviews[n].status = "queued"
                  PROVE  slots'[reviews[n].key].job = n
      BY <1>1 DEF NotForgotten
    <3>1. reviews[n].key \in Keys
      BY <1>1, ReviewIs
    <3>2. CASE reviews[n].key = k
      <4>1. n = r
        BY <1>1, <3>2 DEF Ledger, OneQueued
      <4>. QED
        BY <2>3, <3>2, <4>1
    <3>3. CASE reviews[n].key # k
      BY <1>1, <2>1, <2>3, <3>1, <3>3 DEF Ledger, NotForgotten
    <3>. QED
      BY <3>2, <3>3
  <2>7. MapIsKept'
    <3>. SUFFICES ASSUME NEW n \in known', reviews[n].status # "gone",
                         \A m \in known' : m > n => reviews[m].key # reviews[n].key
                                                    \/ reviews[m].game # reviews[n].game
                  PROVE  slots'[reviews[n].key].gameMap[reviews[n].game] = n
      BY <1>1 DEF MapIsKept, Newest
    <3>1. reviews[n].key \in Keys /\ reviews[n].game \in Records
      BY <1>1, ReviewIs
    <3>2. CASE n = r
      BY <1>1, <2>3, <2>4, <3>2
    <3>3. CASE n # r
      <4>1. n \in known /\ r > n /\ r \in known'
        BY <1>1, <3>3
      <4>2. reviews[n].key # k \/ reviews[n].game # g
        BY <1>1, <4>1
      <4>3. slots[reviews[n].key].gameMap[reviews[n].game] = n
        BY <1>1, <2>1, <4>1 DEF Ledger, MapIsKept, Newest
      <4>. QED
        BY <2>3, <2>4, <3>1, <4>2, <4>3
    <3>. QED
      BY <3>2, <3>3
  <2>. QED
    BY <1>2, <2>5, <2>6, <2>7 DEF Ledger
<1>. QED
  BY <1>3, <1>4

(* The end of a poll clears the slot of a job only if that is over.          *)
LEMMA LedgerPollEnds ==
  ASSUME Sorts, Referred, PageIsSlot, Ledger, JobAnswer \/ Job404 \/ JobPollFails
  PROVE  Ledger'
<1>. DEFINE q == polling.review
            k == page.owner
<1>1. /\ polling # Unsent /\ polling' = Unsent
      /\ UNCHANGED <<reviews, known, strayed, misdirected>>
      /\ q \in 1..Len(reviews) /\ DOMAIN reviews = 1..Len(reviews) /\ Len(reviews) \in Nat
      /\ known \subseteq 1..Len(reviews) /\ slots \in [Keys -> JobMap]
  BY ReviewIs DEF JobAnswer, Job404, JobPollFails, PollEnds, serverVars, Sorts, Referred
<1>2. \/ slots' = slots
      \/ /\ page.job = q /\ slots' = [slots EXCEPT ![k].job = NoReview]
         /\ reviews[q].status \in {"done", "failed"} \/ ~Found(polling)
  BY DEF JobAnswer, Job404, JobPollFails, Ignored, Rescheduled, finishJob
<1>3. CASE slots' = slots
  BY <1>1, <1>3, LedgerFrame
<1>4. CASE /\ page.job = q /\ slots' = [slots EXCEPT ![k].job = NoReview]
           /\ reviews[q].status \in {"done", "failed"} \/ ~Found(polling)
  <2>1. k \in Keys /\ slots[k].job = q
    BY <1>1, <1>4 DEF PageIsSlot, Sorts, Page, Fresh, NoReview
  <2>2. slots[k] \in JobMap /\ slots'[k] = [slots[k] EXCEPT !.job = NoReview]
        /\ \A l \in Keys : l # k => slots'[l] = slots[l]
    BY <1>1, <1>4, <2>1
  <2>3. slots'[k].job = 0 /\ slots'[k].gameMap = slots[k].gameMap
    BY <2>2 DEF JobMap, NoReview
  <2>4. \A l \in Keys : slots'[l].gameMap = slots[l].gameMap
                        /\ slots'[l].job \in {0, slots[l].job}
    BY <2>2, <2>3
  <2>. HIDE DEF q, k
  <2>5. OneQueued' /\ PollsItsOwn'
    BY <1>1 DEF Ledger, OneQueued, PollsItsOwn
  <2>6. OwnNamespace'
    BY <1>1, <2>4 DEF Ledger, OwnNamespace
  <2>7. MapIsKept'
    <3>1. \A r \in known : reviews[r].key \in Keys
      BY <1>1, ReviewIs
    <3>. QED
      BY <1>1, <2>4, <3>1 DEF Ledger, MapIsKept, Newest
  <2>8. NotForgotten'
    <3>. SUFFICES ASSUME ~strayed, ~misdirected, NEW r \in known,
                         reviews[r].status = "queued"
                  PROVE  slots'[reviews[r].key].job = r
      BY <1>1 DEF NotForgotten
    <3>1. slots[reviews[r].key].job = r /\ reviews[r].key \in Keys
      BY <1>1, ReviewIs DEF Ledger, NotForgotten
    <3>2. reviews[q].status # "queued"
      <4>1. reviews[q].key = polling.key
        BY <1>1 DEF Ledger, PollsItsOwn, q
      <4>. QED
        BY <1>4, <4>1 DEF Found, q
    <3>3. r # q
      BY <3>2
    <3>4. reviews[r].key # k
      BY <2>1, <3>1, <3>3
    <3>. QED
      BY <2>2, <3>1, <3>4
  <2>. QED
    BY <2>5, <2>6, <2>7, <2>8 DEF Ledger
<1>. QED
  BY <1>2, <1>3, <1>4

(* The mark that a 404 takes away is that of a review the server dropped.    *)
LEMMA LedgerUnmarked ==
  ASSUME Sorts, Referred, PageIsSlot, Ledger, Reshare404
  PROVE  Ledger'
<1>. DEFINE q == resharing.review
            g == resharing.game
            k == resharing.key
<1>1. /\ resharing # Unsent /\ resharing \in OfGame /\ k \in Keys /\ g \in Records
      /\ UNCHANGED <<reviews, known, polling, misdirected>> /\ ~Found(resharing)
      /\ q \in 1..Len(reviews) /\ DOMAIN reviews = 1..Len(reviews) /\ Len(reviews) \in Nat
      /\ known \subseteq 1..Len(reviews) /\ slots \in [Keys -> JobMap] /\ page \in Page
      /\ page' = [page EXCEPT !.gameMap[g] = NoReview]
      /\ slots' = [slots EXCEPT ![page.owner].gameMap = page'.gameMap]
      /\ strayed' = (strayed \/ page.owner # k \/ page.gameMap[g] # q) /\ strayed \in BOOLEAN
  BY UnsentIs, ReviewIs DEF Reshare404, ReshareEnds, Unmarked, serverVars, Sorts, Referred, OfGame
<1>2. OneQueued' /\ PollsItsOwn'
  BY <1>1 DEF Ledger, OneQueued, PollsItsOwn
<1>3. CASE strayed'
  BY <1>2, <1>3 DEF Ledger, OwnNamespace, NotForgotten, MapIsKept
<1>4. CASE ~strayed'
  <2>1. ~strayed /\ page.owner = k /\ page.gameMap[g] = q
    BY <1>1, <1>4
  <2>2. page.gameMap = slots[k].gameMap /\ page.gameMap \in [Records -> Nat]
    BY <1>1, <2>1 DEF PageIsSlot, Page
  <2>3. page'.gameMap = [page.gameMap EXCEPT ![g] = NoReview]
    BY <1>1 DEF Page
  <2>4. slots[k] \in JobMap /\ slots'[k] = [slots[k] EXCEPT !.gameMap = page'.gameMap]
        /\ \A l \in Keys : l # k => slots'[l] = slots[l]
    BY <1>1, <2>1
  <2>5. slots'[k].job = slots[k].job /\ slots'[k].gameMap = page'.gameMap
    BY <2>4 DEF JobMap
  <2>6. slots'[k].gameMap[g] = 0
        /\ \A h \in Records : h # g => slots'[k].gameMap[h] = slots[k].gameMap[h]
    BY <1>1, <2>2, <2>3, <2>5 DEF NoReview
  <2>7. reviews[q].key = k /\ reviews[q].game = g
    BY <1>1, <2>1, <2>2 DEF Ledger, OwnNamespace
  <2>8. reviews[q].status = "gone"
    BY <1>1, <2>7 DEF Found
  <2>. HIDE DEF q, g, k
  <2>9. \A l \in Keys : slots'[l].job = slots[l].job
                        /\ \A h \in Records : slots'[l].gameMap[h] \in {0, slots[l].gameMap[h]}
    BY <2>4, <2>5, <2>6
  <2>10. OwnNamespace'
    BY <1>1, <2>1, <2>9 DEF Ledger, OwnNamespace
  <2>11. NotForgotten'
    <3>1. \A r \in known : reviews[r].key \in Keys
      BY <1>1, ReviewIs
    <3>. QED
      BY <1>1, <2>1, <2>9, <3>1 DEF Ledger, NotForgotten
  <2>12. MapIsKept'
    <3>. SUFFICES ASSUME NEW r \in known, reviews[r].status # "gone",
                         \A n \in known : n > r => reviews[n].key # reviews[r].key
                                                   \/ reviews[n].game # reviews[r].game
                  PROVE  slots'[reviews[r].key].gameMap[reviews[r].game] = r
      BY <1>1 DEF MapIsKept, Newest
    <3>1. slots[reviews[r].key].gameMap[reviews[r].game] = r
      BY <2>1 DEF Ledger, MapIsKept, Newest
    <3>2. reviews[r].key \in Keys /\ reviews[r].game \in Records
      BY <1>1, ReviewIs
    <3>3. ~(reviews[r].key = k /\ reviews[r].game = g)
      <4>. SUFFICES ASSUME reviews[r].key = k, reviews[r].game = g
                    PROVE  FALSE
        OBVIOUS
      <4>1. r = q
        BY <2>1, <2>2, <3>1
      <4>. QED
        BY <2>8, <4>1
    <3>. QED
      BY <2>4, <2>6, <3>1, <3>2, <3>3
  <2>. QED
    BY <1>2, <2>10, <2>11, <2>12 DEF Ledger
<1>. QED
  BY <1>3, <1>4

(* The server ends and drops reviews, and never takes one up again.          *)
LEMMA LedgerReview ==
  ASSUME Sorts, Referred, Ledger, NEW r \in DOMAIN reviews, ReviewEnds(r) \/ Evict(r)
  PROVE  Ledger'
<1>1. PICK status \in {"done", "failed", "gone"} :
        \/ reviews[r].status = "queued" /\ ReviewBecomes(r, {"queued"}, status)
        \/ reviews[r].status \in {"done", "failed"} /\ status = "gone"
           /\ ReviewBecomes(r, {"done", "failed"}, status)
  BY DEF ReviewEnds, Evict, ReviewBecomes
<1>2. /\ reviews' = [reviews EXCEPT ![r] = [reviews[r] EXCEPT !.status = status]]
      /\ UNCHANGED <<slots, known, polling, strayed, misdirected>>
      /\ DOMAIN reviews' = DOMAIN reviews /\ known \subseteq DOMAIN reviews
      /\ \A n \in DOMAIN reviews : reviews[n] \in Review
      /\ DOMAIN reviews = 1..Len(reviews) /\ Len(reviews) \in Nat
  BY <1>1, ReviewIs DEF ReviewBecomes, Sorts
<1>3. \A n \in DOMAIN reviews :
        /\ reviews'[n].key = reviews[n].key /\ reviews'[n].game = reviews[n].game
        /\ reviews'[n].status = "queued" => reviews[n].status = "queued"
        /\ reviews'[n].status # "gone" => reviews[n].status # "gone"
  <2>. SUFFICES ASSUME NEW n \in DOMAIN reviews
                PROVE  /\ reviews'[n].key = reviews[n].key /\ reviews'[n].game = reviews[n].game
                       /\ reviews'[n].status = "queued" => reviews[n].status = "queued"
                       /\ reviews'[n].status # "gone" => reviews[n].status # "gone"
    OBVIOUS
  <2>1. CASE n = r
    <3>1. reviews'[n].status = status /\ reviews'[n].key = reviews[n].key
          /\ reviews'[n].game = reviews[n].game
      BY <1>2, <2>1 DEF Review
    <3>. QED
      BY <1>1, <2>1, <3>1
  <2>2. CASE n # r
    BY <1>2, <2>2
  <2>. QED
    BY <2>1, <2>2
<1>4. OneQueued'
  BY <1>2, <1>3 DEF Ledger, OneQueued
<1>5. PollsItsOwn'
  BY <1>2, <1>3 DEF Ledger, PollsItsOwn, Referred
<1>6. OwnNamespace'
  BY <1>2, <1>3 DEF Ledger, OwnNamespace
<1>7. NotForgotten'
  BY <1>2, <1>3 DEF Ledger, NotForgotten
<1>8. MapIsKept'
  BY <1>2, <1>3 DEF Ledger, MapIsKept, Newest
<1>. QED
  BY <1>4, <1>5, <1>6, <1>7, <1>8 DEF Ledger

LEMMA LedgerInductive ==
  Sorts /\ Referred /\ PageIsSlot /\ Ledger /\ ReviewsNext => Ledger'
<1>. SUFFICES ASSUME Sorts, Referred, PageIsSlot, Ledger, ReviewsNext
              PROVE  Ledger'
  OBVIOUS
<1>1. CASE \/ Visit \/ Relaunch \/ SubmitFails \/ ReshareIssued \/ ReshareFails
           \/ \E k \in Keys \cup {NoKey} : SwitchKey(k)
           \/ \E g \in Records : Submit(g) \/ Reshare(g)
  <2>1. UNCHANGED <<slots, reviews, known, strayed, misdirected>>
        /\ polling' \in {polling, Unsent}
    BY <1>1 DEF Visit, Relaunch, SubmitFails, ReshareIssued, ReshareFails, ReshareEnds,
                SwitchKey, Submit, Reshare, serverVars
  <2>. QED
    BY <2>1, LedgerFrame
<1>2. CASE \E r \in DOMAIN reviews : ReviewEnds(r) \/ Evict(r)
  BY <1>2, LedgerReview
<1>. QED
  BY <1>1, <1>2, LedgerPolled, LedgerAccepted, LedgerSubmitted, LedgerPollEnds, LedgerUnmarked
     DEF ReviewsNext

LEMMA ReviewsInitial == ReviewsInit => ReviewsInv
<1>. SUFFICES ASSUME ReviewsInit
              PROVE  ReviewsInv
  OBVIOUS
<1>1. slots \in [Keys -> JobMap] /\ \A k \in Keys : slots[k] = Emptied
  BY FreshType DEF ReviewsInit
<1>2. reviews \in Seq(Review) /\ Len(reviews) = 0 /\ DOMAIN reviews = {}
  BY DEF ReviewsInit
<1>3. Sorts
  BY <1>1, <1>2, FreshType DEF ReviewsInit, Sorts
<1>4. Referred
  BY <1>1, <1>2 DEF ReviewsInit, Referred, Emptied, Unreviewed, NoReview
<1>5. PageIsSlot
  BY ReviewsAssumption DEF ReviewsInit, PageIsSlot, Fresh
<1>6. OneQueued /\ PollsItsOwn /\ Followed /\ OwnNamespace /\ NotForgotten /\ MapIsKept
  BY <1>2 DEF ReviewsInit, OneQueued, PollsItsOwn, Followed, OwnNamespace, NotForgotten,
              MapIsKept, Fresh
<1>. QED
  BY <1>3, <1>4, <1>5, <1>6 DEF ReviewsInv

LEMMA ReviewsInductive == ReviewsInv /\ [ReviewsNext]_reviewsVars => ReviewsInv'
<1>. SUFFICES ASSUME ReviewsInv, [ReviewsNext]_reviewsVars
              PROVE  ReviewsInv'
  OBVIOUS
<1>1. CASE ReviewsNext
  BY <1>1, SortsInductive, RefInductive, FollowedInductive, LedgerInductive
     DEF ReviewsInv, Ledger
<1>2. CASE UNCHANGED reviewsVars
  BY <1>2 DEF reviewsVars, serverVars, boundVars, ReviewsInv, Sorts, Referred, PageIsSlot,
              OneQueued, PollsItsOwn, Followed, OwnNamespace, NotForgotten, MapIsKept, Newest
<1>. QED
  BY <1>1, <1>2

LEMMA ReviewsInvariant == ReviewsSpec => []ReviewsInv
BY ReviewsInitial, ReviewsInductive, PTL DEF ReviewsSpec

(* OwnNamespace: as long as no answer came when the store had gone on to     *)
(* another slot or mark, whatever reviewStore.ts keeps for a key is a review *)
(* of this key and of the game it is kept for, through every order of        *)
(* switches, visits, restarts, calls and answers.                            *)
THEOREM NamespaceSafety == ReviewsSpec => []OwnNamespace
<1>1. ReviewsInv => OwnNamespace
  BY DEF ReviewsInv
<1>. QED
  BY <1>1, ReviewsInvariant, PTL

(* ReviewsAreFollowed: a review that was accepted and is not over stays the  *)
(* job of its key's slot, the job on display goes on being polled (but for   *)
(* one taken up while the poll of another was under way), and a game stays   *)
(* marked with its newest accepted review until the server dropped it.       *)
THEOREM FollowedSafety == ReviewsSpec => []ReviewsAreFollowed
<1>1. ReviewsInv => ReviewsAreFollowed
  BY DEF ReviewsInv, Followed, ReviewsAreFollowed, JobIsPolled
<1>. QED
  BY <1>1, ReviewsInvariant, PTL
=============================================================================
