------------------------------- MODULE Purchase -------------------------------
(***************************************************************************)
(* Buying a key for the inference service: the purchase store of the front *)
(* end (src/frontend/src/stores/purchaseStore.ts), the dialog that shows   *)
(* it (components/PurchaseDialog.tsx) and the settings page the key goes   *)
(* to (components/NativeApiFields.tsx).  An order is created, the buyer    *)
(* pays in the browser, and the store polls until the key, or a code to be *)
(* redeemed for one, is there.  Dialog and page may come and go meanwhile. *)
(*                                                                         *)
(* Every call to the program is sent in one step and answered in another;  *)
(* answers of a purchase that was dismissed still arrive.  An order, its   *)
(* code and the key bought by it have the order's number.                  *)
(***************************************************************************)
EXTENDS Naturals, Sequences

CONSTANT MaxOrders   \* bound: purchases started

ASSUME OrdersAssumption == MaxOrders \in Nat

Orders == 1..MaxOrders
None == 0

VARIABLES
  shown,       \* the state of the store
  generation, active, timer,   \* its module variables; timer: the generation to poll for
  calls,       \* calls to the program that are not answered
  sink,        \* a dialog is mounted and has set the claim sink
  field,       \* the key in the settings page's field
  saved,       \* the key in the configuration
  saves,       \* keys being saved
  order,       \* the server's orders, in the order they were made
  started,     \* purchases started
  newest,      \* history: the key that was delivered last
  spoiled      \* history: a save failed, or ran beside another

purchaseVars == <<shown, generation, active, timer, calls, sink, field, saved, saves, order,
                  started, newest, spoiled>>

Idle == [phase |-> "idle", code |-> None, key |-> None, renew |-> FALSE,
         deliveredToUi |-> FALSE, persistedFallback |-> FALSE]

PurchaseInit ==
  /\ shown = Idle /\ generation = 0 /\ active = None /\ timer = 0 /\ calls = {}
  /\ sink = FALSE /\ field = None /\ saved = None /\ saves = {} /\ order = <<>> /\ started = 0
  /\ newest = None /\ spoiled = FALSE

pageVars == <<sink, field, saved, saves, newest, spoiled>>

Call(kind, o, subscription, renew) ==
  [kind |-> kind, gen |-> generation, order |-> o, subscription |-> subscription,
   renew |-> renew]

(* ---- outcomes ---- *)

Fail == timer' = 0 /\ shown' = [shown EXCEPT !.phase = "failed"]
Delivered == timer' = 0 /\ shown' = [shown EXCEPT !.phase = "delivered"]

SaveKey(k, fallback) ==
  /\ saves' = saves \cup {[key |-> k, fallback |-> fallback]}
  /\ spoiled' = (spoiled \/ saves # {})

(* Mutant of deliverKey: the key is for the dialog, open or not.             *)
deliverKeyToDialog(k) ==
  /\ timer' = 0 /\ newest' = k
  /\ shown' = [shown EXCEPT !.phase = "done", !.key = k, !.deliveredToUi = TRUE]
  /\ IF sink THEN field' = k /\ SaveKey(k, FALSE) ELSE UNCHANGED <<field, saves, spoiled>>
  /\ UNCHANGED <<sink, saved>>
(* The key goes to the open dialog, which puts it in the field and saves it, *)
(* or straight into the configuration.                                       *)
deliverKey(k) ==
  /\ timer' = 0 /\ newest' = k
  /\ shown' = [shown EXCEPT !.phase = "done", !.key = k, !.deliveredToUi = sink]
  /\ field' = IF sink THEN k ELSE field
  /\ SaveKey(k, ~sink)
  /\ UNCHANGED <<sink, saved>>

(* ---- start ---- *)

(* The Buy button of the dialog is there in phase idle only.                 *)
Start(subscription, renew) ==
  /\ sink /\ shown.phase = "idle" /\ started < MaxOrders
  /\ started' = started + 1 /\ generation' = generation + 1 /\ timer' = 0 /\ active' = None
  /\ shown' = [Idle EXCEPT !.phase = "creating", !.renew = renew /\ ~subscription]
  /\ calls' = calls \cup {[Call("create", None, subscription, renew /\ ~subscription)
                            EXCEPT !.gen = generation + 1]}
  /\ UNCHANGED <<pageVars, order>>

(* The server takes the order.  It redeems the code itself when it was asked *)
(* to and knows how.                                                         *)
Gives(c) == IF c.subscription THEN {"key"} ELSE IF c.renew THEN {"code"} ELSE {"key", "code"}
Created(c) ==
  /\ c \in calls /\ c.kind = "create" /\ calls' = calls \ {c}
  /\ \E gives \in Gives(c) : order' = Append(order, [status |-> "open", gives |-> gives])
  /\ IF c.gen = generation
       THEN /\ active' = Len(order) + 1 /\ timer' = generation
            /\ shown' = [shown EXCEPT !.phase = "approving"]
       ELSE UNCHANGED <<active, timer, shown>>
  /\ UNCHANGED <<pageVars, generation, started>>
CreateFails(c) ==
  /\ c \in calls /\ c.kind = "create" /\ calls' = calls \ {c}
  /\ IF c.gen = generation THEN Fail ELSE UNCHANGED <<timer, shown>>
  /\ UNCHANGED <<pageVars, generation, active, order, started>>

(* ---- the server and the buyer ---- *)

Becomes(o, from, status) ==
  /\ o \in DOMAIN order /\ order[o].status \in from
  /\ order' = [order EXCEPT ![o].status = status]
  /\ UNCHANGED <<shown, generation, active, timer, calls, pageVars, started>>
Pay(o) == Becomes(o, {"open"}, "ready")
WindowPasses(o) == Becomes(o, {"ready"}, "delivered")
CallOff(o) == Becomes(o, {"open", "ready"}, "refunded")

(* ---- the poll ---- *)

(* The timer of a purchase that is not waiting any more sends nothing.       *)
Poll ==
  /\ timer # 0 /\ timer' = 0
  /\ calls' = IF active # None /\ timer = generation /\ shown.phase = "approving"
                THEN calls \cup {Call("poll", active, FALSE, FALSE)} ELSE calls
  /\ UNCHANGED <<shown, generation, active, pageVars, order, started>>
PollDeadline ==
  /\ timer # 0 /\ timer = generation /\ shown.phase = "approving" /\ Fail
  /\ UNCHANGED <<generation, active, calls, pageVars, order, started>>

(* The code is exchanged; the answer to an older exchange is not waited for. *)
redeemCode(o, renew) ==
  /\ shown' = [shown EXCEPT !.phase = "redeeming", !.code = o, !.renew = renew]
  /\ calls' = (calls \ {c \in calls : c.kind = "poll" /\ c.gen = generation})
                \cup {Call("redeem", o, FALSE, renew)}

(* handleOrderResult and handleSubscriptionResult: the key first, then the   *)
(* code.                                                                     *)
HandleResult(c) ==
  LET o == order[c.order]
      Answered == calls' = calls \ {c} IN
  \/ o.status = "open" /\ Answered /\ timer' = generation /\ UNCHANGED <<shown, pageVars>>
  \/ o.status = "ready" /\ o.gives = "key" /\ Answered /\ deliverKey(c.order)
  \/ /\ o.status = "ready" /\ o.gives = "code"
     /\ redeemCode(c.order, shown.renew) /\ UNCHANGED <<timer, pageVars>>
  \/ o.status \in {"delivered", "spent"} /\ Answered /\ Delivered /\ UNCHANGED pageVars
  \/ o.status = "refunded" /\ Answered /\ Fail /\ UNCHANGED pageVars

(* Mutant of Current: an answer is an answer.                                *)
AnyGeneration(c) == TRUE
Current(c) == c.gen = generation
PollAnswer(c) ==
  /\ c \in calls /\ c.kind = "poll"
  /\ IF Current(c) THEN HandleResult(c)
       ELSE calls' = calls \ {c} /\ UNCHANGED <<shown, timer, pageVars>>
  /\ UNCHANGED <<generation, active, order, started>>

Retry == timer' = generation
PollFails(c) ==
  /\ c \in calls /\ c.kind = "poll" /\ calls' = calls \ {c}
  /\ IF Current(c) THEN Retry ELSE UNCHANGED timer
  /\ UNCHANGED <<shown, generation, active, pageVars, order, started>>
(* A 404: the claim is not known any more.                                   *)
PollRefused(c) ==
  /\ c \in calls /\ c.kind = "poll" /\ calls' = calls \ {c}
  /\ IF Current(c) THEN Fail ELSE UNCHANGED <<timer, shown>>
  /\ UNCHANGED <<generation, active, pageVars, order, started>>

(* ---- the exchange of a code ---- *)

Redeemable(o) == order[o].status \in {"ready", "delivered"}
RedeemAnswer(c) ==
  /\ c \in calls /\ c.kind = "redeem" /\ Redeemable(c.order) /\ calls' = calls \ {c}
  /\ order' = [order EXCEPT ![c.order].status = "spent"]
  /\ \/ ~Current(c) /\ UNCHANGED <<shown, timer, pageVars>>
     \/ Current(c) /\ ~c.renew /\ deliverKey(c.order)
     \/ /\ Current(c) /\ c.renew
        /\ timer' = 0 /\ shown' = [shown EXCEPT !.phase = "done"] /\ UNCHANGED pageVars
  /\ UNCHANGED <<generation, active, started>>
(* The request or its answer is lost, or the server does not take the code.  *)
RedeemFails(c) ==
  /\ c \in calls /\ c.kind = "redeem" /\ calls' = calls \ {c}
  /\ \/ UNCHANGED order
     \/ Redeemable(c.order) /\ order' = [order EXCEPT ![c.order].status = "spent"]
  /\ shown' = IF Current(c) THEN [shown EXCEPT !.phase = "redeem_failed"] ELSE shown
  /\ UNCHANGED <<generation, active, timer, pageVars, started>>
retryRedeem(renew) ==
  /\ sink /\ shown.phase = "redeem_failed" /\ (renew => shown.renew)
  /\ redeemCode(shown.code, renew)
  /\ UNCHANGED <<generation, active, timer, pageVars, order, started>>

(* ---- the dialog and the page ---- *)

(* Cancel while the buyer is away, Close once it is over.                    *)
Dismiss ==
  /\ sink /\ shown.phase \in {"approving", "done", "delivered", "failed"}
  /\ timer' = 0 /\ generation' = generation + 1 /\ active' = None /\ shown' = Idle
  /\ sink' = (shown.phase = "approving")
  /\ UNCHANGED <<calls, field, saved, saves, newest, spoiled, order, started>>
(* A key that came while no dialog was open is claimed by the next one.      *)
Open ==
  /\ ~sink /\ sink' = TRUE
  /\ IF shown.phase = "done" /\ shown.key # None /\ ~shown.deliveredToUi
       THEN /\ shown' = [shown EXCEPT !.deliveredToUi = TRUE]
            /\ field' = shown.key /\ SaveKey(shown.key, FALSE)
       ELSE UNCHANGED <<shown, field, saves, spoiled>>
  /\ UNCHANGED <<generation, active, timer, calls, saved, newest, order, started>>
(* The dialog is closed, alone or with its page, whose fields then go.       *)
Leave ==
  /\ sink /\ sink' = FALSE /\ field' \in {field, saved}
  /\ UNCHANGED <<shown, generation, active, timer, calls, saved, saves, newest, spoiled, order,
                 started>>

SaveEnds(s) ==
  /\ s \in saves /\ saves' = saves \ {s} /\ saved' = s.key
  /\ shown' = IF s.fallback THEN [shown EXCEPT !.persistedFallback = TRUE] ELSE shown
  /\ UNCHANGED <<generation, active, timer, calls, sink, field, newest, spoiled, order, started>>
SaveFails(s) ==
  /\ s \in saves /\ saves' = saves \ {s} /\ spoiled' = TRUE
  /\ UNCHANGED <<shown, generation, active, timer, calls, sink, field, saved, newest, order,
                 started>>

PurchaseNext ==
  \/ \E subscription, renew \in BOOLEAN : Start(subscription, renew)
  \/ \E c \in calls : \/ Created(c) \/ CreateFails(c) \/ PollAnswer(c) \/ PollFails(c)
                      \/ PollRefused(c)
                      \/ RedeemAnswer(c) \/ RedeemFails(c)
  \/ \E o \in Orders : Pay(o) \/ WindowPasses(o) \/ CallOff(o)
  \/ Poll \/ PollDeadline \/ \E renew \in BOOLEAN : retryRedeem(renew)
  \/ Dismiss \/ Open \/ Leave \/ \E s \in saves : SaveEnds(s) \/ SaveFails(s)

PurchaseSpec == PurchaseInit /\ [][PurchaseNext]_purchaseVars

(* ---- properties ---- *)

Mine == {c \in calls : c.gen = generation}

(* A purchase that is not over has exactly one thing under way, a timer or a *)
(* call, and it is the one its phase waits for; one that is over, or was     *)
(* dismissed, has none.                                                      *)
OneActivity ==
  CASE shown.phase = "creating" -> timer = 0 /\ \E c \in Mine : Mine = {c} /\ c.kind = "create"
    [] shown.phase = "redeeming" -> timer = 0 /\ \E c \in Mine : Mine = {c} /\ c.kind = "redeem"
    [] shown.phase = "approving" ->
         \/ timer = generation /\ Mine = {}
         \/ timer = 0 /\ \E c \in Mine : Mine = {c} /\ c.kind = "poll"
    [] OTHER -> timer = 0 /\ Mine = {}

(* A code or key on display is that of the purchase on display, whatever     *)
(* answers of earlier ones still come in.                                    *)
ShownIsCurrent == shown.code \in {None, active} /\ shown.key \in {None, active}

(* purchaseStore.ts:45, "A paid key must never be lost": the key delivered   *)
(* last is on display, in the field, being saved or saved.                   *)
KeyIsKept ==
  newest # None /\ ~spoiled =>
    \/ newest \in {shown.key, field, saved}
    \/ \E s \in saves : s.key = newest
=============================================================================
