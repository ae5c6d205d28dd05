------------------------------ MODULE Autoplay ------------------------------
(***************************************************************************)
(* The autoplay manager (src/src/autoplay/manager.rs) pressing the client's  *)
(* buttons: Majsoul in click mode, with its verification and retries        *)
(* (src/src/autoplay/verify.rs, src/src/autoplay/budget.rs), and Tenhou.    *)
(*                                                                         *)
(* The bridge writes the open decision window into a slot the manager reads.*)
(* A window's identity is the instant it opened, here a number.  The bot    *)
(* answers each window at most once, as late as it likes.  The manager      *)
(* plans a reply against the window that is open when it reads it, sleeps,  *)
(* checks once that the window has not moved, presses, and on Majsoul waits *)
(* for the client's own input command, pressing again when none comes.      *)
(***************************************************************************)
EXTENDS Naturals, Sequences

CONSTANTS MaxWindows,      \* bound: decision windows in one behaviour
          Retries,         \* click_retries
          ReloadAfter      \* reload_after_failures

ASSUME ConfigAssumption ==
  MaxWindows \in Nat /\ Retries \in Nat /\ ReloadAfter \in Nat \ {0}

(* The bot's action, by the presses it takes: a tile; a button; a button    *)
(* and a candidate; the riichi button and the declaring tile.               *)
Actions == {"dahai", "button", "meld", "reach"}
InputKinds == {"discard", "reach", "other"}

VARIABLES
  platform,   \* "majsoul" or "tenhou"
  slot,       \* the open window (time_budget, tenhou_state.window); 0: none
  opened,     \* windows opened so far
  done,       \* the window whose input the client has sent; 0: none
  armed,      \* the client shows what the first of two presses asked for
  watch,      \* InputWatch: input commands sent, and those not plain discards
  \* buses
  replied,    \* windows the bot has replied to, or passed over
  replies,    \* BotResponseBus, as received
  boundary,   \* mjai events waiting that reset ManagerState: "none", "hand", "game"
  \* the manager
  pc,         \* where handle_bot_response is suspended
  act,        \* the action being played
  planned,    \* the window it was planned against
  ticket,     \* InputTicket
  left,       \* presses still to make
  attempt,    \* verify_and_retry's attempt
  acted,      \* acted_window
  dead,       \* dead_clicks
  \* history
  raced,      \* the window moved since it was last compared with `planned`
  landed,     \* the last input a press caused: its plan's window, the window it
              \* answered, whether the window moved under the press
  answers     \* plans pressed for each window since ManagerState was last reset

client == <<platform, slot, opened, done, armed, watch>>
buses == <<replied, replies, boundary>>
plan == <<act, planned, ticket, left, attempt>>
history == <<raced, landed, answers>>
vars == <<platform, slot, opened, done, armed, watch, replied, replies, boundary, pc, act,
          planned, ticket, left, attempt, acted, dead, raced, landed, answers>>

Windows == 1..MaxWindows
NoInput == [sent |-> 0, nonDiscard |-> 0]
NoAnswers == [w \in Windows |-> 0]

Init ==
  /\ platform \in {"majsoul", "tenhou"}
  /\ slot = 0 /\ opened = 0 /\ done = 0 /\ armed = FALSE /\ watch = NoInput
  /\ replied = 0 /\ replies = <<>> /\ boundary = "none"
  /\ pc = "idle" /\ act = "dahai" /\ planned = 0 /\ ticket = NoInput /\ left = 0 /\ attempt = 0
  /\ acted = 0 /\ dead = 0
  /\ raced = FALSE /\ landed = [plan |-> 0, window |-> 0, raced |-> FALSE]
  /\ answers = NoAnswers

-----------------------------------------------------------------------------
(* The client and the bridge.                                               *)

MoveTo(w) ==
  /\ slot' = w /\ armed' = FALSE
  /\ raced' = (raced \/ pc = "press")
  /\ UNCHANGED <<platform, done, watch, buses, pc, plan, acted, dead, landed, answers>>

(* An action frame with an operation for our seat, in the place of whatever *)
(* window was open; or one without.                                         *)
OpenWindow == opened < MaxWindows /\ opened' = opened + 1 /\ MoveTo(opened + 1)
CloseWindow == slot # 0 /\ UNCHANGED opened /\ MoveTo(0)

(* The bridge counts the input command; only Majsoul's does.                *)
NoteSent(kind) ==
  watch' = IF platform = "tenhou" THEN watch
           ELSE [watch EXCEPT !.sent = @ + 1,
                              !.nonDiscard = IF kind = "discard" THEN @ ELSE @ + 1]

(* The client answers the open window, once.                                *)
Input(kind) ==
  /\ slot # 0 /\ done # slot
  /\ done' = slot /\ armed' = FALSE /\ NoteSent(kind)

(* A hand on the mouse, or the client's tsumogiri when the clock runs out.  *)
ClientActs ==
  /\ \E kind \in InputKinds : Input(kind)
  /\ UNCHANGED <<platform, slot, opened, buses, pc, plan, acted, dead, history>>

(* The bot answers windows in order, and may pass one over.                 *)
BotReplies ==
  /\ \E w \in (replied + 1)..opened : replied' = w
  /\ \E a \in Actions : replies' = Append(replies, a)
  /\ UNCHANGED <<client, boundary, pc, plan, acted, dead, history>>

(* StartGame or EndGame; StartKyoku or EndKyoku.                            *)
EventArrives ==
  /\ boundary = "none" /\ boundary' \in {"hand", "game"}
  /\ UNCHANGED <<client, replied, replies, pc, plan, acted, dead, history>>

-----------------------------------------------------------------------------
(* The select loop, between handlers.                                       *)

(* handle_mjai_event: ManagerState is reset, but for the dead-click count   *)
(* when only the hand changes.                                              *)
HandleEvent ==
  /\ pc = "idle" /\ boundary # "none" /\ boundary' = "none"
  /\ acted' = 0 /\ answers' = NoAnswers
  /\ dead' = IF boundary = "game" THEN 0 ELSE dead
  /\ UNCHANGED <<client, replied, replies, pc, plan, raced, landed>>

Take == pc = "idle" /\ replies # <<>> /\ replies' = Tail(replies)

AlreadyActed == platform = "tenhou" /\ slot # 0 /\ acted = slot

(* Autoplay off, no seat or snapshot, an action the live state does not     *)
(* allow, no canvas, or a Tenhou window that was acted on.                  *)
DropReply ==
  /\ Take
  /\ UNCHANGED <<client, replied, boundary, pc, plan, acted, dead, history>>

Presses(a) == IF a = "reach" \/ (a = "meld" /\ platform = "majsoul") THEN 2 ELSE 1

(* Mutant of PlanReply: acted_window is not remembered.                     *)
PlanReplyForgets ==
  /\ Take /\ ~AlreadyActed
  /\ pc' = "delay" /\ act' = Head(replies) /\ planned' = slot /\ ticket' = watch
  /\ left' = Presses(Head(replies)) /\ attempt' = 0 /\ raced' = FALSE
  /\ UNCHANGED <<client, replied, boundary, acted, dead, landed, answers>>

(* The reply is planned against the window that is open now.                *)
PlanReply ==
  /\ Take /\ ~AlreadyActed
  /\ pc' = "delay" /\ act' = Head(replies) /\ planned' = slot /\ ticket' = watch
  /\ left' = Presses(Head(replies)) /\ attempt' = 0 /\ raced' = FALSE
  /\ acted' = IF platform = "tenhou" /\ slot # 0 THEN slot ELSE acted
  /\ UNCHANGED <<client, replied, boundary, dead, landed, answers>>

-----------------------------------------------------------------------------
(* The plan's steps.                                                        *)

Return == pc' = "idle" /\ act' = "dahai" /\ planned' = 0 /\ ticket' = NoInput /\ left' = 0
          /\ attempt' = 0 /\ raced' = FALSE

(* Mutant of StillOpen: the window's identity is not compared, only that    *)
(* one is open.                                                             *)
StillOpenAny == planned = 0 \/ slot # 0

(* window_still_open, tenhou_window_moved.                                  *)
StillOpen == planned = 0 \/ slot = planned

(* The delay is over and the window has not moved: press.                   *)
DelayOver ==
  /\ pc = "delay" /\ StillOpen
  /\ pc' = "press" /\ raced' = FALSE
  /\ answers' = [w \in Windows |-> IF w = planned THEN answers[w] + 1 ELSE answers[w]]
  /\ UNCHANGED <<client, buses, plan, acted, dead, landed>>

(* The window moved during the delay, Tenhou's client never became ready,   *)
(* or there is no page: nothing is pressed.                                 *)
DropPlan ==
  /\ pc = "delay" /\ Return
  /\ UNCHANGED <<client, buses, acted, dead, landed, answers>>

(* What the last press makes the client send.                               *)
Caused(kind) ==
  kind = CASE act = "dahai" -> "discard"
           [] act = "reach" -> IF ~armed /\ platform = "majsoul" THEN "discard" ELSE "reach"
           [] OTHER -> "other"

PressLands ==
  IF left = 2
  THEN /\ slot # 0 /\ done # slot /\ armed' = TRUE
       /\ UNCHANGED <<done, watch, landed>>
  ELSE /\ act = "meld" /\ platform = "majsoul" => armed
       /\ \E kind \in InputKinds : Caused(kind) /\ Input(kind)
       /\ landed' = [plan |-> planned, window |-> slot, raced |-> raced]

(* dispatch_click_shaped, click_dom, discard_tile: the press reports        *)
(* success whether the client takes it or swallows it.                      *)
Press ==
  /\ pc = "press"
  /\ PressLands \/ UNCHANGED <<done, armed, watch, landed>>
  /\ UNCHANGED <<platform, slot, opened, buses, acted, dead, answers>>
  /\ \/ left = 2 /\ left' = 1 /\ UNCHANGED <<pc, act, planned, ticket, attempt, raced>>
     \/ left = 1 /\ platform = "tenhou" /\ Return
     \/ /\ left = 1 /\ platform = "majsoul"
        /\ pc' = "verify" /\ left' = 0
        /\ UNCHANGED <<act, planned, ticket, attempt, raced>>

(* No page, a dispatch that failed, a button that never appeared.           *)
PressFails ==
  /\ pc = "press" /\ attempt = 0 /\ Return
  /\ UNCHANGED <<client, buses, acted, dead, landed, answers>>

-----------------------------------------------------------------------------
(* verify_and_retry, and the verdict.                                       *)

(* sent_since, non_discard_since: only a discard plan is proven by a discard.*)
Proven == IF act = "dahai" THEN watch.sent # ticket.sent
          ELSE watch.nonDiscard # ticket.nonDiscard

(* The input was accepted, or the question is moot: the count starts over.  *)
Registered ==
  /\ Return /\ dead' = 0
  /\ UNCHANGED <<client, buses, acted, landed, answers>>

(* Not registered; after enough of those in a row the page is reloaded.     *)
Unregistered ==
  /\ Return
  /\ dead' = IF dead + 1 >= ReloadAfter THEN 0 ELSE dead + 1
  /\ UNCHANGED <<client, buses, acted, landed, answers>>

InputSeen == pc = "verify" /\ Proven /\ Registered

(* No input within verify_input_ms, and the window is no longer ours.       *)
MovedOn == pc = "verify" /\ ~Proven /\ attempt < Retries /\ ~StillOpen /\ Registered

(* Mutant of PressAgain: the attempts are not counted.                      *)
PressAgainForever ==
  /\ pc = "verify" /\ ~Proven /\ attempt < Retries /\ StillOpen
  /\ pc' = "press" /\ left' = IF attempt = 0 THEN 1 ELSE Presses(act)
  /\ raced' = FALSE
  /\ UNCHANGED <<client, buses, act, planned, ticket, attempt, acted, dead, landed, answers>>

(* No input, and the window is still ours: the last press again, and from   *)
(* the second retry all of them.                                            *)
PressAgain ==
  /\ pc = "verify" /\ ~Proven /\ attempt < Retries /\ StillOpen
  /\ pc' = "press" /\ left' = IF attempt = 0 THEN 1 ELSE Presses(act)
  /\ attempt' = attempt + 1 /\ raced' = FALSE
  /\ UNCHANGED <<client, buses, act, planned, ticket, acted, dead, landed, answers>>

(* No input after the last attempt; or the page went away during a retry.   *)
GiveUp ==
  /\ \/ pc = "verify" /\ ~Proven /\ attempt = Retries
     \/ pc = "press" /\ attempt > 0
  /\ Unregistered

-----------------------------------------------------------------------------
Environment == OpenWindow \/ CloseWindow \/ ClientActs \/ BotReplies \/ EventArrives
PlanStep == DelayOver \/ DropPlan \/ Press \/ PressFails \/ InputSeen \/ MovedOn
            \/ PressAgain \/ GiveUp
Next == Environment \/ HandleEvent \/ DropReply \/ PlanReply \/ PlanStep

(* Sleeps end, presses return, polls reach their deadline.                  *)
Spec == Init /\ [][Next]_vars
LiveSpec == Spec /\ WF_vars(PlanStep)

-----------------------------------------------------------------------------
Counts == [sent : 0..MaxWindows, nonDiscard : 0..MaxWindows]

TypeOK ==
  /\ platform \in {"majsoul", "tenhou"}
  /\ opened \in 0..MaxWindows /\ slot \in 0..opened /\ done \in 0..opened
  /\ armed \in BOOLEAN /\ watch \in Counts /\ ticket \in Counts
  /\ replied \in 0..opened /\ replies \in Seq(Actions)
  /\ boundary \in {"none", "hand", "game"}
  /\ pc \in {"idle", "delay", "press", "verify"} /\ act \in Actions
  /\ planned \in 0..opened /\ left \in 0..2 /\ attempt \in 0..Retries
  /\ acted \in 0..opened /\ dead \in 0..(ReloadAfter - 1)
  /\ raced \in BOOLEAN
  /\ landed \in [plan : 0..opened, window : 0..opened, raced : BOOLEAN]
  /\ answers \in [Windows -> Nat]

(* A press, first or repeated, answers the window its plan was made for,    *)
(* unless the window moved while the press was being dispatched.            *)
PressAnswersItsWindow ==
  landed.plan # 0 /\ ~landed.raced => landed.window = landed.plan

(* On Tenhou one window is answered once, late replies or not, as long as   *)
(* no hand boundary is handled in between.                                  *)
TenhouAnswersOnce == platform = "tenhou" => \A w \in Windows : answers[w] <= 1

(* A decision is given up or finished: the loop gets back to its buses.     *)
HandlerReturns == pc # "idle" ~> pc = "idle"
=============================================================================
