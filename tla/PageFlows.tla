------------------------------ MODULE PageFlows ------------------------------
(***************************************************************************)
(* The browser's tabs and their WebSockets as the Chromium capture follows  *)
(* them (run and attach_page of src/src/capture/chromium/cdp.rs), with the   *)
(* flow bridges (src/src/capture/flow.rs) and the slots of the autoplay      *)
(* context that say where a packet or a click goes                           *)
(* (src/src/autoplay/context.rs).                                           *)
(*                                                                         *)
(* Each attached tab has a task.  Its streams of created, received and       *)
(* closed events are apart, so select may handle them in another order than  *)
(* they happened.  A handler writes the slots one lock at a time; the poll   *)
(* loop aborts the task of a tab that is gone, between two of them if so.    *)
(* Sent frames are in RequestIds.                                            *)
(***************************************************************************)
EXTENDS Naturals, Sequences

CONSTANTS Tabs, Sockets, NoFlow,
          MaxFrames            \* bound: frames received

ASSUME FramesAssumption ==
  MaxFrames \in Nat /\ NoFlow \notin Tabs \cup Sockets \cup (Sockets \X Nat)

VARIABLES
  tab,        \* "none", "open", "attached", "closing", "gone"
  sock,       \* "none", "open", "closed", as the browser has it
  tabOf,      \* the tab of a socket
  game,       \* whether the socket's URL is a game platform's
  frames,     \* frames received so far
  created, received, closed,   \* a tab's streams of events
  made,       \* bridges made for a socket
  mapped,     \* whether its last one is in the map
  slot,       \* the slots of the autoplay context
  todo,       \* what the handler a task is in has left to write
  autoplayRequest,   \* autoplay_request_id of a task
  urls,       \* autoplay_urls of a task
  handledClosed,     \* history: sockets whose closing was handled
  lastCreated,       \* history: the last game socket whose creation was handled
  deadThen,          \* history: handledClosed at that time
  overlapped, \* history: there were two game sockets at once, or one unheard of
  disordered  \* history: a socket's events out of order, handlers overlapping, or
              \* a game played on another platform's URL

eventVars == <<created, received, closed>>
browserVars == <<tab, sock, tabOf, game, frames>>
bridgeVars == <<made, mapped>>
taskVars == <<todo, autoplayRequest, urls>>
historyVars == <<handledClosed, lastCreated, deadThen>>
saneVars == <<overlapped, disordered>>
pageVars == <<browserVars, eventVars, bridgeVars, slot, taskVars, historyVars, saneVars>>

Slots == {"page", "bridge", "url", "fallback_page", "fallback_bridge", "fallback_url",
          "preferred"}
Fallback(name) ==
  CASE name = "page" -> "fallback_page" [] name = "bridge" -> "fallback_bridge"
    [] name = "url" -> "fallback_url"

PageInit ==
  /\ tab = [t \in Tabs |-> "none"] /\ sock = [s \in Sockets |-> "none"]
  /\ tabOf = [s \in Sockets |-> NoFlow] /\ game = [s \in Sockets |-> FALSE]
  /\ frames = 0
  /\ created = [t \in Tabs |-> <<>>] /\ received = [t \in Tabs |-> <<>>]
  /\ closed = [t \in Tabs |-> <<>>]
  /\ made = [s \in Sockets |-> 0] /\ mapped = [s \in Sockets |-> FALSE]
  /\ slot = [n \in Slots |-> NoFlow] /\ todo = [t \in Tabs |-> <<>>]
  /\ autoplayRequest = [t \in Tabs |-> NoFlow] /\ urls = [t \in Tabs |-> {}]
  /\ handledClosed = {} /\ lastCreated = NoFlow /\ deadThen = {}
  /\ overlapped = FALSE /\ disordered = FALSE

(* ---- the browser ---- *)

OpenTab(t) ==
  /\ tab[t] = "none" /\ tab' = [tab EXCEPT ![t] = "open"]
  /\ UNCHANGED <<sock, tabOf, game, frames, eventVars, bridgeVars, slot, taskVars,
                 historyVars, saneVars>>

Live(t) == tab[t] \in {"open", "attached"}
Watched(t) == tab[t] = "attached"
GameOpen == {s \in Sockets : game[s] /\ sock[s] # "none" /\ s \notin handledClosed}

(* A page opens a socket.                                                    *)
OpenSocket(s, t, isGame) ==
  /\ sock[s] = "none" /\ Live(t)
  /\ sock' = [sock EXCEPT ![s] = "open"] /\ tabOf' = [tabOf EXCEPT ![s] = t]
  /\ game' = [game EXCEPT ![s] = isGame]
  /\ created' = IF Watched(t) THEN [created EXCEPT ![t] = Append(@, s)] ELSE created
  /\ overlapped' = (overlapped \/ (isGame /\ (GameOpen # {} \/ ~Watched(t))))
  /\ UNCHANGED <<tab, frames, received, closed, bridgeVars, slot, taskVars, historyVars,
                 disordered>>

(* A frame of the server; action: it holds an ActionPrototype.               *)
ServerFrame(s, action) ==
  /\ sock[s] = "open" /\ frames < MaxFrames
  /\ frames' = frames + 1
  /\ received' = IF Watched(tabOf[s])
                   THEN [received EXCEPT ![tabOf[s]] = Append(@, <<s, action>>)] ELSE received
  /\ disordered' = (disordered \/ (action /\ ~game[s]))
  /\ UNCHANGED <<tab, sock, tabOf, game, created, closed, bridgeVars, slot, taskVars,
                 historyVars, overlapped>>

CloseSocket(s) ==
  /\ sock[s] = "open" /\ sock' = [sock EXCEPT ![s] = "closed"]
  /\ closed' = IF Watched(tabOf[s])
                 THEN [closed EXCEPT ![tabOf[s]] = Append(@, s)] ELSE closed
  /\ UNCHANGED <<tab, tabOf, game, frames, created, received, bridgeVars, slot, taskVars,
                 historyVars, saneVars>>

(* A tab closes, and with it its sockets, of which nothing is heard.         *)
CloseTab(t) ==
  /\ Live(t)
  /\ tab' = [tab EXCEPT ![t] = IF @ = "open" THEN "gone" ELSE "closing"]
  /\ sock' = [s \in Sockets |-> IF tabOf[s] = t THEN "closed" ELSE sock[s]]
  /\ overlapped' = (overlapped \/ \E s \in GameOpen : tabOf[s] = t)
  /\ UNCHANGED <<tabOf, game, frames, eventVars, bridgeVars, slot, taskVars, historyVars,
                 disordered>>

(* ---- the poll loop ---- *)

(* A tab that is new in the snapshot; attach_page subscribes.                *)
Attach(t) ==
  /\ tab[t] = "open" /\ tab' = [tab EXCEPT ![t] = "attached"]
  /\ UNCHANGED <<sock, tabOf, game, frames, eventVars, bridgeVars, slot, taskVars,
                 historyVars, saneVars>>
(* One that is not in it any more: its task is aborted.                      *)
ReapTab(t) ==
  /\ tab[t] = "closing" /\ tab' = [tab EXCEPT ![t] = "gone"]
  /\ created' = [created EXCEPT ![t] = <<>>] /\ received' = [received EXCEPT ![t] = <<>>]
  /\ closed' = [closed EXCEPT ![t] = <<>>] /\ todo' = [todo EXCEPT ![t] = <<>>]
  /\ disordered' = (disordered \/ todo[t] # <<>>)
  /\ UNCHANGED <<sock, tabOf, game, frames, bridgeVars, slot, autoplayRequest, urls,
                 historyVars, overlapped>>

(* ---- the flow bridges ---- *)

(* acquire: the number of the bridge the key has from now on.                *)
Acquired(s) == IF mapped[s] THEN made[s] ELSE made[s] + 1
AcquireFlow(s) ==
  made' = [made EXCEPT ![s] = Acquired(s)] /\ mapped' = [mapped EXCEPT ![s] = TRUE]
(* acquire and release: the entry goes unless a slot refers to its bridge.   *)
AcquireRelease(s) ==
  /\ made' = [made EXCEPT ![s] = Acquired(s)]
  /\ mapped' = [mapped EXCEPT ![s] =
                  \E n \in {"bridge", "fallback_bridge"} : slot[n] = <<s, Acquired(s)>>]

(* ---- the handlers of a task ---- *)

Ready(t) == tab[t] \in {"attached", "closing"} /\ todo[t] = <<>>
Target(t, s, url) == <<<<"page", t>>, <<"bridge", <<s, Acquired(s)>>>>, <<"url", url>>>>

OnCreated(t) ==
  LET s == Head(created[t]) IN
  /\ Ready(t) /\ created[t] # <<>> /\ created' = [created EXCEPT ![t] = Tail(@)]
  /\ AcquireFlow(s) /\ urls' = [urls EXCEPT ![t] = @ \cup {s}]
  /\ IF game[s]
       THEN /\ todo' = [todo EXCEPT ![t] =
                  << <<"fallback_page", t>>, <<"fallback_bridge", <<s, Acquired(s)>>>>,
                     <<"fallback_url", s>>, <<"unless preferred", s>> >>]
            /\ autoplayRequest' = [autoplayRequest EXCEPT ![t] = s]
            /\ lastCreated' = s /\ deadThen' = handledClosed
       ELSE UNCHANGED <<todo, autoplayRequest, lastCreated, deadThen>>
  /\ disordered' = (disordered \/ s \in handledClosed
                         \/ (game[s] /\ \E u \in Tabs \ {t} : todo[u] # <<>>))
  /\ UNCHANGED <<browserVars, received, closed, slot, handledClosed, overlapped>>

(* Mutant of OnReceived: each frame releases its bridge, as a close does.    *)
OnReceivedReleases(t) ==
  LET s == Head(received[t])[1] IN
  /\ Ready(t) /\ received[t] # <<>> /\ received' = [received EXCEPT ![t] = Tail(@)]
  /\ AcquireRelease(s)
  /\ UNCHANGED <<browserVars, created, closed, slot, taskVars, historyVars, saneVars>>

OnReceived(t) ==
  LET s == Head(received[t])[1]
      action == Head(received[t])[2]
      url == IF s \in urls[t] THEN s ELSE NoFlow
  IN  /\ Ready(t) /\ received[t] # <<>> /\ received' = [received EXCEPT ![t] = Tail(@)]
      /\ AcquireFlow(s)
      /\ todo' = IF action THEN [todo EXCEPT ![t] = <<<<"preferred", s>>>> \o Target(t, s, url)]
                 ELSE todo
      /\ disordered' = (disordered \/ s \in handledClosed
                             \/ (action /\ s \notin urls[t])
                             \/ (action /\ \E u \in Tabs \ {t} : todo[u] # <<>>))
      /\ UNCHANGED <<browserVars, created, closed, slot, autoplayRequest, urls, historyVars,
                     overlapped>>

OnClosed(t) ==
  LET s == Head(closed[t]) IN
  /\ Ready(t) /\ closed[t] # <<>> /\ closed' = [closed EXCEPT ![t] = Tail(@)]
  /\ AcquireRelease(s)
  /\ IF autoplayRequest[t] = s
       THEN /\ todo' = [todo EXCEPT ![t] = <<<<"if preferred", s>>>>]
            /\ autoplayRequest' = [autoplayRequest EXCEPT ![t] = NoFlow]
       ELSE UNCHANGED <<todo, autoplayRequest>>
  /\ handledClosed' = handledClosed \cup {s}
  /\ disordered' = (disordered \/ (game[s] /\ (s \in {created[t][k] : k \in DOMAIN created[t]}
                   \/ s \in {received[t][k][1] : k \in DOMAIN received[t]}
                   \/ \E u \in Tabs \ {t} : todo[u] # <<>>)))
  /\ UNCHANGED <<browserVars, created, received, slot, urls, lastCreated, deadThen, overlapped>>

(* Mutant of UnlessPreferred: the newest socket always becomes the target.   *)
NewestIsTarget(t, s) == Target(t, s, s)
(* preferred_packet_flow is NoFlow: the newest socket becomes the target.      *)
UnlessPreferred(t, s) == IF slot["preferred"] = NoFlow THEN Target(t, s, s) ELSE <<>>
(* The closed flow was the preferred one: the fallback becomes the target.   *)
IfPreferred(t, s) ==
  IF slot["preferred"] = s
    THEN <<<<"preferred", NoFlow>>, <<"fall back", "page">>, <<"fall back", "bridge">>,
           <<"fall back", "url">>>>
    ELSE <<>>

(* The next lock, read or write, of the handler a task is in.                *)
Step(t) ==
  LET w == Head(todo[t])
      rest == Tail(todo[t])
  IN  /\ tab[t] \in {"attached", "closing"} /\ todo[t] # <<>>
      /\ CASE w[1] = "unless preferred" ->
                todo' = [todo EXCEPT ![t] = UnlessPreferred(t, w[2])] /\ UNCHANGED slot
           [] w[1] = "if preferred" ->
                todo' = [todo EXCEPT ![t] = IfPreferred(t, w[2])] /\ UNCHANGED slot
           [] w[1] = "fall back" ->
                /\ todo' = [todo EXCEPT ![t] = rest]
                /\ slot' = [slot EXCEPT ![w[2]] = slot[Fallback(w[2])]]
           [] w[1] \in Slots ->
                todo' = [todo EXCEPT ![t] = rest] /\ slot' = [slot EXCEPT ![w[1]] = w[2]]
      /\ UNCHANGED <<browserVars, eventVars, bridgeVars, autoplayRequest, urls, historyVars,
                     saneVars>>

PageNext ==
  \/ \E t \in Tabs :
       \/ OpenTab(t) \/ CloseTab(t) \/ Attach(t) \/ ReapTab(t)
       \/ OnCreated(t) \/ OnReceived(t) \/ OnClosed(t) \/ Step(t)
       \/ \E s \in Sockets, isGame \in BOOLEAN : OpenSocket(s, t, isGame)
  \/ \E s \in Sockets : CloseSocket(s) \/ \E action \in BOOLEAN : ServerFrame(s, action)

PageSpec == PageInit /\ [][PageNext]_pageVars

(* ---- properties ---- *)

Idle == \A t \in Tabs : todo[t] = <<>>
TargetSocket == IF slot["bridge"] = NoFlow THEN NoFlow ELSE slot["bridge"][1]

(* Types.                                                                    *)
PageTypeOK ==
  /\ tab \in [Tabs -> {"none", "open", "attached", "closing", "gone"}]
  /\ sock \in [Sockets -> {"none", "open", "closed"}]
  /\ tabOf \in [Sockets -> Tabs \cup {NoFlow}] /\ game \in [Sockets -> BOOLEAN]
  /\ frames \in 0..MaxFrames /\ mapped \in [Sockets -> BOOLEAN]
  /\ made \in [Sockets -> Nat]
  /\ DOMAIN slot = Slots /\ slot["preferred"] \in Sockets \cup {NoFlow}
  /\ slot["page"] \in Tabs \cup {NoFlow} /\ slot["url"] \in Sockets \cup {NoFlow}
  /\ autoplayRequest \in [Tabs -> Sockets \cup {NoFlow}] /\ urls \in [Tabs -> SUBSET Sockets]
  /\ handledClosed \subseteq Sockets /\ lastCreated \in Sockets \cup {NoFlow}

(* Between handlers the target is one flow: its bridge is of a socket of its *)
(* page, its URL is that socket's when the creation was seen, and a          *)
(* preferred flow is the target.  When the game opens one socket after       *)
(* another the newest is followed while its closing is not handled: the      *)
(* target is not a socket that was gone when that one was created.           *)
Followed ==
  (lastCreated # NoFlow /\ lastCreated \notin handledClosed) => TargetSocket \notin deadThen

TargetIsOneFlow ==
  (Idle /\ ~disordered) =>
    /\ slot["preferred"] # NoFlow => TargetSocket = slot["preferred"]
    /\ TargetSocket # NoFlow =>
         slot["page"] = tabOf[TargetSocket] /\ slot["url"] \in {TargetSocket, NoFlow}
    /\ ~overlapped => Followed

(* A flow is parsed by one bridge: another is made for it only once its      *)
(* closing was handled.                                                      *)
OneBridge == \A s \in Sockets : made[s] > 1 => s \in handledClosed
=============================================================================
