-------------------------------- MODULE Reviews --------------------------------
(***************************************************************************)
(* Whole-game reviews (src/frontend/src/stores/reviewStore.ts): a recorded *)
(* game is submitted to the inference server, its job is polled until it   *)
(* is over, and which game has which review is remembered.  Jobs belong to *)
(* the key they were submitted with, so what is remembered is kept in one  *)
(* slot of the browser's storage per key, and the store works on the slot  *)
(* of the key it was last hydrated for.  The key may change, and the       *)
(* program stop and start, while calls are under way.                      *)
(***************************************************************************)
EXTENDS Naturals, Sequences

CONSTANTS Keys, Records, NoKey,
          MaxReviews, MaxSwitches, MaxRelaunches   \* bounds

ASSUME ReviewsAssumption ==
  NoKey \notin Keys /\ {MaxReviews, MaxSwitches, MaxRelaunches} \subseteq Nat

NoReview == 0          \* reviews are numbered from 1
Unsent == [key |-> NoKey]
Unreviewed == [g \in Records |-> NoReview]
Fresh == [owner |-> NoKey, job |-> NoReview, gameMap |-> Unreviewed, timer |-> FALSE]
Emptied == [job |-> NoReview, gameMap |-> Unreviewed]

VARIABLES
  apiKey,        \* the key in the configuration
  page,          \* the store: the key it is hydrated for, the job, the map, the timer
  slots,         \* localStorage, by key
  polling, submitting, resharing,   \* calls under way, one of each at most
  reviews,       \* the server's reviews
  known,         \* history: reviews whose acceptance was answered
  overtaken,     \* history: another job was taken up while a poll was under way
  misdirected,   \* history: a job was polled for under the key of another
  strayed,       \* history: an answer came when the slot or the mark was another
  switches, relaunches

serverVars == <<reviews, known>>
boundVars == <<switches, relaunches>>
reviewsVars == <<apiKey, page, slots, polling, submitting, resharing, serverVars, overtaken,
                 misdirected, strayed, boundVars>>

ReviewsInit ==
  /\ apiKey \in Keys \cup {NoKey} /\ page = Fresh /\ slots = [k \in Keys |-> Emptied]
  /\ polling = Unsent /\ submitting = Unsent /\ resharing = Unsent
  /\ reviews = <<>> /\ known = {}
  /\ overtaken = FALSE /\ misdirected = FALSE /\ strayed = FALSE
  /\ switches = 0 /\ relaunches = 0

(* Mutant of ensureHydrated: the job goes on, whatever key it belongs to.    *)
ensureHydratedKeeps(p, s) ==
  IF apiKey \in {NoKey, p.owner} THEN p
  ELSE [p EXCEPT !.owner = apiKey, !.timer = p.job # NoReview]
(* The store with the slots s, turned to the key of the configuration.       *)
ensureHydrated(p, s) ==
  IF apiKey \in {NoKey, p.owner} THEN p
  ELSE [owner |-> apiKey, job |-> s[apiKey].job, gameMap |-> s[apiKey].gameMap,
        timer |-> s[apiKey].job # NoReview]
Hydrated == ensureHydrated(page, slots)

(* ---- the user and the program ---- *)

SwitchKey(k) ==
  /\ k # apiKey /\ switches < MaxSwitches /\ switches' = switches + 1 /\ apiKey' = k
  /\ UNCHANGED <<page, slots, polling, submitting, resharing, serverVars, misdirected, strayed,
                 relaunches>>
(* The Review page or the list of games is shown: resume and loadShares.     *)
Visit ==
  /\ page' = IF Hydrated.job # NoReview /\ polling = Unsent
               THEN [Hydrated EXCEPT !.timer = TRUE] ELSE Hydrated
  /\ UNCHANGED <<apiKey, slots, polling, submitting, resharing, serverVars, misdirected,
                 strayed, boundVars>>
Relaunch ==
  /\ relaunches < MaxRelaunches /\ relaunches' = relaunches + 1 /\ page' = Fresh
  /\ polling' = Unsent /\ submitting' = Unsent /\ resharing' = Unsent
  /\ UNCHANGED <<apiKey, slots, serverVars, misdirected, strayed, switches>>

(* ---- submit ---- *)

Submit(g) ==
  /\ apiKey # NoKey /\ page' = Hydrated /\ Hydrated.job = NoReview /\ submitting = Unsent
  /\ Len(reviews) < MaxReviews
  /\ submitting' = [key |-> apiKey, game |-> g, review |-> NoReview]
  /\ UNCHANGED <<apiKey, slots, polling, resharing, serverVars, misdirected, strayed, boundVars>>
(* The server takes one job of a key at a time.                              *)
Accept ==
  /\ submitting # Unsent /\ submitting.review = NoReview
  /\ \A r \in DOMAIN reviews : reviews[r].key = submitting.key => reviews[r].status # "queued"
  /\ reviews' = Append(reviews, [key |-> submitting.key, game |-> submitting.game,
                                 status |-> "queued"])
  /\ submitting' = [submitting EXCEPT !.review = Len(reviews')]
  /\ UNCHANGED <<apiKey, page, slots, polling, resharing, known, misdirected, strayed, boundVars>>
Submitted ==
  LET r == submitting.review
      map == [page.gameMap EXCEPT ![submitting.game] = r] IN
  /\ submitting # Unsent /\ r # NoReview /\ submitting' = Unsent /\ known' = known \cup {r}
  /\ page' = [page EXCEPT !.job = r, !.gameMap = map, !.timer = TRUE]
  /\ slots' = [slots EXCEPT ![page.owner] = [job |-> r, gameMap |-> map]]
  /\ strayed' = (strayed \/ page.owner # submitting.key)
  /\ UNCHANGED <<apiKey, polling, resharing, reviews, misdirected, boundVars>>
(* Refused, or the answer is lost.                                           *)
SubmitFails ==
  /\ submitting # Unsent /\ submitting' = Unsent /\ page' = Hydrated
  /\ UNCHANGED <<apiKey, slots, polling, resharing, serverVars, misdirected, strayed, boundVars>>

(* ---- the poll ---- *)

pollOnce ==
  /\ page.timer
  /\ IF polling # Unsent \/ page.job = NoReview
       THEN page' = [page EXCEPT !.timer = FALSE] /\ UNCHANGED <<polling, misdirected>>
     ELSE IF apiKey = NoKey THEN UNCHANGED <<page, polling, misdirected>>
     ELSE /\ page' = [page EXCEPT !.timer = FALSE]
          /\ polling' = [key |-> apiKey, review |-> page.job]
          /\ misdirected' = (misdirected \/ page.owner # apiKey)
  /\ UNCHANGED <<apiKey, slots, submitting, resharing, serverVars, strayed, boundVars>>

Finished == [page EXCEPT !.job = NoReview, !.timer = FALSE]
finishJob(p) ==
  /\ slots' = [slots EXCEPT ![page.owner].job = NoReview]
  /\ page' = p
Rescheduled == page' = [page EXCEPT !.timer = TRUE] /\ UNCHANGED slots

Found(c) == reviews[c.review].key = c.key /\ reviews[c.review].status # "gone"
(* An answer for a job that is not the store's any more is dropped.          *)
Ignored == page.job # polling.review /\ UNCHANGED <<page, slots>>
PollEnds == polling # Unsent /\ polling' = Unsent
JobAnswer ==
  /\ PollEnds /\ Found(polling)
  /\ \/ Ignored
     \/ /\ page.job = polling.review
        /\ CASE reviews[polling.review].status = "done" ->
                  /\ finishJob(ensureHydrated(Finished, [slots EXCEPT ![page.owner].job = NoReview]))
             [] reviews[polling.review].status = "failed" -> finishJob(Finished)
             [] OTHER -> Rescheduled
  /\ UNCHANGED <<apiKey, submitting, resharing, serverVars, misdirected, strayed, boundVars>>
Job404 ==
  /\ PollEnds /\ ~Found(polling)
  /\ Ignored \/ (page.job = polling.review /\ finishJob(Finished))
  /\ UNCHANGED <<apiKey, submitting, resharing, serverVars, misdirected, strayed, boundVars>>
(* Mutant of JobPollFails: the job is given up.                                 *)
JobPollFailsForGood ==
  /\ PollEnds
  /\ Ignored \/ (page.job = polling.review /\ finishJob(Finished))
  /\ UNCHANGED <<apiKey, submitting, resharing, serverVars, misdirected, strayed, boundVars>>
(* Anything but a 404 is waited out.                                         *)
JobPollFails ==
  /\ PollEnds
  /\ Ignored \/ (page.job = polling.review /\ Rescheduled)
  /\ UNCHANGED <<apiKey, submitting, resharing, serverVars, misdirected, strayed, boundVars>>

(* ---- reshare ---- *)

Reshare(g) ==
  /\ apiKey # NoKey /\ resharing = Unsent /\ page' = Hydrated /\ Hydrated.gameMap[g] # NoReview
  /\ resharing' = [key |-> apiKey, game |-> g, review |-> Hydrated.gameMap[g]]
  /\ UNCHANGED <<apiKey, slots, polling, submitting, serverVars, misdirected, strayed, boundVars>>
ReshareEnds ==
  /\ resharing # Unsent /\ resharing' = Unsent
  /\ UNCHANGED <<apiKey, polling, submitting, serverVars, misdirected, boundVars>>
ReshareIssued ==
  ReshareEnds /\ Found(resharing) /\ page' = Hydrated /\ UNCHANGED <<slots, strayed>>
Unmarked ==
  /\ page' = [page EXCEPT !.gameMap[resharing.game] = NoReview]
  /\ slots' = [slots EXCEPT ![page.owner].gameMap = page'.gameMap]
  /\ strayed' = (strayed \/ page.owner # resharing.key
                         \/ page.gameMap[resharing.game] # resharing.review)
(* The review is gone: the game may be submitted afresh.                     *)
Reshare404 == ReshareEnds /\ ~Found(resharing) /\ Unmarked
ReshareFails == ReshareEnds /\ UNCHANGED <<page, slots, strayed>>

(* ---- the server ---- *)

ReviewBecomes(r, from, status) ==
  /\ reviews[r].status \in from /\ reviews' = [reviews EXCEPT ![r].status = status]
  /\ UNCHANGED <<apiKey, page, slots, polling, submitting, resharing, known, misdirected,
                 strayed, boundVars>>
ReviewEnds(r) == \E status \in {"done", "failed"} : ReviewBecomes(r, {"queued"}, status)
Evict(r) == ReviewBecomes(r, {"done", "failed"}, "gone")

(* The history of jobs that a poll under way is not for.                     *)
Remember ==
  overtaken' = IF polling = Unsent /\ page'.timer THEN FALSE
               ELSE overtaken \/ (polling # Unsent /\ page'.job \notin {NoReview, page.job})

ReviewsNext ==
  /\ \/ \E k \in Keys \cup {NoKey} : SwitchKey(k)
     \/ Visit \/ Relaunch
     \/ \E g \in Records : Submit(g) \/ Reshare(g)
     \/ Accept \/ Submitted \/ SubmitFails
     \/ pollOnce \/ JobAnswer \/ Job404 \/ JobPollFails
     \/ ReshareIssued \/ Reshare404 \/ ReshareFails
     \/ \E r \in DOMAIN reviews : ReviewEnds(r) \/ Evict(r)
  /\ Remember

ReviewsSpec == ReviewsInit /\ [][ReviewsNext]_reviewsVars

(* ---- properties ---- *)

(* A job on display goes on being polled, but for one that was taken up      *)
(* while the poll of another was under way; a visit makes good for that.     *)
JobIsPolled == page.job # NoReview /\ ~overtaken => page.timer \/ polling # Unsent

(* What is kept for a key is of that key and of the game it is kept for, as  *)
(* long as no answer came when the store had gone on.                        *)
OwnNamespace ==
  ~strayed => \A k \in Keys, r \in DOMAIN reviews :
    /\ slots[k].job = r => reviews[r].key = k
    /\ \A g \in Records :
         slots[k].gameMap[g] = r => reviews[r].key = k /\ reviews[r].game = g

(* An accepted review that is not over is not forgotten: the slot of its key *)
(* has the job, through changes of key, restarts and lost polls (:95-101).   *)
NotForgotten ==
  ~strayed /\ ~misdirected =>
    \A r \in known : reviews[r].status = "queued" => slots[reviews[r].key].job = r

(* A game stays marked with the newest review of it that was accepted, until *)
(* the server has dropped that.                                              *)
Newest(r) == \A n \in known : n > r => reviews[n].key # reviews[r].key
                                        \/ reviews[n].game # reviews[r].game
MapIsKept ==
  ~strayed => \A r \in known :
    Newest(r) /\ reviews[r].status # "gone" =>
      slots[reviews[r].key].gameMap[reviews[r].game] = r

(* So a review that was accepted is followed until its end.                  *)
ReviewsAreFollowed == JobIsPolled /\ NotForgotten /\ MapIsKept
=============================================================================
