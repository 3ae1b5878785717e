----------------------------- MODULE RewardsPage -----------------------------
(***************************************************************************)
(* The rewards page (pages/Rewards/Rewards.tsx) of one user over the daily *)
(* reward service: the page loads a status when it is opened and after     *)
(* each claim, and offers the claim that the status it shows allows.       *)
(*                                                                         *)
(* A task is one run of loadRewards or handleClaim; its claim is the       *)
(* request of the same session of DailyReward.  The button stays enabled   *)
(* while a claim runs, so tasks overlap, and their answers come in any     *)
(* order.  The list of rewards and the pictures are left out.              *)
(***************************************************************************)
EXTENDS DailyReward

CONSTANT MaxOpens   \* bound: times the page is opened

\* What the page shows of a status, and when it was read.
Offer == [canClaim : BOOLEAN, currentDay : Day, at : 0..MaxClock]

ASSUME OfferAssumption == None \notin Offer \cup 0..MaxClock

VARIABLES
  open,     \* whether the page is open
  shown,    \* dailyStatus, and when it was read; None at first
  task,     \* what a task awaits, the claim it made, the status it was sent
  told,     \* history: claims whose reload has been shown
  opens     \* times the page was opened

pageVars == <<open, shown, task, told, opens>>

-----------------------------------------------------------------------------
NoTask == [step |-> "none", claimedAt |-> None, status |-> None]

PageInit ==
  /\ Init
  /\ open = FALSE
  /\ shown = None
  /\ task = [s \in Session |-> NoTask]
  /\ told = {}
  /\ opens = 0

Await(s, step) == task' = [task EXCEPT ![s].step = step]

Drop(s) == task' = [task EXCEPT ![s] = NoTask]

\* useEffect on mount calls loadRewards.
OpenPage(s) ==
  /\ ~open /\ opens < MaxOpens /\ pc[s] = "idle"
  /\ open' = TRUE
  /\ opens' = opens + 1
  /\ Await(s, "rewards")
  /\ UNCHANGED <<vars, shown, told>>

\* Requests that are running go on, unheard.
LeavePage ==
  /\ open
  /\ open' = FALSE
  /\ shown' = None
  /\ task' = [s \in Session |-> NoTask]
  /\ UNCHANGED <<vars, told, opens>>

\* The button, disabled unless the status shown allows a claim.
HandleClaim(s) ==
  /\ open /\ shown # None /\ shown.canClaim
  /\ task[s].step = "none" /\ pc[s] = "idle"
  /\ Await(s, "claim")
  /\ UNCHANGED <<vars, open, shown, told, opens>>

\* POST /rewards/daily-claim reaches the service ...
ClaimStarts(s) ==
  /\ task[s].step = "claim"
  /\ GetProgress(s)
  /\ Await(s, "claiming")
  /\ UNCHANGED <<open, shown, told, opens>>

\* A claim from another device, or from a page that was left meanwhile.
ClaimElsewhere(s) ==
  /\ task[s].step = "none"
  /\ GetProgress(s)
  /\ UNCHANGED pageVars

Serve(s) ==
  \/ EffectiveDay(s) \/ PrepareProgress(s) \/ UpsertProgress(s) \/ LogClaim(s)
  \/ Commit(s) \/ Abort(s)

\* ... which runs it; an error or a lost answer ends handleClaim.
ClaimRuns(s) ==
  /\ Serve(s)
  /\ IF pc'[s] # "idle" \/ task[s].step # "claiming" THEN UNCHANGED task
     ELSE \/ Drop(s)
          \/ /\ Len(claimLog') > Len(claimLog)
             /\ task' = [task EXCEPT ![s].step = "claimed",
                                     ![s].claimedAt = request[s].updated.lastClaimedAt]
  /\ UNCHANGED <<open, shown, told, opens>>

\* await claimDailyReward has returned: await loadRewards.
ClaimReturns(s) ==
  /\ task[s].step = "claimed"
  /\ Await(s, "rewards")
  /\ UNCHANGED <<vars, open, shown, told, opens>>

\* getMyRewards.
GotMyRewards(s) ==
  /\ task[s].step = "rewards"
  /\ Await(s, "status")
  /\ UNCHANGED <<vars, open, shown, told, opens>>

\* The status as the page gets it, with the time it was read.
Answer ==
  LET now == Status(progress, clock) IN
  [canClaim |-> now.canClaim, currentDay |-> now.currentDay, at |-> clock]

\* Mutant: the status is read beside the rewards and awaited after the claim.
ReadStatusEarly(s) ==
  /\ task[s].step \in {"claiming", "status"} /\ task[s].status = None
  /\ task' = [task EXCEPT ![s].status = Answer]
  /\ UNCHANGED <<vars, open, shown, told, opens>>

\* GET /rewards/daily-status: GetStatus.
ReadStatus(s) ==
  /\ task[s].step = "status" /\ task[s].status = None
  /\ task' = [task EXCEPT ![s].status = Answer]
  /\ UNCHANGED <<vars, open, shown, told, opens>>

\* setDailyStatus.
ShowStatus(s) ==
  /\ task[s].step = "status" /\ task[s].status # None
  /\ shown' = task[s].status
  /\ told' = told \cup ({task[s].claimedAt} \ {None})
  /\ Drop(s)
  /\ UNCHANGED <<vars, open, opens>>

\* A load that fails leaves the page as it is.
LoadFails(s) ==
  /\ task[s].step \in {"rewards", "status"}
  /\ Drop(s)
  /\ UNCHANGED <<vars, open, shown, told, opens>>

\* A tick stands for hours: no request lasts that long.
PageTick ==
  /\ Tick
  /\ \A s \in Session : task[s].step = "none" /\ pc[s] = "idle"
  /\ UNCHANGED pageVars

PageNext ==
  \/ PageTick
  \/ LeavePage
  \/ \E s \in Session :
       \/ OpenPage(s) \/ HandleClaim(s) \/ ClaimStarts(s) \/ ClaimElsewhere(s)
       \/ ClaimRuns(s) \/ ClaimReturns(s)
       \/ GotMyRewards(s) \/ ReadStatus(s) \/ ShowStatus(s) \/ LoadFails(s)

PageSpec == PageInit /\ [][PageNext]_<<vars, pageVars>>

-----------------------------------------------------------------------------
(***************************************************************************)
(* The page never offers again what it has shown as taken: a claim that    *)
(* succeeded and whose reload was shown keeps the button disabled until    *)
(* the cooldown is over, though loads and claims overlap and their answers *)
(* are shown in any order.  (A claim whose answer or reload was lost goes  *)
(* on being offered, and is refused, until the page is opened anew.)       *)
(***************************************************************************)
OfferFollowsClaims ==
  shown # None /\ shown.canClaim => \A at \in told : shown.at - at >= Cooldown
=============================================================================
