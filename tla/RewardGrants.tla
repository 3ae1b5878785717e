----------------------------- MODULE RewardGrants -----------------------------
(***************************************************************************)
(* Rewards that a user gets once: Service.IssueReward of internal/rewards/ *)
(* service.go and Service.ClaimTask of internal/tasks/service.go, run by   *)
(* concurrent requests over user_rewards and user_task_progress.           *)
(*                                                                         *)
(* Each statement is a step.  A row written by an open transaction blocks  *)
(* the statements that would write it too: an UPDATE of the same progress  *)
(* row, an INSERT with the same key.  A reward is issued with an expiry,   *)
(* which only the lists look at.                                           *)
(***************************************************************************)
EXTENDS Integers, FiniteSets

CONSTANTS
  Session,       \* requests in progress at once
  User,
  Task,          \* active task definitions
  Reward,        \* reward definitions
  ActiveReward,  \* those with is_active
  RewardOf,      \* reward_definition_id of a task
  RequiredLevel, \* required_level of a reward
  ValidityDays,  \* validity_days of a reward, None for NULL
  Level,         \* levels that callers of IssueReward pass
  Issuing,       \* whether rewards are also issued directly
  MaxClock,      \* bound: days that pass
  None           \* no session, no user, no row, NULL

Direct == "issue"    \* the source of a reward that no task granted

ASSUME CatalogAssumption ==
  /\ RewardOf \in [Task -> Reward]
  /\ ActiveReward \subseteq Reward
  /\ RequiredLevel \in [Reward -> Nat] /\ Level \subseteq Nat
  /\ ValidityDays \in [Reward -> Nat \cup {None}] /\ MaxClock \in Nat
  /\ Issuing \in BOOLEAN
  /\ None \notin Session \cup User \cup Task \cup Reward \cup Nat
  /\ Direct \notin Task \cup {None}

VARIABLES
  clock,         \* time.Now() in days
  taskStatus,    \* user_task_progress.status, committed
  userReward,    \* user_rewards, committed
  taskLock,      \* the session whose update of a progress row is uncommitted
  rewardLock,    \* the session whose insert of a key is uncommitted
  pc, request    \* where a session is, and what it was called with

vars == <<clock, taskStatus, userReward, taskLock, rewardLock, pc, request>>

-----------------------------------------------------------------------------
Status == {"in_progress", "completed", "claimed"}

Failed == {"not_found", "not_completed", "already_claimed", "already_issued",
           "reward_inactive", "level_too_low"}

Phase == {"idle", "claim", "create", "commit", "done"} \cup Failed

\* by: what inserted the row, if it is there; expires: its expires_at.
UserReward == [by : Task \cup {Direct, None}, expires : Nat \cup {None}]

NoReward == [by |-> None, expires |-> None]

Request == [user : User \cup {None}, task : Task \cup {None}, reward : Reward \cup {None},
            expires : Nat \cup {None}]

NoRequest == [user |-> None, task |-> None, reward |-> None, expires |-> None]

TypeOK ==
  /\ clock \in 0..MaxClock
  /\ taskStatus \in [User \X Task -> Status]
  /\ userReward \in [User \X Reward -> UserReward]
  /\ taskLock \in [User \X Task -> Session \cup {None}]
  /\ rewardLock \in [User \X Reward -> Session \cup {None}]
  /\ pc \in [Session -> Phase]
  /\ request \in [Session -> Request]
  /\ \A s \in Session, u \in User, t \in Task :
       taskLock[<<u, t>>] = s => /\ request[s].user = u /\ request[s].task = t
                             /\ pc[s] \in {"create", "commit", "already_issued"}

-----------------------------------------------------------------------------
Init ==
  /\ clock = 0
  /\ taskStatus = [ut \in User \X Task |-> "in_progress"]
  /\ userReward = [ur \in User \X Reward |-> NoReward]
  /\ taskLock = [ut \in User \X Task |-> None]
  /\ rewardLock = [ur \in User \X Reward |-> None]
  /\ pc = [s \in Session |-> "idle"]
  /\ request = [s \in Session |-> NoRequest]

Tick ==
  /\ clock < MaxClock
  /\ clock' = clock + 1
  /\ UNCHANGED <<taskStatus, userReward, taskLock, rewardLock, pc, request>>

\* The dispatcher of task progress, which src/ does not have yet.
CompleteTask(u, t) ==
  /\ taskStatus[<<u, t>>] = "in_progress"
  /\ taskStatus' = [taskStatus EXCEPT ![<<u, t>>] = "completed"]
  /\ UNCHANGED <<clock, userReward, taskLock, rewardLock, pc, request>>

Goto(s, phase) == pc' = [pc EXCEPT ![s] = phase]

\* ClaimTask: the task and its status, read outside the transaction.
GetTaskWithProgress(s, u, t) ==
  /\ pc[s] = "idle"
  /\ request' = [request EXCEPT ![s] =
                 [user |-> u, task |-> t, reward |-> RewardOf[t], expires |-> None]]
  /\ Goto(s, CASE taskStatus[<<u, t>>] = "claimed" -> "already_claimed"
               [] taskStatus[<<u, t>>] = "completed" -> "claim"
               [] OTHER -> "not_completed")
  /\ UNCHANGED <<clock, taskStatus, userReward, taskLock, rewardLock>>

\* Mutant: FOR UPDATE SKIP LOCKED, a locked row counts as claimed.
ClaimProgressSkipLocked(s) ==
  LET k == <<request[s].user, request[s].task>> IN
  /\ pc[s] = "claim"
  /\ IF taskLock[k] = None /\ taskStatus[k] = "completed"
     THEN taskLock' = [taskLock EXCEPT ![k] = s] /\ Goto(s, "create")
     ELSE UNCHANGED taskLock /\ Goto(s, "already_claimed")
  /\ UNCHANGED <<clock, taskStatus, userReward, rewardLock, request>>

\* UPDATE ... WHERE status = 'completed', evaluated once the row is free.
ClaimProgress(s) ==
  LET k == <<request[s].user, request[s].task>> IN
  /\ pc[s] = "claim"
  /\ taskLock[k] = None
  /\ IF taskStatus[k] = "completed"
     THEN taskLock' = [taskLock EXCEPT ![k] = s] /\ Goto(s, "create")
     ELSE UNCHANGED taskLock /\ Goto(s, "already_claimed")
  /\ UNCHANGED <<clock, taskStatus, userReward, rewardLock, request>>

\* GetTaskWithProgressByCode or GetRewardDefinitionByCode finds no row.
FindNothing(s) ==
  /\ pc[s] = "idle"
  /\ Goto(s, "not_found")
  /\ UNCHANGED <<clock, taskStatus, userReward, taskLock, rewardLock, request>>

\* A reward without a validity never expires.
ExpiresAt(r) == IF ValidityDays[r] = None THEN None ELSE clock + ValidityDays[r]

\* IssueReward: the definition, the caller's level and the expiry.
CheckLevel(s, u, r, level) ==
  /\ Issuing
  /\ pc[s] = "idle"
  /\ request' = [request EXCEPT ![s] =
                 [user |-> u, task |-> None, reward |-> r, expires |-> ExpiresAt(r)]]
  /\ Goto(s, CASE r \notin ActiveReward -> "reward_inactive"
               [] r \in ActiveReward /\ level < RequiredLevel[r] -> "level_too_low"
               [] OTHER -> "create")
  /\ UNCHANGED <<clock, taskStatus, userReward, taskLock, rewardLock>>

\* Mutant: the key includes the source, so a task repeats a direct issue.
CreateUserRewardPerSource(s) ==
  LET k == <<request[s].user, request[s].reward>> IN
  /\ pc[s] = "create"
  /\ rewardLock[k] = None
  /\ IF userReward[k].by \in {None, Direct}
     THEN rewardLock' = [rewardLock EXCEPT ![k] = s] /\ Goto(s, "commit")
     ELSE UNCHANGED rewardLock /\ Goto(s, "already_issued")
  /\ UNCHANGED <<clock, taskStatus, userReward, taskLock, request>>

\* The INSERT: UNIQUE (user_id, reward_definition_id) gives ErrAlreadyIssued.
CreateUserReward(s) ==
  LET k == <<request[s].user, request[s].reward>> IN
  /\ pc[s] = "create"
  /\ rewardLock[k] = None
  /\ IF userReward[k] = NoReward
     THEN rewardLock' = [rewardLock EXCEPT ![k] = s] /\ Goto(s, "commit")
     ELSE UNCHANGED rewardLock /\ Goto(s, "already_issued")
  /\ UNCHANGED <<clock, taskStatus, userReward, taskLock, request>>

\* The end of a transaction frees what it wrote.
Unlock(s) ==
  /\ taskLock' = [k \in User \X Task |-> IF taskLock[k] = s THEN None ELSE taskLock[k]]
  /\ rewardLock' = [k \in User \X Reward |-> IF rewardLock[k] = s THEN None ELSE rewardLock[k]]

Source(s) == IF request[s].task = None THEN Direct ELSE request[s].task

NewReward(s) == [by |-> Source(s), expires |-> request[s].expires]

Commit(s) ==
  /\ pc[s] = "commit"
  /\ taskStatus' = [k \in User \X Task |-> IF taskLock[k] = s THEN "claimed" ELSE taskStatus[k]]
  /\ userReward' = [k \in User \X Reward |->
                      IF rewardLock[k] = s THEN NewReward(s) ELSE userReward[k]]
  /\ Unlock(s)
  /\ Goto(s, "done")
  /\ UNCHANGED <<clock, request>>

\* The answer reaches the caller; an error has rolled the transaction back.
Answer(s) ==
  /\ pc[s] \in Failed \cup {"done"}
  /\ Unlock(s)
  /\ request' = [request EXCEPT ![s] = NoRequest]
  /\ Goto(s, "idle")
  /\ UNCHANGED <<clock, taskStatus, userReward>>

\* Mutant: the claim is not part of the transaction that fails.
AbortKeepsClaim(s) ==
  /\ pc[s] \in {"claim", "create", "commit"}
  /\ taskStatus' = [k \in User \X Task |-> IF taskLock[k] = s THEN "claimed" ELSE taskStatus[k]]
  /\ Unlock(s)
  /\ request' = [request EXCEPT ![s] = NoRequest]
  /\ Goto(s, "idle")
  /\ UNCHANGED <<clock, userReward>>

\* Mutant: the connection returns to the pool with its transaction open.
AbortKeepsLocks(s) ==
  /\ pc[s] \in {"claim", "create", "commit"}
  /\ request' = [request EXCEPT ![s] = NoRequest]
  /\ Goto(s, "idle")
  /\ UNCHANGED <<clock, taskStatus, userReward, taskLock, rewardLock>>

\* A lost connection, a cancelled context or a crash at any statement.
Abort(s) ==
  /\ pc[s] \in {"claim", "create", "commit"}
  /\ Unlock(s)
  /\ request' = [request EXCEPT ![s] = NoRequest]
  /\ Goto(s, "idle")
  /\ UNCHANGED <<clock, taskStatus, userReward>>

\* The statements that may wait for another transaction, and the others.
Wait(s) == ClaimProgress(s) \/ CreateUserReward(s)

Run(s) == Commit(s) \/ Answer(s)

Next ==
  \/ Tick
  \/ \E u \in User, t \in Task : CompleteTask(u, t)
  \/ \E s \in Session :
       \/ \E u \in User, t \in Task : GetTaskWithProgress(s, u, t)
       \/ \E u \in User, r \in Reward, level \in Level : CheckLevel(s, u, r, level)
       \/ FindNothing(s) \/ Wait(s) \/ Run(s) \/ Abort(s)

Spec == Init /\ [][Next]_vars

\* A request that was made keeps running; PostgreSQL serves waiters in turn.
FairSpec == Spec /\ \A s \in Session : SF_vars(Wait(s)) /\ WF_vars(Run(s))

-----------------------------------------------------------------------------
\* effectiveStatus; nothing in src/ stores another status than issued.
EffectiveStatus(row) ==
  IF row.expires # None /\ row.expires < clock THEN "expired" ELSE "issued"

\* The rewards of which the user has a row.
Granted(u) == {r \in Reward : userReward[<<u, r>>] # NoReward}

ListUserRewards(u) ==
  {[reward |-> r, by |-> userReward[<<u, r>>].by,
    status |-> EffectiveStatus(userReward[<<u, r>>])] :
     r \in Granted(u)}

\* No progress row yet is in_progress.
ListTasks(u) == [t \in Task |-> taskStatus[<<u, t>>]]

(***************************************************************************)
(* A task is claimed if and only if it is what put its reward into the     *)
(* user's list, for every race and every failure: no claim without its     *)
(* reward, no reward without its claim, no reward claimed by two tasks.    *)
(***************************************************************************)
ClaimedMeansGranted ==
  \A u \in User, t \in Task :
    taskStatus[<<u, t>>] = "claimed" <=> userReward[<<u, RewardOf[t]>>].by = t

(***************************************************************************)
(* A request refused because the task was claimed or the reward issued is  *)
(* refused for a committed reason, not for a rival that then rolled back.  *)
(***************************************************************************)
RefusalsAreTrue ==
  \A s \in Session :
    LET r == request[s] IN
    /\ pc[s] = "already_claimed" => taskStatus[<<r.user, r.task>>] = "claimed"
    /\ pc[s] = "already_issued" => userReward[<<r.user, r.reward>>] # NoReward

(***************************************************************************)
(* A reward once granted is never granted again, taken over or lost, its   *)
(* expiry is not prolonged, and a claimed task stays claimed: retries      *)
(* after a lost answer change nothing.  In the user's lists a reward only  *)
(* goes from issued to expired, and never comes back.                      *)
(***************************************************************************)
KeepsGrants ==
  /\ \A k \in User \X Reward : userReward[k] # NoReward => userReward'[k] = userReward[k]
  /\ \A u \in User :
       /\ \A t \in Task : ListTasks(u)[t] = "claimed" => ListTasks(u)'[t] = "claimed"
       /\ \A x \in ListUserRewards(u) :
            \E y \in ListUserRewards(u)' :
              y \in {x, [x EXCEPT !.status = "expired"]}

GrantsAreFinal == [][KeepsGrants]_vars

(***************************************************************************)
(* Every request ends, though claims of different tasks queue for the same *)
(* reward: the task row is always locked before the reward's key.          *)
(***************************************************************************)
RequestEnds == \A s \in Session : pc[s] # "idle" ~> pc[s] = "idle"

(***************************************************************************)
(* internal/handler/tasks.go: a claim "fails if the task doesn't exist,    *)
(* hasn't been completed yet, or was already claimed", and so never        *)
(* because the reward was issued before (README.md: completed tasks reuse  *)
(* the same rewards).                                                      *)
(***************************************************************************)
CompletedTaskIsClaimable ==
  \A s \in Session : request[s].task # None => pc[s] # "already_issued"
=============================================================================
