------------------------- MODULE RewardGrantsProofs -------------------------
(***************************************************************************)
(* Proofs about RewardGrants, for any number of requests, users, tasks and *)
(* rewards and any catalogue: its types, that claims and grants agree,     *)
(* that refusals are true, and that what was granted stays granted.        *)
(***************************************************************************)
EXTENDS RewardGrants, TLAPS

-----------------------------------------------------------------------------
(***************************************************************************)
(* The strengthening.  A request knows what it was called with; it holds   *)
(* the progress row from its update to its end and the reward's key while  *)
(* its insert is uncommitted, and nothing else; and what it holds is as it *)
(* found it: the task completed, the reward not there.                     *)
(***************************************************************************)
Calls(s) ==
  /\ pc[s] \in {"claim", "create", "commit", "already_claimed", "already_issued"} =>
       request[s].user \in User /\ request[s].reward \in Reward
  /\ pc[s] \in {"claim", "already_claimed"} => request[s].task \in Task
  /\ request[s].task # None => request[s].reward = RewardOf[request[s].task]

TaskRows ==
  /\ \A s \in Session, k \in User \X Task :
       taskLock[k] = s => k = <<request[s].user, request[s].task>>
  /\ \A s \in Session :
       pc[s] \in {"create", "commit"} /\ request[s].task # None =>
         taskLock[<<request[s].user, request[s].task>>] = s
  /\ \A k \in User \X Task : taskLock[k] # None => taskStatus[k] = "completed"
  /\ \A s \in Session :
       pc[s] = "claim" => taskStatus[<<request[s].user, request[s].task>>] # "in_progress"

RewardKeys ==
  /\ \A s \in Session, k \in User \X Reward :
       rewardLock[k] = s <=> pc[s] = "commit" /\ k = <<request[s].user, request[s].reward>>
  /\ \A k \in User \X Reward : rewardLock[k] # None => userReward[k] = NoReward

IInv ==
  /\ TypeOK
  /\ \A s \in Session : Calls(s)
  /\ TaskRows /\ RewardKeys
  /\ ClaimedMeansGranted
  /\ RefusalsAreTrue

-----------------------------------------------------------------------------
LEMMA InitOK == Init => IInv
<1> SUFFICES ASSUME Init PROVE IInv
  OBVIOUS
<1>1. TypeOK
  BY CatalogAssumption
  DEF Init, TypeOK, Status, UserReward, NoReward, Phase, Request, NoRequest
<1>2. \A s \in Session : Calls(s)
  BY DEF Init, Calls, NoRequest
<1>3. TaskRows
  BY CatalogAssumption DEF Init, TaskRows
<1>4. RewardKeys
  BY CatalogAssumption DEF Init, RewardKeys
<1>5. ClaimedMeansGranted
  BY CatalogAssumption DEF Init, ClaimedMeansGranted, NoReward
<1>6. RefusalsAreTrue
  BY DEF Init, RefusalsAreTrue
<1> QED
  BY <1>1, <1>2, <1>3, <1>4, <1>5, <1>6 DEF IInv

LEMMA TickOK == ASSUME IInv, Tick PROVE IInv'
<1>1. clock + 1 \in 0..MaxClock
  BY CatalogAssumption DEF IInv, TypeOK, Tick
<1>2. TypeOK'
  BY <1>1 DEF IInv, TypeOK, Tick
<1>3. (\A s \in Session : Calls(s)') /\ TaskRows' /\ RewardKeys'
  BY DEF IInv, Tick, Calls, TaskRows, RewardKeys
<1>4. ClaimedMeansGranted' /\ RefusalsAreTrue'
  BY DEF IInv, Tick, ClaimedMeansGranted, RefusalsAreTrue
<1> QED
  BY <1>2, <1>3, <1>4 DEF IInv

LEMMA CompleteTaskOK ==
  ASSUME IInv, NEW u \in User, NEW t \in Task, CompleteTask(u, t) PROVE IInv'
<1>1. /\ taskStatus' = [taskStatus EXCEPT ![<<u, t>>] = "completed"]
      /\ taskStatus[<<u, t>>] = "in_progress"
      /\ UNCHANGED <<clock, userReward, taskLock, rewardLock, pc, request>>
  BY DEF CompleteTask
<1>2. /\ taskStatus'[<<u, t>>] = "completed"
      /\ \A k \in User \X Task : k # <<u, t>> => taskStatus'[k] = taskStatus[k]
      /\ taskStatus' \in [User \X Task -> Status]
  BY <1>1 DEF IInv, TypeOK, Status
<1>3. TypeOK' /\ (\A s \in Session : Calls(s)') /\ RewardKeys'
  BY <1>1, <1>2 DEF IInv, TypeOK, Calls, RewardKeys
<1>4. TaskRows'
  BY <1>1, <1>2 DEF IInv, TaskRows
<1>5. ClaimedMeansGranted'
  BY <1>1, <1>2, ZenonT(60) DEF IInv, ClaimedMeansGranted
<1>6. RefusalsAreTrue'
  <2> SUFFICES ASSUME NEW s \in Session
               PROVE  /\ pc[s] = "already_claimed" =>
                           taskStatus'[<<request[s].user, request[s].task>>] = "claimed"
                      /\ pc[s] = "already_issued" =>
                           userReward[<<request[s].user, request[s].reward>>] # NoReward
    BY <1>1 DEF RefusalsAreTrue
  <2> QED
    BY <1>1, <1>2 DEF IInv, Calls, RefusalsAreTrue
<1> QED
  BY <1>3, <1>4, <1>5, <1>6 DEF IInv

\* A step of s that changes only where s is, its arguments, and its locks.
LEMMA LocalOK ==
  ASSUME IInv, NEW s \in Session, TypeOK',
         UNCHANGED <<clock, taskStatus, userReward>>,
         \A r \in Session \ {s} : UNCHANGED <<pc[r], request[r]>>,
         Calls(s)', TaskRows', RewardKeys',
         pc'[s] = "already_claimed" =>
           taskStatus[<<request'[s].user, request'[s].task>>] = "claimed",
         pc'[s] = "already_issued" =>
           userReward[<<request'[s].user, request'[s].reward>>] # NoReward
  PROVE  IInv'
<1>1. \A r \in Session : Calls(r)'
  BY DEF IInv, Calls
<1>2. ClaimedMeansGranted'
  BY DEF IInv, ClaimedMeansGranted
<1>3. RefusalsAreTrue'
  BY DEF IInv, RefusalsAreTrue
<1> QED
  BY <1>1, <1>2, <1>3 DEF IInv

\* An idle request holds nothing.
LEMMA IdleHoldsNothing ==
  ASSUME IInv, NEW s \in Session, pc[s] \in {"idle", "claim"}
  PROVE  /\ \A k \in User \X Task : taskLock[k] # s
         /\ \A k \in User \X Reward : rewardLock[k] # s
<1>1. ASSUME NEW k \in User \X Task PROVE taskLock[k] # s
  <2>1. PICK u \in User, t \in Task : k = <<u, t>>
    OBVIOUS
  <2>2. taskLock[<<u, t>>] # s
    BY DEF IInv, TypeOK
  <2> QED
    BY <2>1, <2>2
<1>2. ASSUME NEW k \in User \X Reward PROVE rewardLock[k] # s
  BY DEF IInv, RewardKeys
<1> QED
  BY <1>1, <1>2

\* ClaimTask and IssueReward read, and find_nothing: no lock is taken.
LEMMA CallOK ==
  ASSUME IInv, NEW s \in Session, pc[s] = "idle",
         NEW c \in Request, NEW phase \in Phase \ {"commit"},
         request' = [request EXCEPT ![s] = c], pc' = [pc EXCEPT ![s] = phase],
         UNCHANGED <<clock, taskStatus, userReward, taskLock, rewardLock>>,
         phase \in {"claim", "create", "already_claimed"} => c.user \in User /\ c.reward \in Reward,
         phase \in {"claim", "already_claimed"} => c.task \in Task,
         phase = "create" => c.task = None,
         phase = "claim" => taskStatus[<<c.user, c.task>>] # "in_progress",
         c.task # None => c.reward = RewardOf[c.task],
         phase = "already_claimed" => taskStatus[<<c.user, c.task>>] = "claimed",
         phase # "already_issued"
  PROVE  IInv'
<1>1. /\ \A k \in User \X Task : taskLock[k] # s
      /\ \A k \in User \X Reward : rewardLock[k] # s
  BY IdleHoldsNothing
<1>2. pc'[s] = phase /\ request'[s] = c
  BY DEF IInv, TypeOK
<1>3. \A r \in Session \ {s} : UNCHANGED <<pc[r], request[r]>>
  BY DEF IInv, TypeOK
<1>4. TypeOK'
  <2>1. pc' \in [Session -> Phase] /\ request' \in [Session -> Request]
    BY DEF IInv, TypeOK
  <2>2. \A u \in User, t \in Task : taskLock[<<u, t>>] # s
    BY <1>1
  <2> QED
    BY <1>3, <2>1, <2>2 DEF IInv, TypeOK
<1>5. Calls(s)'
  BY <1>2 DEF Calls
<1>6. TaskRows'
  BY <1>1, <1>2, <1>3 DEF IInv, TaskRows
<1>7. RewardKeys'
  BY <1>1, <1>2, <1>3 DEF IInv, RewardKeys
<1> QED
  BY <1>2, <1>3, <1>4, <1>5, <1>6, <1>7, LocalOK

LEMMA GetTaskOK ==
  ASSUME IInv, NEW s \in Session, NEW u \in User, NEW t \in Task, GetTaskWithProgress(s, u, t)
  PROVE  IInv'
<1> DEFINE c == [user |-> u, task |-> t, reward |-> RewardOf[t], expires |-> None]
           phase == CASE taskStatus[<<u, t>>] = "claimed" -> "already_claimed"
                      [] taskStatus[<<u, t>>] = "completed" -> "claim"
                      [] OTHER -> "not_completed"
<1>1. c \in Request /\ RewardOf[t] \in Reward /\ t # None
  BY CatalogAssumption DEF Request
<1>2. /\ phase \in {"claim", "already_claimed", "not_completed"}
      /\ phase = "already_claimed" => taskStatus[<<u, t>>] = "claimed"
      /\ phase = "claim" => taskStatus[<<u, t>>] # "in_progress"
  OBVIOUS
<1>3. /\ pc[s] = "idle" /\ request' = [request EXCEPT ![s] = c]
      /\ pc' = [pc EXCEPT ![s] = phase]
      /\ UNCHANGED <<clock, taskStatus, userReward, taskLock, rewardLock>>
  BY DEF GetTaskWithProgress, Goto
<1>4. phase \in Phase \ {"commit"}
  BY <1>2 DEF Phase, Failed
<1> HIDE DEF phase
<1> QED
  BY <1>1, <1>2, <1>3, <1>4, CallOK

LEMMA CheckLevelOK ==
  ASSUME IInv, NEW s \in Session, NEW u \in User, NEW r \in Reward, NEW level \in Level,
         CheckLevel(s, u, r, level)
  PROVE  IInv'
<1> DEFINE c == [user |-> u, task |-> None, reward |-> r, expires |-> ExpiresAt(r)]
           phase == CASE r \notin ActiveReward -> "reward_inactive"
                      [] r \in ActiveReward /\ level < RequiredLevel[r] -> "level_too_low"
                      [] OTHER -> "create"
<1>1. ExpiresAt(r) \in Nat \cup {None}
  <2>1. ValidityDays[r] \in Nat \cup {None} /\ clock \in Nat
    BY CatalogAssumption DEF IInv, TypeOK
  <2> QED
    BY <2>1 DEF ExpiresAt
<1>2. c \in Request /\ c.task = None
  BY <1>1 DEF Request
<1>3. phase \in {"reward_inactive", "level_too_low", "create"}
  OBVIOUS
<1>4. /\ pc[s] = "idle" /\ request' = [request EXCEPT ![s] = c]
      /\ pc' = [pc EXCEPT ![s] = phase]
      /\ UNCHANGED <<clock, taskStatus, userReward, taskLock, rewardLock>>
  BY DEF CheckLevel, Goto
<1>5. phase \in Phase \ {"commit"}
  BY <1>3 DEF Phase, Failed
<1>6. c.user = u /\ c.reward = r
  OBVIOUS
<1> HIDE DEF phase, c
<1> QED
  BY <1>2, <1>3, <1>4, <1>5, <1>6, CallOK

LEMMA FindNothingOK == ASSUME IInv, NEW s \in Session, FindNothing(s) PROVE IInv'
<1>1. request[s] \in Request /\ Calls(s)
  BY DEF IInv, TypeOK
<1>2. /\ pc[s] = "idle" /\ request' = [request EXCEPT ![s] = request[s]]
      /\ pc' = [pc EXCEPT ![s] = "not_found"]
      /\ UNCHANGED <<clock, taskStatus, userReward, taskLock, rewardLock>>
  BY DEF IInv, TypeOK, FindNothing, Goto
<1>3. "not_found" \in Phase \ {"commit"}
  BY DEF Phase, Failed
<1>4. request[s].task # None => request[s].reward = RewardOf[request[s].task]
  BY <1>1 DEF Calls
<1> QED
  BY <1>1, <1>2, <1>3, <1>4, CallOK

LEMMA ClaimProgressOK == ASSUME IInv, NEW s \in Session, ClaimProgress(s) PROVE IInv'
<1> DEFINE k == <<request[s].user, request[s].task>>
<1>1. /\ pc[s] = "claim" /\ taskLock[k] = None /\ k \in User \X Task
      /\ request[s].reward \in Reward
      /\ UNCHANGED <<clock, taskStatus, userReward, rewardLock, request>>
  BY DEF ClaimProgress, IInv, Calls
<1>2. /\ \A j \in User \X Task : taskLock[j] # s
      /\ \A j \in User \X Reward : rewardLock[j] # s
  BY <1>1, IdleHoldsNothing
<1>3. CASE taskStatus[k] = "completed"
  <2>1. /\ taskLock' = [taskLock EXCEPT ![k] = s] /\ pc' = [pc EXCEPT ![s] = "create"]
    BY <1>3 DEF ClaimProgress, Goto
  <2>2. /\ taskLock'[k] = s /\ pc'[s] = "create"
        /\ \A j \in User \X Task : j # k => taskLock'[j] = taskLock[j]
        /\ \A r \in Session \ {s} : UNCHANGED <<pc[r], request[r]>>
        /\ taskLock' \in [User \X Task -> Session \cup {None}]
        /\ pc' \in [Session -> Phase]
    BY <1>1, <2>1 DEF IInv, TypeOK, Phase
  <2>3. TypeOK'
    <3> SUFFICES ASSUME NEW r \in Session, NEW u \in User, NEW t \in Task, taskLock'[<<u, t>>] = r
                 PROVE  /\ request[r].user = u /\ request[r].task = t
                        /\ pc'[r] \in {"create", "commit", "already_issued"}
      BY <1>1, <2>2 DEF IInv, TypeOK
    <3>1. CASE <<u, t>> = k
      BY <2>2, <3>1
    <3>2. CASE <<u, t>> # k
      <4>1. taskLock[<<u, t>>] = r /\ r # s
        BY <1>2, <2>2, <3>2
      <4> QED
        BY <2>2, <4>1 DEF IInv, TypeOK
    <3> QED
      BY <3>1, <3>2
  <2>4. Calls(s)'
    BY <1>1, <2>2 DEF IInv, Calls
  <2>5. TaskRows'
    <3>1. \A r \in Session, j \in User \X Task :
            taskLock'[j] = r => j = <<request[r].user, request[r].task>>
      BY <1>2, <2>2 DEF IInv, TaskRows
    <3>2. ASSUME NEW r \in Session, pc'[r] \in {"create", "commit"}, request[r].task # None
          PROVE  taskLock'[<<request[r].user, request[r].task>>] = r
      <4>1. CASE r = s
        BY <2>2, <4>1
      <4>2. CASE r # s
        <5>1. /\ taskLock[<<request[r].user, request[r].task>>] = r
              /\ request[r].user \in User /\ request[r].task \in Task
          BY <2>2, <3>2, <4>2 DEF IInv, TaskRows, Calls, TypeOK, Request
        <5>2. <<request[r].user, request[r].task>> # k
          BY <1>1, <5>1, CatalogAssumption
        <5> QED
          BY <2>2, <5>1, <5>2
      <4> QED
        BY <4>1, <4>2
    <3>3. \A j \in User \X Task : taskLock'[j] # None => taskStatus[j] = "completed"
      BY <1>3, <2>2 DEF IInv, TaskRows
    <3>4. ASSUME NEW r \in Session, pc'[r] = "claim"
          PROVE  taskStatus[<<request[r].user, request[r].task>>] # "in_progress"
      BY <2>2, <3>4 DEF IInv, TaskRows
    <3> QED
      BY <1>1, <3>1, <3>2, <3>3, <3>4 DEF TaskRows
  <2>6. RewardKeys'
    BY <1>1, <1>2, <2>2 DEF IInv, RewardKeys
  <2> QED
    BY <1>1, <2>2, <2>3, <2>4, <2>5, <2>6, LocalOK
<1>4. CASE taskStatus[k] # "completed"
  <2>1. taskLock' = taskLock /\ pc' = [pc EXCEPT ![s] = "already_claimed"]
    BY <1>4 DEF ClaimProgress, Goto
  <2>2. taskStatus[k] = "claimed"
    <3>1. taskStatus[k] \in Status /\ taskStatus[k] # "in_progress"
      BY <1>1 DEF IInv, TypeOK, TaskRows
    <3> QED
      BY <1>4, <3>1 DEF Status
  <2>3. /\ pc'[s] = "already_claimed" /\ pc' \in [Session -> Phase]
        /\ \A r \in Session \ {s} : UNCHANGED <<pc[r], request[r]>>
    BY <1>1, <2>1 DEF IInv, TypeOK, Phase, Failed
  <2>4. TypeOK'
    <3>1. \A u \in User, t \in Task : taskLock[<<u, t>>] # s
      BY <1>2
    <3> QED
      BY <1>1, <2>1, <2>3, <3>1 DEF IInv, TypeOK
  <2>5. Calls(s)'
    BY <1>1, <2>3 DEF IInv, Calls
  <2>6. TaskRows'
    BY <1>1, <1>2, <2>1, <2>3 DEF IInv, TaskRows
  <2>7. RewardKeys'
    BY <1>1, <1>2, <2>1, <2>3 DEF IInv, RewardKeys
  <2> QED
    BY <1>1, <2>2, <2>3, <2>4, <2>5, <2>6, <2>7, LocalOK
<1> QED
  BY <1>3, <1>4

LEMMA CreateUserRewardOK == ASSUME IInv, NEW s \in Session, CreateUserReward(s) PROVE IInv'
<1> DEFINE k == <<request[s].user, request[s].reward>>
<1>1. /\ pc[s] = "create" /\ rewardLock[k] = None /\ k \in User \X Reward
      /\ UNCHANGED <<clock, taskStatus, userReward, taskLock, request>>
  BY DEF CreateUserReward, IInv, Calls
<1>2. \A j \in User \X Reward : rewardLock[j] # s
  BY <1>1 DEF IInv, RewardKeys
<1>3. PICK phase \in {"commit", "already_issued"} : pc' = [pc EXCEPT ![s] = phase]
  BY DEF CreateUserReward, Goto
<1>4. /\ pc'[s] = phase /\ pc' \in [Session -> Phase]
      /\ \A r \in Session \ {s} : UNCHANGED <<pc[r], request[r]>>
  BY <1>1, <1>3 DEF IInv, TypeOK, Phase, Failed
<1>5. /\ userReward[k] = NoReward => phase = "commit" /\ rewardLock' = [rewardLock EXCEPT ![k] = s]
      /\ userReward[k] # NoReward => phase = "already_issued" /\ rewardLock' = rewardLock
  BY <1>4 DEF CreateUserReward, Goto, IInv, TypeOK
<1>6. /\ rewardLock' \in [User \X Reward -> Session \cup {None}]
      /\ phase = "commit" => rewardLock'[k] = s /\ userReward[k] = NoReward
      /\ phase = "already_issued" => rewardLock'[k] = None /\ userReward[k] # NoReward
      /\ \A j \in User \X Reward : j # k => rewardLock'[j] = rewardLock[j]
  BY <1>1, <1>5 DEF IInv, TypeOK
<1>7. TypeOK'
  BY <1>1, <1>3, <1>4, <1>6 DEF IInv, TypeOK
<1>8. Calls(s)'
  BY <1>1, <1>4 DEF IInv, Calls
<1>9. TaskRows'
  BY <1>1, <1>3, <1>4 DEF IInv, TaskRows
<1>10. RewardKeys'
  <2>1. ASSUME NEW r \in Session, NEW j \in User \X Reward
        PROVE  rewardLock'[j] = r <=> pc'[r] = "commit" /\ j = <<request[r].user, request[r].reward>>
    <3>1. CASE r = s
      BY <1>1, <1>2, <1>3, <1>4, <1>6, <3>1, CatalogAssumption
    <3>2. CASE r # s
      <4>1. rewardLock'[j] = r <=> rewardLock[j] = r
        <5>1. CASE j = k
          BY <1>1, <1>6, <3>2, <5>1, CatalogAssumption
        <5>2. CASE j # k
          BY <1>6, <5>2
        <5> QED
          BY <5>1, <5>2
      <4>2. rewardLock[j] = r <=> pc[r] = "commit" /\ j = <<request[r].user, request[r].reward>>
        BY DEF IInv, RewardKeys
      <4>3. pc'[r] = pc[r] /\ request'[r] = request[r]
        BY <1>4, <3>2
      <4> HIDE DEF k
      <4> QED
        BY <1>1, <4>1, <4>2, <4>3
    <3> QED
      BY <3>1, <3>2
  <2>2. \A j \in User \X Reward : rewardLock'[j] # None => userReward[j] = NoReward
    BY <1>3, <1>6 DEF IInv, RewardKeys
  <2> QED
    BY <1>1, <2>1, <2>2 DEF RewardKeys
<1> QED
  BY <1>1, <1>3, <1>4, <1>6, <1>7, <1>8, <1>9, <1>10, LocalOK

-----------------------------------------------------------------------------
\* The end of a transaction: whatever s held is free, the rest is as it was.
LEMMA UnlockOK ==
  ASSUME TypeOK, NEW s \in Session, Unlock(s)
  PROVE  /\ taskLock' \in [User \X Task -> Session \cup {None}]
         /\ rewardLock' \in [User \X Reward -> Session \cup {None}]
         /\ \A k \in User \X Task :
              taskLock'[k] = IF taskLock[k] = s THEN None ELSE taskLock[k]
         /\ \A k \in User \X Reward :
              rewardLock'[k] = IF rewardLock[k] = s THEN None ELSE rewardLock[k]
         /\ \A k \in User \X Task : taskLock'[k] # s
         /\ \A k \in User \X Reward : rewardLock'[k] # s
BY CatalogAssumption DEF TypeOK, Unlock

\* An answer or an abort: the request is over and nothing was written.
LEMMA EndOK ==
  ASSUME IInv, NEW s \in Session, Unlock(s), UNCHANGED <<clock, taskStatus, userReward>>,
         request' = [request EXCEPT ![s] = NoRequest], pc' = [pc EXCEPT ![s] = "idle"]
  PROVE  IInv'
<1>1. /\ pc'[s] = "idle" /\ request'[s] = NoRequest /\ NoRequest \in Request
      /\ pc' \in [Session -> Phase] /\ request' \in [Session -> Request]
      /\ \A r \in Session \ {s} : UNCHANGED <<pc[r], request[r]>>
  BY DEF IInv, TypeOK, Phase, Request, NoRequest
<1>2. TypeOK'
  <2>1. ASSUME NEW r \in Session, NEW u \in User, NEW t \in Task, taskLock'[<<u, t>>] = r
        PROVE  /\ request'[r].user = u /\ request'[r].task = t
               /\ pc'[r] \in {"create", "commit", "already_issued"}
    <3>1. r # s /\ taskLock[<<u, t>>] = r
      BY <2>1, UnlockOK, CatalogAssumption DEF IInv
    <3> QED
      BY <1>1, <3>1 DEF IInv, TypeOK
  <2> QED
    BY <1>1, <2>1, UnlockOK DEF IInv, TypeOK
<1>3. Calls(s)'
  BY <1>1 DEF Calls, NoRequest
<1>4. TaskRows'
  <2>1. \A r \in Session, k \in User \X Task :
          taskLock'[k] = r => k = <<request'[r].user, request'[r].task>>
    BY <1>1, UnlockOK, CatalogAssumption, SMTT(20) DEF IInv, TaskRows
  <2>2. ASSUME NEW r \in Session, pc'[r] \in {"create", "commit"}, request'[r].task # None
        PROVE  taskLock'[<<request'[r].user, request'[r].task>>] = r
    <3>1. /\ r # s /\ request'[r] = request[r]
          /\ taskLock[<<request[r].user, request[r].task>>] = r
          /\ <<request[r].user, request[r].task>> \in User \X Task
      BY <1>1, <2>2 DEF IInv, TaskRows, Calls, TypeOK, Request
    <3> QED
      BY <3>1, UnlockOK DEF IInv
  <2>3. \A k \in User \X Task : taskLock'[k] # None => taskStatus[k] = "completed"
    BY UnlockOK DEF IInv, TaskRows
  <2>4. \A r \in Session : pc'[r] = "claim" =>
          taskStatus[<<request'[r].user, request'[r].task>>] # "in_progress"
    BY <1>1 DEF IInv, TaskRows
  <2> QED
    BY <2>1, <2>2, <2>3, <2>4 DEF TaskRows
<1>5. RewardKeys'
  <2>1. ASSUME NEW r \in Session, NEW k \in User \X Reward
        PROVE  rewardLock'[k] = r <=>
                 pc'[r] = "commit" /\ k = <<request'[r].user, request'[r].reward>>
    <3>1. CASE r = s
      BY <1>1, <3>1, UnlockOK DEF IInv
    <3>2. CASE r # s
      BY <1>1, <3>2, UnlockOK, CatalogAssumption DEF IInv, RewardKeys
    <3> QED
      BY <3>1, <3>2
  <2>2. \A k \in User \X Reward : rewardLock'[k] # None => userReward[k] = NoReward
    BY UnlockOK DEF IInv, RewardKeys
  <2> QED
    BY <2>1, <2>2 DEF RewardKeys
<1> QED
  BY <1>1, <1>2, <1>3, <1>4, <1>5, LocalOK

\* What the commit of s writes: its one reward, and its one task if it has one.
LEMMA CommitWrites ==
  ASSUME IInv, NEW s \in Session, Commit(s)
  PROVE  LET ur == <<request[s].user, request[s].reward>>
             ut == <<request[s].user, request[s].task>>
         IN /\ ur \in User \X Reward /\ userReward[ur] = NoReward
            /\ userReward' \in [User \X Reward -> UserReward]
            /\ userReward'[ur] = NewReward(s) /\ NewReward(s) # NoReward
            /\ \A k \in User \X Reward : k # ur => userReward'[k] = userReward[k]
            /\ taskStatus' \in [User \X Task -> Status]
            /\ request[s].task # None =>
                 /\ ut \in User \X Task /\ taskLock[ut] = s /\ request[s].reward = RewardOf[request[s].task]
                 /\ taskStatus'[ut] = "claimed" /\ taskStatus[ut] = "completed"
            /\ \A k \in User \X Task :
                 request[s].task = None \/ k # ut => taskStatus'[k] = taskStatus[k]
            /\ \A k \in User \X Task : taskLock[k] = s => request[s].task # None /\ k = ut
<1> DEFINE ur == <<request[s].user, request[s].reward>>
           ut == <<request[s].user, request[s].task>>
<1>1. pc[s] = "commit" /\ request[s] \in Request
  BY DEF Commit, IInv, TypeOK
<1>2. ur \in User \X Reward /\ rewardLock[ur] = s
  BY <1>1 DEF IInv, Calls, RewardKeys
<1>3. userReward[ur] = NoReward
  BY <1>2, CatalogAssumption DEF IInv, RewardKeys
<1>4. NewReward(s) \in UserReward /\ NewReward(s) # NoReward
  <2>1. Source(s) \in Task \cup {Direct} /\ Source(s) # None
    BY <1>1, CatalogAssumption DEF Source, Request
  <2>2. request[s].expires \in Nat \cup {None}
    BY <1>1 DEF Request
  <2> QED
    BY <2>1, <2>2 DEF NewReward, UserReward, NoReward
<1>5. \A k \in User \X Reward : rewardLock[k] = s <=> k = ur
  BY <1>1 DEF IInv, RewardKeys
<1>6. \A k \in User \X Reward : userReward'[k] = IF k = ur THEN NewReward(s) ELSE userReward[k]
  BY <1>5 DEF Commit
<1>7. userReward' \in [User \X Reward -> UserReward]
  BY <1>4 DEF Commit, IInv, TypeOK
<1>8. ASSUME NEW k \in User \X Task, taskLock[k] = s PROVE request[s].task # None /\ k = ut
  BY <1>8, CatalogAssumption DEF IInv, TaskRows
<1>9. ASSUME request[s].task # None
      PROVE  /\ ut \in User \X Task /\ taskLock[ut] = s
             /\ request[s].reward = RewardOf[request[s].task] /\ taskStatus[ut] = "completed"
  <2>1. ut \in User \X Task
    BY <1>1, <1>2, <1>9 DEF Request
  <2>2. taskLock[ut] = s
    BY <1>1, <1>9 DEF IInv, TaskRows
  <2> QED
    BY <1>9, <2>1, <2>2, CatalogAssumption DEF IInv, TaskRows, Calls
<1>10. \A k \in User \X Task :
         taskStatus'[k] = IF taskLock[k] = s THEN "claimed" ELSE taskStatus[k]
  BY DEF Commit
<1>11. taskStatus' \in [User \X Task -> Status]
  BY DEF Commit, IInv, TypeOK, Status
<1> QED
  BY <1>2, <1>3, <1>4, <1>6, <1>7, <1>8, <1>9, <1>10, <1>11

LEMMA CommitOK == ASSUME IInv, NEW s \in Session, Commit(s) PROVE IInv'
<1> DEFINE ur == <<request[s].user, request[s].reward>>
           ut == <<request[s].user, request[s].task>>
<1>1. /\ pc[s] = "commit" /\ Unlock(s) /\ UNCHANGED <<clock, request>>
      /\ pc' = [pc EXCEPT ![s] = "done"]
  BY DEF Commit, Goto
<1>2. /\ pc'[s] = "done" /\ pc' \in [Session -> Phase]
      /\ \A r \in Session \ {s} : pc'[r] = pc[r]
  BY <1>1 DEF IInv, TypeOK, Phase
<1>3. TypeOK'
  <2>1. ASSUME NEW r \in Session, NEW u \in User, NEW t \in Task, taskLock'[<<u, t>>] = r
        PROVE  /\ request'[r].user = u /\ request'[r].task = t
               /\ pc'[r] \in {"create", "commit", "already_issued"}
    <3>1. r # s /\ taskLock[<<u, t>>] = r
      BY <1>1, <2>1, UnlockOK, CatalogAssumption DEF IInv
    <3> QED
      BY <1>1, <1>2, <3>1 DEF IInv, TypeOK
  <2> QED
    BY <1>1, <1>2, <2>1, UnlockOK, CommitWrites DEF IInv, TypeOK
<1>4. \A r \in Session : Calls(r)'
  BY <1>1, <1>2 DEF IInv, Calls
<1>5. ASSUME NEW k \in User \X Task, taskLock[k] # None, taskLock[k] # s
      PROVE  taskStatus'[k] = taskStatus[k]
  <2>1. request[s].task = None \/ k # ut
    BY <1>5, CommitWrites
  <2> QED
    BY <2>1, CommitWrites
<1>6. TaskRows'
  <2>1. \A r \in Session, k \in User \X Task :
          taskLock'[k] = r => k = <<request'[r].user, request'[r].task>>
    BY <1>1, UnlockOK, CatalogAssumption DEF IInv, TaskRows
  <2>2. ASSUME NEW r \in Session, pc'[r] \in {"create", "commit"}, request'[r].task # None
        PROVE  taskLock'[<<request'[r].user, request'[r].task>>] = r
    <3>1. /\ r # s /\ request' = request /\ taskLock[<<request[r].user, request[r].task>>] = r
          /\ <<request[r].user, request[r].task>> \in User \X Task
      BY <1>1, <1>2, <2>2 DEF IInv, TaskRows, Calls, TypeOK, Request
    <3> QED
      BY <1>1, <3>1, UnlockOK DEF IInv
  <2>3. ASSUME NEW k \in User \X Task, taskLock'[k] # None PROVE taskStatus'[k] = "completed"
    <3>1. taskLock[k] # None /\ taskLock[k] # s
      BY <1>1, <2>3, UnlockOK DEF IInv
    <3> QED
      BY <1>5, <3>1 DEF IInv, TaskRows
  <2>4. ASSUME NEW r \in Session, pc'[r] = "claim"
        PROVE  taskStatus'[<<request'[r].user, request'[r].task>>] # "in_progress"
    <3> DEFINE k == <<request[r].user, request[r].task>>
    <3>1. k \in User \X Task /\ taskStatus[k] # "in_progress" /\ request' = request
      BY <1>1, <1>2, <2>4 DEF IInv, Calls, TaskRows
    <3>2. taskStatus'[k] = "claimed" \/ taskStatus'[k] = taskStatus[k]
      BY <3>1, CommitWrites
    <3> QED
      BY <3>1, <3>2
  <2> QED
    BY <2>1, <2>2, <2>3, <2>4 DEF TaskRows
<1>7. RewardKeys'
  <2>1. ASSUME NEW r \in Session, NEW k \in User \X Reward
        PROVE  rewardLock'[k] = r <=>
                 pc'[r] = "commit" /\ k = <<request'[r].user, request'[r].reward>>
    <3>1. CASE r = s
      BY <1>1, <1>2, <3>1, UnlockOK DEF IInv
    <3>2. CASE r # s
      BY <1>1, <1>2, <3>2, UnlockOK, CatalogAssumption DEF IInv, RewardKeys
    <3> QED
      BY <3>1, <3>2
  <2>2. ASSUME NEW k \in User \X Reward, rewardLock'[k] # None PROVE userReward'[k] = NoReward
    <3>1. rewardLock[k] # None /\ rewardLock[k] # s
      BY <1>1, <2>2, UnlockOK DEF IInv
    <3>2. ur \in User \X Reward /\ \A j \in User \X Reward : j # ur => userReward'[j] = userReward[j]
      BY CommitWrites
    <3>3. rewardLock[ur] = s
      BY <1>1, <3>2 DEF IInv, RewardKeys
    <3>4. userReward'[k] = userReward[k]
      BY <3>1, <3>2, <3>3
    <3> QED
      BY <3>1, <3>4 DEF IInv, RewardKeys
  <2> QED
    BY <2>1, <2>2 DEF RewardKeys
<1>8. ClaimedMeansGranted'
  <2> SUFFICES ASSUME NEW u \in User, NEW t \in Task
               PROVE  taskStatus'[<<u, t>>] = "claimed" <=> userReward'[<<u, RewardOf[t]>>].by = t
    BY DEF ClaimedMeansGranted
  <2>1. <<u, t>> \in User \X Task /\ <<u, RewardOf[t]>> \in User \X Reward /\ t # None
    BY CatalogAssumption
  <2>2. taskStatus[<<u, t>>] = "claimed" <=> userReward[<<u, RewardOf[t]>>].by = t
    BY DEF IInv, ClaimedMeansGranted
  <2>3. CASE request[s].task # None /\ <<u, t>> = ut
    <3>1. request[s].task = t /\ request[s].user = u
      BY <2>3
    <3>2. <<u, RewardOf[t]>> = ur /\ taskStatus'[<<u, t>>] = "claimed"
      BY <2>3, <3>1, CommitWrites
    <3>3. NewReward(s).by = t
      BY <2>3, <3>1 DEF NewReward, Source
    <3> QED
      BY <3>2, <3>3, CommitWrites, ZenonT(20)
  <2>4. CASE ~ (request[s].task # None /\ <<u, t>> = ut)
    <3>1. taskStatus'[<<u, t>>] = taskStatus[<<u, t>>]
      BY <2>1, <2>4, CommitWrites
    <3>2. CASE <<u, RewardOf[t]>> = ur
      <4>1. userReward[<<u, RewardOf[t]>>].by # t
        <5>1. userReward[ur] = NoReward
          BY CommitWrites
        <5> QED
          BY <2>1, <3>2, <5>1 DEF NoReward
      <4>2. request[s].user = u
        BY <3>2
      <4>3. NewReward(s).by # t
        BY <2>1, <2>4, <4>2, CatalogAssumption DEF NewReward, Source
      <4> QED
        BY <2>2, <3>1, <3>2, <4>1, <4>3, CommitWrites, ZenonT(20)
    <3>3. CASE <<u, RewardOf[t]>> # ur
      BY <2>1, <2>2, <3>1, <3>3, CommitWrites, ZenonT(20)
    <3> QED
      BY <3>2, <3>3
  <2> QED
    BY <2>3, <2>4
<1>9. RefusalsAreTrue'
  <2> SUFFICES ASSUME NEW r \in Session
               PROVE  /\ pc'[r] = "already_claimed" =>
                           taskStatus'[<<request[r].user, request[r].task>>] = "claimed"
                      /\ pc'[r] = "already_issued" =>
                           userReward'[<<request[r].user, request[r].reward>>] # NoReward
    BY <1>1 DEF RefusalsAreTrue
  <2>1. ASSUME pc'[r] = "already_claimed"
        PROVE  taskStatus'[<<request[r].user, request[r].task>>] = "claimed"
    <3> DEFINE k == <<request[r].user, request[r].task>>
    <3>1. k \in User \X Task /\ taskStatus[k] = "claimed"
      BY <1>2, <2>1 DEF IInv, Calls, RefusalsAreTrue
    <3>2. taskStatus'[k] = "claimed" \/ taskStatus'[k] = taskStatus[k]
      BY <3>1, CommitWrites
    <3> QED
      BY <3>1, <3>2
  <2>2. ASSUME pc'[r] = "already_issued"
        PROVE  userReward'[<<request[r].user, request[r].reward>>] # NoReward
    <3> DEFINE k == <<request[r].user, request[r].reward>>
    <3>1. k \in User \X Reward /\ userReward[k] # NoReward
      BY <1>2, <2>2 DEF IInv, Calls, RefusalsAreTrue
    <3> QED
      BY <3>1, CommitWrites
  <2> QED
    BY <2>1, <2>2
<1> QED
  BY <1>3, <1>4, <1>6, <1>7, <1>8, <1>9 DEF IInv

-----------------------------------------------------------------------------
LEMMA StepOK == IInv /\ [Next]_vars => IInv'
<1> SUFFICES ASSUME IInv, [Next]_vars PROVE IInv'
  OBVIOUS
<1>1. ASSUME NEW u \in User, NEW t \in Task, CompleteTask(u, t) PROVE IInv'
  BY <1>1, CompleteTaskOK
<1>2. ASSUME NEW s \in Session, NEW u \in User, NEW t \in Task, GetTaskWithProgress(s, u, t)
      PROVE  IInv'
  BY <1>2, GetTaskOK
<1>3. ASSUME NEW s \in Session, NEW u \in User, NEW r \in Reward, NEW level \in Level,
             CheckLevel(s, u, r, level)
      PROVE  IInv'
  BY <1>3, CheckLevelOK
<1>4. ASSUME NEW s \in Session, Answer(s) \/ Abort(s) PROVE IInv'
  <2>1. /\ Unlock(s) /\ UNCHANGED <<clock, taskStatus, userReward>>
        /\ request' = [request EXCEPT ![s] = NoRequest] /\ pc' = [pc EXCEPT ![s] = "idle"]
    BY <1>4 DEF Answer, Abort, Goto
  <2> QED
    BY <2>1, EndOK
<1>5. ASSUME NEW s \in Session, FindNothing(s) \/ Wait(s) \/ Commit(s) PROVE IInv'
  BY <1>5, FindNothingOK, ClaimProgressOK, CreateUserRewardOK, CommitOK DEF Wait
<1>6. CASE UNCHANGED vars
  <2>1. TypeOK'
    BY <1>6 DEF IInv, TypeOK, vars
  <2>2. (\A s \in Session : Calls(s)') /\ TaskRows' /\ RewardKeys'
    BY <1>6 DEF IInv, vars, Calls, TaskRows, RewardKeys
  <2>3. ClaimedMeansGranted' /\ RefusalsAreTrue'
    BY <1>6 DEF IInv, vars, ClaimedMeansGranted, RefusalsAreTrue
  <2> QED
    BY <2>1, <2>2, <2>3 DEF IInv
<1> QED
  BY <1>1, <1>2, <1>3, <1>4, <1>5, <1>6, TickOK DEF Next, Run

LEMMA Invariance == Spec => []IInv
<1>1. Init => IInv
  BY InitOK
<1>2. IInv /\ [Next]_vars => IInv'
  BY StepOK
<1> QED
  BY <1>1, <1>2, PTL DEF Spec

(***************************************************************************)
(* Every variable keeps its type, and a progress row is locked only by a   *)
(* request that was called for it and has not ended its transaction.       *)
(***************************************************************************)
THEOREM TypeCorrect == Spec => []TypeOK
<1>1. IInv => TypeOK
  BY DEF IInv
<1> QED
  BY <1>1, Invariance, PTL

(***************************************************************************)
(* A task is claimed if and only if its reward was granted for it, for any *)
(* catalogue, also one in which tasks share rewards.                       *)
(***************************************************************************)
THEOREM ClaimsMatchGrants == Spec => []ClaimedMeansGranted
<1>1. IInv => ClaimedMeansGranted
  BY DEF IInv
<1> QED
  BY <1>1, Invariance, PTL

(***************************************************************************)
(* No request is refused for what an uncommitted rival has done.           *)
(***************************************************************************)
THEOREM RefusalsHoldTrue == Spec => []RefusalsAreTrue
<1>1. IInv => RefusalsAreTrue
  BY DEF IInv
<1> QED
  BY <1>1, Invariance, PTL

-----------------------------------------------------------------------------
\* No step changes a grant or takes a claim back, or turns the clock back.
LEMMA TablesOnlyGrow ==
  ASSUME IInv, Next
  PROVE  /\ clock' \in {clock, clock + 1}
         /\ \A k \in User \X Reward : userReward[k] # NoReward => userReward'[k] = userReward[k]
         /\ \A k \in User \X Task : taskStatus[k] = "claimed" => taskStatus'[k] = "claimed"
<1>1. CASE Tick
  BY <1>1 DEF Tick
<1>2. ASSUME NEW u \in User, NEW t \in Task, CompleteTask(u, t)
      PROVE  /\ UNCHANGED <<clock, userReward>>
             /\ \A k \in User \X Task : taskStatus[k] = "claimed" => taskStatus'[k] = "claimed"
  BY <1>2 DEF CompleteTask, IInv, TypeOK
<1>3. ASSUME NEW s \in Session, Commit(s)
      PROVE  /\ clock' = clock
             /\ \A k \in User \X Reward : userReward[k] # NoReward => userReward'[k] = userReward[k]
             /\ \A k \in User \X Task : taskStatus[k] = "claimed" => taskStatus'[k] = "claimed"
  <2>1. ASSUME NEW k \in User \X Reward, userReward[k] # NoReward
        PROVE  userReward'[k] = userReward[k]
    BY <1>3, <2>1, CommitWrites
  <2>2. ASSUME NEW k \in User \X Task, taskStatus[k] = "claimed" PROVE taskStatus'[k] = "claimed"
    BY <1>3, <2>2, CommitWrites
  <2> QED
    BY <1>3, <2>1, <2>2 DEF Commit
<1>4. ASSUME NEW s \in Session,
             \/ \E u \in User, t \in Task : GetTaskWithProgress(s, u, t)
             \/ \E u \in User, r \in Reward, level \in Level : CheckLevel(s, u, r, level)
             \/ FindNothing(s) \/ Wait(s) \/ Answer(s) \/ Abort(s)
      PROVE  UNCHANGED <<clock, userReward, taskStatus>>
  BY <1>4 DEF GetTaskWithProgress, CheckLevel, FindNothing, Wait, ClaimProgress,
              CreateUserReward, Answer, Abort
<1> QED
  BY <1>1, <1>2, <1>3, <1>4 DEF Next, Run

LEMMA StepKeepsGrants == IInv /\ [Next]_vars => [KeepsGrants]_vars
<1> SUFFICES ASSUME IInv, Next PROVE KeepsGrants
  OBVIOUS
<1>1. ASSUME NEW u \in User, NEW t \in Task, ListTasks(u)[t] = "claimed"
      PROVE  ListTasks(u)'[t] = "claimed"
  BY <1>1, TablesOnlyGrow DEF ListTasks
<1>2. ASSUME NEW u \in User, NEW x \in ListUserRewards(u)
      PROVE  \E y \in ListUserRewards(u)' : y \in {x, [x EXCEPT !.status = "expired"]}
  <2>1. PICK r \in Reward :
          /\ userReward[<<u, r>>] # NoReward
          /\ x = [reward |-> r, by |-> userReward[<<u, r>>].by,
                  status |-> EffectiveStatus(userReward[<<u, r>>])]
    BY DEF ListUserRewards, Granted
  <2> DEFINE row == userReward[<<u, r>>]
             y == [reward |-> r, by |-> row.by, status |-> EffectiveStatus(row)']
  <2>2. userReward'[<<u, r>>] = row
    BY <2>1, TablesOnlyGrow
  <2>3. EffectiveStatus(row)' = EffectiveStatus(row) \/ EffectiveStatus(row)' = "expired"
    <3>1. row.expires \in Nat \cup {None} /\ clock \in Nat
      <4>1. row \in UserReward
        BY DEF IInv, TypeOK
      <4> QED
        BY <4>1, CatalogAssumption DEF UserReward, IInv, TypeOK
    <3>2. row.expires # None /\ row.expires < clock => row.expires < clock'
      BY <3>1, TablesOnlyGrow
    <3> QED
      BY <2>2, <3>2 DEF EffectiveStatus
  <2>4. y \in ListUserRewards(u)'
    BY <2>1, <2>2 DEF ListUserRewards, Granted
  <2>5. y = x \/ y = [x EXCEPT !.status = "expired"]
    BY <2>1, <2>3
  <2> QED
    BY <2>4, <2>5
<1> QED
  BY <1>1, <1>2, TablesOnlyGrow DEF KeepsGrants

(***************************************************************************)
(* What was granted stays granted, with its expiry; what was claimed stays *)
(* claimed; and the user's lists only turn issued rewards into expired.    *)
(***************************************************************************)
THEOREM GrantsStay == Spec => GrantsAreFinal
<1>1. IInv /\ [Next]_vars => [KeepsGrants]_vars
  BY StepKeepsGrants
<1> QED
  BY <1>1, Invariance, PTL DEF Spec, GrantsAreFinal
=============================================================================
