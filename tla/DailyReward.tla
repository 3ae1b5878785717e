----------------------------- MODULE DailyReward -----------------------------
(***************************************************************************)
(* The daily reward calendar of one user: DailyCycleService.ClaimToday of  *)
(* internal/rewards/dailycycle.go, called by several requests over the     *)
(* tables of migrations 000005 and 000007.                                 *)
(*                                                                         *)
(* The progress row is read before the transaction and without a lock;     *)
(* each read, clock reading and statement is a step.  Users do not share   *)
(* rows, so one is enough.                                                 *)
(***************************************************************************)
EXTENDS Integers, Sequences, FiniteSets

CONSTANTS
  Session,      \* requests in progress at once
  CycleLength,  \* DailyCycleLength
  Cooldown,     \* claimCooldown
  Grace,        \* streakGraceWindow
  MaxClock,     \* bound: clock ticks
  MaxClaims,    \* bound: claims that commit
  None          \* no session, no progress row

Day == 1..CycleLength

Progress == [currentDay : Day, cycleStartedAt : 0..MaxClock, lastClaimedAt : 0..MaxClock]

ASSUME WindowsAssumption ==
  /\ CycleLength \in Nat \ {0, 1}
  /\ Cooldown \in Nat \ {0} /\ Grace \in Nat /\ Grace > Cooldown
  /\ MaxClock \in Nat /\ MaxClaims \in Nat
  /\ None \notin Session /\ None \notin Progress

VARIABLES
  clock,        \* time.Now()
  progress,     \* user_daily_reward_progress, committed
  claimLog,     \* daily_reward_claim_log, committed, in commit order
  rowLock,      \* the session whose upsert of the row is uncommitted
  pc, request   \* where a session is in ClaimToday, and its local variables

vars == <<clock, progress, claimLog, rowLock, pc, request>>

-----------------------------------------------------------------------------
\* A row of the log; after is history: the claims committed when this one read
\* the progress.
Claim == [day : Day, at : 0..MaxClock, after : 0..MaxClaims]

Request == [saved : Progress \cup {None}, after : 0..MaxClaims, day : Day,
            updated : Progress \cup {None}]

NoRequest == [saved |-> None, after |-> 0, day |-> 1, updated |-> None]

Phase == {"idle", "decide", "prepare", "upsert", "log", "commit"}

TypeOK ==
  /\ clock \in 0..MaxClock
  /\ progress \in Progress \cup {None}
  /\ claimLog \in Seq(Claim) /\ Len(claimLog) <= MaxClaims
  /\ rowLock \in Session \cup {None}
  /\ pc \in [Session -> Phase]
  /\ request \in [Session -> Request]
  /\ \A s \in Session :
       /\ pc[s] \in {"log", "commit"} <=> rowLock = s
       /\ pc[s] \in {"upsert", "log", "commit"} => request[s].updated \in Progress

-----------------------------------------------------------------------------
\* nextDay: the day after the last one is the first.
NextDay(day) == IF day >= CycleLength THEN 1 ELSE day + 1

\* Mutant: a claim late in the grace window starts over.
StreakDayStrict(saved, now) ==
  IF saved # None /\ now - saved.lastClaimedAt <= Cooldown THEN saved.currentDay ELSE 1

\* Mutant: the cooldown is not looked at.
ClaimableAnyTime(saved, now) == TRUE

\* effectiveDay: whether a claim is available ...
Claimable(saved, now) == saved # None => now - saved.lastClaimedAt >= Cooldown

\* ... and on which day the user is, once it is.
StreakDay(saved, now) ==
  IF saved # None /\ now - saved.lastClaimedAt < Grace THEN saved.currentDay ELSE 1

\* GetStatus: the day the user is on, and whether it can be claimed now.
Status(saved, now) ==
  [canClaim |-> Claimable(saved, now),
   currentDay |-> IF Claimable(saved, now) THEN StreakDay(saved, now) ELSE saved.currentDay]

\* The progress ClaimToday writes.
Advanced(saved, day, now) ==
  [currentDay |-> NextDay(day), lastClaimedAt |-> now,
   cycleStartedAt |-> IF NextDay(day) = 1 \/ saved = None THEN now ELSE saved.cycleStartedAt]

Init ==
  /\ clock = 0
  /\ progress = None
  /\ claimLog = <<>>
  /\ rowLock = None
  /\ pc = [s \in Session |-> "idle"]
  /\ request = [s \in Session |-> NoRequest]

Tick ==
  /\ clock < MaxClock
  /\ clock' = clock + 1
  /\ UNCHANGED <<progress, claimLog, rowLock, pc, request>>

Goto(s, phase) == pc' = [pc EXCEPT ![s] = phase]

\* A request starts: GetProgress, outside any transaction.
GetProgress(s) ==
  /\ pc[s] = "idle"
  /\ Len(claimLog) < MaxClaims
  /\ request' = [request EXCEPT ![s].saved = progress, ![s].after = Len(claimLog)]
  /\ Goto(s, "decide")
  /\ UNCHANGED <<clock, progress, claimLog, rowLock>>

\* effectiveDay and GetRewardForDay; ErrTooSoonToClaim ends the request.
EffectiveDay(s) ==
  LET saved == request[s].saved IN
  /\ pc[s] = "decide"
  /\ IF Claimable(saved, clock)
     THEN request' = [request EXCEPT ![s].day = StreakDay(saved, clock)] /\ Goto(s, "prepare")
     ELSE request' = [request EXCEPT ![s] = NoRequest] /\ Goto(s, "idle")
  /\ UNCHANGED <<clock, progress, claimLog, rowLock>>

\* now := time.Now(), a second reading of the clock.
PrepareProgress(s) ==
  /\ pc[s] = "prepare"
  /\ request' = [request EXCEPT ![s].updated = Advanced(request[s].saved, request[s].day, clock)]
  /\ Goto(s, "upsert")
  /\ UNCHANGED <<clock, progress, claimLog, rowLock>>

\* UpsertProgress waits for another transaction that wrote the row.
UpsertProgress(s) ==
  /\ pc[s] = "upsert"
  /\ rowLock = None
  /\ rowLock' = s
  /\ Goto(s, "log")
  /\ UNCHANGED <<clock, progress, claimLog, request>>

\* LogClaim conflicts with nothing.
LogClaim(s) ==
  /\ pc[s] = "log"
  /\ Goto(s, "commit")
  /\ UNCHANGED <<clock, progress, claimLog, rowLock, request>>

End(s) ==
  /\ rowLock' = IF rowLock = s THEN None ELSE rowLock
  /\ request' = [request EXCEPT ![s] = NoRequest]
  /\ Goto(s, "idle")

Commit(s) ==
  /\ pc[s] = "commit"
  /\ Len(claimLog) < MaxClaims
  /\ progress' = request[s].updated
  /\ claimLog' = Append(claimLog, [day |-> request[s].day, after |-> request[s].after,
                                   at |-> request[s].updated.lastClaimedAt])
  /\ End(s)
  /\ UNCHANGED clock

\* Mutant: UpsertProgress runs outside the transaction of LogClaim.
AbortKeepsProgress(s) ==
  /\ pc[s] # "idle"
  /\ progress' = IF rowLock = s THEN request[s].updated ELSE progress
  /\ End(s)
  /\ UNCHANGED <<clock, claimLog>>

\* An error, a client that goes away or a crash; a transaction rolls back.
Abort(s) ==
  /\ pc[s] # "idle"
  /\ End(s)
  /\ UNCHANGED <<clock, progress, claimLog>>

Next ==
  \/ Tick
  \/ \E s \in Session :
       \/ GetProgress(s) \/ EffectiveDay(s) \/ PrepareProgress(s)
       \/ UpsertProgress(s) \/ LogClaim(s) \/ Commit(s) \/ Abort(s)

Spec == Init /\ [][Next]_vars

-----------------------------------------------------------------------------
(***************************************************************************)
(* The log and the progress never drift apart (the note on ClaimToday):    *)
(* whatever requests race or fail, the progress is the one the claim that  *)
(* committed last leaves behind.                                           *)
(***************************************************************************)
LogMatchesProgress ==
  IF claimLog = <<>> THEN progress = None
  ELSE LET last == claimLog[Len(claimLog)] IN
       /\ progress # None
       /\ progress.currentDay = NextDay(last.day)
       /\ progress.lastClaimedAt = last.at

(***************************************************************************)
(* No day of the calendar is reached without the day before it: a claim of *)
(* day d > 1 follows, by at least the cooldown, a claim of day d - 1, also *)
(* when requests race on stale progress.                                   *)
(***************************************************************************)
DaysAreEarned ==
  \A i \in DOMAIN claimLog :
    claimLog[i].day > 1 =>
      \E j \in 1 .. i - 1 : /\ claimLog[j].day = claimLog[i].day - 1
                            /\ claimLog[i].at - claimLog[j].at >= Cooldown

(***************************************************************************)
(* A claim that no other overtook after it read the progress keeps to the  *)
(* calendar: never within the cooldown, the next day while the streak      *)
(* lives, and day one after a miss or after the last day of the calendar.  *)
(* A request that straddles the end of the grace window may keep a streak. *)
(***************************************************************************)
StreakRule ==
  \A i \in DOMAIN claimLog :
    LET c == claimLog[i] IN
    IF i = 1 THEN c.day = 1
    ELSE c.after = i - 1 =>
           LET gap == c.at - claimLog[i - 1].at
               next == (claimLog[i - 1].day % CycleLength) + 1
           IN /\ gap >= Cooldown
              /\ c.day \in {1, next}
              /\ gap < Grace => c.day = next

(***************************************************************************)
(* internal/rewards/dailycycle.go, claimCooldown: claiming again before 24 *)
(* hours have passed is rejected as "too soon".                            *)
(***************************************************************************)
OncePerCooldown ==
  \A i, j \in DOMAIN claimLog :
    i < j => claimLog[j].at - claimLog[i].at >= Cooldown

(***************************************************************************)
(* internal/rewards/dailycycle.go, the comment on CycleStartedAt: it is    *)
(* reset on the first claim and on a restart that follows a missed day.    *)
(***************************************************************************)
RestartResetsLap ==
  LET n == Len(claimLog) IN
  n > 0 /\ claimLog[n].day = 1 /\ (n > 1 => NextDay(claimLog[n - 1].day) # 1)
    => progress.cycleStartedAt = claimLog[n].at
=============================================================================
