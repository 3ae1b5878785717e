-------------------------- MODULE DailyRewardProofs --------------------------
(***************************************************************************)
(* Proofs about DailyReward, for every number of requests and every length *)
(* of the calendar, the cooldown and the grace window: its types, that the *)
(* log and the progress agree, and that every day of the calendar has been *)
(* earned by the day before it, however stale the progress that a request  *)
(* has read; and, with RewardsPage in front of it, that the page offers no *)
(* claim that it has shown as made.                                        *)
(***************************************************************************)
EXTENDS RewardsPage, TLAPS

-----------------------------------------------------------------------------
(***************************************************************************)
(* The strengthening.  A progress row, stored or read long ago, is what    *)
(* some claim of the log left; a day that is about to be claimed follows   *)
(* one that was claimed a cooldown before.                                 *)
(***************************************************************************)
LeftByAClaim(saved) ==
  \E j \in DOMAIN claimLog : /\ saved.currentDay = NextDay(claimLog[j].day)
                             /\ saved.lastClaimedAt = claimLog[j].at

Earned(day, at) ==
  day > 1 => \E j \in DOMAIN claimLog : /\ claimLog[j].day = day - 1
                                        /\ at - claimLog[j].at >= Cooldown

RequestOK(s) ==
  /\ pc[s] = "decide" /\ request[s].saved # None => LeftByAClaim(request[s].saved)
  /\ pc[s] = "prepare" => Earned(request[s].day, clock)
  /\ pc[s] \in {"upsert", "log", "commit"} =>
       /\ request[s].updated.currentDay = NextDay(request[s].day)
       /\ Earned(request[s].day, request[s].updated.lastClaimedAt)

IInv == TypeOK /\ LogMatchesProgress /\ DaysAreEarned /\ \A s \in Session : RequestOK(s)

-----------------------------------------------------------------------------
\* nextDay stays within the calendar.
LEMMA NextDayInCalendar ==
  ASSUME NEW d \in Day PROVE NextDay(d) \in Day
BY WindowsAssumption DEF Day, NextDay

\* The progress that ClaimToday writes is a row of the table.
LEMMA AdvancedIsProgress ==
  ASSUME NEW saved \in Progress \cup {None}, NEW d \in Day, NEW now \in 0..MaxClock
  PROVE  /\ Advanced(saved, d, now) \in Progress
         /\ Advanced(saved, d, now).currentDay = NextDay(d)
         /\ Advanced(saved, d, now).lastClaimedAt = now
<1>1. NextDay(d) \in Day
  BY NextDayInCalendar
<1> QED
  BY <1>1, WindowsAssumption DEF Advanced, Progress

\* A day that a row allows was earned by the claim that left the row.
LEMMA ClaimableIsEarned ==
  ASSUME TypeOK, NEW saved \in Progress \cup {None},
         saved # None => LeftByAClaim(saved), Claimable(saved, clock)
  PROVE  StreakDay(saved, clock) \in Day /\ Earned(StreakDay(saved, clock), clock)
<1>1. CASE saved = None \/ StreakDay(saved, clock) = 1
  BY <1>1, WindowsAssumption DEF StreakDay, Earned, Day
<1>2. CASE saved # None /\ StreakDay(saved, clock) # 1
  <2>1. saved \in Progress /\ StreakDay(saved, clock) = saved.currentDay
    BY <1>2 DEF StreakDay
  <2>2. PICK j \in DOMAIN claimLog : /\ saved.currentDay = NextDay(claimLog[j].day)
                                     /\ saved.lastClaimedAt = claimLog[j].at
    BY <1>2 DEF LeftByAClaim
  <2>3. claimLog[j] \in Claim
    BY <2>2 DEF TypeOK
  <2>4. claimLog[j].day = saved.currentDay - 1
    BY <1>2, <2>1, <2>2, <2>3 DEF NextDay, Claim, Day
  <2>5. clock - claimLog[j].at >= Cooldown
    BY <1>2, <2>2 DEF Claimable
  <2> QED
    BY <2>1, <2>2, <2>4, <2>5 DEF Earned, Progress, Day
<1> QED
  BY <1>1, <1>2

-----------------------------------------------------------------------------
LEMMA InitOK == Init => IInv
<1> SUFFICES ASSUME Init PROVE IInv
  OBVIOUS
<1>1. TypeOK
  BY WindowsAssumption DEF Init, TypeOK, Phase, Request, NoRequest, Day
<1>2. LogMatchesProgress /\ DaysAreEarned
  BY DEF Init, LogMatchesProgress, DaysAreEarned
<1>3. ASSUME NEW s \in Session PROVE RequestOK(s)
  BY DEF Init, RequestOK
<1> QED
  BY <1>1, <1>2, <1>3 DEF IInv

\* A step that only changes the requests leaves the log's facts alone.
LEMMA LogUnchanged ==
  ASSUME IInv, UNCHANGED <<progress, claimLog>>
  PROVE  LogMatchesProgress' /\ DaysAreEarned'
BY DEF IInv, LogMatchesProgress, DaysAreEarned, NextDay

\* So it does with the requests it does not touch.
LEMMA OthersUnchanged ==
  ASSUME IInv, NEW s \in Session, UNCHANGED <<clock, claimLog, pc[s], request[s]>>
  PROVE  RequestOK(s)'
BY DEF IInv, RequestOK, LeftByAClaim, Earned, NextDay

LEMMA TickOK == ASSUME IInv, Tick PROVE IInv'
<1>1. TypeOK'
  <2>1. clock + 1 \in 0..MaxClock
    BY WindowsAssumption DEF IInv, TypeOK, Tick
  <2> QED
    BY <2>1 DEF IInv, TypeOK, Tick
<1>2. LogMatchesProgress' /\ DaysAreEarned'
  BY LogUnchanged DEF Tick
<1>3. ASSUME NEW s \in Session PROVE RequestOK(s)'
  <2>1. ASSUME pc[s] = "prepare", request[s].day > 1 PROVE Earned(request[s].day, clock + 1)
    <3>1. PICK j \in DOMAIN claimLog : /\ claimLog[j].day = request[s].day - 1
                                       /\ clock - claimLog[j].at >= Cooldown
      BY <2>1 DEF IInv, RequestOK, Earned
    <3>2. clock \in Int /\ claimLog[j].at \in Int /\ Cooldown \in Int
      <4>1. claimLog[j] \in Claim /\ clock \in 0..MaxClock
        BY DEF IInv, TypeOK
      <4> QED
        BY <4>1, WindowsAssumption DEF Claim
    <3>3. (clock + 1) - claimLog[j].at >= Cooldown
      BY <3>1, <3>2
    <3> SUFFICES \E i \in DOMAIN claimLog : /\ claimLog[i].day = request[s].day - 1
                                            /\ (clock + 1) - claimLog[i].at >= Cooldown
      BY DEF Earned
    <3> QED
      BY <3>1, <3>3
  <2> QED
    BY <2>1 DEF IInv, RequestOK, LeftByAClaim, Earned, NextDay, Tick
<1> QED
  BY <1>1, <1>2, <1>3 DEF IInv

LEMMA GetProgressOK == ASSUME IInv, NEW s \in Session, GetProgress(s) PROVE IInv'
<1>1. TypeOK'
  <2>1. Len(claimLog) \in 0..MaxClaims
    BY WindowsAssumption DEF IInv, TypeOK
  <2>2. request' \in [Session -> Request]
    BY <2>1, ZenonT(60) DEF IInv, TypeOK, GetProgress, Request
  <2> QED
    BY <2>2 DEF IInv, TypeOK, GetProgress, Goto, Phase, Request
<1>2. LogMatchesProgress' /\ DaysAreEarned'
  BY LogUnchanged DEF GetProgress
<1>3. RequestOK(s)'
  <2>1. ASSUME progress # None PROVE LeftByAClaim(progress)
    <3>1. claimLog # <<>> /\ claimLog \in Seq(Claim)
      BY <2>1 DEF IInv, LogMatchesProgress, TypeOK
    <3>2. Len(claimLog) \in DOMAIN claimLog
      BY <3>1
    <3> QED
      BY <3>1, <3>2 DEF IInv, LogMatchesProgress, LeftByAClaim
  <2>2. pc'[s] = "decide" /\ request'[s].saved = progress /\ claimLog' = claimLog
    BY DEF IInv, TypeOK, GetProgress, Goto, Request
  <2> QED
    BY <2>1, <2>2 DEF RequestOK, LeftByAClaim, NextDay
<1>4. ASSUME NEW r \in Session, r # s PROVE RequestOK(r)'
  BY <1>4, OthersUnchanged DEF IInv, TypeOK, GetProgress, Goto
<1> QED
  BY <1>1, <1>2, <1>3, <1>4 DEF IInv

LEMMA EffectiveDayOK == ASSUME IInv, NEW s \in Session, EffectiveDay(s) PROVE IInv'
<1> DEFINE saved == request[s].saved
<1>1. saved \in Progress \cup {None} /\ (saved # None => LeftByAClaim(saved))
  BY DEF IInv, TypeOK, Request, RequestOK, EffectiveDay
<1>2. Claimable(saved, clock) =>
        StreakDay(saved, clock) \in Day /\ Earned(StreakDay(saved, clock), clock)
  BY <1>1, ClaimableIsEarned DEF IInv
<1>3. \/ request'[s] = NoRequest /\ pc'[s] = "idle"
      \/ /\ Claimable(saved, clock)
         /\ request'[s] = [request[s] EXCEPT !.day = StreakDay(saved, clock)]
         /\ pc'[s] = "prepare"
  BY DEF IInv, TypeOK, EffectiveDay, Goto
<1>4. UNCHANGED <<clock, progress, claimLog, rowLock>> /\ pc[s] = "decide"
  BY DEF EffectiveDay
<1>5. /\ \A r \in Session \ {s} : UNCHANGED <<pc[r], request[r]>>
      /\ DOMAIN pc' = Session /\ DOMAIN request' = Session
      /\ pc' \in [Session -> Phase]
  BY DEF IInv, TypeOK, EffectiveDay, Goto, Phase
<1>6. request'[s] \in Request
  <2>1. NoRequest \in Request
    BY WindowsAssumption DEF Request, NoRequest, Day
  <2>2. request[s] \in Request
    BY DEF IInv, TypeOK
  <2> QED
    BY <1>2, <1>3, <2>1, <2>2 DEF Request
<1>7. TypeOK'
  <2>1. request' \in [Session -> Request]
    BY <1>5, <1>6 DEF IInv, TypeOK, EffectiveDay, Goto
  <2> QED
    BY <1>3, <1>4, <1>5, <2>1 DEF IInv, TypeOK
<1>8. LogMatchesProgress' /\ DaysAreEarned'
  BY <1>4, LogUnchanged
<1>9. RequestOK(s)'
  <2>1. CASE pc'[s] = "idle"
    BY <2>1 DEF RequestOK
  <2>2. CASE pc'[s] = "prepare"
    <3>1. request'[s].day = StreakDay(saved, clock) /\ Claimable(saved, clock)
      BY <1>3, <2>2 DEF IInv, TypeOK, Request
    <3> QED
      BY <1>2, <1>4, <2>2, <3>1 DEF RequestOK, Earned
  <2> QED
    BY <1>3, <2>1, <2>2
<1>10. ASSUME NEW r \in Session, r # s PROVE RequestOK(r)'
  BY <1>4, <1>5, <1>10, OthersUnchanged
<1> QED
  BY <1>7, <1>8, <1>9, <1>10 DEF IInv

LEMMA PrepareProgressOK == ASSUME IInv, NEW s \in Session, PrepareProgress(s) PROVE IInv'
<1> DEFINE new == Advanced(request[s].saved, request[s].day, clock)
<1>1. new \in Progress /\ new.currentDay = NextDay(request[s].day) /\ new.lastClaimedAt = clock
  <2>1. request[s] \in Request /\ clock \in 0..MaxClock
    BY DEF IInv, TypeOK
  <2>2. request[s].saved \in Progress \cup {None} /\ request[s].day \in Day
    BY <2>1 DEF Request
  <2> QED
    BY <2>1, <2>2, AdvancedIsProgress, SMTT(20)
<1> HIDE DEF new
<1>2. /\ request' = [request EXCEPT ![s].updated = new]
      /\ pc' = [pc EXCEPT ![s] = "upsert"] /\ pc[s] = "prepare"
      /\ UNCHANGED <<clock, progress, claimLog, rowLock>>
  BY DEF PrepareProgress, Goto, new
<1>3. TypeOK'
  BY <1>1, <1>2, SMTT(20) DEF IInv, TypeOK, Phase, Request
<1>4. LogMatchesProgress' /\ DaysAreEarned'
  BY <1>2, LogUnchanged
<1>5. RequestOK(s)'
  <2>1. request'[s].updated = new /\ request'[s].day = request[s].day /\ pc'[s] = "upsert"
    BY <1>2 DEF IInv, TypeOK, Request
  <2>2. Earned(request[s].day, clock)
    BY <1>2 DEF IInv, RequestOK
  <2> QED
    BY <1>1, <1>2, <2>1, <2>2 DEF RequestOK, Earned, NextDay
<1>6. ASSUME NEW r \in Session, r # s PROVE RequestOK(r)'
  BY <1>2, <1>6, OthersUnchanged DEF IInv, TypeOK
<1> QED
  BY <1>3, <1>4, <1>5, <1>6 DEF IInv

\* UpsertProgress and LogClaim write nothing that others can see.
LEMMA WriteOK ==
  ASSUME IInv, NEW s \in Session, UpsertProgress(s) \/ LogClaim(s)
  PROVE  IInv'
<1>1. TypeOK'
  BY WindowsAssumption DEF IInv, TypeOK, UpsertProgress, LogClaim, Goto, Phase
<1>2. LogMatchesProgress' /\ DaysAreEarned'
  BY LogUnchanged DEF UpsertProgress, LogClaim
<1>3. RequestOK(s)'
  BY DEF IInv, TypeOK, RequestOK, Earned, NextDay, UpsertProgress, LogClaim, Goto
<1>4. ASSUME NEW r \in Session, r # s PROVE RequestOK(r)'
  BY <1>4, OthersUnchanged DEF IInv, TypeOK, UpsertProgress, LogClaim, Goto
<1> QED
  BY <1>1, <1>2, <1>3, <1>4 DEF IInv

LEMMA CommitOK == ASSUME IInv, NEW s \in Session, Commit(s) PROVE IInv'
<1> DEFINE row == [day |-> request[s].day, after |-> request[s].after,
                   at |-> request[s].updated.lastClaimedAt]
           n == Len(claimLog)
<1>1. /\ request[s].updated \in Progress
      /\ request[s].updated.currentDay = NextDay(row.day)
      /\ request[s].updated.lastClaimedAt = row.at
      /\ Earned(row.day, row.at)
  BY DEF IInv, TypeOK, RequestOK, Commit
<1>2. row \in Claim /\ claimLog \in Seq(Claim) /\ n \in Nat
  BY <1>1 DEF IInv, TypeOK, Claim, Request, Progress
<1>3. /\ progress' = request[s].updated /\ claimLog' = Append(claimLog, row)
      /\ rowLock' = None /\ rowLock = s /\ clock' = clock /\ n < MaxClaims
      /\ request' = [request EXCEPT ![s] = NoRequest] /\ pc' = [pc EXCEPT ![s] = "idle"]
  BY DEF IInv, TypeOK, Commit, End, Goto
<1> HIDE DEF row
<1>4. /\ claimLog' \in Seq(Claim) /\ Len(claimLog') = n + 1
      /\ DOMAIN claimLog' = 1 .. n + 1 /\ DOMAIN claimLog = 1 .. n
      /\ claimLog'[n + 1] = row
      /\ \A j \in 1 .. n : claimLog'[j] = claimLog[j]
  BY <1>2, <1>3
<1>5. TypeOK'
  BY <1>1, <1>3, <1>4, WindowsAssumption DEF IInv, TypeOK, Phase, Request, NoRequest, Day
<1>6. LogMatchesProgress'
  <2>1. claimLog' # <<>> /\ progress' # None
    BY <1>1, <1>3, <1>4, WindowsAssumption
  <2> QED
    BY <1>1, <1>3, <1>4, <2>1 DEF LogMatchesProgress, NextDay
<1>7. DaysAreEarned'
  <2> SUFFICES ASSUME NEW i \in DOMAIN claimLog', claimLog'[i].day > 1
               PROVE  \E j \in 1 .. i - 1 :
                        /\ claimLog'[j].day = claimLog'[i].day - 1
                        /\ claimLog'[i].at - claimLog'[j].at >= Cooldown
    BY DEF DaysAreEarned
  <2>1. CASE i = n + 1
    <3>1. PICK j \in DOMAIN claimLog : /\ claimLog[j].day = row.day - 1
                                       /\ row.at - claimLog[j].at >= Cooldown
      BY <1>1, <1>4, <2>1 DEF Earned
    <3> QED
      BY <1>2, <1>4, <2>1, <3>1
  <2>2. CASE i \in 1 .. n
    <3>1. PICK j \in 1 .. i - 1 : /\ claimLog[j].day = claimLog[i].day - 1
                                  /\ claimLog[i].at - claimLog[j].at >= Cooldown
      BY <1>4, <2>2 DEF IInv, DaysAreEarned
    <3> QED
      BY <1>2, <1>4, <2>2, <3>1
  <2> QED
    BY <1>4, <2>1, <2>2, <1>2
<1>8. RequestOK(s)'
  BY <1>3 DEF IInv, TypeOK, RequestOK
<1>9. ASSUME NEW r \in Session, r # s PROVE RequestOK(r)'
  <2>1. UNCHANGED <<clock, pc[r], request[r]>>
    BY <1>3, <1>9 DEF IInv, TypeOK
  <2> QED
    BY <1>2, <1>4, <2>1 DEF IInv, RequestOK, LeftByAClaim, Earned, NextDay
<1> QED
  BY <1>5, <1>6, <1>7, <1>8, <1>9 DEF IInv

LEMMA AbortOK == ASSUME IInv, NEW s \in Session, Abort(s) PROVE IInv'
<1>1. TypeOK'
  BY WindowsAssumption DEF IInv, TypeOK, Abort, End, Goto, Phase, Request, NoRequest, Day
<1>2. LogMatchesProgress' /\ DaysAreEarned'
  BY LogUnchanged DEF Abort
<1>3. RequestOK(s)'
  BY DEF IInv, TypeOK, RequestOK, Abort, End, Goto
<1>4. ASSUME NEW r \in Session, r # s PROVE RequestOK(r)'
  BY <1>4, OthersUnchanged DEF IInv, TypeOK, Abort, End, Goto
<1> QED
  BY <1>1, <1>2, <1>3, <1>4 DEF IInv

LEMMA StepOK == IInv /\ [Next]_vars => IInv'
<1> SUFFICES ASSUME IInv, [Next]_vars PROVE IInv'
  OBVIOUS
<1>1. CASE Tick
  BY <1>1, TickOK
<1>2. ASSUME NEW s \in Session,
             \/ GetProgress(s) \/ EffectiveDay(s) \/ PrepareProgress(s)
             \/ UpsertProgress(s) \/ LogClaim(s) \/ Commit(s) \/ Abort(s)
      PROVE  IInv'
  BY <1>2, GetProgressOK, EffectiveDayOK, PrepareProgressOK, WriteOK, CommitOK, AbortOK
<1>3. CASE UNCHANGED vars
  <2>1. TypeOK'
    BY <1>3 DEF IInv, TypeOK, vars
  <2>2. LogMatchesProgress' /\ DaysAreEarned'
    BY <1>3, LogUnchanged DEF vars
  <2>3. ASSUME NEW s \in Session PROVE RequestOK(s)'
    BY <1>3, OthersUnchanged DEF vars
  <2> QED
    BY <2>1, <2>2, <2>3 DEF IInv
<1> QED
  BY <1>1, <1>2, <1>3 DEF Next

LEMMA Invariance == Spec => []IInv
<1>1. Init => IInv
  BY InitOK
<1>2. IInv /\ [Next]_vars => IInv'
  BY StepOK
<1> QED
  BY <1>1, <1>2, PTL DEF Spec

-----------------------------------------------------------------------------
(***************************************************************************)
(* What StreakRule needs on top: a request that no commit has overtaken    *)
(* since it read the progress has read the progress there is, and the day  *)
(* it is about to claim keeps to the calendar as that progress shows it.   *)
(***************************************************************************)
Keeps(r, at) ==
  IF r.saved = None THEN r.day = 1
  ELSE /\ at - r.saved.lastClaimedAt >= Cooldown
       /\ r.day \in {1, r.saved.currentDay}
       /\ at - r.saved.lastClaimedAt < Grace => r.day = r.saved.currentDay

StreakOK(s) ==
  /\ pc[s] # "idle" =>
       /\ request[s].after <= Len(claimLog)
       /\ request[s].after = Len(claimLog) => request[s].saved = progress
  /\ pc[s] = "prepare" => Keeps(request[s], clock)
  /\ pc[s] \in {"upsert", "log", "commit"} => Keeps(request[s], request[s].updated.lastClaimedAt)

SInv == StreakRule /\ \A s \in Session : StreakOK(s)

\* nextDay is the successor on a circle of CycleLength days.
LEMMA NextDayIsSuccessor ==
  ASSUME NEW d \in Day PROVE NextDay(d) = (d % CycleLength) + 1
<1>1. d \in Int /\ CycleLength \in Int /\ 0 < d /\ d <= CycleLength
  BY WindowsAssumption DEF Day
<1>2. CASE d = CycleLength
  <2>1. d % CycleLength = 0
    BY <1>1, <1>2
  <2> QED
    BY <1>1, <1>2, <2>1 DEF NextDay
<1>3. CASE d < CycleLength
  <2>1. d % CycleLength = d
    BY <1>1, <1>3
  <2> QED
    BY <1>1, <1>3, <2>1 DEF NextDay
<1> QED
  BY <1>1, <1>2, <1>3

LEMMA StreakInit == Init => SInv
BY DEF Init, SInv, StreakRule, StreakOK

\* A step that leaves the log and the progress alone keeps the rule, and the
\* requests it does not touch as long as the clock stands.
LEMMA StreakOthers ==
  ASSUME SInv, UNCHANGED <<progress, claimLog>>
  PROVE  /\ StreakRule'
         /\ \A r \in Session : UNCHANGED <<clock, pc[r], request[r]>> => StreakOK(r)'
<1>1. StreakRule'
  BY DEF SInv, StreakRule
<1>2. ASSUME NEW r \in Session, UNCHANGED <<clock, pc[r], request[r]>> PROVE StreakOK(r)'
  BY <1>2 DEF SInv, StreakOK, Keeps
<1> QED
  BY <1>1, <1>2

LEMMA StreakTick == ASSUME IInv, SInv, Tick PROVE SInv'
<1>1. StreakRule'
  BY StreakOthers DEF Tick
<1>2. ASSUME NEW s \in Session PROVE StreakOK(s)'
  <2>1. ASSUME pc[s] = "prepare" PROVE Keeps(request[s], clock + 1)
    <3>1. Keeps(request[s], clock)
      BY <2>1 DEF SInv, StreakOK
    <3>2. clock \in Int /\ Cooldown \in Int /\ Grace \in Int
      BY WindowsAssumption DEF IInv, TypeOK
    <3>3. CASE request[s].saved = None
      BY <3>1, <3>3 DEF Keeps
    <3>4. CASE request[s].saved # None
      <4>1. request[s].saved.lastClaimedAt \in Int
        <5>1. request[s].saved \in Progress
          BY <3>4 DEF IInv, TypeOK, Request
        <5> QED
          BY <5>1, WindowsAssumption DEF Progress
      <4> QED
        BY <3>1, <3>2, <3>4, <4>1 DEF Keeps
    <3> QED
      BY <3>3, <3>4
  <2> QED
    BY <2>1 DEF SInv, StreakOK, Keeps, Tick
<1> QED
  BY <1>1, <1>2 DEF SInv

LEMMA StreakRead == ASSUME IInv, SInv, NEW s \in Session, GetProgress(s) PROVE SInv'
<1>1. StreakOK(s)'
  <2>1. request'[s].after = Len(claimLog) /\ request'[s].saved = progress /\ pc'[s] = "decide"
    BY DEF IInv, TypeOK, Request, GetProgress, Goto
  <2>2. Len(claimLog) \in Nat
    BY DEF IInv, TypeOK
  <2> QED
    BY <2>1, <2>2 DEF StreakOK, GetProgress
<1>2. ASSUME NEW r \in Session, r # s PROVE StreakOK(r)'
  BY <1>2, StreakOthers DEF IInv, TypeOK, GetProgress, Goto
<1> QED
  BY <1>1, <1>2, StreakOthers DEF SInv, GetProgress

LEMMA StreakDecide == ASSUME IInv, SInv, NEW s \in Session, EffectiveDay(s) PROVE SInv'
<1> DEFINE saved == request[s].saved
           day == StreakDay(saved, clock)
<1>1. CASE ~ Claimable(saved, clock)
  <2>1. StreakOK(s)'
    BY <1>1 DEF IInv, TypeOK, StreakOK, EffectiveDay, Goto
  <2>2. ASSUME NEW r \in Session, r # s PROVE StreakOK(r)'
    BY <2>2, StreakOthers DEF IInv, TypeOK, EffectiveDay, Goto
  <2> QED
    BY <2>1, <2>2, StreakOthers DEF SInv, EffectiveDay
<1>2. CASE Claimable(saved, clock)
  <2>1. /\ request' = [request EXCEPT ![s].day = day]
        /\ pc' = [pc EXCEPT ![s] = "prepare"] /\ pc[s] = "decide"
        /\ UNCHANGED <<clock, progress, claimLog>>
    BY <1>2 DEF EffectiveDay, Goto
  <2>2. /\ request'[s].day = day /\ request'[s].saved = saved
        /\ request'[s].after = request[s].after /\ pc'[s] = "prepare"
    BY <2>1 DEF IInv, TypeOK, Request
  <2>3. IF saved = None THEN day = 1
        ELSE /\ clock - saved.lastClaimedAt >= Cooldown
             /\ day \in {1, saved.currentDay}
             /\ clock - saved.lastClaimedAt < Grace => day = saved.currentDay
    BY <1>2 DEF Claimable, StreakDay
  <2>4. Keeps(request'[s], clock)
    BY <2>2, <2>3 DEF Keeps
  <2>5. StreakOK(s)'
    BY <2>1, <2>2, <2>4 DEF SInv, StreakOK
  <2>6. ASSUME NEW r \in Session, r # s PROVE StreakOK(r)'
    BY <2>1, <2>6, StreakOthers DEF IInv, TypeOK
  <2> QED
    BY <2>1, <2>5, <2>6, StreakOthers DEF SInv
<1> QED
  BY <1>1, <1>2

LEMMA StreakPrepare == ASSUME IInv, SInv, NEW s \in Session, PrepareProgress(s) PROVE SInv'
<1>1. StreakOK(s)'
  <2>1. /\ request'[s].day = request[s].day /\ request'[s].saved = request[s].saved
        /\ request'[s].after = request[s].after /\ pc'[s] = "upsert" /\ pc[s] = "prepare"
        /\ request'[s].updated.lastClaimedAt = clock /\ UNCHANGED <<clock, progress, claimLog>>
    BY DEF IInv, TypeOK, Request, PrepareProgress, Goto, Advanced
  <2>2. Keeps(request[s], clock)
    BY <2>1 DEF SInv, StreakOK
  <2> QED
    BY <2>1, <2>2 DEF SInv, StreakOK, Keeps
<1>2. ASSUME NEW r \in Session, r # s PROVE StreakOK(r)'
  BY <1>2, StreakOthers DEF IInv, TypeOK, PrepareProgress, Goto
<1> QED
  BY <1>1, <1>2, StreakOthers DEF SInv, PrepareProgress

LEMMA StreakWrite ==
  ASSUME IInv, SInv, NEW s \in Session, UpsertProgress(s) \/ LogClaim(s) PROVE SInv'
<1>1. StreakOK(s)'
  BY DEF IInv, TypeOK, SInv, StreakOK, Keeps, UpsertProgress, LogClaim, Goto
<1>2. ASSUME NEW r \in Session, r # s PROVE StreakOK(r)'
  BY <1>2, StreakOthers DEF IInv, TypeOK, UpsertProgress, LogClaim, Goto
<1> QED
  BY <1>1, <1>2, StreakOthers DEF SInv, UpsertProgress, LogClaim

LEMMA StreakCommit == ASSUME IInv, SInv, NEW s \in Session, Commit(s) PROVE SInv'
<1> DEFINE row == [day |-> request[s].day, after |-> request[s].after,
                   at |-> request[s].updated.lastClaimedAt]
           n == Len(claimLog)
           last == claimLog[n]
<1>1. /\ claimLog' = Append(claimLog, row) /\ clock' = clock /\ pc[s] = "commit"
      /\ pc' = [pc EXCEPT ![s] = "idle"] /\ request' = [request EXCEPT ![s] = NoRequest]
  BY DEF Commit, End, Goto
<1>2. claimLog \in Seq(Claim) /\ n \in Nat
  BY DEF IInv, TypeOK
<1>3. /\ Len(claimLog') = n + 1 /\ DOMAIN claimLog' = 1 .. n + 1 /\ DOMAIN claimLog = 1 .. n
      /\ claimLog'[n + 1] = row
      /\ \A j \in 1 .. n : claimLog'[j] = claimLog[j]
  BY <1>1, <1>2
<1>4. /\ Keeps(request[s], row.at) /\ request[s].after <= n
      /\ request[s].after = n => request[s].saved = progress
      /\ request[s] \in Request
  BY <1>1 DEF SInv, StreakOK, IInv, TypeOK
<1>5. ASSUME n = 0 PROVE row.day = 1
  <2>1. claimLog = <<>> /\ request[s].after = 0
    BY <1>2, <1>4, <1>5, WindowsAssumption DEF Request
  <2>2. request[s].saved = None
    BY <1>4, <1>5, <2>1 DEF IInv, LogMatchesProgress
  <2> QED
    BY <1>4, <2>2 DEF Keeps
<1>6. ASSUME n # 0, row.after = n
      PROVE  LET gap == row.at - last.at
                 next == (last.day % CycleLength) + 1
             IN gap >= Cooldown /\ row.day \in {1, next} /\ (gap < Grace => row.day = next)
  <2>1. claimLog # <<>> /\ last \in Claim
    BY <1>2, <1>6
  <2>2. /\ progress # None /\ progress.currentDay = NextDay(last.day)
        /\ progress.lastClaimedAt = last.at
    BY <2>1 DEF IInv, LogMatchesProgress
  <2>3. NextDay(last.day) = (last.day % CycleLength) + 1
    BY <2>1, NextDayIsSuccessor DEF Claim
  <2>4. request[s].saved = progress
    BY <1>4, <1>6
  <2> QED
    BY <1>4, <2>2, <2>3, <2>4 DEF Keeps
<1>7. StreakRule'
  <2> SUFFICES ASSUME NEW i \in 1 .. n + 1
               PROVE  LET c == claimLog'[i] IN
                      IF i = 1 THEN c.day = 1
                      ELSE c.after = i - 1 =>
                             LET gap == c.at - claimLog'[i - 1].at
                                 next == (claimLog'[i - 1].day % CycleLength) + 1
                             IN /\ gap >= Cooldown
                                /\ c.day \in {1, next}
                                /\ gap < Grace => c.day = next
    BY <1>3 DEF StreakRule
  <2>1. CASE i \in 1 .. n
    <3>1. claimLog'[i] = claimLog[i] /\ (i # 1 => claimLog'[i - 1] = claimLog[i - 1])
      BY <1>2, <1>3, <2>1
    <3> QED
      BY <1>3, <2>1, <3>1 DEF SInv, StreakRule
  <2>2. CASE i = n + 1 /\ n = 0
    BY <1>3, <1>5, <2>2
  <2>3. CASE i = n + 1 /\ n # 0
    <3>1. claimLog'[i] = row /\ claimLog'[i - 1] = last /\ i - 1 = n /\ i # 1
      BY <1>2, <1>3, <2>3
    <3> HIDE DEF row, last
    <3> QED
      BY <1>6, <2>3, <3>1
  <2> QED
    BY <1>2, <2>1, <2>2, <2>3
<1>8. StreakOK(s)'
  BY <1>1 DEF IInv, TypeOK, StreakOK
<1>9. ASSUME NEW r \in Session, r # s PROVE StreakOK(r)'
  <2>1. UNCHANGED <<pc[r], request[r], clock>>
    BY <1>1, <1>9 DEF IInv, TypeOK
  <2>2. pc[r] # "idle" => request[r].after <= n
    BY DEF SInv, StreakOK
  <2>3. request[r].after \in Int
    <3>1. request[r] \in Request
      BY DEF IInv, TypeOK
    <3> QED
      BY <3>1, WindowsAssumption DEF Request
  <2> QED
    BY <1>2, <1>3, <2>1, <2>2, <2>3 DEF SInv, StreakOK, Keeps
<1> QED
  BY <1>7, <1>8, <1>9 DEF SInv

LEMMA StreakAbort == ASSUME IInv, SInv, NEW s \in Session, Abort(s) PROVE SInv'
<1>1. StreakOK(s)'
  BY DEF IInv, TypeOK, StreakOK, Abort, End, Goto
<1>2. ASSUME NEW r \in Session, r # s PROVE StreakOK(r)'
  BY <1>2, StreakOthers DEF IInv, TypeOK, Abort, End, Goto
<1> QED
  BY <1>1, <1>2, StreakOthers DEF SInv, Abort

LEMMA StreakStep == IInv /\ SInv /\ [Next]_vars => SInv'
<1> SUFFICES ASSUME IInv, SInv, [Next]_vars PROVE SInv'
  OBVIOUS
<1>1. ASSUME NEW s \in Session,
             \/ GetProgress(s) \/ EffectiveDay(s) \/ PrepareProgress(s)
             \/ UpsertProgress(s) \/ LogClaim(s) \/ Commit(s) \/ Abort(s)
      PROVE  SInv'
  BY <1>1, StreakRead, StreakDecide, StreakPrepare, StreakWrite, StreakCommit, StreakAbort
<1>2. CASE UNCHANGED vars
  BY <1>2, StreakOthers DEF SInv, vars
<1> QED
  BY <1>1, <1>2, StreakTick DEF Next

-----------------------------------------------------------------------------
(***************************************************************************)
(* Every variable keeps its type, and the row is locked by the request     *)
(* that has written it and by no other.                                    *)
(***************************************************************************)
THEOREM TypeCorrect == Spec => []TypeOK
<1>1. IInv => TypeOK
  BY DEF IInv
<1> QED
  BY <1>1, Invariance, PTL

(***************************************************************************)
(* The progress is always what the claim that committed last leaves: the   *)
(* two writes of ClaimToday are one transaction.                           *)
(***************************************************************************)
THEOREM LogAndProgressAgree == Spec => []LogMatchesProgress
<1>1. IInv => LogMatchesProgress
  BY DEF IInv
<1> QED
  BY <1>1, Invariance, PTL

(***************************************************************************)
(* No day is claimed without the day before it, a cooldown earlier, even   *)
(* when requests decide on a progress that others have overtaken.          *)
(***************************************************************************)
THEOREM EveryDayIsEarned == Spec => []DaysAreEarned
<1>1. IInv => DaysAreEarned
  BY DEF IInv
<1> QED
  BY <1>1, Invariance, PTL

(***************************************************************************)
(* A claim that no other overtook keeps to the calendar, for any windows   *)
(* with the cooldown below the grace and any time between the steps.       *)
(***************************************************************************)
THEOREM StreaksAreKept == Spec => []StreakRule
<1>1. Init => SInv
  BY StreakInit
<1>2. IInv /\ SInv /\ [Next]_vars => SInv'
  BY StreakStep
<1>3. SInv => StreakRule
  BY DEF SInv
<1> QED
  BY <1>1, <1>2, <1>3, Invariance, PTL DEF Spec

-----------------------------------------------------------------------------
(***************************************************************************)
(* The rewards page in front of these requests.  What its offers rest on:  *)
(* whatever is under way on the page began in the current tick.  While     *)
(* nothing is shown there is one load and nobody claims on the page; once  *)
(* a status is shown, only a claim starts a load, so a load under way then *)
(* reads a progress that was claimed in this very tick.  Every claim the   *)
(* page has been told of is at most as late as the progress.               *)
(***************************************************************************)
Task == [step : {"none", "claim", "claiming", "claimed", "rewards", "status"},
         claimedAt : 0..MaxClock \cup {None}, status : Offer \cup {None}]

\* A claim committed in this very tick.
JustClaimed == progress # None /\ progress.lastClaimedAt = clock

TaskOK(s) ==
  /\ task[s].step = "none" => task[s] = NoTask
  /\ task[s].status # None => task[s].step = "status"
  /\ task[s].claimedAt # None => JustClaimed /\ task[s].claimedAt = clock
  /\ pc[s] # "idle" => task[s].step \in {"none", "claiming"}
  /\ pc[s] \in {"upsert", "log", "commit"} => request[s].updated.lastClaimedAt = clock
  /\ ~ open => task[s].step = "none"
  /\ shown = None => /\ task[s].step \in {"none", "rewards", "status"} /\ task[s].claimedAt = None
                     /\ task[s].status # None /\ task[s].status.canClaim
                          => \A at \in told : task[s].status.at - at >= Cooldown
  /\ shown # None /\ task[s].step \in {"claimed", "rewards", "status"} =>
       JustClaimed /\ (task[s].status # None => ~ task[s].status.canClaim)

\* Until a status is shown only the load of the opened page runs.
LoadsAlone ==
  shown = None =>
    \A s, u \in Session : task[s].step # "none" /\ task[u].step # "none" => s = u

PInv ==
  /\ task \in [Session -> Task]
  /\ shown \in Offer \cup {None}
  /\ ~ open => shown = None
  /\ progress # None => progress.lastClaimedAt <= clock
  /\ \A at \in told : /\ at \in 0..MaxClock /\ progress # None
                      /\ at <= progress.lastClaimedAt
  /\ \A s \in Session : TaskOK(s)
  /\ LoadsAlone
  /\ OfferFollowsClaims

-----------------------------------------------------------------------------
\* GetStatus as the page keeps it: a claim of this tick leaves nothing to claim,
\* and what is offered was last claimed a cooldown before.
LEMMA AnswerIs ==
  ASSUME TypeOK
  PROVE  /\ Answer \in Offer /\ Answer # None /\ Answer.at = clock
         /\ JustClaimed => ~ Answer.canClaim
         /\ Answer.canClaim /\ progress # None => clock - progress.lastClaimedAt >= Cooldown
<1>1. /\ Answer = [canClaim |-> Answer.canClaim, currentDay |-> Answer.currentDay, at |-> clock]
      /\ Answer.at = clock
  BY DEF Answer
<1>2. Answer.canClaim = Claimable(progress, clock)
  BY DEF Answer, Status
<1>3. Answer.currentDay \in {progress.currentDay, StreakDay(progress, clock)}
  BY DEF Answer, Status
<1>4. clock \in 0..MaxClock /\ clock \in Int /\ (progress # None => progress \in Progress)
  BY WindowsAssumption DEF TypeOK
<1>5. Claimable(progress, clock) \in BOOLEAN
  BY DEF Claimable
<1>6. Answer.currentDay \in Day
  <2>1. 1 \in Day
    BY WindowsAssumption DEF Day
  <2>2. CASE progress # None
    BY <1>3, <1>4, <2>1, <2>2 DEF StreakDay, Progress
  <2>3. CASE progress = None
    BY <2>1, <2>3 DEF Answer, Status, StreakDay, Claimable
  <2> QED
    BY <2>2, <2>3
<1>7. Answer \in Offer
  BY <1>1, <1>2, <1>4, <1>5, <1>6 DEF Offer
<1>8. JustClaimed => ~ Claimable(progress, clock)
  BY <1>4, WindowsAssumption DEF JustClaimed, Claimable
<1>9. Claimable(progress, clock) /\ progress # None => clock - progress.lastClaimedAt >= Cooldown
  BY DEF Claimable
<1> QED
  BY <1>1, <1>2, <1>7, <1>8, <1>9, OfferAssumption

\* A request and a task that a step leaves alone; the step may commit a claim.
LEMMA TaskKept ==
  ASSUME NEW s \in Session, TaskOK(s), task'[s] = task[s], pc'[s] = pc[s], request'[s] = request[s],
         UNCHANGED <<clock, open, shown, told>>, JustClaimed => JustClaimed'
  PROVE  TaskOK(s)'
BY DEF TaskOK, NoTask

LEMMA TaskType ==
  ASSUME PInv, NEW s \in Session
  PROVE  /\ task[s] \in Task /\ TaskOK(s)
         /\ \A t : [task EXCEPT ![s] = t][s] = t
         /\ \A t, u : u \in Session \ {s} => [task EXCEPT ![s] = t][u] = task[u]
         /\ \A t \in Task : [task EXCEPT ![s] = t] \in [Session -> Task]
BY DEF PInv

LEMMA NoTaskType == NoTask \in Task
BY DEF NoTask, Task

\* A step of one task that neither claims nor shows anything.
LEMMA TaskStep ==
  ASSUME PInv, NEW s \in Session, NEW t \in Task, task' = [task EXCEPT ![s] = t],
         UNCHANGED <<clock, open, shown, told>>, JustClaimed => JustClaimed',
         progress' = progress \/ JustClaimed',
         \A u \in Session \ {s} : pc'[u] = pc[u] /\ request'[u] = request[u],
         TypeOK, TaskOK(s)',
         shown = None /\ t.step # "none" => task[s].step # "none"
  PROVE  PInv'
<1>1. \A u \in Session : TaskOK(u)'
  <2>1. ASSUME NEW u \in Session \ {s} PROVE TaskOK(u)'
    <3>1. TaskOK(u) /\ task'[u] = task[u]
      BY DEF PInv
    <3> QED
      BY <3>1, TaskKept
  <2> QED
    BY <2>1
<1>2. task' \in [Session -> Task] /\ \A u \in Session \ {s} : task'[u] = task[u]
  BY TaskType
<1>3. task'[s] = t
  BY TaskType
<1>4. /\ progress' # None => progress'.lastClaimedAt <= clock
      /\ \A at \in told : at \in 0..MaxClock /\ progress' # None /\ at <= progress'.lastClaimedAt
  <2>1. CASE progress' = progress
    BY <2>1 DEF PInv
  <2>2. CASE JustClaimed'
    <3>1. progress' # None /\ progress'.lastClaimedAt = clock
      BY <2>2 DEF JustClaimed
    <3>2. ASSUME NEW at \in told PROVE at \in 0..MaxClock /\ at <= clock
      <4>1. /\ at \in 0..MaxClock /\ at <= progress.lastClaimedAt
            /\ progress # None /\ progress.lastClaimedAt <= clock
        BY DEF PInv
      <4>2. progress.lastClaimedAt \in Nat /\ clock \in Nat /\ at \in Nat
        BY <4>1, WindowsAssumption DEF TypeOK, Progress
      <4>3. at <= clock
        BY <4>1, <4>2
      <4> QED
        BY <4>1, <4>3
    <3>3. clock <= clock
      BY WindowsAssumption DEF TypeOK
    <3> QED
      BY <3>1, <3>2, <3>3
  <2> QED
    BY <2>1, <2>2
<1>5. LoadsAlone'
  BY <1>2, <1>3 DEF PInv, LoadsAlone
<1> QED
  BY <1>1, <1>2, <1>4, <1>5 DEF PInv, OfferFollowsClaims

-----------------------------------------------------------------------------
\* Await sets the step of a task and nothing else of it.
LEMMA AwaitIs ==
  ASSUME PInv, NEW s \in Session, Await(s, "claim") \/ Await(s, "claiming")
                                  \/ Await(s, "rewards") \/ Await(s, "status")
  PROVE  \E t \in Task :
           /\ task' = [task EXCEPT ![s] = t] /\ task'[s] = t
           /\ t.claimedAt = task[s].claimedAt /\ t.status = task[s].status
           /\ \A step \in {"claim", "claiming", "rewards", "status"} :
                Await(s, step) => t.step = step
<1>1. PICK step \in {"claim", "claiming", "rewards", "status"} : Await(s, step)
  OBVIOUS
<1>2. task[s] \in Task /\ task \in [Session -> Task]
  BY DEF PInv
<1> DEFINE t == [task[s] EXCEPT !.step = step]
<1>3. t \in Task /\ t.claimedAt = task[s].claimedAt /\ t.status = task[s].status /\ t.step = step
  BY <1>2 DEF Task
<1>4. task' = [task EXCEPT ![s] = t]
  BY <1>1 DEF Await
<1>5. task'[s] = t
  BY <1>2, <1>4
<1>6. ASSUME NEW other \in {"claim", "claiming", "rewards", "status"}, Await(s, other)
      PROVE  t.step = other
  <2>1. task' = [task EXCEPT ![s].step = other]
    BY <1>6 DEF Await
  <2>2. task'[s].step = other
    BY <1>2, <2>1 DEF Task
  <2> QED
    BY <1>3, <1>5, <2>2
<1> QED
  BY <1>3, <1>4, <1>5, <1>6

LEMMA DropIs ==
  ASSUME PInv, NEW s \in Session, Drop(s)
  PROVE  task' = [task EXCEPT ![s] = NoTask] /\ task'[s] = NoTask /\ NoTask \in Task
BY NoTaskType, TaskType DEF Drop

\* A task that ends leaves its session free.
LEMMA NoTaskOK ==
  ASSUME NEW s \in Session, TaskOK(s), task'[s] = NoTask,
         pc'[s] \in {"upsert", "log", "commit"} => request'[s].updated.lastClaimedAt = clock'
  PROVE  TaskOK(s)'
BY DEF TaskOK, NoTask

LEMMA HandleClaimPage == ASSUME TypeOK, PInv, NEW s \in Session, HandleClaim(s) PROVE PInv'
<1>1. PICK t \in Task : /\ task' = [task EXCEPT ![s] = t] /\ task'[s] = t /\ t.step = "claim"
                        /\ t.claimedAt = task[s].claimedAt /\ t.status = task[s].status
  BY AwaitIs DEF HandleClaim
<1>2. TaskOK(s)'
  BY <1>1, TaskType DEF HandleClaim, TaskOK, NoTask, PInv, vars
<1> QED
  BY <1>1, <1>2, TaskStep DEF HandleClaim, vars, JustClaimed

LEMMA ClaimReturnsPage == ASSUME TypeOK, PInv, NEW s \in Session, ClaimReturns(s) PROVE PInv'
<1>1. PICK t \in Task : /\ task' = [task EXCEPT ![s] = t] /\ task'[s] = t /\ t.step = "rewards"
                        /\ t.claimedAt = task[s].claimedAt /\ t.status = task[s].status
  BY AwaitIs DEF ClaimReturns
<1>2. TaskOK(s)'
  BY <1>1, TaskType DEF ClaimReturns, TaskOK, NoTask, PInv, vars, JustClaimed
<1> QED
  BY <1>1, <1>2, TaskStep DEF ClaimReturns, vars, JustClaimed

LEMMA GotMyRewardsPage == ASSUME TypeOK, PInv, NEW s \in Session, GotMyRewards(s) PROVE PInv'
<1>1. PICK t \in Task : /\ task' = [task EXCEPT ![s] = t] /\ task'[s] = t /\ t.step = "status"
                        /\ t.claimedAt = task[s].claimedAt /\ t.status = task[s].status
  BY AwaitIs DEF GotMyRewards
<1>2. TaskOK(s)'
  BY <1>1, TaskType DEF GotMyRewards, TaskOK, NoTask, PInv, vars, JustClaimed
<1> QED
  BY <1>1, <1>2, TaskStep DEF GotMyRewards, vars, JustClaimed

LEMMA LoadFailsPage == ASSUME TypeOK, PInv, NEW s \in Session, LoadFails(s) PROVE PInv'
<1>1. task' = [task EXCEPT ![s] = NoTask] /\ task'[s] = NoTask /\ NoTask \in Task
  BY DropIs DEF LoadFails
<1>2. TaskOK(s)'
  BY <1>1, TaskType, NoTaskOK DEF LoadFails, TaskOK, vars
<1> QED
  BY <1>1, <1>2, TaskStep DEF LoadFails, vars, JustClaimed, NoTask

LEMMA ReadStatusPage == ASSUME TypeOK, PInv, NEW s \in Session, ReadStatus(s) PROVE PInv'
<1> DEFINE t == [task[s] EXCEPT !.status = Answer]
<1>1. task \in [Session -> Task] /\ task[s] \in Task /\ TaskOK(s)
  BY TaskType DEF PInv
<1>2. Answer \in Offer /\ Answer # None /\ Answer.at = clock
  BY AnswerIs
<1>3. task' = [task EXCEPT ![s] = t] /\ task'[s] = t /\ t \in Task
  BY <1>1, <1>2 DEF ReadStatus, Task
<1>4. t.step = "status" /\ t.claimedAt = task[s].claimedAt /\ t.status = Answer
  BY <1>1 DEF ReadStatus, Task
<1>5. /\ task[s].step = "status"
      /\ UNCHANGED <<clock, progress, pc, request, open, shown, told>>
  BY DEF ReadStatus, vars
<1>6. ASSUME Answer.canClaim, NEW at \in told PROVE Answer.at - at >= Cooldown
  <2>1. progress # None /\ at \in 0..MaxClock /\ at <= progress.lastClaimedAt
    BY <1>6 DEF PInv
  <2>2. clock - progress.lastClaimedAt >= Cooldown
    BY <1>6, <2>1, AnswerIs
  <2>3. clock \in Int /\ at \in Int /\ progress.lastClaimedAt \in Int /\ Cooldown \in Int
    BY <2>1, WindowsAssumption DEF TypeOK, Progress
  <2> QED
    BY <1>2, <2>1, <2>2, <2>3
<1>7. JustClaimed => ~ Answer.canClaim
  BY AnswerIs
<1> HIDE DEF t
<1>8. TaskOK(s)'
  BY <1>1, <1>3, <1>4, <1>5, <1>6, <1>7 DEF TaskOK, JustClaimed, NoTask
<1> QED
  BY <1>3, <1>4, <1>5, <1>8, TaskStep DEF JustClaimed

LEMMA ShowStatusPage == ASSUME TypeOK, PInv, NEW s \in Session, ShowStatus(s) PROVE PInv'
<1>1. task' = [task EXCEPT ![s] = NoTask] /\ task'[s] = NoTask /\ NoTask \in Task
  BY DropIs DEF ShowStatus
<1>2. /\ task' \in [Session -> Task]
      /\ \A u \in Session \ {s} : task'[u] = task[u]
  BY <1>1, TaskType
<1>3. /\ TaskOK(s) /\ task[s] \in Task /\ task[s].step = "status" /\ task[s].status # None
      /\ UNCHANGED <<clock, progress, pc, request, open>> /\ shown' = task[s].status
      /\ told' = told \cup ({task[s].claimedAt} \ {None})
  BY TaskType DEF ShowStatus, vars
<1>4. shown' \in Offer /\ shown' # None /\ open
  BY <1>3 DEF Task, TaskOK
<1>5. ASSUME NEW at \in told'
      PROVE  at \in 0..MaxClock /\ progress # None /\ at <= progress.lastClaimedAt
  <2>1. CASE at \in told
    BY <2>1 DEF PInv
  <2>2. CASE at = task[s].claimedAt /\ at # None
    <3>1. progress # None /\ progress.lastClaimedAt = clock /\ at = clock
      BY <1>3, <2>2 DEF TaskOK, JustClaimed
    <3>2. clock \in 0..MaxClock /\ clock <= clock
      BY WindowsAssumption DEF TypeOK
    <3> QED
      BY <3>1, <3>2
  <2> QED
    BY <1>3, <1>5, <2>1, <2>2
<1>6. ASSUME NEW u \in Session PROVE TaskOK(u)'
  <2>1. CASE u = s
    BY <1>1, <1>3, <2>1, NoTaskOK DEF TaskOK
  <2>2. CASE u # s
    <3>1. TaskOK(u) /\ task'[u] = task[u] /\ pc'[u] = pc[u] /\ request'[u] = request[u]
      BY <1>2, <1>3, <2>2 DEF PInv
    <3>2. CASE shown = None
      <4>1. task[u].step = "none"
        BY <1>3, <2>2, <3>2 DEF PInv, LoadsAlone
      <4> QED
        BY <1>3, <1>4, <3>1, <4>1 DEF TaskOK, NoTask
    <3>3. CASE shown # None
      BY <1>3, <1>4, <3>1, <3>3 DEF TaskOK, JustClaimed
    <3> QED
      BY <3>2, <3>3
  <2> QED
    BY <2>1, <2>2
<1>7. OfferFollowsClaims'
  <2>1. CASE shown = None
    <3>1. told' = told
      BY <1>3, <2>1 DEF TaskOK
    <3> QED
      BY <1>3, <2>1, <3>1 DEF TaskOK, OfferFollowsClaims
  <2>2. CASE shown # None
    BY <1>3, <2>2 DEF TaskOK, OfferFollowsClaims
  <2> QED
    BY <2>1, <2>2
<1>8. progress' # None => progress'.lastClaimedAt <= clock'
  BY <1>3 DEF PInv
<1>9. LoadsAlone'
  BY <1>4 DEF LoadsAlone
<1> QED
  BY <1>2, <1>3, <1>4, <1>5, <1>6, <1>7, <1>8, <1>9 DEF PInv

LEMMA OpenPagePage == ASSUME TypeOK, PInv, NEW s \in Session, OpenPage(s) PROVE PInv'
<1>1. PICK t \in Task : /\ task' = [task EXCEPT ![s] = t] /\ task'[s] = t /\ t.step = "rewards"
                        /\ t.claimedAt = task[s].claimedAt /\ t.status = task[s].status
  BY AwaitIs DEF OpenPage
<1>2. task' \in [Session -> Task] /\ \A u \in Session \ {s} : task'[u] = task[u]
  BY <1>1, TaskType
<1>3. /\ UNCHANGED <<clock, progress, pc, request, shown, told>> /\ open' /\ ~ open
      /\ pc[s] = "idle"
  BY DEF OpenPage, vars
<1>4. shown = None /\ \A u \in Session : task[u] = NoTask /\ TaskOK(u)
  BY <1>3 DEF PInv, TaskOK
<1>5. ASSUME NEW u \in Session PROVE TaskOK(u)'
  <2>1. CASE u = s
    BY <1>1, <1>3, <1>4, <2>1 DEF TaskOK, NoTask
  <2>2. CASE u # s
    BY <1>2, <1>3, <1>4, <2>2 DEF TaskOK, NoTask
  <2> QED
    BY <2>1, <2>2
<1>6. LoadsAlone'
  BY <1>2, <1>4 DEF LoadsAlone, NoTask
<1>7. OfferFollowsClaims'
  BY <1>3, <1>4 DEF OfferFollowsClaims
<1> QED
  BY <1>2, <1>3, <1>4, <1>5, <1>6, <1>7 DEF PInv

LEMMA LeavePagePage == ASSUME TypeOK, PInv, LeavePage PROVE PInv'
<1>1. /\ UNCHANGED <<clock, progress, pc, request, told>> /\ ~ open' /\ shown' = None
      /\ task' = [u \in Session |-> NoTask]
  BY DEF LeavePage, vars
<1>2. \A u \in Session : task'[u] = NoTask
  BY <1>1
<1>3. ASSUME NEW u \in Session PROVE TaskOK(u)'
  <2>1. TaskOK(u)
    BY DEF PInv
  <2> QED
    BY <1>1, <1>2, <2>1 DEF TaskOK, NoTask
<1>4. task' \in [Session -> Task]
  BY <1>1, NoTaskType
<1>5. LoadsAlone' /\ OfferFollowsClaims'
  BY <1>1, <1>2 DEF LoadsAlone, OfferFollowsClaims, NoTask
<1> QED
  BY <1>1, <1>3, <1>4, <1>5 DEF PInv

LEMMA PageTickPage == ASSUME TypeOK, PInv, PageTick PROVE PInv'
<1>1. /\ UNCHANGED <<progress, pc, request, open, shown, task, told>> /\ clock' = clock + 1
      /\ \A u \in Session : task[u].step = "none" /\ pc[u] = "idle"
  BY DEF PageTick, Tick, pageVars
<1>2. ASSUME NEW u \in Session PROVE TaskOK(u)'
  <2>1. task[u] = NoTask /\ TaskOK(u)
    BY <1>1 DEF PInv, TaskOK
  <2> QED
    BY <1>1, <2>1 DEF TaskOK, NoTask
<1>3. ASSUME progress # None PROVE progress.lastClaimedAt <= clock + 1
  <2>1. progress.lastClaimedAt \in Int /\ clock \in Int
    BY <1>3, WindowsAssumption DEF TypeOK, Progress
  <2>2. progress.lastClaimedAt <= clock
    BY <1>3 DEF PInv
  <2> QED
    BY <2>1, <2>2
<1>4. LoadsAlone' /\ OfferFollowsClaims'
  BY <1>1 DEF PInv, LoadsAlone, OfferFollowsClaims
<1> QED
  BY <1>1, <1>2, <1>3, <1>4 DEF PInv

LEMMA ClaimStartsPage == ASSUME TypeOK, PInv, NEW s \in Session, ClaimStarts(s) PROVE PInv'
<1>1. PICK t \in Task : /\ task' = [task EXCEPT ![s] = t] /\ task'[s] = t /\ t.step = "claiming"
                        /\ t.claimedAt = task[s].claimedAt /\ t.status = task[s].status
  BY AwaitIs DEF ClaimStarts
<1>2. /\ UNCHANGED <<clock, progress, open, shown, told>> /\ pc'[s] = "decide"
      /\ \A u \in Session \ {s} : pc'[u] = pc[u] /\ request'[u] = request[u]
  BY DEF ClaimStarts, GetProgress, Goto, TypeOK
<1>3. TaskOK(s)'
  BY <1>1, <1>2, TaskType DEF ClaimStarts, TaskOK, NoTask, JustClaimed
<1> QED
  BY <1>1, <1>2, <1>3, TaskStep DEF ClaimStarts, JustClaimed

LEMMA ClaimElsewherePage == ASSUME TypeOK, PInv, NEW s \in Session, ClaimElsewhere(s) PROVE PInv'
<1>1. task' = [task EXCEPT ![s] = task[s]] /\ task[s] \in Task /\ TaskOK(s) /\ task' = task
  BY DEF ClaimElsewhere, pageVars, PInv
<1>2. /\ UNCHANGED <<clock, progress, open, shown, told>> /\ pc'[s] = "decide"
      /\ \A u \in Session \ {s} : pc'[u] = pc[u] /\ request'[u] = request[u]
  BY DEF ClaimElsewhere, GetProgress, Goto, TypeOK, pageVars
<1>3. TaskOK(s)'
  BY <1>1, <1>2 DEF ClaimElsewhere, TaskOK, NoTask, JustClaimed
<1> QED
  BY <1>1, <1>2, <1>3, TaskStep DEF JustClaimed

-----------------------------------------------------------------------------
\* What the steps of a claim do, as the page's invariant sees them.
LEMMA ServeIs ==
  ASSUME TypeOK, PInv, NEW s \in Session, Serve(s)
  PROVE  /\ clock' = clock /\ pc[s] # "idle"
         /\ \A u \in Session \ {s} : pc'[u] = pc[u] /\ request'[u] = request[u]
         /\ pc'[s] \in {"upsert", "log", "commit"} => request'[s].updated.lastClaimedAt = clock
         /\ \/ progress' = progress /\ claimLog' = claimLog
            \/ JustClaimed' /\ request[s].updated.lastClaimedAt = clock
<1>1. TaskOK(s) /\ request[s] \in Request
  BY DEF PInv, TypeOK
<1>2. CASE EffectiveDay(s)
  BY <1>2 DEF EffectiveDay, Goto, TypeOK
<1>3. CASE PrepareProgress(s)
  <2>1. request'[s].updated.lastClaimedAt = clock
    BY <1>1, <1>3 DEF PrepareProgress, Request, Advanced, TypeOK
  <2> QED
    BY <1>3, <2>1 DEF PrepareProgress, Goto, TypeOK
<1>4. CASE UpsertProgress(s)
  BY <1>1, <1>4 DEF UpsertProgress, Goto, TypeOK, TaskOK
<1>5. CASE LogClaim(s)
  BY <1>1, <1>5 DEF LogClaim, Goto, TypeOK, TaskOK
<1>6. CASE Commit(s)
  <2>1. /\ clock' = clock /\ progress' = request[s].updated /\ pc[s] = "commit"
        /\ request[s].updated \in Progress /\ request[s].updated.lastClaimedAt = clock
    BY <1>1, <1>6 DEF Commit, TypeOK, TaskOK
  <2>2. JustClaimed'
    BY <2>1, WindowsAssumption DEF JustClaimed
  <2> QED
    BY <1>6, <2>1, <2>2 DEF Commit, End, Goto, TypeOK
<1>7. CASE Abort(s)
  BY <1>7 DEF Abort, End, Goto, TypeOK
<1> QED
  BY <1>2, <1>3, <1>4, <1>5, <1>6, <1>7 DEF Serve

LEMMA ClaimRunsPage == ASSUME TypeOK, PInv, NEW s \in Session, ClaimRuns(s) PROVE PInv'
<1>1. /\ clock' = clock /\ pc[s] # "idle"
      /\ \A u \in Session \ {s} : pc'[u] = pc[u] /\ request'[u] = request[u]
      /\ pc'[s] \in {"upsert", "log", "commit"} => request'[s].updated.lastClaimedAt = clock
      /\ \/ progress' = progress /\ claimLog' = claimLog
         \/ JustClaimed' /\ request[s].updated.lastClaimedAt = clock
  BY ServeIs DEF ClaimRuns
<1>2. UNCHANGED <<open, shown, told>> /\ TaskOK(s) /\ task \in [Session -> Task] /\ task[s] \in Task
  BY TaskType DEF ClaimRuns, PInv
<1>3. (JustClaimed => JustClaimed') /\ (progress' = progress \/ JustClaimed')
  BY <1>1 DEF JustClaimed
<1>4. CASE UNCHANGED task
  <2>1. task' = [task EXCEPT ![s] = task[s]]
    BY <1>2, <1>4
  <2>2. TaskOK(s)'
    BY <1>1, <1>2, <1>3, <1>4 DEF TaskOK, NoTask
  <2> QED
    BY <1>1, <1>2, <1>3, <2>1, <2>2, TaskStep
<1>5. CASE Drop(s)
  <2>1. task' = [task EXCEPT ![s] = NoTask] /\ task'[s] = NoTask /\ NoTask \in Task
    BY <1>5, DropIs
  <2>2. TaskOK(s)'
    BY <1>1, <1>2, <2>1, NoTaskOK
  <2> QED
    BY <1>1, <1>2, <1>3, <2>1, <2>2, TaskStep DEF NoTask
<1>6. CASE /\ task[s].step = "claiming" /\ pc'[s] = "idle" /\ Len(claimLog') > Len(claimLog)
           /\ task' = [task EXCEPT ![s].step = "claimed",
                                   ![s].claimedAt = request[s].updated.lastClaimedAt]
  <2>1. JustClaimed' /\ request[s].updated.lastClaimedAt = clock
    <3>1. Len(claimLog) \in Nat
      BY DEF TypeOK
    <3>2. claimLog' # claimLog
      BY <1>6, <3>1
    <3> QED
      BY <1>1, <3>2
  <2> DEFINE t == [task[s] EXCEPT !.step = "claimed", !.claimedAt = clock]
  <2>2. t \in Task /\ t.step = "claimed" /\ t.claimedAt = clock /\ t.status = task[s].status
    BY <1>2 DEF Task, TypeOK
  <2>3. task' = [task EXCEPT ![s] = t] /\ task'[s] = t
    BY <1>2, <1>6, <2>1 DEF Task
  <2> HIDE DEF t
  <2>4. task[s].status = None /\ open /\ shown # None
    BY <1>2, <1>6 DEF TaskOK
  <2>5. TaskOK(s)'
    BY <1>1, <1>2, <1>6, <2>1, <2>2, <2>3, <2>4 DEF TaskOK
  <2> QED
    BY <1>1, <1>2, <1>3, <1>6, <2>2, <2>3, <2>5, TaskStep
<1> QED
  BY <1>4, <1>5, <1>6 DEF ClaimRuns

-----------------------------------------------------------------------------
LEMMA PageInitOK == PageInit => PInv
<1> SUFFICES ASSUME PageInit PROVE PInv
  OBVIOUS
<1>1. ASSUME NEW s \in Session PROVE TaskOK(s)
  BY DEF PageInit, Init, TaskOK, NoTask
<1>2. task \in [Session -> Task]
  BY NoTaskType DEF PageInit
<1>3. LoadsAlone /\ OfferFollowsClaims
  BY DEF PageInit, LoadsAlone, OfferFollowsClaims, NoTask
<1> QED
  BY <1>1, <1>2, <1>3 DEF PageInit, Init, PInv

\* The page takes the steps of DailyReward and no others.
LEMMA PageStepServes == [PageNext]_<<vars, pageVars>> => [Next]_vars
<1> SUFFICES ASSUME [PageNext]_<<vars, pageVars>> PROVE [Next]_vars
  OBVIOUS
<1>1. CASE UNCHANGED <<vars, pageVars>>
  BY <1>1
<1>2. CASE PageTick \/ LeavePage
  BY <1>2 DEF PageTick, LeavePage, Next
<1>3. ASSUME NEW s \in Session,
             \/ OpenPage(s) \/ HandleClaim(s) \/ ClaimReturns(s)
             \/ GotMyRewards(s) \/ ReadStatus(s) \/ ShowStatus(s) \/ LoadFails(s)
      PROVE  UNCHANGED vars
  BY <1>3 DEF OpenPage, HandleClaim, ClaimReturns, GotMyRewards, ReadStatus, ShowStatus, LoadFails
<1>4. ASSUME NEW s \in Session, ClaimStarts(s) \/ ClaimElsewhere(s) \/ ClaimRuns(s) PROVE Next
  BY <1>4 DEF ClaimStarts, ClaimElsewhere, ClaimRuns, Serve, Next
<1> QED
  BY <1>1, <1>2, <1>3, <1>4 DEF PageNext

LEMMA PageStepOK == TypeOK /\ PInv /\ [PageNext]_<<vars, pageVars>> => PInv'
<1> SUFFICES ASSUME TypeOK, PInv, [PageNext]_<<vars, pageVars>> PROVE PInv'
  OBVIOUS
<1>1. CASE UNCHANGED <<vars, pageVars>>
  BY <1>1 DEF vars, pageVars, PInv, TaskOK, JustClaimed, LoadsAlone, OfferFollowsClaims
<1>2. CASE PageTick \/ LeavePage
  BY <1>2, PageTickPage, LeavePagePage
<1>3. ASSUME NEW s \in Session,
             \/ OpenPage(s) \/ HandleClaim(s) \/ ClaimStarts(s) \/ ClaimElsewhere(s)
             \/ ClaimRuns(s) \/ ClaimReturns(s)
             \/ GotMyRewards(s) \/ ReadStatus(s) \/ ShowStatus(s) \/ LoadFails(s)
      PROVE  PInv'
  BY <1>3, OpenPagePage, HandleClaimPage, ClaimStartsPage, ClaimElsewherePage, ClaimRunsPage,
     ClaimReturnsPage, GotMyRewardsPage, ReadStatusPage, ShowStatusPage, LoadFailsPage
<1> QED
  BY <1>1, <1>2, <1>3 DEF PageNext

(***************************************************************************)
(* The page claims as DailyReward lets requests claim: all that is proved  *)
(* about claims holds with the page in front of them.                      *)
(***************************************************************************)
THEOREM PageClaimsByTheRules == PageSpec => Spec
<1>1. PageInit => Init
  BY DEF PageInit
<1>2. [PageNext]_<<vars, pageVars>> => [Next]_vars
  BY PageStepServes
<1> QED
  BY <1>1, <1>2, PTL DEF PageSpec, Spec

(***************************************************************************)
(* A claim whose reload was shown stays off the page until its cooldown is *)
(* over, for any number of overlapping loads and claims: what runs at once *)
(* runs within one tick, so a status that is still on its way after a      *)
(* claim has been read after a claim of the same tick.                     *)
(***************************************************************************)
THEOREM OffersFollowClaims == PageSpec => []OfferFollowsClaims
<1>1. PageInit => PInv
  BY PageInitOK
<1>2. TypeOK /\ PInv /\ [PageNext]_<<vars, pageVars>> => PInv'
  BY PageStepOK
<1>3. PInv => OfferFollowsClaims
  BY DEF PInv
<1> QED
  BY <1>1, <1>2, <1>3, PageClaimsByTheRules, TypeCorrect, PTL DEF PageSpec
=============================================================================
