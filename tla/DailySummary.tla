----------------------------- MODULE DailySummary -----------------------------
(***************************************************************************)
(* The daily summary: Service.CheckIn of internal/dailysummary/service.go  *)
(* over the tables of migration 000010, for requests that run at the same  *)
(* time, for one user or several, while events are published.              *)
(*                                                                         *)
(* Each statement of the transaction is a step.  The log is the one        *)
(* EventLog specifies: what is committed below the high-water mark is      *)
(* there for good.  Time is the clock of the database server.              *)
(***************************************************************************)
EXTENDS Integers, Sequences, FiniteSets, FiniteSetsExt

CONSTANTS
  Session,     \* requests in progress at once
  User,
  Value,       \* amounts, scores and reward identifiers of payloads
  Payload,     \* what producers may publish, see Publish
  DayLength,   \* clock ticks in a day of Europe/Moscow
  PageSize,    \* eventPageSize
  MaxBacklog,  \* maxEventsPerCheckIn
  MaxInt,      \* math.MaxInt64, scaled down
  MaxEvents,   \* bound: events published
  MaxClock,    \* bound: clock ticks
  MaxCheckIns, \* bound: requests
  Nobody       \* no session, no user, no checkpoint

ASSUME NumbersAssumption ==
  /\ Value \subseteq Int
  /\ {DayLength, PageSize, MaxBacklog, MaxInt} \subseteq Nat \ {0}
  /\ {MaxEvents, MaxClock, MaxCheckIns} \subseteq Nat

VARIABLES
  log,         \* the committed events, with the time of their commit
  clock,       \* statement_timestamp()
  checkpoint,  \* daily_summary_checkpoints, committed
  failures,    \* daily_summary_event_failures, committed
  rowLock,     \* per user, the session that inserted or locked the row
  pc, request, \* where a session is in CheckIn, and its local variables
  history      \* per user, the check-ins that committed, in order

vars == <<log, clock, checkpoint, failures, rowLock, pc, request, history>>

-----------------------------------------------------------------------------
ExperienceGranted == "EXPERIENCE_GRANTED"
CoinsGranted == "COINS_GRANTED"
GameSessionCompleted == "GAME_SESSION_COMPLETED"
RewardGranted == "REWARD_GRANTED"

\* daily_summary_event_view; any other type stands for the rest.
SummaryTypes == {ExperienceGranted, CoinsGranted, GameSessionCompleted, RewardGranted}

Body == [owner : User, type : SummaryTypes \cup {"PET_FED"}, schema : {1, 2}, value : Value]

ASSUME PayloadAssumption == Payload \subseteq Body

Event == [body : Body, at : Nat]

Checkpoint == [at : Nat, position : Nat]

ASSUME NobodyAssumption == Nobody \notin Session \cup User /\ Nobody \notin Checkpoint

NoScore == -1

NoActivity == [experience |-> 0, coins |-> 0, best |-> NoScore, rewards |-> <<>>,
               skipped |-> {}, processed |-> 0, over |-> FALSE]

NoRequest == [user |-> Nobody, created |-> FALSE, saved |-> Nobody, boundary |-> Nobody,
              last |-> 0, shown |-> FALSE, activity |-> NoActivity]

Phase == {"idle", "insert", "lock", "boundary", "collect", "save", "commit",
          "regressed", "future", "backlog"}

TypeOK ==
  /\ log \in Seq(Event)
  /\ clock \in 0..MaxClock
  /\ checkpoint \in [User -> Checkpoint \cup {Nobody}]
  /\ rowLock \in [User -> Session \cup {Nobody}]
  /\ pc \in [Session -> Phase]

-----------------------------------------------------------------------------
(* applyEvent and collectActivity, one page at a time. *)

\* Mutant: the sign of a score is not looked at.
PayloadOKForGrants(b) ==
  CASE b.type = RewardGranted -> b.value # 0
    [] b.type = GameSessionCompleted -> TRUE
    [] OTHER -> b.value > 0

\* Amount <= 0, Score < 0 or a nil reward identifier is an invalid payload.
PayloadOK(b) ==
  CASE b.type = RewardGranted -> b.value # 0
    [] b.type = GameSessionCompleted -> b.value >= 0
    [] OTHER -> b.value > 0

\* addEarnedAmount refuses a sum beyond math.MaxInt64 as an invalid event.
Overflows(total, amount) == total > MaxInt - amount

Skip(a, p, reason) == [a EXCEPT !.skipped = @ \cup {[position |-> p, reason |-> reason]}]

ApplyEvent(a, b, p) ==
  CASE b.schema # 1 -> Skip(a, p, "UNSUPPORTED_SCHEMA")
    [] b.schema = 1 /\ ~PayloadOK(b) -> Skip(a, p, "INVALID_PAYLOAD")
    [] OTHER ->
         CASE b.type = ExperienceGranted ->
                IF Overflows(a.experience, b.value) THEN Skip(a, p, "INVALID_PAYLOAD")
                ELSE [a EXCEPT !.experience = @ + b.value]
           [] b.type = CoinsGranted ->
                IF Overflows(a.coins, b.value) THEN Skip(a, p, "INVALID_PAYLOAD")
                ELSE [a EXCEPT !.coins = @ + b.value]
           [] b.type = GameSessionCompleted ->
                [a EXCEPT !.best = IF @ = NoScore \/ b.value > @ THEN b.value ELSE @]
           [] b.type = RewardGranted -> [a EXCEPT !.rewards = Append(@, b.value)]

\* One iteration of the loop over a page.
ProcessEvent(a, p) ==
  IF a.over \/ a.processed >= MaxBacklog THEN [a EXCEPT !.over = TRUE]
  ELSE [ApplyEvent(a, log[p].body, p) EXCEPT !.processed = @ + 1]

\* The user's events a summary is about, after one position up to another.
Own(u, after, to) ==
  {p \in after + 1 .. to : log[p].body.owner = u /\ log[p].body.type \in SummaryTypes}

\* list_daily_summary_events_by_position: the first PageSize of them.
Page(u, after, to) ==
  {p \in Own(u, after, to) : Cardinality({q \in Own(u, after, to) : q < p}) < PageSize}

\* The loop over a page, in the order of positions.
ProcessPage(a, page, to) ==
  LET after[p \in 0..to] == IF p = 0 THEN a
                            ELSE IF p \in page THEN ProcessEvent(after[p - 1], p)
                            ELSE after[p - 1]
  IN after[to]

-----------------------------------------------------------------------------
Init ==
  /\ log = <<>>
  /\ clock = 0
  /\ checkpoint = [u \in User |-> Nobody]
  /\ failures = {}
  /\ rowLock = [u \in User |-> Nobody]
  /\ pc = [s \in Session |-> "idle"]
  /\ request = [s \in Session |-> NoRequest]
  /\ history = [u \in User |-> <<>>]

Publish(b) ==
  /\ Len(log) < MaxEvents
  /\ log' = Append(log, [body |-> b, at |-> clock])
  /\ UNCHANGED <<clock, checkpoint, failures, rowLock, pc, request, history>>

Tick ==
  /\ clock < MaxClock
  /\ clock' = clock + 1
  /\ UNCHANGED <<log, checkpoint, failures, rowLock, pc, request, history>>

Goto(s, phase) == pc' = [pc EXCEPT ![s] = phase]

SumOver(f) == FoldSet(LAMBDA u, n : n + f[u], 0, User)

\* CaptureBoundary: the high-water mark and the time in one statement.
Boundary == [at |-> clock, position |-> Len(log)]

\* A request starts: CheckIn opens its transaction and captures a boundary.
Begin(s, u) ==
  /\ pc[s] = "idle"
  /\ SumOver([v \in User |-> Len(history[v])]) < MaxCheckIns
  /\ request' = [request EXCEPT ![s] = [NoRequest EXCEPT !.user = u, !.boundary = Boundary]]
  /\ Goto(s, "insert")
  /\ UNCHANGED <<log, clock, checkpoint, failures, rowLock, history>>

(***************************************************************************)
(* INSERT ... ON CONFLICT DO NOTHING: a committed row is a conflict, an    *)
(* uncommitted one makes the statement wait for the transaction that       *)
(* inserted it.                                                            *)
(***************************************************************************)
InsertCheckpoint(s) ==
  LET u == request[s].user IN
  /\ pc[s] = "insert"
  /\ checkpoint[u] = Nobody => rowLock[u] = Nobody
  /\ IF checkpoint[u] = Nobody
     THEN /\ rowLock' = [rowLock EXCEPT ![u] = s]
          /\ request' = [request EXCEPT ![s].created = TRUE, ![s].saved = request[s].boundary]
     ELSE UNCHANGED <<rowLock, request>>
  /\ Goto(s, "lock")
  /\ UNCHANGED <<log, clock, checkpoint, failures, history>>

\* Mutant: SELECT without FOR UPDATE.
RowAlwaysFree(s) == TRUE

RowFree(s) == rowLock[request[s].user] \in {s, Nobody}

\* SELECT ... FOR UPDATE returns the row as it is once the lock is granted.
GetCheckpointForUpdate(s) ==
  LET u == request[s].user IN
  /\ pc[s] = "lock"
  /\ RowFree(s)
  /\ rowLock' = [rowLock EXCEPT ![u] = s]
  /\ request' = IF request[s].created THEN request
                ELSE [request EXCEPT ![s].saved = checkpoint[u]]
  /\ Goto(s, "boundary")
  /\ UNCHANGED <<log, clock, checkpoint, failures, history>>

\* Mutant: two times on one day count as different days.
SameTick(t1, t2) == t1 = t2

\* sameCalendarDay.
SameCalendarDay(t1, t2) == t1 \div DayLength = t2 \div DayLength

\* Mutant: the boundary captured before the row lock is used.
CaptureInitialBoundary(s) ==
  LET r == request[s] IN
  /\ pc[s] = "boundary"
  /\ request' = [request EXCEPT ![s].last = r.saved.position]
  /\ Goto(s, IF r.boundary.position < r.saved.position THEN "regressed"
             ELSE IF r.saved.at > r.boundary.at THEN "future"
             ELSE IF r.created \/ SameCalendarDay(r.saved.at, r.boundary.at) THEN "save"
             ELSE "collect")
  /\ UNCHANGED <<log, clock, checkpoint, failures, rowLock, history>>

\* The second CaptureBoundary and the decisions that follow it.
CaptureBoundary(s) ==
  LET r == request[s]
      b == Boundary
  IN
  /\ pc[s] = "boundary"
  /\ request' = [request EXCEPT ![s].boundary = b, ![s].last = r.saved.position]
  /\ Goto(s, IF b.position < r.saved.position THEN "regressed"
             ELSE IF r.saved.at > b.at THEN "future"
             ELSE IF r.created \/ SameCalendarDay(r.saved.at, b.at) THEN "save"
             ELSE "collect")
  /\ UNCHANGED <<log, clock, checkpoint, failures, rowLock, history>>

\* collectActivity: one more page, or the end of the loop.
CollectPage(s) ==
  LET r    == request[s]
      page == Page(r.user, r.last, r.boundary.position)
      a    == ProcessPage(r.activity, page, r.boundary.position)
  IN
  /\ pc[s] = "collect"
  /\ IF r.last >= r.boundary.position \/ page = {}
     THEN request' = [request EXCEPT ![s].shown = TRUE] /\ Goto(s, "save")
     ELSE /\ request' = [request EXCEPT ![s].activity = a, ![s].last = Max(page)]
          /\ Goto(s, IF a.over THEN "backlog" ELSE "collect")
  /\ UNCHANGED <<log, clock, checkpoint, failures, rowLock, history>>

\* GetPeriodState, which keeps no state here, and UpdateCheckpoint.
UpdateCheckpoint(s) ==
  /\ pc[s] = "save"
  /\ Goto(s, "commit")
  /\ UNCHANGED <<log, clock, checkpoint, failures, rowLock, request, history>>

Unlock(s) == rowLock' = [u \in User |-> IF rowLock[u] = s THEN Nobody ELSE rowLock[u]]

CheckedIn(r) == [from |-> r.saved, to |-> r.boundary, shown |-> r.shown, summary |-> r.activity]

Commit(s) ==
  LET r == request[s] IN
  /\ pc[s] = "commit"
  /\ checkpoint' = [checkpoint EXCEPT ![r.user] = r.boundary]
  /\ failures' = {f \in failures : \A g \in r.activity.skipped : g.position # f.position}
                   \cup r.activity.skipped
  /\ history' = [history EXCEPT ![r.user] = Append(@, CheckedIn(r))]
  /\ Unlock(s)
  /\ Goto(s, "idle")
  /\ request' = [request EXCEPT ![s] = NoRequest]
  /\ UNCHANGED <<log, clock>>

\* Mutant: quarantined events are recorded outside the transaction.
AbortKeepsFailures(s) ==
  /\ pc[s] # "idle"
  /\ Unlock(s)
  /\ failures' = failures \cup request[s].activity.skipped
  /\ Goto(s, "idle")
  /\ request' = [request EXCEPT ![s] = NoRequest]
  /\ UNCHANGED <<log, clock, checkpoint, history>>

\* Mutant: the timeout leaves the transaction open.
AbortKeepsLock(s) ==
  /\ pc[s] # "idle"
  /\ Goto(s, "idle")
  /\ request' = [request EXCEPT ![s] = NoRequest]
  /\ UNCHANGED <<log, clock, checkpoint, failures, rowLock, history>>

\* An error of CheckIn, its four-second timeout or a crash rolls back.
Abort(s) ==
  /\ pc[s] # "idle"
  /\ Unlock(s)
  /\ Goto(s, "idle")
  /\ request' = [request EXCEPT ![s] = NoRequest]
  /\ UNCHANGED <<log, clock, checkpoint, failures, history>>

\* The statements that need no other transaction to end.
Step(s) ==
  \/ CaptureBoundary(s) \/ CollectPage(s) \/ UpdateCheckpoint(s) \/ Commit(s)

Next ==
  \/ Tick
  \/ \E b \in Payload : Publish(b)
  \/ \E s \in Session :
       \/ \E u \in User : Begin(s, u)
       \/ InsertCheckpoint(s) \/ GetCheckpointForUpdate(s) \/ Step(s) \/ Abort(s)

Spec == Init /\ [][Next]_vars

\* checkInTimeout ends every request; locks are granted in request order.
FairSpec ==
  /\ Spec
  /\ \A s \in Session :
       /\ WF_vars(Step(s)) /\ SF_vars(InsertCheckpoint(s)) /\ SF_vars(GetCheckpointForUpdate(s))
       /\ WF_vars(pc[s] \in {"regressed", "future", "backlog"} /\ Abort(s))

-----------------------------------------------------------------------------
(***************************************************************************)
(* The check-ins of a user follow one another without gap or overlap, from *)
(* the first position to the checkpoint: whatever requests ran at once,    *)
(* failed or were repeated, no event is in two of them and none between.   *)
(***************************************************************************)
CheckInsChain ==
  \A u \in User :
    LET h == history[u] IN
    /\ \A i \in DOMAIN h :
         /\ h[i].from.position <= h[i].to.position /\ h[i].from.at <= h[i].to.at
         /\ i > 1 => h[i].from = h[i - 1].to
    /\ checkpoint[u] = IF h = <<>> THEN Nobody ELSE h[Len(h)].to

Total(v, n) == LET t[i \in 0..n] == IF i = 0 THEN 0 ELSE t[i - 1] + v[i] IN t[n]

\* The sum of the values of the events at some of the first n positions.
Sum(S, n) == Total([p \in 1..n |-> IF p \in S THEN log[p].body.value ELSE 0], n)

Bad(b) ==
  b.schema # 1 \/ CASE b.type = RewardGranted -> b.value = 0
                    [] b.type = GameSessionCompleted -> b.value < 0
                    [] OTHER -> b.value < 1

Skipped(a) == {f.position : f \in a.skipped}

Used(a, seen, type) == {p \in seen \ Skipped(a) : log[p].body.type = type}

\* What the activity should be when these events were seen, among the first n.
Exact(a, seen, n) ==
  /\ a.experience = Sum(Used(a, seen, ExperienceGranted), n)
  /\ a.coins = Sum(Used(a, seen, CoinsGranted), n)
  /\ a.best = IF Used(a, seen, GameSessionCompleted) = {} THEN NoScore
              ELSE Max({log[p].body.value : p \in Used(a, seen, GameSessionCompleted)})
  /\ Len(a.rewards) = Cardinality(Used(a, seen, RewardGranted))
  /\ Skipped(a) \subseteq seen
  /\ \A p \in seen :
       IF Bad(log[p].body) THEN p \in Skipped(a)
       ELSE p \in Skipped(a) =>
              /\ log[p].body.type \in {ExperienceGranted, CoinsGranted}
              /\ Sum({q \in Used(a, seen, log[p].body.type) : q < p}, n)
                   + log[p].body.value > MaxInt

(***************************************************************************)
(* A summary shows exactly the period it names: the sums, the best score   *)
(* and the rewards of the user's own events after the last check-in, and   *)
(* every one it leaves out is quarantined, because it is malformed or      *)
(* because the sum would not fit.                                          *)
(***************************************************************************)
SummariesAreExact ==
  \A u \in User : \A i \in DOMAIN history[u] :
    LET c == history[u][i] IN
    IF ~ c.shown THEN c.summary = NoActivity
    ELSE /\ Exact(c.summary, Own(u, c.from.position, c.to.position), c.to.position)
         /\ c.summary.skipped \subseteq failures

(***************************************************************************)
(* However many requests race, a user is shown at most one summary for a   *)
(* day of Europe/Moscow, and none on the day of an earlier check-in.       *)
(***************************************************************************)
OneSummaryPerDay ==
  \A u \in User : \A i, j \in DOMAIN history[u] :
    i < j /\ history[u][j].shown =>
      history[u][i].to.at \div DayLength < history[u][j].to.at \div DayLength

(***************************************************************************)
(* Requests that wait for one another do not trip the sanity checks: the   *)
(* boundary is captured after the row lock, so no check-in fails with      *)
(* ErrPositionRegression or a check-in time in the future.                 *)
(***************************************************************************)
NoFalseAlarm == \A s \in Session : pc[s] \notin {"regressed", "future"}

(***************************************************************************)
(* An event is quarantined by a committed check-in of its owner that       *)
(* passed over it, never by one that was rolled back.                      *)
(***************************************************************************)
QuarantineIsCommitted ==
  \A f \in failures : \E i \in DOMAIN history[log[f.position].body.owner] :
    f \in history[log[f.position].body.owner][i].summary.skipped

(***************************************************************************)
(* A request ends, with a summary, without one or with an error, though    *)
(* others hold the row it needs and may crash while they do.               *)
(***************************************************************************)
CheckInEnds == \A s \in Session : pc[s] # "idle" ~> pc[s] = "idle"

(***************************************************************************)
(* ARCHITECTURE.md, "Daily summary": the report at the first login of a    *)
(* day shows what was earned the day before and the best score of that     *)
(* day.  So a summary shown on a day, or one shown before it, covers every *)
(* event of the day before - but for those before the user's first         *)
(* check-in, which only starts the account and reports nothing.            *)
(***************************************************************************)
Reported(u, p, i) ==
  \E j \in 1..i : /\ history[u][j].shown
                  /\ p \in history[u][j].from.position + 1 .. history[u][j].to.position

YesterdayIsReported ==
  \A u \in User : \A i \in DOMAIN history[u] :
    LET c == history[u][i] IN
    c.shown =>
      \A p \in history[u][1].to.position + 1 .. c.to.position :
        /\ log[p].body.owner = u
        /\ log[p].body.type \in SummaryTypes
        /\ log[p].at \div DayLength = c.to.at \div DayLength - 1
        => Reported(u, p, i)
=============================================================================
