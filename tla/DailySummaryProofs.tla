-------------------------- MODULE DailySummaryProofs --------------------------
(***************************************************************************)
(* Theorems about DailySummary, for every number of requests and users,    *)
(* any events, page size and length of a day: the check-ins of a user are  *)
(* a chain, none of them trips over another, a day has one summary, and    *)
(* the summary has the exact sums of its period, whatever was published    *)
(* while it was collected.                                                 *)
(***************************************************************************)
EXTENDS DailySummary, FiniteSetTheorems, WellFoundedInduction, TLAPS

-----------------------------------------------------------------------------
(***************************************************************************)
(* The strengthening.  A request that holds the row lock of its user has   *)
(* read the checkpoint that is still committed, so what it appends to the  *)
(* history continues it; every time and position that was ever saved is    *)
(* one the clock and the log have reached, so a boundary captured under    *)
(* the lock is never behind.  What collectActivity adds up plays no part   *)
(* here, so its type is left open: EInv below says what it is.             *)
(***************************************************************************)
Request(A) == [user : User \cup {Nobody}, created : BOOLEAN,
               saved : Checkpoint \cup {Nobody}, boundary : Checkpoint \cup {Nobody},
               last : A, shown : BOOLEAN, activity : A]

Requests == \E A : request \in [Session -> Request(A)]

InTime(c) == c \in Checkpoint /\ c.at <= clock /\ c.position <= Len(log)

Running(s) == pc[s] \in {"boundary", "collect", "save", "commit"}
Decided(s) == pc[s] \in {"collect", "save", "commit"}

SessionOK(s) ==
  LET r == request[s]
      u == r.user
  IN
  /\ pc[s] # "idle" => u \in User
  /\ pc[s] = "insert" => ~ r.created
  /\ pc[s] \in {"insert", "lock"} \/ Decided(s) => InTime(r.boundary)
  /\ Running(s) \/ (pc[s] = "lock" /\ r.created) =>
       /\ rowLock[u] = s /\ InTime(r.saved)
       /\ checkpoint[u] = IF r.created THEN Nobody ELSE r.saved
  /\ pc[s] = "lock" /\ ~ r.created => checkpoint[u] # Nobody
  /\ Decided(s) => r.saved.at <= r.boundary.at /\ r.saved.position <= r.boundary.position
  /\ pc[s] = "collect" \/ (Decided(s) /\ r.shown)
       => ~ SameCalendarDay(r.saved.at, r.boundary.at)
  /\ pc[s] \in {"insert", "lock", "boundary"} => ~ r.shown
  /\ pc[s] \notin {"regressed", "future"}

\* The days of a history, and the times it names.
DaysOK(h) ==
  /\ \A i \in DOMAIN h : h[i].from \in Checkpoint /\ h[i].to \in Checkpoint
  /\ \A i, j \in DOMAIN h : i < j => h[i].to.at <= h[j].to.at
  /\ \A i, j \in DOMAIN h :
       i < j /\ h[j].shown => h[i].to.at \div DayLength < h[j].to.at \div DayLength

\* One user's part of CheckInsChain.
Chain(h) ==
  \A i \in DOMAIN h :
    /\ h[i].from.position <= h[i].to.position /\ h[i].from.at <= h[i].to.at
    /\ i > 1 => h[i].from = h[i - 1].to

UserOK(u) ==
  /\ \E S : history[u] \in Seq(S)
  /\ Chain(history[u]) /\ DaysOK(history[u])
  /\ checkpoint[u] = IF history[u] = <<>> THEN Nobody ELSE history[u][Len(history[u])].to
  /\ checkpoint[u] # Nobody => InTime(checkpoint[u])

IInv == /\ TypeOK /\ Requests /\ DOMAIN history = User
        /\ \A s \in Session : SessionOK(s)
        /\ \A u \in User : UserOK(u)

-----------------------------------------------------------------------------
(* Days. *)

LEMMA DayMonotone ==
  ASSUME NEW a \in Nat, NEW b \in Nat, a <= b
  PROVE  /\ a \div DayLength \in Int /\ b \div DayLength \in Int
         /\ a \div DayLength <= b \div DayLength
<1>1. DayLength \in Nat \ {0}
  BY NumbersAssumption
<1> QED
  BY <1>1

\* One more check-in, of the period that follows the history.
LEMMA Longer ==
  ASSUME NEW S, NEW h \in Seq(S), Chain(h), DaysOK(h), NEW c,
         c.from \in Checkpoint, c.to \in Checkpoint,
         c.from.position <= c.to.position, c.from.at <= c.to.at,
         h # <<>> => c.from = h[Len(h)].to,
         c.shown => ~ SameCalendarDay(c.from.at, c.to.at)
  PROVE  /\ \E T : Append(h, c) \in Seq(T)
         /\ Chain(Append(h, c)) /\ DaysOK(Append(h, c))
         /\ Append(h, c) # <<>> /\ Append(h, c)[Len(Append(h, c))] = c
<1> DEFINE g == Append(h, c)
           n == Len(h)
<1>1. /\ h \in Seq(S \cup {c}) /\ g \in Seq(S \cup {c}) /\ n \in Nat /\ Len(g) = n + 1
      /\ DOMAIN g = 1..(n + 1) /\ DOMAIN h = 1..n /\ g[n + 1] = c
      /\ \A i \in 1..n : g[i] = h[i]
  OBVIOUS
<1>2. h # <<>> <=> n >= 1
  BY <1>1
<1> HIDE DEF g
<1>3. Chain(g)
  <2>1. ASSUME NEW i \in 1..n
        PROVE  /\ g[i].from.position <= g[i].to.position /\ g[i].from.at <= g[i].to.at
               /\ i > 1 => g[i].from = g[i - 1].to
    <3>1. i > 1 => i - 1 \in 1..n
      BY <1>1
    <3> QED
      BY <1>1, <3>1 DEF Chain
  <2>2. n + 1 > 1 => g[n + 1].from = g[n + 1 - 1].to
    BY <1>1, <1>2
  <2> QED
    BY <1>1, <2>1, <2>2 DEF Chain
<1>4. c.from.at \in Nat /\ c.to.at \in Nat
  BY DEF Checkpoint
<1>5. ASSUME NEW i \in 1..n
      PROVE  /\ h[i].to.at \in Nat /\ h[i].to.at <= c.from.at
             /\ h[i].to.at <= c.to.at
             /\ c.shown => h[i].to.at \div DayLength < c.to.at \div DayLength
  <2>1. h[i].to \in Checkpoint /\ h[n].to \in Checkpoint /\ c.from = h[n].to
    BY <1>1, <1>2 DEF DaysOK
  <2>2. h[i].to.at <= h[n].to.at
    <3>1. CASE i = n
      BY <2>1, <3>1 DEF Checkpoint
    <3>2. CASE i < n
      BY <1>1, <3>2 DEF DaysOK
    <3>3. i = n \/ i < n
      <4>1. n \in Nat
        BY <1>1
      <4> HIDE DEF n
      <4> QED
        BY <4>1
    <3> QED
      BY <3>1, <3>2, <3>3
  <2>3. h[i].to.at \in Nat /\ h[i].to.at <= c.from.at /\ h[i].to.at <= c.to.at
    BY <1>4, <2>1, <2>2 DEF Checkpoint
  <2>4. /\ h[i].to.at \div DayLength <= c.from.at \div DayLength
        /\ c.from.at \div DayLength <= c.to.at \div DayLength
        /\ h[i].to.at \div DayLength \in Int /\ c.from.at \div DayLength \in Int
        /\ c.to.at \div DayLength \in Int
    BY <1>4, <2>3, DayMonotone
  <2>5. c.shown => c.from.at \div DayLength # c.to.at \div DayLength
    BY DEF SameCalendarDay
  <2> QED
    BY <2>3, <2>4, <2>5
<1>6. DaysOK(g)
  <2>1. \A i \in DOMAIN g : g[i].from \in Checkpoint /\ g[i].to \in Checkpoint
    <3>1. ASSUME NEW i \in 1..n PROVE g[i].from \in Checkpoint /\ g[i].to \in Checkpoint
      BY <1>1 DEF DaysOK
    <3> QED
      BY <1>1, <3>1
  <2>2. ASSUME NEW i \in 1..(n + 1), NEW j \in 1..(n + 1), i < j
        PROVE  /\ g[i].to.at <= g[j].to.at
               /\ g[j].shown => g[i].to.at \div DayLength < g[j].to.at \div DayLength
    <3>1. i \in 1..n /\ g[i] = h[i]
      BY <1>1, <2>2
    <3>2. CASE j = n + 1
      BY <1>1, <1>5, <3>1, <3>2
    <3>3. CASE j \in 1..n
      BY <1>1, <2>2, <3>1, <3>3 DEF DaysOK
    <3> QED
      BY <1>1, <3>2, <3>3
  <2> QED
    BY <1>1, <2>1, <2>2 DEF DaysOK
<1>7. g # <<>>
  BY <1>1
<1> QED
  BY <1>1, <1>3, <1>6, <1>7 DEF g

LEMMA InitInv == Init => IInv
<1> SUFFICES ASSUME Init PROVE IInv
  OBVIOUS
<1>1. <<>> \in Seq({}) /\ DOMAIN <<>> = {}
  OBVIOUS
<1>2. TypeOK
  BY <1>1, NumbersAssumption DEF Init, TypeOK, Phase
<1>3. Requests
  <2>1. NoRequest \in Request({0, NoActivity})
    BY DEF NoRequest, Request
  <2>2. request \in [Session -> Request({0, NoActivity})]
    BY <2>1 DEF Init
  <2> QED
    BY <2>2 DEF Requests
<1>4. \A s \in Session : SessionOK(s)
  BY DEF Init, SessionOK, Running, Decided
<1>5. \A u \in User : UserOK(u)
  BY <1>1 DEF Init, UserOK, Chain, DaysOK
<1> QED
  BY <1>2, <1>3, <1>4, <1>5 DEF IInv, Init

-----------------------------------------------------------------------------
(* Every step. *)

\* What a request relies on, when others step.
LEMMA FrameOK ==
  ASSUME TypeOK, TypeOK', NEW s \in Session, SessionOK(s),
         pc'[s] = pc[s], request'[s] = request[s],
         clock <= clock', Len(log) <= Len(log'),
         \A u \in User : rowLock[u] = s => rowLock'[u] = s /\ checkpoint'[u] = checkpoint[u],
         \A u \in User : checkpoint[u] # Nobody => checkpoint'[u] # Nobody
  PROVE  SessionOK(s)'
<1>1. ASSUME NEW c, InTime(c) PROVE InTime(c)'
  <2>1. /\ c \in Checkpoint /\ c.at \in Nat /\ c.position \in Nat
        /\ c.at <= clock /\ c.position <= Len(log)
    BY <1>1 DEF InTime, Checkpoint
  <2>2. clock \in Nat /\ clock' \in Nat /\ Len(log) \in Nat /\ Len(log') \in Nat
    BY NumbersAssumption DEF TypeOK
  <2> QED
    BY <2>1, <2>2 DEF InTime
<1>2. InTime(request[s].boundary) => InTime(request[s].boundary)'
  BY <1>1
<1>3. InTime(request[s].saved) => InTime(request[s].saved)'
  BY <1>1
<1>4. Running(s)' = Running(s) /\ Decided(s)' = Decided(s)
  BY DEF Running, Decided
<1>5. pc[s] # "idle" => request[s].user \in User
  BY DEF SessionOK
<1> QED
  BY <1>2, <1>3, <1>4, <1>5 DEF SessionOK, Running, Decided

\* What is true of a user stays true while nothing of the user's changes.
LEMMA UserFrame ==
  ASSUME TypeOK, TypeOK', NEW u \in User, UserOK(u),
         history'[u] = history[u], checkpoint'[u] = checkpoint[u],
         clock <= clock', Len(log) <= Len(log')
  PROVE  UserOK(u)'
<1>1. checkpoint[u] # Nobody => InTime(checkpoint[u])'
  <2>1. SUFFICES ASSUME checkpoint[u] # Nobody PROVE InTime(checkpoint[u])'
    OBVIOUS
  <2>2. InTime(checkpoint[u])
    BY <2>1 DEF UserOK
  <2>3. /\ checkpoint[u] \in Checkpoint
        /\ checkpoint[u].at \in Nat /\ checkpoint[u].position \in Nat
        /\ checkpoint[u].at <= clock /\ checkpoint[u].position <= Len(log)
    BY <2>2 DEF InTime, Checkpoint
  <2>4. clock \in Nat /\ clock' \in Nat /\ Len(log) \in Nat /\ Len(log') \in Nat
    BY NumbersAssumption DEF TypeOK
  <2> QED
    BY <2>3, <2>4 DEF InTime
<1> QED
  BY <1>1 DEF UserOK

LEMMA GotoType ==
  ASSUME TypeOK, NEW s \in Session, NEW phase \in Phase, Goto(s, phase)
  PROVE  /\ pc' \in [Session -> Phase] /\ pc'[s] = phase
         /\ \A t \in Session \ {s} : pc'[t] = pc[t]
BY DEF Goto, TypeOK

\* A request with new local variables, of whatever types the summary has.
LEMMA RequestsSet ==
  ASSUME Requests, NEW s \in Session, NEW A, NEW r \in Request(A),
         request' = [request EXCEPT ![s] = r]
  PROVE  /\ Requests' /\ request'[s] = r
         /\ \A t \in Session \ {s} : request'[t] = request[t]
<1>1. PICK B : request \in [Session -> Request(B)]
  BY DEF Requests
<1>2. \A t \in Session : request[t] \in Request(A \cup B)
  BY <1>1 DEF Request
<1>3. r \in Request(A \cup B)
  BY DEF Request
<1>4. request' \in [Session -> Request(A \cup B)]
  BY <1>1, <1>2, <1>3
<1> QED
  BY <1>1, <1>4 DEF Requests

\* A step of one request that commits nothing.
LEMMA OwnStep ==
  ASSUME IInv, NEW s \in Session, UNCHANGED <<log, clock, checkpoint, history>>,
         TypeOK', Requests', SessionOK(s)',
         \A t \in Session \ {s} : pc'[t] = pc[t] /\ request'[t] = request[t],
         \A t \in Session \ {s}, u \in User : rowLock[u] = t => rowLock'[u] = t
  PROVE  IInv'
<1>1. clock <= clock' /\ Len(log) <= Len(log')
  BY NumbersAssumption DEF IInv, TypeOK
<1>2. ASSUME NEW t \in Session \ {s} PROVE SessionOK(t)'
  BY <1>1, <1>2, FrameOK DEF IInv
<1>3. ASSUME NEW u \in User PROVE UserOK(u)'
  BY <1>1, <1>3, UserFrame DEF IInv
<1> QED
  BY <1>2, <1>3 DEF IInv

\* An event is published, or time passes.
LEMMA WorldStep == ASSUME IInv, Tick \/ \E b \in Payload : Publish(b) PROVE IInv'
<1>1. TypeOK /\ UNCHANGED <<checkpoint, failures, rowLock, pc, request, history>>
  BY DEF IInv, Tick, Publish
<1>2. TypeOK' /\ clock <= clock' /\ Len(log) <= Len(log')
  <2>1. CASE Tick
    BY <1>1, <2>1, NumbersAssumption DEF Tick, TypeOK
  <2>2. ASSUME NEW b \in Payload, Publish(b)
        PROVE  TypeOK' /\ clock <= clock' /\ Len(log) <= Len(log')
    <3>1. [body |-> b, at |-> clock] \in Event
      BY <1>1, PayloadAssumption, NumbersAssumption DEF Event, TypeOK
    <3>2. log' = Append(log, [body |-> b, at |-> clock]) /\ clock' = clock /\ log \in Seq(Event)
      BY <1>1, <2>2 DEF Publish, TypeOK
    <3>3. log' \in Seq(Event) /\ Len(log) <= Len(log')
      BY <3>1, <3>2
    <3> QED
      BY <1>1, <3>2, <3>3, NumbersAssumption DEF TypeOK
  <2> QED
    BY <2>1, <2>2
<1>3. \A s \in Session : SessionOK(s)'
  BY <1>1, <1>2, FrameOK DEF IInv
<1>4. \A u \in User : UserOK(u)'
  BY <1>1, <1>2, UserFrame DEF IInv
<1> QED
  BY <1>1, <1>2, <1>3, <1>4 DEF IInv, Requests

LEMMA BoundaryOK == ASSUME TypeOK PROVE InTime(Boundary) /\ Boundary \in Checkpoint
                                        /\ Boundary.at = clock /\ Boundary.position = Len(log)
<1>1. clock \in Nat /\ Len(log) \in Nat
  BY NumbersAssumption DEF TypeOK
<1> QED
  BY <1>1 DEF InTime, Boundary, Checkpoint

LEMMA BeginStep ==
  ASSUME IInv, NEW s \in Session, NEW u \in User, Begin(s, u) PROVE IInv'
<1>1. /\ TypeOK /\ Requests /\ UNCHANGED <<log, clock, checkpoint, failures, rowLock, history>>
      /\ Goto(s, "insert")
  BY DEF IInv, Begin
<1>2. /\ pc'[s] = "insert" /\ pc' \in [Session -> Phase]
      /\ \A t \in Session \ {s} : pc'[t] = pc[t]
  BY <1>1, GotoType DEF Phase
<1>0. PICK r, A : r = [NoRequest EXCEPT !.user = u, !.boundary = Boundary] /\ A = {0, NoActivity}
  OBVIOUS
<1>3. r \in Request(A) /\ r.user = u /\ r.boundary = Boundary /\ r.created = FALSE /\ r.shown = FALSE
  <2>1. NoRequest \in Request(A) /\ NoRequest.created = FALSE /\ NoRequest.shown = FALSE
    BY <1>0 DEF NoRequest, Request
  <2>2. Boundary \in Checkpoint
    BY <1>1, BoundaryOK
  <2>3. r = [NoRequest EXCEPT !.user = u, !.boundary = Boundary]
    BY <1>0
  <2> QED
    BY <2>1, <2>2, <2>3 DEF Request
<1>4. request' = [request EXCEPT ![s] = r]
  BY <1>0 DEF Begin
<1>5. Requests' /\ request'[s] = r /\ \A t \in Session \ {s} : request'[t] = request[t]
  BY <1>1, <1>3, <1>4, RequestsSet
<1>6. TypeOK'
  BY <1>1, <1>2 DEF TypeOK
<1>7. InTime(r.boundary)'
  BY <1>1, <1>3, BoundaryOK DEF InTime
<1>8. SessionOK(s)'
  BY <1>2, <1>3, <1>5, <1>7 DEF SessionOK, Running, Decided
<1> QED
  BY <1>1, <1>2, <1>5, <1>6, <1>8, OwnStep

LEMMA InsertStep == ASSUME IInv, NEW s \in Session, InsertCheckpoint(s) PROVE IInv'
<1>1. /\ TypeOK /\ Requests /\ SessionOK(s) /\ pc[s] = "insert"
      /\ UNCHANGED <<log, clock, checkpoint, failures, history>> /\ Goto(s, "lock")
  BY DEF IInv, InsertCheckpoint
<1>2. /\ pc'[s] = "lock" /\ pc' \in [Session -> Phase]
      /\ \A t \in Session \ {s} : pc'[t] = pc[t]
  BY <1>1, GotoType DEF Phase
<1>3. PICK B : request \in [Session -> Request(B)]
  BY <1>1 DEF Requests
<1>4. PICK r, u : r = request[s] /\ u = request[s].user
  OBVIOUS
<1>5. /\ r \in Request(B) /\ u \in User /\ ~ r.created /\ ~ r.shown
      /\ InTime(r.boundary) /\ r.boundary \in Checkpoint
  BY <1>1, <1>3, <1>4 DEF SessionOK, InTime
<1>6. CASE checkpoint[u] = Nobody
  <2>1. /\ rowLock' = [rowLock EXCEPT ![u] = s] /\ rowLock[u] = Nobody
        /\ request' = [request EXCEPT ![s] = [r EXCEPT !.created = TRUE, !.saved = r.boundary]]
    BY <1>3, <1>4, <1>6 DEF InsertCheckpoint
  <2> DEFINE q == [r EXCEPT !.created = TRUE, !.saved = r.boundary]
  <2>2. /\ q \in Request(B) /\ q.created = TRUE /\ q.saved = r.boundary
        /\ q.boundary = r.boundary /\ q.user = u /\ q.shown = r.shown
    BY <1>4, <1>5 DEF Request
  <2> HIDE DEF q
  <2>3. Requests' /\ request'[s] = q /\ \A t \in Session \ {s} : request'[t] = request[t]
    BY <1>1, <2>1, <2>2, RequestsSet DEF q
  <2>4. TypeOK' /\ rowLock'[u] = s
    BY <1>1, <1>2, <1>5, <2>1 DEF TypeOK
  <2>5. \A t \in Session \ {s}, v \in User : rowLock[v] = t => rowLock'[v] = t
    BY <1>1, <2>1, NobodyAssumption DEF TypeOK
  <2>6. InTime(r.boundary)'
    BY <1>1, <1>5 DEF InTime
  <2>7. SessionOK(s)'
    BY <1>1, <1>2, <1>5, <1>6, <2>2, <2>3, <2>4, <2>6 DEF SessionOK, Running, Decided
  <2> QED
    BY <1>1, <1>2, <2>3, <2>4, <2>5, <2>7, OwnStep
<1>7. CASE checkpoint[u] # Nobody
  <2>1. UNCHANGED <<rowLock, request>>
    BY <1>4, <1>7 DEF InsertCheckpoint
  <2>2. TypeOK' /\ Requests'
    BY <1>1, <1>2, <2>1 DEF TypeOK, Requests
  <2>3. InTime(r.boundary)'
    BY <1>1, <1>5 DEF InTime
  <2>4. SessionOK(s)'
    BY <1>1, <1>2, <1>4, <1>5, <1>7, <2>1, <2>3 DEF SessionOK, Running, Decided
  <2> QED
    BY <1>1, <1>2, <2>1, <2>2, <2>4, OwnStep
<1> QED
  BY <1>6, <1>7

LEMMA LockStep == ASSUME IInv, NEW s \in Session, GetCheckpointForUpdate(s) PROVE IInv'
<1>1. /\ TypeOK /\ Requests /\ SessionOK(s) /\ pc[s] = "lock" /\ RowFree(s)
      /\ UNCHANGED <<log, clock, checkpoint, failures, history>> /\ Goto(s, "boundary")
  BY DEF IInv, GetCheckpointForUpdate
<1>2. /\ pc'[s] = "boundary" /\ pc' \in [Session -> Phase]
      /\ \A t \in Session \ {s} : pc'[t] = pc[t]
  BY <1>1, GotoType DEF Phase
<1>3. PICK B : request \in [Session -> Request(B)]
  BY <1>1 DEF Requests
<1>4. PICK r, u : r = request[s] /\ u = request[s].user
  OBVIOUS
<1>5. /\ r \in Request(B) /\ u \in User /\ ~ r.shown
      /\ rowLock' = [rowLock EXCEPT ![u] = s] /\ rowLock[u] \in {s, Nobody}
  BY <1>1, <1>3, <1>4 DEF SessionOK, GetCheckpointForUpdate, RowFree
<1>6. rowLock'[u] = s /\ TypeOK' /\ \A t \in Session \ {s}, v \in User : rowLock[v] = t => rowLock'[v] = t
  BY <1>1, <1>2, <1>5, NobodyAssumption DEF TypeOK
<1>7. CASE r.created
  <2>1. UNCHANGED request
    BY <1>4, <1>7 DEF GetCheckpointForUpdate
  <2>2. Requests' /\ InTime(r.saved)' /\ checkpoint[u] = Nobody
    BY <1>1, <1>4, <1>7, <2>1 DEF Requests, InTime, SessionOK
  <2>3. SessionOK(s)'
    BY <1>1, <1>2, <1>4, <1>5, <1>6, <1>7, <2>1, <2>2 DEF SessionOK, Running, Decided
  <2> QED
    BY <1>1, <1>2, <1>6, <2>1, <2>2, <2>3, OwnStep
<1>8. CASE ~ r.created
  <2>0. PICK q : q = [r EXCEPT !.saved = checkpoint[u]]
    OBVIOUS
  <2>1. request' = [request EXCEPT ![s] = q]
    BY <1>3, <1>4, <1>8, <2>0 DEF GetCheckpointForUpdate
  <2>2. InTime(checkpoint[u]) /\ checkpoint[u] \in Checkpoint
    BY <1>1, <1>4, <1>5, <1>8 DEF SessionOK, IInv, UserOK, InTime
  <2>3. /\ q \in Request(B) /\ q.created = FALSE /\ q.saved = checkpoint[u]
        /\ q.user = u /\ q.shown = r.shown
    BY <1>4, <1>5, <1>8, <2>0, <2>2 DEF Request
  <2>4. Requests' /\ request'[s] = q /\ \A t \in Session \ {s} : request'[t] = request[t]
    BY <1>1, <2>1, <2>3, RequestsSet
  <2>5. InTime(q.saved)'
    BY <1>1, <2>2, <2>3 DEF InTime
  <2>6. SessionOK(s)'
    BY <1>1, <1>2, <1>5, <1>6, <2>3, <2>4, <2>5 DEF SessionOK, Running, Decided
  <2> QED
    BY <1>1, <1>2, <1>6, <2>4, <2>6, OwnStep
<1> QED
  BY <1>7, <1>8

LEMMA BoundaryStep == ASSUME IInv, NEW s \in Session, CaptureBoundary(s) PROVE IInv'
<1>1. /\ TypeOK /\ Requests /\ SessionOK(s) /\ pc[s] = "boundary"
      /\ UNCHANGED <<log, clock, checkpoint, failures, rowLock, history>>
  BY DEF IInv, CaptureBoundary
<1>2. PICK B : request \in [Session -> Request(B)]
  BY <1>1 DEF Requests
<1>3. PICK r, b : r = request[s] /\ b = Boundary
  OBVIOUS
<1>4. /\ r \in Request(B) /\ r.user \in User /\ ~ r.shown /\ InTime(r.saved)
      /\ rowLock[r.user] = s /\ checkpoint[r.user] = IF r.created THEN Nobody ELSE r.saved
  BY <1>1, <1>2, <1>3 DEF SessionOK, Running
<1>5. InTime(b) /\ b \in Checkpoint /\ b.at = clock /\ b.position = Len(log)
  BY <1>1, <1>3, BoundaryOK
<1>6. /\ r.saved.at \in Nat /\ r.saved.position \in Nat /\ b.at \in Nat /\ b.position \in Nat
      /\ r.saved.at <= b.at /\ r.saved.position <= b.position
  BY <1>4, <1>5 DEF InTime, Checkpoint
<1> DEFINE q == [r EXCEPT !.boundary = b, !.last = r.saved.position]
           A == B \cup {r.saved.position}
<1>7. request' = [request EXCEPT ![s] = q]
  BY <1>2, <1>3 DEF CaptureBoundary
<1>8. /\ q \in Request(A) /\ q.user = r.user /\ q.created = r.created /\ q.saved = r.saved
      /\ q.boundary = b /\ q.shown = r.shown
  BY <1>4, <1>5 DEF Request
<1> HIDE DEF q, A
<1>9. Requests' /\ request'[s] = q /\ \A t \in Session \ {s} : request'[t] = request[t]
  BY <1>1, <1>7, <1>8, RequestsSet
<1>10. Goto(s, IF r.created \/ SameCalendarDay(r.saved.at, b.at) THEN "save" ELSE "collect")
  <2>1. ~ (b.position < r.saved.position) /\ ~ (r.saved.at > b.at)
    BY <1>6
  <2> QED
    BY <1>3, <2>1 DEF CaptureBoundary
<1>11. /\ pc'[s] \in {"save", "collect"} /\ pc' \in [Session -> Phase]
       /\ pc'[s] = "collect" => ~ SameCalendarDay(r.saved.at, b.at)
       /\ \A t \in Session \ {s} : pc'[t] = pc[t]
  BY <1>1, <1>10, GotoType DEF Phase
<1>12. TypeOK'
  BY <1>1, <1>11 DEF TypeOK
<1>13. InTime(r.saved)' /\ InTime(b)'
  BY <1>1, <1>4, <1>5 DEF InTime
<1>14. SessionOK(s)'
  BY <1>1, <1>4, <1>6, <1>8, <1>9, <1>11, <1>13 DEF SessionOK, Running, Decided
<1> QED
  BY <1>1, <1>9, <1>11, <1>12, <1>14, OwnStep

\* The summary grows, is complete, or is given up; the period stays.
LEMMA CollectStep ==
  ASSUME IInv, NEW s \in Session, CollectPage(s) \/ UpdateCheckpoint(s) PROVE IInv'
<1>1. /\ TypeOK /\ Requests /\ SessionOK(s) /\ pc[s] \in {"collect", "save"}
      /\ UNCHANGED <<log, clock, checkpoint, failures, rowLock, history>>
  BY DEF IInv, CollectPage, UpdateCheckpoint
<1>2. PICK B : request \in [Session -> Request(B)]
  BY <1>1 DEF Requests
<1>3. PICK r : r = request[s]
  OBVIOUS
<1>4. r \in Request(B)
  BY <1>2, <1>3
<1>5. CASE \E A, q : /\ q \in Request(A) /\ request' = [request EXCEPT ![s] = q]
                     /\ q.user = r.user /\ q.created = r.created /\ q.saved = r.saved
                     /\ q.boundary = r.boundary
                     /\ q.shown = r.shown \/ pc[s] = "collect"
                     /\ \E phase \in {"collect", "save", "commit", "backlog"} :
                          Goto(s, phase) /\ (phase = "collect" => q.shown = r.shown /\ pc[s] = "collect")
  <2>1. PICK A, q, phase :
          /\ q \in Request(A) /\ request' = [request EXCEPT ![s] = q]
          /\ q.user = r.user /\ q.created = r.created /\ q.saved = r.saved
          /\ q.boundary = r.boundary
          /\ q.shown = r.shown \/ pc[s] = "collect"
          /\ phase \in {"collect", "save", "commit", "backlog"} /\ Goto(s, phase)
          /\ phase = "collect" => q.shown = r.shown /\ pc[s] = "collect"
    BY <1>5
  <2>2. Requests' /\ request'[s] = q /\ \A t \in Session \ {s} : request'[t] = request[t]
    BY <1>1, <2>1, RequestsSet
  <2>3. /\ pc'[s] = phase /\ pc' \in [Session -> Phase]
        /\ \A t \in Session \ {s} : pc'[t] = pc[t]
    BY <1>1, <2>1, GotoType DEF Phase
  <2>4. TypeOK'
    BY <1>1, <2>3 DEF TypeOK
  <2>5. InTime(r.saved)' /\ InTime(r.boundary)'
    BY <1>1, <1>3 DEF InTime, SessionOK, Running, Decided
  <2>6. SessionOK(s)'
    BY <1>1, <1>3, <2>1, <2>2, <2>3, <2>5 DEF SessionOK, Running, Decided
  <2> QED
    BY <1>1, <2>2, <2>3, <2>4, <2>6, OwnStep
<1>6. CASE UpdateCheckpoint(s)
  <2>1. request' = [request EXCEPT ![s] = r] /\ Goto(s, "commit")
    BY <1>2, <1>3, <1>6 DEF UpdateCheckpoint
  <2> QED
    BY <1>4, <1>5, <2>1
<1>7. CASE CollectPage(s)
  <2>1. PICK a, l, over :
          \/ request' = [request EXCEPT ![s].shown = TRUE] /\ Goto(s, "save")
          \/ /\ request' = [request EXCEPT ![s].activity = a, ![s].last = l]
             /\ Goto(s, IF over THEN "backlog" ELSE "collect")
    BY <1>7 DEF CollectPage
  <2>2. CASE request' = [request EXCEPT ![s].shown = TRUE] /\ Goto(s, "save")
    <3> DEFINE q == [r EXCEPT !.shown = TRUE]
    <3>1. request' = [request EXCEPT ![s] = q]
      BY <1>2, <1>3, <2>2
    <3>2. /\ q \in Request(B) /\ q.user = r.user /\ q.created = r.created
          /\ q.saved = r.saved /\ q.boundary = r.boundary
      BY <1>4 DEF Request
    <3> HIDE DEF q
    <3> QED
      BY <1>5, <1>7, <2>2, <3>1, <3>2 DEF CollectPage
  <2>3. CASE /\ request' = [request EXCEPT ![s].activity = a, ![s].last = l]
             /\ Goto(s, IF over THEN "backlog" ELSE "collect")
    <3> DEFINE q == [r EXCEPT !.activity = a, !.last = l]
    <3>1. request' = [request EXCEPT ![s] = q]
      BY <1>2, <1>3, <2>3
    <3>2. /\ q \in Request(B \cup {a, l}) /\ q.user = r.user /\ q.created = r.created
          /\ q.saved = r.saved /\ q.boundary = r.boundary /\ q.shown = r.shown
      BY <1>4 DEF Request
    <3> HIDE DEF q
    <3>3. PICK phase \in {"backlog", "collect"} : Goto(s, phase)
      BY <2>3
    <3> QED
      BY <1>5, <1>7, <3>1, <3>2, <3>3 DEF CollectPage
  <2> QED
    BY <2>1, <2>2, <2>3
<1> QED
  BY <1>6, <1>7

\* The end of a request leaves the locks of the others.
LEMMA EndFacts ==
  ASSUME TypeOK, Requests, NEW s \in Session, Unlock(s), Goto(s, "idle"),
         request' = [request EXCEPT ![s] = NoRequest]
  PROVE  /\ Requests' /\ pc'[s] = "idle" /\ pc' \in [Session -> Phase]
         /\ rowLock' \in [User -> Session \cup {Nobody}]
         /\ \A t \in Session \ {s} : pc'[t] = pc[t] /\ request'[t] = request[t]
         /\ \A t \in Session \ {s}, u \in User : rowLock[u] = t => rowLock'[u] = t
<1>1. NoRequest \in Request({0, NoActivity})
  BY DEF NoRequest, Request
<1>2. Requests' /\ \A t \in Session \ {s} : request'[t] = request[t]
  BY <1>1, RequestsSet
<1> QED
  BY <1>2, GotoType DEF Unlock, TypeOK, Phase

LEMMA AbortStep == ASSUME IInv, NEW s \in Session, Abort(s) PROVE IInv'
<1>1. /\ TypeOK /\ Requests /\ Unlock(s) /\ Goto(s, "idle")
      /\ request' = [request EXCEPT ![s] = NoRequest]
      /\ UNCHANGED <<log, clock, checkpoint, failures, history>>
  BY DEF IInv, Abort
<1>2. /\ Requests' /\ pc'[s] = "idle" /\ TypeOK'
      /\ \A t \in Session \ {s} : pc'[t] = pc[t] /\ request'[t] = request[t]
      /\ \A t \in Session \ {s}, u \in User : rowLock[u] = t => rowLock'[u] = t
  BY <1>1, EndFacts DEF TypeOK
<1>3. SessionOK(s)'
  BY <1>2 DEF SessionOK, Running, Decided
<1> QED
  BY <1>1, <1>2, <1>3, OwnStep

LEMMA CommitStep == ASSUME IInv, NEW s \in Session, Commit(s) PROVE IInv'
<1>1. /\ TypeOK /\ Requests /\ SessionOK(s) /\ pc[s] = "commit" /\ Unlock(s) /\ Goto(s, "idle")
      /\ request' = [request EXCEPT ![s] = NoRequest] /\ UNCHANGED <<log, clock>>
  BY DEF IInv, Commit
<1>2. PICK r, u, c : r = request[s] /\ u = request[s].user /\ c = CheckedIn(request[s])
  OBVIOUS
<1>3. /\ u \in User /\ rowLock[u] = s /\ InTime(r.saved) /\ InTime(r.boundary)
      /\ checkpoint[u] = IF r.created THEN Nobody ELSE r.saved
      /\ r.saved.at <= r.boundary.at /\ r.saved.position <= r.boundary.position
      /\ r.shown => ~ SameCalendarDay(r.saved.at, r.boundary.at)
  BY <1>1, <1>2 DEF SessionOK, Running, Decided
<1>4. c.from = r.saved /\ c.to = r.boundary /\ c.shown = r.shown
  BY <1>2 DEF CheckedIn
<1>5. /\ checkpoint' = [checkpoint EXCEPT ![u] = r.boundary]
      /\ history' = [history EXCEPT ![u] = Append(history[u], c)]
  BY <1>2 DEF Commit
<1>6. /\ checkpoint'[u] = r.boundary /\ history'[u] = Append(history[u], c)
      /\ \A v \in User \ {u} : checkpoint'[v] = checkpoint[v] /\ history'[v] = history[v]
      /\ DOMAIN history' = User
  BY <1>1, <1>3, <1>5 DEF IInv, TypeOK
<1>7. /\ Requests' /\ pc'[s] = "idle"
      /\ \A t \in Session \ {s} : pc'[t] = pc[t] /\ request'[t] = request[t]
      /\ \A t \in Session \ {s}, v \in User : rowLock[v] = t => rowLock'[v] = t
      /\ pc' \in [Session -> Phase] /\ rowLock' \in [User -> Session \cup {Nobody}]
  BY <1>1, EndFacts
<1>8. TypeOK' /\ clock <= clock' /\ Len(log) <= Len(log')
  <2>1. clock \in Nat /\ Len(log) \in Nat /\ r.boundary \in Checkpoint
    BY <1>1, <1>3, NumbersAssumption DEF TypeOK, InTime
  <2>2. checkpoint' \in [User -> Checkpoint \cup {Nobody}]
    BY <1>1, <1>3, <1>5, <2>1 DEF TypeOK
  <2> QED
    BY <1>1, <1>7, <2>1, <2>2 DEF TypeOK
<1>9. UserOK(u)'
  <2>1. PICK S : history[u] \in Seq(S)
    BY <1>3 DEF IInv, UserOK
  <2>2. /\ Chain(history[u]) /\ DaysOK(history[u])
        /\ checkpoint[u] = IF history[u] = <<>> THEN Nobody ELSE history[u][Len(history[u])].to
    BY <1>3 DEF IInv, UserOK
  <2>3. history[u] # <<>> => c.from = history[u][Len(history[u])].to
    <3>1. SUFFICES ASSUME history[u] # <<>> PROVE c.from = history[u][Len(history[u])].to
      OBVIOUS
    <3>2. Len(history[u]) \in DOMAIN history[u]
      BY <2>1, <3>1
    <3>3. history[u][Len(history[u])].to \in Checkpoint
      BY <2>2, <3>2 DEF DaysOK
    <3> QED
      BY <1>3, <1>4, <2>2, <3>1, <3>3, NobodyAssumption
  <2>4. c.from \in Checkpoint /\ c.to \in Checkpoint
    BY <1>3, <1>4 DEF InTime
  <2>5. /\ \E T : Append(history[u], c) \in Seq(T)
        /\ Chain(Append(history[u], c)) /\ DaysOK(Append(history[u], c))
        /\ Append(history[u], c) # <<>>
        /\ Append(history[u], c)[Len(Append(history[u], c))] = c
    BY <1>3, <1>4, <2>1, <2>2, <2>3, <2>4, Longer
  <2>6. InTime(r.boundary)'
    BY <1>1, <1>3 DEF InTime
  <2> QED
    BY <1>4, <1>6, <2>5, <2>6 DEF UserOK
<1>10. ASSUME NEW v \in User PROVE UserOK(v)'
  <2>1. CASE v = u
    BY <1>9, <2>1
  <2>2. CASE v # u
    BY <1>1, <1>6, <1>8, <2>2, UserFrame DEF IInv
  <2> QED
    BY <2>1, <2>2
<1>11. ASSUME NEW t \in Session PROVE SessionOK(t)'
  <2>1. CASE t = s
    BY <1>7, <2>1 DEF SessionOK, Running, Decided
  <2>2. CASE t # s
    <3>1. \A v \in User : rowLock[v] = t => rowLock'[v] = t /\ checkpoint'[v] = checkpoint[v]
      BY <1>3, <1>6, <1>7, <2>2
    <3>2. \A v \in User : checkpoint[v] # Nobody => checkpoint'[v] # Nobody
      BY <1>3, <1>6, NobodyAssumption DEF InTime
    <3> QED
      BY <1>1, <1>7, <1>8, <2>2, <3>1, <3>2, FrameOK DEF IInv
  <2> QED
    BY <2>1, <2>2
<1> QED
  BY <1>6, <1>7, <1>8, <1>10, <1>11 DEF IInv

LEMMA StepInv == IInv /\ [Next]_vars => IInv'
<1> SUFFICES ASSUME IInv, [Next]_vars PROVE IInv'
  OBVIOUS
<1>1. CASE UNCHANGED vars
  <2>1. TypeOK' /\ clock <= clock' /\ Len(log) <= Len(log')
    BY <1>1, NumbersAssumption DEF vars, IInv, TypeOK
  <2>2. \A s \in Session : SessionOK(s)'
    BY <1>1, <2>1, FrameOK DEF vars, IInv
  <2>3. \A u \in User : UserOK(u)'
    BY <1>1, <2>1, UserFrame DEF vars, IInv
  <2> QED
    BY <1>1, <2>1, <2>2, <2>3 DEF vars, IInv, Requests
<1> QED
  BY <1>1, WorldStep, BeginStep, InsertStep, LockStep, BoundaryStep, CollectStep,
     CommitStep, AbortStep DEF Next, Step

-----------------------------------------------------------------------------
(***************************************************************************)
(* The log, the clock, the checkpoints, the row locks and the program      *)
(* counters keep their types.                                              *)
(***************************************************************************)
THEOREM TypeCorrect == Spec => []TypeOK
<1>1. IInv => TypeOK
  BY DEF IInv
<1> QED
  BY <1>1, InitInv, StepInv, PTL DEF Spec

(***************************************************************************)
(* The check-ins of a user cover the log without gap or overlap up to the  *)
(* checkpoint, whatever requests raced, failed or were repeated.           *)
(***************************************************************************)
THEOREM PeriodsChain == Spec => []CheckInsChain
<1>1. IInv => CheckInsChain
  <2>1. ASSUME IInv, NEW u \in User
        PROVE  /\ Chain(history[u])
               /\ checkpoint[u] = IF history[u] = <<>> THEN Nobody
                                  ELSE history[u][Len(history[u])].to
    BY <2>1 DEF IInv, UserOK
  <2> QED
    BY <2>1 DEF CheckInsChain, Chain
<1> QED
  BY <1>1, InitInv, StepInv, PTL DEF Spec

(***************************************************************************)
(* No two check-ins of a user show a summary on one calendar day, and none *)
(* shows one on the day of an earlier check-in.                            *)
(***************************************************************************)
THEOREM OncePerDay == Spec => []OneSummaryPerDay
<1>1. IInv => OneSummaryPerDay
  BY DEF IInv, UserOK, DaysOK, OneSummaryPerDay
<1> QED
  BY <1>1, InitInv, StepInv, PTL DEF Spec

(***************************************************************************)
(* The boundary captured under the row lock is never behind the checkpoint *)
(* read under it: CheckIn never fails with a position regression or a      *)
(* check-in time in the future.                                            *)
(***************************************************************************)
THEOREM NeverBehind == Spec => []NoFalseAlarm
<1>1. IInv => NoFalseAlarm
  BY DEF IInv, SessionOK, NoFalseAlarm
<1> QED
  BY <1>1, InitInv, StepInv, PTL DEF Spec

-----------------------------------------------------------------------------
(* Sets of numbers, and what Total adds up. *)

\* A set of numbers that is not empty has a smallest one.
LEMMA SmallestExists ==
  ASSUME NEW S \in SUBSET Nat, S # {} PROVE \E x \in S : \A y \in S : x <= y
<1> DEFINE R == {ss \in Nat \X Nat : ss[1] < ss[2]}
<1>1. IsWellFoundedOn(R, Nat)
  BY NatLessThanWellFounded DEF OpToRel
<1>2. \A x, y \in Nat : <<y, x>> \notin R => x <= y
  OBVIOUS
<1> HIDE DEF R
<1>3. PICK x \in S : \A y \in S : <<y, x>> \notin R
  BY <1>1, WFMin
<1> QED
  BY <1>2, <1>3

(***************************************************************************)
(* Total adds up.                                                          *)
(***************************************************************************)
Sums(t, v, n) == t = [i \in 0..n |-> IF i = 0 THEN 0 ELSE t[i - 1] + v[i]]

LEMMA TotalChoice ==
  ASSUME NEW v, NEW n PROVE Total(v, n) = (CHOOSE t : Sums(t, v, n))[n]
BY Zenon DEF Total, Sums

LEMMA SumsIs ==
  ASSUME NEW t, NEW v, NEW n, Sums(t, v, n)
  PROVE  \A i \in 0..n : t[i] = IF i = 0 THEN 0 ELSE t[i - 1] + v[i]
BY DEF Sums

LEMMA SumsExist == ASSUME NEW v, NEW n \in Nat PROVE \E t : Sums(t, v, n)
<1> DEFINE D == {k \in Nat : \A t : ~ Sums(t, v, k)}
<1>1. SUFFICES ASSUME D # {} PROVE FALSE
  OBVIOUS
<1>2. PICK k \in D : \A j \in D : k <= j
  <2>1. D \in SUBSET Nat
    OBVIOUS
  <2> HIDE DEF D
  <2> QED
    BY <1>1, <2>1, SmallestExists
<1>3. k \in Nat /\ \A t : ~ Sums(t, v, k)
  BY <1>2
<1>4. k # 0
  <2>1. SUFFICES ASSUME k = 0 PROVE FALSE
    OBVIOUS
  <2>2. PICK t : t = [i \in 0..0 |-> 0]
    OBVIOUS
  <2>3. t = [i \in 0..0 |-> IF i = 0 THEN 0 ELSE t[i - 1] + v[i]]
    BY <2>2
  <2> QED
    BY <1>3, <2>1, <2>3 DEF Sums
<1>5. PICK t : Sums(t, v, k - 1)
  <2>1. k - 1 \in Nat /\ ~ (k <= k - 1)
    BY <1>3, <1>4
  <2> QED
    BY <1>2, <2>1
<1>6. PICK w : w = [i \in 0..k |-> IF i = k THEN t[k - 1] + v[k] ELSE t[i]]
  OBVIOUS
<1>7. ASSUME NEW i \in 0..k PROVE w[i] = IF i = 0 THEN 0 ELSE w[i - 1] + v[i]
  <2>1. CASE i = k
    <3>1. i # 0 /\ i - 1 \in 0..k /\ i - 1 # k /\ w[i] = t[k - 1] + v[k]
      BY <1>3, <1>4, <1>6, <2>1
    <3>2. w[i - 1] = t[i - 1]
      BY <1>6, <3>1
    <3> QED
      BY <2>1, <3>1, <3>2
  <2>2. CASE i # k /\ i # 0
    <3>1. i \in 0..(k - 1) /\ i - 1 \in 0..k /\ i - 1 # k /\ i # k
      BY <1>3, <2>2
    <3>2. w[i - 1] = t[i - 1] /\ w[i] = t[i]
      BY <1>6, <1>7, <3>1
    <3>3. t[i] = t[i - 1] + v[i]
      BY <1>5, <2>2, <3>1, SumsIs
    <3> QED
      BY <2>2, <3>2, <3>3
  <2>3. CASE i = 0
    <3>1. i \in 0..(k - 1) /\ i # k
      BY <1>3, <1>4, <2>3
    <3>2. w[i] = t[i] /\ t[i] = 0
      BY <1>5, <1>6, <1>7, <2>3, <3>1, SumsIs
    <3> QED
      BY <2>3, <3>2
  <2> QED
    BY <2>1, <2>2, <2>3
<1>8. w = [i \in 0..k |-> w[i]]
  BY <1>6
<1>9. Sums(w, v, k)
  BY <1>7, <1>8 DEF Sums
<1> QED
  BY <1>3, <1>9

\* Sums of the same numbers are the same.
LEMMA SumsAgree ==
  ASSUME NEW m \in Nat, NEW n \in Nat, m <= n, NEW t, NEW w, NEW v, NEW x,
         Sums(t, v, m), Sums(w, x, n), \A i \in 1..m : v[i] = x[i]
  PROVE  \A i \in 0..m : t[i] = w[i]
<1> DEFINE D == {i \in 0..m : t[i] # w[i]}
<1>1. SUFFICES ASSUME D # {} PROVE FALSE
  OBVIOUS
<1>2. PICK i \in D : \A j \in D : i <= j
  <2>1. D \in SUBSET Nat
    OBVIOUS
  <2> HIDE DEF D
  <2> QED
    BY <1>1, <2>1, SmallestExists
<1>3. i \in 0..m /\ i \in 0..n /\ t[i] # w[i]
  BY <1>2
<1>4. /\ t[i] = IF i = 0 THEN 0 ELSE t[i - 1] + v[i]
      /\ w[i] = IF i = 0 THEN 0 ELSE w[i - 1] + x[i]
  BY <1>3, SumsIs
<1>5. i # 0
  BY <1>3, <1>4
<1>6. i - 1 \in 0..m /\ ~ (i <= i - 1) /\ i \in 1..m
  BY <1>3, <1>5
<1>7. t[i - 1] = w[i - 1] /\ v[i] = x[i]
  BY <1>2, <1>6
<1> QED
  BY <1>3, <1>4, <1>5, <1>7

LEMMA TotalIs ==
  ASSUME NEW v, NEW n \in Nat, NEW t, Sums(t, v, n)
  PROVE  \A i \in 0..n : Total(v, i) = t[i]
<1> SUFFICES ASSUME NEW i \in 0..n PROVE Total(v, i) = t[i]
  OBVIOUS
<1>1. i \in Nat /\ i <= n /\ i \in 0..i
  OBVIOUS
<1>2. PICK w : w = CHOOSE z : Sums(z, v, i)
  OBVIOUS
<1>3. Sums(w, v, i)
  BY <1>1, <1>2, SumsExist
<1>4. \A j \in 0..i : w[j] = t[j]
  BY <1>1, <1>3, SumsAgree
<1> QED
  BY <1>1, <1>2, <1>4, TotalChoice

\* What Total is, step by step.
LEMMA TotalStep ==
  ASSUME NEW v
  PROVE  /\ Total(v, 0) = 0
         /\ \A n \in Nat \ {0} : Total(v, n) = Total(v, n - 1) + v[n]
<1>1. Total(v, 0) = 0
  <2>1. PICK t : Sums(t, v, 0)
    BY SumsExist
  <2>2. 0 \in 0..0 /\ 0 \in Nat
    OBVIOUS
  <2>3. Total(v, 0) = t[0] /\ t[0] = 0
    BY <2>1, <2>2, TotalIs, SumsIs
  <2> QED
    BY <2>3
<1>2. ASSUME NEW n \in Nat \ {0} PROVE Total(v, n) = Total(v, n - 1) + v[n]
  <2>1. n \in Nat /\ n \in 0..n /\ n - 1 \in 0..n /\ n # 0
    OBVIOUS
  <2>2. PICK t : Sums(t, v, n)
    BY <2>1, SumsExist
  <2>3. Total(v, n) = t[n] /\ Total(v, n - 1) = t[n - 1] /\ t[n] = t[n - 1] + v[n]
    BY <2>1, <2>2, TotalIs, SumsIs
  <2> QED
    BY <2>3
<1> QED
  BY <1>1, <1>2

\* Numbers add up to a number.
LEMMA TotalType ==
  ASSUME NEW v, NEW n \in Nat, \A i \in 1..n : v[i] \in Int
  PROVE  \A k \in 0..n : Total(v, k) \in Int
<1> DEFINE D == {k \in 0..n : Total(v, k) \notin Int}
<1>1. SUFFICES ASSUME D # {} PROVE FALSE
  OBVIOUS
<1>2. PICK k \in D : \A j \in D : k <= j
  <2>1. D \in SUBSET Nat
    OBVIOUS
  <2> HIDE DEF D
  <2> QED
    BY <1>1, <2>1, SmallestExists
<1>3. k \in 0..n /\ Total(v, k) \notin Int
  BY <1>2
<1>4. k # 0
  <2>1. Total(v, 0) = 0
    BY TotalStep
  <2> QED
    BY <1>3, <2>1
<1>5. k - 1 \in 0..n /\ ~ (k <= k - 1) /\ k \in 1..n /\ k \in Nat \ {0}
  BY <1>3, <1>4
<1>6. Total(v, k - 1) \in Int /\ v[k] \in Int
  BY <1>2, <1>5
<1>7. Total(v, k) = Total(v, k - 1) + v[k]
  BY <1>5, TotalStep
<1> QED
  BY <1>3, <1>6, <1>7

\* Nothing but zeros.
LEMMA TotalZero ==
  ASSUME NEW v, NEW n \in Nat, \A i \in 1..n : v[i] = 0
  PROVE  Total(v, n) = 0
<1> DEFINE D == {k \in 0..n : Total(v, k) # 0}
<1>1. SUFFICES ASSUME D # {} PROVE FALSE
  OBVIOUS
<1>2. PICK k \in D : \A j \in D : k <= j
  <2>1. D \in SUBSET Nat
    OBVIOUS
  <2> HIDE DEF D
  <2> QED
    BY <1>1, <2>1, SmallestExists
<1>3. k \in 0..n /\ Total(v, k) # 0
  BY <1>2
<1>4. k # 0
  <2>1. Total(v, 0) = 0
    BY TotalStep
  <2> QED
    BY <1>3, <2>1
<1>5. k - 1 \in 0..n /\ ~ (k <= k - 1) /\ k \in 1..n /\ k \in Nat \ {0}
  BY <1>3, <1>4
<1>6. Total(v, k - 1) = 0 /\ v[k] = 0
  BY <1>2, <1>5
<1>7. Total(v, k) = Total(v, k - 1) + v[k]
  BY <1>5, TotalStep
<1> QED
  BY <1>3, <1>6, <1>7

\* One number more in place of a zero.
LEMMA TotalPlus ==
  ASSUME NEW v, NEW w, NEW n \in Nat, NEW p \in 1..n, NEW d \in Int,
         \A i \in 1..n : v[i] \in Int, v[p] = 0, w[p] = d,
         \A i \in 1..n : i # p => w[i] = v[i]
  PROVE  Total(w, n) = Total(v, n) + d
<1>0. \A i \in 1..n : w[i] \in Int
  OBVIOUS
<1> DEFINE D == {k \in 0..n : Total(w, k) # Total(v, k) + (IF k < p THEN 0 ELSE d)}
<1>1. SUFFICES ASSUME D # {} PROVE FALSE
  <2>1. n \in 0..n /\ ~ (n < p)
    OBVIOUS
  <2> QED
    BY <1>1, <2>1
<1>2. PICK k \in D : \A j \in D : k <= j
  <2>1. D \in SUBSET Nat
    OBVIOUS
  <2> HIDE DEF D
  <2> QED
    BY <1>1, <2>1, SmallestExists
<1>3. k \in 0..n /\ Total(w, k) # Total(v, k) + (IF k < p THEN 0 ELSE d)
  BY <1>2
<1>4. k # 0
  <2>1. Total(v, 0) = 0 /\ Total(w, 0) = 0 /\ 0 < p
    BY TotalStep
  <2> QED
    BY <1>3, <2>1
<1>5. k - 1 \in 0..n /\ ~ (k <= k - 1) /\ k \in 1..n /\ k \in Nat \ {0}
  BY <1>3, <1>4
<1>6. Total(w, k - 1) = Total(v, k - 1) + (IF k - 1 < p THEN 0 ELSE d)
  BY <1>2, <1>5
<1>7. /\ Total(v, k) = Total(v, k - 1) + v[k]
      /\ Total(w, k) = Total(w, k - 1) + w[k]
  BY <1>5, TotalStep
<1>8. Total(v, k - 1) \in Int /\ v[k] \in Int
  BY <1>5, TotalType
<1>9. CASE k = p
  <2>1. k - 1 < p /\ ~ (k < p) /\ v[k] = 0 /\ w[k] = d
    BY <1>5, <1>9
  <2> QED
    BY <1>3, <1>6, <1>7, <1>8, <2>1
<1>10. CASE k # p
  <2>1. (k - 1 < p <=> k < p) /\ w[k] = v[k]
    BY <1>5, <1>10
  <2> QED
    BY <1>3, <1>6, <1>7, <1>8, <2>1
<1> QED
  BY <1>9, <1>10

-----------------------------------------------------------------------------
(* Sums of events. *)

\* The first n events of the log are events.
LogTo(n) == n \in Nat /\ \A q \in 1..n : log[q].body \in Body

Worth(S, n) == [p \in 1..n |-> IF p \in S THEN log[p].body.value ELSE 0]

LEMMA WorthIs ==
  ASSUME NEW n, LogTo(n), NEW S
  PROVE  /\ Sum(S, n) = Total(Worth(S, n), n)
         /\ \A i \in 1..n : /\ Worth(S, n)[i] = IF i \in S THEN log[i].body.value ELSE 0
                            /\ Worth(S, n)[i] \in Int
<1>1. Sum(S, n) = Total(Worth(S, n), n)
  BY Zenon DEF Sum, Worth
<1>2. \A i \in 1..n : Worth(S, n)[i] = IF i \in S THEN log[i].body.value ELSE 0
  BY DEF Worth
<1>3. \A i \in 1..n : log[i].body.value \in Int
  BY NumbersAssumption DEF LogTo, Body
<1> QED
  BY <1>1, <1>2, <1>3

LEMMA SumType == ASSUME NEW n, LogTo(n), NEW S PROVE Sum(S, n) \in Int
<1>1. n \in Nat /\ n \in 0..n
  BY DEF LogTo
<1>2. Total(Worth(S, n), n) \in Int
  BY <1>1, WorthIs, TotalType
<1> QED
  BY <1>2, WorthIs

LEMMA SumOfNone == ASSUME NEW n, LogTo(n) PROVE Sum({}, n) = 0
<1>1. \A i \in 1..n : Worth({}, n)[i] = 0
  BY WorthIs
<1>2. n \in Nat
  BY DEF LogTo
<1> QED
  BY <1>1, <1>2, WorthIs, TotalZero

LEMMA SumPlus ==
  ASSUME NEW n, LogTo(n), NEW S, NEW p \in 1..n, p \notin S
  PROVE  Sum(S \cup {p}, n) = Sum(S, n) + log[p].body.value
<1>0. PICK v, w : v = Worth(S, n) /\ w = Worth(S \cup {p}, n)
  OBVIOUS
<1>1. /\ \A i \in 1..n : v[i] = (IF i \in S THEN log[i].body.value ELSE 0) /\ v[i] \in Int
      /\ \A i \in 1..n : w[i] = IF i \in S \cup {p} THEN log[i].body.value ELSE 0
      /\ Sum(S, n) = Total(v, n) /\ Sum(S \cup {p}, n) = Total(w, n)
  BY <1>0, WorthIs
<1>2. v[p] = 0 /\ w[p] = log[p].body.value /\ log[p].body.value \in Int /\ n \in Nat
  BY <1>1, NumbersAssumption DEF LogTo, Body
<1>3. \A i \in 1..n : i # p => w[i] = v[i]
  BY <1>1
<1>4. Total(w, n) = Total(v, n) + log[p].body.value
  BY <1>1, <1>2, <1>3, TotalPlus
<1> QED
  BY <1>1, <1>4

-----------------------------------------------------------------------------
(* What collectActivity carries from event to event. *)

Reasons == {"UNSUPPORTED_SCHEMA", "INVALID_PAYLOAD"}

\* What collectActivity carries from event to event.
Activity == [experience : Int, coins : Int, best : Int, rewards : Seq(Value),
             skipped : SUBSET [position : Nat, reason : Reasons],
             processed : Nat, over : BOOLEAN]

\* The largest number of a set, when it is known.
LEMMA MaxIs ==
  ASSUME NEW S \in SUBSET Int, NEW x \in S, \A y \in S : y <= x PROVE Max(S) = x
<1>1. \A z \in S : (\A y \in S : y <= z) => z = x
  BY SMT
<1>2. \E z \in S : \A y \in S : z >= y
  OBVIOUS
<1>3. PICK m : m = Max(S)
  OBVIOUS
<1>4. m \in S /\ \A y \in S : m >= y
  BY <1>2, <1>3 DEF Max
<1>5. \A y \in S : y <= m
  BY <1>4
<1> QED
  BY <1>1, <1>3, <1>4, <1>5

\* The best score, without the choice that Max makes.
BestIs(best, scores) ==
  IF scores = {} THEN best = NoScore ELSE best \in scores /\ \A y \in scores : y <= best

LEMMA BestIsMax ==
  ASSUME NEW best, NEW scores \in SUBSET Int
  PROVE  BestIs(best, scores) => best = IF scores = {} THEN NoScore ELSE Max(scores)
BY MaxIs DEF BestIs

LEMMA BestPlus ==
  ASSUME NEW best, NEW scores \in SUBSET Int, \A y \in scores : y >= 0, BestIs(best, scores),
         NEW v \in Int, v >= 0
  PROVE  BestIs(IF best = NoScore \/ v > best THEN v ELSE best, scores \cup {v})
<1>1. CASE scores = {}
  BY <1>1 DEF BestIs
<1>2. CASE scores # {}
  <2>1. best \in scores /\ best \in Int /\ best # NoScore /\ \A y \in scores : y <= best
    <3>1. best \in scores /\ \A y \in scores : y <= best
      BY <1>2 DEF BestIs
    <3>2. best \in Int /\ best >= 0
      BY <3>1
    <3>3. best # NoScore
      BY <3>2 DEF NoScore
    <3> QED
      BY <3>1, <3>2, <3>3
  <2>2. CASE v > best
    <3>1. \A y \in scores \cup {v} : y <= v
      BY <2>1, <2>2
    <3> QED
      BY <2>2, <3>1 DEF BestIs
  <2>3. CASE ~ (v > best)
    <3>1. /\ v <= best
          /\ best = IF best = NoScore \/ v > best THEN v ELSE best
      BY <2>1, <2>3
    <3>2. best \in scores \cup {v} /\ \A y \in scores \cup {v} : y <= best
      BY <2>1, <3>1
    <3>3. scores \cup {v} # {}
      OBVIOUS
    <3> QED
      BY <3>1, <3>2, <3>3 DEF BestIs
  <2> QED
    BY <2>2, <2>3
<1> QED
  BY <1>1, <1>2

Scores(a, seen) == {log[p].body.value : p \in Used(a, seen, GameSessionCompleted)}

LEMMA LenAppended ==
  ASSUME NEW s \in Seq(Value), NEW v \in Value
  PROVE  Append(s, v) \in Seq(Value) /\ Len(Append(s, v)) = Len(s) + 1 /\ Len(s) \in Nat
OBVIOUS

\* Why an event that is not counted is left out.
LeftOut(a, seen, n, p) ==
  IF Bad(log[p].body) THEN p \in Skipped(a)
  ELSE p \in Skipped(a) =>
         /\ log[p].body.type \in {ExperienceGranted, CoinsGranted}
         /\ Sum({q \in Used(a, seen, log[p].body.type) : q < p}, n)
              + log[p].body.value > MaxInt

Rewards(a) == Len(a.rewards)

\* Exact in these words.
LEMMA ExactIs ==
  ASSUME NEW a, NEW seen, NEW n
  PROVE  Exact(a, seen, n) <=>
           /\ a.experience = Sum(Used(a, seen, ExperienceGranted), n)
           /\ a.coins = Sum(Used(a, seen, CoinsGranted), n)
           /\ a.best = IF Used(a, seen, GameSessionCompleted) = {} THEN NoScore
                       ELSE Max(Scores(a, seen))
           /\ Rewards(a) = Cardinality(Used(a, seen, RewardGranted))
           /\ Skipped(a) \subseteq seen
           /\ \A p \in seen : LeftOut(a, seen, n, p)
BY Zenon DEF Exact, Scores, Rewards, LeftOut

\* Exact as the invariant needs it.
Right(a, seen, n) ==
  /\ a \in Activity
  /\ a.experience = Sum(Used(a, seen, ExperienceGranted), n)
  /\ a.coins = Sum(Used(a, seen, CoinsGranted), n)
  /\ BestIs(a.best, Scores(a, seen))
  /\ Rewards(a) = Cardinality(Used(a, seen, RewardGranted))
  /\ Skipped(a) \subseteq seen
  /\ \A p \in seen : LeftOut(a, seen, n, p)

\* Positions of a range of the log.
Within(seen, n) == LogTo(n) /\ seen \subseteq 1..n

LEMMA UsedIs ==
  ASSUME NEW a, NEW seen, NEW n, Within(seen, n), NEW type
  PROVE  /\ Used(a, seen, type) \subseteq 1..n
         /\ \A p : p \in Used(a, seen, type) <=>
                     p \in seen /\ p \notin Skipped(a) /\ log[p].body.type = type
         /\ IsFiniteSet(Used(a, seen, type)) /\ Cardinality(Used(a, seen, type)) \in Nat
<1>1. Used(a, seen, type) \subseteq 1..n
  BY DEF Used, Within
<1>2. IsFiniteSet(1..n)
  BY FS_Interval DEF Within, LogTo
<1>3. IsFiniteSet(Used(a, seen, type))
  BY <1>1, <1>2, FS_Subset
<1> QED
  BY <1>1, <1>3, FS_CardinalityType DEF Used

LEMMA ScoresOK ==
  ASSUME NEW a, NEW seen, NEW n, Within(seen, n),
         \A p \in seen : LeftOut(a, seen, n, p)
  PROVE  /\ Scores(a, seen) \subseteq Int /\ \A y \in Scores(a, seen) : y >= 0
         /\ Scores(a, seen) = {} <=> Used(a, seen, GameSessionCompleted) = {}
<1>1. ASSUME NEW p \in Used(a, seen, GameSessionCompleted)
      PROVE  log[p].body.value \in Int /\ log[p].body.value >= 0
  <2>1. p \in 1..n /\ p \in seen /\ p \notin Skipped(a) /\ log[p].body.type = GameSessionCompleted
    BY UsedIs
  <2>2. log[p].body.value \in Int
    BY <2>1, NumbersAssumption DEF Within, LogTo, Body
  <2>3. ~ Bad(log[p].body)
    BY <2>1 DEF LeftOut
  <2>4. ~ (log[p].body.value < 0)
    BY <2>1, <2>3 DEF Bad, GameSessionCompleted, RewardGranted
  <2> QED
    BY <2>2, <2>4
<1> QED
  BY <1>1 DEF Scores

LEMMA RightIsExact ==
  ASSUME NEW a, NEW seen, NEW n, Within(seen, n), Right(a, seen, n)
  PROVE  Exact(a, seen, n)
<1>1. a.best = IF Scores(a, seen) = {} THEN NoScore ELSE Max(Scores(a, seen))
  BY ScoresOK, BestIsMax DEF Right
<1>2. Scores(a, seen) = {} <=> Used(a, seen, GameSessionCompleted) = {}
  BY ScoresOK DEF Right
<1> QED
  BY <1>1, <1>2, ExactIs DEF Right

-----------------------------------------------------------------------------
(* One more event. *)

\* It is left out.
LEMMA SkipStep ==
  ASSUME NEW a, NEW seen, NEW n, Within(seen, n), Right(a, seen, n),
         NEW p \in 1..n, \A q \in seen : q < p, NEW c \in Activity,
         c.experience = a.experience, c.coins = a.coins, c.best = a.best,
         c.rewards = a.rewards, Skipped(c) = Skipped(a) \cup {p},
         \/ Bad(log[p].body)
         \/ /\ log[p].body.type \in {ExperienceGranted, CoinsGranted}
            /\ Sum(Used(a, seen, log[p].body.type), n) + log[p].body.value > MaxInt
  PROVE  Right(c, seen \cup {p}, n)
<1>0. p \notin seen
  <2>1. ~ (p < p)
    OBVIOUS
  <2> QED
    BY <2>1
<1>1. \A type : Used(c, seen \cup {p}, type) = Used(a, seen, type)
  BY <1>0 DEF Used
<1>2. Scores(c, seen \cup {p}) = Scores(a, seen)
  BY <1>1 DEF Scores
<1>3. Skipped(c) \subseteq seen \cup {p}
  BY DEF Right
<1>4. ASSUME NEW q \in seen PROVE LeftOut(c, seen \cup {p}, n, q)
  <2>1. LeftOut(a, seen, n, q) /\ q # p
    BY <1>0 DEF Right
  <2>2. Used(c, seen \cup {p}, log[q].body.type) = Used(a, seen, log[q].body.type)
    BY <1>1
  <2>3. q \in Skipped(c) <=> q \in Skipped(a)
    BY <2>1
  <2> QED
    BY Zenon, <2>1, <2>2, <2>3 DEF LeftOut
<1>5. LeftOut(c, seen \cup {p}, n, p)
  <2>1. Used(c, seen \cup {p}, log[p].body.type) = Used(a, seen, log[p].body.type)
    BY <1>1
  <2>2. {q \in Used(a, seen, log[p].body.type) : q < p} = Used(a, seen, log[p].body.type)
    <3>1. PICK type : type = log[p].body.type
      OBVIOUS
    <3>2. \A q \in Used(a, seen, type) : q \in seen
      BY DEF Used
    <3>3. \A q \in Used(a, seen, type) : q < p
      BY <3>2
    <3> QED
      BY <3>1, <3>3
  <2>3. p \in Skipped(c)
    OBVIOUS
  <2> QED
    BY <2>1, <2>2, <2>3 DEF LeftOut
<1>6. Rewards(c) = Rewards(a)
  BY DEF Rewards
<1> QED
  BY <1>1, <1>2, <1>3, <1>4, <1>5, <1>6 DEF Right

\* It counts: each field grows by what it is worth there.
LEMMA CountStep ==
  ASSUME NEW a, NEW seen, NEW n, Within(seen, n), Right(a, seen, n),
         NEW p \in 1..n, \A q \in seen : q < p, NEW c \in Activity,
         NEW type, log[p].body.type = type,
         c.experience = a.experience + (IF type = ExperienceGranted THEN log[p].body.value ELSE 0),
         c.coins = a.coins + (IF type = CoinsGranted THEN log[p].body.value ELSE 0),
         c.best = IF type # GameSessionCompleted THEN a.best
                  ELSE IF a.best = NoScore \/ log[p].body.value > a.best THEN log[p].body.value
                  ELSE a.best,
         Rewards(c) = Rewards(a) + (IF type = RewardGranted THEN 1 ELSE 0),
         c.skipped = a.skipped, ~ Bad(log[p].body)
  PROVE  Right(c, seen \cup {p}, n)
<1>0. p \notin seen
  <2>1. ~ (p < p)
    OBVIOUS
  <2> QED
    BY <2>1
<1>1. Skipped(c) = Skipped(a) /\ Skipped(a) \subseteq seen /\ p \notin Skipped(c)
  BY <1>0 DEF Skipped, Right
<1>2. \A t : Used(c, seen \cup {p}, t) = IF t = type THEN Used(a, seen, t) \cup {p}
                                         ELSE Used(a, seen, t)
  BY <1>1 DEF Used
<1>3. \A t : p \notin Used(a, seen, t)
  BY <1>0 DEF Used
<1>4. LogTo(n) /\ log[p].body.value \in Int
  BY NumbersAssumption DEF Within, LogTo, Body
<1>5. \A t : Sum(Used(c, seen \cup {p}, t), n)
               = Sum(Used(a, seen, t), n) + (IF t = type THEN log[p].body.value ELSE 0)
  <2> SUFFICES ASSUME NEW t
               PROVE  Sum(Used(c, seen \cup {p}, t), n)
                        = Sum(Used(a, seen, t), n) + (IF t = type THEN log[p].body.value ELSE 0)
    OBVIOUS
  <2>1. CASE t = type
    <3>1. Sum(Used(a, seen, t) \cup {p}, n) = Sum(Used(a, seen, t), n) + log[p].body.value
      BY <1>3, <1>4, SumPlus
    <3> QED
      BY <1>2, <2>1, <3>1
  <2>2. CASE t # type
    <3>1. Sum(Used(a, seen, t), n) \in Int
      BY <1>4, SumType
    <3>2. Used(c, seen \cup {p}, t) = Used(a, seen, t)
      BY <1>2, <2>2
    <3> QED
      BY <2>2, <3>1, <3>2
  <2> QED
    BY <2>1, <2>2
<1>6. BestIs(c.best, Scores(c, seen \cup {p}))
  <2>1. /\ Scores(a, seen) \subseteq Int /\ \A y \in Scores(a, seen) : y >= 0
        /\ BestIs(a.best, Scores(a, seen))
    BY ScoresOK DEF Right
  <2>2. CASE type = GameSessionCompleted
    <3>1. log[p].body.value >= 0
      BY <1>4, <2>2 DEF Bad, GameSessionCompleted, RewardGranted
    <3>2. Scores(c, seen \cup {p}) = Scores(a, seen) \cup {log[p].body.value}
      BY <1>2, <2>2 DEF Scores
    <3>3. PICK v, best, scores : v = log[p].body.value /\ best = a.best /\ scores = Scores(a, seen)
      OBVIOUS
    <3>4. BestIs(IF best = NoScore \/ v > best THEN v ELSE best, scores \cup {v})
      BY <1>4, <2>1, <3>1, <3>3, BestPlus
    <3>5. c.best = IF best = NoScore \/ v > best THEN v ELSE best
      BY <2>2, <3>3
    <3> QED
      BY <3>2, <3>3, <3>4, <3>5
  <2>3. CASE type # GameSessionCompleted
    <3>1. Scores(c, seen \cup {p}) = Scores(a, seen)
      BY <1>2, <2>3 DEF Scores
    <3> QED
      BY <2>1, <2>3, <3>1
  <2> QED
    BY <2>2, <2>3
<1>7. Rewards(c) = Cardinality(Used(c, seen \cup {p}, RewardGranted))
  <2>1. /\ IsFiniteSet(Used(a, seen, RewardGranted))
        /\ Cardinality(Used(a, seen, RewardGranted)) \in Nat
        /\ Rewards(a) = Cardinality(Used(a, seen, RewardGranted))
    BY UsedIs DEF Right
  <2>2. CASE type = RewardGranted
    <3>1. Used(c, seen \cup {p}, RewardGranted) = Used(a, seen, RewardGranted) \cup {p}
      BY <1>2, <2>2
    <3> QED
      BY <1>3, <2>1, <2>2, <3>1, FS_AddElement
  <2>3. CASE type # RewardGranted
    <3>1. Used(c, seen \cup {p}, RewardGranted) = Used(a, seen, RewardGranted)
      BY <1>2, <2>3
    <3> QED
      BY <2>1, <2>3, <3>1
  <2> QED
    BY <2>2, <2>3
<1>8. ASSUME NEW q \in seen PROVE LeftOut(c, seen \cup {p}, n, q)
  <2>1. LeftOut(a, seen, n, q) /\ q < p /\ q \in 1..n
    BY DEF Right, Within
  <2>2. {r \in Used(c, seen \cup {p}, log[q].body.type) : r < q}
          = {r \in Used(a, seen, log[q].body.type) : r < q}
    <3>1. ~ (p < q)
      BY <2>1
    <3> QED
      BY <1>2, <3>1
  <2> QED
    BY <1>1, <2>1, <2>2 DEF LeftOut
<1>9. LeftOut(c, seen \cup {p}, n, p)
  BY <1>1 DEF LeftOut
<1>10. /\ c.experience = Sum(Used(c, seen \cup {p}, ExperienceGranted), n)
       /\ c.coins = Sum(Used(c, seen \cup {p}, CoinsGranted), n)
  <2>1. /\ a.experience = Sum(Used(a, seen, ExperienceGranted), n)
        /\ a.coins = Sum(Used(a, seen, CoinsGranted), n)
    BY DEF Right
  <2> QED
    BY <1>5, <2>1
<1>11. Skipped(c) \subseteq seen \cup {p}
  BY <1>1
<1> QED
  BY <1>6, <1>7, <1>8, <1>9, <1>10, <1>11 DEF Right

\* What collectActivity has after some events, unless it gave up.
Good(a, seen, n) == a \in Activity /\ (a.over \/ Right(a, seen, n))

LEMMA SkipIs ==
  ASSUME NEW a \in Activity, NEW p \in Nat, NEW reason \in Reasons
  PROVE  /\ Skip(a, p, reason) \in Activity
         /\ Skip(a, p, reason).experience = a.experience
         /\ Skip(a, p, reason).coins = a.coins /\ Skip(a, p, reason).best = a.best
         /\ Skip(a, p, reason).rewards = a.rewards
         /\ Skipped(Skip(a, p, reason)) = Skipped(a) \cup {p}
<1>1. PICK f : f = [position |-> p, reason |-> reason]
  OBVIOUS
<1>2. f \in [position : Nat, reason : Reasons] /\ f.position = p
  BY <1>1
<1>3. PICK c : c = [a EXCEPT !.skipped = a.skipped \cup {f}]
  OBVIOUS
<1>4. c = Skip(a, p, reason)
  BY <1>1, <1>3 DEF Skip, Activity
<1>5. /\ c \in Activity /\ c.experience = a.experience /\ c.coins = a.coins /\ c.best = a.best
      /\ c.rewards = a.rewards /\ c.skipped = a.skipped \cup {f}
  BY <1>2, <1>3 DEF Activity
<1>6. Skipped(c) = Skipped(a) \cup {p}
  BY <1>2, <1>5 DEF Skipped
<1> QED
  BY <1>4, <1>5, <1>6

\* The position of an event and what the event is.
LEMMA BodyIs ==
  ASSUME NEW n, LogTo(n), NEW p \in 1..n
  PROVE  /\ p \in Nat /\ log[p].body \in Body
         /\ log[p].body.value \in Value /\ log[p].body.value \in Int
         /\ MaxInt \in Int
<1>1. p \in Nat /\ log[p].body \in Body
  BY DEF LogTo
<1>2. log[p].body.value \in Value
  BY <1>1 DEF Body
<1>3. Value \subseteq Int /\ MaxInt \in Int
  BY NumbersAssumption
<1> QED
  BY <1>1, <1>2, <1>3

\* The four ways in which an event counts.
Counts(a, c, b) ==
  \/ /\ b.type = ExperienceGranted /\ c.experience = a.experience + b.value
     /\ c.coins = a.coins /\ c.best = a.best /\ c.rewards = a.rewards
  \/ /\ b.type = CoinsGranted /\ c.coins = a.coins + b.value
     /\ c.experience = a.experience /\ c.best = a.best /\ c.rewards = a.rewards
  \/ /\ b.type = GameSessionCompleted
     /\ c.best = IF a.best = NoScore \/ b.value > a.best THEN b.value ELSE a.best
     /\ c.experience = a.experience /\ c.coins = a.coins /\ c.rewards = a.rewards
  \/ /\ b.type = RewardGranted /\ Rewards(c) = Rewards(a) + 1
     /\ c.experience = a.experience /\ c.coins = a.coins /\ c.best = a.best

LEMMA Counted ==
  ASSUME NEW a, NEW seen, NEW n, Within(seen, n), Right(a, seen, n),
         NEW p \in 1..n, \A q \in seen : q < p, ~ Bad(log[p].body),
         NEW c \in Activity, c.skipped = a.skipped,
         Counts(a, c, log[p].body)
  PROVE  Right(c, seen \cup {p}, n)
<1>1. PICK type, v : type = log[p].body.type /\ v = log[p].body.value
  OBVIOUS
<1>2. a.experience \in Int /\ a.coins \in Int /\ v \in Int
  BY <1>1, BodyIs DEF Activity, Right, Within
<1>3. Rewards(a) \in Nat
  BY LenAppended DEF Right, Activity, Rewards
<1>4. /\ c.experience = a.experience + (IF type = ExperienceGranted THEN v ELSE 0)
      /\ c.coins = a.coins + (IF type = CoinsGranted THEN v ELSE 0)
      /\ c.best = IF type # GameSessionCompleted THEN a.best
                  ELSE IF a.best = NoScore \/ v > a.best THEN v ELSE a.best
  BY <1>1, <1>2 DEF Counts, ExperienceGranted, CoinsGranted, GameSessionCompleted, RewardGranted
<1>5. Rewards(c) = Rewards(a) + (IF type = RewardGranted THEN 1 ELSE 0)
  <2>1. CASE type = RewardGranted
    BY <1>1, <2>1 DEF Counts, ExperienceGranted, CoinsGranted, GameSessionCompleted, RewardGranted
  <2>2. CASE type # RewardGranted
    <3>1. c.rewards = a.rewards
      BY <1>1, <2>2 DEF Counts
    <3>2. Rewards(c) = Rewards(a)
      BY <3>1 DEF Rewards
    <3> QED
      BY <1>3, <2>2, <3>2
  <2> QED
    BY <2>1, <2>2
<1> QED
  BY <1>1, <1>4, <1>5, CountStep

\* The part of applyEvent after its checks.
Counting(a, b, p) ==
  CASE b.type = ExperienceGranted ->
         IF Overflows(a.experience, b.value) THEN Skip(a, p, "INVALID_PAYLOAD")
         ELSE [a EXCEPT !.experience = @ + b.value]
    [] b.type = CoinsGranted ->
         IF Overflows(a.coins, b.value) THEN Skip(a, p, "INVALID_PAYLOAD")
         ELSE [a EXCEPT !.coins = @ + b.value]
    [] b.type = GameSessionCompleted ->
         [a EXCEPT !.best = IF @ = NoScore \/ b.value > @ THEN b.value ELSE @]
    [] b.type = RewardGranted -> [a EXCEPT !.rewards = Append(@, b.value)]

LEMMA ApplyIs ==
  ASSUME NEW a, NEW b, NEW p
  PROVE  /\ b.schema # 1 => ApplyEvent(a, b, p) = Skip(a, p, "UNSUPPORTED_SCHEMA")
         /\ b.schema = 1 /\ ~ PayloadOK(b) => ApplyEvent(a, b, p) = Skip(a, p, "INVALID_PAYLOAD")
         /\ b.schema = 1 /\ PayloadOK(b) => ApplyEvent(a, b, p) = Counting(a, b, p)
<1>1. ApplyEvent(a, b, p) =
        CASE b.schema # 1 -> Skip(a, p, "UNSUPPORTED_SCHEMA")
          [] b.schema = 1 /\ ~ PayloadOK(b) -> Skip(a, p, "INVALID_PAYLOAD")
          [] OTHER -> Counting(a, b, p)
  BY Zenon DEF ApplyEvent, Counting
<1> QED
  BY <1>1

LEMMA ApplyStep ==
  ASSUME NEW a, NEW seen, NEW n, Within(seen, n), Right(a, seen, n),
         NEW p \in 1..n, \A q \in seen : q < p, log[p].body.type \in SummaryTypes
  PROVE  Right(ApplyEvent(a, log[p].body, p), seen \cup {p}, n)
<1>1. PICK b, c : b = log[p].body /\ c = ApplyEvent(a, b, p)
  OBVIOUS
<1>2. /\ p \in Nat /\ b \in Body /\ b.value \in Value /\ b.value \in Int /\ MaxInt \in Int
      /\ b.type \in SummaryTypes /\ a \in Activity
  BY <1>1, BodyIs DEF Within, Right
<1>3. SUFFICES Right(c, seen \cup {p}, n)
  BY <1>1
<1>4. Bad(b) <=> b.schema # 1 \/ ~ PayloadOK(b)
  BY <1>2 DEF Bad, PayloadOK, SummaryTypes, ExperienceGranted, CoinsGranted,
              GameSessionCompleted, RewardGranted
<1>5. ASSUME \/ c = Skip(a, p, "UNSUPPORTED_SCHEMA") \/ c = Skip(a, p, "INVALID_PAYLOAD"),
             \/ Bad(b)
             \/ /\ b.type \in {ExperienceGranted, CoinsGranted}
                /\ Sum(Used(a, seen, b.type), n) + b.value > MaxInt
      PROVE  Right(c, seen \cup {p}, n)
  <2>1. /\ c \in Activity /\ c.experience = a.experience /\ c.coins = a.coins
        /\ c.best = a.best /\ c.rewards = a.rewards /\ Skipped(c) = Skipped(a) \cup {p}
    <3>1. PICK reason \in Reasons : c = Skip(a, p, reason)
      BY <1>5 DEF Reasons
    <3> QED
      BY <1>2, <3>1, SkipIs
  <2> QED
    BY <1>1, <1>5, <2>1, SkipStep
<1>6. CASE b.schema # 1
  <2>1. c = Skip(a, p, "UNSUPPORTED_SCHEMA")
    BY <1>1, <1>6, ApplyIs
  <2> QED
    BY <1>4, <1>5, <1>6, <2>1
<1>7. CASE b.schema = 1 /\ ~ PayloadOK(b)
  <2>1. c = Skip(a, p, "INVALID_PAYLOAD")
    BY <1>1, <1>7, ApplyIs
  <2> QED
    BY <1>4, <1>5, <1>7, <2>1
<1>8. CASE b.schema = 1 /\ PayloadOK(b)
  <2>0. ~ Bad(b)
    BY <1>4, <1>8
  <2>1. /\ b.type = ExperienceGranted =>
             c = IF Overflows(a.experience, b.value) THEN Skip(a, p, "INVALID_PAYLOAD")
                 ELSE [a EXCEPT !.experience = @ + b.value]
        /\ b.type = CoinsGranted =>
             c = IF Overflows(a.coins, b.value) THEN Skip(a, p, "INVALID_PAYLOAD")
                 ELSE [a EXCEPT !.coins = @ + b.value]
        /\ b.type = GameSessionCompleted =>
             c = [a EXCEPT !.best = IF @ = NoScore \/ b.value > @ THEN b.value ELSE @]
        /\ b.type = RewardGranted => c = [a EXCEPT !.rewards = Append(@, b.value)]
    <3>1. c = Counting(a, b, p)
      BY <1>1, <1>8, ApplyIs
    <3>2. CASE b.type = ExperienceGranted
      BY <3>1, <3>2 DEF Counting, ExperienceGranted, CoinsGranted, GameSessionCompleted, RewardGranted
    <3>3. CASE b.type = CoinsGranted
      BY <3>1, <3>3 DEF Counting, ExperienceGranted, CoinsGranted, GameSessionCompleted, RewardGranted
    <3>4. CASE b.type = GameSessionCompleted
      BY <3>1, <3>4 DEF Counting, ExperienceGranted, CoinsGranted, GameSessionCompleted, RewardGranted
    <3>5. CASE b.type = RewardGranted
      BY <3>1, <3>5 DEF Counting, ExperienceGranted, CoinsGranted, GameSessionCompleted, RewardGranted
    <3> QED
      BY <3>2, <3>3, <3>4, <3>5
  <2>2. /\ a.experience \in Int /\ a.coins \in Int
        /\ a.experience = Sum(Used(a, seen, ExperienceGranted), n)
        /\ a.coins = Sum(Used(a, seen, CoinsGranted), n)
    BY <1>2 DEF Activity, Right
  <2>3. CASE b.type = ExperienceGranted
    <3>1. CASE Overflows(a.experience, b.value)
      <4>1. Sum(Used(a, seen, b.type), n) + b.value > MaxInt
        BY <1>2, <2>2, <2>3, <3>1 DEF Overflows
      <4> QED
        BY <1>5, <2>1, <2>3, <3>1, <4>1
    <3>2. CASE ~ Overflows(a.experience, b.value)
      <4>1. c = [a EXCEPT !.experience = a.experience + b.value]
        BY <1>2, <2>1, <2>3, <3>2 DEF Activity
      <4>2. /\ c \in Activity /\ c.experience = a.experience + b.value
            /\ c.coins = a.coins /\ c.best = a.best /\ c.rewards = a.rewards
            /\ c.skipped = a.skipped
        <5>1. PICK v \in Int : v = a.experience + b.value
          BY <1>2, <2>2
        <5>2. c = [a EXCEPT !.experience = v]
          BY <4>1, <5>1
        <5> QED
          BY <1>2, <5>1, <5>2 DEF Activity
      <4> QED
        BY <1>1, <1>2, <2>0, <2>2, <2>3, <4>2, Counted
           DEF Counts
    <3> QED
      BY <3>1, <3>2
  <2>4. CASE b.type = CoinsGranted
    <3>1. CASE Overflows(a.coins, b.value)
      <4>1. Sum(Used(a, seen, b.type), n) + b.value > MaxInt
        BY <1>2, <2>2, <2>4, <3>1 DEF Overflows
      <4> QED
        BY <1>5, <2>1, <2>4, <3>1, <4>1
    <3>2. CASE ~ Overflows(a.coins, b.value)
      <4>1. c = [a EXCEPT !.coins = a.coins + b.value]
        BY <1>2, <2>1, <2>4, <3>2 DEF Activity
      <4>2. /\ c \in Activity /\ c.coins = a.coins + b.value
            /\ c.experience = a.experience /\ c.best = a.best /\ c.rewards = a.rewards
            /\ c.skipped = a.skipped
        <5>1. PICK v \in Int : v = a.coins + b.value
          BY <1>2, <2>2
        <5>2. c = [a EXCEPT !.coins = v]
          BY <4>1, <5>1
        <5> QED
          BY <1>2, <5>1, <5>2 DEF Activity
      <4> QED
        BY <1>1, <1>2, <2>0, <2>2, <2>4, <4>2, Counted
           DEF Counts
    <3> QED
      BY <3>1, <3>2
  <2>5. CASE b.type = GameSessionCompleted
    <3>0. PICK best : best = IF a.best = NoScore \/ b.value > a.best THEN b.value ELSE a.best
      OBVIOUS
    <3>1. c = [a EXCEPT !.best = best] /\ best \in Int
      BY <1>2, <2>1, <2>5, <3>0 DEF Activity
    <3>2. /\ c \in Activity /\ c.best = best /\ c.experience = a.experience
          /\ c.coins = a.coins /\ c.rewards = a.rewards /\ c.skipped = a.skipped
      BY <1>2, <3>1 DEF Activity
    <3> QED
      BY <1>1, <1>2, <2>0, <2>2, <2>5, <3>0, <3>2, Counted
         DEF Counts
  <2>6. CASE b.type = RewardGranted
    <3>0. PICK rewards : rewards = Append(a.rewards, b.value)
      OBVIOUS
    <3>1. /\ rewards \in Seq(Value) /\ Len(rewards) = Len(a.rewards) + 1
          /\ Len(a.rewards) \in Nat
      BY <1>2, <3>0, LenAppended DEF Activity
    <3>2. c = [a EXCEPT !.rewards = rewards]
      BY <1>2, <2>1, <2>6, <3>0 DEF Activity
    <3>3. /\ c \in Activity /\ c.best = a.best /\ c.experience = a.experience
          /\ c.coins = a.coins /\ c.rewards = rewards /\ c.skipped = a.skipped
      BY <1>2, <3>1, <3>2 DEF Activity
    <3>4. Rewards(c) = Rewards(a) + 1
      BY <3>1, <3>3 DEF Rewards
    <3> QED
      BY <1>1, <1>2, <2>0, <2>2, <2>6, <3>3, <3>4, Counted
         DEF Counts
  <2> QED
    BY <1>2, <2>3, <2>4, <2>5, <2>6 DEF SummaryTypes
<1> QED
  BY <1>6, <1>7, <1>8

\* The fields that Right looks at.
SameSums(a, c) ==
  /\ c.experience = a.experience /\ c.coins = a.coins /\ c.best = a.best
  /\ c.rewards = a.rewards /\ c.skipped = a.skipped

LEMMA ProcessedIs ==
  ASSUME NEW a, NEW seen, NEW n, Right(a, seen, n), NEW c \in Activity, SameSums(a, c)
  PROVE  Right(c, seen, n)
<1>1. /\ c.experience = a.experience /\ c.coins = a.coins /\ c.best = a.best
      /\ c.rewards = a.rewards /\ c.skipped = a.skipped
  BY DEF SameSums
<1>2. Skipped(c) = Skipped(a) /\ Rewards(c) = Rewards(a)
  BY <1>1 DEF Skipped, Rewards
<1>3. \A t : Used(c, seen, t) = Used(a, seen, t)
  BY <1>2 DEF Used
<1>4. Scores(c, seen) = Scores(a, seen)
  BY <1>3 DEF Scores
<1>5. \A p \in seen : LeftOut(c, seen, n, p) <=> LeftOut(a, seen, n, p)
  BY Zenon, <1>2, <1>3 DEF LeftOut
<1> QED
  BY <1>1, <1>2, <1>3, <1>4, <1>5 DEF Right

\* Applying an event leaves the rest of the activity alone.
LEMMA ApplyKeeps ==
  ASSUME NEW a \in Activity, NEW b, b.type \in SummaryTypes, NEW p
  PROVE  ApplyEvent(a, b, p).processed = a.processed /\ ApplyEvent(a, b, p).over = a.over
<1>1. \A reason : Skip(a, p, reason).processed = a.processed /\ Skip(a, p, reason).over = a.over
  BY DEF Skip, Activity
<1>2. Counting(a, b, p).processed = a.processed /\ Counting(a, b, p).over = a.over
  <2>1. CASE b.type = ExperienceGranted
    BY <1>1, <2>1 DEF Counting, Activity, ExperienceGranted, CoinsGranted, GameSessionCompleted, RewardGranted
  <2>2. CASE b.type = CoinsGranted
    BY <1>1, <2>2 DEF Counting, Activity, ExperienceGranted, CoinsGranted, GameSessionCompleted, RewardGranted
  <2>3. CASE b.type = GameSessionCompleted
    BY <1>1, <2>3 DEF Counting, Activity, ExperienceGranted, CoinsGranted, GameSessionCompleted, RewardGranted
  <2>4. CASE b.type = RewardGranted
    BY <1>1, <2>4 DEF Counting, Activity, ExperienceGranted, CoinsGranted, GameSessionCompleted, RewardGranted
  <2> QED
    BY <2>1, <2>2, <2>3, <2>4 DEF SummaryTypes
<1>3. CASE b.schema # 1
  BY <1>1, <1>3, ApplyIs
<1>4. CASE b.schema = 1 /\ ~ PayloadOK(b)
  BY <1>1, <1>4, ApplyIs
<1>5. CASE b.schema = 1 /\ PayloadOK(b)
  BY <1>2, <1>5, ApplyIs
<1> QED
  BY <1>3, <1>4, <1>5

\* One iteration of the loop over a page.
LEMMA ProcessStep ==
  ASSUME NEW a, NEW seen, NEW n, Within(seen, n), Good(a, seen, n),
         NEW p \in 1..n, \A q \in seen : q < p, log[p].body.type \in SummaryTypes
  PROVE  Good(ProcessEvent(a, p), seen \cup {p}, n)
<1>1. a \in Activity /\ a.over \in BOOLEAN /\ a.processed \in Nat
  BY DEF Good, Activity
<1>2. CASE a.over \/ a.processed >= MaxBacklog
  <2>1. PICK c : c = [a EXCEPT !.over = TRUE]
    OBVIOUS
  <2>2. c = ProcessEvent(a, p)
    BY <1>2, <2>1 DEF ProcessEvent
  <2>3. c \in Activity /\ c.over
    BY <1>1, <2>1 DEF Activity
  <2> QED
    BY <2>2, <2>3 DEF Good
<1>3. CASE ~ (a.over \/ a.processed >= MaxBacklog)
  <2>1. PICK b, c, d : b = log[p].body /\ c = ApplyEvent(a, log[p].body, p) /\ d = ProcessEvent(a, p)
    OBVIOUS
  <2>2. d = [c EXCEPT !.processed = c.processed + 1]
    BY <1>3, <2>1 DEF ProcessEvent
  <2>3. Right(a, seen, n)
    BY <1>3 DEF Good
  <2>4. Right(c, seen \cup {p}, n)
    BY <2>1, <2>3, ApplyStep
  <2>9. c \in Activity
    BY <2>4 DEF Right
  <2>5. c.processed = a.processed /\ c.over = a.over
    BY <1>1, <2>1, ApplyKeeps
  <2>6. PICK k \in Nat : k = c.processed + 1
    BY <1>1, <2>5
  <2>7. d = [c EXCEPT !.processed = k]
    BY <2>2, <2>6
  <2>8. d \in Activity /\ SameSums(c, d)
    BY <2>6, <2>7, <2>9 DEF Activity, SameSums
  <2>10. Right(d, seen \cup {p}, n)
    BY <2>4, <2>8, ProcessedIs
  <2> QED
    BY <2>1, <2>8, <2>10 DEF Good
<1> QED
  BY <1>2, <1>3

-----------------------------------------------------------------------------
(* The loop over a page. *)

After(f, a, page, p) ==
  IF p = 0 THEN a ELSE IF p \in page THEN ProcessEvent(f[p - 1], p) ELSE f[p - 1]

Walks(f, a, page, n) == f = [p \in 0..n |-> After(f, a, page, p)]

LEMMA WalkChoice ==
  ASSUME NEW a, NEW page, NEW n
  PROVE  ProcessPage(a, page, n) = (CHOOSE f : Walks(f, a, page, n))[n]
BY Zenon DEF ProcessPage, Walks, After

LEMMA WalkIs ==
  ASSUME NEW f, NEW a, NEW page, NEW n, Walks(f, a, page, n)
  PROVE  \A p \in 0..n : f[p] = After(f, a, page, p)
BY DEF Walks

LEMMA WalkExists == ASSUME NEW a, NEW page, NEW n \in Nat PROVE \E f : Walks(f, a, page, n)
<1> DEFINE D == {k \in Nat : \A f : ~ Walks(f, a, page, k)}
<1>1. SUFFICES ASSUME D # {} PROVE FALSE
  OBVIOUS
<1>2. PICK k \in D : \A j \in D : k <= j
  <2>1. D \in SUBSET Nat
    OBVIOUS
  <2> HIDE DEF D
  <2> QED
    BY <1>1, <2>1, SmallestExists
<1>3. k \in Nat /\ \A f : ~ Walks(f, a, page, k)
  BY <1>2
<1>4. k # 0
  <2>1. SUFFICES ASSUME k = 0 PROVE FALSE
    OBVIOUS
  <2>2. PICK f : f = [p \in 0..0 |-> a]
    OBVIOUS
  <2>3. \A p \in 0..0 : After(f, a, page, p) = a
    BY DEF After
  <2>4. f = [p \in 0..0 |-> After(f, a, page, p)]
    BY <2>2, <2>3
  <2> QED
    BY <1>3, <2>1, <2>4 DEF Walks
<1>5. PICK f : Walks(f, a, page, k - 1)
  <2>1. k - 1 \in Nat /\ ~ (k <= k - 1)
    BY <1>3, <1>4
  <2> QED
    BY <1>2, <2>1
<1>6. PICK g : g = [p \in 0..k |-> IF p = k THEN After(f, a, page, k) ELSE f[p]]
  OBVIOUS
<1>7. ASSUME NEW p \in 0..k PROVE g[p] = After(g, a, page, p)
  <2>0. p = 0 \/ (p \in Nat /\ p # 0)
    OBVIOUS
  <2>1. p # 0 => g[p - 1] = f[p - 1]
    <3>1. p # 0 => p - 1 \in 0..k /\ p - 1 # k
      BY <1>3
    <3> QED
      BY <1>6, <3>1
  <2>2. After(g, a, page, p) = After(f, a, page, p)
    BY <2>1 DEF After
  <2>3. CASE p = k
    BY <1>6, <2>2, <2>3
  <2>4. CASE p # k
    <3>1. p \in 0..(k - 1)
      BY <1>3, <2>4
    <3>2. f[p] = After(f, a, page, p)
      BY <1>5, <3>1, WalkIs
    <3> QED
      BY <1>6, <2>2, <2>4, <3>2
  <2> QED
    BY <2>3, <2>4
<1>8. g = [p \in 0..k |-> g[p]]
  BY <1>6
<1>9. Walks(g, a, page, k)
  BY <1>7, <1>8 DEF Walks
<1> QED
  BY <1>3, <1>9

\* The events seen when the loop is at a position.
Through(seen, page, k) == seen \cup {q \in page : q <= k}

LEMMA ThroughIs ==
  ASSUME NEW n \in Nat, NEW seen, NEW page \in SUBSET (1..n)
  PROVE  /\ Through(seen, page, 0) = seen /\ Through(seen, page, n) = seen \cup page
         /\ \A k \in 1..n : Through(seen, page, k) = IF k \in page
                                                     THEN Through(seen, page, k - 1) \cup {k}
                                                     ELSE Through(seen, page, k - 1)
<1>1. Through(seen, page, 0) = seen /\ Through(seen, page, n) = seen \cup page
  <2>1. \A q \in page : q <= n /\ ~ (q <= 0)
    OBVIOUS
  <2> QED
    BY <2>1 DEF Through
<1>2. ASSUME NEW k \in 1..n
      PROVE  Through(seen, page, k) = IF k \in page THEN Through(seen, page, k - 1) \cup {k}
                                      ELSE Through(seen, page, k - 1)
  <2>1. \A q \in page : q <= k <=> q <= k - 1 \/ q = k
    OBVIOUS
  <2>2. CASE k \in page
    <3>1. {q \in page : q <= k} = {q \in page : q <= k - 1} \cup {k}
      BY <2>1, <2>2
    <3> QED
      BY <2>2, <3>1 DEF Through
  <2>3. CASE k \notin page
    <3>1. {q \in page : q <= k} = {q \in page : q <= k - 1}
      BY <2>1, <2>3
    <3> QED
      BY <2>3, <3>1 DEF Through
  <2> QED
    BY <2>2, <2>3
<1> QED
  BY <1>1, <1>2

\* Whatever the page, the loop adds its events to those seen before.
LEMMA PageStep ==
  ASSUME NEW a, NEW seen, NEW n, Within(seen, n), Good(a, seen, n),
         NEW page \in SUBSET (1..n), \A p \in page : \A q \in seen : q < p,
         \A p \in page : log[p].body.type \in SummaryTypes
  PROVE  Good(ProcessPage(a, page, n), seen \cup page, n)
<1>0. n \in Nat /\ LogTo(n)
  BY DEF Within, LogTo
<1>1. PICK f : f = CHOOSE g : Walks(g, a, page, n)
  OBVIOUS
<1>2. Walks(f, a, page, n) /\ ProcessPage(a, page, n) = f[n]
  BY <1>0, <1>1, WalkExists, WalkChoice
<1> DEFINE D == {k \in 0..n : ~ Good(f[k], Through(seen, page, k), n)}
<1>3. SUFFICES ASSUME D # {} PROVE FALSE
  <2>1. n \in 0..n /\ Through(seen, page, n) = seen \cup page
    BY <1>0, ThroughIs
  <2> QED
    BY <1>2, <1>3, <2>1
<1>4. PICK k \in D : \A j \in D : k <= j
  <2>1. D \in SUBSET Nat
    OBVIOUS
  <2> HIDE DEF D
  <2> QED
    BY <1>3, <2>1, SmallestExists
<1>5. k \in 0..n /\ ~ Good(f[k], Through(seen, page, k), n)
  BY <1>4
<1>6. f[k] = After(f, a, page, k)
  BY <1>2, <1>5, WalkIs
<1>7. k # 0
  <2>1. SUFFICES ASSUME k = 0 PROVE FALSE
    OBVIOUS
  <2>2. f[k] = a /\ Through(seen, page, k) = seen
    <3>1. Through(seen, page, 0) = seen
      BY <1>0, ThroughIs
    <3> QED
      BY <1>6, <2>1, <3>1 DEF After
  <2> QED
    BY <1>5, <2>2
<1>8. k - 1 \in 0..n /\ ~ (k <= k - 1) /\ k \in 1..n
  <2> HIDE DEF D
  <2> QED
    BY <1>0, <1>5, <1>7
<1>9. Good(f[k - 1], Through(seen, page, k - 1), n)
  BY <1>4, <1>8
<1>10. CASE k \in page
  <2>1. f[k] = ProcessEvent(f[k - 1], k)
    BY <1>6, <1>7, <1>10 DEF After
  <2>2. Through(seen, page, k) = Through(seen, page, k - 1) \cup {k}
    BY <1>0, <1>8, <1>10, ThroughIs
  <2>3. \A q \in Through(seen, page, k - 1) : q < k
    <3> HIDE DEF D
    <3>1. k \in Nat /\ \A q \in page : q \in Nat /\ (q <= k - 1 => q < k)
      BY <1>0, <1>8
    <3> QED
      BY <1>10, <3>1 DEF Through
  <2>4. Within(Through(seen, page, k - 1), n)
    BY DEF Within, Through
  <2>5. Good(ProcessEvent(f[k - 1], k), Through(seen, page, k - 1) \cup {k}, n)
    BY <1>8, <1>9, <1>10, <2>3, <2>4, ProcessStep
  <2> QED
    BY <1>5, <2>1, <2>2, <2>5
<1>11. CASE k \notin page
  <2>1. f[k] = f[k - 1]
    BY <1>6, <1>7, <1>11 DEF After
  <2>2. Through(seen, page, k) = Through(seen, page, k - 1)
    BY <1>0, <1>8, <1>11, ThroughIs
  <2> QED
    BY <1>5, <1>9, <2>1, <2>2
<1> QED
  BY <1>10, <1>11

-----------------------------------------------------------------------------
(* The pages of the log. *)

LEMMA LargestIs ==
  ASSUME NEW S \in SUBSET Nat, S # {}, NEW b \in Nat, \A x \in S : x <= b
  PROVE  Max(S) \in S /\ \A x \in S : x <= Max(S)
<1>1. PICK B : B = {m \in Nat : \A x \in S : x <= m}
  OBVIOUS
<1>2. B \in SUBSET Nat /\ B # {}
  BY <1>1
<1>3. PICK m \in B : \A k \in B : m <= k
  BY <1>2, SmallestExists
<1>4. m \in Nat /\ \A x \in S : x <= m
  BY <1>1, <1>3
<1>5. m \in S
  <2>1. SUFFICES ASSUME m \notin S PROVE FALSE
    OBVIOUS
  <2>2. \A x \in S : x \in Nat /\ x < m
    BY <1>4, <2>1
  <2>3. m # 0
    <3>1. PICK x \in S : x \in Nat /\ x < m
      BY <2>2
    <3> QED
      BY <1>4, <3>1
  <2>4. m - 1 \in Nat /\ \A x \in S : x <= m - 1
    BY <1>4, <2>2, <2>3
  <2>5. m - 1 \in B /\ ~ (m <= m - 1)
    BY <1>1, <1>4, <2>4
  <2> QED
    BY <1>3, <2>5
<1>6. S \in SUBSET Int
  OBVIOUS
<1>7. Max(S) = m
  BY <1>4, <1>5, <1>6, MaxIs
<1> QED
  BY <1>4, <1>5, <1>7

LEMMA OwnIs ==
  ASSUME NEW u, NEW x \in Nat, NEW y \in Nat
  PROVE  /\ Own(u, x, y) \in SUBSET (1..y) /\ IsFiniteSet(Own(u, x, y))
         /\ \A p : p \in Own(u, x, y) <=> /\ p \in Nat /\ x < p /\ p <= y
                                          /\ log[p].body.owner = u
                                          /\ log[p].body.type \in SummaryTypes
<1>1. \A p : p \in x + 1 .. y <=> p \in Nat /\ x < p /\ p <= y
  OBVIOUS
<1>2. Own(u, x, y) \in SUBSET (1..y)
  BY <1>1 DEF Own
<1>3. IsFiniteSet(1..y)
  BY FS_Interval
<1>4. IsFiniteSet(Own(u, x, y))
  BY <1>2, <1>3, FS_Subset
<1> QED
  BY <1>1, <1>2, <1>4 DEF Own

\* A page is what its last position says, and empty only at the end.
LEMMA PageIs ==
  ASSUME NEW u, NEW x \in Nat, NEW y \in Nat
  PROVE  /\ Page(u, x, y) \subseteq Own(u, x, y)
         /\ Page(u, x, y) = {} => Own(u, x, y) = {}
         /\ Page(u, x, y) # {} =>
              /\ Max(Page(u, x, y)) \in Page(u, x, y)
              /\ Page(u, x, y) = Own(u, x, Max(Page(u, x, y)))
<1>1. PICK own, page : own = Own(u, x, y) /\ page = Page(u, x, y)
  OBVIOUS
<1>2. page = {p \in own : Cardinality({q \in own : q < p}) < PageSize}
  BY <1>1 DEF Page
<1>3. /\ own \in SUBSET (1..y) /\ IsFiniteSet(own)
      /\ \A p : p \in own <=> /\ p \in Nat /\ x < p /\ p <= y
                              /\ log[p].body.owner = u /\ log[p].body.type \in SummaryTypes
  BY <1>1, OwnIs
<1>4. own \in SUBSET Nat /\ page \in SUBSET own
  BY <1>2, <1>3
<1>5. ASSUME page = {} PROVE own = {}
  <2>1. SUFFICES ASSUME own # {} PROVE FALSE
    OBVIOUS
  <2>2. PICK m \in own : \A k \in own : m <= k
    BY <1>4, <2>1, SmallestExists
  <2>3. {q \in own : q < m} = {}
    <3>1. \A q \in own : q \in Nat /\ m \in Nat /\ m <= q
      BY <1>4, <2>2
    <3>2. \A q \in own : ~ (q < m)
      BY <3>1
    <3> QED
      BY <3>2
  <2>4. Cardinality({q \in own : q < m}) = 0
    BY <2>3, FS_EmptySet
  <2>5. 0 < PageSize
    BY NumbersAssumption
  <2> QED
    BY <1>2, <1>5, <2>2, <2>4, <2>5
<1>6. ASSUME page # {}
      PROVE  Max(page) \in page /\ page = Own(u, x, Max(page))
  <2>1. PICK m : m = Max(page)
    OBVIOUS
  <2>2. \A p \in page : p \in Nat /\ p <= y
    BY <1>3, <1>4
  <2>3. m \in page /\ \A p \in page : p <= m
    BY <1>4, <1>6, <2>1, <2>2, LargestIs
  <2>4. m \in Nat /\ m <= y /\ m \in own
    BY <1>4, <2>2, <2>3
  <2>5. \A p : p \in Own(u, x, m) <=> p \in own /\ p <= m
    <3>1. \A p : p \in Own(u, x, m) <=> /\ p \in Nat /\ x < p /\ p <= m
                                        /\ log[p].body.owner = u
                                        /\ log[p].body.type \in SummaryTypes
      BY <2>4, OwnIs
    <3>2. \A p \in Nat : p <= m => p <= y
      BY <2>4
    <3> QED
      BY <1>3, <3>1, <3>2
  <2>6. ASSUME NEW p \in own, p <= m PROVE p \in page
    <3>1. PICK A, B : A = {q \in own : q < p} /\ B = {q \in own : q < m}
      OBVIOUS
    <3>2. A \in SUBSET B
      <4>1. p \in Nat /\ m \in Nat /\ \A q \in own : q \in Nat
        BY <1>4, <2>4
      <4>2. \A q \in own : q < p => q < m
        BY <2>6, <4>1
      <4> QED
        BY <3>1, <4>2
    <3>3. B \in SUBSET own
      BY <3>1
    <3>4. IsFiniteSet(B)
      BY <1>3, <3>3, FS_Subset
    <3>5. IsFiniteSet(A) /\ Cardinality(A) <= Cardinality(B)
      BY <3>2, <3>4, FS_Subset
    <3>6. Cardinality(A) \in Nat /\ Cardinality(B) \in Nat
      BY <3>4, <3>5, FS_CardinalityType
    <3>7. Cardinality(B) < PageSize
      BY <1>2, <2>3, <3>1
    <3>8. PageSize \in Nat
      BY NumbersAssumption
    <3>9. Cardinality(A) < PageSize
      BY <3>5, <3>6, <3>7, <3>8
    <3> QED
      BY <1>2, <3>1, <3>9
  <2> QED
    BY <1>4, <2>1, <2>3, <2>5, <2>6
<1> QED
  BY <1>1, <1>4, <1>5, <1>6

LEMMA OwnSplit ==
  ASSUME NEW u, NEW x \in Nat, NEW y \in Nat, NEW z \in Nat, x <= y, y <= z
  PROVE  Own(u, x, z) = Own(u, x, y) \cup Own(u, y, z)
<1>1. \A p \in Nat : x < p /\ p <= z <=> (x < p /\ p <= y) \/ (y < p /\ p <= z)
  OBVIOUS
<1> QED
  BY <1>1, OwnIs

LEMMA OwnNone == ASSUME NEW u, NEW x \in Nat PROVE Own(u, x, x) = {}
<1>1. \A p \in Nat : ~ (x < p /\ p <= x)
  OBVIOUS
<1> QED
  BY <1>1, OwnIs

LEMMA NoActivityRight == ASSUME NEW n, LogTo(n) PROVE Right(NoActivity, {}, n)
<1>1. /\ NoActivity.experience = 0 /\ NoActivity.coins = 0 /\ NoActivity.best = NoScore
      /\ NoActivity.rewards = <<>> /\ NoActivity.skipped = {} /\ NoActivity.over = FALSE
  BY DEF NoActivity
<1>2. NoActivity \in Activity
  BY DEF NoActivity, Activity, NoScore
<1>3. Skipped(NoActivity) = {} /\ \A t : Used(NoActivity, {}, t) = {}
  BY <1>1 DEF Skipped, Used
<1>4. Scores(NoActivity, {}) = {}
  BY <1>3 DEF Scores
<1>5. Sum({}, n) = 0
  BY SumOfNone
<1>6. Rewards(NoActivity) = Cardinality({})
  <2>1. Len(<<>>) = 0
    OBVIOUS
  <2> QED
    BY <1>1, <2>1, FS_EmptySet DEF Rewards
<1> QED
  BY <1>1, <1>2, <1>3, <1>4, <1>5, <1>6 DEF Right, BestIs

-----------------------------------------------------------------------------
(* The log grows. *)

\* The first n events stay.
Kept(n) == \A q \in 1..n : log'[q] = log[q]

LEMMA SumKept ==
  ASSUME NEW n, Kept(n), NEW S PROVE Sum(S, n)' = Sum(S, n)
<1>1. [p \in 1..n |-> IF p \in S THEN log'[p].body.value ELSE 0]
        = [p \in 1..n |-> IF p \in S THEN log[p].body.value ELSE 0]
  BY DEF Kept
<1> QED
  BY Zenon, <1>1 DEF Sum

LEMMA RightKept ==
  ASSUME NEW n, Kept(n), NEW a, NEW seen, seen \subseteq 1..n, Right(a, seen, n)
  PROVE  Right(a, seen, n)'
<1>1. \A t : Used(a, seen, t)' = Used(a, seen, t)
  BY DEF Used, Kept
<1>2. \A S : Sum(S, n)' = Sum(S, n)
  BY SumKept
<1>3. Scores(a, seen)' = Scores(a, seen)
  <2>1. \A p \in Used(a, seen, GameSessionCompleted) : log'[p] = log[p]
    BY DEF Used, Kept
  <2>2. Scores(a, seen)' = {log'[p].body.value : p \in Used(a, seen, GameSessionCompleted)}
    BY <1>1 DEF Scores
  <2>3. {log'[p].body.value : p \in Used(a, seen, GameSessionCompleted)}
          = {log[p].body.value : p \in Used(a, seen, GameSessionCompleted)}
    BY <2>1
  <2> QED
    BY <2>2, <2>3 DEF Scores
<1>4. ASSUME NEW p \in seen PROVE LeftOut(a, seen, n, p)'
  <2>1. log'[p] = log[p] /\ LeftOut(a, seen, n, p)
    BY DEF Kept, Right
  <2>2. PICK type, S : /\ type = log[p].body.type
                       /\ S = {q \in Used(a, seen, type) : q < p}
    OBVIOUS
  <2>3. {q \in Used(a, seen, type)' : q < p} = S /\ Sum(S, n)' = Sum(S, n)
    BY <1>1, <1>2, <2>2
  <2>4. IF Bad(log[p].body) THEN p \in Skipped(a)
        ELSE p \in Skipped(a) =>
               /\ type \in {ExperienceGranted, CoinsGranted}
               /\ Sum(S, n) + log[p].body.value > MaxInt
    BY Zenon, <2>1, <2>2 DEF LeftOut
  <2> QED
    BY Zenon, <2>1, <2>2, <2>3, <2>4 DEF LeftOut
<1>5. /\ a.experience = Sum(Used(a, seen, ExperienceGranted), n)'
      /\ a.coins = Sum(Used(a, seen, CoinsGranted), n)'
      /\ Rewards(a) = Cardinality(Used(a, seen, RewardGranted))'
  <2>1. \A t : Sum(Used(a, seen, t), n)' = Sum(Used(a, seen, t), n)
    BY Zenon, <1>1, <1>2 DEF Sum
  <2> QED
    BY <1>1, <2>1 DEF Right
<1> QED
  BY <1>3, <1>4, <1>5 DEF Right

LEMMA OwnKept ==
  ASSUME NEW n \in Nat, Kept(n), NEW u, NEW x \in Nat, NEW y \in Nat, y <= n
  PROVE  Own(u, x, y)' = Own(u, x, y)
<1>1. \A p \in x + 1 .. y : log'[p] = log[p]
  BY DEF Kept
<1> QED
  BY <1>1 DEF Own

-----------------------------------------------------------------------------
(***************************************************************************)
(* What the sums need.  A request that collects has the exact sums of its  *)
(* user's events up to the last one it has seen; a check-in of the past    *)
(* has those of its period, and ends where the checkpoint is or before.    *)
(***************************************************************************)
CollectedOK(s) ==
  LET r    == request[s]
      from == r.saved.position
      to   == r.boundary.position
  IN
  /\ pc[s] \in {"insert", "lock", "boundary"} => r.activity = NoActivity
  /\ pc[s] = "collect" =>
       /\ ~ r.shown /\ r.last \in Nat /\ from <= r.last /\ r.last <= to /\ ~ r.activity.over
       /\ Right(r.activity, Own(r.user, from, r.last), to)
  /\ pc[s] \in {"save", "commit"} =>
       IF r.shown THEN Right(r.activity, Own(r.user, from, to), to)
       ELSE r.activity = NoActivity

PastOK(u) ==
  \A i \in DOMAIN history[u] :
    LET c == history[u][i] IN
    /\ checkpoint[u] # Nobody /\ c.to.position <= checkpoint[u].position
    /\ IF ~ c.shown THEN c.summary = NoActivity
       ELSE Right(c.summary, Own(u, c.from.position, c.to.position), c.to.position)
    /\ c.summary.skipped \subseteq failures

FailuresOK == QuarantineIsCommitted /\ \A f \in failures : f.position \in 1..Len(log)

EInv ==
  /\ IInv
  /\ \A s \in Session : CollectedOK(s)
  /\ \A u \in User : PastOK(u)
  /\ FailuresOK

LEMMA LogIs == ASSUME TypeOK, NEW n \in Nat, n <= Len(log) PROVE LogTo(n)
<1>1. log \in Seq(Event)
  BY DEF TypeOK
<1>2. \A q \in 1..n : log[q] \in Event
  BY <1>1
<1>3. \A q \in 1..n : log[q].body \in Body
  BY <1>2 DEF Event
<1> QED
  BY <1>3 DEF LogTo

\* The period of a request that collects or commits.
LEMMA PeriodIs ==
  ASSUME IInv, NEW s \in Session, pc[s] \in {"collect", "save", "commit"}
  PROVE  LET r == request[s] IN
         /\ r.user \in User /\ r.saved \in Checkpoint /\ r.boundary \in Checkpoint
         /\ r.saved.position \in Nat /\ r.boundary.position \in Nat
         /\ r.saved.position <= r.boundary.position /\ r.boundary.position <= Len(log)
         /\ checkpoint[r.user] = IF r.created THEN Nobody ELSE r.saved
         /\ LogTo(r.boundary.position)
<1>1. PICK r : r = request[s]
  OBVIOUS
<1>2. /\ r.user \in User /\ InTime(r.saved) /\ InTime(r.boundary)
      /\ r.saved.position <= r.boundary.position
      /\ checkpoint[r.user] = IF r.created THEN Nobody ELSE r.saved
  BY <1>1 DEF IInv, SessionOK, Running, Decided
<1>3. /\ r.saved \in Checkpoint /\ r.boundary \in Checkpoint /\ r.boundary.position <= Len(log)
  BY <1>2 DEF InTime
<1>4. r.saved.position \in Nat /\ r.boundary.position \in Nat
  BY <1>3 DEF Checkpoint
<1>5. LogTo(r.boundary.position)
  BY <1>3, <1>4, LogIs DEF IInv
<1> QED
  BY <1>1, <1>2, <1>3, <1>4, <1>5

\* Nothing that is in the log goes.
Grows == Kept(Len(log)) /\ Len(log) \in Nat

LEMMA KeptTo == ASSUME Grows, NEW n \in Nat, n <= Len(log) PROVE Kept(n)
<1>1. PICK m : m = Len(log)
  OBVIOUS
<1>2. m \in Nat /\ n <= m /\ \A q \in 1..m : log'[q] = log[q]
  BY <1>1 DEF Grows, Kept
<1>3. \A q \in 1..n : q \in 1..m
  BY <1>2
<1> QED
  BY <1>2, <1>3 DEF Kept

LEMMA CollectedFrame ==
  ASSUME IInv, Grows, NEW s \in Session, CollectedOK(s),
         pc'[s] = pc[s], request'[s] = request[s]
  PROVE  CollectedOK(s)'
<1>1. PICK r : r = request[s]
  OBVIOUS
<1>2. CASE pc[s] \notin {"collect", "save", "commit"}
  BY <1>2 DEF CollectedOK
<1>3. CASE pc[s] \in {"collect", "save", "commit"}
  <2>1. PICK from, to : from = r.saved.position /\ to = r.boundary.position
    OBVIOUS
  <2>2. from \in Nat /\ to \in Nat /\ from <= to /\ to <= Len(log)
    BY <1>1, <1>3, <2>1, PeriodIs
  <2>3. Kept(to)
    BY <2>2, KeptTo
  <2>4. CASE pc[s] = "collect"
    <3>1. PICK last, a : last = r.last /\ a = r.activity
      OBVIOUS
    <3>2. /\ ~ r.shown /\ last \in Nat /\ from <= last /\ last <= to /\ ~ a.over
          /\ Right(a, Own(r.user, from, last), to)
      BY <1>1, <2>1, <2>4, <3>1 DEF CollectedOK
    <3>3. PICK own : own = Own(r.user, from, last)
      OBVIOUS
    <3>4. own \subseteq 1..to
      BY <2>2, <3>2, <3>3, OwnIs
    <3>5. Own(r.user, from, last)' = own
      BY <2>2, <2>3, <3>2, <3>3, OwnKept
    <3>6. Right(a, own, to)'
      BY <2>3, <3>2, <3>3, <3>4, RightKept
    <3>7. Right(a, Own(r.user, from, last), to)'
      BY Zenon, <3>5, <3>6 DEF Right, LeftOut
    <3> QED
      BY <1>1, <2>1, <2>4, <3>1, <3>2, <3>7 DEF CollectedOK
  <2>5. CASE pc[s] # "collect" /\ r.shown
    <3>1. PICK a, own : a = r.activity /\ own = Own(r.user, from, to)
      OBVIOUS
    <3>2. Right(a, own, to)
      BY <1>1, <1>3, <2>1, <2>5, <3>1 DEF CollectedOK
    <3>3. own \subseteq 1..to
      BY <2>2, <3>1, OwnIs
    <3>4. Own(r.user, from, to)' = own
      BY <2>2, <2>3, <3>1, OwnKept
    <3>5. Right(a, own, to)'
      BY <2>3, <3>2, <3>3, RightKept
    <3>6. Right(a, Own(r.user, from, to), to)'
      BY Zenon, <3>4, <3>5 DEF Right, LeftOut
    <3> QED
      BY <1>1, <1>3, <2>1, <2>5, <3>1, <3>6 DEF CollectedOK
  <2>6. CASE pc[s] # "collect" /\ ~ r.shown
    BY <1>1, <1>3, <2>6 DEF CollectedOK
  <2> QED
    BY <2>4, <2>5, <2>6
<1> QED
  BY <1>2, <1>3

\* A check-in of the past.
LEMMA PastIs ==
  ASSUME IInv, NEW u \in User, PastOK(u), NEW i \in DOMAIN history[u]
  PROVE  LET c == history[u][i] IN
         /\ c.from \in Checkpoint /\ c.to \in Checkpoint
         /\ c.from.position \in Nat /\ c.to.position \in Nat
         /\ c.to.position <= Len(log) /\ LogTo(c.to.position)
<1>1. PICK c : c = history[u][i]
  OBVIOUS
<1>2. c.from \in Checkpoint /\ c.to \in Checkpoint
  BY <1>1 DEF IInv, UserOK, DaysOK
<1>3. c.from.position \in Nat /\ c.to.position \in Nat
  BY <1>2 DEF Checkpoint
<1>4. checkpoint[u] # Nobody /\ c.to.position <= checkpoint[u].position
  BY <1>1 DEF PastOK
<1>5. checkpoint[u].position <= Len(log) /\ checkpoint[u].position \in Nat
  <2>1. InTime(checkpoint[u])
    BY <1>4 DEF IInv, UserOK
  <2> QED
    BY <2>1 DEF InTime, Checkpoint
<1>6. Len(log) \in Nat
  BY DEF IInv, TypeOK
<1>7. c.to.position <= Len(log)
  BY <1>3, <1>4, <1>5, <1>6
<1> QED
  BY <1>1, <1>2, <1>3, <1>7, LogIs DEF IInv

LEMMA PastFrame ==
  ASSUME IInv, Grows, NEW u \in User, PastOK(u), history'[u] = history[u],
         checkpoint'[u] # Nobody \/ checkpoint'[u] = checkpoint[u],
         checkpoint[u] # Nobody => checkpoint'[u].position = checkpoint[u].position,
         \A i \in DOMAIN history[u] : history[u][i].summary.skipped \subseteq failures'
  PROVE  PastOK(u)'
<1> SUFFICES ASSUME NEW i \in DOMAIN history[u]
             PROVE  LET c == history[u][i] IN
                    /\ checkpoint'[u] # Nobody /\ c.to.position <= checkpoint'[u].position
                    /\ IF ~ c.shown THEN c.summary = NoActivity
                       ELSE Right(c.summary, Own(u, c.from.position, c.to.position), c.to.position)'
                    /\ c.summary.skipped \subseteq failures'
  BY DEF PastOK
<1>1. PICK c, from, to, a : /\ c = history[u][i] /\ from = c.from.position
                            /\ to = c.to.position /\ a = c.summary
  OBVIOUS
<1>2. /\ checkpoint[u] # Nobody /\ to <= checkpoint[u].position
      /\ IF ~ c.shown THEN a = NoActivity ELSE Right(a, Own(u, from, to), to)
      /\ from \in Nat /\ to \in Nat /\ to <= Len(log)
  BY <1>1, PastIs DEF PastOK
<1>3. checkpoint'[u] # Nobody /\ to <= checkpoint'[u].position
  BY <1>2
<1>4. ASSUME c.shown PROVE Right(a, Own(u, from, to), to)'
  <2>1. PICK own : own = Own(u, from, to)
    OBVIOUS
  <2>2. Right(a, own, to)
    BY <1>2, <1>4, <2>1
  <2>3. Kept(to)
    BY <1>2, KeptTo
  <2>4. own \subseteq 1..to
    BY <1>2, <2>1, OwnIs
  <2>5. Own(u, from, to)' = own
    BY <1>2, <2>1, <2>3, OwnKept
  <2>6. Right(a, own, to)'
    BY <2>2, <2>3, <2>4, RightKept
  <2> QED
    BY Zenon, <2>5, <2>6 DEF Right, LeftOut
<1> QED
  BY <1>1, <1>2, <1>3, <1>4

LEMMA FailuresFrame ==
  ASSUME FailuresOK, Grows, UNCHANGED <<failures, history>>, Len(log) <= Len(log'), Len(log') \in Nat
  PROVE  FailuresOK'
<1>1. ASSUME NEW f \in failures
      PROVE  /\ log'[f.position] = log[f.position] /\ f.position \in 1..Len(log')
             /\ \E i \in DOMAIN history[log[f.position].body.owner] :
                  f \in history[log[f.position].body.owner][i].summary.skipped
  <2>1. f.position \in 1..Len(log)
    BY DEF FailuresOK
  <2> QED
    BY <2>1 DEF FailuresOK, QuarantineIsCommitted, Grows, Kept
<1> QED
  BY <1>1 DEF FailuresOK, QuarantineIsCommitted

\* A step of one request that commits nothing.
LEMMA OwnSums ==
  ASSUME EInv, IInv', NEW s \in Session, UNCHANGED <<log, checkpoint, failures, history>>,
         CollectedOK(s)', \A t \in Session \ {s} : pc'[t] = pc[t] /\ request'[t] = request[t]
  PROVE  EInv'
<1>1. IInv /\ Len(log) \in Nat /\ Len(log) <= Len(log') /\ Len(log') \in Nat
  BY DEF EInv, IInv, TypeOK
<1>2. Grows
  BY <1>1 DEF Grows, Kept
<1>3. \A t \in Session : CollectedOK(t)'
  BY <1>1, <1>2, CollectedFrame DEF EInv
<1>4. ASSUME NEW u \in User PROVE PastOK(u)'
  <2>1. \A i \in DOMAIN history[u] : history[u][i].summary.skipped \subseteq failures'
    BY DEF EInv, PastOK
  <2> QED
    BY <1>1, <1>2, <2>1, PastFrame DEF EInv
<1>5. FailuresOK'
  BY <1>1, <1>2, FailuresFrame DEF EInv
<1> QED
  BY <1>3, <1>4, <1>5 DEF EInv

\* The log may grow, and nothing else of this changes.
LEMMA QuietSums ==
  ASSUME EInv, IInv', Grows, Len(log) <= Len(log'),
         UNCHANGED <<checkpoint, failures, pc, request, history>>
  PROVE  EInv'
<1>1. IInv /\ Len(log') \in Nat
  BY DEF EInv, IInv, TypeOK
<1>2. \A t \in Session : CollectedOK(t)'
  BY <1>1, CollectedFrame DEF EInv
<1>3. ASSUME NEW u \in User PROVE PastOK(u)'
  <2>1. \A i \in DOMAIN history[u] : history[u][i].summary.skipped \subseteq failures'
    BY DEF EInv, PastOK
  <2> QED
    BY <1>1, <2>1, PastFrame DEF EInv
<1>4. FailuresOK'
  BY <1>1, FailuresFrame DEF EInv
<1> QED
  BY <1>2, <1>3, <1>4 DEF EInv

LEMMA WorldSums == ASSUME EInv, IInv', Tick \/ \E b \in Payload : Publish(b) PROVE EInv'
<1>1. UNCHANGED <<checkpoint, failures, pc, request, history>>
  BY DEF Tick, Publish
<1>2. IInv /\ log \in Seq(Event) /\ Len(log) \in Nat
  BY DEF EInv, IInv, TypeOK
<1>3. Grows /\ Len(log) <= Len(log')
  <2>1. CASE Tick
    BY <1>2, <2>1 DEF Tick, Grows, Kept
  <2>2. ASSUME NEW b \in Payload, Publish(b) PROVE Grows /\ Len(log) <= Len(log')
    <3>1. [body |-> b, at |-> clock] \in Event
      BY <1>2, PayloadAssumption, NumbersAssumption DEF Event, TypeOK, IInv
    <3>2. log' = Append(log, [body |-> b, at |-> clock])
      BY <2>2 DEF Publish
    <3>3. Len(log) <= Len(log') /\ \A q \in 1..Len(log) : log'[q] = log[q]
      BY <1>2, <3>1, <3>2
    <3> QED
      BY <1>2, <3>3 DEF Grows, Kept
  <2> QED
    BY <2>1, <2>2
<1> QED
  BY <1>1, <1>3, QuietSums

-----------------------------------------------------------------------------
(* Every step keeps the sums. *)

\* Before it collects, a request has no activity; after it ended, none either.
LEMMA EarlySums ==
  ASSUME EInv, IInv', NEW s \in Session,
         \/ \E u \in User : Begin(s, u)
         \/ InsertCheckpoint(s) \/ GetCheckpointForUpdate(s) \/ UpdateCheckpoint(s) \/ Abort(s)
  PROVE  EInv'
<1>1. /\ UNCHANGED <<log, checkpoint, failures, history>>
      /\ TypeOK /\ Requests /\ CollectedOK(s)
  BY DEF EInv, IInv, Begin, InsertCheckpoint, GetCheckpointForUpdate, UpdateCheckpoint, Abort
<1>2. PICK B : request \in [Session -> Request(B)]
  BY <1>1 DEF Requests
<1>3. \A t \in Session \ {s} : pc'[t] = pc[t] /\ request'[t] = request[t]
  <2>1. \E phase : pc' = [pc EXCEPT ![s] = phase]
    BY DEF Begin, InsertCheckpoint, GetCheckpointForUpdate, UpdateCheckpoint, Abort, Goto
  <2>2. \A t \in Session \ {s} : pc'[t] = pc[t]
    BY <1>1, <2>1 DEF TypeOK
  <2>3. \A t \in Session \ {s} : request'[t] = request[t]
    BY <1>2 DEF Begin, InsertCheckpoint, GetCheckpointForUpdate, UpdateCheckpoint, Abort
  <2> QED
    BY <2>2, <2>3
<1>4. CollectedOK(s)'
  <2>1. ASSUME NEW u \in User, Begin(s, u) PROVE CollectedOK(s)'
    <3>1. pc'[s] = "insert" /\ request'[s].activity = NoActivity
      <4>1. request'[s] = [NoRequest EXCEPT !.user = u, !.boundary = Boundary]
        BY <1>2, <2>1 DEF Begin
      <4>2. request'[s].activity = NoRequest.activity
        BY <4>1 DEF NoRequest
      <4> QED
        BY <1>1, <2>1, <4>2 DEF Begin, Goto, TypeOK, NoRequest
    <3> QED
      BY <3>1 DEF CollectedOK
  <2>2. CASE InsertCheckpoint(s)
    <3>1. pc[s] = "insert" /\ pc'[s] = "lock"
      BY <1>1, <2>2 DEF InsertCheckpoint, Goto, TypeOK
    <3>2. request'[s].activity = request[s].activity
      BY <1>2, <2>2 DEF InsertCheckpoint, Request
    <3> QED
      BY <1>1, <3>1, <3>2 DEF CollectedOK
  <2>3. CASE GetCheckpointForUpdate(s)
    <3>1. pc[s] = "lock" /\ pc'[s] = "boundary"
      BY <1>1, <2>3 DEF GetCheckpointForUpdate, Goto, TypeOK
    <3>2. request'[s].activity = request[s].activity
      BY <1>2, <2>3 DEF GetCheckpointForUpdate, Request
    <3> QED
      BY <1>1, <3>1, <3>2 DEF CollectedOK
  <2>4. CASE UpdateCheckpoint(s)
    <3>1. pc[s] = "save" /\ pc'[s] = "commit" /\ UNCHANGED <<log, request>>
      BY <1>1, <2>4 DEF UpdateCheckpoint, Goto, TypeOK
    <3>2. PICK r, a, u, from, to : /\ r = request[s] /\ a = r.activity /\ u = r.user
                                   /\ from = r.saved.position /\ to = r.boundary.position
      OBVIOUS
    <3>3. IF r.shown THEN Right(a, Own(u, from, to), to) ELSE a = NoActivity
      BY <1>1, <3>1, <3>2 DEF CollectedOK
    <3>4. Right(a, Own(u, from, to), to) => Right(a, Own(u, from, to), to)'
      BY Zenon, <3>1 DEF Right, Own, Used, LeftOut, Sum, Scores
    <3> QED
      BY <3>1, <3>2, <3>3, <3>4 DEF CollectedOK
  <2>5. CASE Abort(s)
    <3>1. pc'[s] = "idle"
      BY <1>1, <2>5 DEF Abort, Goto, TypeOK
    <3> QED
      BY <3>1 DEF CollectedOK
  <2> QED
    BY <2>1, <2>2, <2>3, <2>4, <2>5
<1> QED
  BY <1>1, <1>3, <1>4, OwnSums

\* The period is known: nothing of it has been seen.
LEMMA BoundarySums ==
  ASSUME EInv, IInv', NEW s \in Session, CaptureBoundary(s) PROVE EInv'
<1>1. /\ UNCHANGED <<log, checkpoint, failures, history>> /\ pc[s] = "boundary"
      /\ TypeOK /\ Requests /\ CollectedOK(s)
  BY DEF EInv, IInv, CaptureBoundary
<1>2. PICK B : request \in [Session -> Request(B)]
  BY <1>1 DEF Requests
<1>3. PICK r, b, q : /\ r = request[s] /\ b = Boundary
                     /\ q = [r EXCEPT !.boundary = b, !.last = r.saved.position]
  OBVIOUS
<1>4. request' = [request EXCEPT ![s] = q]
  BY <1>2, <1>3 DEF CaptureBoundary
<1>5. /\ q.user = r.user /\ q.saved = r.saved /\ q.boundary = b /\ q.shown = r.shown
      /\ q.last = r.saved.position /\ q.activity = r.activity
  BY <1>2, <1>3 DEF Request
<1>6. PICK phase : /\ phase \in {"regressed", "future", "save", "collect"}
                   /\ pc' = [pc EXCEPT ![s] = phase]
  BY DEF CaptureBoundary, Goto
<1>7. /\ request'[s] = q /\ pc'[s] = phase
      /\ \A t \in Session \ {s} : pc'[t] = pc[t] /\ request'[t] = request[t]
  BY <1>1, <1>2, <1>4, <1>6 DEF TypeOK
<1>8. ~ r.shown /\ r.activity = NoActivity
  BY <1>1, <1>3 DEF EInv, IInv, SessionOK, CollectedOK
<1>9. CASE phase = "collect"
  <2>1. PICK from, to : from = q.saved.position /\ to = q.boundary.position
    OBVIOUS
  <2>2. /\ InTime(q.saved)' /\ InTime(q.boundary)' /\ from <= to
    BY <1>7, <1>9, <2>1 DEF IInv, SessionOK, Running, Decided
  <2>3. from \in Nat /\ to \in Nat /\ to <= Len(log)
    BY <1>1, <2>1, <2>2 DEF InTime, Checkpoint
  <2>4. PICK S, v : S = Own(v, from, from) /\ v = q.user
    OBVIOUS
  <2>5. S = {} /\ from <= from
    BY <2>3, <2>4, OwnNone
  <2>6. Right(NoActivity, {}, to)
    BY <1>1, <2>3, LogIs, NoActivityRight
  <2>7. Kept(to)
    BY <1>1 DEF Kept
  <2>8. Right(NoActivity, {}, to)'
    BY <2>6, <2>7, RightKept
  <2>9. Own(v, from, from)' = {}
    BY <2>2, <2>3, <2>4, <2>5, <2>7, OwnKept
  <2>10. Right(NoActivity, Own(v, from, from), to)'
    BY Zenon, <2>8, <2>9 DEF Right, LeftOut
  <2>11. ~ NoActivity.over
    BY DEF NoActivity
  <2>12. /\ ~ q.shown /\ q.last = from /\ from <= from /\ q.activity = NoActivity
    BY <1>5, <1>8, <2>1, <2>3
  <2>13. CollectedOK(s)'
    BY <1>7, <1>9, <2>1, <2>2, <2>3, <2>4, <2>10, <2>11, <2>12 DEF CollectedOK
  <2> QED
    BY <1>1, <1>7, <2>13, OwnSums
<1>10. CASE phase # "collect"
  <2>1. CollectedOK(s)'
    BY <1>5, <1>6, <1>7, <1>8, <1>10 DEF CollectedOK
  <2> QED
    BY <1>1, <1>7, <2>1, OwnSums
<1> QED
  BY <1>9, <1>10

\* One more page, or the end of the loop.
LEMMA CollectSums ==
  ASSUME EInv, IInv', NEW s \in Session, CollectPage(s) PROVE EInv'
<1>1. /\ UNCHANGED <<log, checkpoint, failures, history>> /\ pc[s] = "collect"
      /\ TypeOK /\ Requests /\ CollectedOK(s) /\ IInv
  BY DEF EInv, IInv, CollectPage
<1>2. PICK B : request \in [Session -> Request(B)]
  BY <1>1 DEF Requests
<1>3. PICK r, u, from, to, last, a :
        /\ r = request[s] /\ u = r.user /\ from = r.saved.position
        /\ to = r.boundary.position /\ last = r.last /\ a = r.activity
  OBVIOUS
<1>4. /\ from \in Nat /\ to \in Nat /\ from <= to /\ to <= Len(log) /\ LogTo(to)
  BY <1>1, <1>3, PeriodIs
<1>5. /\ ~ r.shown /\ last \in Nat /\ from <= last /\ last <= to /\ ~ a.over
      /\ Right(a, Own(u, from, last), to)
  BY <1>1, <1>3 DEF CollectedOK
<1>6. PICK page, z : page = Page(u, last, to) /\ z = ProcessPage(a, page, to)
  OBVIOUS
<1>7. Kept(to)
  BY <1>1 DEF Kept
<1>8. ASSUME NEW q, NEW phase, request' = [request EXCEPT ![s] = q], Goto(s, phase)
      PROVE  /\ request'[s] = q /\ pc'[s] = phase
             /\ \A t \in Session \ {s} : pc'[t] = pc[t] /\ request'[t] = request[t]
  BY <1>1, <1>2, <1>8 DEF TypeOK, Goto
<1>9. CASE last >= to \/ page = {}
  <2>1. PICK q : q = [r EXCEPT !.shown = TRUE]
    OBVIOUS
  <2>2. request' = [request EXCEPT ![s] = q] /\ Goto(s, "save")
    BY <1>2, <1>3, <1>6, <1>9, <2>1 DEF CollectPage
  <2>3. /\ q.user = u /\ q.saved = r.saved /\ q.boundary = r.boundary /\ q.shown
        /\ q.activity = a
    BY <1>2, <1>3, <2>1 DEF Request
  <2>4. Own(u, from, last) = Own(u, from, to)
    <3>1. CASE last >= to
      <4>1. last = to
        BY <1>4, <1>5, <3>1
      <4> QED
        BY <4>1
    <3>2. CASE page = {}
      <4>1. Own(u, last, to) = {}
        BY <1>4, <1>5, <1>6, <3>2, PageIs
      <4>2. Own(u, from, to) = Own(u, from, last) \cup Own(u, last, to)
        BY <1>4, <1>5, OwnSplit
      <4> QED
        BY <4>1, <4>2
    <3> QED
      BY <1>9, <3>1, <3>2
  <2>5. PICK own : own = Own(u, from, to)
    OBVIOUS
  <2>6. own \subseteq 1..to /\ Right(a, own, to)
    BY <1>4, <1>5, <2>4, <2>5, OwnIs
  <2>7. Right(a, own, to)'
    BY <1>7, <2>6, RightKept
  <2>8. Own(u, from, to)' = own
    BY <1>4, <1>7, <2>5, OwnKept
  <2>9. Right(a, Own(u, from, to), to)'
    BY Zenon, <2>7, <2>8 DEF Right, LeftOut
  <2>10. request'[s] = q /\ pc'[s] = "save"
    BY <1>8, <2>2
  <2>11. CollectedOK(s)'
    BY <1>3, <2>3, <2>9, <2>10 DEF CollectedOK
  <2> QED
    BY <1>1, <1>8, <2>2, <2>11, OwnSums
<1>10. CASE ~ (last >= to \/ page = {})
  <2>1. PICK m : m = Max(page)
    OBVIOUS
  <2>2. PICK q : q = [r EXCEPT !.activity = z, !.last = m]
    OBVIOUS
  <2>3. /\ request' = [request EXCEPT ![s] = q]
        /\ Goto(s, IF z.over THEN "backlog" ELSE "collect")
    BY <1>2, <1>3, <1>6, <1>10, <2>1, <2>2 DEF CollectPage
  <2>4. /\ q.user = u /\ q.saved = r.saved /\ q.boundary = r.boundary /\ q.shown = r.shown
        /\ q.activity = z /\ q.last = m
    BY <1>2, <1>3, <2>2 DEF Request
  <2>5. m \in page /\ page = Own(u, last, m) /\ page \subseteq Own(u, last, to)
    BY <1>4, <1>5, <1>6, <1>10, <2>1, PageIs
  <2>6. \A p \in page : /\ p \in Nat /\ last < p /\ p <= to
                        /\ log[p].body.type \in SummaryTypes
    BY <1>4, <1>5, <2>5, OwnIs
  <2>7. m \in Nat /\ last <= m /\ m <= to /\ from <= m
    BY <1>4, <1>5, <2>5, <2>6
  <2>8. PICK seen : seen = Own(u, from, last)
    OBVIOUS
  <2>9. /\ seen \subseteq 1..to /\ \A p \in seen : p \in Nat /\ p <= last
    BY <1>4, <1>5, <2>8, OwnIs
  <2>10. Within(seen, to) /\ Good(a, seen, to)
    BY <1>4, <1>5, <2>8, <2>9 DEF Within, Good, Right
  <2>11. page \in SUBSET (1..to)
    BY <1>4, <1>5, <2>6
  <2>12. \A p \in page : \A x \in seen : x < p
    BY <1>5, <2>6, <2>9
  <2>13. Good(z, seen \cup page, to)
    BY <1>6, <2>6, <2>10, <2>11, <2>12, PageStep
  <2>14. seen \cup page = Own(u, from, m)
    BY <1>4, <1>5, <2>5, <2>7, <2>8, OwnSplit
  <2>15. CASE z.over
    <3>1. request'[s] = q /\ pc'[s] = "backlog"
      BY <1>8, <2>3, <2>15
    <3>2. CollectedOK(s)'
      BY <3>1 DEF CollectedOK
    <3> QED
      BY <1>1, <1>8, <2>3, <3>2, OwnSums
  <2>16. CASE ~ z.over
    <3>1. request'[s] = q /\ pc'[s] = "collect"
      BY <1>8, <2>3, <2>16
    <3>2. PICK own : own = Own(u, from, m)
      OBVIOUS
    <3>3. Right(z, own, to) /\ own \subseteq 1..to
      BY <2>9, <2>11, <2>13, <2>14, <2>16, <3>2 DEF Good
    <3>4. Right(z, own, to)'
      BY <1>7, <3>3, RightKept
    <3>5. Own(u, from, m)' = own
      BY <1>4, <1>7, <2>7, <3>2, OwnKept
    <3>6. Right(z, Own(u, from, m), to)'
      BY Zenon, <3>4, <3>5 DEF Right, LeftOut
    <3>7. CollectedOK(s)'
      BY <1>3, <1>5, <2>4, <2>7, <2>16, <3>1, <3>6 DEF CollectedOK
    <3> QED
      BY <1>1, <1>8, <2>3, <3>7, OwnSums
  <2> QED
    BY <2>15, <2>16
<1> QED
  BY <1>9, <1>10

LEMMA RightSame ==
  ASSUME UNCHANGED log, NEW a, NEW u, NEW x, NEW y, NEW n, Right(a, Own(u, x, y), n)
  PROVE  Right(a, Own(u, x, y), n)'
BY Zenon DEF Right, Own, Used, LeftOut, Sum, Scores

\* What a check-in of the past left out.
LEMMA PastSkipped ==
  ASSUME IInv, NEW u \in User, PastOK(u), NEW i \in DOMAIN history[u],
         NEW f \in history[u][i].summary.skipped
  PROVE  /\ f \in failures /\ log[f.position].body.owner = u
         /\ checkpoint[u] # Nobody /\ f.position \in Nat
         /\ f.position <= checkpoint[u].position
<1>1. PICK c, from, to : c = history[u][i] /\ from = c.from.position /\ to = c.to.position
  OBVIOUS
<1>2. /\ checkpoint[u] # Nobody /\ to <= checkpoint[u].position
      /\ IF ~ c.shown THEN c.summary = NoActivity ELSE Right(c.summary, Own(u, from, to), to)
      /\ f \in c.summary.skipped /\ f \in failures
  BY <1>1 DEF PastOK
<1>3. from \in Nat /\ to \in Nat
  BY <1>1, PastIs
<1>4. c.shown
  BY <1>2 DEF NoActivity
<1>5. f.position \in Own(u, from, to)
  BY <1>2, <1>4 DEF Right, Skipped
<1>6. f.position \in Nat /\ f.position <= to /\ log[f.position].body.owner = u
  BY <1>3, <1>5, OwnIs
<1>7. checkpoint[u].position \in Nat
  BY <1>2 DEF IInv, UserOK, InTime, Checkpoint
<1> QED
  BY <1>2, <1>3, <1>6, <1>7

\* A check-in commits: what it left out is quarantined, and what was stays so.
LEMMA CommitSums == ASSUME EInv, IInv', NEW s \in Session, Commit(s) PROVE EInv'
<1>1. /\ IInv /\ TypeOK /\ Requests /\ pc[s] = "commit" /\ CollectedOK(s)
      /\ Unlock(s) /\ Goto(s, "idle") /\ request' = [request EXCEPT ![s] = NoRequest]
      /\ UNCHANGED log
  BY DEF EInv, IInv, Commit
<1>2. PICK r, u, c, a, from, to :
        /\ r = request[s] /\ u = r.user /\ c = CheckedIn(r) /\ a = r.activity
        /\ from = r.saved.position /\ to = r.boundary.position
  OBVIOUS
<1>3. /\ c.from.position = from /\ c.to.position = to /\ c.shown = r.shown /\ c.summary = a
      /\ c.to = r.boundary
  BY <1>2 DEF CheckedIn
<1>4. /\ u \in User /\ r.boundary \in Checkpoint
      /\ from \in Nat /\ to \in Nat /\ from <= to /\ to <= Len(log)
      /\ checkpoint[u] = IF r.created THEN Nobody ELSE r.saved
  BY <1>1, <1>2, PeriodIs
<1>5. IF r.shown THEN Right(a, Own(u, from, to), to) ELSE a = NoActivity
  BY <1>1, <1>2 DEF CollectedOK
<1>6. /\ checkpoint' = [checkpoint EXCEPT ![u] = r.boundary]
      /\ history' = [history EXCEPT ![u] = Append(history[u], c)]
      /\ failures' = {f \in failures : \A g \in a.skipped : g.position # f.position} \cup a.skipped
  BY <1>2 DEF Commit
<1>7. /\ checkpoint'[u] = r.boundary /\ history'[u] = Append(history[u], c)
      /\ \A v \in User \ {u} : checkpoint'[v] = checkpoint[v] /\ history'[v] = history[v]
  BY <1>1, <1>4, <1>6 DEF IInv, TypeOK
<1>8. \A g \in a.skipped : /\ g.position \in Nat /\ from < g.position /\ g.position <= to
                           /\ log[g.position].body.owner = u
  <2>1. CASE r.shown
    <3>1. \A g \in a.skipped : g.position \in Own(u, from, to)
      BY <1>5, <2>1 DEF Right, Skipped
    <3> QED
      BY <1>4, <3>1, OwnIs
  <2>2. CASE ~ r.shown
    BY <1>5, <2>2 DEF NoActivity
  <2> QED
    BY <2>1, <2>2
<1>9. ASSUME NEW v \in User, NEW i \in DOMAIN history[v], NEW f \in history[v][i].summary.skipped
      PROVE  f \in failures'
  <2>1. /\ f \in failures /\ log[f.position].body.owner = v /\ f.position \in Nat
        /\ checkpoint[v] # Nobody /\ f.position <= checkpoint[v].position
    BY <1>1, PastSkipped DEF EInv
  <2>2. ASSUME NEW g \in a.skipped, g.position = f.position PROVE FALSE
    <3>1. v = u
      BY <1>8, <2>1, <2>2
    <3>2. checkpoint[u].position = from
      BY <1>2, <1>4, <2>1, <3>1
    <3> QED
      BY <1>4, <1>8, <2>1, <2>2, <3>1, <3>2
  <2> QED
    BY <1>6, <2>1, <2>2
<1>10. PICK h, n : h = history[u] /\ n = Len(h)
  OBVIOUS
<1>11. /\ n \in Nat /\ DOMAIN h = 1..n /\ DOMAIN history'[u] = 1..(n + 1)
       /\ history'[u][n + 1] = c /\ \A i \in 1..n : history'[u][i] = h[i]
  <2>1. PICK S : h \in Seq(S)
    BY <1>1, <1>4, <1>10 DEF IInv, UserOK
  <2>2. PICK g : g = Append(h, c)
    OBVIOUS
  <2>3. /\ h \in Seq(S \cup {c}) /\ n \in Nat /\ DOMAIN h = 1..n /\ DOMAIN g = 1..(n + 1)
        /\ g[n + 1] = c /\ \A i \in 1..n : g[i] = h[i]
    BY <1>10, <2>1, <2>2
  <2> QED
    BY <1>7, <1>10, <2>2, <2>3
<1>12. ASSUME NEW t \in Session PROVE CollectedOK(t)'
  <2>1. /\ pc'[s] = "idle"
        /\ \A w \in Session \ {s} : pc'[w] = pc[w] /\ request'[w] = request[w]
    BY <1>1, EndFacts
  <2>2. CASE t = s
    BY <2>1, <2>2 DEF CollectedOK
  <2>3. CASE t # s
    <3>1. Grows
      BY <1>1 DEF Grows, Kept, TypeOK
    <3> QED
      BY <1>1, <2>1, <2>3, <3>1, CollectedFrame DEF EInv
  <2> QED
    BY <2>2, <2>3
<1>13. PastOK(u)'
  <2>1. checkpoint'[u] # Nobody /\ checkpoint'[u].position = to
    BY <1>2, <1>4, <1>7, NobodyAssumption
  <2>2. /\ IF ~ c.shown THEN c.summary = NoActivity
           ELSE Right(c.summary, Own(u, c.from.position, c.to.position), c.to.position)'
        /\ c.summary.skipped \subseteq failures' /\ c.to.position <= to
    BY <1>1, <1>3, <1>4, <1>5, <1>6, RightSame
  <2>3. ASSUME NEW i \in 1..n
        PROVE  /\ h[i].to.position <= to
               /\ IF ~ h[i].shown THEN h[i].summary = NoActivity
                  ELSE Right(h[i].summary, Own(u, h[i].from.position, h[i].to.position),
                             h[i].to.position)'
               /\ h[i].summary.skipped \subseteq failures'
    <3>1. i \in DOMAIN history[u] /\ h[i] = history[u][i]
      BY <1>10, <1>11
    <3>2. PICK d, x, y : d = h[i] /\ x = d.from.position /\ y = d.to.position
      OBVIOUS
    <3>3. /\ checkpoint[u] # Nobody /\ y <= checkpoint[u].position
          /\ IF ~ d.shown THEN d.summary = NoActivity ELSE Right(d.summary, Own(u, x, y), y)
      BY <1>4, <3>1, <3>2 DEF EInv, PastOK
    <3>4. y \in Nat
      BY <1>1, <1>4, <3>1, <3>2, PastIs DEF EInv
    <3>5. y <= to
      BY <1>2, <1>4, <3>3, <3>4
    <3>6. IF ~ d.shown THEN d.summary = NoActivity ELSE Right(d.summary, Own(u, x, y), y)'
      BY <1>1, <3>3, RightSame
    <3>7. d.summary.skipped \subseteq failures'
      BY <1>4, <1>9, <3>1, <3>2
    <3> QED
      BY <3>2, <3>5, <3>6, <3>7
  <2> QED
    BY <1>11, <2>1, <2>2, <2>3 DEF PastOK
<1>14. ASSUME NEW v \in User PROVE PastOK(v)'
  <2>1. CASE v = u
    BY <1>13, <2>1
  <2>2. CASE v # u
    <3>1. Grows
      BY <1>1 DEF Grows, Kept, TypeOK
    <3>2. \A i \in DOMAIN history[v] : history[v][i].summary.skipped \subseteq failures'
      BY <1>9
    <3> QED
      BY <1>1, <1>7, <2>2, <3>1, <3>2, PastFrame DEF EInv
  <2> QED
    BY <2>1, <2>2
<1>15. ASSUME NEW f \in failures'
       PROVE  /\ f.position \in 1..Len(log)
              /\ \E i \in DOMAIN history'[log[f.position].body.owner] :
                   f \in history'[log[f.position].body.owner][i].summary.skipped
  <2>1. CASE f \in a.skipped
    <3>1. f.position \in 1..Len(log) /\ log[f.position].body.owner = u
      BY <1>1, <1>4, <1>8, <2>1 DEF TypeOK
    <3>2. n + 1 \in DOMAIN history'[u] /\ f \in history'[u][n + 1].summary.skipped
      BY <1>3, <1>11, <2>1
    <3> QED
      BY <3>1, <3>2
  <2>2. CASE f \in failures
    <3>1. PICK w : w = log[f.position].body.owner
      OBVIOUS
    <3>2. f.position \in 1..Len(log)
      BY <2>2 DEF EInv, FailuresOK
    <3>3. PICK i \in DOMAIN history[w] : f \in history[w][i].summary.skipped
      BY <2>2, <3>1 DEF EInv, FailuresOK, QuarantineIsCommitted
    <3>4. w \in User
      <4>1. log \in Seq(Event)
        BY <1>1 DEF TypeOK
      <4>2. log[f.position] \in Event
        BY <3>2, <4>1
      <4>3. log[f.position].body \in Body
        BY <4>2 DEF Event
      <4> QED
        BY <3>1, <4>3 DEF Body
    <3>5. i \in DOMAIN history'[w] /\ history'[w][i] = history[w][i]
      <4>1. CASE w = u
        BY <1>10, <1>11, <3>3, <4>1
      <4>2. CASE w # u
        BY <1>7, <3>3, <3>4, <4>2
      <4> QED
        BY <4>1, <4>2
    <3> QED
      BY <3>1, <3>2, <3>3, <3>5
  <2> QED
    BY <1>6, <2>1, <2>2
<1>16. FailuresOK'
  BY <1>1, <1>15 DEF FailuresOK, QuarantineIsCommitted
<1> QED
  BY <1>12, <1>14, <1>16 DEF EInv

LEMMA InitSums == Init => EInv
<1> SUFFICES ASSUME Init PROVE EInv
  OBVIOUS
<1>1. IInv
  BY InitInv
<1>2. \A s \in Session : CollectedOK(s)
  BY DEF Init, CollectedOK
<1>3. DOMAIN <<>> = {}
  OBVIOUS
<1>4. \A u \in User : PastOK(u)
  BY <1>3 DEF Init, PastOK
<1>5. FailuresOK
  BY DEF Init, FailuresOK, QuarantineIsCommitted
<1> QED
  BY <1>1, <1>2, <1>4, <1>5 DEF EInv

LEMMA StepSums == EInv /\ [Next]_vars => EInv'
<1> SUFFICES ASSUME EInv, [Next]_vars PROVE EInv'
  OBVIOUS
<1>1. IInv'
  BY StepInv DEF EInv
<1>2. CASE UNCHANGED vars
  <2>1. /\ Len(log) \in Nat /\ log' = log /\ Len(log') = Len(log)
        /\ UNCHANGED <<checkpoint, failures, pc, request, history>>
    BY <1>2 DEF vars, EInv, IInv, TypeOK
  <2>2. Grows /\ Len(log) <= Len(log')
    BY <2>1 DEF Grows, Kept
  <2> QED
    BY <1>1, <2>1, <2>2, QuietSums
<1> QED
  BY <1>1, <1>2, WorldSums, EarlySums, BoundarySums, CollectSums, CommitSums DEF Next, Step

LEMMA SumsInv == Spec => []EInv
BY InitSums, StepSums, PTL DEF Spec

-----------------------------------------------------------------------------
(***************************************************************************)
(* A summary shows exactly the user's own events of the period it names,   *)
(* whatever was published or raced while it was collected page by page:    *)
(* the sums, the best score, the number of rewards, and every event left   *)
(* out is quarantined for a reason.                                        *)
(***************************************************************************)
THEOREM SummariesExact == Spec => []SummariesAreExact
<1>1. ASSUME EInv PROVE SummariesAreExact
  <2> SUFFICES ASSUME NEW u \in User, NEW i \in DOMAIN history[u]
               PROVE  LET c == history[u][i] IN
                      IF ~ c.shown THEN c.summary = NoActivity
                      ELSE /\ Exact(c.summary, Own(u, c.from.position, c.to.position), c.to.position)
                           /\ c.summary.skipped \subseteq failures
    BY DEF SummariesAreExact
  <2>1. PICK c, from, to, own : /\ c = history[u][i] /\ from = c.from.position
                                /\ to = c.to.position /\ own = Own(u, from, to)
    OBVIOUS
  <2>2. /\ IF ~ c.shown THEN c.summary = NoActivity ELSE Right(c.summary, own, to)
        /\ c.summary.skipped \subseteq failures
    BY <1>1, <2>1 DEF EInv, PastOK
  <2>3. from \in Nat /\ to \in Nat /\ LogTo(to)
    BY <1>1, <2>1, PastIs DEF EInv
  <2>4. Within(own, to)
    BY <2>1, <2>3, OwnIs DEF Within
  <2>5. c.shown => Exact(c.summary, own, to)
    BY <2>2, <2>4, RightIsExact
  <2> QED
    BY <2>1, <2>2, <2>5
<1> QED
  BY <1>1, SumsInv, PTL

(***************************************************************************)
(* An event is quarantined by a committed check-in of its owner that       *)
(* passed over it, and stays so: no rolled-back request leaves a failure.  *)
(***************************************************************************)
THEOREM QuarantineCommitted == Spec => []QuarantineIsCommitted
<1>1. EInv => QuarantineIsCommitted
  BY DEF EInv, FailuresOK
<1> QED
  BY <1>1, SumsInv, PTL
=============================================================================
