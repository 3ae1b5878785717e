-------------------------- MODULE EventStoreProofs --------------------------
(***************************************************************************)
(* Theorems about EventStore, for every number of sessions, owners,        *)
(* streams, commands and plans: the log is without gaps, versions follow   *)
(* one another, a command is stored whole and once, an acknowledged one as *)
(* it was acknowledged, a version conflict means it is not stored, and a   *)
(* transaction is one atomic publication to the log of module EventLog.    *)
(***************************************************************************)
EXTENDS EventStore, SequenceTheorems, WellFoundedInduction, TLAPS

-----------------------------------------------------------------------------
(* What a running session works on has the expected types. *)

LEMMA NoDraftType == NoDraft \in Draft /\ NoStream \in StreamRow
BY DEF NoDraft, Draft, NoStream, StreamRow

LEMMA CurrentType ==
  ASSUME TypeOK, NEW s \in Session, pc[s] # "idle"
  PROVE  /\ job[s].plan \in Seq(Command)
         /\ Current(s) \in Command
         /\ Current(s).events \in Seq(PendingEvent)
         /\ job[s].next \in 1..Len(Current(s).events)
         /\ Pending(s) \in PendingEvent
         /\ Current(s).owner \in Owner
         /\ Current(s).id \in CommandId
         /\ KeyOf(Current(s)) \in Key
<1>1. job[s] \in Job /\ job[s].plan # <<>> /\ job[s].at \in 1..Len(job[s].plan)
  BY DEF TypeOK
<1>2. job[s].plan \in Seq(Command)
  BY <1>1, PlanAssumption DEF Job
<1>3. Current(s) \in Command
  BY <1>1, <1>2 DEF Current
<1>4. Current(s) \in [owner : Owner, id : CommandId, events : Seq(PendingEvent)]
  BY <1>3, CommandAssumption
<1>5. job[s].next \in 1..Len(Current(s).events)
  BY DEF TypeOK, Current
<1>6. Pending(s) \in PendingEvent
  BY <1>4, <1>5 DEF Pending
<1> QED BY <1>2, <1>3, <1>4, <1>5, <1>6 DEF KeyOf, Key

LEMMA ViewType ==
  ASSUME TypeOK, NEW s \in Session
  PROVE  View(s) \in Draft
BY DEF TypeOK, View, Draft

LEMMA WrittenType ==
  ASSUME NEW c \in Command, NEW i \in 1..Len(c.events), NEW view \in Draft
  PROVE  NewRow(c, i, view) \in Row /\ Written(c, i, view) \in Draft
<1>1. c \in [owner : Owner, id : CommandId, events : Seq(PendingEvent)]
  BY CommandAssumption
<1>2. c.events[i] \in PendingEvent
  BY <1>1
<1>3. view.last \in Nat /\ view.streams \in [Stream -> StreamRow] /\ view.rows \subseteq Row
  BY DEF Draft
<1>4. view.streams[c.events[i].stream].version \in Nat
  BY <1>2, <1>3 DEF PendingEvent, StreamRow
<1>5. NewRow(c, i, view) \in Row
  BY <1>1, <1>2, <1>3, <1>4 DEF NewRow, Row, PendingEvent
<1>6. [owner |-> c.owner, version |-> NewRow(c, i, view).version] \in StreamRow
  BY <1>1, <1>5 DEF Row, StreamRow
<1> QED BY <1>3, <1>5, <1>6 DEF Written, Draft, Row

LEMMA FinishCommandType ==
  ASSUME TypeOK, NEW s \in Session, pc[s] # "idle", FinishCommand(s)
  PROVE  /\ pc' \in [Session -> Phase]
         /\ job' \in [Session -> Job]
         /\ \A t \in Session : pc'[t] # "idle" =>
              /\ job'[t].plan # <<>>
              /\ job'[t].at \in 1..Len(job'[t].plan)
              /\ job'[t].next \in 1..Len(job'[t].plan[job'[t].at].events)
<1>1. job[s].plan \in Seq(Command) /\ job[s].at \in 1..Len(job[s].plan) /\ job[s].plan # <<>>
  BY CurrentType DEF TypeOK
<1>2. CASE job[s].at < Len(job[s].plan)
  <2>1. job[s].at + 1 \in 1..Len(job[s].plan)
    BY <1>1, <1>2
  <2>2. job[s].plan[job[s].at + 1] \in Command
    BY <1>1, <2>1
  <2>3. 1 \in 1..Len(job[s].plan[job[s].at + 1].events)
    BY <2>2, CommandAssumption
  <2>4. /\ job' = [job EXCEPT ![s].at = @ + 1, ![s].next = 1]
        /\ pc' = [pc EXCEPT ![s] = "lock"]
    BY <1>2 DEF FinishCommand
  <2>5. pc' \in [Session -> Phase] /\ job' \in [Session -> Job]
    <3>1. pc' \in [Session -> Phase]
      BY <2>4 DEF TypeOK, Phase
    <3>2. job[s] \in Job /\ job[s].at + 1 \in Nat /\ job \in [Session -> Job]
      BY <2>1 DEF TypeOK, Job
    <3>3. [job[s] EXCEPT !.at = job[s].at + 1, !.next = 1] \in Job
      BY <3>2 DEF Job
    <3> QED BY <2>4, <3>1, <3>2, <3>3
  <2>6. /\ job'[s].plan = job[s].plan
        /\ job'[s].at = job[s].at + 1
        /\ job'[s].next = 1
    BY <2>4 DEF TypeOK, Job
  <2>7. \A t \in Session : t # s => job'[t] = job[t] /\ pc'[t] = pc[t]
    BY <2>4 DEF TypeOK
  <2> QED BY <1>1, <2>1, <2>3, <2>5, <2>6, <2>7 DEF TypeOK
<1>3. CASE ~(job[s].at < Len(job[s].plan))
  <2>1. pc' = [pc EXCEPT ![s] = "commit"] /\ job' = job
    BY <1>3 DEF FinishCommand
  <2> QED BY <2>1 DEF TypeOK, Phase
<1> QED BY <1>2, <1>3

LEMMA EndWithType ==
  ASSUME TypeOK, NEW s \in Session, NEW verdict \in Outcome, EndWith(s, verdict)
  PROVE  /\ positionLock' \in Session \cup {None}
         /\ commandLock' \in [Key -> Session \cup {None}]
         /\ pc' \in [Session -> Phase]
         /\ job' \in [Session -> Job]
         /\ draft' \in [Session -> Draft]
         /\ reply' \in [Session -> SUBSET Row]
         /\ outcome' \in [Session -> Outcome]
         /\ begun' \in Nat
         /\ \A t \in Session : pc'[t] # "idle" =>
              /\ job'[t].plan # <<>>
              /\ job'[t].at \in 1..Len(job'[t].plan)
              /\ job'[t].next \in 1..Len(job'[t].plan[job'[t].at].events)
BY NoDraftType DEF TypeOK, EndWith, Release, Phase

-----------------------------------------------------------------------------
(* Type correctness. *)

LEMMA InitType == Init => TypeOK
BY NoDraftType, BoundAssumption
   DEF Init, TypeOK, Phase, Outcome, Job, NoJob, NoStream, StreamRow

LEMMA StepType == TypeOK /\ [Next]_vars => TypeOK'
<1> SUFFICES ASSUME TypeOK, [Next]_vars PROVE TypeOK'
  OBVIOUS
<1>1. CASE UNCHANGED vars
  BY <1>1 DEF vars, TypeOK
<1>2. ASSUME NEW s \in Session, Begin(s) PROVE TypeOK'
  <2>1. PICK p \in Plan :
          job' = [job EXCEPT ![s] = [plan |-> p, at |-> 1, next |-> 1, seen |-> NoStream]]
    BY <1>2 DEF Begin
  <2>2. p # <<>> /\ p \in Seq(Command)
    BY PlanAssumption
  <2>3. 1 \in 1..Len(p) /\ p[1] \in Command
    BY <2>2
  <2>4. 1 \in 1..Len(p[1].events)
    BY <2>3, CommandAssumption
  <2>5. job' \in [Session -> Job]
    BY <2>1, NoDraftType DEF TypeOK, Job
  <2>6. /\ job'[s].plan = p /\ job'[s].at = 1 /\ job'[s].next = 1
        /\ \A t \in Session : t # s => job'[t] = job[t] /\ pc'[t] = pc[t]
    BY <1>2, <2>1 DEF TypeOK, Begin
  <2>7. \A t \in Session : pc'[t] # "idle" =>
          /\ job'[t].plan # <<>>
          /\ job'[t].at \in 1..Len(job'[t].plan)
          /\ job'[t].next \in 1..Len(job'[t].plan[job'[t].at].events)
    BY <2>2, <2>3, <2>4, <2>6 DEF TypeOK
  <2> QED BY <1>2, <2>5, <2>7 DEF TypeOK, Begin, Phase, Outcome
<1>3. ASSUME NEW s \in Session, LockCommand(s) PROVE TypeOK'
  <2>1. pc[s] # "idle" /\ KeyOf(Current(s)) \in Key
    BY <1>3, CurrentType DEF LockCommand
  <2> QED BY <1>3, <2>1 DEF TypeOK, LockCommand, Phase
<1>4. ASSUME NEW s \in Session, ListByCommandID(s) PROVE TypeOK'
  <2> DEFINE existing == StoredOf(Current(s), Visible(s))
  <2>1. pc[s] # "idle" /\ existing \subseteq Row
    BY <1>4 DEF ListByCommandID, StoredOf, Visible, TypeOK, Draft
  <2>2. CASE pc' = [pc EXCEPT ![s] = "append"] /\ UNCHANGED <<job, reply, outcome>>
    BY <1>4, <2>2 DEF TypeOK, ListByCommandID, Phase
  <2>3. CASE FinishCommand(s) /\ reply' = [reply EXCEPT ![s] = @ \cup existing]
             /\ UNCHANGED outcome
    <3>1. reply' \in [Session -> SUBSET Row]
      BY <2>1, <2>3 DEF TypeOK
    <3> QED BY <1>4, <2>1, <2>3, <3>1, FinishCommandType DEF TypeOK, ListByCommandID
  <2>4. CASE /\ outcome' = [outcome EXCEPT ![s] = "idempotency_conflict"]
             /\ pc' = [pc EXCEPT ![s] = "abort"]
             /\ UNCHANGED <<job, reply>>
    BY <1>4, <2>1, <2>4 DEF TypeOK, ListByCommandID, Phase, Outcome
  <2> QED BY <1>4, <2>2, <2>3, <2>4 DEF ListByCommandID
<1>5. ASSUME NEW s \in Session, StartAppend(s) PROVE TypeOK'
  <2>1. View(s).streams[Pending(s).stream] \in StreamRow
    BY <1>5, CurrentType, ViewType DEF StartAppend, Draft, PendingEvent
  <2>2. job' \in [Session -> Job]
    BY <1>5, <2>1 DEF StartAppend, TypeOK, Job
  <2>3. \A t \in Session : /\ job'[t].plan = job[t].plan
                           /\ job'[t].at = job[t].at
                           /\ job'[t].next = job[t].next
    BY <1>5 DEF StartAppend, TypeOK, Job
  <2> QED BY <1>5, <2>2, <2>3 DEF TypeOK, StartAppend, Phase
<1>6. ASSUME NEW s \in Session, RunAppend(s) PROVE TypeOK'
  <2> DEFINE c == Current(s)
             i == job[s].next
             view == View(s)
             verdict == AppendVerdict(c, i, job[s].seen, view.streams[Pending(s).stream],
                                      Visible(s))
  <2>1. /\ pc[s] # "idle" /\ c \in Command /\ i \in 1..Len(c.events) /\ view \in Draft
        /\ verdict \in Outcome
    BY <1>6, CurrentType, ViewType DEF RunAppend, AppendVerdict, Outcome
  <2>2. NewRow(c, i, view) \in Row /\ Written(c, i, view) \in Draft
    BY <2>1, WrittenType
  <2>3. positionLock' = s /\ UNCHANGED <<rows, lastPosition, streams, commandLock, begun>>
    BY <1>6 DEF RunAppend
  <2>4. CASE /\ draft' = [draft EXCEPT ![s] = Written(c, i, view)]
             /\ reply' = [reply EXCEPT ![s] = @ \cup {NewRow(c, i, view)}]
             /\ i < Len(c.events)
             /\ job' = [job EXCEPT ![s].next = @ + 1]
             /\ pc' = [pc EXCEPT ![s] = "append"]
             /\ UNCHANGED outcome
    <3>1. draft' \in [Session -> Draft] /\ reply' \in [Session -> SUBSET Row]
      BY <2>2, <2>4 DEF TypeOK
    <3>2. job' \in [Session -> Job] /\ pc' \in [Session -> Phase]
      <4>1. job[s] \in Job /\ job[s].next + 1 \in Nat /\ job \in [Session -> Job]
        BY <2>1 DEF TypeOK, Job
      <4>2. [job[s] EXCEPT !.next = job[s].next + 1] \in Job
        BY <4>1 DEF Job
      <4> QED BY <2>4, <4>1, <4>2 DEF TypeOK, Phase
    <3>3. /\ job'[s].plan = job[s].plan /\ job'[s].at = job[s].at
          /\ job'[s].next = job[s].next + 1
          /\ \A t \in Session : t # s => job'[t] = job[t] /\ pc'[t] = pc[t]
      BY <2>4 DEF TypeOK, Job
    <3>4. job'[s].next \in 1..Len(job'[s].plan[job'[s].at].events)
      BY <2>1, <2>4, <3>3 DEF Current
    <3> QED BY <2>1, <2>3, <2>4, <3>1, <3>2, <3>3, <3>4 DEF TypeOK
  <2>5. CASE /\ draft' = [draft EXCEPT ![s] = Written(c, i, view)]
             /\ reply' = [reply EXCEPT ![s] = @ \cup {NewRow(c, i, view)}]
             /\ FinishCommand(s)
             /\ UNCHANGED outcome
    <3>1. draft' \in [Session -> Draft] /\ reply' \in [Session -> SUBSET Row]
      BY <2>2, <2>5 DEF TypeOK
    <3> QED BY <2>1, <2>3, <2>5, <3>1, FinishCommandType DEF TypeOK
  <2>6. CASE /\ draft' = [draft EXCEPT ![s] = view]
             /\ outcome' = [outcome EXCEPT ![s] = verdict]
             /\ pc' = [pc EXCEPT ![s] = "abort"]
             /\ UNCHANGED <<job, reply>>
    BY <2>1, <2>3, <2>6 DEF TypeOK, Phase
  <2> QED BY <1>6, <2>4, <2>5, <2>6 DEF RunAppend
<1>7. ASSUME NEW s \in Session, Commit(s) PROVE TypeOK'
  <2>1. View(s) \in Draft /\ draft[s] \in Draft
    BY ViewType DEF TypeOK
  <2>2. rows' \subseteq Row /\ lastPosition' \in Nat /\ streams' \in [Stream -> StreamRow]
    BY <1>7, <2>1 DEF Commit, TypeOK, Draft
  <2>3. PICK verdict \in {"ok", "failed"} : EndWith(s, verdict)
    BY <1>7 DEF Commit
  <2>4. verdict \in Outcome
    BY DEF Outcome
  <2> QED BY <2>2, <2>3, <2>4, EndWithType DEF TypeOK
<1>8. ASSUME NEW s \in Session, Rollback(s) \/ Fail(s) \/ DeadlockAbort(s) PROVE TypeOK'
  <2>1. UNCHANGED <<rows, lastPosition, streams>>
    BY <1>8 DEF Rollback, Fail, DeadlockAbort
  <2>2. PICK verdict \in Outcome : EndWith(s, verdict)
    BY <1>8 DEF Rollback, Fail, DeadlockAbort, TypeOK, Outcome
  <2> QED BY <2>1, <2>2, EndWithType DEF TypeOK
<1> QED BY <1>1, <1>2, <1>3, <1>4, <1>5, <1>6, <1>7, <1>8 DEF Next, Step

(***************************************************************************)
(* Every variable of Publish and of the database keeps its type, and a     *)
(* running session always stands at an existing event of an existing       *)
(* command of its plan: the loops of Publish never run past their ends.    *)
(***************************************************************************)
THEOREM TypeCorrect == Spec => []TypeOK
BY InitType, StepType, PTL DEF Spec

-----------------------------------------------------------------------------
(***************************************************************************)
(* Consistency of the store.  NoPositionGap and StreamsFollowEvents speak  *)
(* of the committed tables only and are not inductive: a commit installs a *)
(* draft, so the draft must have been consistent with everything committed *)
(* since it was begun.  DraftsConsistent says so, and that only the holder *)
(* of the position row has one.                                            *)
(***************************************************************************)
IInv == TypeOK /\ NoPositionGap /\ StreamsFollowEvents /\ DraftsConsistent

\* One append to a consistent view leaves a consistent view.
LEMMA AppendConsistent ==
  ASSUME NEW c \in Command, NEW i \in 1..Len(c.events), NEW view \in Draft,
         NEW R \in SUBSET Row, NEW seen,
         PositionsDense(R, view.last), StreamsDense(R, view.streams),
         CanAdvance(c, c.events[i], seen, view.streams[c.events[i].stream])
  PROVE  /\ PositionsDense(R \cup {NewRow(c, i, view)}, Written(c, i, view).last)
         /\ StreamsDense(R \cup {NewRow(c, i, view)}, Written(c, i, view).streams)
<1> DEFINE r == NewRow(c, i, view)
           w == Written(c, i, view)
           st == c.events[i].stream
           old == view.streams[st]
<1>1. r \in Row /\ w \in Draft
  BY WrittenType
<1>2. /\ r.pos = view.last + 1 /\ w.last = view.last + 1 /\ r.stream = st
      /\ r.version = old.version + 1 /\ r.owner = c.owner
      /\ w.streams = [view.streams EXCEPT ![st] = [owner |-> c.owner, version |-> r.version]]
  BY DEF NewRow, Written
<1>3. view.last \in Nat /\ view.streams \in [Stream -> StreamRow] /\ st \in Stream
      /\ old.version \in Nat
  BY <1>1, <1>2 DEF Draft, Row, StreamRow
<1>4. PositionsDense(R \cup {r}, w.last)
  <2>1. \A q \in R \cup {r} : q.pos \in 1..w.last
    BY <1>2, <1>3 DEF PositionsDense
  <2>2. \A p \in 1..w.last : \E q \in R \cup {r} : q.pos = p
    BY <1>2, <1>3 DEF PositionsDense
  <2>3. \A q \in R : q.pos # r.pos
    BY <1>2, <1>3 DEF PositionsDense
  <2> QED BY <2>1, <2>2, <2>3 DEF PositionsDense
<1>5. StreamsDense(R \cup {r}, w.streams)
  <2>1. /\ w.streams[st].version = old.version + 1 /\ w.streams[st].owner = c.owner
        /\ \A t \in Stream \ {st} : w.streams[t] = view.streams[t]
    BY ONLY <1>2, <1>3
  <2>2. old.version = 0 \/ old.owner = c.owner
    BY DEF CanAdvance
  <2>3. \A q \in R \cup {r} : /\ q.version \in 1..w.streams[q.stream].version
                            /\ q.owner = w.streams[q.stream].owner
    <3>1. ASSUME NEW q \in R
          PROVE  /\ q.version \in 1..w.streams[q.stream].version
                 /\ q.owner = w.streams[q.stream].owner
      <4>1. /\ q.version \in 1..view.streams[q.stream].version
            /\ q.owner = view.streams[q.stream].owner
            /\ q.stream \in Stream
        BY DEF StreamsDense, Row
      <4>2. CASE q.stream = st
        BY <1>3, <2>1, <2>2, <4>1, <4>2
      <4>3. CASE q.stream # st
        BY <2>1, <4>1, <4>3
      <4> QED BY <4>2, <4>3
    <3>2. r.version \in 1..w.streams[r.stream].version /\ r.owner = w.streams[r.stream].owner
      <4>1. /\ r.stream = st /\ r.version = old.version + 1 /\ r.owner = c.owner
            /\ old.version \in Nat
        BY <1>2, <1>3, Zenon
      <4>2. w.streams[st].version = old.version + 1 /\ w.streams[st].owner = c.owner
        BY <2>1, Zenon
      <4>3. \A n \in Nat : n + 1 \in 1..(n + 1)
        OBVIOUS
      <4> QED BY <4>1, <4>2, <4>3, Zenon
    <3> QED BY <3>1, <3>2
  <2>4. ASSUME NEW t \in Stream, NEW v \in 1..w.streams[t].version
        PROVE  \E q \in R \cup {r} : q.stream = t /\ q.version = v
    <3>1. CASE t = st /\ v = old.version + 1
      BY <1>2, <3>1
    <3>2. CASE t = st /\ v # old.version + 1
      <4>1. v \in 1..view.streams[t].version
        <5>1. t = st /\ v # old.version + 1 /\ w.streams[st].version = old.version + 1
          BY <2>1, <3>2, Zenon
        <5>2. old.version \in Nat /\ v \in 1..(old.version + 1)
          BY <1>3, <5>1, Zenon
        <5>3. v \in 1..old.version
          BY ONLY <5>1, <5>2
        <5> QED BY <5>1, <5>3, Zenon
      <4> QED BY <4>1 DEF StreamsDense
    <3>3. CASE t # st
      BY <2>1, <3>3 DEF StreamsDense
    <3> QED BY <3>1, <3>2, <3>3
  <2>5. \A q \in R : ~(q.stream = r.stream /\ q.version = r.version)
    BY <1>2, <1>3 DEF StreamsDense
  <2> QED BY <2>3, <2>4, <2>5 DEF StreamsDense
<1> QED BY <1>4, <1>5

\* A session that may write sees a consistent view, ahead of the committed one.
LEMMA ViewConsistent ==
  ASSUME IInv, NEW s \in Session, positionLock \in {None, s}
  PROVE  /\ View(s).rows = draft[s].rows
         /\ PositionsDense(rows \cup View(s).rows, View(s).last)
         /\ StreamsDense(rows \cup View(s).rows, View(s).streams)
         /\ \A r \in View(s).rows : r.pos > lastPosition
         /\ View(s).last >= lastPosition
<1>1. CASE positionLock = s
  <2>1. View(s) = draft[s] /\ draft[s] \in Draft
    BY <1>1 DEF View, IInv, TypeOK
  <2>2. PositionsDense(rows \cup draft[s].rows, draft[s].last)
    BY <1>1 DEF IInv, DraftsConsistent
  <2>3. draft[s].last >= lastPosition
    <3>1. lastPosition \in Nat /\ draft[s].last \in Nat
      BY <2>1 DEF IInv, TypeOK, Draft
    <3>2. lastPosition = 0 \/ \E r \in rows : r.pos = lastPosition
      BY <3>1 DEF IInv, NoPositionGap, PositionsDense
    <3> QED BY <2>2, <3>1, <3>2 DEF PositionsDense
  <2> QED BY <1>1, <2>1, <2>2, <2>3 DEF IInv, DraftsConsistent
<1>2. CASE positionLock = None
  <2>1. positionLock # s
    BY <1>2, NoneAssumption
  <2>2. /\ View(s) = [rows |-> {}, last |-> lastPosition, streams |-> streams]
        /\ draft[s].rows = {}
    BY <2>1 DEF View, IInv, DraftsConsistent
  <2>3. rows \cup View(s).rows = rows
    BY <2>2
  <2>4. lastPosition \in Nat
    BY DEF IInv, TypeOK
  <2> QED BY <2>2, <2>3, <2>4 DEF IInv, NoPositionGap, StreamsFollowEvents
<1> QED BY <1>1, <1>2

\* The end of a transaction of s leaves at most the drafts of the others.
LEMMA EndWithDrafts ==
  ASSUME IInv, NEW s \in Session, NEW verdict, EndWith(s, verdict)
  PROVE  /\ positionLock' # s /\ draft'[s].rows = {}
         /\ \A t \in Session \ {s} :
              /\ draft'[t] = draft[t] /\ pc'[t] = pc[t]
              /\ positionLock' = t <=> positionLock = t
<1>1. s # None /\ \A t \in Session : t # None
  BY NoneAssumption
<1>2. positionLock' = IF positionLock = s THEN None ELSE positionLock
  BY DEF EndWith, Release
<1>3. draft'[s] = NoDraft /\ \A t \in Session \ {s} : draft'[t] = draft[t] /\ pc'[t] = pc[t]
  BY DEF EndWith, IInv, TypeOK
<1> QED BY <1>1, <1>2, <1>3 DEF NoDraft

LEMMA InitInv == Init => IInv
<1> SUFFICES ASSUME Init PROVE IInv
  OBVIOUS
<1>1. TypeOK
  BY InitType
<1>2. NoPositionGap
  BY DEF Init, NoPositionGap, PositionsDense
<1>3. StreamsFollowEvents
  BY DEF Init, StreamsFollowEvents, StreamsDense, NoStream
<1>4. DraftsConsistent
  BY NoneAssumption DEF Init, DraftsConsistent, NoDraft
<1> QED BY <1>1, <1>2, <1>3, <1>4 DEF IInv

LEMMA StepInv == IInv /\ [Next]_vars => IInv'
<1> SUFFICES ASSUME IInv, [Next]_vars PROVE IInv'
  OBVIOUS
<1> USE DEF NoPositionGap, StreamsFollowEvents
<1>1. TypeOK'
  BY StepType DEF IInv
<1>2. ASSUME UNCHANGED <<rows, lastPosition, streams, positionLock, draft>>,
             \A t \in Session : pc'[t] = "idle" => positionLock # t
      PROVE  IInv'
  BY <1>1, <1>2 DEF IInv, DraftsConsistent
<1>3. CASE UNCHANGED vars
  BY <1>2, <1>3 DEF vars, IInv, DraftsConsistent
<1>4. ASSUME NEW s \in Session,
             Begin(s) \/ LockCommand(s) \/ ListByCommandID(s) \/ StartAppend(s)
      PROVE  IInv'
  <2>1. UNCHANGED <<rows, lastPosition, streams, positionLock, draft>>
    BY <1>4 DEF Begin, LockCommand, ListByCommandID, StartAppend
  <2>2. /\ \A t \in Session \ {s} : pc'[t] = pc[t]
        /\ pc'[s] # "idle"
    BY <1>4 DEF Begin, LockCommand, ListByCommandID, StartAppend, FinishCommand, IInv, TypeOK
  <2> QED BY <1>2, <2>1, <2>2 DEF IInv, DraftsConsistent
<1>5. ASSUME NEW s \in Session, RunAppend(s) PROVE IInv'
  <2> DEFINE c == Current(s)
             i == job[s].next
             view == View(s)
             latest == view.streams[Pending(s).stream]
             verdict == AppendVerdict(c, i, job[s].seen, latest, Visible(s))
  <2>1. /\ positionLock \in {None, s} /\ positionLock' = s
        /\ UNCHANGED <<rows, lastPosition, streams>>
    BY <1>5 DEF RunAppend, PositionFree
  <2>2. /\ PositionsDense(rows \cup view.rows, view.last)
        /\ StreamsDense(rows \cup view.rows, view.streams)
        /\ \A r \in view.rows : r.pos > lastPosition
        /\ view.last >= lastPosition
    BY <2>1, ViewConsistent
  <2>3. /\ c \in Command /\ i \in 1..Len(c.events) /\ view \in Draft
        /\ Pending(s) = c.events[i] /\ rows \cup view.rows \subseteq Row
    BY <1>5, CurrentType, ViewType DEF RunAppend, IInv, Pending, Draft, TypeOK
  <2>4. \A t \in Session \ {s} : draft'[t] = draft[t] /\ pc'[t] = pc[t] /\ positionLock # t
    BY <1>5, <2>1, NoneAssumption DEF RunAppend, FinishCommand, IInv, TypeOK
  <2>5. pc'[s] # "idle"
    BY <1>5 DEF RunAppend, FinishCommand, IInv, TypeOK
  <2>6. /\ PositionsDense(rows \cup draft'[s].rows, draft'[s].last)
        /\ StreamsDense(rows \cup draft'[s].rows, draft'[s].streams)
        /\ \A r \in draft'[s].rows : r.pos > lastPosition
    <3>1. CASE verdict = "ok" /\ draft' = [draft EXCEPT ![s] = Written(c, i, view)]
      <4>1. CanAdvance(c, c.events[i], job[s].seen, view.streams[c.events[i].stream])
        BY <2>3, <3>1 DEF AppendVerdict
      <4>2. /\ PositionsDense((rows \cup view.rows) \cup {NewRow(c, i, view)},
                              Written(c, i, view).last)
            /\ StreamsDense((rows \cup view.rows) \cup {NewRow(c, i, view)},
                            Written(c, i, view).streams)
        BY <2>2, <2>3, <4>1, AppendConsistent
      <4>3. draft'[s] = Written(c, i, view)
        BY <3>1 DEF IInv, TypeOK
      <4>4. Written(c, i, view).rows = view.rows \cup {NewRow(c, i, view)}
        BY DEF Written
      <4>5. NewRow(c, i, view).pos > lastPosition
        BY <2>2, <2>3 DEF NewRow, Draft, IInv, TypeOK
      <4>6. rows \cup draft'[s].rows = (rows \cup view.rows) \cup {NewRow(c, i, view)}
        BY <4>3, <4>4
      <4> QED BY <2>2, <4>2, <4>3, <4>4, <4>5, <4>6
    <3>2. CASE draft' = [draft EXCEPT ![s] = view]
      BY <2>2, <3>2 DEF IInv, TypeOK
    <3> QED BY <1>5, <3>1, <3>2 DEF RunAppend
  <2>7. DraftsConsistent'
    BY <2>1, <2>4, <2>5, <2>6 DEF IInv, DraftsConsistent
  <2> QED BY <1>1, <2>1, <2>7 DEF IInv
<1>6. ASSUME NEW s \in Session, Commit(s) PROVE IInv'
  <2>1. PICK verdict \in {"ok", "failed"} : EndWith(s, verdict)
    BY <1>6 DEF Commit
  <2>2. /\ positionLock' # s /\ draft'[s].rows = {}
        /\ \A t \in Session \ {s} :
             /\ draft'[t] = draft[t] /\ pc'[t] = pc[t]
             /\ positionLock' = t <=> positionLock = t
    BY <2>1, EndWithDrafts
  <2>3. CASE positionLock = s
    <3>1. /\ rows' = rows \cup View(s).rows /\ lastPosition' = View(s).last
          /\ streams' = View(s).streams
      BY <1>6, <2>3, ViewConsistent DEF Commit
    <3>2. NoPositionGap' /\ StreamsFollowEvents'
      BY <2>3, <3>1, ViewConsistent
    <3>3. \A t \in Session : positionLock' # t /\ draft'[t].rows = {}
      BY <2>2, <2>3 DEF IInv, DraftsConsistent
    <3>4. DraftsConsistent'
      BY <3>3 DEF DraftsConsistent
    <3> QED BY <1>1, <3>2, <3>4 DEF IInv
  <2>4. CASE positionLock # s
    <3>1. UNCHANGED <<rows, lastPosition, streams>>
      BY <1>6, <2>4 DEF Commit, View, IInv, DraftsConsistent
    <3>2. DraftsConsistent'
      BY <2>2, <3>1 DEF IInv, DraftsConsistent
    <3> QED BY <1>1, <3>1, <3>2 DEF IInv
  <2> QED BY <2>3, <2>4
<1>7. ASSUME NEW s \in Session, Rollback(s) \/ Fail(s) \/ DeadlockAbort(s) PROVE IInv'
  <2>1. UNCHANGED <<rows, lastPosition, streams>>
    BY <1>7 DEF Rollback, Fail, DeadlockAbort
  <2>2. PICK verdict : EndWith(s, verdict)
    BY <1>7 DEF Rollback, Fail, DeadlockAbort
  <2>3. DraftsConsistent'
    BY <2>1, <2>2, EndWithDrafts DEF IInv, DraftsConsistent
  <2> QED BY <1>1, <2>1, <2>3 DEF IInv
<1> QED BY <1>3, <1>4, <1>5, <1>6, <1>7 DEF Next, Step

(***************************************************************************)
(* What is committed is always exactly the positions 1..last_position: a   *)
(* reader paging by global_position never meets a gap.                     *)
(***************************************************************************)
THEOREM PositionsHaveNoGap == Spec => []NoPositionGap
<1>1. IInv => NoPositionGap
  BY DEF IInv
<1> QED BY <1>1, InitInv, StepInv, PTL DEF Spec

(***************************************************************************)
(* The stream table and the events agree, and every stream is its owner's. *)
(***************************************************************************)
THEOREM StreamsAgree == Spec => []StreamsFollowEvents
<1>1. IInv => StreamsFollowEvents
  BY DEF IInv
<1> QED BY <1>1, InitInv, StepInv, PTL DEF Spec

(***************************************************************************)
(* Whatever a transaction has written and not committed continues what is  *)
(* committed, and only the holder of the position row has written.         *)
(***************************************************************************)
THEOREM DraftsStayConsistent == Spec => []DraftsConsistent
<1>1. IInv => DraftsConsistent
  BY DEF IInv
<1> QED BY <1>1, InitInv, StepInv, PTL DEF Spec

(***************************************************************************)
(* Rows are never lost or changed, and a commit adds rows only behind all  *)
(* rows a reader may have seen.                                            *)
(***************************************************************************)
THEOREM CommitOrder == Spec => CommitsInPositionOrder
<1>1. IInv /\ [Next]_vars =>
        [/\ rows \subseteq rows'
         /\ \A r \in rows, new \in rows' \ rows : new.pos > r.pos]_rows
  <2> SUFFICES ASSUME IInv, [Next]_vars, rows' # rows
               PROVE  /\ rows \subseteq rows'
                      /\ \A r \in rows, new \in rows' \ rows : new.pos > r.pos
    OBVIOUS
  <2>1. PICK s \in Session : Commit(s)
    BY DEF Next, Step, vars, Begin, LockCommand, ListByCommandID, StartAppend, RunAppend,
           Rollback, Fail, DeadlockAbort
  <2>2. rows' = rows \cup draft[s].rows
    BY <2>1 DEF Commit
  <2>3. positionLock = s
    BY <2>2 DEF IInv, DraftsConsistent
  <2>4. /\ lastPosition \in Nat /\ rows \subseteq Row /\ draft[s].rows \subseteq Row
        /\ \A r \in draft[s].rows : r.pos > lastPosition
    BY <2>3 DEF IInv, TypeOK, DraftsConsistent, Draft
  <2>5. \A r \in rows : r.pos <= lastPosition /\ r.pos \in Nat
    BY <2>4 DEF IInv, NoPositionGap, PositionsDense, Row
  <2> QED BY <2>2, <2>4, <2>5 DEF Row
<1> QED BY <1>1, InitInv, StepInv, PTL DEF Spec, CommitsInPositionOrder

-----------------------------------------------------------------------------
(***************************************************************************)
(* Commands are stored whole and once.  The strengthening, per session: a  *)
(* session that writes a command holds the command's lock from before its  *)
(* lookup to its end, so nobody else commits rows of the command; its      *)
(* draft holds whole commands, except for the one it is appending, of      *)
(* which it holds the first events; and what it replies is what it sees.   *)
(***************************************************************************)
RowKey(r) == <<r.owner, r.id>>

\* All events of the command, each once, at adjacent positions.
Whole(c, R) ==
  /\ CommandMatches(c, StoredOf(c, R))
  /\ \A r1, r2 \in StoredOf(c, R) : r2.pos - r1.pos = r2.index - r1.index

Working(s) == pc[s] \in {"append", "wait"}

\* The commands of the plan for which Publish has returned.
Done(s) == 1..(IF pc[s] = "commit" THEN job[s].at ELSE job[s].at - 1)

HoldsCommand(s) ==
  pc[s] \in {"list", "append", "wait", "abort"} => commandLock[KeyOf(Current(s))] = s

\* What a session wrote is under its locks and new.
DraftKeys(s) ==
  \A r \in draft[s].rows :
    /\ commandLock[RowKey(r)] = s
    /\ \A q \in rows : RowKey(q) # RowKey(r)

DraftWhole(s) ==
  \A r \in draft[s].rows :
    \/ Working(s) /\ RowKey(r) = KeyOf(Current(s))
    \/ \E c \in Command : r \in StoredOf(c, draft[s].rows) /\ Whole(c, draft[s].rows)

\* The first events of the current command are in the draft, at its end.
InProgress(s) ==
  LET c    == Current(s)
      next == job[s].next
      own  == StoredOf(c, draft[s].rows)
  IN
  /\ StoredOf(c, rows) = {}
  /\ \A i \in 1..(next - 1) : \E r \in own : EventMatches(c, i, r)
  /\ \A r \in own : /\ r.index + 1 \in 1..(next - 1) /\ EventMatches(c, r.index + 1, r)
                    /\ r.pos = draft[s].last - (next - 1) + (r.index + 1)
  /\ next > 1 => positionLock = s
  /\ own \subseteq reply[s]
  /\ \A n \in Done(s) : KeyOf(job[s].plan[n]) # KeyOf(c)

\* R has the command as it was sent, and the reply has what R has.
Answered(s, c, R) == CommandMatches(c, StoredOf(c, R)) /\ StoredOf(c, R) \subseteq reply[s]

Replied(s) ==
  /\ reply[s] \subseteq Visible(s)
  /\ \A n \in Done(s) : Answered(s, job[s].plan[n], Visible(s))

Acknowledged(s) ==
  /\ reply[s] \subseteq rows
  /\ \A n \in DOMAIN job[s].plan : Answered(s, job[s].plan[n], rows)

SessionOK(s) ==
  /\ HoldsCommand(s) /\ DraftKeys(s)
  /\ pc[s] # "abort" => DraftWhole(s)
  /\ Working(s) => InProgress(s)
  /\ pc[s] \notin {"idle", "abort"} => Replied(s)
  /\ pc[s] \in {"lock", "list"} => job[s].next = 1
  /\ pc[s] = "commit" => job[s].at = Len(job[s].plan)
  /\ pc[s] # "idle" => outcome[s] # "ok"
  /\ outcome[s] = "ok" => Acknowledged(s)
  /\ pc[s] = "abort" /\ outcome[s] = "version_conflict" => StoredOf(Current(s), rows) = {}

SInv == IInv /\ CommandsWhole /\ \A s \in Session : SessionOK(s)

-----------------------------------------------------------------------------
(* Rows of one command. *)

LEMMA StoredByKey ==
  ASSUME NEW c, NEW R PROVE StoredOf(c, R) = {r \in R : RowKey(r) = KeyOf(c)}
BY DEF StoredOf, RowKey, KeyOf

LEMMA MatchedExists ==
  ASSUME NEW c \in Command, NEW R, CommandMatches(c, StoredOf(c, R))
  PROVE  \E q \in R : RowKey(q) = KeyOf(c)
<1>1. 1 \in DOMAIN c.events
  BY CommandAssumption
<1>2. PICK q \in StoredOf(c, R) : EventMatches(c, 1, q)
  BY <1>1 DEF CommandMatches
<1> QED
  BY <1>2, StoredByKey

\* Rows of other commands make no difference.
LEMMA NotExtended ==
  ASSUME NEW c, NEW R, NEW D, \A r \in D : RowKey(r) # KeyOf(c)
  PROVE  StoredOf(c, R \cup D) = StoredOf(c, R)
BY StoredByKey

LEMMA RowKeyType == ASSUME NEW r \in Row PROVE RowKey(r) \in Key
BY DEF Row, RowKey, Key

-----------------------------------------------------------------------------
(* Steps of others. *)

\* What a session relies on is its own, its locks, and the committed rows.
LEMMA FrameOK ==
  ASSUME TypeOK, NEW s \in Session, SessionOK(s), rows' = rows,
         pc'[s] = pc[s], job'[s] = job[s], draft'[s] = draft[s],
         reply'[s] = reply[s], outcome'[s] = outcome[s],
         \A k \in Key : commandLock[k] = s => commandLock'[k] = s,
         positionLock = s => positionLock' = s
  PROVE  SessionOK(s)'
<1>1. /\ Current(s)' = Current(s) /\ Working(s)' = Working(s)
      /\ Done(s)' = Done(s) /\ Visible(s)' = Visible(s)
  BY DEF Current, Working, Done, Visible
<1>2. HoldsCommand(s)'
  <2>1. pc[s] # "idle" => KeyOf(Current(s)) \in Key
    BY CurrentType
  <2> QED
    BY <1>1, <2>1 DEF HoldsCommand, SessionOK
<1>3. DraftKeys(s)'
  <2>1. \A r \in draft[s].rows : RowKey(r) \in Key
    BY RowKeyType DEF TypeOK, Draft
  <2> QED
    BY <2>1 DEF DraftKeys, SessionOK
<1>4. (pc[s] # "abort" => DraftWhole(s)) => (pc'[s] # "abort" => DraftWhole(s)')
  BY <1>1 DEF DraftWhole
<1>5. InProgress(s) => InProgress(s)'
  BY <1>1 DEF InProgress
<1>6. Replied(s) => Replied(s)'
  BY <1>1 DEF Replied, Answered
<1>7. Acknowledged(s) => Acknowledged(s)'
  BY DEF Acknowledged, Answered
<1> QED
  BY <1>1, <1>2, <1>3, <1>4, <1>5, <1>6, <1>7 DEF SessionOK

\* Another session commits rows: of commands nobody else has begun to write,
\* and of none that was stored before.
LEMMA FrameCommit ==
  ASSUME IInv, NEW s \in Session, NEW t \in Session, s # t, SessionOK(s), SessionOK(t),
         rows' = rows \cup draft[t].rows, draft[t].rows # {},
         pc'[s] = pc[s], job'[s] = job[s], draft'[s] = draft[s],
         reply'[s] = reply[s], outcome'[s] = outcome[s],
         \A k \in Key : commandLock[k] = s => commandLock'[k] = s
  PROVE  SessionOK(s)'
<1> DEFINE D == draft[t].rows
<1>1. positionLock # s /\ draft[s].rows = {} /\ TypeOK
  BY NoneAssumption DEF IInv, DraftsConsistent
<1>2. /\ Current(s)' = Current(s) /\ Working(s)' = Working(s)
      /\ Done(s)' = Done(s) /\ Visible(s) = rows /\ Visible(s)' = rows'
  BY <1>1 DEF Current, Working, Done, Visible
<1>3. \A r \in D : commandLock[RowKey(r)] = t /\ \A q \in rows : RowKey(q) # RowKey(r)
  BY DEF SessionOK, DraftKeys
<1> HIDE DEF D
<1>4. HoldsCommand(s)'
  <2>1. pc[s] # "idle" => KeyOf(Current(s)) \in Key
    BY <1>1, CurrentType
  <2> QED
    BY <1>2, <2>1 DEF HoldsCommand, SessionOK
<1>5. DraftKeys(s)' /\ DraftWhole(s)'
  BY <1>1 DEF DraftKeys, DraftWhole
<1>6. pc[s] \in {"append", "wait", "abort"} /\ StoredOf(Current(s), rows) = {}
        => StoredOf(Current(s), rows') = {}
  <2>1. SUFFICES ASSUME pc[s] \in {"append", "wait", "abort"}, StoredOf(Current(s), rows) = {}
                 PROVE  StoredOf(Current(s), rows') = {}
    OBVIOUS
  <2>2. commandLock[KeyOf(Current(s))] = s
    BY <2>1 DEF SessionOK, HoldsCommand
  <2>3. \A r \in D : RowKey(r) # KeyOf(Current(s))
    BY <1>3, <2>2
  <2> QED
    BY <2>1, <2>3, NotExtended DEF D
<1>7. Working(s) /\ InProgress(s) => InProgress(s)'
  <2>1. SUFFICES ASSUME Working(s), InProgress(s) PROVE InProgress(s)'
    OBVIOUS
  <2>2. StoredOf(Current(s), draft[s].rows) = {}
    BY <1>1 DEF StoredOf
  <2>3. ~ (job[s].next > 1)
    BY <2>1, <1>1 DEF InProgress
  <2>4. StoredOf(Current(s), rows') = {}
    BY <2>1, <1>6 DEF Working, InProgress
  <2> QED
    BY <2>1, <2>2, <2>3, <2>4, <1>2 DEF InProgress
<1>8. ASSUME NEW c \in Command, Answered(s, c, rows) PROVE Answered(s, c, rows)'
  <2>1. PICK q \in rows : RowKey(q) = KeyOf(c)
    BY <1>8, MatchedExists DEF Answered
  <2>2. \A r \in D : RowKey(r) # KeyOf(c)
    BY <2>1, <1>3
  <2>3. StoredOf(c, rows') = StoredOf(c, rows)
    BY <2>2, NotExtended DEF D
  <2> QED
    BY <2>3, <1>8 DEF Answered
<1>9. pc[s] \notin {"idle", "abort"} /\ Replied(s) => Replied(s)'
  <2>1. SUFFICES ASSUME pc[s] \notin {"idle", "abort"}, Replied(s) PROVE Replied(s)'
    OBVIOUS
  <2>2. \A n \in Done(s) : job[s].plan[n] \in Command
    <3>1. job[s].plan \in Seq(Command) /\ job[s].at \in 1..Len(job[s].plan)
      BY <1>1, <2>1, CurrentType DEF TypeOK
    <3> QED
      BY <3>1 DEF Done
  <2>3. \A n \in Done(s) : Answered(s, job[s].plan[n], rows)
    BY <2>1, <1>2 DEF Replied
  <2>4. \A n \in Done(s) : Answered(s, job[s].plan[n], rows)'
    BY <2>2, <2>3, <1>8
  <2> QED
    BY <2>1, <2>4, <1>2 DEF Replied, Answered
<1>10. Acknowledged(s) => Acknowledged(s)'
  <2>1. job[s].plan \in Seq(Command)
    <3>1. job[s].plan \in Plan \cup {<<>>}
      BY <1>1 DEF TypeOK, Job
    <3>2. <<>> \in Seq(Command)
      OBVIOUS
    <3> QED
      BY <3>1, <3>2, PlanAssumption, Zenon
  <2>2. \A n \in DOMAIN job[s].plan : job[s].plan[n] \in Command
    BY <2>1
  <2> QED
    BY <2>2, <1>8 DEF Acknowledged, Answered
<1> QED
  BY <1>2, <1>4, <1>5, <1>6, <1>7, <1>9, <1>10 DEF SessionOK, Working

-----------------------------------------------------------------------------
(* A session's own steps: what they do to itself. *)

\* The current command has been answered: Publish goes on to the next one.
LEMMA FinishCommandOK ==
  ASSUME TypeOK, NEW s \in Session, pc[s] # "idle", pc[s] # "commit", FinishCommand(s)
  PROVE  /\ job'[s].plan = job[s].plan /\ Done(s)' = Done(s) \cup {job[s].at}
         /\ job[s].plan[job[s].at] = Current(s)
         /\ pc'[s] \in {"lock", "commit"} /\ ~ Working(s)'
         /\ pc'[s] = "lock" => job'[s].next = 1
         /\ pc'[s] = "commit" => job'[s].at = Len(job'[s].plan)
         /\ \A t \in Session \ {s} : pc'[t] = pc[t] /\ job'[t] = job[t]
<1>1. job[s].plan \in Seq(Command) /\ job[s].at \in 1..Len(job[s].plan) /\ job[s] \in Job
  BY CurrentType DEF TypeOK
<1>2. CASE job[s].at < Len(job[s].plan)
  <2>1. /\ job' = [job EXCEPT ![s] = [job[s] EXCEPT !.at = job[s].at + 1, !.next = 1]]
        /\ pc' = [pc EXCEPT ![s] = "lock"]
    BY <1>2 DEF FinishCommand
  <2>2. /\ job'[s] = [job[s] EXCEPT !.at = job[s].at + 1, !.next = 1] /\ pc'[s] = "lock"
        /\ \A t \in Session \ {s} : pc'[t] = pc[t] /\ job'[t] = job[t]
    BY <2>1 DEF TypeOK
  <2>3. job'[s].plan = job[s].plan /\ job'[s].at = job[s].at + 1 /\ job'[s].next = 1
    BY <2>2, <1>1 DEF Job
  <2>4. Done(s)' = 1..job[s].at /\ Done(s) = 1..(job[s].at - 1)
    BY <2>2, <2>3, <1>1 DEF Done
  <2> QED
    BY <1>1, <2>2, <2>3, <2>4 DEF Working, Current
<1>3. CASE ~ (job[s].at < Len(job[s].plan))
  <2>1. job' = job /\ pc' = [pc EXCEPT ![s] = "commit"]
    BY <1>3 DEF FinishCommand
  <2>2. pc'[s] = "commit" /\ \A t \in Session \ {s} : pc'[t] = pc[t] /\ job'[t] = job[t]
    BY <2>1 DEF TypeOK
  <2>3. Done(s)' = 1..job[s].at /\ Done(s) = 1..(job[s].at - 1)
    BY <2>1, <2>2 DEF Done
  <2>4. job[s].at = Len(job[s].plan)
    BY <1>1, <1>3
  <2> QED
    BY <1>1, <2>1, <2>2, <2>3, <2>4 DEF Working, Current
<1> QED
  BY <1>2, <1>3

\* An idle session has no draft.
LEMMA IdleDraft ==
  ASSUME IInv, NEW s \in Session, pc[s] = "idle" PROVE draft[s].rows = {}
BY DEF IInv, DraftsConsistent

LEMMA BeginOwn ==
  ASSUME SInv, NEW s \in Session, Begin(s) PROVE SessionOK(s)'
<1>1. PICK p \in Plan :
        job' = [job EXCEPT ![s] = [plan |-> p, at |-> 1, next |-> 1, seen |-> NoStream]]
  BY DEF Begin
<1>2. /\ job'[s].at = 1 /\ job'[s].next = 1 /\ pc'[s] = "lock" /\ reply'[s] = {}
      /\ outcome'[s] = "none" /\ draft'[s].rows = {}
  BY <1>1, IdleDraft DEF SInv, IInv, TypeOK, Begin
<1>3. Done(s)' = {}
  BY <1>2 DEF Done
<1> QED
  BY <1>2, <1>3 DEF SessionOK, HoldsCommand, DraftKeys, DraftWhole, Working, Replied

LEMMA LockCommandOwn ==
  ASSUME SInv, NEW s \in Session, LockCommand(s) PROVE SessionOK(s)'
<1>1. /\ pc[s] = "lock" /\ pc'[s] = "list"
      /\ commandLock' = [commandLock EXCEPT ![KeyOf(Current(s))] = s]
      /\ UNCHANGED <<rows, job, draft, reply, outcome>> /\ SessionOK(s) /\ TypeOK
  BY DEF LockCommand, SInv, IInv, TypeOK
<1>2. KeyOf(Current(s)) \in Key /\ commandLock'[KeyOf(Current(s))] = s
      /\ \A k \in Key : commandLock[k] = s => commandLock'[k] = s
  BY <1>1, CurrentType DEF TypeOK
<1>3. Current(s)' = Current(s) /\ Done(s)' = Done(s) /\ Visible(s)' = Visible(s)
  BY <1>1 DEF Current, Done, Visible
<1>4. HoldsCommand(s)'
  BY <1>2, <1>3 DEF HoldsCommand
<1>5. DraftKeys(s)'
  <2>1. \A r \in draft[s].rows : RowKey(r) \in Key
    BY <1>1, RowKeyType DEF TypeOK, Draft
  <2> QED
    BY <1>1, <1>2, <2>1 DEF DraftKeys, SessionOK
<1>6. DraftWhole(s)' /\ Replied(s)'
  BY <1>1, <1>3 DEF SessionOK, DraftWhole, Working, Replied, Answered
<1> QED
  BY <1>1, <1>4, <1>5, <1>6 DEF SessionOK, Working

LEMMA ListOwn ==
  ASSUME SInv, NEW s \in Session, ListByCommandID(s) PROVE SessionOK(s)'
<1> DEFINE c == Current(s)
           existing == StoredOf(c, Visible(s))
<1>1. /\ pc[s] = "list" /\ SessionOK(s) /\ TypeOK
      /\ UNCHANGED <<rows, draft, commandLock, positionLock>>
  BY DEF ListByCommandID, SInv, IInv
<1>2. /\ c \in Command /\ job[s].plan \in Seq(Command) /\ job[s].at \in 1..Len(job[s].plan)
      /\ job[s].next = 1 /\ Replied(s) /\ DraftWhole(s) /\ DraftKeys(s)
      /\ commandLock[KeyOf(c)] = s /\ outcome[s] # "ok" /\ ~ Working(s)
  BY <1>1, CurrentType DEF SessionOK, HoldsCommand, TypeOK, Working
<1>3. DraftKeys(s)' /\ Visible(s)' = Visible(s)
  BY <1>1, <1>2 DEF DraftKeys, Visible
<1>4. CASE /\ existing = {} /\ pc' = [pc EXCEPT ![s] = "append"]
           /\ UNCHANGED <<job, reply, outcome>>
  <2>1. pc'[s] = "append" /\ Current(s)' = Current(s) /\ Done(s)' = Done(s)
    BY <1>1, <1>4 DEF TypeOK, Current, Done
  <2>2. StoredOf(c, rows) = {} /\ StoredOf(c, draft[s].rows) = {}
    BY <1>4 DEF StoredOf, Visible
  <2>3. ASSUME NEW n \in Done(s) PROVE KeyOf(job[s].plan[n]) # KeyOf(c)
    <3>1. job[s].plan[n] \in Command
      BY <1>1, <1>2 DEF Done
    <3>2. PICK q \in Visible(s) : RowKey(q) = KeyOf(job[s].plan[n])
      BY <1>2, <3>1, MatchedExists DEF Replied, Answered
    <3> QED
      BY <3>2, <1>4, StoredByKey
  <2>4. InProgress(s)'
    BY <1>1, <1>2, <1>4, <2>1, <2>2, <2>3 DEF InProgress
  <2>5. DraftWhole(s)' /\ Replied(s)' /\ HoldsCommand(s)'
    BY <1>1, <1>2, <1>3, <1>4, <2>1 DEF DraftWhole, Replied, Answered, HoldsCommand
  <2> QED
    BY <1>2, <1>3, <1>4, <2>1, <2>4, <2>5 DEF SessionOK, Working
<1>5. CASE /\ CommandMatches(c, existing)
           /\ reply' = [reply EXCEPT ![s] = @ \cup existing]
           /\ FinishCommand(s) /\ UNCHANGED outcome
  <2>1. /\ job'[s].plan = job[s].plan /\ Done(s)' = Done(s) \cup {job[s].at}
        /\ job[s].plan[job[s].at] = c
        /\ pc'[s] \in {"lock", "commit"} /\ ~ Working(s)'
        /\ pc'[s] = "lock" => job'[s].next = 1
        /\ pc'[s] = "commit" => job'[s].at = Len(job'[s].plan)
    BY <1>1, <1>5, FinishCommandOK
  <2>2. reply'[s] = reply[s] \cup existing
    BY <1>1, <1>5 DEF TypeOK
  <2>3. Replied(s)'
    <3>1. reply'[s] \subseteq Visible(s)
      BY <1>2, <2>2 DEF Replied, StoredOf
    <3>2. ASSUME NEW n \in Done(s) PROVE Answered(s, job[s].plan[n], Visible(s))'
      BY <1>2, <1>3, <2>1, <2>2 DEF Replied, Answered
    <3>3. ASSUME NEW n, n = job[s].at PROVE Answered(s, job[s].plan[n], Visible(s))'
      <4>1. Visible(s)' = Visible(s) /\ existing \subseteq reply'[s]
        BY <1>3, <2>2
      <4>2. job'[s].plan[n] = c
        BY <3>3, <2>1
      <4> QED
        BY <4>1, <4>2, <1>5 DEF Answered
    <3> QED
      BY <3>1, <3>2, <3>3, <1>3, <2>1 DEF Replied, Answered
  <2>4. DraftWhole(s)' /\ HoldsCommand(s)'
    BY <1>1, <1>2, <2>1 DEF DraftWhole, HoldsCommand
  <2> QED
    BY <1>2, <1>3, <1>5, <2>1, <2>3, <2>4 DEF SessionOK
<1>6. CASE /\ outcome' = [outcome EXCEPT ![s] = "idempotency_conflict"]
           /\ pc' = [pc EXCEPT ![s] = "abort"] /\ UNCHANGED <<job, reply>>
  <2>1. pc'[s] = "abort" /\ outcome'[s] = "idempotency_conflict" /\ Current(s)' = Current(s)
    BY <1>1, <1>6 DEF TypeOK, Current
  <2> QED
    BY <1>1, <1>2, <1>3, <2>1 DEF SessionOK, HoldsCommand, Working
<1> QED
  BY <1>4, <1>5, <1>6 DEF ListByCommandID

LEMMA StartAppendOwn ==
  ASSUME SInv, NEW s \in Session, StartAppend(s) PROVE SessionOK(s)'
<1>1. /\ pc[s] = "append" /\ SessionOK(s) /\ TypeOK /\ pc'[s] = "wait"
      /\ UNCHANGED <<rows, draft, commandLock, positionLock, reply, outcome>>
      /\ job' = [job EXCEPT ![s] = [job[s] EXCEPT !.seen = View(s).streams[Pending(s).stream]]]
  BY DEF StartAppend, SInv, IInv, TypeOK
<1>2. job'[s].plan = job[s].plan /\ job'[s].at = job[s].at /\ job'[s].next = job[s].next
  BY <1>1 DEF TypeOK, Job
<1>3. /\ Current(s)' = Current(s) /\ Done(s)' = Done(s) /\ Visible(s)' = Visible(s)
      /\ Working(s)' /\ Working(s)
  BY <1>1, <1>2 DEF Current, Done, Visible, Working
<1>4. InProgress(s)'
  BY <1>1, <1>2, <1>3 DEF SessionOK, InProgress
<1>5. DraftKeys(s)' /\ DraftWhole(s)' /\ HoldsCommand(s)' /\ Replied(s)'
  BY <1>1, <1>2, <1>3
     DEF SessionOK, DraftKeys, DraftWhole, HoldsCommand, Replied, Answered
<1> QED
  BY <1>1, <1>4, <1>5 DEF SessionOK

\* The end of a transaction without success.
LEMMA EndOwn ==
  ASSUME SInv, NEW s \in Session, NEW verdict, verdict # "ok", EndWith(s, verdict),
         UNCHANGED rows
  PROVE  SessionOK(s)'
<1>1. draft'[s].rows = {}
  BY EndWithDrafts DEF SInv
<1>2. pc'[s] = "idle" /\ outcome'[s] = verdict
  BY DEF EndWith, SInv, IInv, TypeOK
<1> QED
  BY <1>1, <1>2 DEF SessionOK, HoldsCommand, DraftKeys, DraftWhole, Working

\* R has the first n events of the command c, the last of them at position last.
Prefix(c, n, last, R) ==
  /\ \A i \in 1..n : \E q \in StoredOf(c, R) : EventMatches(c, i, q)
  /\ \A q \in StoredOf(c, R) :
       /\ q \in Row /\ q.index + 1 \in 1..n /\ EventMatches(c, q.index + 1, q)
       /\ q.pos = last - n + (q.index + 1)

\* R has no part of a command, except for c.
WholeBut(c, R) ==
  \A q \in R : \/ RowKey(q) = KeyOf(c)
              \/ \E e \in Command : q \in StoredOf(e, R) /\ Whole(e, R)

\* The answered commands are others than c, and r is of none of them.
DoneApart(s, c, r) ==
  \A n \in Done(s) :
    /\ Answered(s, job[s].plan[n], Visible(s))
    /\ KeyOf(job[s].plan[n]) # KeyOf(c)
    /\ StoredOf(job[s].plan[n], Visible(s) \cup {r}) = StoredOf(job[s].plan[n], Visible(s))

\* One more event of the current command: it is the next one, and the events
\* the draft has of the command are its first ones, at the end of the draft.
LEMMA AppendedOK ==
  ASSUME SInv, NEW s \in Session, pc[s] = "wait", PositionFree(s),
         NEW c, c = Current(s), NEW i, i = job[s].next, NEW view, view = View(s),
         NEW r, r = NewRow(c, i, view),
         CanAdvance(c, c.events[i], job[s].seen, view.streams[c.events[i].stream])
  PROVE  /\ r \in Row /\ RowKey(r) = KeyOf(c) /\ view.rows = draft[s].rows
         /\ Written(c, i, view).rows = draft[s].rows \cup {r}
         /\ Written(c, i, view).last = r.pos
         /\ StoredOf(c, draft[s].rows \cup {r}) = StoredOf(c, draft[s].rows) \cup {r}
         /\ Prefix(c, i, r.pos, draft[s].rows \cup {r})
<1>1. /\ TypeOK /\ InProgress(s) /\ positionLock \in {None, s}
      /\ view \in Draft /\ view.rows = draft[s].rows
  BY ViewConsistent, ViewType DEF SInv, IInv, SessionOK, Working, PositionFree
<1>2. c \in Command /\ i \in 1..Len(c.events) /\ c.events[i] \in PendingEvent
  BY <1>1, CurrentType DEF Pending
<1>3. r \in Row /\ view.last \in Nat /\ i \in Nat \ {0} /\ draft[s].rows \subseteq Row
  BY <1>1, <1>2, WrittenType DEF Draft
<1>4. /\ r.pos = view.last + 1 /\ r.index = i - 1 /\ r.owner = c.owner /\ r.id = c.id
      /\ r.stream = c.events[i].stream /\ r.body = c.events[i].body
      /\ r.version = view.streams[c.events[i].stream].version + 1
  BY DEF NewRow
<1>5. Written(c, i, view).rows = draft[s].rows \cup {r} /\ Written(c, i, view).last = r.pos
  BY <1>1 DEF Written
<1>6. r.version = c.events[i].version
  <2>1. c.events[i].version \in Nat
    BY <1>2 DEF PendingEvent
  <2>2. c.events[i].stream \in Stream /\ view.streams \in [Stream -> StreamRow]
    BY <1>1, <1>2 DEF PendingEvent, Draft
  <2>3. view.streams[c.events[i].stream].version \in Nat
    BY <2>2 DEF StreamRow
  <2> QED
    BY ONLY <1>4, <2>1, <2>3, CanAdvance(c, c.events[i], job[s].seen, view.streams[c.events[i].stream])
    DEF CanAdvance
<1>7. EventMatches(c, i, r) /\ r.index + 1 = i
  BY ONLY <1>3, <1>4, <1>6 DEF EventMatches
<1>8. RowKey(r) = KeyOf(c) /\ StoredOf(c, draft[s].rows \cup {r}) = StoredOf(c, draft[s].rows) \cup {r}
  BY <1>4 DEF RowKey, KeyOf, StoredOf
<1>9. ASSUME NEW n \in 1..i
      PROVE  \E q \in StoredOf(c, draft[s].rows) \cup {r} : EventMatches(c, n, q)
  <2>1. CASE n = i
    BY <1>7, <2>1
  <2>2. CASE n # i
    <3>1. n \in 1..(i - 1)
      BY <1>3, <2>2
    <3> QED
      BY <1>1, <3>1 DEF InProgress
  <2> QED
    BY <2>1, <2>2
<1>10. ASSUME NEW q \in StoredOf(c, draft[s].rows)
       PROVE  /\ q \in Row /\ q.index + 1 \in 1..i /\ EventMatches(c, q.index + 1, q)
              /\ q.pos = r.pos - i + (q.index + 1)
  <2>1. /\ q.index + 1 \in 1..(i - 1) /\ EventMatches(c, q.index + 1, q)
        /\ q.pos = draft[s].last - (i - 1) + (q.index + 1)
    BY <1>1 DEF InProgress
  <2>2. q \in Row /\ q.index \in Nat
    BY <1>3 DEF StoredOf, Row
  <2>3. i > 1
    BY <1>3, <2>1, <2>2
  <2>4. view = draft[s]
    BY <1>1, <2>3 DEF InProgress, View
  <2>5. r.pos = draft[s].last + 1 /\ draft[s].last \in Nat
    BY <1>3, <1>4, <2>4
  <2>6. q.pos = r.pos - i + (q.index + 1)
    BY <1>3, <2>1, <2>2, <2>5
  <2>7. q.index + 1 \in 1..i
    BY <1>3, <2>1, <2>2
  <2> QED
    BY <2>1, <2>2, <2>6, <2>7
<1>11. r.pos = r.pos - i + (r.index + 1) /\ r.index + 1 \in 1..i
  BY ONLY <1>3, <1>4
<1>12. EventMatches(c, r.index + 1, r)
  BY <1>7
<1>13. ASSUME NEW q \in StoredOf(c, draft[s].rows) \cup {r}
       PROVE  /\ q \in Row /\ q.index + 1 \in 1..i /\ EventMatches(c, q.index + 1, q)
              /\ q.pos = r.pos - i + (q.index + 1)
  BY <1>3, <1>10, <1>11, <1>12
<1>14. Prefix(c, i, r.pos, draft[s].rows \cup {r})
  BY <1>8, <1>9, <1>13, Zenon DEF Prefix
<1> QED
  BY <1>1, <1>3, <1>5, <1>8, <1>14

\* What an append of the current command does to the rest of the draft.
LEMMA AppendedKeeps ==
  ASSUME SInv, NEW s \in Session, pc[s] = "wait", NEW c, c = Current(s),
         NEW r, RowKey(r) = KeyOf(c), draft'[s].rows = draft[s].rows \cup {r},
         UNCHANGED <<rows, commandLock>>, job'[s].plan = job[s].plan,
         reply'[s] = reply[s] \cup {r}
  PROVE  /\ DraftKeys(s)' /\ Visible(s)' = Visible(s) \cup {r}
         /\ StoredOf(c, rows)' = {}
         /\ WholeBut(c, draft'[s].rows) /\ DoneApart(s, c, r)
         /\ reply'[s] \subseteq Visible(s)'
<1>1. InProgress(s) /\ DraftKeys(s) /\ DraftWhole(s) /\ Replied(s) /\ HoldsCommand(s)
  BY DEF SInv, SessionOK, Working
<1>2. StoredOf(c, rows) = {} /\ commandLock[RowKey(r)] = s
  BY <1>1 DEF InProgress, HoldsCommand
<1>3. \A q \in rows : RowKey(q) # RowKey(r)
  BY <1>2, StoredByKey
<1>4. DraftKeys(s)'
  BY <1>1, <1>2, <1>3 DEF DraftKeys
<1>5. Visible(s)' = Visible(s) \cup {r} /\ reply'[s] \subseteq Visible(s)'
  BY <1>1 DEF Visible, Replied
<1>6. ASSUME NEW e, NEW R, KeyOf(e) # KeyOf(c)
      PROVE  StoredOf(e, R \cup {r}) = StoredOf(e, R)
  BY <1>6, NotExtended
<1>7. ASSUME NEW q \in draft'[s].rows, RowKey(q) # KeyOf(c)
      PROVE  \E e \in Command : q \in StoredOf(e, draft'[s].rows) /\ Whole(e, draft'[s].rows)
  <2>1. PICK e \in Command : q \in StoredOf(e, draft[s].rows) /\ Whole(e, draft[s].rows)
    BY <1>1, <1>7 DEF DraftWhole
  <2>2. KeyOf(e) # KeyOf(c)
    BY <2>1, <1>7, StoredByKey
  <2>3. StoredOf(e, draft'[s].rows) = StoredOf(e, draft[s].rows)
    BY <1>6, <2>2
  <2> QED
    BY <2>1, <2>3 DEF Whole
<1>8. ASSUME NEW n \in Done(s)
      PROVE  /\ Answered(s, job[s].plan[n], Visible(s))
             /\ KeyOf(job[s].plan[n]) # KeyOf(c)
             /\ StoredOf(job[s].plan[n], Visible(s) \cup {r}) = StoredOf(job[s].plan[n], Visible(s))
  <2>1. KeyOf(job[s].plan[n]) # KeyOf(c) /\ Answered(s, job[s].plan[n], Visible(s))
    BY <1>1 DEF InProgress, Replied
  <2> QED
    BY <1>6, <2>1
<1> QED
  BY <1>2, <1>4, <1>5, <1>7, <1>8 DEF WholeBut, DoneApart

LEMMA RunAppendOwn ==
  ASSUME SInv, NEW s \in Session, RunAppend(s) PROVE SessionOK(s)'
<1>1. PICK c, i, view, r : /\ c = Current(s) /\ i = job[s].next /\ view = View(s)
                           /\ r = NewRow(c, i, view)
  OBVIOUS
<1>2. /\ pc[s] = "wait" /\ PositionFree(s) /\ positionLock' = s
      /\ UNCHANGED <<rows, commandLock>> /\ TypeOK /\ SessionOK(s) /\ Working(s)
  BY DEF RunAppend, SInv, IInv, Working
<1>3. /\ InProgress(s) /\ DraftKeys(s) /\ HoldsCommand(s) /\ outcome[s] # "ok"
      /\ view.rows = draft[s].rows
  <2>1. view.rows = draft[s].rows
    BY <1>1, <1>2, ViewConsistent DEF SInv, PositionFree
  <2> QED
    BY <1>2, <2>1 DEF SessionOK
<1>4. /\ c \in Command /\ i \in 1..Len(c.events) /\ Pending(s) = c.events[i]
      /\ c.events \in Seq(PendingEvent)
  BY <1>1, <1>2, CurrentType DEF Pending
<1>5. CASE /\ CanAdvance(c, c.events[i], job[s].seen, view.streams[c.events[i].stream])
           /\ draft' = [draft EXCEPT ![s] = Written(c, i, view)]
           /\ reply' = [reply EXCEPT ![s] = @ \cup {r}]
           /\ UNCHANGED outcome
           /\ IF i < Len(c.events)
              THEN /\ job' = [job EXCEPT ![s].next = @ + 1]
                   /\ pc' = [pc EXCEPT ![s] = "append"]
              ELSE FinishCommand(s)
  <2> DEFINE D == draft[s].rows \cup {r}
  <2>1. /\ r \in Row /\ RowKey(r) = KeyOf(c) /\ Written(c, i, view).rows = D
        /\ Written(c, i, view).last = r.pos
        /\ StoredOf(c, D) = StoredOf(c, draft[s].rows) \cup {r}
        /\ Prefix(c, i, r.pos, D)
    <3>1. c = Current(s) /\ i = job[s].next /\ view = View(s) /\ r = NewRow(c, i, view)
      BY <1>1
    <3>2. CanAdvance(c, c.events[i], job[s].seen, view.streams[c.events[i].stream])
      BY <1>5, Zenon
    <3>3. pc[s] = "wait" /\ PositionFree(s)
      BY <1>2
    <3> QED
      BY ONLY SInv, s \in Session, <3>1, <3>2, <3>3, AppendedOK, SMTT(60)
  <2>2. /\ draft'[s].rows = D /\ draft'[s].last = r.pos /\ reply'[s] = reply[s] \cup {r}
        /\ outcome'[s] # "ok"
    BY <1>2, <1>3, <1>5, <2>1 DEF TypeOK
  <2>6. draft'[s].rows = draft[s].rows \cup {r}
    BY <2>2
  <2> HIDE DEF D
  <2>3. StoredOf(c, D) \subseteq reply'[s]
    BY <1>1, <1>3, <2>1, <2>2 DEF InProgress
  <2>4. CASE i < Len(c.events)
    <3>1. /\ job' = [job EXCEPT ![s] = [job[s] EXCEPT !.next = i + 1]]
          /\ pc' = [pc EXCEPT ![s] = "append"]
      BY <1>1, <1>5, <2>4
    <3>2. /\ job'[s].plan = job[s].plan /\ job'[s].at = job[s].at /\ job'[s].next = i + 1
          /\ pc'[s] = "append"
      BY <1>2, <3>1 DEF TypeOK, Job
    <3>3. Current(s)' = c /\ Done(s)' = Done(s) /\ Working(s)'
      BY <1>1, <1>2, <3>2 DEF Current, Done, Working
    <3>4. /\ DraftKeys(s)' /\ Visible(s)' = Visible(s) \cup {r}
          /\ StoredOf(c, rows)' = {}
          /\ WholeBut(c, D) /\ DoneApart(s, c, r)
          /\ reply'[s] \subseteq Visible(s)'
      <4>1. /\ c = Current(s) /\ RowKey(r) = KeyOf(c) /\ UNCHANGED <<rows, commandLock>>
            /\ pc[s] = "wait" /\ draft'[s].rows = draft[s].rows \cup {r}
            /\ job'[s].plan = job[s].plan /\ reply'[s] = reply[s] \cup {r}
        BY <1>1, <1>2, <2>1, <2>2, <2>6, <3>2
      <4> QED
        BY <2>2, <4>1, AppendedKeeps, ZenonT(20)
    <3>5. DraftWhole(s)'
      BY <2>2, <3>3, <3>4 DEF DraftWhole, WholeBut
    <3>6. Replied(s)'
      BY <2>2, <3>2, <3>3, <3>4 DEF Replied, Answered, DoneApart
    <3>7. HoldsCommand(s)'
      BY <1>1, <1>2, <1>3, <3>3 DEF HoldsCommand
    <3>8. InProgress(s)'
      <4>1. job'[s].next - 1 = i
        BY <1>4, <3>2
      <4> QED
        BY <1>2, <2>1, <2>2, <2>3, <3>2, <3>3, <3>4, <4>1 DEF InProgress, Prefix, DoneApart
    <3> QED
      BY <2>2, <3>2, <3>4, <3>5, <3>6, <3>7, <3>8 DEF SessionOK
  <2>5. CASE ~ (i < Len(c.events))
    <3>1. FinishCommand(s) /\ i = Len(c.events)
      BY <1>4, <1>5, <2>5
    <3>2. /\ job'[s].plan = job[s].plan /\ Done(s)' = Done(s) \cup {job[s].at}
          /\ job[s].plan[job[s].at] = c
          /\ pc'[s] \in {"lock", "commit"} /\ ~ Working(s)'
          /\ pc'[s] = "lock" => job'[s].next = 1
          /\ pc'[s] = "commit" => job'[s].at = Len(job'[s].plan)
      BY <1>1, <1>2, <3>1, FinishCommandOK
    <3>3. /\ DraftKeys(s)' /\ Visible(s)' = Visible(s) \cup {r}
          /\ StoredOf(c, rows)' = {}
          /\ WholeBut(c, D) /\ DoneApart(s, c, r)
          /\ reply'[s] \subseteq Visible(s)'
      <4>1. /\ c = Current(s) /\ RowKey(r) = KeyOf(c) /\ UNCHANGED <<rows, commandLock>>
            /\ pc[s] = "wait" /\ draft'[s].rows = draft[s].rows \cup {r}
            /\ job'[s].plan = job[s].plan /\ reply'[s] = reply[s] \cup {r}
        BY <1>1, <1>2, <2>1, <2>2, <2>6, <3>2
      <4> QED
        BY <2>2, <4>1, AppendedKeeps, ZenonT(20)
    <3>4. CommandMatches(c, StoredOf(c, D))
      <4>1. DOMAIN c.events = 1..i
        BY <1>4, <3>1
      <4> QED
        BY <2>1, <4>1 DEF CommandMatches, Prefix
    <3>5. Whole(c, D)
      <4>1. ASSUME NEW q1 \in StoredOf(c, D), NEW q2 \in StoredOf(c, D)
            PROVE  q2.pos - q1.pos = q2.index - q1.index
        <5>1. /\ q1.pos = r.pos - i + (q1.index + 1) /\ q2.pos = r.pos - i + (q2.index + 1)
              /\ q1 \in Row /\ q2 \in Row
          BY <2>1 DEF Prefix
        <5>2. /\ q1.index \in Nat /\ q2.index \in Nat /\ r.pos \in Nat /\ i \in Nat
          BY <1>4, <2>1, <5>1 DEF Row
        <5> QED
          BY <5>1, <5>2
      <4> QED
        BY <3>4, <4>1 DEF Whole
    <3>6. DraftWhole(s)'
      <4>1. ASSUME NEW q \in D, RowKey(q) = KeyOf(c) PROVE q \in StoredOf(c, D)
        BY <4>1, StoredByKey
      <4>2. ASSUME NEW q \in D
            PROVE  \E e \in Command : q \in StoredOf(e, D) /\ Whole(e, D)
        BY <1>4, <3>3, <3>5, <4>1 DEF WholeBut
      <4> QED
        BY <2>2, <4>2 DEF DraftWhole
    <3>7. Replied(s)'
      <4>1. Visible(s)' = rows \cup D
        BY <1>2, <2>2 DEF Visible
      <4>2. StoredOf(c, Visible(s)') = StoredOf(c, D)
        BY <3>3, <4>1, <1>2 DEF StoredOf
      <4>3. ASSUME NEW n, n = job[s].at PROVE Answered(s, job[s].plan[n], Visible(s))'
        <5>1. job'[s].plan[n] = c
          BY <3>2, <4>3
        <5> QED
          BY <2>3, <3>4, <4>2, <5>1 DEF Answered
      <4>4. ASSUME NEW n \in Done(s) PROVE Answered(s, job[s].plan[n], Visible(s))'
        BY <2>2, <3>2, <3>3 DEF Answered, DoneApart
      <4> QED
        BY <3>2, <3>3, <4>3, <4>4 DEF Replied, Answered
    <3>8. HoldsCommand(s)'
      BY <3>2 DEF HoldsCommand
    <3> QED
      BY <2>2, <3>2, <3>3, <3>6, <3>7, <3>8 DEF SessionOK
  <2> QED
    BY <2>4, <2>5
<1>6. CASE \E verdict \in {"version_conflict", "idempotency_conflict"} :
             /\ draft' = [draft EXCEPT ![s] = view]
             /\ outcome' = [outcome EXCEPT ![s] = verdict]
             /\ pc' = [pc EXCEPT ![s] = "abort"]
             /\ UNCHANGED <<job, reply>>
  <2>1. /\ draft'[s].rows = draft[s].rows /\ pc'[s] = "abort"
        /\ outcome'[s] # "ok" /\ Current(s)' = c
    BY <1>1, <1>2, <1>3, <1>6 DEF TypeOK, Current
  <2>2. StoredOf(c, rows)' = {} /\ HoldsCommand(s)' /\ DraftKeys(s)'
    BY <1>1, <1>2, <1>3, <2>1 DEF InProgress, HoldsCommand, DraftKeys
  <2> QED
    BY <2>1, <2>2 DEF SessionOK, Working
<1>7. AppendVerdict(c, i, job[s].seen, view.streams[Pending(s).stream], Visible(s))
        \in {"ok", "version_conflict", "idempotency_conflict"}
  BY DEF AppendVerdict
<1>8. AppendVerdict(c, i, job[s].seen, view.streams[Pending(s).stream], Visible(s)) = "ok"
        => CanAdvance(c, c.events[i], job[s].seen, view.streams[c.events[i].stream])
  BY <1>4 DEF AppendVerdict
<1> QED
  BY <1>1, <1>4, <1>5, <1>6, <1>7, <1>8 DEF RunAppend

LEMMA CommitOwn ==
  ASSUME SInv, NEW s \in Session, Commit(s) PROVE SessionOK(s)'
<1>1. PICK verdict \in {"ok", "failed"} : EndWith(s, verdict)
  BY DEF Commit
<1>2. draft'[s].rows = {}
  BY <1>1, EndWithDrafts DEF SInv
<1>3. /\ pc[s] = "commit" /\ pc'[s] = "idle" /\ outcome'[s] = verdict
      /\ UNCHANGED <<job, reply>> /\ rows' = Visible(s)
  BY <1>1 DEF Commit, EndWith, Visible, SInv, IInv, TypeOK
<1>4. Replied(s) /\ job[s].at = Len(job[s].plan) /\ job[s].plan \in Seq(Command)
  BY <1>3, CurrentType DEF SInv, IInv, SessionOK
<1>5. DOMAIN job[s].plan = Done(s)
  BY <1>3, <1>4 DEF Done
<1>6. Acknowledged(s)'
  <2>1. ASSUME NEW n \in DOMAIN job'[s].plan PROVE Answered(s, job[s].plan[n], rows)'
    BY <1>3, <1>4, <1>5 DEF Replied, Answered
  <2> QED
    BY <1>3, <1>4, <2>1 DEF Replied, Acknowledged
<1> QED
  BY <1>2, <1>3, <1>6 DEF SessionOK, HoldsCommand, DraftKeys, DraftWhole, Working

-----------------------------------------------------------------------------
(* The step. *)

\* A commit adds whole commands, and none that was stored before.
LEMMA CommitWhole ==
  ASSUME SInv, NEW s \in Session, pc[s] = "commit", rows' = rows \cup draft[s].rows
  PROVE  CommandsWhole'
<1> DEFINE D == draft[s].rows
<1>1. /\ \A r \in rows : \E c \in Command : r \in StoredOf(c, rows) /\ Whole(c, rows)
      /\ \A r \in D : \E c \in Command : r \in StoredOf(c, D) /\ Whole(c, D)
  BY DEF SInv, CommandsWhole, Whole, SessionOK, DraftWhole, Working
<1>2. \A r \in D, q \in rows : RowKey(q) # RowKey(r)
  BY DEF SInv, SessionOK, DraftKeys
<1> HIDE DEF D
<1>3. ASSUME NEW r \in rows'
      PROVE  \E c \in Command : r \in StoredOf(c, rows') /\ Whole(c, rows')
  <2>1. CASE r \in rows
    <3>1. PICK c \in Command : r \in StoredOf(c, rows) /\ Whole(c, rows)
      BY <1>1, <2>1
    <3>2. \A q \in D : RowKey(q) # KeyOf(c)
      BY <1>2, <3>1, StoredByKey
    <3>3. StoredOf(c, rows') = StoredOf(c, rows)
      BY <3>2, NotExtended DEF D
    <3> QED
      BY <3>1, <3>3 DEF Whole
  <2>2. CASE r \in D
    <3>1. PICK c \in Command : r \in StoredOf(c, D) /\ Whole(c, D)
      BY <1>1, <2>2
    <3>2. \A q \in rows : RowKey(q) # KeyOf(c)
      BY <1>2, <3>1, StoredByKey
    <3>3. StoredOf(c, D \cup rows) = StoredOf(c, D)
      BY <3>2, NotExtended
    <3>4. rows' = D \cup rows
      BY DEF D
    <3> QED
      BY <3>1, <3>3, <3>4 DEF Whole
  <2> QED
    BY <1>3, <2>1, <2>2 DEF D
<1> QED
  BY <1>3 DEF CommandsWhole, Whole

\* Which locks the others keep.
LEMMA EndWithOthers ==
  ASSUME TypeOK, NEW s \in Session, NEW verdict, EndWith(s, verdict),
         NEW t \in Session, t # s
  PROVE  /\ pc'[t] = pc[t] /\ job'[t] = job[t] /\ draft'[t] = draft[t]
         /\ reply'[t] = reply[t] /\ outcome'[t] = outcome[t]
         /\ \A k \in Key : commandLock[k] = t => commandLock'[k] = t
         /\ positionLock = t => positionLock' = t
BY DEF EndWith, Release, TypeOK

LEMMA CommandsWholeStays ==
  ASSUME CommandsWhole, rows' = rows PROVE CommandsWhole'
BY DEF CommandsWhole

LEMMA SInvInit == Init => SInv
<1> SUFFICES ASSUME Init PROVE SInv
  OBVIOUS
<1>1. IInv
  BY InitInv
<1>2. CommandsWhole
  BY DEF Init, CommandsWhole
<1>3. ASSUME NEW s \in Session PROVE SessionOK(s)
  BY DEF Init, SessionOK, HoldsCommand, DraftKeys, DraftWhole, Working, NoDraft
<1> QED
  BY <1>1, <1>2, <1>3 DEF SInv

LEMMA SInvStep == SInv /\ [Next]_vars => SInv'
<1> SUFFICES ASSUME SInv, [Next]_vars PROVE SInv'
  OBVIOUS
<1>1. IInv' /\ TypeOK
  BY StepInv DEF SInv, IInv
<1>2. SUFFICES CommandsWhole' /\ \A t \in Session : SessionOK(t)'
  BY <1>1 DEF SInv
<1>3. CASE UNCHANGED vars
  <2>1. ASSUME NEW t \in Session PROVE SessionOK(t)'
    BY <1>1, <1>3, FrameOK DEF vars, SInv
  <2>2. CommandsWhole'
    BY <1>3, CommandsWholeStays DEF vars, SInv
  <2> QED
    BY <2>1, <2>2
<1>4. ASSUME NEW s \in Session,
             Begin(s) \/ LockCommand(s) \/ ListByCommandID(s) \/ StartAppend(s)
               \/ RunAppend(s)
      PROVE  CommandsWhole' /\ \A t \in Session : SessionOK(t)'
  <2>1. SessionOK(s)'
    BY <1>4, BeginOwn, LockCommandOwn, ListOwn, StartAppendOwn, RunAppendOwn
  <2>2. rows' = rows
    BY <1>4 DEF Begin, LockCommand, ListByCommandID, StartAppend, RunAppend
  <2>3. ASSUME NEW t \in Session, t # s
        PROVE  /\ pc'[t] = pc[t] /\ job'[t] = job[t] /\ draft'[t] = draft[t]
               /\ reply'[t] = reply[t] /\ outcome'[t] = outcome[t]
    BY <1>1, <1>4, <2>3
       DEF Begin, LockCommand, ListByCommandID, StartAppend, RunAppend, FinishCommand, TypeOK
  <2>4. ASSUME NEW t \in Session, t # s, NEW k \in Key, commandLock[k] = t
        PROVE  commandLock'[k] = t
    BY <1>1, <1>4, <2>4, NoneAssumption
       DEF Begin, LockCommand, CommandFree, ListByCommandID, StartAppend, RunAppend, TypeOK
  <2>5. ASSUME NEW t \in Session, t # s, positionLock = t PROVE positionLock' = t
    BY <1>4, <2>5, NoneAssumption
       DEF Begin, LockCommand, ListByCommandID, StartAppend, RunAppend, PositionFree
  <2>6. ASSUME NEW t \in Session, t # s PROVE SessionOK(t)'
    BY <1>1, <2>2, <2>3, <2>4, <2>5, <2>6, FrameOK DEF SInv
  <2>7. CommandsWhole'
    BY <2>2, CommandsWholeStays DEF SInv
  <2> QED
    BY <2>1, <2>6, <2>7
<1>5. ASSUME NEW s \in Session, Commit(s)
      PROVE  CommandsWhole' /\ \A t \in Session : SessionOK(t)'
  <2>1. PICK verdict \in {"ok", "failed"} : EndWith(s, verdict)
    BY <1>5 DEF Commit
  <2>2. pc[s] = "commit" /\ rows' = rows \cup draft[s].rows
    BY <1>5 DEF Commit
  <2>3. ASSUME NEW t \in Session, t # s PROVE SessionOK(t)'
    <3>1. /\ pc'[t] = pc[t] /\ job'[t] = job[t] /\ draft'[t] = draft[t]
          /\ reply'[t] = reply[t] /\ outcome'[t] = outcome[t]
          /\ \A k \in Key : commandLock[k] = t => commandLock'[k] = t
          /\ positionLock = t => positionLock' = t
      BY <1>1, <2>1, <2>3, EndWithOthers
    <3>2. CASE draft[s].rows = {}
      BY <1>1, <2>2, <3>1, <3>2, FrameOK DEF SInv
    <3>3. CASE draft[s].rows # {}
      BY <2>2, <2>3, <3>1, <3>3, FrameCommit DEF SInv
    <3> QED
      BY <3>2, <3>3
  <2> QED
    BY <1>5, <2>2, <2>3, CommitOwn, CommitWhole
<1>6. ASSUME NEW s \in Session, Rollback(s) \/ Fail(s) \/ DeadlockAbort(s)
      PROVE  CommandsWhole' /\ \A t \in Session : SessionOK(t)'
  <2>1. PICK verdict : EndWith(s, verdict) /\ verdict # "ok"
    <3>1. CASE Rollback(s)
      <4>1. outcome[s] # "ok"
        BY <3>1 DEF Rollback, SInv, SessionOK
      <4> QED
        BY <3>1, <4>1 DEF Rollback
    <3>2. CASE Fail(s) \/ DeadlockAbort(s)
      BY <3>2 DEF Fail, DeadlockAbort
    <3> QED
      BY <1>6, <3>1, <3>2
  <2>2. rows' = rows
    BY <1>6 DEF Rollback, Fail, DeadlockAbort
  <2>3. ASSUME NEW t \in Session, t # s PROVE SessionOK(t)'
    <3>1. /\ pc'[t] = pc[t] /\ job'[t] = job[t] /\ draft'[t] = draft[t]
          /\ reply'[t] = reply[t] /\ outcome'[t] = outcome[t]
          /\ \A k \in Key : commandLock[k] = t => commandLock'[k] = t
          /\ positionLock = t => positionLock' = t
      BY <1>1, <2>1, <2>3, EndWithOthers
    <3> QED
      BY <1>1, <2>2, <3>1, FrameOK DEF SInv
  <2>4. CommandsWhole'
    BY <2>2, CommandsWholeStays DEF SInv
  <2> QED
    BY <2>1, <2>2, <2>3, <2>4, EndOwn
<1> QED
  BY <1>3, <1>4, <1>5, <1>6 DEF Next, Step

LEMMA SInvHolds == Spec => []SInv
BY SInvInit, SInvStep, PTL DEF Spec

(***************************************************************************)
(* The events of a command identifier are one command's, whole and in      *)
(* order, at adjacent positions, whatever retries, failures and races      *)
(* Publish went through.                                                   *)
(***************************************************************************)
THEOREM CommandsStoredWhole == Spec => []CommandsWhole
<1>1. SInv => CommandsWhole
  BY DEF SInv
<1> QED
  BY <1>1, SInvHolds, PTL

(***************************************************************************)
(* A caller that Publish answered without an error has its commands in the *)
(* store, and was given exactly the events stored for them.                *)
(***************************************************************************)
THEOREM AcknowledgedStays == Spec => []AcknowledgedIsStored
<1>1. SInv => AcknowledgedIsStored
  <2>1. ASSUME SInv, NEW s \in Session, outcome[s] = "ok"
        PROVE  /\ reply[s] \subseteq rows
               /\ \A n \in DOMAIN job[s].plan :
                    /\ CommandMatches(job[s].plan[n], StoredOf(job[s].plan[n], rows))
                    /\ StoredOf(job[s].plan[n], rows) \subseteq reply[s]
    BY <2>1 DEF SInv, SessionOK, Acknowledged, Answered
  <2> QED
    BY <2>1 DEF AcknowledgedIsStored
<1> QED
  BY <1>1, SInvHolds, PTL

(***************************************************************************)
(* Publish reports a version conflict only for a command that is not in    *)
(* the store: a repeated command is answered, never refused because of     *)
(* itself.                                                                 *)
(***************************************************************************)
THEOREM ConflictsAreTrue == Spec => []ConflictMeansNotStored
<1>1. SInv => ConflictMeansNotStored
  BY DEF SInv, SessionOK, ConflictMeansNotStored
<1> QED
  BY <1>1, SInvHolds, PTL

-----------------------------------------------------------------------------
(***************************************************************************)
(* The store implements the log.  What a reader sees of rows R up to       *)
(* position a, and when it is what Publish of the log makes of it.         *)
(***************************************************************************)
LogEntry == [owner : Owner, id : CommandId, index : Nat, stream : Stream, version : Nat, body : Body]

Shown(r) == [owner |-> r.owner, id |-> r.id, index |-> r.index,
             stream |-> r.stream, version |-> r.version, body |-> r.body]

ViewOf(R, a) == [q \in 1..a |-> Shown(CHOOSE r \in R : r.pos = q)]

\* What the log shows before and after a step.
LEMMA LogViewIs == /\ LogView = ViewOf(rows, lastPosition)
                   /\ LogView' = ViewOf(rows', lastPosition')
BY DEF LogView, ViewOf, RowAt, Shown

\* Later versions of a stream lie at later positions.
OrderedRows(R) ==
  \A r1, r2 \in R : r1.stream = r2.stream /\ r1.pos < r2.pos => r1.version < r2.version

\* The log l has the rows of R up to position a.
Shows(l, R, a) ==
  /\ DOMAIN l = 1..a /\ l \in Seq(LogEntry) /\ Len(l) = a
  /\ \A r \in R : r.pos <= a => r.pos \in 1..a /\ l[r.pos] = Shown(r)
  /\ \A q \in 1..a : \E r \in R : r.pos = q /\ l[q] = Shown(r)

\* A set of rows that readers may see: all positions up to last.
LEMMA ViewOfIs ==
  ASSUME NEW R \in SUBSET Row, NEW last \in Nat, PositionsDense(R, last),
         NEW a \in 0..last
  PROVE  Shows(ViewOf(R, a), R, a) /\ \A r \in R : r.pos \in Nat \ {0} /\ r.pos <= last
<1>1. \A r \in R : r.pos \in Nat \ {0} /\ r.pos <= last
  BY DEF PositionsDense
<1>2. ASSUME NEW r \in R PROVE (CHOOSE x \in R : x.pos = r.pos) = r
  BY DEF PositionsDense
<1>3. ASSUME NEW r \in R, r.pos <= a PROVE r.pos \in 1..a /\ ViewOf(R, a)[r.pos] = Shown(r)
  <2>1. r.pos \in 1..a
    BY <1>1, <1>3
  <2> QED
    BY <1>2, <2>1 DEF ViewOf
<1>4. ASSUME NEW q \in 1..a PROVE \E r \in R : r.pos = q /\ ViewOf(R, a)[q] = Shown(r)
  <2>1. q \in 1..last /\ q <= a
    OBVIOUS
  <2>2. PICK r \in R : r.pos = q
    BY <2>1 DEF PositionsDense
  <2> QED
    BY <1>3, <2>1, <2>2
<1>5. DOMAIN ViewOf(R, a) = 1..a
  BY DEF ViewOf
<1>6. \A r \in R : Shown(r) \in LogEntry
  BY DEF Shown, LogEntry, Row
<1>7. ViewOf(R, a) \in [1..a -> LogEntry]
  BY <1>4, <1>5, <1>6 DEF ViewOf
<1>8. a \in Nat
  OBVIOUS
<1>9. ViewOf(R, a) \in Seq(LogEntry)
  BY <1>7, <1>8, SeqDef
<1>10. Len(ViewOf(R, a)) = a
  BY <1>5, <1>8, <1>9, LenProperties
<1> QED
  BY <1>1, <1>3, <1>4, <1>5, <1>9, <1>10 DEF Shows

\* More rows behind the last position change nothing before it.
LEMMA ViewExtended ==
  ASSUME NEW R \in SUBSET Row, NEW S \in SUBSET Row, NEW a \in Nat, NEW last \in Nat,
         PositionsDense(R, a), PositionsDense(S, last), R \subseteq S, a <= last
  PROVE  ViewOf(S, a) = ViewOf(R, a)
<1>1. Shows(ViewOf(R, a), R, a) /\ Shows(ViewOf(S, a), S, a)
  <2>1. a \in 0..a /\ a \in 0..last
    OBVIOUS
  <2> QED
    BY <2>1, ViewOfIs
<1>2. DOMAIN ViewOf(S, a) = 1..a /\ DOMAIN ViewOf(R, a) = 1..a
  BY DEF ViewOf
<1>3. ASSUME NEW q \in 1..a PROVE ViewOf(S, a)[q] = ViewOf(R, a)[q]
  <2>1. PICK r \in R : r.pos = q /\ ViewOf(R, a)[q] = Shown(r)
    BY <1>1 DEF Shows
  <2>2. r.pos <= a /\ r \in S
    BY <2>1
  <2> QED
    BY <1>1, <2>1, <2>2 DEF Shows
<1> QED
  BY <1>2, <1>3 DEF ViewOf

-----------------------------------------------------------------------------
\* The log has entries of a command when the rows up to there have some.
LEMMA RecordedIs ==
  ASSUME NEW R \in SUBSET Row, NEW last \in Nat, PositionsDense(R, last),
         NEW a \in 0..last, NEW c
  PROVE  Log!Recorded(ViewOf(R, a), c) <=> \E r \in StoredOf(c, R) : r.pos <= a
<1>0. Shows(ViewOf(R, a), R, a) /\ \A x \in R : x.pos \in Nat \ {0} /\ x.pos <= last
  BY ViewOfIs
<1>1. ASSUME NEW r \in StoredOf(c, R), r.pos <= a PROVE Log!Recorded(ViewOf(R, a), c)
  <2>1. r \in R /\ r.owner = c.owner /\ r.id = c.id
    BY DEF StoredOf
  <2>2. r.pos \in DOMAIN ViewOf(R, a) /\ ViewOf(R, a)[r.pos] = Shown(r)
    BY <1>1, <2>1, <1>0 DEF Shows
  <2> QED
    BY <2>1, <2>2 DEF Log!Recorded, Shown
<1>2. ASSUME NEW q \in DOMAIN ViewOf(R, a), ViewOf(R, a)[q].owner = c.owner, ViewOf(R, a)[q].id = c.id
      PROVE  \E r \in StoredOf(c, R) : r.pos <= a
  <2>1. q \in 1..a
    BY <1>0 DEF Shows
  <2>2. PICK r \in R : r.pos = q /\ ViewOf(R, a)[q] = Shown(r)
    BY <2>1, <1>0 DEF Shows
  <2>3. r \in StoredOf(c, R) /\ r.pos <= a
    BY <1>2, <2>1, <2>2 DEF StoredOf, Shown
  <2> QED
    BY <2>3
<1> QED
  BY <1>1, <1>2 DEF Log!Recorded

\* A stored event is shown as the entry of the command it matches.
LEMMA EntryIs ==
  ASSUME NEW c, NEW R, NEW r \in StoredOf(c, R), NEW i, EventMatches(c, i, r)
  PROVE  Shown(r) = Log!Entry(c, i)
BY DEF Shown, Log!Entry, EventMatches, StoredOf

\* A command that is stored as it was sent is one the log answers.
LEMMA ReplayedIs ==
  ASSUME NEW R \in SUBSET Row, NEW last \in Nat, PositionsDense(R, last),
         NEW a \in 0..last, NEW c \in Command, CommandMatches(c, StoredOf(c, R)),
         \A r \in StoredOf(c, R) : r.pos <= a
  PROVE  Log!Replayed(ViewOf(R, a), c) /\ Log!Recorded(ViewOf(R, a), c)
<1>0. Shows(ViewOf(R, a), R, a) /\ \A x \in R : x.pos \in Nat \ {0} /\ x.pos <= last
  BY ViewOfIs
<1> DEFINE l == ViewOf(R, a)
<1>1. Log!Recorded(l, c)
  <2>1. PICK r \in R : RowKey(r) = KeyOf(c)
    BY MatchedExists
  <2>2. r \in StoredOf(c, R)
    BY <2>1, StoredByKey
  <2> QED
    BY <2>2, RecordedIs
<1>2. ASSUME NEW q \in Log!Positions(l, c) PROVE \E i \in DOMAIN c.events : l[q] = Log!Entry(c, i)
  <2>1. q \in 1..a /\ l[q].owner = c.owner /\ l[q].id = c.id
    BY <1>0 DEF Shows, Log!Positions
  <2>2. PICK r \in R : r.pos = q /\ l[q] = Shown(r)
    BY <2>1, <1>0 DEF Shows
  <2>3. r \in StoredOf(c, R)
    BY <2>1, <2>2 DEF StoredOf, Shown
  <2>4. PICK i \in DOMAIN c.events : EventMatches(c, i, r)
    BY <2>3 DEF CommandMatches
  <2> QED
    BY <2>2, <2>3, <2>4, EntryIs
<1>3. ASSUME NEW i \in DOMAIN c.events PROVE \E q \in Log!Positions(l, c) : l[q] = Log!Entry(c, i)
  <2>1. PICK r \in StoredOf(c, R) : EventMatches(c, i, r)
    BY DEF CommandMatches
  <2>2. r \in R /\ r.owner = c.owner /\ r.id = c.id /\ r.pos <= a
    BY DEF StoredOf
  <2>3. r.pos \in DOMAIN l /\ l[r.pos] = Shown(r)
    BY <2>2, <1>0 DEF Shows
  <2>4. r.pos \in Log!Positions(l, c)
    BY <2>2, <2>3 DEF Log!Positions, Shown
  <2> QED
    BY <2>1, <2>3, <2>4, EntryIs
<1> HIDE DEF l
<1>4. Log!Replayed(l, c)
  BY <1>2, <1>3 DEF Log!Replayed
<1> QED
  BY <1>1, <1>4 DEF l

\* A row continues its stream over the rows before it.
LEMMA ContinuesIs ==
  ASSUME NEW R \in SUBSET Row, NEW last \in Nat, PositionsDense(R, last),
         NEW strs \in [Stream -> StreamRow], StreamsDense(R, strs), OrderedRows(R),
         NEW b \in 0..last, NEW r \in R, r.pos = b + 1,
         NEW e, e.stream = r.stream, e.version = r.version
  PROVE  Log!Continues(ViewOf(R, b), r.owner, e)
<1>0. Shows(ViewOf(R, b), R, b) /\ \A x \in R : x.pos \in Nat \ {0} /\ x.pos <= last
  BY ViewOfIs
<1> DEFINE l == ViewOf(R, b)
           past == {q \in DOMAIN l : l[q].stream = e.stream}
<1>1. \A q \in past : \E x \in R : /\ x.pos = q /\ x.pos < r.pos /\ l[q] = Shown(x)
                                   /\ x.stream = r.stream
  <2> SUFFICES ASSUME NEW q \in past
               PROVE  \E x \in R : /\ x.pos = q /\ x.pos < r.pos /\ l[q] = Shown(x)
                                   /\ x.stream = r.stream
    OBVIOUS
  <2>1. q \in 1..b /\ l[q].stream = r.stream
    BY <1>0 DEF Shows
  <2>2. PICK x \in R : x.pos = q /\ l[q] = Shown(x)
    BY <2>1, <1>0 DEF Shows
  <2>3. x.pos < r.pos
    BY <2>1, <2>2
  <2> QED
    BY <2>1, <2>2, <2>3 DEF Shown
<1>2. \A x \in R : x.pos < r.pos /\ x.stream = r.stream => x.pos \in past /\ l[x.pos] = Shown(x)
  <2> SUFFICES ASSUME NEW x \in R, x.pos < r.pos, x.stream = r.stream
               PROVE  x.pos \in past /\ l[x.pos] = Shown(x)
    OBVIOUS
  <2>1. x.pos <= b
    BY <1>0 DEF Shows
  <2>2. x.pos \in DOMAIN l /\ l[x.pos] = Shown(x)
    BY <2>1, <1>0 DEF Shows
  <2> QED
    BY <2>2 DEF Shown
<1>3. \A x \in R : x.version \in Nat \ {0} /\ x.pos \in Nat
  BY DEF StreamsDense, Row
<1>4. \A q \in past : l[q].version \in 1..(r.version - 1) /\ l[q].owner = r.owner
  <2> SUFFICES ASSUME NEW q \in past
               PROVE  l[q].version \in 1..(r.version - 1) /\ l[q].owner = r.owner
    OBVIOUS
  <2>1. PICK x \in R : x.pos < r.pos /\ l[q] = Shown(x) /\ x.stream = r.stream
    BY <1>1
  <2>2. x.version < r.version
    BY <2>1 DEF OrderedRows
  <2>3. x.owner = r.owner
    BY <2>1 DEF StreamsDense
  <2>4. x.version \in 1..(r.version - 1)
    BY <1>3, <2>2
  <2> QED
    BY <2>1, <2>3, <2>4 DEF Shown
<1>5. ASSUME NEW v \in 1..(r.version - 1) PROVE \E q \in past : l[q].version = v
  <2>1. r.stream \in Stream /\ r.version \in 1..strs[r.stream].version
    BY DEF StreamsDense, Row
  <2>2. strs[r.stream].version \in Nat
    BY <2>1 DEF StreamRow
  <2>3. v \in 1..strs[r.stream].version /\ v < r.version
    BY <2>1, <2>2
  <2>4. PICK x \in R : x.stream = r.stream /\ x.version = v
    BY <2>1, <2>3 DEF StreamsDense
  <2>5. x.pos # r.pos
    BY <2>3, <2>4 DEF PositionsDense
  <2>6. ~ (r.pos < x.pos)
    BY <1>3, <2>3, <2>4 DEF OrderedRows
  <2>7. x.pos < r.pos
    BY <1>3, <2>5, <2>6
  <2>8. x.pos \in past /\ l[x.pos] = Shown(x)
    BY <1>2, <2>4, <2>7
  <2>9. l[x.pos].version = v
    BY <2>4, <2>8 DEF Shown
  <2> QED
    BY <2>8, <2>9
<1>6. Log!Continues(l, r.owner, e) <=>
        /\ {l[q].version : q \in past} = 1..(r.version - 1)
        /\ \A q \in past : l[q].owner = r.owner
  BY DEF Log!Continues
<1> HIDE DEF past, l
<1>7. {l[q].version : q \in past} = 1..(r.version - 1)
  BY <1>4, <1>5
<1> QED
  BY <1>4, <1>6, <1>7 DEF l

\* R has the events of c, and no others under its key, at the positions after a.
Appended(c, a, R) ==
  /\ \A i \in DOMAIN c.events :
       \E r \in StoredOf(c, R) : EventMatches(c, i, r) /\ r.pos = a + i
  /\ \A r \in StoredOf(c, R) : r.pos > a

\* What is shown after i events of such a command.
LEMMA AppendedShows ==
  ASSUME NEW R \in SUBSET Row, NEW last \in Nat, PositionsDense(R, last),
         NEW a \in Nat, NEW c \in Command, a + Len(c.events) <= last, Appended(c, a, R),
         NEW i \in 0..Len(c.events)
  PROVE  /\ a + i \in 0..last
         /\ ViewOf(R, a) \o SubSeq(Log!Entries(c), 1, i) = ViewOf(R, a + i)
<1> DEFINE l == ViewOf(R, a)
           new == Log!Entries(c)
           m == ViewOf(R, a + i)
<1>1. c.events \in Seq(PendingEvent) /\ c.owner \in Owner /\ c.id \in CommandId
  BY CommandAssumption
<1>2. Len(c.events) \in Nat /\ DOMAIN c.events = 1..Len(c.events) /\ i \in Nat /\ i <= Len(c.events)
  BY <1>1
<1>3. a + i \in 0..last /\ a \in 0..last /\ a + i \in Nat
  BY <1>2
<1>4. Shows(l, R, a) /\ Shows(m, R, a + i)
  BY <1>3, ViewOfIs
<1>5. /\ DOMAIN new = 1..Len(c.events)
      /\ \A k \in 1..Len(c.events) : new[k] = Log!Entry(c, k)
  BY DEF Log!Entries
<1>6. \A k \in 1..Len(c.events) : new[k] \in LogEntry
  <2> SUFFICES ASSUME NEW k \in 1..Len(c.events) PROVE Log!Entry(c, k) \in LogEntry
    BY <1>5
  <2>1. c.events[k] \in PendingEvent /\ k - 1 \in Nat
    BY <1>1
  <2> QED
    BY <1>1, <2>1 DEF Log!Entry, LogEntry, PendingEvent
<1>7. ASSUME NEW k \in 1..i PROVE m[a + k] = new[k]
  <2>1. k \in 1..Len(c.events) /\ k \in DOMAIN c.events
    BY <1>2
  <2>2. PICK r \in StoredOf(c, R) : EventMatches(c, k, r) /\ r.pos = a + k
    BY <2>1 DEF Appended
  <2>3. r \in R /\ r.pos <= a + i
    BY <1>2, <2>2 DEF StoredOf
  <2>4. m[r.pos] = Shown(r)
    BY <1>4, <2>3 DEF Shows
  <2> QED
    BY <1>5, <2>1, <2>2, <2>4, EntryIs
<1>8. ASSUME NEW q \in 1..a PROVE m[q] = l[q]
  <2>1. PICK r \in R : r.pos = q /\ l[q] = Shown(r)
    BY <1>4 DEF Shows
  <2>2. r.pos <= a + i
    BY <1>2, <2>1
  <2> QED
    BY <1>4, <2>1, <2>2 DEF Shows
<1>9. l \in Seq(LogEntry) /\ Len(l) = a /\ m \in Seq(LogEntry) /\ Len(m) = a + i
  BY <1>4 DEF Shows
<1> HIDE DEF l, new, m
<1> DEFINE sub == SubSeq(new, 1, i)
<1>10. /\ sub \in Seq(LogEntry) /\ Len(sub) = i
       /\ \A k \in 1..i : sub[k] = new[k]
  <2>1. \A k \in 1..i : new[k] \in LogEntry
    BY <1>2, <1>6
  <2>2. /\ sub \in Seq(LogEntry) /\ Len(sub) = IF 1 <= i THEN i - 1 + 1 ELSE 0
        /\ \A k \in 1 .. i - 1 + 1 : sub[k] = new[1 + k - 1]
    BY <1>2, <2>1, SubSeqProperties
  <2> QED
    BY <1>2, <2>2
<1> HIDE DEF sub
<1>11. /\ l \o sub \in Seq(LogEntry) /\ Len(l \o sub) = a + i
       /\ \A q \in 1 .. a + i : (l \o sub)[q] = IF q <= a THEN l[q] ELSE sub[q - a]
  BY <1>9, <1>10, ConcatProperties
<1>12. ASSUME NEW q \in 1..(a + i) PROVE (l \o sub)[q] = m[q]
  <2>1. CASE q <= a
    BY <1>8, <1>11, <2>1
  <2>2. CASE ~ (q <= a)
    <3>1. PICK k \in 1..i : q = a + k
      <4>1. q - a \in 1..i /\ q = a + (q - a)
        BY <1>2, <2>2
      <4> QED
        BY <4>1
    <3>2. q - a = k
      BY <3>1
    <3> QED
      BY <1>7, <1>10, <1>11, <2>2, <3>1, <3>2
  <2> QED
    BY <2>1, <2>2
<1>13. l \o sub = m
  BY <1>9, <1>11, <1>12, LenProperties
<1> QED
  BY <1>3, <1>13 DEF sub, l, new, m

\* A command whose rows follow position a fits the log up to there.
LEMMA FitsIs ==
  ASSUME NEW R \in SUBSET Row, NEW last \in Nat, PositionsDense(R, last),
         NEW strs \in [Stream -> StreamRow], StreamsDense(R, strs), OrderedRows(R),
         NEW a \in Nat, NEW c \in Command, a + Len(c.events) <= last, Appended(c, a, R)
  PROVE  /\ Log!Fits(ViewOf(R, a), c) /\ ~ Log!Recorded(ViewOf(R, a), c)
         /\ ViewOf(R, a) \o Log!Entries(c) = ViewOf(R, a + Len(c.events))
<1>1. c.events \in Seq(PendingEvent) /\ Len(c.events) \in Nat
  BY CommandAssumption
<1>2. a \in 0..last
  BY <1>1
<1>3. ~ Log!Recorded(ViewOf(R, a), c)
  <2>1. ASSUME NEW r \in StoredOf(c, R) PROVE ~ (r.pos <= a)
    <3>1. r.pos \in Nat /\ r.pos > a
      BY DEF StoredOf, Row, Appended
    <3> QED
      BY <3>1
  <2> QED
    BY <1>2, <2>1, RecordedIs
<1>4. ASSUME NEW i \in DOMAIN c.events
      PROVE  Log!Continues(ViewOf(R, a) \o SubSeq(Log!Entries(c), 1, i - 1), c.owner, c.events[i])
  <2>1. i - 1 \in 0..Len(c.events) /\ i \in 1..Len(c.events)
    BY <1>1
  <2>2. /\ a + (i - 1) \in 0..last
        /\ ViewOf(R, a) \o SubSeq(Log!Entries(c), 1, i - 1) = ViewOf(R, a + (i - 1))
    BY <2>1, AppendedShows
  <2>3. PICK r \in StoredOf(c, R) : EventMatches(c, i, r) /\ r.pos = a + i
    BY DEF Appended
  <2>4. /\ r \in R /\ r.owner = c.owner /\ r.pos = (a + (i - 1)) + 1
        /\ c.events[i].stream = r.stream /\ c.events[i].version = r.version
    BY <2>1, <2>3 DEF StoredOf, EventMatches
  <2>5. Log!Continues(ViewOf(R, a + (i - 1)), r.owner, c.events[i])
    BY <2>2, <2>4, ContinuesIs
  <2> QED
    BY <2>2, <2>4, <2>5
<1>5. ViewOf(R, a) \o Log!Entries(c) = ViewOf(R, a + Len(c.events))
  <2>1. Len(c.events) \in 0..Len(c.events)
    BY <1>1
  <2>2. ViewOf(R, a) \o SubSeq(Log!Entries(c), 1, Len(c.events)) = ViewOf(R, a + Len(c.events))
    BY <2>1, AppendedShows
  <2>3. SubSeq(Log!Entries(c), 1, Len(c.events)) = Log!Entries(c)
    BY <1>1 DEF Log!Entries
  <2> QED
    BY <2>2, <2>3
<1> QED
  BY <1>3, <1>4, <1>5 DEF Log!Fits

-----------------------------------------------------------------------------
\* Between positions a and b the rows R have what publishing c adds: nothing when
\* it was stored before, or else all its events.
Placed(c, a, b, R) ==
  \/ /\ b = a /\ CommandMatches(c, StoredOf(c, R))
     /\ \A r \in StoredOf(c, R) : r.pos <= a
  \/ b = a + Len(c.events) /\ Appended(c, a, R)

\* The k-th of the values f, or the initial one.
Until(f, initial, k) == IF k = 0 THEN initial ELSE f[k]

\* There are positions at which the first n commands of a plan end, when publishing
\* them turns the rows up to first into the rows R up to last.
CutsOf(p, n, first, last, R) ==
  \E m \in [1..n -> 0..last] :
    /\ Until(m, first, n) = last
    /\ \A k \in 1..n : Placed(p[k], Until(m, first, k - 1), m[k], R)

\* How many commands of the plan Publish has returned for.
Count(s) == IF pc[s] = "commit" THEN job[s].at ELSE job[s].at - 1

\* The holder of the position row has published those commands, one after the
\* other, and some events of the next one.
Cuts(s) ==
  positionLock = s /\ pc[s] # "abort" =>
    CutsOf(job[s].plan, Count(s), lastPosition,
           draft[s].last - (IF Working(s) THEN job[s].next - 1 ELSE 0), Visible(s))

(***************************************************************************)
(* The invariant of the refinement.  The holder of the position row is     *)
(* half-way through Publish of the log: the commands it is done with end   *)
(* at positions m[1], m[2], ..., and the one it is appending has its first *)
(* events after the last of them.  Who does not hold the row has only met  *)
(* stored commands, by SInv.                                               *)
(***************************************************************************)
LInv ==
  /\ SInv /\ OrderedRows(rows)
  /\ \A s \in Session : OrderedRows(Visible(s)) /\ Cuts(s)

\* A set of numbers that is not empty has a smallest one.
LEMMA SmallestExists ==
  ASSUME NEW S \in SUBSET Nat, S # {} PROVE \E x \in S : \A y \in S : x <= y
<1> DEFINE R == {ss \in Nat \X Nat : ss[1] < ss[2]}
<1>1. IsWellFoundedOn(R, Nat)
  BY NatLessThanWellFounded DEF OpToRel
<1>2. \A x, y \in Nat : <<y, x>> \notin R => x <= y
  OBVIOUS
<1> HIDE DEF R
<1>3. PICK x \in S : \A y \in S : <<y, x>> \notin R
  BY <1>1, WFMin
<1> QED
  BY <1>2, <1>3

-----------------------------------------------------------------------------
(* Publish of the log. *)

\* The log once c has been published.
Added(l, c) == IF Log!Recorded(l, c) THEN l ELSE l \o Log!Entries(c)

\* The log after each of the first n commands of p.
After(n, p, l) ==
  LET after[i \in 0..n] ==
        IF i = 0 THEN l
        ELSE IF Log!Recorded(after[i - 1], p[i]) THEN after[i - 1]
        ELSE after[i - 1] \o Log!Entries(p[i])
  IN after

Accepted(l, c) == Log!Replayed(l, c) \/ Log!Fits(l, c)

\* Publish of the log in those words.
LEMMA PublishIs ==
  ASSUME NEW p
  PROVE  Log!Publish(p) <=>
           /\ \A i \in DOMAIN p : Accepted(After(Len(p), p, LogView)[i - 1], p[i])
           /\ LogView' = After(Len(p), p, LogView)[Len(p)]
BY Zenon DEF Log!Publish, After, Accepted

\* A function on 0..n that is l, and then what each command adds.
Stepwise(f, n, p, l) ==
  f = [i \in 0..n |-> IF i = 0 THEN l ELSE Added(f[i - 1], p[i])]

\* After is the function its recursive definition describes.
LEMMA AfterChoice ==
  ASSUME NEW n, NEW p, NEW l
  PROVE  After(n, p, l) = CHOOSE f : Stepwise(f, n, p, l)
BY Zenon DEF After, Stepwise, Added

\* h has what the log is after each command.
Follows(h, n, p, l) == \A k \in 1..n : h[k] = Added(Until(h, l, k - 1), p[k])

\* There is one such function.
LEMMA AfterIs ==
  ASSUME NEW n \in Nat, NEW p, NEW l, NEW h, Follows(h, n, p, l)
  PROVE  \A k \in 0..n : After(n, p, l)[k] = Until(h, l, k)
<1>1. PICK g : g = [i \in 0..n |-> Until(h, l, i)]
  OBVIOUS
<1>2. Stepwise(g, n, p, l)
  <2>1. ASSUME NEW i \in 0..n PROVE g[i] = IF i = 0 THEN l ELSE Added(g[i - 1], p[i])
    <3>1. CASE i = 0
      BY <1>1, <3>1 DEF Until
    <3>2. CASE i # 0
      <4>1. i \in 1..n /\ i - 1 \in 0..n
        BY <3>2
      <4> QED
        BY <1>1, <3>2, <4>1 DEF Until, Follows
    <3> QED
      BY <3>1, <3>2
  <2>2. g = [i \in 0..n |-> g[i]]
    BY <1>1
  <2> QED
    BY <2>1, <2>2 DEF Stepwise
<1>3. PICK f : f = After(n, p, l)
  OBVIOUS
<1>4. Stepwise(f, n, p, l)
  BY <1>2, <1>3, AfterChoice
<1>5. \A i \in 0..n : f[i] = IF i = 0 THEN l ELSE Added(f[i - 1], p[i])
  BY <1>4 DEF Stepwise
<1>6. \A i \in 0..n : g[i] = IF i = 0 THEN l ELSE Added(g[i - 1], p[i])
  BY <1>2 DEF Stepwise
<1>7. SUFFICES \A i \in 0..n : f[i] = g[i]
  BY <1>1, <1>3
<1> DEFINE D == {i \in 0..n : f[i] # g[i]}
<1>8. SUFFICES ASSUME D # {} PROVE FALSE
  OBVIOUS
<1>9. PICK i \in D : \A j \in D : i <= j
  <2>1. D \in SUBSET Nat
    OBVIOUS
  <2> HIDE DEF D
  <2> QED
    BY <1>8, <2>1, SmallestExists
<1>10. i \in 0..n /\ f[i] # g[i]
  BY <1>9
<1>11. i # 0
  <2>1. 0 \in 0..n
    OBVIOUS
  <2>2. f[0] = l /\ g[0] = l
    BY <1>5, <1>6, <2>1
  <2> QED
    BY <1>10, <2>2
<1>12. i - 1 \in 0..n /\ ~ (i <= i - 1)
  BY <1>10, <1>11
<1>13. f[i - 1] = g[i - 1]
  BY <1>9, <1>12
<1>14. f[i] = Added(f[i - 1], p[i]) /\ g[i] = Added(g[i - 1], p[i])
  BY <1>5, <1>6, <1>10, <1>11
<1> QED
  BY <1>10, <1>13, <1>14

-----------------------------------------------------------------------------
(* The positions at which commands end. *)

\* One more command, placed after the last position.
LEMMA CutsNext ==
  ASSUME NEW p, NEW n \in Nat, NEW first \in Nat, NEW last \in Nat, NEW b \in Nat, NEW R,
         CutsOf(p, n, first, last, R), last <= b, Placed(p[n + 1], last, b, R)
  PROVE  CutsOf(p, n + 1, first, b, R)
<1>1. PICK m \in [1..n -> 0..last] :
        /\ Until(m, first, n) = last
        /\ \A k \in 1..n : Placed(p[k], Until(m, first, k - 1), m[k], R)
  BY DEF CutsOf
<1>2. PICK w : w = [k \in 1..(n + 1) |-> IF k <= n THEN m[k] ELSE b]
  OBVIOUS
<1>3. w \in [1..(n + 1) -> 0..b]
  <2>1. \A k \in 1..n : m[k] \in 0..b
    BY <1>1
  <2>2. \A k \in 1..(n + 1) : k <= n => k \in 1..n
    OBVIOUS
  <2>3. b \in 0..b
    OBVIOUS
  <2> QED
    BY <1>2, <2>1, <2>2, <2>3
<1>4. n + 1 # 0 /\ n + 1 \in 1..(n + 1) /\ ~ (n + 1 <= n) /\ (n + 1) - 1 = n
  OBVIOUS
<1>5. w[n + 1] = b
  BY <1>2, <1>4
<1>6. \A k \in 0..n : Until(w, first, k) = Until(m, first, k)
  <2> SUFFICES ASSUME NEW k \in 0..n, k # 0 PROVE w[k] = m[k]
    BY DEF Until
  <2>1. k \in 1..(n + 1) /\ k <= n
    OBVIOUS
  <2> QED
    BY <1>2, <2>1
<1>7. ASSUME NEW k \in 1..(n + 1) PROVE Placed(p[k], Until(w, first, k - 1), w[k], R)
  <2>1. CASE k \in 1..n
    <3>1. k - 1 \in 0..n /\ k \in 0..n /\ k # 0
      BY <2>1
    <3>2. w[k] = m[k] /\ Until(w, first, k - 1) = Until(m, first, k - 1)
      BY <1>6, <3>1 DEF Until
    <3> QED
      BY <1>1, <2>1, <3>2
  <2>2. CASE k \notin 1..n
    <3>1. k = n + 1
      BY <2>2
    <3>2. Until(w, first, k - 1) = last
      <4>1. n \in 0..n
        OBVIOUS
      <4> QED
        BY <1>1, <1>4, <1>6, <3>1, <4>1
    <3> QED
      BY <1>5, <3>1, <3>2
  <2> QED
    BY <2>1, <2>2
<1>8. Until(w, first, n + 1) = b
  BY <1>4, <1>5 DEF Until
<1> QED
  BY <1>3, <1>7, <1>8, Zenon DEF CutsOf

\* The rows of the commands are all that matters.
LEMMA CutsStable ==
  ASSUME NEW p, NEW n, NEW first, NEW last, NEW R, NEW S, CutsOf(p, n, first, last, R),
         \A k \in 1..n : StoredOf(p[k], S) = StoredOf(p[k], R)
  PROVE  CutsOf(p, n, first, last, S)
<1>1. PICK m \in [1..n -> 0..last] :
        /\ Until(m, first, n) = last
        /\ \A k \in 1..n : Placed(p[k], Until(m, first, k - 1), m[k], R)
  BY DEF CutsOf
<1>2. \A k \in 1..n : Placed(p[k], Until(m, first, k - 1), m[k], S)
  BY <1>1, Zenon DEF Placed, Appended
<1> QED
  BY <1>1, <1>2, Zenon DEF CutsOf

\* Commands that were all stored before leave the log as it was.
LEMMA CutsReplayed ==
  ASSUME NEW p, NEW n \in Nat, NEW last \in Nat, NEW R,
         \A k \in 1..n : CommandMatches(p[k], StoredOf(p[k], R)),
         \A r \in R : r.pos <= last
  PROVE  CutsOf(p, n, last, last, R)
<1>1. PICK m : m = [k \in 1..n |-> last]
  OBVIOUS
<1>2. m \in [1..n -> 0..last]
  BY <1>1
<1>3. \A k \in 0..n : Until(m, last, k) = last
  BY <1>1 DEF Until
<1>4. n \in 0..n /\ \A k \in 1..n : k - 1 \in 0..n /\ m[k] = last
  BY <1>1
<1>5. ASSUME NEW k \in 1..n PROVE Placed(p[k], last, last, R)
  <2>1. \A r \in StoredOf(p[k], R) : r.pos <= last
    BY DEF StoredOf
  <2> QED
    BY <2>1 DEF Placed
<1> QED
  BY <1>2, <1>3, <1>4, <1>5 DEF CutsOf

\* Rows of the event store that readers may see: R, up to position last.
Sound(R, last) ==
  /\ R \in SUBSET Row /\ PositionsDense(R, last) /\ OrderedRows(R)
  /\ \E strs \in [Stream -> StreamRow] : StreamsDense(R, strs)

\* A command is accepted by the log up to where it was placed, and adds what follows.
LEMMA PlacedIs ==
  ASSUME NEW R, NEW last \in Nat, Sound(R, last), NEW a \in 0..last, NEW b \in 0..last,
         NEW c \in Command, Placed(c, a, b, R)
  PROVE  Accepted(ViewOf(R, a), c) /\ ViewOf(R, b) = Added(ViewOf(R, a), c)
<1>1. CASE b = a /\ CommandMatches(c, StoredOf(c, R)) /\ \A r \in StoredOf(c, R) : r.pos <= a
  <2>1. Log!Replayed(ViewOf(R, a), c) /\ Log!Recorded(ViewOf(R, a), c)
    BY <1>1, ReplayedIs DEF Sound
  <2> QED
    BY <1>1, <2>1 DEF Accepted, Added
<1>2. CASE b = a + Len(c.events) /\ Appended(c, a, R)
  <2>1. PICK strs \in [Stream -> StreamRow] : StreamsDense(R, strs)
    BY DEF Sound
  <2>2. /\ Log!Fits(ViewOf(R, a), c) /\ ~ Log!Recorded(ViewOf(R, a), c)
        /\ ViewOf(R, a) \o Log!Entries(c) = ViewOf(R, a + Len(c.events))
    <3>1. a \in Nat /\ a + Len(c.events) <= last
      BY <1>2
    <3> QED
      BY <1>2, <2>1, <3>1, FitsIs DEF Sound
  <2> QED
    BY <1>2, <2>2 DEF Accepted, Added
<1> QED
  BY <1>1, <1>2 DEF Placed

\* Publishing the commands of a plan makes of the rows up to first those up to last.
LEMMA CutsPublish ==
  ASSUME NEW R, NEW last \in Nat, Sound(R, last), NEW first \in 0..last,
         NEW p \in Seq(Command), CutsOf(p, Len(p), first, last, R),
         LogView = ViewOf(R, first), LogView' = ViewOf(R, last)
  PROVE  Log!Publish(p)
<1>1. PICK n \in Nat : n = Len(p) /\ DOMAIN p = 1..n /\ \A k \in 1..n : p[k] \in Command
  OBVIOUS
<1>2. PICK m \in [1..n -> 0..last] :
        /\ Until(m, first, n) = last
        /\ \A k \in 1..n : Placed(p[k], Until(m, first, k - 1), m[k], R)
  BY <1>1 DEF CutsOf
<1>3. ASSUME NEW k \in 0..n PROVE Until(m, first, k) \in 0..last
  <2>1. k # 0 => k \in 1..n
    OBVIOUS
  <2> QED
    BY <2>1 DEF Until
<1>4. PICK l : l = LogView /\ l = ViewOf(R, first)
  OBVIOUS
<1>5. PICK h : h = [k \in 1..n |-> ViewOf(R, m[k])]
  OBVIOUS
<1>6. ASSUME NEW k \in 0..n PROVE Until(h, l, k) = ViewOf(R, Until(m, first, k))
  <2>1. k # 0 => k \in 1..n
    OBVIOUS
  <2> QED
    BY <1>4, <1>5, <2>1 DEF Until
<1>7. ASSUME NEW k \in 1..n
      PROVE  /\ Accepted(Until(h, l, k - 1), p[k])
             /\ h[k] = Added(Until(h, l, k - 1), p[k])
  <2>1. k - 1 \in 0..n /\ m[k] \in 0..last
    BY <1>2
  <2>2. PICK a \in 0..last : a = Until(m, first, k - 1)
    BY <1>3, <2>1
  <2>3. Accepted(ViewOf(R, a), p[k]) /\ ViewOf(R, m[k]) = Added(ViewOf(R, a), p[k])
    BY <1>1, <1>2, <2>1, <2>2, PlacedIs
  <2>4. Until(h, l, k - 1) = ViewOf(R, a)
    BY <1>6, <2>1, <2>2
  <2> QED
    BY <1>5, <2>3, <2>4
<1>8. \A k \in 0..n : After(n, p, l)[k] = Until(h, l, k)
  <2>1. Follows(h, n, p, l)
    BY <1>7 DEF Follows
  <2> QED
    BY <1>1, <2>1, AfterIs
<1>9. \A k \in 1..n : k - 1 \in 0..n /\ k \in 0..n
  OBVIOUS
<1>10. \A k \in DOMAIN p : Accepted(After(n, p, l)[k - 1], p[k])
  BY <1>1, <1>7, <1>8, <1>9
<1>11. LogView' = After(n, p, l)[n]
  <2>1. n \in 0..n
    OBVIOUS
  <2>2. After(n, p, l)[n] = ViewOf(R, last)
    BY <1>2, <1>6, <1>8, <2>1
  <2> QED
    BY <2>2
<1> QED
  BY <1>1, <1>4, <1>10, <1>11, PublishIs, Zenon

-----------------------------------------------------------------------------
(* The invariant is kept. *)

\* Done is a matter of how many.
LEMMA DoneIs == ASSUME NEW s PROVE Done(s) = 1..Count(s)
BY DEF Done, Count

\* Only these of the variables of a session matter for its cuts.
LEMMA CutsKept ==
  ASSUME NEW s \in Session, Cuts(s),
         positionLock' = s => positionLock = s, lastPosition' = lastPosition,
         rows' = rows, pc'[s] = pc[s], job'[s] = job[s], draft'[s] = draft[s]
  PROVE  Cuts(s)'
<1>1. Count(s)' = Count(s) /\ Visible(s)' = Visible(s) /\ Working(s)' = Working(s)
  BY DEF Count, Visible, Working
<1> QED
  BY <1>1 DEF Cuts

\* The positions the holder of the lock sees.
LEMMA HolderSees ==
  ASSUME IInv, NEW s \in Session, positionLock = s
  PROVE  /\ Visible(s) \in SUBSET Row /\ draft[s].last \in Nat
         /\ lastPosition \in 0..draft[s].last
         /\ PositionsDense(Visible(s), draft[s].last)
         /\ StreamsDense(Visible(s), draft[s].streams)
         /\ draft[s].streams \in [Stream -> StreamRow]
         /\ \A r \in Visible(s) : r.pos \in Nat /\ r.pos <= draft[s].last
<1>1. View(s) = draft[s] /\ draft[s] \in Draft /\ rows \in SUBSET Row /\ lastPosition \in Nat
  BY DEF View, IInv, TypeOK
<1>2. /\ PositionsDense(Visible(s), draft[s].last)
      /\ StreamsDense(Visible(s), draft[s].streams)
      /\ draft[s].last >= lastPosition
  BY <1>1, ViewConsistent DEF Visible
<1>3. Visible(s) \in SUBSET Row
  BY <1>1 DEF Visible, Draft
<1>4. /\ draft[s].last \in Nat /\ draft[s].streams \in [Stream -> StreamRow]
  BY <1>1 DEF Draft
<1>5. lastPosition \in 0..draft[s].last
  BY <1>1, <1>2, <1>4
<1>6. \A r \in Visible(s) : r.pos \in Nat /\ r.pos <= draft[s].last
  BY <1>2, <1>4 DEF PositionsDense
<1> QED
  BY <1>2, <1>3, <1>4, <1>5, <1>6

\* A session that does not hold the position row has published stored commands only.
LEMMA CutsWithoutLock ==
  ASSUME SInv, NEW s \in Session, pc[s] \notin {"idle", "abort"}, positionLock # s
  PROVE  CutsOf(job[s].plan, Count(s), lastPosition, lastPosition, Visible(s))
<1>1. TypeOK /\ Replied(s) /\ draft[s].rows = {} /\ NoPositionGap
  BY DEF SInv, IInv, SessionOK, DraftsConsistent
<1>2. Visible(s) = rows /\ lastPosition \in Nat
  BY <1>1 DEF Visible, TypeOK
<1>3. \A r \in Visible(s) : r.pos <= lastPosition
  BY <1>1, <1>2 DEF NoPositionGap, PositionsDense
<1>4. \A k \in 1..Count(s) : CommandMatches(job[s].plan[k], StoredOf(job[s].plan[k], Visible(s)))
  BY <1>1, DoneIs DEF Replied, Answered
<1>5. Count(s) \in Nat
  <2>1. job[s].at \in 1..Len(job[s].plan)
    BY <1>1 DEF TypeOK
  <2> QED
    BY <2>1 DEF Count
<1> QED
  BY <1>2, <1>3, <1>4, <1>5, CutsReplayed

\* Publish returned for the current command: one more is done.
LEMMA FinishCount ==
  ASSUME TypeOK, NEW s \in Session, pc[s] # "idle", pc[s] # "commit", FinishCommand(s)
  PROVE  /\ job'[s].plan = job[s].plan /\ Count(s)' = Count(s) + 1 /\ Count(s) \in Nat
         /\ job[s].plan[Count(s) + 1] = Current(s)
         /\ pc'[s] \in {"lock", "commit"} /\ ~ Working(s)'
<1>1. job[s].at \in Nat \ {0} /\ job[s].at \in 1..Len(job[s].plan)
  BY DEF TypeOK
<1>2. /\ job'[s].plan = job[s].plan
      /\ pc'[s] \in {"lock", "commit"} /\ ~ Working(s)'
  BY FinishCommandOK
<1>3. Count(s)' = job[s].at
  <2>1. CASE job[s].at < Len(job[s].plan)
    <3>1. /\ job' = [job EXCEPT ![s] = [job[s] EXCEPT !.at = job[s].at + 1, !.next = 1]]
          /\ pc' = [pc EXCEPT ![s] = "lock"]
      BY <2>1 DEF FinishCommand
    <3>2. job'[s].at = job[s].at + 1 /\ pc'[s] = "lock"
      BY <3>1 DEF TypeOK, Job
    <3>3. Count(s)' = (job[s].at + 1) - 1
      BY <3>2 DEF Count
    <3> QED
      BY <1>1, <3>3
  <2>2. CASE ~ (job[s].at < Len(job[s].plan))
    <3>1. job' = job /\ pc' = [pc EXCEPT ![s] = "commit"]
      BY <2>2 DEF FinishCommand
    <3>2. job'[s].at = job[s].at /\ pc'[s] = "commit"
      BY <3>1 DEF TypeOK
    <3> QED
      BY <3>2 DEF Count
  <2> QED
    BY <2>1, <2>2
<1>4. Count(s) = job[s].at - 1
  BY DEF Count
<1>5. Count(s) + 1 = job[s].at /\ Count(s) \in Nat
  BY <1>1, <1>4
<1> QED
  BY <1>2, <1>3, <1>5 DEF Current

\* ListByCommandID: a stored command ends where it began.
LEMMA ListCuts ==
  ASSUME SInv, NEW s \in Session, ListByCommandID(s), Cuts(s) PROVE Cuts(s)'
<1>1. /\ pc[s] = "list" /\ SessionOK(s) /\ TypeOK /\ IInv /\ job[s].next = 1
      /\ UNCHANGED <<rows, draft, positionLock, lastPosition>>
  BY DEF ListByCommandID, SInv, IInv, SessionOK
<1>2. SUFFICES ASSUME positionLock = s PROVE Cuts(s)'
  BY <1>1 DEF Cuts
<1>3. Visible(s)' = Visible(s) /\ draft[s].last \in Nat /\ lastPosition \in Nat
  <2>1. Visible(s)' = Visible(s)
    BY <1>1 DEF Visible
  <2>2. draft[s].last \in Nat /\ lastPosition \in Nat
    BY <1>1, <1>2, HolderSees DEF TypeOK
  <2> QED
    BY <2>1, <2>2
<1>4. ~ Working(s) /\ draft[s].last - 0 = draft[s].last
  BY <1>1, <1>3 DEF Working
<1>5. CutsOf(job[s].plan, Count(s), lastPosition, draft[s].last, Visible(s))
  BY <1>1, <1>2, <1>4 DEF Cuts
<1>6. CASE pc' = [pc EXCEPT ![s] = "append"] /\ UNCHANGED job
  <2>1. pc'[s] = "append" /\ job'[s].next = 1 /\ Working(s)' /\ Count(s)' = Count(s)
    BY <1>1, <1>6 DEF TypeOK, Working, Count
  <2>2. 1 - 1 = 0
    OBVIOUS
  <2> QED
    BY <1>1, <1>3, <1>4, <1>5, <1>6, <2>1, <2>2 DEF Cuts
<1>7. CASE CommandMatches(Current(s), StoredOf(Current(s), Visible(s))) /\ FinishCommand(s)
  <2>1. /\ job'[s].plan = job[s].plan /\ Count(s)' = Count(s) + 1 /\ Count(s) \in Nat
        /\ job[s].plan[Count(s) + 1] = Current(s) /\ ~ Working(s)'
    BY <1>1, <1>7, FinishCount
  <2>2. \A r \in StoredOf(Current(s), Visible(s)) : r.pos <= draft[s].last
    BY <1>1, <1>2, HolderSees DEF StoredOf
  <2>3. Placed(Current(s), draft[s].last, draft[s].last, Visible(s))
    BY <1>7, <2>2 DEF Placed
  <2>4. draft[s].last <= draft[s].last
    BY <1>3
  <2>5. CutsOf(job[s].plan, Count(s) + 1, lastPosition, draft[s].last, Visible(s))
    BY <1>3, <1>5, <2>1, <2>3, <2>4, CutsNext
  <2> QED
    BY <1>1, <1>3, <1>4, <2>1, <2>5 DEF Cuts
<1>8. CASE pc' = [pc EXCEPT ![s] = "abort"]
  BY <1>1, <1>8 DEF TypeOK, Cuts
<1> QED
  BY <1>6, <1>7, <1>8 DEF ListByCommandID

\* Begin, LockCommand and StartAppend publish nothing.
LEMMA QuietCuts ==
  ASSUME SInv, NEW s \in Session, Begin(s) \/ LockCommand(s) \/ StartAppend(s), Cuts(s)
  PROVE  Cuts(s)'
<1>1. TypeOK /\ UNCHANGED <<rows, draft, positionLock, lastPosition>>
  BY DEF SInv, IInv, Begin, LockCommand, StartAppend
<1>2. CASE Begin(s)
  <2>1. positionLock # s
    BY <1>2 DEF Begin, SInv, IInv, DraftsConsistent
  <2> QED
    BY <1>1, <2>1 DEF Cuts
<1>3. CASE LockCommand(s)
  <2>1. pc[s] = "lock" /\ pc'[s] = "list" /\ job' = job
    BY <1>1, <1>3 DEF LockCommand, TypeOK
  <2>2. Visible(s)' = Visible(s) /\ Count(s)' = Count(s) /\ ~ Working(s) /\ ~ Working(s)'
    BY <1>1, <2>1 DEF Visible, Count, Working
  <2> QED
    BY <1>1, <2>1, <2>2 DEF Cuts
<1>4. CASE StartAppend(s)
  <2>1. /\ pc[s] = "append" /\ pc'[s] = "wait"
        /\ job' = [job EXCEPT ![s] = [job[s] EXCEPT !.seen = View(s).streams[Pending(s).stream]]]
    BY <1>1, <1>4 DEF StartAppend, TypeOK
  <2>2. job'[s].plan = job[s].plan /\ job'[s].at = job[s].at /\ job'[s].next = job[s].next
    BY <1>1, <2>1 DEF TypeOK, Job
  <2>3. Visible(s)' = Visible(s) /\ Count(s)' = Count(s) /\ Working(s) /\ Working(s)'
    BY <1>1, <2>1, <2>2 DEF Visible, Count, Working
  <2> QED
    BY <1>1, <2>1, <2>2, <2>3 DEF Cuts
<1> QED
  BY <1>2, <1>3, <1>4
\* A row at the end of R, with a version of its stream that R has not reached.
LEMMA OrderedExtended ==
  ASSUME NEW R, OrderedRows(R), NEW strs, StreamsDense(R, strs), NEW r, R \in SUBSET Row, r \in Row,
         \A q \in R : q.pos < r.pos, strs[r.stream].version \in Nat,
         r.version = strs[r.stream].version + 1
  PROVE  OrderedRows(R \cup {r})
<1>1. \A q \in R : q.stream = r.stream => q.version < r.version
  <2> SUFFICES ASSUME NEW q \in R, q.stream = r.stream PROVE q.version < r.version
    OBVIOUS
  <2>1. q.version \in 1..strs[r.stream].version
    BY DEF StreamsDense
  <2> QED
    BY <2>1
<1>2. \A q \in R : q.pos \in Nat /\ r.pos \in Nat
  BY DEF Row
<1>3. ~ (r.pos < r.pos)
  BY DEF Row
<1>4. \A q \in R : ~ (r.pos < q.pos)
  BY <1>2
<1> QED
  BY <1>1, <1>3, <1>4 DEF OrderedRows

\* What RunAppend leaves for the command it appends to: events 1 to i of c are the
\* last i rows.
LEMMA PrefixAppended ==
  ASSUME NEW c \in Command, NEW D, NEW R, NEW i \in Nat, NEW a \in Nat, NEW last, last = a + i,
         Prefix(c, i, last, D), StoredOf(c, R) = StoredOf(c, D), DOMAIN c.events = 1..i
  PROVE  Appended(c, a, R)
<1>1. ASSUME NEW k \in DOMAIN c.events
      PROVE  \E r \in StoredOf(c, R) : EventMatches(c, k, r) /\ r.pos = a + k
  <2>1. PICK q \in StoredOf(c, D) : EventMatches(c, k, q)
    BY DEF Prefix
  <2>2. q.pos = last - i + (q.index + 1) /\ q \in Row
    BY DEF Prefix
  <2>3. q.index = k - 1 /\ k \in Nat
    BY <2>1 DEF EventMatches
  <2>4. q.pos = a + k
    BY <2>2, <2>3
  <2> QED
    BY <2>1, <2>4
<1>2. ASSUME NEW q \in StoredOf(c, D) PROVE q.pos > a
  <2>1. q.pos = last - i + (q.index + 1) /\ q.index + 1 \in 1..i /\ q \in Row
    BY DEF Prefix
  <2>2. q.index \in Nat
    BY <2>1 DEF Row
  <2> QED
    BY <2>1, <2>2
<1> QED
  BY <1>1, <1>2 DEF Appended

\* The last position is a number.
LEMMA CutsLast ==
  ASSUME NEW p, NEW n \in Nat, NEW first \in Nat, NEW last \in Int, NEW R,
         CutsOf(p, n, first, last, R)
  PROVE  last \in Nat
<1>1. PICK m \in [1..n -> 0..last] : Until(m, first, n) = last
  BY DEF CutsOf
<1>2. CASE n = 0
  BY <1>1, <1>2 DEF Until
<1>3. CASE n # 0
  <2>1. n \in 1..n
    BY <1>3
  <2>2. last \in 0..last
    BY <1>1, <1>3, <2>1 DEF Until
  <2> QED
    BY <2>2
<1> QED
  BY <1>2, <1>3

\* Where the commands end before an append: the row appended does not matter to them.
LEMMA CutsBefore ==
  ASSUME SInv, NEW s \in Session, pc[s] = "wait", PositionFree(s), Cuts(s),
         NEW i, i = job[s].next, NEW r, RowKey(r) = KeyOf(Current(s)),
         NEW last \in Nat, last = View(s).last
  PROVE  /\ last - (i - 1) \in Nat
         /\ CutsOf(job[s].plan, Count(s), lastPosition, last - (i - 1), Visible(s) \cup {r})
<1>1. TypeOK /\ IInv /\ InProgress(s) /\ Working(s) /\ lastPosition \in Nat
  BY DEF SInv, IInv, SessionOK, Working, TypeOK
<1>2. i \in Nat \ {0} /\ Count(s) \in Nat
  <2>1. job[s].at \in 1..Len(job[s].plan) /\ job[s].next \in 1..Len(Current(s).events)
    BY <1>1, CurrentType DEF TypeOK
  <2> QED
    BY <2>1 DEF Count
<1>3. CutsOf(job[s].plan, Count(s), lastPosition, last - (i - 1), Visible(s))
  <2>1. CASE positionLock = s
    <3>1. View(s) = draft[s]
      BY <2>1 DEF View
    <3> QED
      BY <1>1, <2>1, <3>1 DEF Cuts
  <2>2. CASE positionLock # s
    <3>1. View(s).last = lastPosition
      BY <2>2 DEF View
    <3>2. ~ (i > 1)
      BY <1>1, <2>2 DEF InProgress
    <3>3. last - (i - 1) = lastPosition
      BY <1>1, <1>2, <3>1, <3>2
    <3> QED
      BY <1>1, <2>2, <3>3, CutsWithoutLock
  <2> QED
    BY <2>1, <2>2
<1>4. ASSUME NEW k \in 1..Count(s)
      PROVE  StoredOf(job[s].plan[k], Visible(s) \cup {r}) = StoredOf(job[s].plan[k], Visible(s))
  <2>1. KeyOf(job[s].plan[k]) # KeyOf(Current(s))
    BY <1>1, DoneIs DEF InProgress
  <2> QED
    BY <2>1, NotExtended
<1>5. last - (i - 1) \in Int
  BY <1>2
<1> QED
  BY <1>1, <1>2, <1>3, <1>4, <1>5, CutsLast, CutsStable

\* RunAppend: one more event of the current command, or a conflict.
LEMMA RunAppendCuts ==
  ASSUME SInv, NEW s \in Session, RunAppend(s), Cuts(s), OrderedRows(Visible(s))
  PROVE  Cuts(s)' /\ OrderedRows(Visible(s))'
<1>1. PICK c, i, view, r : /\ c = Current(s) /\ i = job[s].next /\ view = View(s)
                           /\ r = NewRow(c, i, view)
  OBVIOUS
<1>2. /\ pc[s] = "wait" /\ PositionFree(s) /\ positionLock' = s
      /\ UNCHANGED <<rows, lastPosition>> /\ TypeOK /\ IInv /\ SessionOK(s) /\ Working(s)
      /\ InProgress(s) /\ positionLock \in {None, s}
  BY DEF RunAppend, SInv, IInv, Working, SessionOK, PositionFree
<1>3. /\ c \in Command /\ i \in 1..Len(c.events) /\ i \in Nat \ {0} /\ Pending(s) = c.events[i]
      /\ DOMAIN c.events = 1..Len(c.events) /\ c.events[i] \in PendingEvent
  BY <1>1, <1>2, CurrentType DEF Pending
<1>4. /\ view \in Draft /\ view.rows = draft[s].rows /\ view.last \in Nat
      /\ PositionsDense(Visible(s), view.last) /\ StreamsDense(Visible(s), view.streams)
      /\ view.streams \in [Stream -> StreamRow] /\ draft[s].rows \in SUBSET Row
  BY <1>1, <1>2, ViewConsistent, ViewType DEF Visible, Draft, TypeOK
<1>5. CASE /\ CanAdvance(c, c.events[i], job[s].seen, view.streams[c.events[i].stream])
           /\ draft' = [draft EXCEPT ![s] = Written(c, i, view)]
           /\ IF i < Len(c.events)
              THEN /\ job' = [job EXCEPT ![s].next = @ + 1]
                   /\ pc' = [pc EXCEPT ![s] = "append"]
              ELSE FinishCommand(s)
  <2>1. /\ r \in Row /\ RowKey(r) = KeyOf(c)
        /\ Written(c, i, view).rows = draft[s].rows \cup {r}
        /\ Written(c, i, view).last = r.pos
        /\ StoredOf(c, draft[s].rows \cup {r}) = StoredOf(c, draft[s].rows) \cup {r}
        /\ Prefix(c, i, r.pos, draft[s].rows \cup {r})
    <3>1. c = Current(s) /\ i = job[s].next /\ view = View(s) /\ r = NewRow(c, i, view)
      BY <1>1
    <3>2. CanAdvance(c, c.events[i], job[s].seen, view.streams[c.events[i].stream])
      BY <1>5, Zenon
    <3>3. pc[s] = "wait" /\ PositionFree(s)
      BY <1>2
    <3> QED
      BY ONLY SInv, s \in Session, <3>1, <3>2, <3>3, AppendedOK, SMTT(90)
  <2>2. draft'[s] = Written(c, i, view)
    BY <1>2, <1>5 DEF TypeOK
  <2>3. /\ draft'[s].last = r.pos /\ Visible(s)' = Visible(s) \cup {r}
        /\ r.pos = view.last + 1 /\ r.stream \in Stream
        /\ r.version = view.streams[r.stream].version + 1
    <3>1. Visible(s)' = Visible(s) \cup {r} /\ draft'[s].last = r.pos
      BY <1>2, <2>1, <2>2 DEF Visible
    <3>2. r.pos = view.last + 1 /\ r.version = view.streams[c.events[i].stream].version + 1
      BY <1>1 DEF NewRow
    <3>3. r.stream = c.events[i].stream /\ r.stream \in Stream
      BY <1>1, <1>3 DEF NewRow, PendingEvent
    <3> QED
      BY <3>1, <3>2, <3>3
  <2>4. PICK a \in Nat : /\ a = view.last - (i - 1)
                         /\ CutsOf(job[s].plan, Count(s), lastPosition, a, Visible(s) \cup {r})
    <3>1. /\ view.last = View(s).last /\ i = job[s].next /\ RowKey(r) = KeyOf(Current(s))
          /\ pc[s] = "wait" /\ PositionFree(s) /\ view.last \in Nat
      BY <1>1, <1>2, <1>4, <2>1
    <3>2. /\ view.last - (i - 1) \in Nat
          /\ CutsOf(job[s].plan, Count(s), lastPosition, view.last - (i - 1), Visible(s) \cup {r})
      BY ONLY SInv, s \in Session, Cuts(s), <3>1, CutsBefore
    <3> QED
      BY <3>2
  <2>5. r.pos = a + i /\ r.pos \in Nat
    <3>1. i \in Nat /\ view.last \in Nat /\ r.pos = view.last + 1 /\ a = view.last - (i - 1)
      BY <1>3, <1>4, <2>3, <2>4
    <3> QED
      BY ONLY <3>1
  <2>6. OrderedRows(Visible(s))'
    <3>1. \A q \in Visible(s) : q.pos < r.pos
      BY <1>4, <2>3 DEF PositionsDense
    <3>2. Visible(s) \in SUBSET Row
      BY <1>2, <1>4 DEF Visible, TypeOK
    <3>3. view.streams[r.stream].version \in Nat
      BY <1>4, <2>3 DEF StreamRow
    <3> QED
      BY <1>4, <2>1, <2>3, <3>1, <3>2, <3>3, OrderedExtended
  <2>7. CASE i < Len(c.events)
    <3>1. /\ job' = [job EXCEPT ![s] = [job[s] EXCEPT !.next = i + 1]]
          /\ pc' = [pc EXCEPT ![s] = "append"]
      BY <1>1, <1>5, <2>7
    <3>2. /\ job'[s].plan = job[s].plan /\ job'[s].at = job[s].at /\ job'[s].next = i + 1
          /\ pc'[s] = "append"
      BY <1>2, <3>1 DEF TypeOK, Job
    <3>3. Count(s)' = Count(s) /\ Working(s)'
      BY <1>2, <3>2 DEF Count, Working
    <3>4. r.pos - ((i + 1) - 1) = a
      BY <1>3, <2>5
    <3> QED
      BY <1>2, <2>3, <2>4, <2>6, <3>2, <3>3, <3>4 DEF Cuts
  <2>8. CASE ~ (i < Len(c.events))
    <3>1. FinishCommand(s) /\ DOMAIN c.events = 1..i /\ Len(c.events) = i
      BY <1>3, <1>5, <2>8
    <3>2. /\ job'[s].plan = job[s].plan /\ Count(s)' = Count(s) + 1 /\ Count(s) \in Nat
          /\ job[s].plan[Count(s) + 1] = c /\ ~ Working(s)'
      BY <1>1, <1>2, <3>1, FinishCount
    <3>3. StoredOf(c, Visible(s) \cup {r}) = StoredOf(c, draft[s].rows \cup {r})
      BY <1>1, <1>2 DEF InProgress, StoredOf, Visible
    <3>4. Appended(c, a, Visible(s) \cup {r})
      BY <1>3, <2>1, <2>5, <3>1, <3>3, PrefixAppended
    <3>5. Placed(c, a, r.pos, Visible(s) \cup {r})
      BY <2>5, <3>1, <3>4 DEF Placed
    <3>6. a <= r.pos /\ r.pos - 0 = r.pos /\ lastPosition \in Nat
      BY <1>2, <1>3, <2>5 DEF TypeOK
    <3>7. CutsOf(job[s].plan, Count(s) + 1, lastPosition, r.pos, Visible(s) \cup {r})
      BY <2>4, <2>5, <3>2, <3>5, <3>6, CutsNext
    <3> QED
      BY <1>2, <2>3, <2>6, <3>2, <3>6, <3>7 DEF Cuts
  <2> QED
    BY <2>7, <2>8
<1>6. CASE draft' = [draft EXCEPT ![s] = view] /\ pc' = [pc EXCEPT ![s] = "abort"]
  <2>1. pc'[s] = "abort" /\ draft'[s].rows = draft[s].rows
    BY <1>2, <1>4, <1>6 DEF TypeOK
  <2> QED
    BY <1>2, <2>1 DEF Cuts, Visible
<1>7. AppendVerdict(c, i, job[s].seen, view.streams[Pending(s).stream], Visible(s)) = "ok"
        => CanAdvance(c, c.events[i], job[s].seen, view.streams[c.events[i].stream])
  BY <1>3 DEF AppendVerdict
<1> QED
  BY <1>1, <1>3, <1>5, <1>6, <1>7 DEF RunAppend

-----------------------------------------------------------------------------
LEMMA LInvInit == Init => LInv
<1> SUFFICES ASSUME Init PROVE LInv
  OBVIOUS
<1>1. SInv
  BY SInvInit
<1>2. OrderedRows(rows)
  BY DEF Init, OrderedRows
<1>3. ASSUME NEW s \in Session PROVE OrderedRows(Visible(s)) /\ Cuts(s)
  <2>1. Visible(s) = {} /\ positionLock # s
    BY NoneAssumption DEF Init, Visible, NoDraft
  <2> QED
    BY <2>1 DEF OrderedRows, Cuts
<1> QED
  BY <1>1, <1>2, <1>3 DEF LInv

\* What a transaction that ends leaves to the others.
LEMMA EndCuts ==
  ASSUME SInv, NEW s \in Session, NEW verdict, EndWith(s, verdict),
         rows' = rows, lastPosition' = lastPosition,
         NEW t \in Session, Cuts(t), OrderedRows(rows), OrderedRows(Visible(t))
  PROVE  Cuts(t)' /\ OrderedRows(Visible(t))'
<1>1. TypeOK /\ IInv
  BY DEF SInv, IInv
<1>2. CASE t = s
  <2>1. positionLock' # s /\ draft'[s].rows = {}
    BY <1>1, EndWithDrafts
  <2> QED
    BY <1>2, <2>1 DEF Cuts, Visible
<1>3. CASE t # s
  <2>1. pc'[t] = pc[t] /\ job'[t] = job[t] /\ draft'[t] = draft[t]
    BY <1>1, <1>3, EndWithOthers
  <2>2. positionLock' = t => positionLock = t
    BY <1>1, <1>3, EndWithDrafts
  <2>3. Cuts(t)'
    BY <2>1, <2>2, CutsKept
  <2> QED
    BY <2>1, <2>3 DEF Visible
<1> QED
  BY <1>2, <1>3

\* Every step keeps the invariant.
LEMMA LInvStep == LInv /\ [Next]_vars => LInv'
<1> SUFFICES ASSUME LInv, [Next]_vars PROVE LInv'
  OBVIOUS
<1>1. SInv /\ SInv' /\ TypeOK /\ IInv /\ OrderedRows(rows)
  BY SInvStep DEF LInv, SInv, IInv
<1>2. \A t \in Session : Cuts(t) /\ OrderedRows(Visible(t))
  BY DEF LInv
<1>3. SUFFICES OrderedRows(rows)' /\ \A t \in Session : Cuts(t)' /\ OrderedRows(Visible(t))'
  BY <1>1 DEF LInv
<1>4. CASE UNCHANGED vars
  <2>1. ASSUME NEW t \in Session PROVE Cuts(t)' /\ OrderedRows(Visible(t))'
    <3>1. Cuts(t)'
      BY <1>2, <1>4, CutsKept DEF vars
    <3> QED
      BY <1>2, <1>4, <3>1 DEF vars, Visible
  <2> QED
    BY <1>1, <1>4, <2>1 DEF vars
<1>5. ASSUME NEW s \in Session,
             Begin(s) \/ LockCommand(s) \/ ListByCommandID(s) \/ StartAppend(s)
               \/ RunAppend(s)
      PROVE  OrderedRows(rows)' /\ \A t \in Session : Cuts(t)' /\ OrderedRows(Visible(t))'
  <2>1. rows' = rows /\ lastPosition' = lastPosition
    BY <1>5 DEF Begin, LockCommand, ListByCommandID, StartAppend, RunAppend
  <2>2. Cuts(s)' /\ OrderedRows(Visible(s))'
    <3>1. CASE RunAppend(s)
      BY <1>1, <1>2, <3>1, RunAppendCuts
    <3>2. CASE ListByCommandID(s)
      <4>1. Cuts(s)' /\ Visible(s)' = Visible(s)
        BY <1>1, <1>2, <3>2, ListCuts DEF ListByCommandID, Visible
      <4> QED
        BY <1>2, <4>1
    <3>3. CASE Begin(s) \/ LockCommand(s) \/ StartAppend(s)
      <4>1. Visible(s)' = Visible(s)
        BY <3>3 DEF Begin, LockCommand, StartAppend, Visible
      <4> QED
        BY <1>1, <1>2, <3>3, <4>1, QuietCuts
    <3> QED
      BY <1>5, <3>1, <3>2, <3>3
  <2>3. ASSUME NEW t \in Session, t # s PROVE Cuts(t)' /\ OrderedRows(Visible(t))'
    <3>1. pc'[t] = pc[t] /\ job'[t] = job[t] /\ draft'[t] = draft[t]
      BY <1>1, <1>5, <2>3
         DEF Begin, LockCommand, ListByCommandID, StartAppend, RunAppend, FinishCommand, TypeOK
    <3>2. positionLock' = t => positionLock = t
      BY <1>5, <2>3 DEF Begin, LockCommand, ListByCommandID, StartAppend, RunAppend
    <3>3. Cuts(t)'
      BY <1>2, <2>1, <3>1, <3>2, CutsKept
    <3> QED
      BY <1>2, <2>1, <3>1, <3>3 DEF Visible
  <2> QED
    BY <1>1, <2>1, <2>2, <2>3
<1>6. ASSUME NEW s \in Session, Commit(s)
      PROVE  OrderedRows(rows)' /\ \A t \in Session : Cuts(t)' /\ OrderedRows(Visible(t))'
  <2>1. PICK verdict : EndWith(s, verdict)
    BY <1>6 DEF Commit
  <2>2. rows' = Visible(s) /\ lastPosition' = View(s).last
    BY <1>6 DEF Commit, Visible
  <2>3. CASE positionLock = s
    <3>1. OrderedRows(rows)'
      BY <1>2, <2>2
    <3>2. ASSUME NEW t \in Session PROVE draft'[t].rows = {} /\ positionLock' # t
      <4>1. CASE t = s
        BY <1>1, <2>1, <4>1, EndWithDrafts
      <4>2. CASE t # s
        <5>1. positionLock # t
          BY <2>3, <4>2
        <5>2. draft[t].rows = {}
          BY <1>1, <5>1 DEF IInv, DraftsConsistent
        <5> QED
          BY <1>1, <2>1, <4>2, <5>1, <5>2, EndWithDrafts
      <4> QED
        BY <4>1, <4>2
    <3>3. ASSUME NEW t \in Session PROVE Cuts(t)' /\ OrderedRows(Visible(t))'
      <4>1. Visible(t)' = rows'
        BY <3>2 DEF Visible
      <4> QED
        BY <3>1, <3>2, <4>1 DEF Cuts
    <3> QED
      BY <3>1, <3>3
  <2>4. CASE positionLock # s
    <3>1. rows' = rows /\ lastPosition' = lastPosition
      BY <1>1, <2>2, <2>4 DEF IInv, DraftsConsistent, Visible, View
    <3> QED
      BY <1>1, <1>2, <2>1, <3>1, EndCuts
  <2> QED
    BY <2>3, <2>4
<1>7. ASSUME NEW s \in Session, Rollback(s) \/ Fail(s) \/ DeadlockAbort(s)
      PROVE  OrderedRows(rows)' /\ \A t \in Session : Cuts(t)' /\ OrderedRows(Visible(t))'
  <2>1. PICK verdict : EndWith(s, verdict)
    BY <1>7 DEF Rollback, Fail, DeadlockAbort
  <2>2. rows' = rows /\ lastPosition' = lastPosition
    BY <1>7 DEF Rollback, Fail, DeadlockAbort
  <2> QED
    BY <1>1, <1>2, <2>1, <2>2, EndCuts
<1> QED
  BY <1>4, <1>5, <1>6, <1>7 DEF Next, Step

-----------------------------------------------------------------------------
(* Every step is a publication to the log, or leaves it alone. *)

\* The commit of a session that wrote.
LEMMA CommitPublishes ==
  ASSUME LInv, NEW s \in Session, Commit(s), positionLock = s
  PROVE  \E p \in Plan : Log!Publish(p)
<1>1. SInv /\ IInv /\ TypeOK /\ pc[s] = "commit" /\ Cuts(s) /\ OrderedRows(Visible(s))
  BY DEF LInv, SInv, IInv, Commit
<1>2. PICK last : last = draft[s].last
  OBVIOUS
<1>3. PICK R : R = Visible(s)
  OBVIOUS
<1>4. /\ R \in SUBSET Row /\ last \in Nat /\ lastPosition \in 0..last
      /\ PositionsDense(R, last) /\ StreamsDense(R, draft[s].streams)
      /\ draft[s].streams \in [Stream -> StreamRow]
  BY <1>1, <1>2, <1>3, HolderSees
<1>5. Sound(R, last)
  BY <1>1, <1>3, <1>4 DEF Sound
<1>6. /\ job[s].plan \in Seq(Command) /\ job[s].plan \in Plan
      /\ job[s].at = Len(job[s].plan)
  <2>1. job[s].plan \in Plan \cup {<<>>} /\ job[s].plan # <<>>
    BY <1>1 DEF TypeOK, Job
  <2>2. job[s].plan \in Plan
    BY <2>1
  <2> QED
    BY <1>1, <2>2, CurrentType DEF SInv, SessionOK
<1>7. CutsOf(job[s].plan, Len(job[s].plan), lastPosition, last, R)
  <2>1. Count(s) = job[s].at /\ ~ Working(s)
    BY <1>1 DEF Count, Working
  <2>2. last - 0 = last
    BY <1>4
  <2> QED
    BY <1>1, <1>2, <1>3, <1>6, <2>1, <2>2 DEF Cuts
<1>8. rows' = R /\ lastPosition' = last
  BY <1>2, <1>3 DEF Commit, Visible, View
<1>9. LogView' = ViewOf(R, last)
  BY <1>8, LogViewIs
<1>10. LogView = ViewOf(R, lastPosition)
  <2>1. rows \in SUBSET Row /\ lastPosition \in Nat /\ PositionsDense(rows, lastPosition)
    BY <1>1 DEF TypeOK, IInv, NoPositionGap
  <2>2. rows \subseteq R /\ lastPosition <= last
    BY <1>3, <1>4 DEF Visible
  <2> QED
    BY <1>4, <2>1, <2>2, ViewExtended, LogViewIs
<1>11. Log!Publish(job[s].plan)
  BY <1>4, <1>5, <1>6, <1>7, <1>9, <1>10, CutsPublish
<1> QED
  BY <1>6, <1>11

\* Any step: only such a commit changes what a reader sees.
LEMMA StepIsPublication == LInv /\ [Next]_vars => [Log!Next]_LogView
<1> SUFFICES ASSUME LInv, [Next]_vars PROVE Log!Next \/ LogView' = LogView
  OBVIOUS
<1>1. CASE \E s \in Session : Commit(s) /\ positionLock = s
  BY <1>1, CommitPublishes DEF Log!Next
<1>2. CASE ~ \E s \in Session : Commit(s) /\ positionLock = s
  <2>1. rows' = rows /\ lastPosition' = lastPosition
    <3>1. CASE \E s \in Session : Commit(s)
      <4>1. PICK s \in Session : Commit(s)
        BY <3>1
      <4>2. positionLock # s
        BY <1>2, <4>1
      <4> QED
        BY <4>1, <4>2 DEF LInv, SInv, IInv, DraftsConsistent, Commit, View
    <3>2. CASE ~ \E s \in Session : Commit(s)
      BY <3>2 DEF Next, Step, vars, Begin, LockCommand, ListByCommandID, StartAppend,
                  RunAppend, Rollback, Fail, DeadlockAbort
    <3> QED
      BY <3>1, <3>2
  <2> QED
    BY <2>1, LogViewIs
<1> QED
  BY <1>1, <1>2

\* Nothing is stored at first.
LEMMA InitIsEmptyLog == Init => LogView = <<>>
<1> SUFFICES ASSUME Init PROVE LogView = <<>>
  OBVIOUS
<1>1. LogView = ViewOf(rows, 0)
  BY LogViewIs DEF Init
<1>2. 1..0 = {}
  OBVIOUS
<1> QED
  BY <1>1, <1>2 DEF ViewOf

(***************************************************************************)
(* The event store implements the log of module EventLog: however the      *)
(* round trips of the transactions interleave, fail and are retried, a     *)
(* reader sees each transaction take effect at once and as a whole, its    *)
(* commands in the order of the plan, each one either already in the log   *)
(* word for word or appended as one block that continues its streams.      *)
(***************************************************************************)
THEOREM StoreImplementsLog == Spec => ImplementsLog
<1>1. Init => Log!Init
  BY InitIsEmptyLog DEF Log!Init
<1>2. Spec => []LInv
  BY LInvInit, LInvStep, PTL DEF Spec
<1> QED
  BY <1>1, <1>2, StepIsPublication, PTL DEF Spec, ImplementsLog, Log!Spec
=============================================================================
