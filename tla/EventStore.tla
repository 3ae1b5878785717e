----------------------------- MODULE EventStore -----------------------------
(***************************************************************************)
(* The event store of the backend: event.Service.Publish                   *)
(* (internal/event/service.go) running its transactions over the database  *)
(* functions of migration 000009_event_store.                              *)
(*                                                                         *)
(* A session is one goroutine with its database transaction.  It publishes *)
(* the commands of a plan one after the other: one command when Publish    *)
(* opens its own transaction, several when a use case wraps the calls in   *)
(* an outer one, which Transactor.Do joins.  Every round trip to           *)
(* PostgreSQL is an action; the isolation level is READ COMMITTED, so a    *)
(* statement sees what was committed when it began and what its own        *)
(* transaction wrote.                                                      *)
(*                                                                         *)
(* Commands are already prepared: module PublishCommand models the         *)
(* validation and numbering done by Service.prepare.                       *)
(***************************************************************************)
EXTENDS Integers, Sequences, FiniteSets

CONSTANTS
  Session,          \* database sessions that run transactions
  Owner,            \* users
  CommandId,        \* idempotency keys, scoped by owner
  Stream,           \* (aggregate type, aggregate id) pairs
  Body,             \* event type, payload, metadata and actor of an event
  Command,          \* prepared commands
  Plan,             \* sequences of commands published in one transaction
  MaxTransactions,  \* bound: transactions begun in a behaviour
  None              \* no lock holder, no stream owner

PendingEvent == [stream : Stream, version : Nat \ {0}, body : Body]

ASSUME CommandAssumption ==
  /\ Command \subseteq [owner : Owner, id : CommandId, events : Seq(PendingEvent)]
  /\ \A c \in Command : c.events # <<>>

ASSUME PlanAssumption ==
  /\ Plan \subseteq Seq(Command)
  /\ \A p \in Plan : p # <<>>

ASSUME NoneAssumption == None \notin Session /\ None \notin Owner

ASSUME BoundAssumption == MaxTransactions \in Nat

VARIABLES
  rows,          \* event_store: the committed events
  lastPosition,  \* event_store_position.last_position, committed
  streams,       \* aggregate_streams, committed; version 0 is "no row"
  positionLock,  \* session holding the row lock of event_store_position
  commandLock,   \* holder of each command's advisory transaction lock
  pc,            \* where each session is in Publish
  job,           \* plan, current command, current event, statement snapshot
  draft,         \* what the session wrote and has not committed
  reply,         \* events returned by Publish so far in this transaction
  outcome,       \* what the caller was told about its last transaction
  begun          \* transactions begun so far

db    == <<rows, lastPosition, streams>>
locks == <<positionLock, commandLock>>
vars  == <<rows, lastPosition, streams, positionLock, commandLock,
           pc, job, draft, reply, outcome, begun>>

-----------------------------------------------------------------------------

Key       == Owner \X CommandId
KeyOf(c)  == <<c.owner, c.id>>
StreamRow == [owner : Owner \cup {None}, version : Nat]
NoStream  == [owner |-> None, version |-> 0]

Row == [pos : Nat, owner : Owner, id : CommandId, index : Nat,
        stream : Stream, version : Nat, body : Body]

Draft   == [rows : SUBSET Row, last : Nat, streams : [Stream -> StreamRow]]
NoDraft == [rows |-> {}, last |-> 0, streams |-> [st \in Stream |-> NoStream]]

Phase   == {"idle", "lock", "list", "append", "wait", "commit", "abort"}
Outcome == {"none", "ok", "version_conflict", "idempotency_conflict", "failed"}
Job     == [plan : Plan \cup {<<>>}, at : Nat, next : Nat, seen : StreamRow]
NoJob   == [plan |-> <<>>, at |-> 0, next |-> 0, seen |-> NoStream]

TypeOK ==
  /\ rows \subseteq Row
  /\ lastPosition \in Nat
  /\ streams \in [Stream -> StreamRow]
  /\ positionLock \in Session \cup {None}
  /\ commandLock \in [Key -> Session \cup {None}]
  /\ pc \in [Session -> Phase]
  /\ job \in [Session -> Job]
  /\ draft \in [Session -> Draft]
  /\ reply \in [Session -> SUBSET Row]
  /\ outcome \in [Session -> Outcome]
  /\ begun \in Nat
  /\ \A s \in Session : pc[s] # "idle" =>
       /\ job[s].plan # <<>>
       /\ job[s].at \in 1..Len(job[s].plan)
       /\ job[s].next \in 1..Len(job[s].plan[job[s].at].events)

Init ==
  /\ rows = {}
  /\ lastPosition = 0
  /\ streams = [st \in Stream |-> NoStream]
  /\ positionLock = None
  /\ commandLock = [k \in Key |-> None]
  /\ pc = [s \in Session |-> "idle"]
  /\ job = [s \in Session |-> NoJob]
  /\ draft = [s \in Session |-> NoDraft]
  /\ reply = [s \in Session |-> {}]
  /\ outcome = [s \in Session |-> "none"]
  /\ begun = 0

-----------------------------------------------------------------------------
(***************************************************************************)
(* What a statement of session s sees.  Only the holder of the position    *)
(* row has uncommitted writes, and nobody commits while it holds the row:  *)
(* its view is its draft.                                                  *)
(***************************************************************************)
Current(s) == job[s].plan[job[s].at]
Pending(s) == Current(s).events[job[s].next]

View(s) ==
  IF positionLock = s
  THEN draft[s]
  ELSE [rows |-> {}, last |-> lastPosition, streams |-> streams]

Visible(s) == rows \cup draft[s].rows

StoredOf(c, R) == {r \in R : r.owner = c.owner /\ r.id = c.id}

(***************************************************************************)
(* eventMatches and commandMatches: the stored events are, index by index, *)
(* the events this command would have appended.                            *)
(***************************************************************************)
EventMatches(c, i, r) ==
  /\ r.index = i - 1
  /\ r.stream = c.events[i].stream
  /\ r.version = c.events[i].version
  /\ r.body = c.events[i].body

CommandMatches(c, existing) ==
  /\ \A i \in DOMAIN c.events : \E r \in existing : EventMatches(c, i, r)
  /\ \A r \in existing : \E i \in DOMAIN c.events : EventMatches(c, i, r)

(***************************************************************************)
(* The version check of append_event.  An UPDATE finds its row in the      *)
(* snapshot the statement took before it waited for the position row and   *)
(* rechecks it in its latest version; an INSERT ... ON CONFLICT DO NOTHING *)
(* meets the latest version only.                                          *)
(***************************************************************************)
\* Mutants: the owner is not part of the check; the version is not.
CanAdvanceAnyOwner(c, e, seen, latest) ==
  latest.version = e.version - 1 /\ (e.version > 1 => seen.version = latest.version)
CanAdvanceAnyVersion(c, e, seen, latest) ==
  latest.version > 0 => latest.owner = c.owner

CanAdvance(c, e, seen, latest) ==
  IF e.version = 1
  THEN latest.version = 0
  ELSE /\ latest.version = e.version - 1
       /\ latest.owner = c.owner
       /\ seen.version = latest.version

\* The unique constraints of event_store and mapAppendError.
VersionTaken(e, latest, R) ==
  \E r \in R : r.stream = e.stream /\ r.version = latest.version + 1
IndexTaken(c, i, R) ==
  \E r \in R : r.owner = c.owner /\ r.id = c.id /\ r.index = i - 1

AppendVerdict(c, i, seen, latest, R) ==
  IF ~CanAdvance(c, c.events[i], seen, latest) \/ VersionTaken(c.events[i], latest, R)
  THEN "version_conflict"
  ELSE IF IndexTaken(c, i, R) THEN "idempotency_conflict" ELSE "ok"

NewRow(c, i, view) ==
  LET e == c.events[i]
  IN [pos |-> view.last + 1, owner |-> c.owner, id |-> c.id, index |-> i - 1,
      stream |-> e.stream, version |-> view.streams[e.stream].version + 1,
      body |-> e.body]

\* What append_event writes: the stream, the position and the event row.
Written(c, i, view) ==
  LET r == NewRow(c, i, view)
  IN [rows |-> view.rows \cup {r}, last |-> r.pos,
      streams |-> [view.streams EXCEPT
                     ![r.stream] = [owner |-> c.owner, version |-> r.version]]]

-----------------------------------------------------------------------------
\* Publish returned for the current command: the next one, or the commit.
FinishCommand(s) ==
  IF job[s].at < Len(job[s].plan)
  THEN /\ job' = [job EXCEPT ![s].at = @ + 1, ![s].next = 1]
       /\ pc' = [pc EXCEPT ![s] = "lock"]
  ELSE /\ pc' = [pc EXCEPT ![s] = "commit"]
       /\ UNCHANGED job

\* Mutant: a session-level advisory lock outlives the transaction.
ReleaseRowOnly(s) ==
  /\ positionLock' = IF positionLock = s THEN None ELSE positionLock
  /\ UNCHANGED commandLock

\* The end of a transaction releases its row and advisory locks.
Release(s) ==
  /\ positionLock' = IF positionLock = s THEN None ELSE positionLock
  /\ commandLock' = [k \in Key |-> IF commandLock[k] = s THEN None ELSE commandLock[k]]

EndWith(s, verdict) ==
  /\ Release(s)
  /\ pc' = [pc EXCEPT ![s] = "idle"]
  /\ draft' = [draft EXCEPT ![s] = NoDraft]
  /\ outcome' = [outcome EXCEPT ![s] = verdict]
  /\ UNCHANGED <<job, reply, begun>>

(***************************************************************************)
(* A caller opens a transaction that publishes the commands of a plan.  A  *)
(* retry after an error is one more Begin with the same plan.              *)
(***************************************************************************)
Begin(s) ==
  /\ pc[s] = "idle"
  /\ begun < MaxTransactions
  /\ begun' = begun + 1
  /\ \E p \in Plan :
       job' = [job EXCEPT ![s] = [plan |-> p, at |-> 1, next |-> 1, seen |-> NoStream]]
  /\ pc' = [pc EXCEPT ![s] = "lock"]
  /\ reply' = [reply EXCEPT ![s] = {}]
  /\ outcome' = [outcome EXCEPT ![s] = "none"]
  /\ UNCHANGED <<rows, lastPosition, streams, positionLock, commandLock, draft>>

\* Mutants: a lock that does not exclude; a position row that is not locked.
CommandAlwaysFree(s) == pc[s] = "lock"
PositionAlwaysFree(s) == pc[s] = "wait"

\* A lock is waited for while another transaction has it, never one's own.
CommandFree(s)  == commandLock[KeyOf(Current(s))] \in {None, s}
PositionFree(s) == positionLock \in {None, s}

\* lock_event_command.
LockCommand(s) ==
  /\ pc[s] = "lock"
  /\ CommandFree(s)
  /\ commandLock' = [commandLock EXCEPT ![KeyOf(Current(s))] = s]
  /\ pc' = [pc EXCEPT ![s] = "list"]
  /\ UNCHANGED <<rows, lastPosition, streams, positionLock, job, draft, reply, outcome, begun>>

\* Mutant: a stored command answers whatever is published under its key.
ListByCommandIDUnchecked(s) ==
  LET existing == StoredOf(Current(s), Visible(s)) IN
  /\ pc[s] = "list"
  /\ IF existing = {}
     THEN pc' = [pc EXCEPT ![s] = "append"] /\ UNCHANGED <<job, reply>>
     ELSE reply' = [reply EXCEPT ![s] = @ \cup existing] /\ FinishCommand(s)
  /\ UNCHANGED <<rows, lastPosition, streams, positionLock, commandLock, draft, outcome, begun>>

\* ListByCommandID in a statement of its own, and the idempotency decision.
ListByCommandID(s) ==
  LET existing == StoredOf(Current(s), Visible(s)) IN
  /\ pc[s] = "list"
  /\ \/ /\ existing = {}
        /\ pc' = [pc EXCEPT ![s] = "append"]
        /\ UNCHANGED <<job, reply, outcome>>
     \/ /\ existing # {}
        /\ CommandMatches(Current(s), existing)
        /\ reply' = [reply EXCEPT ![s] = @ \cup existing]
        /\ FinishCommand(s)
        /\ UNCHANGED outcome
     \/ /\ existing # {}
        /\ ~CommandMatches(Current(s), existing)
        /\ outcome' = [outcome EXCEPT ![s] = "idempotency_conflict"]
        /\ pc' = [pc EXCEPT ![s] = "abort"]
        /\ UNCHANGED <<job, reply>>
  /\ UNCHANGED <<rows, lastPosition, streams, positionLock, commandLock, draft, begun>>

\* append_event is sent: its snapshot is taken now, it may have to wait.
StartAppend(s) ==
  /\ pc[s] = "append"
  /\ job' = [job EXCEPT ![s].seen = View(s).streams[Pending(s).stream]]
  /\ pc' = [pc EXCEPT ![s] = "wait"]
  /\ UNCHANGED <<rows, lastPosition, streams, positionLock, commandLock,
                 draft, reply, outcome, begun>>

\* append_event gets the position row and runs to its end.
RunAppend(s) ==
  LET c       == Current(s)
      i       == job[s].next
      view    == View(s)
      latest  == view.streams[Pending(s).stream]
      verdict == AppendVerdict(c, i, job[s].seen, latest, Visible(s))
  IN
  /\ pc[s] = "wait"
  /\ PositionFree(s)
  /\ positionLock' = s
  /\ \/ /\ verdict = "ok"
        /\ draft' = [draft EXCEPT ![s] = Written(c, i, view)]
        /\ reply' = [reply EXCEPT ![s] = @ \cup {NewRow(c, i, view)}]
        /\ IF i < Len(c.events)
           THEN /\ job' = [job EXCEPT ![s].next = @ + 1]
                /\ pc' = [pc EXCEPT ![s] = "append"]
           ELSE FinishCommand(s)
        /\ UNCHANGED outcome
     \/ /\ verdict # "ok"
        /\ draft' = [draft EXCEPT ![s] = view]
        /\ outcome' = [outcome EXCEPT ![s] = verdict]
        /\ pc' = [pc EXCEPT ![s] = "abort"]
        /\ UNCHANGED <<job, reply>>
  /\ UNCHANGED <<rows, lastPosition, streams, commandLock, begun>>

\* COMMIT; the caller may lose the connection before it hears of it.
Commit(s) ==
  /\ pc[s] = "commit"
  /\ rows' = rows \cup draft[s].rows
  /\ lastPosition' = View(s).last
  /\ streams' = View(s).streams
  /\ \E verdict \in {"ok", "failed"} : EndWith(s, verdict)

\* Mutant: positions come from a sequence, which no rollback returns.
RollbackKeepsPositions(s) ==
  /\ pc[s] = "abort"
  /\ EndWith(s, outcome[s])
  /\ lastPosition' = View(s).last
  /\ UNCHANGED <<rows, streams>>

\* An error returned by Publish rolls the transaction back.
Rollback(s) ==
  /\ pc[s] = "abort"
  /\ EndWith(s, outcome[s])
  /\ UNCHANGED <<rows, lastPosition, streams>>

\* Mutant: no enclosing transaction, every append commits by itself.
FailKeepsAppends(s) ==
  /\ pc[s] \notin {"idle", "abort"}
  /\ EndWith(s, "failed")
  /\ rows' = rows \cup draft[s].rows
  /\ lastPosition' = View(s).last
  /\ streams' = View(s).streams

\* Cancelled context, lost connection, process crash: PostgreSQL rolls back.
Fail(s) ==
  /\ pc[s] \notin {"idle", "abort"}
  /\ EndWith(s, "failed")
  /\ UNCHANGED <<rows, lastPosition, streams>>

(***************************************************************************)
(* PostgreSQL's deadlock detector: a session that waits, through the locks *)
(* of others, for a lock it holds itself is aborted.                       *)
(***************************************************************************)
Holder(s) ==
  IF pc[s] = "lock" THEN commandLock[KeyOf(Current(s))]
  ELSE IF pc[s] = "wait" THEN positionLock ELSE None

WaitsFor(s) == IF Holder(s) = s THEN None ELSE Holder(s)

InCycle(s) ==
  LET reach[n \in 0..Cardinality(Session)] ==
        IF n = 0 THEN {WaitsFor(s)} \ {None}
        ELSE (reach[n - 1] \cup {WaitsFor(t) : t \in reach[n - 1]}) \ {None}
  IN s \in reach[Cardinality(Session)]

DeadlockAbort(s) ==
  /\ InCycle(s)
  /\ EndWith(s, "failed")
  /\ UNCHANGED <<rows, lastPosition, streams>>

Step(s) ==
  \/ LockCommand(s) \/ ListByCommandID(s) \/ StartAppend(s) \/ RunAppend(s)
  \/ Commit(s) \/ Rollback(s) \/ DeadlockAbort(s)

Next == \E s \in Session : Begin(s) \/ Step(s) \/ Fail(s)

(***************************************************************************)
(* Go and PostgreSQL keep running a statement that can run, and the        *)
(* deadlock detector runs after deadlock_timeout.  No fairness is assumed  *)
(* of callers or of failures.                                              *)
(***************************************************************************)
Spec == Init /\ [][Next]_vars
FairSpec == Spec /\ \A s \in Session : WF_vars(Step(s))

-----------------------------------------------------------------------------
(***************************************************************************)
(* Consistency of a set R of event rows with a value of the position row   *)
(* and of the stream table.                                                *)
(***************************************************************************)

\* R holds exactly the positions 1..last, each once.
PositionsDense(R, last) ==
  /\ \A r \in R : r.pos \in 1..last
  /\ \A p \in 1..last : \E r \in R : r.pos = p
  /\ \A r1, r2 \in R : r1.pos = r2.pos => r1 = r2

\* R holds the versions 1..current of every stream, each once, all its owner's.
StreamsDense(R, strs) ==
  /\ \A r \in R : r.version \in 1..strs[r.stream].version /\ r.owner = strs[r.stream].owner
  /\ \A st \in Stream : \A v \in 1..strs[st].version :
       \E r \in R : r.stream = st /\ r.version = v
  /\ \A r1, r2 \in R : r1.stream = r2.stream /\ r1.version = r2.version => r1 = r2

(***************************************************************************)
(* A reader that pages by global_position never meets a gap: whatever is   *)
(* committed is exactly 1..last_position, although positions are taken     *)
(* before the commit and transactions may roll back after taking some.     *)
(***************************************************************************)
NoPositionGap == PositionsDense(rows, lastPosition)

(***************************************************************************)
(* aggregate_streams and event_store agree: the current version of every   *)
(* stream is the number of its events, versions are consecutive, and all   *)
(* of them belong to the stream's owner, whoever raced to create it.       *)
(***************************************************************************)
StreamsFollowEvents == StreamsDense(rows, streams)

(***************************************************************************)
(* The holder of the position row is never ahead of a stale base: at every *)
(* moment what is committed together with what the holder wrote is         *)
(* consistent, its positions follow the committed ones, and no other       *)
(* session has written anything.  Commit relies on it.                     *)
(***************************************************************************)
DraftsConsistent ==
  \A s \in Session :
    /\ pc[s] = "idle" => positionLock # s
    /\ positionLock # s => draft[s].rows = {}
    /\ positionLock = s =>
         /\ PositionsDense(rows \cup draft[s].rows, draft[s].last)
         /\ StreamsDense(rows \cup draft[s].rows, draft[s].streams)
         /\ \A r \in draft[s].rows : r.pos > lastPosition

(***************************************************************************)
(* A command is stored whole, once, and unmixed: the rows of any command   *)
(* identifier are one command's events, in order, at adjacent positions,   *)
(* however many sessions, retries and failures took part.                  *)
(***************************************************************************)
CommandsWhole ==
  \A r \in rows : \E c \in Command :
    LET stored == StoredOf(c, rows) IN
    /\ r \in stored
    /\ CommandMatches(c, stored)
    /\ \A r1, r2 \in stored : r2.pos - r1.pos = r2.index - r1.index

(***************************************************************************)
(* A caller told "ok" can rely on it: each command of its plan is stored   *)
(* as it was sent and the events it got back are those stored, also when   *)
(* they were appended by an earlier attempt or by another session.         *)
(***************************************************************************)
AcknowledgedIsStored ==
  \A s \in Session : outcome[s] = "ok" =>
    /\ reply[s] \subseteq rows
    /\ \A n \in DOMAIN job[s].plan :
         LET c == job[s].plan[n]
         IN CommandMatches(c, StoredOf(c, rows)) /\ StoredOf(c, rows) \subseteq reply[s]

(***************************************************************************)
(* An append fails only for a command that is not stored.  With the        *)
(* advisory lock taken before the lookup, a repeated command that races    *)
(* with its first execution is answered with the stored events and never   *)
(* with a version conflict it caused itself.                               *)
(***************************************************************************)
ConflictMeansNotStored ==
  \A s \in Session : pc[s] = "abort" /\ outcome[s] = "version_conflict" =>
    StoredOf(Current(s), rows) = {}

(***************************************************************************)
(* Commit order is position order: what a commit adds lies after           *)
(* everything a reader may have seen, and nothing seen is ever changed, so *)
(* a reader that saved position p never misses an event at or below p.     *)
(***************************************************************************)
CommitsInPositionOrder ==
  [][/\ rows \subseteq rows'
     /\ \A r \in rows, new \in rows' \ rows : new.pos > r.pos]_rows

(***************************************************************************)
(* Every transaction ends: a wait for a lock is over when its holder ends, *)
(* and holders in a cycle are broken by the deadlock detector.             *)
(***************************************************************************)
TransactionEnds == \A s \in Session : pc[s] # "idle" ~> pc[s] = "idle"

\* The log a reader sees: the committed rows in the order of their positions.
RowAt(p) == CHOOSE r \in rows : r.pos = p

LogView ==
  [p \in 1..lastPosition |->
     LET r == RowAt(p)
     IN [owner |-> r.owner, id |-> r.id, index |-> r.index,
         stream |-> r.stream, version |-> r.version, body |-> r.body]]

Log == INSTANCE EventLog WITH log <- LogView

\* The transactions of the store are atomic publications to one ordered log.
ImplementsLog == Log!Spec
=============================================================================
