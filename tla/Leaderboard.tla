----------------------------- MODULE Leaderboard -----------------------------
(***************************************************************************)
(* The leaderboard read model: Projector.ProjectNextBatch of               *)
(* internal/leaderboard/projector.go run by several workers over the event *)
(* log, with the reset of migration 000011.                                *)
(*                                                                         *)
(* The log is the one EventLog specifies and EventStore implements: an     *)
(* event's position is its index, and an aggregate has one owner.          *)
(***************************************************************************)
EXTENDS Integers, Sequences, FiniteSetsExt

CONSTANTS
  Worker,      \* goroutines that call ProjectNextBatch
  User,
  Aggregate,   \* aggregate identifiers, of pets and of game sessions
  Value,       \* levels and scores carried by payloads
  Published,   \* the events producers may publish
  MaxLevel,    \* math.MaxInt32, scaled down
  PageSize,    \* projectionBatchSize
  MaxEvents,   \* bound: events published
  MaxResets,   \* bound: resets of the projection
  Nobody       \* no worker, no pet, and uuid.Nil for the session of a game

ASSUME NumbersAssumption ==
  /\ Value \subseteq Int
  /\ MaxLevel \in Nat \ {0} /\ PageSize \in Nat \ {0}
  /\ MaxEvents \in Nat /\ MaxResets \in Nat

ASSUME NobodyAssumption == Nobody \notin Worker \cup User \cup Aggregate

VARIABLES
  log,         \* the committed events
  model,       \* the committed read model and its checkpoint
  lock,        \* holder of the advisory lock of the projection
  pc,          \* where each worker is in ProjectNextBatch
  batch,       \* a worker's page, its place in it, and what it has written
  resets       \* resets so far

vars == <<log, model, lock, pc, batch, resets>>

-----------------------------------------------------------------------------
PetCreated == "PET_CREATED"
LevelReached == "LEVEL_REACHED"
GameSessionCompleted == "GAME_SESSION_COMPLETED"
Other == "COINS_GRANTED"      \* any type the projector does not read

\* What an event says.  The value of a new pet is below 1 when its name or
\* species is out of bounds, and any payload that does not decode has the
\* value -1.
Event == [type : {PetCreated, LevelReached, GameSessionCompleted, Other},
          schema : {1, 2}, kind : {"PET", "GAME_SESSION"}, owner : User,
          aggregate : Aggregate, session : Aggregate \cup {Nobody}, value : Value]

ASSUME PublishedAssumption == Published \subseteq Event

Reason == {"UNSUPPORTED_SCHEMA", "INVALID_AGGREGATE", "INVALID_PAYLOAD", "INVALID_SEQUENCE"}

NoPet   == [pet |-> Nobody, level |-> 0, position |-> 0]
NoScore == [best |-> 0, position |-> 0]

\* leaderboard_pet_levels, leaderboard_game_scores, leaderboard_event_failures
\* and the row of projection_checkpoints.
EmptyModel == [pets |-> [u \in User |-> NoPet], scores |-> [u \in User |-> NoScore],
               failures |-> {}, checkpoint |-> 0]

Model == [pets : [User -> [pet : Aggregate \cup {Nobody}, level : Nat, position : Nat]],
          scores : [User -> [best : Nat, position : Nat]],
          failures : SUBSET [position : Nat, reason : Reason], checkpoint : Nat]

NoBatch == [page |-> <<>>, base |-> 0, next |-> 1, work |-> EmptyModel]

Phase == {"idle", "lock", "checkpoint", "list", "apply", "save", "commit", "error"}

TypeOK ==
  /\ log \in Seq(Event) /\ Len(log) <= MaxEvents
  /\ model \in Model
  /\ lock \in Worker \cup {Nobody}
  /\ pc \in [Worker -> Phase]
  /\ batch \in [Worker -> [page : Seq(Event), base : Nat, next : Nat \ {0}, work : Model]]
  /\ resets \in 0..MaxResets
  /\ \A w \in Worker :
       pc[w] = "apply" => lock = w /\ batch[w].next \in 1..Len(batch[w].page)

-----------------------------------------------------------------------------
(* applyEvent: what one event does to the read model. *)

Relevant(e) == e.type # Other

KindOf(type) == IF type = GameSessionCompleted THEN "GAME_SESSION" ELSE "PET"

\* Mutant: a game is believed whatever it says.
PayloadOKForPets(e) ==
  CASE e.type = PetCreated -> e.value > 0
    [] e.type = LevelReached -> e.value \in 1..MaxLevel
    [] OTHER -> TRUE

PayloadOK(e) ==
  CASE e.type = PetCreated -> e.value > 0
    [] e.type = LevelReached -> e.value \in 1..MaxLevel
    [] e.type = GameSessionCompleted -> e.session # Nobody /\ e.value >= 0
    [] OTHER -> TRUE

\* The checks that need the event alone, in the order of applyEvent.
Defect(e) ==
  IF ~Relevant(e) THEN "none"
  ELSE IF e.schema # 1 THEN "UNSUPPORTED_SCHEMA"
  ELSE IF e.kind # KindOf(e.type) THEN "INVALID_AGGREGATE"
  ELSE IF ~PayloadOK(e) THEN "INVALID_PAYLOAD"
  ELSE IF e.type = GameSessionCompleted /\ e.session # e.aggregate THEN "INVALID_AGGREGATE"
  ELSE "none"

Quarantine(m, p, reason) ==
  [m EXCEPT !.failures = {f \in @ : f.position # p}
                         \cup {[position |-> p, reason |-> reason]}]

\* A pet of another user with this identifier violates a UNIQUE constraint.
PetTaken(m, e) == \E u \in User \ {e.owner} : m.pets[u].pet = e.aggregate

\* InsertLeaderboardPet: ON CONFLICT (user_id) DO NOTHING.
InsertPet(m, e, p) ==
  IF m.pets[e.owner] = NoPet
  THEN [m EXCEPT !.pets[e.owner] = [pet |-> e.aggregate, level |-> 1, position |-> p]]
  ELSE Quarantine(m, p, "INVALID_SEQUENCE")

\* AdvanceLeaderboardPetLevel: the same pet, a higher level, a later position.
AdvancePetLevel(m, e, p) ==
  IF /\ m.pets[e.owner].pet = e.aggregate
     /\ m.pets[e.owner].level < e.value
     /\ m.pets[e.owner].position < p
  THEN [m EXCEPT !.pets[e.owner].level = e.value, !.pets[e.owner].position = p]
  ELSE Quarantine(m, p, "INVALID_SEQUENCE")

\* UpsertLeaderboardGameScore: only a strictly better score is stored.
UpsertGameScore(m, e, p) ==
  IF m.scores[e.owner] = NoScore \/ m.scores[e.owner].best < e.value
  THEN [m EXCEPT !.scores[e.owner] = [best |-> e.value, position |-> p]]
  ELSE m

ApplyEvent(m, e, p) ==
  IF Defect(e) # "none" THEN Quarantine(m, p, Defect(e))
  ELSE CASE e.type = PetCreated -> InsertPet(m, e, p)
         [] e.type = LevelReached -> AdvancePetLevel(m, e, p)
         [] e.type = GameSessionCompleted -> UpsertGameScore(m, e, p)
         [] OTHER -> m

\* An error that is not a projection failure, and so aborts the batch.
Fatal(m, e) == Defect(e) = "none" /\ e.type = PetCreated /\ m.pets[e.owner] = NoPet /\ PetTaken(m, e)

-----------------------------------------------------------------------------
Init ==
  /\ log = <<>>
  /\ model = EmptyModel
  /\ lock = Nobody
  /\ pc = [w \in Worker |-> "idle"]
  /\ batch = [w \in Worker |-> NoBatch]
  /\ resets = 0

\* Mutant: the event store would let two owners use one aggregate.
PublishableByAnyone(e) == Len(log) < MaxEvents

\* EventLog: an aggregate belongs to the owner of its first event.
Publishable(e) ==
  /\ Len(log) < MaxEvents
  /\ \A p \in DOMAIN log :
       log[p].kind = e.kind /\ log[p].aggregate = e.aggregate => log[p].owner = e.owner

Publish(e) ==
  /\ Publishable(e)
  /\ log' = Append(log, e)
  /\ UNCHANGED <<model, lock, pc, batch, resets>>

Goto(w, phase) == pc' = [pc EXCEPT ![w] = phase]

Call(w) ==
  /\ pc[w] = "idle"
  /\ Goto(w, "lock")
  /\ UNCHANGED <<log, model, lock, batch, resets>>

\* Mutant: two workers inside at once.
LockAlwaysFree(w) == pc[w] = "lock"

LockFree(w) == lock = Nobody

\* LockProjection: an advisory lock held to the end of the transaction.
LockProjection(w) ==
  /\ pc[w] = "lock"
  /\ LockFree(w)
  /\ lock' = w
  /\ Goto(w, "checkpoint")
  /\ UNCHANGED <<log, model, batch, resets>>

\* GetProjectionCheckpoint, a statement of its own.
GetProjectionCheckpoint(w) ==
  /\ pc[w] = "checkpoint"
  /\ batch' = [batch EXCEPT ![w] = [NoBatch EXCEPT !.base = model.checkpoint, !.work = model]]
  /\ Goto(w, "list")
  /\ UNCHANGED <<log, model, lock, resets>>

\* ListEventsAfterPosition: at most one page of what is committed by now.
ListEventsAfterPosition(w) ==
  LET first == batch[w].base + 1
      last  == IF batch[w].base + PageSize < Len(log) THEN batch[w].base + PageSize ELSE Len(log)
      page  == SubSeq(log, first, last)
  IN
  /\ pc[w] = "list"
  /\ batch' = [batch EXCEPT ![w].page = page]
  /\ Goto(w, IF page = <<>> THEN "commit" ELSE "apply")
  /\ UNCHANGED <<log, model, lock, resets>>

\* Mutant: the position of the page stands for that of the event.
PositionOfPage(b) == b.base + 1

PositionOf(b) == b.base + b.next

\* The loop of ProjectNextBatch: one event, applied or quarantined.
ApplyNext(w) ==
  LET b == batch[w]
      e == b.page[b.next]
      p == PositionOf(b)
  IN
  /\ pc[w] = "apply"
  /\ IF Fatal(b.work, e)
     THEN Goto(w, "error") /\ UNCHANGED batch
     ELSE /\ batch' = [batch EXCEPT ![w].work = ApplyEvent(b.work, e, p), ![w].next = @ + 1]
          /\ Goto(w, IF b.next = Len(b.page) THEN "save" ELSE "apply")
  /\ UNCHANGED <<log, model, lock, resets>>

\* save_projection_checkpoint: only forward.
SaveProjectionCheckpoint(w) ==
  LET position == batch[w].base + Len(batch[w].page)
  IN
  /\ pc[w] = "save"
  /\ batch' = [batch EXCEPT ![w].work.checkpoint = IF @ < position THEN position ELSE @]
  /\ Goto(w, "commit")
  /\ UNCHANGED <<log, model, lock, resets>>

Commit(w) ==
  /\ pc[w] = "commit"
  /\ model' = batch[w].work
  /\ lock' = Nobody
  /\ Goto(w, "idle")
  /\ batch' = [batch EXCEPT ![w] = NoBatch]
  /\ UNCHANGED <<log, resets>>

\* Mutant: the pool keeps the connection, and with it a session-level lock.
RollbackKeepsLock(w) ==
  /\ pc[w] # "idle"
  /\ Goto(w, "idle")
  /\ batch' = [batch EXCEPT ![w] = NoBatch]
  /\ UNCHANGED <<log, model, lock, resets>>

\* An error, a cancelled context or a crash rolls everything back.
Rollback(w) ==
  /\ pc[w] # "idle"
  /\ lock' = IF lock = w THEN Nobody ELSE lock
  /\ Goto(w, "idle")
  /\ batch' = [batch EXCEPT ![w] = NoBatch]
  /\ UNCHANGED <<log, model, resets>>

\* reset_leaderboard_projection: one transaction under the same lock.
Reset ==
  /\ resets < MaxResets
  /\ lock = Nobody
  /\ model' = EmptyModel
  /\ resets' = resets + 1
  /\ UNCHANGED <<log, lock, pc, batch>>

\* What a worker does once it has the lock.
Run(w) ==
  \/ GetProjectionCheckpoint(w) \/ ListEventsAfterPosition(w) \/ ApplyNext(w)
  \/ SaveProjectionCheckpoint(w) \/ Commit(w)

Next ==
  \/ \E e \in Published : Publish(e)
  \/ \E w \in Worker : Call(w) \/ LockProjection(w) \/ Run(w) \/ Rollback(w)
  \/ Reset

Spec == Init /\ [][Next]_vars

(***************************************************************************)
(* No fairness is assumed of callers: nothing in src/ schedules the        *)
(* projector yet.  A call that was made keeps running, and PostgreSQL      *)
(* grants advisory locks in the order of requests.                         *)
(***************************************************************************)
Fairness == \A w \in Worker : WF_vars(Run(w)) /\ SF_vars(LockProjection(w))

-----------------------------------------------------------------------------
(* The read model as a function of the first n events. *)

\* An event that a producer may send; the projector reads no other.
Sound(e) ==
  \/ e.type = Other
  \/ /\ e.schema = 1
     /\ \/ e.type = PetCreated /\ e.kind = "PET" /\ e.value > 0
        \/ e.type = LevelReached /\ e.kind = "PET" /\ 0 < e.value /\ e.value <= MaxLevel
        \/ /\ e.type = GameSessionCompleted /\ e.kind = "GAME_SESSION"
           /\ e.session = e.aggregate /\ e.value >= 0

Valid(p, type, u) == log[p].type = type /\ log[p].owner = u /\ Sound(log[p])

Births(u, n) == {p \in 1..n : Valid(p, PetCreated, u)}

\* Levels above the first that the user's pet reached after its creation.
Climbs(u, n) ==
  {p \in 1..n : /\ Valid(p, LevelReached, u) /\ log[p].value > 1
                /\ Births(u, p) # {} /\ log[Min(Births(u, p))].aggregate = log[p].aggregate}

Games(u, n) == {p \in 1..n : Valid(p, GameSessionCompleted, u)}

\* The position at which the highest value among S was first reached.
FirstBest(S) == Min({p \in S : \A q \in S : log[q].value <= log[p].value})

PetAfter(u, n) ==
  IF Births(u, n) = {} THEN NoPet
  ELSE LET birth == Min(Births(u, n))
           climbs == Climbs(u, n)
       IN IF climbs = {}
          THEN [pet |-> log[birth].aggregate, level |-> 1, position |-> birth]
          ELSE [pet |-> log[birth].aggregate, level |-> log[FirstBest(climbs)].value,
                position |-> FirstBest(climbs)]

ScoreAfter(u, n) ==
  IF Games(u, n) = {} THEN NoScore
  ELSE [best |-> log[FirstBest(Games(u, n))].value, position |-> FirstBest(Games(u, n))]

\* A well-formed event that changes nothing because of what came before it.
OutOfSequence(p) ==
  LET u == log[p].owner IN
  /\ Sound(log[p])
  /\ \/ log[p].type = PetCreated /\ Min(Births(u, p)) # p
     \/ /\ log[p].type = LevelReached
        /\ \/ p \notin Climbs(u, p)
           \/ \E q \in Climbs(u, p - 1) : log[q].value >= log[p].value

FailuresAfter(n) ==
  {[position |-> p, reason |-> Defect(log[p])] : p \in {q \in 1..n : ~Sound(log[q])}}
  \cup {[position |-> p, reason |-> "INVALID_SEQUENCE"] : p \in {q \in 1..n : OutOfSequence(q)}}

(***************************************************************************)
(* Whatever the batches, crashes, resets and concurrent workers, the       *)
(* tables hold exactly what the events up to the checkpoint say: each      *)
(* sound event is counted once or quarantined as out of sequence, each     *)
(* unsound one is quarantined for the first check of applyEvent that it    *)
(* fails, and a record belongs to the event that first set it.             *)
(***************************************************************************)
ReadModelIsFold ==
  LET n == model.checkpoint IN
  /\ n <= Len(log)
  /\ \A u \in User : model.pets[u] = PetAfter(u, n) /\ model.scores[u] = ScoreAfter(u, n)
  /\ model.failures = FailuresAfter(n)

(***************************************************************************)
(* No event can stop the projection for good.  The one error an event      *)
(* could cause in every retry of its batch is a pet identifier of two      *)
(* users, and the stream ownership of the event store excludes it.         *)
(***************************************************************************)
NoPoisonedBatch == \A w \in Worker : pc[w] # "error"

(***************************************************************************)
(* A committed page takes the read model forward by what it read and       *)
(* nothing else does, except a reset, which restarts it from nothing.      *)
(***************************************************************************)
CheckpointMovesByPages ==
  [][\/ model' = EmptyModel
     \/ /\ model'.checkpoint > model.checkpoint
        /\ model'.checkpoint <= model.checkpoint + PageSize
        /\ model.failures \subseteq model'.failures]_model

(***************************************************************************)
(* Every call of ProjectNextBatch ends, also when workers queue for the    *)
(* advisory lock and some of them crash while they hold it.                *)
(***************************************************************************)
BatchEnds == \A w \in Worker : pc[w] # "idle" ~> pc[w] = "idle"
=============================================================================
