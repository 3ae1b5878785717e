--------------------------- MODULE LeaderboardProofs ---------------------------
(***************************************************************************)
(* Theorems about Leaderboard and Ranking, for every number of workers and *)
(* users, any events and any page sizes.  First the projector: the tables  *)
(* hold well-typed rows, no event can make every retry of its batch fail,  *)
(* and the checkpoint moves by pages.  Then what the tables say: exactly   *)
(* what the events up to the checkpoint say; the two ranked views and the  *)
(* users' own positions tell one story, and nobody is overtaken by someone *)
(* who earned nothing.                                                     *)
(*                                                                         *)
(* The read model is defined by sets of positions and what is first or     *)
(* best in them, not by recursion, and the induction over the log is the   *)
(* invariant's: one step of applyEvent takes the tables from what n events *)
(* say to what n + 1 say.                                                  *)
(***************************************************************************)
EXTENDS Ranking, SequenceTheorems, FiniteSetTheorems, WellFoundedInduction, TLAPS

-----------------------------------------------------------------------------
(***************************************************************************)
(* The strengthening.  That two users never have one pet identifier in the *)
(* read model follows from the ownership of aggregates in the log, because *)
(* every pet comes from an event; that a commit moves the checkpoint by    *)
(* its own page follows from the advisory lock, because the work of a      *)
(* worker continues the model it read as long as it holds the lock.        *)
(***************************************************************************)
Inside(w) == pc[w] \notin {"idle", "lock"}

Exclusive == \A w \in Worker : Inside(w) => lock = w

LogOwned(L) ==
  \A p, q \in DOMAIN L :
    L[p].kind = L[q].kind /\ L[p].aggregate = L[q].aggregate => L[p].owner = L[q].owner

\* Every pet of the model is in an event of its user.
PetsKnown(m, L) ==
  \A u \in User : m.pets[u].pet # Nobody =>
    \E q \in DOMAIN L : /\ L[q].kind = "PET" /\ L[q].owner = u
                        /\ L[q].aggregate = m.pets[u].pet

\* The failures of the model are of events up to position n.
FailuresUpTo(m, n) == \A f \in m.failures : f.position <= n

\* The page is what follows the base in the log.
PageOK(b, L) ==
  /\ b.base + Len(b.page) <= Len(L) /\ Len(b.page) <= PageSize
  /\ \A i \in 1..Len(b.page) : b.page[i] = L[b.base + i]

\* The work continues the committed model, event by event.
WorkOK(w) ==
  LET b == batch[w] IN
  /\ pc[w] \in {"list", "apply", "save", "commit"} =>
       b.base = model.checkpoint /\ PageOK(b, log) /\ PetsKnown(b.work, log)
  /\ pc[w] = "list" => b.work = model /\ b.next = 1
  /\ pc[w] \in {"apply", "save"} =>
       /\ Len(b.page) > 0 /\ b.work.checkpoint = b.base
       /\ model.failures \subseteq b.work.failures
       /\ FailuresUpTo(b.work, b.base + b.next - 1)
  /\ pc[w] = "save" => b.next = Len(b.page) + 1
  /\ pc[w] = "commit" =>
       \/ b.work = model
       \/ /\ b.work.checkpoint > b.base /\ b.work.checkpoint <= b.base + PageSize
          /\ b.work.checkpoint <= Len(log)
          /\ model.failures \subseteq b.work.failures
          /\ FailuresUpTo(b.work, b.work.checkpoint)

ModelOK ==
  /\ PetsKnown(model, log) /\ FailuresUpTo(model, model.checkpoint)
  /\ model.checkpoint <= Len(log)

IInv == /\ TypeOK /\ Exclusive /\ LogOwned(log) /\ ModelOK
        /\ NoPoisonedBatch /\ \A w \in Worker : WorkOK(w)

-----------------------------------------------------------------------------
(* applyEvent. *)

LEMMA EmptyType == EmptyModel \in Model /\ NoPet \in [pet : Aggregate \cup {Nobody}, level : Nat, position : Nat]
                   /\ NoScore \in [best : Nat, position : Nat]
BY DEF EmptyModel, Model, NoPet, NoScore

LEMMA QuarantineOK ==
  ASSUME NEW m \in Model, NEW p \in Nat, NEW reason \in Reason
  PROVE  /\ Quarantine(m, p, reason) \in Model
         /\ Quarantine(m, p, reason).pets = m.pets
         /\ Quarantine(m, p, reason).checkpoint = m.checkpoint
         /\ Quarantine(m, p, reason).failures =
              {f \in m.failures : f.position # p} \cup {[position |-> p, reason |-> reason]}
<1>1. {f \in m.failures : f.position # p} \cup {[position |-> p, reason |-> reason]}
        \in SUBSET [position : Nat, reason : Reason]
  BY DEF Model
<1>2. Quarantine(m, p, reason) =
        [m EXCEPT !.failures = {f \in m.failures : f.position # p}
                                 \cup {[position |-> p, reason |-> reason]}]
  BY DEF Quarantine
<1> QED
  BY <1>1, <1>2 DEF Model

LEMMA DefectType == ASSUME NEW e \in Event PROVE Defect(e) \in Reason \cup {"none"}
BY DEF Defect, Reason

\* The checks of applyEvent find nothing wrong with sound events, and no others.
LEMMA DefectNone ==
  ASSUME NEW e \in Event
  PROVE  /\ Defect(e) = "none" <=> Sound(e)
         /\ Defect(e) = "none" /\ e.type \in {LevelReached, GameSessionCompleted} => e.value \in Nat
<1>1. /\ e.type \in {PetCreated, LevelReached, GameSessionCompleted, Other}
      /\ e.aggregate # Nobody /\ e.value \in Int /\ MaxLevel \in Nat
  BY NumbersAssumption, NobodyAssumption DEF Event
<1> QED
  BY <1>1 DEF Defect, Sound, KindOf, Relevant, PayloadOK, PetCreated, LevelReached, Other,
              GameSessionCompleted

\* A is m after an event at p: the failures of other events are those of m,
\* and a pet that is not in m is the event's.
Follows(A, m, e, p) ==
  /\ A.checkpoint = m.checkpoint
  /\ \A f \in m.failures : f.position # p => f \in A.failures
  /\ \A f \in A.failures : f \in m.failures \/ f.position = p
  /\ \A u \in User : \/ A.pets[u].pet = m.pets[u].pet
                     \/ u = e.owner /\ e.kind = "PET" /\ A.pets[u].pet = e.aggregate

LEMMA ApplyOK ==
  ASSUME NEW m \in Model, NEW e \in Event, NEW p \in Nat
  PROVE  ApplyEvent(m, e, p) \in Model /\ Follows(ApplyEvent(m, e, p), m, e, p)
<1> DEFINE A == ApplyEvent(m, e, p)
<1> USE DEF Follows
<1>1. /\ e.owner \in User /\ e.aggregate \in Aggregate
      /\ m.pets \in [User -> [pet : Aggregate \cup {Nobody}, level : Nat, position : Nat]]
      /\ m.scores \in [User -> [best : Nat, position : Nat]]
  BY DEF Event, Model
<1>2. CASE \E reason \in Reason : A = Quarantine(m, p, reason)
  BY <1>2, QuarantineOK
<1>3. CASE A = m
  BY <1>3
<1>4. CASE \E row \in [pet : Aggregate \cup {Nobody}, level : Nat, position : Nat] :
             /\ A = [m EXCEPT !.pets = [m.pets EXCEPT ![e.owner] = row]]
             /\ \/ row.pet = m.pets[e.owner].pet
                \/ e.kind = "PET" /\ row.pet = e.aggregate
  <2>1. PICK row \in [pet : Aggregate \cup {Nobody}, level : Nat, position : Nat] :
             /\ A = [m EXCEPT !.pets = [m.pets EXCEPT ![e.owner] = row]]
             /\ \/ row.pet = m.pets[e.owner].pet
                \/ e.kind = "PET" /\ row.pet = e.aggregate
    BY <1>4
  <2>2. [m.pets EXCEPT ![e.owner] = row]
          \in [User -> [pet : Aggregate \cup {Nobody}, level : Nat, position : Nat]]
    BY <1>1
  <2>3. /\ A \in Model /\ A.checkpoint = m.checkpoint /\ A.failures = m.failures
        /\ A.pets = [m.pets EXCEPT ![e.owner] = row]
    BY <2>1, <2>2 DEF Model
  <2> QED
    BY <1>1, <2>1, <2>3
<1>5. CASE \E row \in [best : Nat, position : Nat] :
             A = [m EXCEPT !.scores = [m.scores EXCEPT ![e.owner] = row]]
  <2>1. PICK row \in [best : Nat, position : Nat] :
             A = [m EXCEPT !.scores = [m.scores EXCEPT ![e.owner] = row]]
    BY <1>5
  <2>2. [m.scores EXCEPT ![e.owner] = row] \in [User -> [best : Nat, position : Nat]]
    BY <1>1
  <2> QED
    BY <2>1, <2>2 DEF Model
<1>6. CASE Defect(e) # "none"
  BY <1>2, <1>6, DefectType DEF ApplyEvent
<1>7. CASE Defect(e) = "none" /\ e.type = PetCreated
  <2>1. A = InsertPet(m, e, p) /\ e.kind = "PET"
    BY <1>7 DEF ApplyEvent, Defect, KindOf, Relevant, PetCreated, LevelReached, Other,
                GameSessionCompleted
  <2>2. [pet |-> e.aggregate, level |-> 1, position |-> p]
          \in [pet : Aggregate \cup {Nobody}, level : Nat, position : Nat]
    BY <1>1
  <2> QED
    BY <1>2, <1>4, <2>1, <2>2 DEF InsertPet, Reason
<1>8. CASE Defect(e) = "none" /\ e.type = LevelReached
  <2>1. A = AdvancePetLevel(m, e, p)
    BY <1>8 DEF ApplyEvent, PetCreated, LevelReached, GameSessionCompleted
  <2>2. CASE A = [m EXCEPT !.pets[e.owner].level = e.value, !.pets[e.owner].position = p]
    <3> DEFINE row == [m.pets[e.owner] EXCEPT !.level = e.value, !.position = p]
    <3>0. e.value \in Nat
      BY <1>8, DefectNone
    <3>1. row \in [pet : Aggregate \cup {Nobody}, level : Nat, position : Nat]
            /\ row.pet = m.pets[e.owner].pet
      BY <1>1, <3>0
    <3>2. A = [m EXCEPT !.pets = [m.pets EXCEPT ![e.owner] = row]]
      BY <1>1, <2>2 DEF Model
    <3> QED
      BY <1>4, <3>1, <3>2
  <2> QED
    BY <1>2, <2>1, <2>2 DEF AdvancePetLevel, Reason
<1>9. CASE Defect(e) = "none" /\ e.type = GameSessionCompleted
  <2>1. A = UpsertGameScore(m, e, p)
    BY <1>9 DEF ApplyEvent, PetCreated, LevelReached, GameSessionCompleted
  <2>2. [best |-> e.value, position |-> p] \in [best : Nat, position : Nat]
    BY <1>9, DefectNone
  <2> QED
    BY <1>3, <1>5, <2>1, <2>2 DEF UpsertGameScore
<1>10. CASE Defect(e) = "none" /\ e.type \notin {PetCreated, LevelReached, GameSessionCompleted}
  BY <1>3, <1>10 DEF ApplyEvent
<1> QED
  BY <1>6, <1>7, <1>8, <1>9, <1>10

\* The log gives every pet identifier one user, so no event is fatal.
LEMMA NeverFatal ==
  ASSUME NEW m, NEW L \in Seq(Event), PetsKnown(m, L), LogOwned(L), NEW q \in DOMAIN L
  PROVE  ~ Fatal(m, L[q])
<1> SUFFICES ASSUME Fatal(m, L[q]) PROVE FALSE
  OBVIOUS
<1> DEFINE e == L[q]
<1>1. e \in Event /\ e.aggregate # Nobody
  <2>1. e \in Event
    OBVIOUS
  <2> QED
    BY <2>1, NobodyAssumption DEF Event
<1>2. e.kind = "PET"
  BY <1>1 DEF Fatal, Defect, KindOf, Relevant, PetCreated, LevelReached, Other,
              GameSessionCompleted
<1>3. PICK u \in User \ {e.owner} : m.pets[u].pet = e.aggregate
  BY DEF Fatal, PetTaken
<1>4. PICK o \in DOMAIN L : L[o].kind = "PET" /\ L[o].owner = u /\ L[o].aggregate = e.aggregate
  BY <1>1, <1>3 DEF PetsKnown
<1> QED
  BY <1>2, <1>3, <1>4 DEF LogOwned

\* A published event takes nothing from what the log was.
LEMMA LogGrows ==
  ASSUME NEW L \in Seq(Event), NEW e \in Event
  PROVE  /\ Append(L, e) \in Seq(Event) /\ Len(Append(L, e)) = Len(L) + 1
         /\ \A m : PetsKnown(m, L) => PetsKnown(m, Append(L, e))
         /\ \A b : b.base \in Nat /\ b.page \in Seq(Event) /\ PageOK(b, L)
                     => PageOK(b, Append(L, e))
<1>1. /\ Append(L, e) \in Seq(Event) /\ Len(Append(L, e)) = Len(L) + 1
      /\ \A q \in DOMAIN L : q \in DOMAIN Append(L, e) /\ Append(L, e)[q] = L[q]
  OBVIOUS
<1>2. ASSUME NEW m, PetsKnown(m, L) PROVE PetsKnown(m, Append(L, e))
  BY <1>1, <1>2 DEF PetsKnown
<1>3. ASSUME NEW b, b.base \in Nat, b.page \in Seq(Event), PageOK(b, L)
      PROVE  PageOK(b, Append(L, e))
  <2>1. Len(b.page) \in Nat /\ Len(L) \in Nat
    BY <1>3
  <2>2. ASSUME NEW i \in 1..Len(b.page) PROVE b.page[i] = Append(L, e)[b.base + i]
    <3>1. b.base + i \in DOMAIN L
      BY <1>3, <2>1 DEF PageOK
    <3> QED
      BY <1>1, <1>3, <3>1 DEF PageOK
  <2> QED
    BY <1>1, <1>3, <2>1, <2>2 DEF PageOK
<1> QED
  BY <1>1, <1>2, <1>3

LEMMA InitInv == Init => IInv
<1> SUFFICES ASSUME Init PROVE IInv
  OBVIOUS
<1>1. <<>> \in Seq(Event) /\ Len(<<>>) = 0 /\ DOMAIN <<>> = {}
  OBVIOUS
<1>2. TypeOK
  <2>1. NoBatch \in [page : Seq(Event), base : Nat, next : Nat \ {0}, work : Model]
    BY <1>1, EmptyType DEF NoBatch
  <2> QED
    BY <1>1, <2>1, EmptyType, NumbersAssumption DEF Init, TypeOK, Phase
<1>3. ModelOK /\ LogOwned(log)
  BY <1>1 DEF Init, ModelOK, LogOwned, PetsKnown, FailuresUpTo, EmptyModel, NoPet
<1>4. Exclusive /\ NoPoisonedBatch /\ \A w \in Worker : WorkOK(w)
  BY DEF Init, Exclusive, Inside, NoPoisonedBatch, WorkOK
<1> QED
  BY <1>2, <1>3, <1>4 DEF IInv

-----------------------------------------------------------------------------
(* Every step. *)

\* What a worker relies on is its own, the log and the model.
LEMMA FrameOK ==
  ASSUME NEW w \in Worker, WorkOK(w), UNCHANGED <<log, model>>,
         pc'[w] = pc[w], batch'[w] = batch[w]
  PROVE  WorkOK(w)'
BY DEF WorkOK

LEMMA PublishStep == ASSUME IInv, NEW e \in Published, Publish(e) PROVE IInv'
<1>1. /\ e \in Event /\ log \in Seq(Event) /\ log' = Append(log, e) /\ Len(log) < MaxEvents
      /\ UNCHANGED <<model, lock, pc, batch, resets>> /\ TypeOK
  BY PublishedAssumption DEF IInv, TypeOK, Publish, Publishable
<1>2. log' \in Seq(Event) /\ Len(log') = Len(log) + 1
  BY <1>1
<1>3. TypeOK'
  BY <1>1, <1>2, NumbersAssumption DEF TypeOK
<1>4. LogOwned(log)'
  <2>1. \A p \in DOMAIN log :
          log[p].kind = e.kind /\ log[p].aggregate = e.aggregate => log[p].owner = e.owner
    BY DEF Publish, Publishable
  <2>2. \A p \in DOMAIN log' : (p \in DOMAIN log /\ log'[p] = log[p]) \/ log'[p] = e
    BY <1>1
  <2> QED
    BY <2>1, <2>2 DEF IInv, LogOwned
<1>5. ModelOK'
  BY <1>1, <1>2, LogGrows DEF IInv, ModelOK, FailuresUpTo, TypeOK, Model
<1>6. ASSUME NEW w \in Worker PROVE WorkOK(w)'
  <2>1. batch[w].base \in Nat /\ batch[w].page \in Seq(Event) /\ batch[w].work.checkpoint \in Nat
    BY <1>1 DEF TypeOK, Model
  <2>2. /\ PageOK(batch[w], log) => PageOK(batch[w], log')
        /\ PetsKnown(batch[w].work, log) => PetsKnown(batch[w].work, log')
    BY <1>1, <2>1, LogGrows
  <2>3. batch[w].work.checkpoint <= Len(log) => batch[w].work.checkpoint <= Len(log')
    BY <1>1, <1>2, <2>1
  <2>4. WorkOK(w)
    BY DEF IInv
  <2> QED
    BY <1>1, <2>2, <2>3, <2>4 DEF WorkOK
<1> QED
  BY <1>1, <1>3, <1>4, <1>5, <1>6 DEF IInv, Exclusive, Inside, NoPoisonedBatch

\* A worker that moves on inside the lock.
LEMMA OwnStep ==
  ASSUME IInv, NEW w \in Worker, UNCHANGED <<log, model, resets>>, TypeOK', WorkOK(w)',
         \A v \in Worker \ {w} : pc'[v] = pc[v] /\ batch'[v] = batch[v],
         Inside(w)' => lock' = w, pc'[w] # "error",
         \A v \in Worker \ {w} : lock = v => lock' = v
  PROVE  IInv'
<1>1. ASSUME NEW v \in Worker \ {w} PROVE WorkOK(v)'
  BY <1>1, FrameOK DEF IInv
<1> QED
  BY <1>1 DEF IInv, ModelOK, Exclusive, Inside, NoPoisonedBatch

LEMMA GotoType ==
  ASSUME TypeOK, NEW w \in Worker, NEW phase \in Phase, Goto(w, phase)
  PROVE  /\ pc' \in [Worker -> Phase] /\ pc'[w] = phase
         /\ \A v \in Worker \ {w} : pc'[v] = pc[v]
BY DEF Goto, TypeOK

LEMMA EntryStep ==
  ASSUME IInv, NEW w \in Worker, Call(w) \/ LockProjection(w) PROVE IInv'
<1>1. TypeOK /\ WorkOK(w) /\ Exclusive /\ UNCHANGED <<log, model, batch, resets>>
  BY DEF IInv, Call, LockProjection
<1>2. CASE Call(w)
  <2>1. pc'[w] = "lock" /\ pc' \in [Worker -> Phase] /\ lock' = lock
        /\ \A v \in Worker \ {w} : pc'[v] = pc[v]
    BY <1>1, <1>2, GotoType DEF Call, Phase
  <2>2. TypeOK'
    BY <1>1, <2>1 DEF TypeOK
  <2>3. WorkOK(w)' /\ ~ Inside(w)'
    BY <2>1 DEF WorkOK, Inside
  <2> QED
    BY <1>1, <2>1, <2>2, <2>3, OwnStep
<1>3. CASE LockProjection(w)
  <2>1. pc'[w] = "checkpoint" /\ pc' \in [Worker -> Phase] /\ lock = Nobody /\ lock' = w
        /\ \A v \in Worker \ {w} : pc'[v] = pc[v]
    BY <1>1, <1>3, GotoType DEF LockProjection, LockFree, Phase
  <2>2. TypeOK'
    <3>1. \A v \in Worker : v # Nobody
      BY NobodyAssumption
    <3> QED
      BY <1>1, <2>1, <3>1 DEF TypeOK
  <2>3. WorkOK(w)'
    BY <2>1 DEF WorkOK
  <2>4. \A v \in Worker \ {w} : lock = v => lock' = v
    BY <2>1, NobodyAssumption
  <2> QED
    BY <1>1, <2>1, <2>2, <2>3, <2>4, OwnStep
<1> QED
  BY <1>2, <1>3

LEMMA CheckpointStep ==
  ASSUME IInv, NEW w \in Worker, GetProjectionCheckpoint(w) PROVE IInv'
<1>1. /\ TypeOK /\ pc[w] = "checkpoint" /\ lock = w
      /\ UNCHANGED <<log, model, lock, resets>>
  BY DEF IInv, GetProjectionCheckpoint, Exclusive, Inside
<1>2. /\ pc'[w] = "list" /\ pc' \in [Worker -> Phase]
      /\ \A v \in Worker \ {w} : pc'[v] = pc[v]
  BY <1>1, GotoType DEF GetProjectionCheckpoint, Phase
<1> DEFINE b == [NoBatch EXCEPT !.base = model.checkpoint, !.work = model]
<1>3. batch' = [batch EXCEPT ![w] = b]
  BY DEF GetProjectionCheckpoint
<1>4. /\ b \in [page : Seq(Event), base : Nat, next : Nat \ {0}, work : Model]
      /\ b.page = <<>> /\ b.base = model.checkpoint /\ b.next = 1 /\ b.work = model
  <2>1. /\ NoBatch \in [page : Seq(Event), base : Nat, next : Nat \ {0}, work : Model]
        /\ NoBatch.page = <<>> /\ NoBatch.next = 1
    BY EmptyType DEF NoBatch
  <2>2. model \in Model /\ model.checkpoint \in Nat
    BY <1>1 DEF TypeOK, Model
  <2> QED
    BY <2>1, <2>2
<1> HIDE DEF b
<1>5. batch'[w] = b /\ \A v \in Worker \ {w} : batch'[v] = batch[v]
  BY <1>1, <1>3 DEF TypeOK
<1>6. TypeOK'
  BY <1>1, <1>2, <1>3, <1>4 DEF TypeOK
<1>7. PageOK(b, log)
  BY <1>1, <1>4, NumbersAssumption DEF PageOK, IInv, ModelOK, TypeOK, Model
<1>8. WorkOK(w)'
  BY <1>1, <1>2, <1>4, <1>5, <1>7 DEF WorkOK, IInv, ModelOK
<1> QED
  BY <1>1, <1>2, <1>5, <1>6, <1>8, OwnStep

\* A page is a segment of the log that begins behind the checkpoint.
LEMMA PageFacts ==
  ASSUME NEW L \in Seq(Event), NEW base \in Nat, base <= Len(L),
         NEW last \in Nat, base <= last, last <= base + PageSize, last <= Len(L)
  PROVE  /\ SubSeq(L, base + 1, last) \in Seq(Event)
         /\ Len(SubSeq(L, base + 1, last)) = last - base
         /\ \A i \in 1..(last - base) : SubSeq(L, base + 1, last)[i] = L[base + i]
<1>1. \A i \in (base + 1)..last : L[i] \in Event
  BY DOMAIN L = 1..Len(L)
<1>2. /\ SubSeq(L, base + 1, last) \in Seq(Event)
      /\ Len(SubSeq(L, base + 1, last)) = IF base + 1 <= last THEN last - (base + 1) + 1 ELSE 0
      /\ \A i \in 1..(last - (base + 1) + 1) :
           SubSeq(L, base + 1, last)[i] = L[base + 1 + i - 1]
  BY <1>1, SubSeqProperties
<1>3. \A i \in 1..(last - base) : base + 1 + i - 1 = base + i
  OBVIOUS
<1> QED
  BY <1>2, <1>3

LEMMA ListStep ==
  ASSUME IInv, NEW w \in Worker, ListEventsAfterPosition(w) PROVE IInv'
<1>1. /\ TypeOK /\ pc[w] = "list" /\ lock = w /\ WorkOK(w)
      /\ UNCHANGED <<log, model, lock, resets>>
  BY DEF IInv, ListEventsAfterPosition, Exclusive, Inside
<1>2. PICK base, last, page :
        /\ base = batch[w].base
        /\ last = IF base + PageSize < Len(log) THEN base + PageSize ELSE Len(log)
        /\ page = SubSeq(log, base + 1, last)
  OBVIOUS
<1>3. /\ batch' = [batch EXCEPT ![w].page = page]
      /\ Goto(w, IF page = <<>> THEN "commit" ELSE "apply")
  BY <1>2 DEF ListEventsAfterPosition
<1>4. /\ base \in Nat /\ base = model.checkpoint /\ base <= Len(log) /\ log \in Seq(Event)
      /\ batch[w].work = model /\ batch[w].next = 1
      /\ batch[w] \in [page : Seq(Event), base : Nat, next : Nat \ {0}, work : Model]
  BY <1>1, <1>2 DEF WorkOK, IInv, ModelOK, TypeOK
<1>5. last \in Nat /\ base <= last /\ last <= base + PageSize /\ last <= Len(log)
  <2>1. PICK n \in Nat : n = Len(log) /\ base <= n
    BY <1>4
  <2>2. last = (IF base + PageSize < n THEN base + PageSize ELSE n) /\ PageSize \in Nat
    BY <1>2, <2>1, NumbersAssumption
  <2>3. base \in Nat
    BY <1>4
  <2>4. last \in Nat /\ base <= last /\ last <= base + PageSize /\ last <= n
    BY ONLY <2>1, <2>2, <2>3, n \in Nat
  <2> QED
    BY <2>1, <2>4
<1>6. /\ page \in Seq(Event) /\ Len(page) = last - base
      /\ \A i \in 1..Len(page) : page[i] = log[base + i]
  <2>1. /\ SubSeq(log, base + 1, last) \in Seq(Event)
        /\ Len(SubSeq(log, base + 1, last)) = last - base
        /\ \A i \in 1..(last - base) : SubSeq(log, base + 1, last)[i] = log[base + i]
    <3>1. log \in Seq(Event) /\ base \in Nat /\ base <= Len(log)
      BY <1>4
    <3> QED
      BY ONLY <1>5, <3>1, PageFacts, SMTT(60)
  <2>2. page = SubSeq(log, base + 1, last)
    BY <1>2
  <2> QED
    BY <2>1, <2>2, Zenon
<1>7. /\ batch'[w].page = page /\ batch'[w].base = base /\ batch'[w].next = 1
      /\ batch'[w].work = model
      /\ batch'[w] \in [page : Seq(Event), base : Nat, next : Nat \ {0}, work : Model]
      /\ \A v \in Worker \ {w} : batch'[v] = batch[v]
      /\ batch' \in [Worker -> [page : Seq(Event), base : Nat, next : Nat \ {0}, work : Model]]
  BY <1>1, <1>2, <1>3, <1>4, <1>6 DEF TypeOK
<1>8. PageOK(batch'[w], log)
  BY <1>4, <1>5, <1>6, <1>7, NumbersAssumption DEF PageOK
<1>9. /\ pc'[w] \in {"commit", "apply"} /\ pc' \in [Worker -> Phase]
      /\ pc'[w] = "apply" => page # <<>>
      /\ \A v \in Worker \ {w} : pc'[v] = pc[v]
  BY <1>1, <1>3, GotoType DEF Phase
<1>10. page # <<>> => Len(page) > 0
  BY <1>6
<1>11. TypeOK'
  <2>1. \A v \in Worker \ {w} : pc'[v] # "apply"
    BY <1>1, <1>9, NobodyAssumption DEF TypeOK
  <2>2. pc'[w] = "apply" => lock' = w /\ batch'[w].next \in 1..Len(batch'[w].page)
    BY <1>1, <1>6, <1>7, <1>9, <1>10
  <2> QED
    BY <1>1, <1>7, <1>9, <2>1, <2>2 DEF TypeOK
<1>12. WorkOK(w)'
  <2>1. PetsKnown(model, log) /\ FailuresUpTo(model, model.checkpoint)
    BY DEF IInv, ModelOK
  <2>2. FailuresUpTo(model, base + 1 - 1)
    BY <1>4, <2>1 
  <2> QED
    BY <1>1, <1>4, <1>7, <1>8, <1>9, <1>10, <2>1, <2>2 DEF WorkOK
<1> QED
  BY <1>1, <1>7, <1>9, <1>11, <1>12, OwnStep

LEMMA ApplyStep ==
  ASSUME IInv, NEW w \in Worker, ApplyNext(w) PROVE IInv'
<1>1. /\ TypeOK /\ pc[w] = "apply" /\ lock = w /\ WorkOK(w)
      /\ UNCHANGED <<log, model, lock, resets>>
  BY DEF IInv, ApplyNext, Exclusive, Inside
<1>2. PICK m, page, base, next, e, p :
        /\ m = batch[w].work /\ page = batch[w].page /\ base = batch[w].base
        /\ next = batch[w].next /\ e = page[next] /\ p = base + next
  OBVIOUS
<1>3. /\ m \in Model /\ page \in Seq(Event) /\ base \in Nat /\ next \in 1..Len(page)
      /\ base = model.checkpoint /\ m.checkpoint = base /\ log \in Seq(Event)
      /\ batch[w] \in [page : Seq(Event), base : Nat, next : Nat \ {0}, work : Model]
  BY <1>1, <1>2 DEF TypeOK, WorkOK
<1>4. /\ base + Len(page) <= Len(log) /\ Len(page) \in Nat
      /\ \A i \in 1..Len(page) : page[i] = log[base + i]
      /\ PetsKnown(m, log) /\ FailuresUpTo(m, base + next - 1)
      /\ model.failures \subseteq m.failures
  BY <1>1, <1>2, <1>3 DEF WorkOK, PageOK
<1>5. p \in DOMAIN log /\ log[p] = e /\ e \in Event /\ p \in Nat
  <2>1. p \in Nat /\ p \in 1..Len(log)
    <3>1. base + next \in Nat /\ base + next \in 1..Len(log)
      <4>1. /\ base \in Nat /\ next \in 1..Len(page) /\ Len(page) \in Nat
            /\ log \in Seq(Event) /\ base + Len(page) <= Len(log)
        BY <1>3, <1>4, Zenon
      <4> QED
        BY ONLY <4>1
    <3> QED
      BY <1>2, <3>1, Zenon
  <2>2. p \in DOMAIN log
    BY <1>3, <2>1
  <2>3. page[next] \in Event
    BY <1>3
  <2>4. page[next] = log[base + next]
    BY <1>3, <1>4, Zenon
  <2>5. log[p] = e /\ e \in Event
    BY <1>2, <2>3, <2>4, Zenon
  <2> QED
    BY <2>1, <2>2, <2>5
<1>6. ~ Fatal(m, e)
  BY <1>3, <1>4, <1>5, NeverFatal DEF IInv
<1>7. PICK A : A = ApplyEvent(m, e, p)
  OBVIOUS
<1>8. /\ batch' = [batch EXCEPT ![w] = [batch[w] EXCEPT !.work = A, !.next = next + 1]]
      /\ Goto(w, IF next = Len(page) THEN "save" ELSE "apply")
  BY <1>1, <1>2, <1>6, <1>7 DEF ApplyNext, PositionOf, TypeOK
<1>9. A \in Model /\ Follows(A, m, e, p) /\ A.checkpoint = base
  <2>1. A \in Model /\ Follows(A, m, e, p)
    BY <1>3, <1>5, <1>7, ApplyOK
  <2> QED
    BY <1>3, <2>1 DEF Follows
<1>10. PetsKnown(A, log)
  BY <1>4, <1>5, <1>9 DEF PetsKnown, Follows
<1>11. model.failures \subseteq A.failures /\ FailuresUpTo(A, p)
  <2>1. \A f \in m.failures : f.position \in Nat /\ f.position <= base + next - 1
    BY <1>3, <1>4 DEF FailuresUpTo, Model
  <2>2. \A f \in m.failures : f.position # p /\ f.position <= p
    <3>1. \A n \in Nat : n <= base + next - 1 => n # base + next /\ n <= base + next
      BY <1>3
    <3> QED
      BY <1>2, <2>1, <3>1, Zenon
  <2>3. FailuresUpTo(A, p)
    BY <1>5, <1>9, <2>2 DEF FailuresUpTo, Follows
  <2> QED
    BY <1>4, <1>9, <2>2, <2>3 DEF Follows
<1>12. /\ batch'[w].page = page /\ batch'[w].base = base /\ batch'[w].next = next + 1
       /\ batch'[w].work = A /\ \A v \in Worker \ {w} : batch'[v] = batch[v]
       /\ batch' \in [Worker -> [page : Seq(Event), base : Nat, next : Nat \ {0}, work : Model]]
  <2>1. next + 1 \in Nat \ {0}
    BY <1>3
  <2> QED
    BY <1>1, <1>2, <1>3, <1>8, <1>9, <2>1 DEF TypeOK
<1>13. /\ pc'[w] \in {"save", "apply"} /\ pc' \in [Worker -> Phase]
       /\ pc'[w] = "save" <=> next = Len(page)
       /\ \A v \in Worker \ {w} : pc'[v] = pc[v]
  BY <1>1, <1>8, GotoType DEF Phase
<1>14. TypeOK'
  <2>1. \A v \in Worker \ {w} : pc'[v] # "apply"
    BY <1>1, <1>13 DEF TypeOK
  <2>2. pc'[w] = "apply" => lock' = w /\ batch'[w].next \in 1..Len(batch'[w].page)
    BY <1>1, <1>3, <1>4, <1>12, <1>13
  <2> QED
    BY <1>1, <1>12, <1>13, <2>1, <2>2 DEF TypeOK
<1>15. WorkOK(w)'
  <2>1. PageOK(batch'[w], log)
    BY <1>1, <1>2, <1>12 DEF WorkOK, PageOK
  <2>2. p = base + (next + 1) - 1 /\ Len(page) > 0
    BY <1>2, <1>3, <1>4
  <2> QED
    BY <1>1, <1>3, <1>9, <1>10, <1>11, <1>12, <1>13, <2>1, <2>2 DEF WorkOK
<1> QED
  BY <1>1, <1>12, <1>13, <1>14, <1>15, OwnStep

LEMMA SaveStep ==
  ASSUME IInv, NEW w \in Worker, SaveProjectionCheckpoint(w) PROVE IInv'
<1>1. /\ TypeOK /\ pc[w] = "save" /\ lock = w /\ WorkOK(w)
      /\ UNCHANGED <<log, model, lock, resets>>
  BY DEF IInv, SaveProjectionCheckpoint, Exclusive, Inside
<1>2. PICK m, page, base, n :
        /\ m = batch[w].work /\ page = batch[w].page /\ base = batch[w].base
        /\ n = base + Len(page)
  OBVIOUS
<1>3. /\ m \in Model /\ page \in Seq(Event) /\ base \in Nat /\ Len(page) \in Nat
      /\ base = model.checkpoint /\ m.checkpoint = base /\ PetsKnown(m, log)
      /\ batch[w] \in [page : Seq(Event), base : Nat, next : Nat \ {0}, work : Model]
      /\ Len(page) > 0 /\ Len(page) <= PageSize /\ n <= Len(log)
      /\ PageOK(batch[w], log) /\ model.failures \subseteq m.failures
  BY <1>1, <1>2 DEF TypeOK, WorkOK, PageOK
<1>4. FailuresUpTo(m, n) /\ n > base /\ n <= base + PageSize /\ n \in Nat
  <2>1. batch[w].next = Len(page) + 1 /\ FailuresUpTo(m, base + batch[w].next - 1)
    BY <1>1, <1>2 DEF WorkOK
  <2>2. base + batch[w].next - 1 = n
    BY <1>2, <1>3, <2>1
  <2> QED
    BY <1>2, <1>3, <2>1, <2>2, NumbersAssumption
<1>5. PICK A : A = [m EXCEPT !.checkpoint = n]
  OBVIOUS
<1>6. A \in Model /\ A.checkpoint = n /\ A.pets = m.pets /\ A.failures = m.failures
  BY <1>3, <1>4, <1>5 DEF Model
<1>7. batch' = [batch EXCEPT ![w] = [batch[w] EXCEPT !.work = A]]
  <2>1. (IF m.checkpoint < n THEN n ELSE m.checkpoint) = n
    BY <1>3, <1>4
  <2> QED
    BY <1>1, <1>2, <1>3, <1>5, <2>1 DEF SaveProjectionCheckpoint, TypeOK
<1>8. /\ batch'[w].page = page /\ batch'[w].base = base /\ batch'[w].work = A
      /\ \A v \in Worker \ {w} : batch'[v] = batch[v]
      /\ batch' \in [Worker -> [page : Seq(Event), base : Nat, next : Nat \ {0}, work : Model]]
  BY <1>1, <1>2, <1>3, <1>6, <1>7 DEF TypeOK
<1>9. /\ pc'[w] = "commit" /\ pc' \in [Worker -> Phase]
      /\ \A v \in Worker \ {w} : pc'[v] = pc[v]
  BY <1>1, GotoType DEF SaveProjectionCheckpoint, Phase
<1>10. TypeOK'
  <2>1. \A v \in Worker : pc'[v] # "apply"
    BY <1>1, <1>9 DEF TypeOK
  <2> QED
    BY <1>1, <1>8, <1>9, <2>1 DEF TypeOK
<1>11. WorkOK(w)'
  <2>1. PageOK(batch'[w], log) /\ PetsKnown(A, log) /\ FailuresUpTo(A, n)
    BY <1>2, <1>3, <1>4, <1>6, <1>8 DEF PageOK, PetsKnown, FailuresUpTo
  <2> QED
    BY <1>1, <1>3, <1>4, <1>6, <1>8, <1>9, <2>1 DEF WorkOK
<1> QED
  BY <1>1, <1>8, <1>9, <1>10, <1>11, OwnStep

\* Without the lock nobody is inside, so a new model contradicts nobody's work.
LEMMA LeaveStep ==
  ASSUME IInv, NEW w \in Worker, Commit(w) \/ Rollback(w) PROVE IInv'
<1>1. TypeOK /\ Exclusive /\ WorkOK(w) /\ UNCHANGED <<log, resets>>
  BY DEF IInv, Commit, Rollback
<1>2. /\ pc'[w] = "idle" /\ pc' \in [Worker -> Phase]
      /\ \A v \in Worker \ {w} : pc'[v] = pc[v]
  BY <1>1, GotoType DEF Commit, Rollback, Phase
<1>3. /\ batch' \in [Worker -> [page : Seq(Event), base : Nat, next : Nat \ {0}, work : Model]]
      /\ \A v \in Worker \ {w} : batch'[v] = batch[v]
  <2>1. NoBatch \in [page : Seq(Event), base : Nat, next : Nat \ {0}, work : Model]
    BY EmptyType DEF NoBatch
  <2> QED
    BY <1>1, <2>1 DEF Commit, Rollback, TypeOK
<1>4. \A v \in Worker \ {w} : lock = v => lock' = v
  BY <1>1 DEF Commit, Rollback, Exclusive, Inside
<1>5. lock' \in Worker \cup {Nobody}
  BY <1>1 DEF Commit, Rollback, TypeOK
<1>6. model' \in Model /\ ModelOK'
  <2>1. CASE Commit(w)
    <3>1. pc[w] = "commit" /\ model' = batch[w].work
      BY <2>1 DEF Commit
    <3>2. PetsKnown(batch[w].work, log) /\ batch[w].work \in Model
      BY <1>1, <3>1 DEF WorkOK, TypeOK
    <3> QED
      BY <1>1, <3>1, <3>2 DEF WorkOK, IInv, ModelOK
  <2>2. CASE Rollback(w)
    BY <1>1, <2>2 DEF Rollback, IInv, ModelOK, TypeOK
  <2> QED
    BY <2>1, <2>2
<1>7. TypeOK'
  BY <1>1, <1>2, <1>3, <1>4, <1>5, <1>6 DEF TypeOK
<1>8. ASSUME NEW v \in Worker PROVE WorkOK(v)'
  <2>1. CASE v = w
    BY <1>2, <2>1 DEF WorkOK
  <2>2. CASE v # w /\ model' = model
    BY <1>1, <1>2, <1>3, <2>2, FrameOK DEF IInv
  <2>3. CASE v # w /\ Commit(w)
    <3>1. lock = w
      BY <1>1, <2>3 DEF Commit, Exclusive, Inside
    <3>2. ~ Inside(v)'
      BY <1>1, <1>2, <2>3, <3>1 DEF Exclusive, Inside
    <3> QED
      BY <3>2 DEF WorkOK, Inside
  <2> QED
    BY <2>1, <2>2, <2>3 DEF Rollback
<1> QED
  BY <1>1, <1>2, <1>4, <1>6, <1>7, <1>8 DEF IInv, Exclusive, Inside, NoPoisonedBatch

LEMMA ResetStep == ASSUME IInv, Reset PROVE IInv'
<1>1. /\ TypeOK /\ Exclusive /\ lock = Nobody /\ model' = EmptyModel
      /\ UNCHANGED <<log, lock, pc, batch>> /\ resets' \in 0..MaxResets
  BY NumbersAssumption DEF IInv, Reset, TypeOK
<1>2. TypeOK'
  BY <1>1, EmptyType DEF TypeOK
<1>3. ModelOK'
  <2>1. Len(log) \in Nat
    BY <1>1 DEF TypeOK
  <2> QED
    BY <1>1, <2>1 DEF ModelOK, PetsKnown, FailuresUpTo, EmptyModel, NoPet
<1>4. ASSUME NEW w \in Worker PROVE WorkOK(w)'
  <2>1. ~ Inside(w)
    BY <1>1, NobodyAssumption DEF Exclusive
  <2> QED
    BY <1>1, <2>1 DEF WorkOK, Inside
<1> QED
  BY <1>1, <1>2, <1>3, <1>4 DEF IInv, Exclusive, Inside, NoPoisonedBatch

LEMMA StepInv == IInv /\ [Next]_vars => IInv'
<1> SUFFICES ASSUME IInv, [Next]_vars PROVE IInv'
  OBVIOUS
<1>1. CASE UNCHANGED vars
  <2>1. \A w \in Worker : WorkOK(w)'
    BY <1>1, FrameOK DEF vars, IInv
  <2> QED
    BY <1>1, <2>1
       DEF vars, IInv, TypeOK, Exclusive, Inside, LogOwned, ModelOK, NoPoisonedBatch
<1> QED
  BY <1>1, PublishStep, EntryStep, CheckpointStep, ListStep, ApplyStep, SaveStep,
     LeaveStep, ResetStep DEF Next, Run

-----------------------------------------------------------------------------
(***************************************************************************)
(* The read model, its checkpoint and what a worker has read and computed  *)
(* keep their types: levels and positions are natural numbers, failures    *)
(* have one of the four reasons.                                           *)
(***************************************************************************)
THEOREM TypeCorrect == Spec => []TypeOK
<1>1. IInv => TypeOK
  BY DEF IInv
<1> QED
  BY <1>1, InitInv, StepInv, PTL DEF Spec

(***************************************************************************)
(* No event of the log aborts the batch it is in: every defect is one that *)
(* applyEvent quarantines, because the event store lets no two users own   *)
(* one pet.                                                                *)
(***************************************************************************)
THEOREM NothingPoisons == Spec => []NoPoisonedBatch
<1>1. IInv => NoPoisonedBatch
  BY DEF IInv
<1> QED
  BY <1>1, InitInv, StepInv, PTL DEF Spec

(***************************************************************************)
(* A commit takes the committed checkpoint forward by the events of its    *)
(* page and loses no quarantined event, however the workers, their crashes *)
(* and the resets interleave.                                              *)
(***************************************************************************)
THEOREM CheckpointAdvances == Spec => CheckpointMovesByPages
<1>1. IInv /\ [Next]_vars =>
        [\/ model' = EmptyModel
         \/ /\ model'.checkpoint > model.checkpoint
            /\ model'.checkpoint <= model.checkpoint + PageSize
            /\ model.failures \subseteq model'.failures]_model
  <2> SUFFICES ASSUME IInv, [Next]_vars, model' # model, model' # EmptyModel
               PROVE  /\ model'.checkpoint > model.checkpoint
                      /\ model'.checkpoint <= model.checkpoint + PageSize
                      /\ model.failures \subseteq model'.failures
    OBVIOUS
  <2>1. PICK w \in Worker : Commit(w)
    BY DEF Next, Run, vars, Publish, Call, LockProjection, GetProjectionCheckpoint,
           ListEventsAfterPosition, ApplyNext, SaveProjectionCheckpoint, Rollback, Reset
  <2> QED
    BY <2>1 DEF Commit, IInv, WorkOK
<1> QED
  BY <1>1, InitInv, StepInv, PTL DEF Spec, CheckpointMovesByPages

-----------------------------------------------------------------------------
(* First and best positions: every set of positions has a smallest one, and *)
(* every finite one that is not empty a first among those of highest value. *)

LEMMA SmallestExists ==
  ASSUME NEW S \in SUBSET Nat, S # {} PROVE \E x \in S : \A y \in S : x <= y
<1> DEFINE R == {ss \in Nat \X Nat : ss[1] < ss[2]}
<1>1. IsWellFoundedOn(R, Nat)
  BY NatLessThanWellFounded DEF OpToRel
<1>2. \A x, y \in Nat : <<y, x>> \notin R => x <= y
  OBVIOUS
<1> HIDE DEF R
<1>3. PICK x \in S : \A y \in S : <<y, x>> \notin R
  BY <1>1, WFMin
<1> QED
  BY <1>2, <1>3

\* The smallest number is what Min picks.
LEMMA MinIs ==
  ASSUME NEW S \in SUBSET Nat, NEW x \in S, \A y \in S : x <= y PROVE Min(S) = x
<1>1. \A y \in S : (\A z \in S : y <= z) => y = x
  OBVIOUS
<1> QED
  BY <1>1 DEF Min

\* Min of a set of positions is its first.
LEMMA MinOK ==
  ASSUME NEW S \in SUBSET Nat, S # {} PROVE Min(S) \in S /\ \A y \in S : Min(S) <= y
BY SmallestExists, MinIs

\* The values of events are numbers, comparable with one another.
LEMMA ValuesAreNumbers ==
  ASSUME log \in Seq(Event), NEW p \in DOMAIN log
  PROVE  p \in Nat \ {0} /\ log[p] \in Event /\ log[p].value \in Int /\ log[p].owner \in User
         /\ log[p].aggregate \in Aggregate
<1>1. log[p] \in Event /\ p \in Nat \ {0}
  OBVIOUS
<1> QED
  BY <1>1, NumbersAssumption DEF Event

Best(S) == {p \in S : \A q \in S : log[q].value <= log[p].value}

\* A set of positions up to k without a best one, which there is not.
NoBest(k) == \E T \in SUBSET DOMAIN log : T # {} /\ (\A p \in T : p <= k) /\ Best(T) = {}

\* Positions that are not empty have a best one: a smallest k without would lead to
\* one best of the others.
LEMMA BestExists ==
  ASSUME log \in Seq(Event), NEW S \in SUBSET DOMAIN log, S # {} PROVE Best(S) # {}
<1> SUFFICES ASSUME Best(S) = {} PROVE FALSE
  OBVIOUS
<1>1. PICK k \in Nat : NoBest(k) /\ \A j \in Nat : NoBest(j) => k <= j
  <2>1. Len(log) \in Nat /\ \A p \in S : p <= Len(log)
    OBVIOUS
  <2>2. NoBest(Len(log))
    BY <2>1 DEF NoBest
  <2>3. {j \in Nat : NoBest(j)} # {}
    BY <2>1, <2>2
  <2> QED
    BY <2>3, SmallestExists
<1>2. PICK T \in SUBSET DOMAIN log : T # {} /\ (\A p \in T : p <= k) /\ Best(T) = {}
  BY <1>1 DEF NoBest
<1>3. \A p \in DOMAIN log : p \in Nat \ {0} /\ log[p].value \in Int
  BY ValuesAreNumbers
<1>4. \A U \in SUBSET T : U # {} /\ k \notin U => Best(U) # {}
  <2> SUFFICES ASSUME NEW U \in SUBSET T, U # {}, k \notin U, Best(U) = {} PROVE FALSE
    OBVIOUS
  <2>1. k - 1 \in Nat /\ \A p \in U : p <= k - 1
    <3>1. \A p \in U : p \in Nat \ {0} /\ p < k
      BY <1>2, <1>3
    <3> QED
      BY <3>1
  <2>2. NoBest(k - 1)
    BY <1>2, <2>1 DEF NoBest
  <2> QED
    BY <1>1, <2>1, <2>2
<1>5. k \in T /\ T # {k}
  <2>1. k \in T
    BY <1>2, <1>4
  <2>2. T = {k} => k \in Best(T)
    BY <1>2, <1>3, <2>1 DEF Best
  <2> QED
    BY <1>2, <2>1, <2>2
<1>6. PICK b \in T : \A q \in T \ {k} : log[q].value <= log[b].value
  <2>1. Best(T \ {k}) # {}
    BY <1>4, <1>5
  <2> QED
    BY <2>1 DEF Best
<1>7. /\ \A q \in T : q = k \/ log[q].value <= log[b].value
      /\ \A q \in T : log[q].value \in Int
  BY <1>3, <1>6
<1>8. CASE log[k].value <= log[b].value
  BY <1>2, <1>7, <1>8 DEF Best
<1>9. CASE ~(log[k].value <= log[b].value)
  <2>1. \A x \in Int : x <= log[b].value => x <= log[k].value
    BY <1>5, <1>7, <1>9
  <2>2. \A q \in T : log[q].value <= log[k].value
    BY <1>5, <1>7, <2>1
  <2> QED
    BY <1>2, <1>5, <2>2 DEF Best
<1> QED
  BY <1>8, <1>9

\* FirstBest is the first of the positions with the highest value.
LEMMA FirstBestOK ==
  ASSUME log \in Seq(Event), NEW S \in SUBSET DOMAIN log, S # {}
  PROVE  /\ FirstBest(S) \in S
         /\ \A q \in S : log[q].value <= log[FirstBest(S)].value
         /\ \A q \in S : q < FirstBest(S) => log[q].value < log[FirstBest(S)].value
<1>1. Best(S) # {} /\ Best(S) \subseteq Nat /\ FirstBest(S) = Min(Best(S))
  BY BestExists DEF FirstBest, Best
<1>2. FirstBest(S) \in Best(S) /\ \A p \in Best(S) : FirstBest(S) <= p
  BY <1>1, MinOK
<1>3. \A p \in S : p \in Nat /\ log[p].value \in Int
  BY ValuesAreNumbers
<1> QED
  BY <1>2, <1>3 DEF Best

\* Whatever is best and first among the best is FirstBest.
LEMMA FirstBestIs ==
  ASSUME log \in Seq(Event), NEW S \in SUBSET DOMAIN log, NEW b \in S,
         \A q \in S : log[q].value <= log[b].value,
         \A q \in S : q < b => log[q].value < log[b].value
  PROVE  FirstBest(S) = b
<1>1. \A p \in S : p \in Nat /\ log[p].value \in Int
  BY ValuesAreNumbers
<1>2. b \in Best(S) /\ \A p \in Best(S) : b <= p
  BY <1>1 DEF Best
<1> QED
  BY <1>1, <1>2, MinIs DEF FirstBest, Best

\* One position more, later than the others, is the first only if it is alone.
LEMMA MinOfMore ==
  ASSUME NEW n \in Nat, NEW S \in SUBSET 1..n
  PROVE  Min(S \cup {n + 1}) = IF S = {} THEN n + 1 ELSE Min(S)
<1>1. CASE S = {}
  <2>1. \A y \in S \cup {n + 1} : n + 1 <= y
    BY <1>1
  <2> QED
    BY <1>1, <2>1, MinIs
<1>2. CASE S # {}
  <2>1. Min(S) \in S /\ \A y \in S : Min(S) <= y
    BY <1>2, MinOK
  <2>2. \A x \in 1..n : x <= n + 1
    OBVIOUS
  <2>3. \A y \in S \cup {n + 1} : Min(S) <= y
    BY <2>1, <2>2
  <2>4. S \cup {n + 1} \in SUBSET Nat /\ Min(S) \in S \cup {n + 1}
    BY <2>1
  <2> QED
    BY <1>2, <2>3, <2>4, MinIs
<1> QED
  BY <1>1, <1>2

\* One position more is the first best only if its value is higher.
LEMMA FirstBestOfMore ==
  ASSUME log \in Seq(Event), NEW n \in Nat, n + 1 \in DOMAIN log, NEW S \in SUBSET 1..n
  PROVE  FirstBest(S \cup {n + 1}) =
           IF S = {} \/ log[FirstBest(S)].value < log[n + 1].value THEN n + 1 ELSE FirstBest(S)
<1>1. /\ S \in SUBSET DOMAIN log /\ S \cup {n + 1} \in SUBSET DOMAIN log
      /\ \A q \in S : q < n + 1
  <2>1. \A q \in 1..n : q \in DOMAIN log /\ q < n + 1
    OBVIOUS
  <2> QED
    BY <2>1
<1>2. \A q \in S \cup {n + 1} : log[q].value \in Int /\ q \in Nat
  BY <1>1, ValuesAreNumbers
<1>3. CASE S = {}
  <2>1. /\ \A q \in S \cup {n + 1} : log[q].value <= log[n + 1].value
        /\ \A q \in S \cup {n + 1} : q < n + 1 => log[q].value < log[n + 1].value
    BY <1>2, <1>3
  <2> QED
    BY <1>1, <1>3, <2>1, FirstBestIs
<1>4. CASE S # {}
  <2>1. PICK b : b = FirstBest(S)
    OBVIOUS
  <2>2. /\ b \in S /\ \A q \in S : log[q].value <= log[b].value
        /\ \A q \in S : q < b => log[q].value < log[b].value
    BY <1>1, <1>4, <2>1, FirstBestOK
  <2>3. CASE log[b].value < log[n + 1].value
    <3>1. \A x, y, z \in Int : x <= y /\ y < z => x < z /\ x <= z
      OBVIOUS
    <3>2. \A q \in S : log[q].value < log[n + 1].value /\ log[q].value <= log[n + 1].value
      BY <1>2, <2>2, <2>3, <3>1
    <3>3. n + 1 \in S \cup {n + 1} /\ log[n + 1].value <= log[n + 1].value /\ ~ (n + 1 < n + 1)
      BY <1>2
    <3>4. FirstBest(S \cup {n + 1}) = n + 1
      BY <1>1, <3>2, <3>3, FirstBestIs
    <3> QED
      BY <1>4, <2>1, <2>3, <3>4
  <2>4. CASE ~ (log[b].value < log[n + 1].value)
    <3>1. log[n + 1].value <= log[b].value
      BY <1>2, <2>2, <2>4
    <3>2. ~ (n + 1 < b) /\ b \in S \cup {n + 1}
      BY <1>1, <1>2, <2>2
    <3>3. /\ \A q \in S \cup {n + 1} : log[q].value <= log[b].value
          /\ \A q \in S \cup {n + 1} : q < b => log[q].value < log[b].value
      BY <2>2, <3>1, <3>2
    <3>4. PICK T : T = S \cup {n + 1}
      OBVIOUS
    <3>5. FirstBest(T) = b
      BY <1>1, <3>2, <3>3, <3>4, FirstBestIs
    <3> QED
      BY <1>4, <2>1, <2>4, <3>4, <3>5
  <2> QED
    BY <2>3, <2>4
<1> QED
  BY <1>3, <1>4

-----------------------------------------------------------------------------
(* One event more. *)

\* The event at p is one of the Climbs of u.
ClimbAt(p, u) ==
  /\ Valid(p, LevelReached, u) /\ log[p].value > 1
  /\ Births(u, p) # {} /\ log[Min(Births(u, p))].aggregate = log[p].aggregate

\* Positions up to n are positions of the log.
LEMMA SetsUpTo ==
  \A n, u : /\ Births(u, n) \in SUBSET 1..n /\ Games(u, n) \in SUBSET 1..n
            /\ Climbs(u, n) \in SUBSET 1..n
BY DEF Births, Games, Climbs

\* The sets of positions that a user's rows are defined by, with one event more.
LEMMA SetsOfMore ==
  ASSUME NEW n \in Nat, NEW u
  PROVE  /\ Births(u, n + 1) = IF Valid(n + 1, PetCreated, u) THEN Births(u, n) \cup {n + 1}
                               ELSE Births(u, n)
         /\ Games(u, n + 1) = IF Valid(n + 1, GameSessionCompleted, u)
                              THEN Games(u, n) \cup {n + 1} ELSE Games(u, n)
         /\ Climbs(u, n + 1) = IF ClimbAt(n + 1, u) THEN Climbs(u, n) \cup {n + 1}
                               ELSE Climbs(u, n)
         /\ Births(u, n) \in SUBSET 1..n /\ Games(u, n) \in SUBSET 1..n
         /\ Climbs(u, n) \in SUBSET 1..n
<1>1. 1..(n + 1) = 1..n \cup {n + 1}
  OBVIOUS
<1>2. /\ Births(u, n + 1) = IF Valid(n + 1, PetCreated, u) THEN Births(u, n) \cup {n + 1}
                               ELSE Births(u, n)
  BY <1>1 DEF Births
<1>3. Games(u, n + 1) = IF Valid(n + 1, GameSessionCompleted, u)
                              THEN Games(u, n) \cup {n + 1} ELSE Games(u, n)
  BY <1>1 DEF Games
<1>4. \A k \in Nat : Climbs(u, k) = {p \in 1..k : ClimbAt(p, u)}
  BY DEF Climbs, ClimbAt
<1>5. Climbs(u, n + 1) = IF ClimbAt(n + 1, u) THEN Climbs(u, n) \cup {n + 1} ELSE Climbs(u, n)
  <2>1. Climbs(u, n) = {p \in 1..n : ClimbAt(p, u)}
        /\ Climbs(u, n + 1) = {p \in 1..n \cup {n + 1} : ClimbAt(p, u)}
    BY <1>1, <1>4
  <2> QED
    BY <2>1
<1> QED
  BY <1>2, <1>3, <1>5, SetsUpTo

\* The kinds of events that the projector tells apart differ.
LEMMA TypesDiffer ==
  /\ PetCreated # LevelReached /\ PetCreated # GameSessionCompleted /\ PetCreated # Other
  /\ LevelReached # GameSessionCompleted /\ LevelReached # Other /\ GameSessionCompleted # Other
BY DEF PetCreated, LevelReached, GameSessionCompleted, Other

\* The events of one user, and events of another type, leave a row alone.
LEMMA RowsKept ==
  ASSUME NEW n \in Nat, NEW u
  PROVE  /\ ~ Valid(n + 1, PetCreated, u) /\ ~ Valid(n + 1, LevelReached, u)
              => PetAfter(u, n + 1) = PetAfter(u, n)
         /\ ~ Valid(n + 1, GameSessionCompleted, u) => ScoreAfter(u, n + 1) = ScoreAfter(u, n)
<1>1. ~ Valid(n + 1, PetCreated, u) /\ ~ Valid(n + 1, LevelReached, u)
        => Births(u, n + 1) = Births(u, n) /\ Climbs(u, n + 1) = Climbs(u, n)
  BY SetsOfMore DEF ClimbAt
<1>2. ~ Valid(n + 1, GameSessionCompleted, u) => Games(u, n + 1) = Games(u, n)
  BY SetsOfMore
<1> QED
  BY <1>1, <1>2 DEF PetAfter, ScoreAfter

\* A pet's row exists from its creation on.
LEMMA PetRow ==
  ASSUME log \in Seq(Event), NEW n \in Nat, n <= Len(log), NEW u, Births(u, n) # {}
  PROVE  /\ PetAfter(u, n) # NoPet /\ Min(Births(u, n)) \in 1..n
         /\ PetAfter(u, n).pet = log[Min(Births(u, n))].aggregate
         /\ PetAfter(u, n).position \in 1..n
         /\ Climbs(u, n) = {} => PetAfter(u, n).level = 1
         /\ Climbs(u, n) # {} => /\ FirstBest(Climbs(u, n)) \in Climbs(u, n)
                                 /\ PetAfter(u, n).level = log[FirstBest(Climbs(u, n))].value
                                 /\ PetAfter(u, n).position = FirstBest(Climbs(u, n))
<1>1. PICK b, C : b = Min(Births(u, n)) /\ C = Climbs(u, n)
  OBVIOUS
<1>2. b \in 1..n
  <2>1. Births(u, n) \in SUBSET 1..n
    BY SetsOfMore
  <2> QED
    BY <1>1, <2>1, MinOK
<1>3. log[b].aggregate # Nobody
  <2>1. b \in DOMAIN log
    BY <1>2
  <2> QED
    BY <2>1, ValuesAreNumbers, NobodyAssumption
<1>4. PetAfter(u, n) = IF C = {} THEN [pet |-> log[b].aggregate, level |-> 1, position |-> b]
                       ELSE [pet |-> log[b].aggregate, level |-> log[FirstBest(C)].value,
                             position |-> FirstBest(C)]
  BY <1>1 DEF PetAfter
<1>5. C # {} => FirstBest(C) \in C /\ FirstBest(C) \in 1..n
  <2>1. C \in SUBSET 1..n /\ C \in SUBSET DOMAIN log
    <3>1. \A x \in 1..n : x \in DOMAIN log
      OBVIOUS
    <3> QED
      BY <1>1, <3>1, SetsOfMore
  <2> QED
    BY <2>1, FirstBestOK
<1>6. PetAfter(u, n).pet = log[b].aggregate
  BY <1>4
<1>7. PetAfter(u, n) # NoPet
  BY <1>3, <1>6 DEF NoPet
<1>8. PetAfter(u, n).position \in 1..n
  BY <1>2, <1>4, <1>5
<1>9. /\ C = {} => PetAfter(u, n).level = 1
      /\ C # {} => /\ FirstBest(C) \in C
                   /\ PetAfter(u, n).level = log[FirstBest(C)].value
                   /\ PetAfter(u, n).position = FirstBest(C)
  BY <1>4, <1>5
<1> QED
  BY <1>1, <1>2, <1>6, <1>7, <1>8, <1>9

\* The tables of m hold what the first n events say.
IsFold(m, n) ==
  /\ \A u \in User : m.pets[u] = PetAfter(u, n) /\ m.scores[u] = ScoreAfter(u, n)
  /\ m.failures = FailuresAfter(n)

\* The quarantined events, with one event more.
LEMMA FailuresOfMore ==
  ASSUME NEW n \in Nat
  PROVE  /\ FailuresAfter(n + 1) =
              FailuresAfter(n)
              \cup (IF ~Sound(log[n + 1])
                    THEN {[position |-> n + 1, reason |-> Defect(log[n + 1])]} ELSE {})
              \cup (IF OutOfSequence(n + 1)
                    THEN {[position |-> n + 1, reason |-> "INVALID_SEQUENCE"]} ELSE {})
         /\ \A f \in FailuresAfter(n) : f.position # n + 1
<1>1. 1..(n + 1) = 1..n \cup {n + 1} /\ n + 1 \notin 1..n
  OBVIOUS
<1>2. PICK D, O :
        /\ D = [p \in 1..(n + 1) |-> [position |-> p, reason |-> Defect(log[p])]]
        /\ O = [p \in 1..(n + 1) |-> [position |-> p, reason |-> "INVALID_SEQUENCE"]]
  OBVIOUS
<1>3. \A k \in {n, n + 1} :
        FailuresAfter(k) = {D[p] : p \in {q \in 1..k : ~Sound(log[q])}}
                           \cup {O[p] : p \in {q \in 1..k : OutOfSequence(q)}}
  BY <1>1, <1>2 DEF FailuresAfter
<1>4. {D[p] : p \in {q \in 1..(n + 1) : ~Sound(log[q])}} =
        {D[p] : p \in {q \in 1..n : ~Sound(log[q])}}
        \cup (IF ~Sound(log[n + 1]) THEN {D[n + 1]} ELSE {})
  BY <1>1
<1>5. {O[p] : p \in {q \in 1..(n + 1) : OutOfSequence(q)}} =
        {O[p] : p \in {q \in 1..n : OutOfSequence(q)}}
        \cup (IF OutOfSequence(n + 1) THEN {O[n + 1]} ELSE {})
  BY <1>1
<1>6. D[n + 1] = [position |-> n + 1, reason |-> Defect(log[n + 1])]
      /\ O[n + 1] = [position |-> n + 1, reason |-> "INVALID_SEQUENCE"]
  BY <1>1, <1>2
<1>7. \A f \in FailuresAfter(n) : f.position # n + 1
  BY <1>1 DEF FailuresAfter
<1> HIDE DEF OutOfSequence, Sound, Defect
<1>8. FailuresAfter(n + 1) = FailuresAfter(n)
        \cup (IF ~Sound(log[n + 1]) THEN {D[n + 1]} ELSE {})
        \cup (IF OutOfSequence(n + 1) THEN {O[n + 1]} ELSE {})
  BY <1>3, <1>4, <1>5
<1> QED
  BY <1>6, <1>7, <1>8

\* What quarantining the next event does.
LEMMA QuarantineFolds ==
  ASSUME NEW n \in Nat, NEW m \in Model, IsFold(m, n), NEW reason \in Reason,
         \A u \in User : PetAfter(u, n + 1) = PetAfter(u, n) /\ ScoreAfter(u, n + 1) = ScoreAfter(u, n),
         FailuresAfter(n + 1) = FailuresAfter(n) \cup {[position |-> n + 1, reason |-> reason]}
  PROVE  IsFold(Quarantine(m, n + 1, reason), n + 1)
<1>1. PICK A : A = Quarantine(m, n + 1, reason)
  OBVIOUS
<1>2. /\ A.pets = m.pets /\ A.scores = m.scores
      /\ A.failures = {f \in m.failures : f.position # n + 1}
                      \cup {[position |-> n + 1, reason |-> reason]}
  BY <1>1 DEF Quarantine, Model
<1>3. {f \in m.failures : f.position # n + 1} = FailuresAfter(n)
  BY FailuresOfMore DEF IsFold
<1> QED
  BY <1>1, <1>2, <1>3 DEF IsFold

\* What changing the owner's row of a table does.
LEMMA RowFolds ==
  ASSUME NEW n \in Nat, NEW m \in Model, IsFold(m, n), NEW o \in User, NEW A,
         FailuresAfter(n + 1) = FailuresAfter(n), A.failures = m.failures,
         \A u \in User \ {o} : /\ PetAfter(u, n + 1) = PetAfter(u, n) /\ A.pets[u] = m.pets[u]
                               /\ ScoreAfter(u, n + 1) = ScoreAfter(u, n) /\ A.scores[u] = m.scores[u],
         A.pets[o] = PetAfter(o, n + 1), A.scores[o] = ScoreAfter(o, n + 1)
  PROVE  IsFold(A, n + 1)
BY DEF IsFold

\* A malformed event is quarantined and changes no row.
LEMMA DefectFolds ==
  ASSUME log \in Seq(Event), NEW n \in Nat, n + 1 \in DOMAIN log, NEW m \in Model, IsFold(m, n),
         Defect(log[n + 1]) # "none"
  PROVE  IsFold(ApplyEvent(m, log[n + 1], n + 1), n + 1)
<1>1. PICK d : d = Defect(log[n + 1])
  OBVIOUS
<1>2. d \in Reason /\ ApplyEvent(m, log[n + 1], n + 1) = Quarantine(m, n + 1, d)
  BY <1>1, DefectType, ValuesAreNumbers DEF ApplyEvent
<1>0. ~ Sound(log[n + 1])
  BY DefectNone, ValuesAreNumbers
<1>3. \A u, t : ~ Valid(n + 1, t, u)
  BY <1>0 DEF Valid
<1>4. ~ OutOfSequence(n + 1)
  BY <1>0 DEF OutOfSequence
<1>5. FailuresAfter(n + 1) = FailuresAfter(n) \cup {[position |-> n + 1, reason |-> d]}
  BY <1>0, <1>1, <1>4, FailuresOfMore
<1>6. \A u \in User : PetAfter(u, n + 1) = PetAfter(u, n) /\ ScoreAfter(u, n + 1) = ScoreAfter(u, n)
  BY <1>3, RowsKept
<1> QED
  BY <1>2, <1>5, <1>6, QuarantineFolds

\* GAME_SESSION_COMPLETED: the record changes only if the score is higher.
LEMMA ScoreFolds ==
  ASSUME log \in Seq(Event), NEW n \in Nat, n + 1 \in DOMAIN log, NEW m \in Model, IsFold(m, n),
         Defect(log[n + 1]) = "none", log[n + 1].type = GameSessionCompleted
  PROVE  IsFold(ApplyEvent(m, log[n + 1], n + 1), n + 1)
<1>1. PICK e, o, A : e = log[n + 1] /\ o = e.owner /\ A = ApplyEvent(m, e, n + 1)
  OBVIOUS
<1>0. Sound(e) /\ Sound(log[n + 1])
  BY <1>1, DefectNone, ValuesAreNumbers
<1>2. /\ A = UpsertGameScore(m, e, n + 1)
      /\ o \in User /\ e.value \in Int /\ ~ OutOfSequence(n + 1)
      /\ \A u : ~ Valid(n + 1, PetCreated, u) /\ ~ Valid(n + 1, LevelReached, u)
      /\ \A u : Valid(n + 1, GameSessionCompleted, u) <=> u = o
  BY <1>0, <1>1, TypesDiffer, ValuesAreNumbers DEF ApplyEvent, OutOfSequence, Valid
<1>3. FailuresAfter(n + 1) = FailuresAfter(n)
  BY <1>2, <1>0, FailuresOfMore
<1>4. \A u \in User : /\ PetAfter(u, n + 1) = PetAfter(u, n)
                      /\ u # o => ScoreAfter(u, n + 1) = ScoreAfter(u, n)
  BY <1>2, RowsKept
<1>5. PICK G : G = Games(o, n)
  OBVIOUS
<1>6. G \in SUBSET 1..n /\ Games(o, n + 1) = G \cup {n + 1} /\ G \cup {n + 1} # {}
  BY <1>2, <1>5, SetsOfMore
<1>7. ScoreAfter(o, n + 1) =
        IF G = {} \/ log[FirstBest(G)].value < e.value
        THEN [best |-> e.value, position |-> n + 1] ELSE ScoreAfter(o, n)
  <2>1. PICK F : F = FirstBest(G \cup {n + 1})
    OBVIOUS
  <2>2. ScoreAfter(o, n + 1) = [best |-> log[F].value, position |-> F]
    BY <1>6, <2>1 DEF ScoreAfter
  <2>3. F = IF G = {} \/ log[FirstBest(G)].value < e.value THEN n + 1 ELSE FirstBest(G)
    BY <1>1, <1>6, <2>1, FirstBestOfMore
  <2>4. G # {} => ScoreAfter(o, n) = [best |-> log[FirstBest(G)].value, position |-> FirstBest(G)]
    BY <1>5 DEF ScoreAfter
  <2> QED
    BY <1>1, <2>2, <2>3, <2>4
<1>8. m.scores[o] = NoScore <=> G = {}
  <2>1. m.scores[o] = ScoreAfter(o, n)
    BY <1>2 DEF IsFold
  <2>2. G # {} => ScoreAfter(o, n).position \in 1..n
    <3>1. G \in SUBSET DOMAIN log
      <4>1. \A q \in 1..n : q \in DOMAIN log
        OBVIOUS
      <4> QED
        BY <1>6, <4>1
    <3>2. G # {} => FirstBest(G) \in 1..n
      BY <1>6, <3>1, FirstBestOK
    <3> QED
      BY <1>5, <3>2 DEF ScoreAfter
  <2> QED
    BY <1>5, <2>1, <2>2 DEF NoScore, ScoreAfter
<1>9. G # {} => m.scores[o].best = log[FirstBest(G)].value
  <2>1. m.scores[o] = ScoreAfter(o, n)
    BY <1>2 DEF IsFold
  <2>2. G # {} => ScoreAfter(o, n).best = log[FirstBest(G)].value
    BY <1>5 DEF ScoreAfter
  <2> QED
    BY <2>1, <2>2
<1>10. m.scores \in [User -> [best : Nat, position : Nat]] /\ m \in Model
  BY DEF Model
<1>11. CASE G = {} \/ log[FirstBest(G)].value < e.value
  <2>1. m.scores[o] = NoScore \/ m.scores[o].best < e.value
    BY <1>8, <1>9, <1>11
  <2>2. A = [m EXCEPT !.scores[o] = [best |-> e.value, position |-> n + 1]]
    BY <1>1, <1>2, <2>1 DEF UpsertGameScore
  <2>3. /\ A.pets = m.pets /\ A.failures = m.failures
        /\ A.scores[o] = [best |-> e.value, position |-> n + 1]
        /\ \A u \in User \ {o} : A.scores[u] = m.scores[u]
    BY <1>2, <1>10, <2>2 DEF Model
  <2>4. A.scores[o] = ScoreAfter(o, n + 1) /\ A.pets[o] = PetAfter(o, n + 1)
    BY <1>2, <1>4, <1>7, <1>11, <2>3 DEF IsFold
  <2> QED
    BY <1>1, <1>2, <1>3, <1>4, <2>3, <2>4, RowFolds
<1>12. CASE ~ (G = {} \/ log[FirstBest(G)].value < e.value)
  <2>1. ~ (m.scores[o] = NoScore \/ m.scores[o].best < e.value)
    BY <1>8, <1>9, <1>12
  <2>2. A = m
    BY <1>1, <1>2, <2>1 DEF UpsertGameScore
  <2>3. ScoreAfter(o, n + 1) = ScoreAfter(o, n)
    BY <1>7, <1>12
  <2> QED
    BY <1>1, <1>3, <1>4, <2>2, <2>3 DEF IsFold
<1> QED
  BY <1>11, <1>12

\* PET_CREATED: the first pet of an owner starts at level 1, any other is quarantined.
LEMMA CreatedFolds ==
  ASSUME log \in Seq(Event), NEW n \in Nat, n + 1 \in DOMAIN log, NEW m \in Model, IsFold(m, n),
         Defect(log[n + 1]) = "none", log[n + 1].type = PetCreated
  PROVE  IsFold(ApplyEvent(m, log[n + 1], n + 1), n + 1)
<1>1. PICK e, o, A : e = log[n + 1] /\ o = e.owner /\ A = ApplyEvent(m, e, n + 1)
  OBVIOUS
<1>0. Sound(e) /\ Sound(log[n + 1])
  BY <1>1, DefectNone, ValuesAreNumbers
<1>2. /\ A = InsertPet(m, e, n + 1)
      /\ o \in User
      /\ \A u : ~ Valid(n + 1, LevelReached, u) /\ ~ Valid(n + 1, GameSessionCompleted, u)
      /\ \A u : Valid(n + 1, PetCreated, u) <=> u = o
  BY <1>0, <1>1, TypesDiffer, ValuesAreNumbers DEF ApplyEvent, Valid
<1>3. OutOfSequence(n + 1) <=> Min(Births(o, n + 1)) # n + 1
  BY <1>0, <1>1, TypesDiffer DEF OutOfSequence
<1>4. \A u \in User : /\ ScoreAfter(u, n + 1) = ScoreAfter(u, n)
                      /\ u # o => PetAfter(u, n + 1) = PetAfter(u, n)
  BY <1>2, RowsKept
<1>5. PICK B, C : B = Births(o, n) /\ C = Climbs(o, n)
  OBVIOUS
<1>6. /\ B \in SUBSET 1..n /\ Births(o, n + 1) = B \cup {n + 1} /\ Climbs(o, n + 1) = C
      /\ Min(Births(o, n + 1)) = IF B = {} THEN n + 1 ELSE Min(B)
  BY <1>2, <1>5, SetsOfMore, MinOfMore DEF ClimbAt
<1>7. n + 1 \notin 1..n /\ n <= Len(log)
  OBVIOUS
<1>8. m.pets[o] = PetAfter(o, n) /\ (B # {} => PetAfter(o, n) # NoPet)
      /\ (B = {} => PetAfter(o, n) = NoPet)
  BY <1>2, <1>5, <1>7, PetRow DEF IsFold, PetAfter
<1>9. CASE B = {}
  <2>1. C = {}
    <3>1. \A p \in 1..n : Births(o, p) \subseteq B
      BY <1>5 DEF Births
    <3> QED
      BY <1>5, <1>9, <3>1 DEF Climbs
  <2>2. PetAfter(o, n + 1) = [pet |-> e.aggregate, level |-> 1, position |-> n + 1]
    BY <1>1, <1>6, <1>9, <2>1 DEF PetAfter
  <2>3. A = [m EXCEPT !.pets[o] = [pet |-> e.aggregate, level |-> 1, position |-> n + 1]]
    BY <1>1, <1>2, <1>8, <1>9 DEF InsertPet
  <2>4. m.pets \in [User -> [pet : Aggregate \cup {Nobody}, level : Nat, position : Nat]]
    BY DEF Model
  <2>5. /\ A.scores = m.scores /\ A.failures = m.failures /\ A.pets[o] = PetAfter(o, n + 1)
        /\ \A u \in User \ {o} : A.pets[u] = m.pets[u]
    BY <1>2, <2>2, <2>3, <2>4 DEF Model
  <2>6. FailuresAfter(n + 1) = FailuresAfter(n)
    BY <1>3, <1>6, <1>9, <1>0, FailuresOfMore
  <2>7. A.scores[o] = ScoreAfter(o, n + 1)
    BY <1>2, <1>4, <2>5 DEF IsFold
  <2> QED
    BY <1>1, <1>2, <1>4, <2>5, <2>6, <2>7, RowFolds
<1>10. CASE B # {}
  <2>1. Min(B) \in 1..n
    <3>1. B \in SUBSET Nat
      BY <1>6
    <3> QED
      BY <1>6, <1>10, <3>1, MinOK
  <2>2. OutOfSequence(n + 1)
    BY <1>3, <1>6, <1>7, <1>10, <2>1
  <2>3. FailuresAfter(n + 1) =
          FailuresAfter(n) \cup {[position |-> n + 1, reason |-> "INVALID_SEQUENCE"]}
    BY <2>2, <1>0, FailuresOfMore
  <2>4. PetAfter(o, n + 1) = PetAfter(o, n)
    BY <1>5, <1>6, <1>10 DEF PetAfter
  <2>5. A = Quarantine(m, n + 1, "INVALID_SEQUENCE") /\ "INVALID_SEQUENCE" \in Reason
    BY <1>1, <1>2, <1>8, <1>10 DEF InsertPet, Reason
  <2>6. \A u \in User :
          PetAfter(u, n + 1) = PetAfter(u, n) /\ ScoreAfter(u, n + 1) = ScoreAfter(u, n)
    BY <1>4, <2>4
  <2> QED
    BY <1>1, <2>3, <2>5, <2>6, QuarantineFolds
<1> QED
  BY <1>9, <1>10

\* LEVEL_REACHED: a pet climbs to any level above its own; anything else is quarantined.
LEMMA LevelFolds ==
  ASSUME log \in Seq(Event), NEW n \in Nat, n + 1 \in DOMAIN log, NEW m \in Model, IsFold(m, n),
         Defect(log[n + 1]) = "none", log[n + 1].type = LevelReached
  PROVE  IsFold(ApplyEvent(m, log[n + 1], n + 1), n + 1)
<1>1. PICK e, o, A : e = log[n + 1] /\ o = e.owner /\ A = ApplyEvent(m, e, n + 1)
  OBVIOUS
<1>0. Sound(e) /\ Sound(log[n + 1])
  BY <1>1, DefectNone, ValuesAreNumbers
<1>2. /\ A = AdvancePetLevel(m, e, n + 1)
      /\ o \in User /\ e.value \in Int /\ e.aggregate \in Aggregate /\ e.aggregate # Nobody
      /\ \A u : ~ Valid(n + 1, PetCreated, u) /\ ~ Valid(n + 1, GameSessionCompleted, u)
      /\ \A u : Valid(n + 1, LevelReached, u) <=> u = o
  BY <1>0, <1>1, TypesDiffer, ValuesAreNumbers, NobodyAssumption DEF ApplyEvent, Valid
<1>3. \A u \in User : /\ ScoreAfter(u, n + 1) = ScoreAfter(u, n)
                      /\ u # o => PetAfter(u, n + 1) = PetAfter(u, n)
  BY <1>2, RowsKept
<1>4. PICK B, C, row : B = Births(o, n) /\ C = Climbs(o, n) /\ row = m.pets[o]
  OBVIOUS
<1>5. /\ B \in SUBSET 1..n /\ C \in SUBSET 1..n /\ Births(o, n + 1) = B
      /\ Climbs(o, n + 1) = IF ClimbAt(n + 1, o) THEN C \cup {n + 1} ELSE C
  BY <1>2, <1>4, SetsOfMore
<1>6. ClimbAt(n + 1, o) <=> e.value > 1 /\ B # {} /\ log[Min(B)].aggregate = e.aggregate
  BY <1>1, <1>2, <1>5 DEF ClimbAt
<1>7. n <= Len(log) /\ n + 1 \in Nat /\ \A x \in 1..n : x < n + 1 /\ x # n + 1 /\ x \in DOMAIN log
  OBVIOUS
<1>8. row = PetAfter(o, n)
  BY <1>2, <1>4 DEF IsFold
<1>9. /\ B = {} => row.pet = Nobody
      /\ B # {} => /\ row.pet = log[Min(B)].aggregate /\ row.position < n + 1
                   /\ C = {} => row.level = 1
                   /\ C # {} => FirstBest(C) \in C /\ row.level = log[FirstBest(C)].value
  <2>1. B = {} => row.pet = Nobody
    BY <1>4, <1>8 DEF PetAfter, NoPet
  <2> QED
    BY <1>4, <1>7, <1>8, <2>1, PetRow
\* The guard of AdvancePetLevel, told by the events.
<1>10. PICK better : better <=> ClimbAt(n + 1, o) /\ (C = {} \/ row.level < e.value)
  OBVIOUS
<1>11. \A q \in C : log[q].value \in Int /\ log[q].value > 1
  <2>1. \A q \in C : q \in DOMAIN log /\ log[q].value > 1
    BY <1>4, <1>5, <1>7 DEF Climbs
  <2> QED
    BY <2>1, ValuesAreNumbers
<1>12. /\ row.pet = e.aggregate /\ row.level < e.value /\ row.position < n + 1 <=> better
  BY <1>2, <1>6, <1>9, <1>10, <1>11
<1>13. OutOfSequence(n + 1) <=> ~ better
  <2>1. OutOfSequence(n + 1) <=>
          \/ n + 1 \notin Climbs(o, n + 1)
          \/ \E q \in Climbs(o, (n + 1) - 1) : log[q].value >= e.value
    BY <1>0, <1>1, TypesDiffer DEF OutOfSequence
  <2>2. (n + 1) - 1 = n
    OBVIOUS
  <2>3. n + 1 \in Climbs(o, n + 1) <=> ClimbAt(n + 1, o)
    BY <1>5, <1>7
  <2>4. C # {} => /\ FirstBest(C) \in C
                  /\ \A q \in C : log[q].value <= log[FirstBest(C)].value
    BY <1>5, <1>7, FirstBestOK
  <2>5. ClimbAt(n + 1, o) /\ C # {} => row.level = log[FirstBest(C)].value
    BY <1>6, <1>9
  <2>6. ClimbAt(n + 1, o) /\ C # {} =>
          ((\E q \in C : log[q].value >= e.value) <=> ~ (row.level < e.value))
    BY <1>2, <1>11, <2>4, <2>5
  <2> QED
    BY <1>4, <1>10, <2>1, <2>2, <2>3, <2>6
<1>14. CASE better
  <2>1. B # {} /\ Climbs(o, n + 1) = C \cup {n + 1} /\ log[Min(B)].aggregate = row.pet
    BY <1>5, <1>6, <1>9, <1>10, <1>14
  <2>2. FirstBest(C \cup {n + 1}) = n + 1
    BY <1>1, <1>5, <1>6, <1>9, <1>10, <1>14, FirstBestOfMore
  <2>3. PetAfter(o, n + 1) = [pet |-> row.pet, level |-> e.value, position |-> n + 1]
    BY <1>1, <1>5, <2>1, <2>2 DEF PetAfter
  <2>4. A = [m EXCEPT !.pets[o].level = e.value, !.pets[o].position = n + 1]
    BY <1>1, <1>2, <1>4, <1>12, <1>14 DEF AdvancePetLevel
  <2>5. m.pets \in [User -> [pet : Aggregate \cup {Nobody}, level : Nat, position : Nat]]
    BY DEF Model
  <2>6. /\ A.scores = m.scores /\ A.failures = m.failures
        /\ A.pets[o] = [pet |-> row.pet, level |-> e.value, position |-> n + 1]
        /\ \A u \in User \ {o} : A.pets[u] = m.pets[u]
    <3>1. A.scores = m.scores /\ A.failures = m.failures
          /\ A.pets = [m.pets EXCEPT ![o].level = e.value, ![o].position = n + 1]
      BY <2>4 DEF Model
    <3>2. \A u \in User \ {o} : A.pets[u] = m.pets[u]
      BY <2>5, <3>1
    <3>3. row \in [pet : Aggregate \cup {Nobody}, level : Nat, position : Nat]
      BY <1>2, <1>4, <2>5
    <3>4. A.pets[o] = [row EXCEPT !.level = e.value, !.position = n + 1]
      BY <1>2, <1>4, <2>5, <3>1
    <3> QED
      BY <3>1, <3>2, <3>3, <3>4
  <2>7. FailuresAfter(n + 1) = FailuresAfter(n)
    BY <1>13, <1>14, <1>0, FailuresOfMore
  <2>8. A.scores[o] = ScoreAfter(o, n + 1)
    BY <1>2, <1>3, <2>6 DEF IsFold
  <2> QED
    BY <1>1, <1>2, <1>3, <2>3, <2>6, <2>7, <2>8, RowFolds
<1>15. CASE ~ better
  <2>1. FailuresAfter(n + 1) =
          FailuresAfter(n) \cup {[position |-> n + 1, reason |-> "INVALID_SEQUENCE"]}
    BY <1>13, <1>15, <1>0, FailuresOfMore
  <2>2. PetAfter(o, n + 1) = PetAfter(o, n)
    <3>1. CASE ClimbAt(n + 1, o)
      <4>1. C # {} /\ ~ (log[FirstBest(C)].value < e.value)
        BY <1>6, <1>9, <1>10, <1>15, <3>1
      <4>2. Climbs(o, n + 1) # {} /\ FirstBest(Climbs(o, n + 1)) = FirstBest(C)
        BY <1>1, <1>5, <3>1, <4>1, FirstBestOfMore
      <4> QED
        BY <1>4, <1>5, <4>1, <4>2 DEF PetAfter
    <3>2. CASE ~ ClimbAt(n + 1, o)
      BY <1>4, <1>5, <3>2 DEF PetAfter
    <3> QED
      BY <3>1, <3>2
  <2>3. A = Quarantine(m, n + 1, "INVALID_SEQUENCE") /\ "INVALID_SEQUENCE" \in Reason
    BY <1>1, <1>2, <1>4, <1>12, <1>15 DEF AdvancePetLevel, Reason
  <2>4. \A u \in User :
          PetAfter(u, n + 1) = PetAfter(u, n) /\ ScoreAfter(u, n + 1) = ScoreAfter(u, n)
    BY <1>3, <2>2
  <2> QED
    BY <1>1, <2>1, <2>3, <2>4, QuarantineFolds
<1> QED
  BY <1>14, <1>15

\* The tables that hold what n events say hold, after applyEvent, what n + 1 say.
LEMMA FoldStep ==
  ASSUME log \in Seq(Event), NEW n \in Nat, n + 1 \in DOMAIN log, NEW m \in Model, IsFold(m, n)
  PROVE  IsFold(ApplyEvent(m, log[n + 1], n + 1), n + 1)
<1>1. CASE Defect(log[n + 1]) = "none" /\ log[n + 1].type = Other
  <2>0. Sound(log[n + 1])
    BY <1>1 DEF Sound
  <2>1. ApplyEvent(m, log[n + 1], n + 1) = m /\ ~ OutOfSequence(n + 1)
    BY <1>1, TypesDiffer DEF ApplyEvent, OutOfSequence
  <2>2. FailuresAfter(n + 1) = FailuresAfter(n)
    BY <2>0, <2>1, FailuresOfMore
  <2>3. \A u : /\ ~ Valid(n + 1, PetCreated, u) /\ ~ Valid(n + 1, LevelReached, u)
               /\ ~ Valid(n + 1, GameSessionCompleted, u)
    BY <1>1, TypesDiffer DEF Valid
  <2>4. \A u \in User :
          PetAfter(u, n + 1) = PetAfter(u, n) /\ ScoreAfter(u, n + 1) = ScoreAfter(u, n)
    BY <2>3, RowsKept
  <2> QED
    BY <2>1, <2>2, <2>4 DEF IsFold
<1>2. log[n + 1].type \in {PetCreated, LevelReached, GameSessionCompleted, Other}
  BY ValuesAreNumbers DEF Event
<1> QED
  BY <1>1, <1>2, DefectFolds, CreatedFolds, LevelFolds, ScoreFolds

\* What the tables must hold after each number of events.
Tables == [n \in Nat |-> [pets |-> [u \in User |-> PetAfter(u, n)],
                          scores |-> [u \in User |-> ScoreAfter(u, n)],
                          failures |-> FailuresAfter(n)]]

Holds(m, t) == m.pets = t.pets /\ m.scores = t.scores /\ m.failures = t.failures

\* Tables that hold what the log says are what ReadModelIsFold asks for.
LEMMA HoldsIsFold ==
  ASSUME NEW m \in Model, NEW n \in Nat PROVE Holds(m, Tables[n]) <=> IsFold(m, n)
<1>1. m.pets = [u \in User |-> m.pets[u]] /\ m.scores = [u \in User |-> m.scores[u]]
  BY DEF Model
<1>2. /\ Tables[n].pets = [u \in User |-> PetAfter(u, n)]
      /\ Tables[n].scores = [u \in User |-> ScoreAfter(u, n)]
      /\ Tables[n].failures = FailuresAfter(n)
  BY DEF Tables
<1> QED
  BY <1>1, <1>2 DEF Holds, IsFold

\* A published event changes nothing of what the events before it say.
LEMMA TablesGrow ==
  ASSUME log \in Seq(Event), NEW e \in Event, log' = Append(log, e), NEW n \in 0..Len(log)
  PROVE  Tables'[n] = Tables[n]
<1>1. \A p \in 1..n : log'[p] = log[p]
  OBVIOUS
<1>2. ASSUME NEW u \in User, NEW k \in 0..n PROVE Births(u, k)' = Births(u, k)
  <2>1. \A p \in 1..k : log'[p] = log[p]
    BY <1>1
  <2> QED
    BY <2>1 DEF Births, Valid
<1>3. ASSUME NEW u \in User, NEW k \in 0..n
      PROVE  Climbs(u, k)' = Climbs(u, k) /\ Games(u, k)' = Games(u, k)
  <2>1. \A p \in 1..k : log'[p] = log[p] /\ Births(u, p)' = Births(u, p)
    BY <1>1, <1>2
  <2>2. \A p \in 1..k : Births(u, p) # {} => Min(Births(u, p)) \in 1..k
    <3>1. \A p \in 1..k : Births(u, p) \in SUBSET 1..p
      BY SetsUpTo
    <3>2. \A p \in 1..k : Births(u, p) \in SUBSET Nat /\ Births(u, p) \in SUBSET 1..k
      BY <3>1
    <3> QED
      BY <3>2, MinOK
  <2>3. ASSUME NEW p \in 1..k
        PROVE  /\ Valid(p, GameSessionCompleted, u)' <=> Valid(p, GameSessionCompleted, u)
               /\ ClimbAt(p, u)' <=> ClimbAt(p, u)
    <3>1. PICK B : B = Births(u, p) /\ B = Births(u, p)'
      BY <2>1
    <3>2. /\ Valid(p, GameSessionCompleted, u)' <=> Valid(p, GameSessionCompleted, u)
          /\ Valid(p, LevelReached, u)' <=> Valid(p, LevelReached, u)
      BY <2>1 DEF Valid
    <3>3. B # {} => log'[Min(B)] = log[Min(B)]
      BY <2>1, <2>2, <3>1
    <3> QED
      BY <2>1, <3>1, <3>2, <3>3 DEF ClimbAt
  <2>4. Climbs(u, k)' = {p \in 1..k : ClimbAt(p, u)'} /\ Climbs(u, k) = {p \in 1..k : ClimbAt(p, u)}
    BY DEF Climbs, ClimbAt
  <2>5. /\ Games(u, k)' = {p \in 1..k : Valid(p, GameSessionCompleted, u)'}
        /\ Games(u, k) = {p \in 1..k : Valid(p, GameSessionCompleted, u)}
    BY DEF Games
  <2> QED
    BY <2>3, <2>4, <2>5
<1>4. ASSUME NEW S \in SUBSET 1..n PROVE FirstBest(S)' = FirstBest(S)
  BY <1>1, <1>4 DEF FirstBest
<1>5. ASSUME NEW u \in User
      PROVE  PetAfter(u, n)' = PetAfter(u, n) /\ ScoreAfter(u, n)' = ScoreAfter(u, n)
  <2>1. PICK B, C, G :
          /\ B = Births(u, n) /\ C = Climbs(u, n) /\ G = Games(u, n)
          /\ B = Births(u, n)' /\ C = Climbs(u, n)' /\ G = Games(u, n)'
    BY <1>2, <1>3
  <2>2. B \in SUBSET 1..n /\ C \in SUBSET 1..n /\ G \in SUBSET 1..n
    BY <2>1, SetsUpTo
  <2>3. PICK b, c, g : b = Min(B) /\ c = FirstBest(C) /\ g = FirstBest(G)
    OBVIOUS
  <2>4. FirstBest(C)' = c /\ FirstBest(G)' = g
    BY <1>4, <2>2, <2>3
  <2>5. /\ B # {} => b \in 1..n
        /\ C # {} => c \in 1..n
        /\ G # {} => g \in 1..n
    <3>1. B \in SUBSET Nat /\ C \in SUBSET DOMAIN log /\ G \in SUBSET DOMAIN log
      <4>1. \A x \in 1..n : x \in Nat /\ x \in DOMAIN log
        OBVIOUS
      <4> QED
        BY <2>2, <4>1
    <3> QED
      BY <2>2, <2>3, <3>1, MinOK, FirstBestOK
  <2>6. PetAfter(u, n) = IF B = {} THEN NoPet
                         ELSE IF C = {} THEN [pet |-> log[b].aggregate, level |-> 1, position |-> b]
                              ELSE [pet |-> log[b].aggregate, level |-> log[c].value, position |-> c]
    BY <2>1, <2>3 DEF PetAfter
  <2>7. PetAfter(u, n)' = IF B = {} THEN NoPet
                         ELSE IF C = {} THEN [pet |-> log'[b].aggregate, level |-> 1, position |-> b]
                              ELSE [pet |-> log'[b].aggregate, level |-> log'[c].value, position |-> c]
    BY <2>1, <2>3, <2>4 DEF PetAfter
  <2>8. /\ ScoreAfter(u, n) = IF G = {} THEN NoScore ELSE [best |-> log[g].value, position |-> g]
        /\ ScoreAfter(u, n)' = IF G = {} THEN NoScore ELSE [best |-> log'[g].value, position |-> g]
    BY <2>1, <2>3, <2>4 DEF ScoreAfter
  <2> QED
    BY <1>1, <2>5, <2>6, <2>7, <2>8
<1>6. ASSUME NEW p \in 1..n PROVE OutOfSequence(p)' <=> OutOfSequence(p)
  <2>1. PICK u : u = log[p].owner /\ u = log'[p].owner /\ u \in User
    <3>1. p \in DOMAIN log
      OBVIOUS
    <3> QED
      BY <1>1, <3>1, ValuesAreNumbers
  <2>2. p \in 0..n /\ p - 1 \in 0..n /\ log'[p] = log[p]
    BY <1>1
  <2>3. PICK B, C, K :
          /\ B = Births(u, p) /\ C = Climbs(u, p) /\ K = Climbs(u, p - 1)
          /\ B = Births(u, p)' /\ C = Climbs(u, p)' /\ K = Climbs(u, p - 1)'
    BY <1>2, <1>3, <2>1, <2>2
  <2>4. \A q \in K : log'[q] = log[q]
    <3>1. \A q \in K : q \in 1..(p - 1)
      BY <2>3 DEF Climbs
    <3>2. \A q \in 1..(p - 1) : q \in 1..n
      OBVIOUS
    <3> QED
      BY <1>1, <3>1, <3>2
  <2>5. OutOfSequence(p) <=>
          /\ Sound(log[p])
          /\ \/ log[p].type = PetCreated /\ Min(B) # p
             \/ log[p].type = LevelReached /\ (p \notin C \/ \E q \in K : log[q].value >= log[p].value)
    BY <2>1, <2>3 DEF OutOfSequence
  <2>6. OutOfSequence(p)' <=>
          /\ Sound(log'[p])
          /\ \/ log'[p].type = PetCreated /\ Min(B) # p
             \/ log'[p].type = LevelReached /\ (p \notin C \/ \E q \in K : log'[q].value >= log'[p].value)
    BY <2>1, <2>3 DEF OutOfSequence
  <2> QED
    BY <2>2, <2>4, <2>5, <2>6
<1>7. FailuresAfter(n)' = FailuresAfter(n)
  <2>1. \A p \in 1..n : log'[p] = log[p] /\ (OutOfSequence(p)' <=> OutOfSequence(p))
    BY <1>1, <1>6
  <2>2. {[position |-> p, reason |-> Defect(log'[p])] : p \in {q \in 1..n : ~Sound(log'[q])}}
        = {[position |-> p, reason |-> Defect(log[p])] : p \in {q \in 1..n : ~Sound(log[q])}}
    BY <1>1
  <2>3. {q \in 1..n : OutOfSequence(q)'} = {q \in 1..n : OutOfSequence(q)}
    BY <2>1
  <2>4. FailuresAfter(n)' =
          {[position |-> p, reason |-> Defect(log'[p])] : p \in {q \in 1..n : ~Sound(log'[q])}}
          \cup {[position |-> p, reason |-> "INVALID_SEQUENCE"] : p \in {q \in 1..n : OutOfSequence(q)'}}
    BY DEF FailuresAfter
  <2> HIDE DEF OutOfSequence, Sound, Defect
  <2> QED
    BY <2>2, <2>3, <2>4 DEF FailuresAfter
<1>8. /\ Tables[n] = [pets |-> [u \in User |-> PetAfter(u, n)],
                      scores |-> [u \in User |-> ScoreAfter(u, n)],
                      failures |-> FailuresAfter(n)]
      /\ Tables'[n] = [pets |-> [u \in User |-> PetAfter(u, n)'],
                       scores |-> [u \in User |-> ScoreAfter(u, n)'],
                       failures |-> FailuresAfter(n)']
  BY DEF Tables
<1>9. /\ [u \in User |-> PetAfter(u, n)'] = [u \in User |-> PetAfter(u, n)]
      /\ [u \in User |-> ScoreAfter(u, n)'] = [u \in User |-> ScoreAfter(u, n)]
  BY <1>5
<1> QED
  BY <1>7, <1>8, <1>9

\* A worker's copy holds what the events it has applied so far say.
WorkHolds(w) ==
  LET b == batch[w] IN
  /\ pc[w] = "apply" => Holds(b.work, Tables[b.base + b.next - 1])
  /\ pc[w] = "save" => Holds(b.work, Tables[b.base + Len(b.page)])
  /\ pc[w] = "commit" => Holds(b.work, Tables[b.work.checkpoint])

Folded == Holds(model, Tables[model.checkpoint]) /\ \A w \in Worker : WorkHolds(w)

\* What the tables must hold depends on the log alone.
LEMMA SameTables == log' = log => Tables' = Tables
BY DEF Tables, PetAfter, ScoreAfter, FailuresAfter, Births, Climbs, Games, FirstBest, Valid,
       OutOfSequence

\* Empty tables hold what no events say.
LEMMA NothingFolds == Holds(EmptyModel, Tables[0])
<1>1. \A u : Births(u, 0) = {} /\ Games(u, 0) = {}
  BY DEF Births, Games
<1>2. FailuresAfter(0) = {}
  BY DEF FailuresAfter
<1>3. IsFold(EmptyModel, 0)
  BY <1>1, <1>2 DEF IsFold, EmptyModel, PetAfter, ScoreAfter
<1> QED
  BY <1>3, EmptyType, HoldsIsFold

\* A new projection is empty.
LEMMA InitFolds == Init => Folded
<1> SUFFICES ASSUME Init PROVE Folded
  OBVIOUS
<1>1. model = EmptyModel /\ model.checkpoint = 0
  BY DEF Init, EmptyModel
<1>2. \A w \in Worker : pc[w] = "idle"
  BY DEF Init
<1> QED
  BY <1>1, <1>2, NothingFolds DEF Folded, WorkHolds

\* The event store appends while workers work on their copies.
LEMMA PublishFolds == ASSUME IInv, Folded, NEW e \in Published, Publish(e) PROVE Folded'
<1>1. /\ TypeOK /\ e \in Event /\ log \in Seq(Event) /\ log' = Append(log, e)
      /\ UNCHANGED <<model, lock, pc, batch, resets>>
  BY PublishedAssumption DEF IInv, TypeOK, Publish
<1>2. \A n \in 0..Len(log) : Tables'[n] = Tables[n]
  BY <1>1, TablesGrow
<1>3. model.checkpoint \in 0..Len(log)
  BY <1>1 DEF IInv, ModelOK, TypeOK, Model
<1>4. ASSUME NEW w \in Worker PROVE WorkHolds(w)'
  <2>1. PICK b : b = batch[w]
    OBVIOUS
  <2>2. /\ b.base \in Nat /\ b.next \in Nat \ {0} /\ b.page \in Seq(Event) /\ b.work \in Model
        /\ WorkOK(w) /\ WorkHolds(w)
    BY <1>1, <2>1 DEF TypeOK, IInv, Folded
  <2>3. pc[w] = "apply" => b.base + b.next - 1 \in 0..Len(log)
    <3>1. pc[w] = "apply" => b.base + Len(b.page) <= Len(log) /\ b.next <= Len(b.page)
      BY <1>1, <2>1, <2>2 DEF WorkOK, PageOK, TypeOK
    <3> QED
      BY <1>1, <2>2, <3>1
  <2>4. pc[w] = "save" => b.base + Len(b.page) \in 0..Len(log)
    BY <1>1, <2>1, <2>2 DEF WorkOK, PageOK
  <2>5. pc[w] = "commit" => b.work.checkpoint \in 0..Len(log)
    BY <1>1, <1>3, <2>1, <2>2 DEF WorkOK, Model
  <2> QED
    BY <1>1, <1>2, <2>1, <2>2, <2>3, <2>4, <2>5 DEF WorkHolds
<1> QED
  BY <1>1, <1>2, <1>3, <1>4 DEF Folded

\* A step of one worker that commits nothing.
LEMMA OwnFolds ==
  ASSUME Folded, NEW w \in Worker, UNCHANGED <<log, model>>, WorkHolds(w)',
         \A v \in Worker \ {w} : pc'[v] = pc[v] /\ batch'[v] = batch[v]
  PROVE  Folded'
BY SameTables DEF Folded, WorkHolds

\* A worker without a transaction holds nothing that the tables must agree with.
LEMMA OutsideFolds ==
  ASSUME IInv, Folded, NEW w \in Worker,
         Call(w) \/ LockProjection(w) \/ GetProjectionCheckpoint(w) \/ Rollback(w)
  PROVE  Folded'
<1>1. PICK phase \in Phase : Goto(w, phase) /\ phase \notin {"apply", "save", "commit"}
  BY DEF Call, LockProjection, GetProjectionCheckpoint, Rollback, Phase
<1>2. /\ pc'[w] \notin {"apply", "save", "commit"}
      /\ \A v \in Worker \ {w} : pc'[v] = pc[v]
  BY <1>1, GotoType DEF IInv
<1>3. UNCHANGED <<log, model>> /\ \A v \in Worker \ {w} : batch'[v] = batch[v]
  BY DEF Call, LockProjection, GetProjectionCheckpoint, Rollback, IInv, TypeOK
<1> QED
  BY <1>2, <1>3, OwnFolds DEF WorkHolds

\* ListForProjection reads the page after the checkpoint of the copy.
LEMMA ListFolds ==
  ASSUME IInv, Folded, NEW w \in Worker, ListEventsAfterPosition(w) PROVE Folded'
<1>1. TypeOK /\ pc[w] = "list" /\ UNCHANGED <<log, model>> /\ WorkOK(w)
  BY DEF IInv, ListEventsAfterPosition
<1>2. PICK page, phase :
        /\ batch' = [batch EXCEPT ![w].page = page] /\ Goto(w, phase)
        /\ phase = IF page = <<>> THEN "commit" ELSE "apply"
  BY DEF ListEventsAfterPosition
<1>3. /\ pc'[w] \in {"commit", "apply"} /\ \A v \in Worker \ {w} : pc'[v] = pc[v]
  BY <1>1, <1>2, GotoType DEF Phase
<1>4. /\ batch[w].work = model /\ batch[w].base = model.checkpoint /\ batch[w].next = 1
      /\ model.checkpoint \in Nat
  BY <1>1 DEF WorkOK, TypeOK, Model
<1>5. /\ batch'[w].work = model /\ batch'[w].base = model.checkpoint /\ batch'[w].next = 1
      /\ \A v \in Worker \ {w} : batch'[v] = batch[v]
  BY <1>1, <1>2, <1>4 DEF TypeOK
<1>6. model.checkpoint + 1 - 1 = model.checkpoint
  BY <1>4
<1>7. Holds(model, Tables'[model.checkpoint])
  BY <1>1, SameTables DEF Folded
<1> QED
  BY <1>1, <1>3, <1>5, <1>6, <1>7, OwnFolds DEF WorkHolds

\* applyEvent on a worker's copy takes it one event further.
LEMMA ApplyFolds == ASSUME IInv, Folded, NEW w \in Worker, ApplyNext(w) PROVE Folded'
<1>1. /\ TypeOK /\ pc[w] = "apply" /\ UNCHANGED <<log, model>> /\ WorkOK(w) /\ log \in Seq(Event)
      /\ WorkHolds(w)
  BY DEF IInv, TypeOK, ApplyNext, Folded
<1>2. PICK b, e, n : b = batch[w] /\ e = b.page[b.next] /\ n = b.base + b.next - 1
  OBVIOUS
<1>3. /\ b.base \in Nat /\ b.next \in 1..Len(b.page) /\ b.page \in Seq(Event) /\ b.work \in Model
      /\ PageOK(b, log) /\ Len(b.page) \in Nat
  BY <1>1, <1>2 DEF TypeOK, WorkOK
<1>4. /\ n \in Nat /\ n + 1 = b.base + b.next /\ n + 1 \in DOMAIN log /\ e = log[n + 1]
      /\ b.next = Len(b.page) => n + 1 = b.base + Len(b.page)
  <2>1. n \in Nat /\ n + 1 = b.base + b.next /\ b.next = Len(b.page) => n + 1 = b.base + Len(b.page)
    BY <1>2, <1>3
  <2>2. n \in Nat /\ n + 1 = b.base + b.next
    BY <1>2, <1>3
  <2>3. n + 1 \in DOMAIN log
    BY <1>1, <1>3, <2>2 DEF PageOK
  <2>4. e = log[n + 1]
    BY <1>2, <1>3, <2>2 DEF PageOK
  <2> QED
    BY <2>1, <2>2, <2>3, <2>4
<1>5. PICK A : A = ApplyEvent(b.work, e, n + 1)
  OBVIOUS
<1>6. A \in Model /\ Holds(A, Tables[n + 1])
  <2>1. IsFold(b.work, n)
    BY <1>1, <1>2, <1>3, <1>4, HoldsIsFold DEF WorkHolds
  <2>2. e \in Event
    BY <1>1, <1>4
  <2>3. A \in Model
    BY <1>3, <1>4, <1>5, <2>2, ApplyOK
  <2> QED
    BY <1>1, <1>3, <1>4, <1>5, <2>1, <2>3, FoldStep, HoldsIsFold
<1>7. CASE Fatal(b.work, e)
  <2>1. batch' = batch /\ pc'[w] = "error" /\ \A v \in Worker \ {w} : pc'[v] = pc[v]
    BY <1>1, <1>2, <1>7, GotoType DEF ApplyNext, Phase
  <2> QED
    BY <1>1, <2>1, OwnFolds DEF WorkHolds
<1>8. CASE ~ Fatal(b.work, e)
  <2>1. /\ batch' = [batch EXCEPT ![w].work = A, ![w].next = @ + 1]
        /\ Goto(w, IF b.next = Len(b.page) THEN "save" ELSE "apply")
    BY <1>2, <1>4, <1>5, <1>8 DEF ApplyNext, PositionOf
  <2>2. /\ batch'[w].work = A /\ batch'[w].next = b.next + 1
        /\ batch'[w].base = b.base /\ batch'[w].page = b.page
        /\ \A v \in Worker \ {w} : batch'[v] = batch[v]
    BY <1>1, <1>2, <2>1 DEF TypeOK
  <2>3. /\ pc'[w] \in {"save", "apply"} /\ \A v \in Worker \ {w} : pc'[v] = pc[v]
        /\ pc'[w] = "save" <=> b.next = Len(b.page)
    BY <1>1, <2>1, GotoType DEF Phase
  <2>4. b.base + (b.next + 1) - 1 = n + 1
    BY <1>3, <1>4
  <2>5. Holds(A, Tables'[n + 1])
    BY <1>1, <1>6, SameTables
  <2>6. WorkHolds(w)'
    BY <1>4, <2>2, <2>3, <2>4, <2>5 DEF WorkHolds
  <2> QED
    BY <1>1, <2>2, <2>3, <2>6, OwnFolds
<1> QED
  BY <1>7, <1>8

\* saveProjectionCheckpoint: the checkpoint is the position of the last event applied.
LEMMA SaveFolds ==
  ASSUME IInv, Folded, NEW w \in Worker, SaveProjectionCheckpoint(w) PROVE Folded'
<1>1. /\ TypeOK /\ pc[w] = "save" /\ UNCHANGED <<log, model>> /\ WorkOK(w) /\ WorkHolds(w)
  BY DEF IInv, SaveProjectionCheckpoint, Folded
<1>2. PICK b, n : b = batch[w] /\ n = b.base + Len(b.page)
  OBVIOUS
<1>3. /\ b.work \in Model /\ n \in Nat /\ b.work.checkpoint < n /\ Holds(b.work, Tables[n])
  <2>1. /\ b.work \in Model /\ b.base \in Nat /\ b.page \in Seq(Event) /\ Len(b.page) > 0
        /\ b.work.checkpoint = b.base
    BY <1>1, <1>2 DEF TypeOK, WorkOK
  <2>2. Len(b.page) \in Nat
    BY <2>1
  <2>3. n \in Nat /\ b.work.checkpoint < n
    BY <1>2, <2>1, <2>2
  <2> QED
    BY <1>1, <1>2, <2>1, <2>3 DEF WorkHolds
<1>4. PICK A : A = [b.work EXCEPT !.checkpoint = n]
  OBVIOUS
<1>5. A.checkpoint = n /\ Holds(A, Tables[n])
  BY <1>3, <1>4 DEF Holds, Model
<1>6. batch'[w].work = A /\ \A v \in Worker \ {w} : batch'[v] = batch[v]
  <2>1. batch' = [batch EXCEPT ![w].work.checkpoint = IF @ < n THEN n ELSE @]
    BY <1>2 DEF SaveProjectionCheckpoint
  <2>2. batch' = [batch EXCEPT ![w] = [b EXCEPT !.work = A]]
    BY <1>1, <1>2, <1>3, <1>4, <2>1 DEF TypeOK
  <2> QED
    BY <1>1, <1>2, <2>2 DEF TypeOK
<1>7. pc'[w] = "commit" /\ \A v \in Worker \ {w} : pc'[v] = pc[v]
  BY <1>1, GotoType DEF SaveProjectionCheckpoint, Phase
<1> QED
  BY <1>1, <1>5, <1>6, <1>7, SameTables, OwnFolds DEF WorkHolds

\* The copy becomes the read model.
LEMMA CommitFolds == ASSUME IInv, Folded, NEW w \in Worker, Commit(w) PROVE Folded'
<1>1. /\ TypeOK /\ pc[w] = "commit" /\ log' = log /\ model' = batch[w].work /\ WorkHolds(w)
  BY DEF IInv, Commit, Folded
<1>2. pc'[w] = "idle" /\ \A v \in Worker \ {w} : pc'[v] = pc[v]
  BY <1>1, GotoType DEF Commit, Phase
<1>3. \A v \in Worker \ {w} : batch'[v] = batch[v]
  BY <1>1 DEF Commit, TypeOK
<1> QED
  BY <1>1, <1>2, <1>3, SameTables DEF Folded, WorkHolds

\* A reset empties the tables and their checkpoint together.
LEMMA ResetFolds == ASSUME Folded, Reset PROVE Folded'
<1>1. model' = EmptyModel /\ model'.checkpoint = 0 /\ UNCHANGED <<log, pc, batch>>
  BY DEF Reset, EmptyModel
<1> QED
  BY <1>1, SameTables, NothingFolds DEF Folded, WorkHolds

\* Every step of the event store, the workers and the operator.
LEMMA StepFolds == IInv /\ Folded /\ [Next]_vars => Folded'
<1> SUFFICES ASSUME IInv, Folded, [Next]_vars PROVE Folded'
  OBVIOUS
<1>1. CASE UNCHANGED vars
  BY <1>1, SameTables DEF vars, Folded, WorkHolds
<1> QED
  BY <1>1, PublishFolds, OutsideFolds, ListFolds, ApplyFolds, SaveFolds, CommitFolds, ResetFolds
     DEF Next, Run

(***************************************************************************)
(* The leaderboard's tables are a function of the log: whatever pages,     *)
(* crashes, resets and concurrent calls of ProjectNextBatch led to the     *)
(* committed checkpoint, pets, scores and quarantined events are exactly   *)
(* what the events up to it say, none of them lost or counted twice.       *)
(***************************************************************************)
THEOREM ReadModelIsExact == Spec => []ReadModelIsFold
<1>1. IInv /\ Folded => ReadModelIsFold
  <2> SUFFICES ASSUME IInv, Folded PROVE ReadModelIsFold
    OBVIOUS
  <2>1. model \in Model /\ model.checkpoint \in Nat /\ model.checkpoint <= Len(log)
    BY DEF IInv, TypeOK, ModelOK, Model
  <2>2. IsFold(model, model.checkpoint)
    BY <2>1, HoldsIsFold DEF Folded
  <2> QED
    BY <2>1, <2>2 DEF IsFold, ReadModelIsFold
<1>2. Init => IInv /\ Folded
  BY InitInv, InitFolds
<1>3. IInv /\ Folded /\ [Next]_vars => IInv' /\ Folded'
  BY StepInv, StepFolds
<1> QED
  BY <1>1, <1>2, <1>3, PTL DEF Spec

\* More positions have a higher best, or the same one.
LEMMA FirstBestGrows ==
  ASSUME log \in Seq(Event), NEW n \in Nat, NEW S \in SUBSET DOMAIN log, NEW T \in SUBSET DOMAIN log,
         S # {}, S \subseteq T, \A q \in S : q <= n, \A q \in T : q <= n => q \in S
  PROVE  /\ log[FirstBest(S)].value <= log[FirstBest(T)].value
         /\ log[FirstBest(S)].value = log[FirstBest(T)].value => FirstBest(S) = FirstBest(T)
<1>1. PICK s, t : s = FirstBest(S) /\ t = FirstBest(T)
  OBVIOUS
<1>2. /\ s \in S /\ t \in T /\ s \in T
      /\ \A q \in S : q < s => log[q].value < log[s].value
      /\ \A q \in T : log[q].value <= log[t].value
  BY <1>1, FirstBestOK
<1>3. \A q \in T : q \in Nat /\ log[q].value \in Int
  BY ValuesAreNumbers
<1>4. log[s].value <= log[t].value
  BY <1>2
<1>5. ASSUME log[s].value = log[t].value PROVE FirstBest(T) = s
  <2>1. \A q \in T : log[q].value <= log[s].value
    BY <1>2, <1>5
  <2>2. ASSUME NEW q \in T, q < s PROVE log[q].value < log[s].value
    <3>1. s <= n /\ s \in Nat /\ q \in Nat
      BY <1>2, <1>3
    <3>2. q \in S
      BY <2>2, <3>1
    <3> QED
      BY <1>2, <2>2, <3>2
  <2> QED
    BY <1>2, <2>1, <2>2, FirstBestIs
<1> QED
  BY <1>1, <1>4, <1>5

\* A row of a later read model is of the same record or of a better one.
Improves(before, after) ==
  /\ before.points <= after.points
  /\ before.points = after.points => before.position = after.position

\* A record up to more events is the same or a better one.
LEMMA ScoreImproves ==
  ASSUME log \in Seq(Event), NEW n \in Nat, NEW k \in Nat, n <= k, k <= Len(log),
         NEW u, ScoreAfter(u, n) # NoScore
  PROVE  /\ ScoreAfter(u, n).best \in Nat /\ ScoreAfter(u, n).position \in 1..n
         /\ log[ScoreAfter(u, n).position].owner = u
         /\ ScoreAfter(u, n).best <= ScoreAfter(u, k).best
         /\ ScoreAfter(u, n).best = ScoreAfter(u, k).best
              => ScoreAfter(u, n).position = ScoreAfter(u, k).position
<1>1. PICK S, T : S = Games(u, n) /\ T = Games(u, k)
  OBVIOUS
<1>2. S # {}
  BY <1>1 DEF ScoreAfter
<1>3. \A q \in 1..k : q \in DOMAIN log /\ (q <= n <=> q \in 1..n)
  OBVIOUS
<1>4. /\ S \in SUBSET DOMAIN log /\ T \in SUBSET DOMAIN log /\ S \subseteq T
      /\ \A q \in S : q <= n /\ q \in 1..n /\ log[q].owner = u
      /\ \A q \in T : q <= n => q \in S
  <2>1. \A q \in 1..n : q \in 1..k /\ q <= n
    OBVIOUS
  <2> QED
    BY <1>1, <1>3, <2>1 DEF Games, Valid
<1>5. PICK s, t : s = FirstBest(S) /\ t = FirstBest(T)
  OBVIOUS
<1>6. log[s].value <= log[t].value /\ (log[s].value = log[t].value => s = t) /\ s \in S
  BY <1>2, <1>4, <1>5, FirstBestGrows, FirstBestOK
<1>7. log[s].value \in Nat
  <2>1. log[s].value \in Int
    BY <1>4, <1>6, ValuesAreNumbers
  <2>2. log[s].type = GameSessionCompleted /\ Sound(log[s])
    BY <1>1, <1>6 DEF Games, Valid
  <2> QED
    BY <2>1, <2>2, TypesDiffer DEF Sound
<1>8. /\ ScoreAfter(u, n) = [best |-> log[s].value, position |-> s]
      /\ ScoreAfter(u, k) = [best |-> log[t].value, position |-> t]
  BY <1>1, <1>2, <1>4, <1>5 DEF ScoreAfter
<1> QED
  BY <1>4, <1>6, <1>7, <1>8

\* A pet after more events is where it was or on a higher level.
LEMMA PetImproves ==
  ASSUME log \in Seq(Event), NEW n \in Nat, NEW k \in Nat, n <= k, k <= Len(log),
         NEW u, PetAfter(u, n) # NoPet
  PROVE  /\ PetAfter(u, n).level \in Nat /\ PetAfter(u, n).position \in 1..n
         /\ log[PetAfter(u, n).position].owner = u
         /\ PetAfter(u, n).level <= PetAfter(u, k).level
         /\ PetAfter(u, n).level = PetAfter(u, k).level
              => PetAfter(u, n).position = PetAfter(u, k).position
<1>1. PICK B, D, S, T :
        /\ B = Births(u, n) /\ D = Births(u, k) /\ S = Climbs(u, n) /\ T = Climbs(u, k)
  OBVIOUS
<1>2. B # {}
  BY <1>1 DEF PetAfter
<1>3. \A q \in 1..k : q \in DOMAIN log /\ q \in Nat /\ (q <= n <=> q \in 1..n)
  OBVIOUS
<1>4. \A q \in 1..n : q \in 1..k /\ q <= n
  OBVIOUS
<1>5. /\ S \in SUBSET DOMAIN log /\ T \in SUBSET DOMAIN log /\ S \subseteq T
      /\ \A q \in S : q <= n
      /\ \A q \in T : q <= n => q \in S
      /\ \A q \in T : log[q].owner = u /\ log[q].value > 1
      /\ B \in SUBSET Nat /\ D \in SUBSET Nat /\ B \subseteq D /\ B \in SUBSET 1..n
      /\ \A q \in D : q <= n => q \in B
      /\ \A q \in D : log[q].owner = u /\ q \in 1..k
  BY <1>1, <1>3, <1>4 DEF Climbs, Births, Valid
<1>6. Min(B) \in B /\ Min(D) = Min(B)
  <2>1. Min(B) \in B /\ \A q \in B : Min(B) <= q
    BY <1>2, <1>5, MinOK
  <2>2. \A q \in D : Min(B) <= q
    <3>1. ASSUME NEW q \in D, q \notin B PROVE Min(B) <= q
      <4>1. ~ (q <= n) /\ Min(B) <= n /\ q \in Nat /\ Min(B) \in Nat
        BY <1>4, <1>5, <2>1, <3>1
      <4> QED
        BY <4>1
    <3> QED
      BY <2>1, <3>1
  <2> QED
    BY <1>5, <2>1, <2>2, MinIs
<1>7. PICK b, s, t : b = Min(B) /\ s = FirstBest(S) /\ t = FirstBest(T)
  OBVIOUS
<1>8. /\ PetAfter(u, n) = IF S = {} THEN [pet |-> log[b].aggregate, level |-> 1, position |-> b]
                          ELSE [pet |-> log[b].aggregate, level |-> log[s].value, position |-> s]
      /\ PetAfter(u, k) = IF T = {} THEN [pet |-> log[b].aggregate, level |-> 1, position |-> b]
                          ELSE [pet |-> log[b].aggregate, level |-> log[t].value, position |-> t]
  <2>1. D # {}
    BY <1>2, <1>5
  <2> QED
    BY <1>1, <1>2, <1>6, <1>7, <2>1 DEF PetAfter
<1>9. b \in 1..n /\ log[b].owner = u
  BY <1>5, <1>6, <1>7
<1>10. T # {} => t \in T /\ log[t].value > 1 /\ log[t].value \in Nat
  BY <1>5, <1>7, FirstBestOK, ValuesAreNumbers
<1>11. CASE S = {}
  <2>1. PetAfter(u, n) = [pet |-> log[b].aggregate, level |-> 1, position |-> b]
    BY <1>8, <1>11
  <2>2. \/ PetAfter(u, k) = PetAfter(u, n)
        \/ PetAfter(u, k).level \in Nat /\ PetAfter(u, k).level > 1
    BY <1>8, <1>10, <2>1
  <2> QED
    BY <1>9, <2>1, <2>2
<1>12. CASE S # {}
  <2>1. /\ log[s].value <= log[t].value /\ (log[s].value = log[t].value => s = t)
        /\ s \in S /\ T # {}
    BY <1>5, <1>7, <1>12, FirstBestGrows, FirstBestOK
  <2>2. log[s].value \in Nat /\ s \in 1..n /\ log[s].owner = u
    <3>1. s \in DOMAIN log /\ s \in T
      BY <1>5, <2>1
    <3>2. s \in 1..n
      BY <1>1, <2>1, SetsUpTo
    <3> QED
      BY <1>5, <3>1, <3>2, ValuesAreNumbers
  <2> QED
    BY <1>8, <1>12, <2>1, <2>2
<1> QED
  BY <1>11, <1>12

\* Where everyone's row improves, who gained nothing stays behind whoever was ahead.
LEMMA ImprovedIsFair ==
  ASSUME NEW before, NEW after,
         \A x \in DOMAIN before :
           /\ x \in DOMAIN after
           /\ before[x].points \in Nat /\ after[x].points \in Nat
           /\ before[x].position \in Nat /\ after[x].position \in Nat
           /\ Improves(before[x], after[x])
  PROVE  Fair(before, after)
<1>1. ASSUME NEW u \in DOMAIN before, NEW v \in DOMAIN before, Ahead(before, v, u)
      PROVE  Ahead(after, v, u) \/ after[u].points > before[u].points
  BY <1>1 DEF Improves, Ahead
<1> QED
  BY <1>1 DEF Fair

\* What k >= n events say is fair to those whom n events rank.
LEMMA StandingsFair ==
  ASSUME log \in Seq(Event), NEW m \in Model, NEW l \in Model, NEW n \in Nat, NEW k \in Nat,
         n <= k, k <= Len(log), IsFold(m, n), IsFold(l, k)
  PROVE  Fair(PetStanding(m), PetStanding(l)) /\ Fair(ScoreStanding(m), ScoreStanding(l))
<1>1. Fair(PetStanding(m), PetStanding(l))
  <2>1. PICK st, lt : st = PetStanding(m) /\ lt = PetStanding(l)
    OBVIOUS
  <2>2. ASSUME NEW x \in DOMAIN st
        PROVE  /\ x \in DOMAIN lt
               /\ st[x].points \in Nat /\ lt[x].points \in Nat
               /\ st[x].position \in Nat /\ lt[x].position \in Nat /\ Improves(st[x], lt[x])
    <3>1. /\ x \in User /\ m.pets[x] = PetAfter(x, n) /\ l.pets[x] = PetAfter(x, k)
          /\ m.pets[x] # NoPet
          /\ st[x] = [points |-> m.pets[x].level, position |-> m.pets[x].position]
      BY <2>1 DEF IsFold, PetStanding
    <3>2. /\ PetAfter(x, n).level \in Nat /\ PetAfter(x, n).position \in 1..n
          /\ PetAfter(x, n).level <= PetAfter(x, k).level
          /\ PetAfter(x, n).level = PetAfter(x, k).level
               => PetAfter(x, n).position = PetAfter(x, k).position
      <4>1. PetAfter(x, n) # NoPet
        BY <3>1
      <4> QED
        BY <4>1, PetImproves
    <3>3. PetAfter(x, k) # NoPet
      <4>1. NoPet.level = 0 /\ NoPet.position = 0
        BY DEF NoPet
      <4> QED
        BY <3>2, <4>1
    <3>4. PetAfter(x, k).level \in Nat /\ PetAfter(x, k).position \in 1..k
      <4>1. k <= k
        OBVIOUS
      <4> QED
        BY <3>3, <4>1, PetImproves
    <3>5. /\ x \in DOMAIN lt
          /\ lt[x] = [points |-> l.pets[x].level, position |-> l.pets[x].position]
      BY <2>1, <3>1, <3>3 DEF PetStanding
    <3> QED
      BY <3>1, <3>2, <3>4, <3>5 DEF Improves
  <2> QED
    BY <2>1, <2>2, ImprovedIsFair
<1>2. Fair(ScoreStanding(m), ScoreStanding(l))
  <2>1. PICK st, lt : st = ScoreStanding(m) /\ lt = ScoreStanding(l)
    OBVIOUS
  <2>2. ASSUME NEW x \in DOMAIN st
        PROVE  /\ x \in DOMAIN lt
               /\ st[x].points \in Nat /\ lt[x].points \in Nat
               /\ st[x].position \in Nat /\ lt[x].position \in Nat /\ Improves(st[x], lt[x])
    <3>1. /\ x \in User /\ m.scores[x] = ScoreAfter(x, n) /\ l.scores[x] = ScoreAfter(x, k)
          /\ m.scores[x] # NoScore
          /\ st[x] = [points |-> m.scores[x].best, position |-> m.scores[x].position]
      BY <2>1 DEF IsFold, ScoreStanding
    <3>2. /\ ScoreAfter(x, n).best \in Nat /\ ScoreAfter(x, n).position \in 1..n
          /\ ScoreAfter(x, n).best <= ScoreAfter(x, k).best
          /\ ScoreAfter(x, n).best = ScoreAfter(x, k).best
               => ScoreAfter(x, n).position = ScoreAfter(x, k).position
      <4>1. ScoreAfter(x, n) # NoScore
        BY <3>1
      <4> QED
        BY <4>1, ScoreImproves
    <3>3. ScoreAfter(x, k) # NoScore
      <4>1. NoScore.best = 0 /\ NoScore.position = 0
        BY DEF NoScore
      <4> QED
        BY <3>2, <4>1
    <3>4. ScoreAfter(x, k).best \in Nat /\ ScoreAfter(x, k).position \in 1..k
      <4>1. k <= k
        OBVIOUS
      <4> QED
        BY <3>3, <4>1, ScoreImproves
    <3>5. /\ x \in DOMAIN lt
          /\ lt[x] = [points |-> l.scores[x].best, position |-> l.scores[x].position]
      BY <2>1, <3>1, <3>3 DEF ScoreStanding
    <3> QED
      BY <3>1, <3>2, <3>4, <3>5 DEF Improves
  <2> QED
    BY <2>1, <2>2, ImprovedIsFair
<1> QED
  BY <1>1, <1>2

\* A read model that holds what the events up to its checkpoint say.
Backed(m) == m \in Model /\ m.checkpoint <= Len(log) /\ Holds(m, Tables[m.checkpoint])

\* Events only join the log, so what was backed by it stays so.
LEMMA StaysBacked == ASSUME IInv, [Next]_vars, NEW m, Backed(m) PROVE Backed(m)'
<1>1. m \in Model /\ m.checkpoint \in Nat /\ m.checkpoint <= Len(log) /\ log \in Seq(Event)
  BY DEF Backed, Model, IInv, TypeOK
<1>2. CASE log' = log
  BY <1>2, SameTables DEF Backed
<1>3. CASE \E e \in Published : Publish(e)
  <2>1. PICK e \in Event : log' = Append(log, e)
    BY <1>3, PublishedAssumption DEF Publish
  <2>2. Tables'[m.checkpoint] = Tables[m.checkpoint]
    BY <1>1, <2>1, TablesGrow
  <2>3. Len(log') = Len(log) + 1
    BY <1>1, <2>1
  <2>4. m.checkpoint <= Len(log')
    BY <1>1, <2>3
  <2> QED
    BY <1>1, <2>2, <2>4 DEF Backed
<1> QED
  BY <1>2, <1>3 DEF Next, Run, vars, Call, LockProjection, GetProjectionCheckpoint,
     ListEventsAfterPosition, ApplyNext, SaveProjectionCheckpoint, Commit, Rollback, Reset

\* Whatever a step commits, the log before the step backs it.
LEMMA NextBacked == ASSUME IInv, Folded, [Next]_vars PROVE Backed(model) /\ Backed(model')
<1>1. Backed(model)
  BY DEF Backed, Folded, IInv, TypeOK, ModelOK
<1>2. CASE model' = model
  BY <1>1, <1>2
<1>3. CASE Reset
  <2>1. model' = EmptyModel /\ EmptyModel.checkpoint = 0 /\ log \in Seq(Event)
    BY <1>3 DEF Reset, EmptyModel, IInv, TypeOK
  <2>2. 0 <= Len(log)
    BY <2>1
  <2> QED
    BY <1>1, <2>1, <2>2, EmptyType, NothingFolds DEF Backed
<1>4. ASSUME NEW w \in Worker, Commit(w) PROVE Backed(model')
  <2>1. /\ model' = batch[w].work /\ pc[w] = "commit" /\ WorkOK(w) /\ WorkHolds(w)
        /\ batch[w].work \in Model
    BY <1>4 DEF Commit, IInv, TypeOK, Folded
  <2>2. batch[w].work.checkpoint <= Len(log)
    BY <1>1, <2>1 DEF WorkOK, Backed
  <2> QED
    BY <2>1, <2>2 DEF Backed, WorkHolds
<1> QED
  BY <1>1, <1>2, <1>3, <1>4 DEF Next, Run, vars, Publish, Call, LockProjection,
     GetProjectionCheckpoint, ListEventsAfterPosition, ApplyNext, SaveProjectionCheckpoint, Rollback

\* Of two read models the log backs, the later one is fair to whom the other ranks.
LEMMA BackedFair ==
  ASSUME log \in Seq(Event), NEW m, NEW l, Backed(m), Backed(l), m.checkpoint <= l.checkpoint
  PROVE  Fair(PetStanding(m), PetStanding(l)) /\ Fair(ScoreStanding(m), ScoreStanding(l))
<1>1. /\ m \in Model /\ m.checkpoint \in Nat /\ l \in Model /\ l.checkpoint \in Nat
      /\ l.checkpoint <= Len(log)
  BY DEF Backed, Model
<1>2. IsFold(m, m.checkpoint) /\ IsFold(l, l.checkpoint)
  BY <1>1, HoldsIsFold DEF Backed
<1> QED
  BY <1>1, <1>2, StandingsFair

(***************************************************************************)
(* ORDER BY points DESC, position ASC is fair over time: two users of a    *)
(* view change places only if the one who moves up has more points than    *)
(* before, however many events the commit that changed them took together, *)
(* and also between the views before a reset and those of its rebuild,     *)
(* because the log backs both.                                             *)
(***************************************************************************)
THEOREM PlacesAreEarned == RankingSpec => NobodyOvertakesIdly
<1> DEFINE A == \A before \in {model, reached} :
                  before.checkpoint <= model'.checkpoint =>
                    /\ Fair(PetStanding(before), PetStanding(model'))
                    /\ Fair(ScoreStanding(before), ScoreStanding(model'))
<1>1. IInv /\ Folded /\ Backed(reached) /\ [Next /\ Remember]_RankingVars => [A]_<<model, reached>>
  <2> SUFFICES ASSUME IInv, Folded, Backed(reached), [Next /\ Remember]_RankingVars PROVE A
    OBVIOUS
  <2>1. Backed(model) /\ Backed(model') /\ log \in Seq(Event)
    BY NextBacked DEF RankingVars, IInv, TypeOK
  <2> QED
    BY <2>1, BackedFair
<1>2. Init /\ reached = EmptyModel => IInv /\ Folded /\ Backed(reached)
  <2>1. Init /\ reached = EmptyModel => reached = model
    BY DEF Init
  <2> QED
    BY <2>1, InitInv, InitFolds DEF Backed, Folded, IInv, TypeOK, ModelOK
<1>3. IInv /\ Folded /\ Backed(reached) /\ [Next /\ Remember]_RankingVars
        => IInv' /\ Folded' /\ Backed(reached)'
  <2> SUFFICES ASSUME IInv, Folded, Backed(reached), [Next /\ Remember]_RankingVars
               PROVE  IInv' /\ Folded' /\ Backed(reached)'
    OBVIOUS
  <2>1. [Next]_vars /\ (reached' = model' \/ reached' = reached)
    BY DEF RankingVars, Remember
  <2>2. IInv' /\ Folded'
    BY <2>1, StepInv, StepFolds
  <2>3. Backed(model)'
    BY <2>2 DEF Backed, Folded, IInv, TypeOK, ModelOK
  <2>4. CASE reached' = reached
    <3>1. PICK m : m = reached
      OBVIOUS
    <3>2. Backed(m)'
      BY <2>1, <3>1, StaysBacked
    <3> QED
      BY <2>2, <2>4, <3>1, <3>2 DEF Backed
  <2>5. CASE reached' = model'
    BY <2>2, <2>3, <2>5 DEF Backed
  <2> QED
    BY <2>1, <2>2, <2>4, <2>5
<1>4. NobodyOvertakesIdly <=> [][A]_<<model, reached>>
  BY DEF NobodyOvertakesIdly
<1> HIDE DEF A
<1> QED
  BY <1>1, <1>2, <1>3, <1>4, PTL DEF RankingSpec

\* No two of A are reached at one position, so one of any two is ahead.
Orders(st, A) ==
  /\ \A u \in A : st[u].points \in Nat /\ st[u].position \in Nat
  /\ \A u, v \in A : st[u].position = st[v].position => u = v

\* Of two users in a view exactly one is ahead, and being ahead is transitive.
LEMMA AheadOrders ==
  ASSUME NEW st, NEW A, Orders(st, A), NEW u \in A, NEW v \in A
  PROVE  /\ ~ Ahead(st, u, u)
         /\ u # v => Ahead(st, u, v) \/ Ahead(st, v, u)
         /\ \A x \in A : Ahead(st, x, u) /\ Ahead(st, u, v) => Ahead(st, x, v)
<1>1. \A x \in A : st[x].points \in Nat /\ st[x].position \in Nat
  BY DEF Orders
<1>2. u # v => st[u].position # st[v].position
  BY DEF Orders
<1> QED
  BY <1>1, <1>2 DEF Ahead

\* The windows of GetUserLeaderboardPositions number users as those of the lists do.
LEMMA SameOrder ==
  ASSUME NEW st, NEW active, NEW u
  PROVE  1 + Cardinality({v \in active \cap DOMAIN st : OwnAhead(st, v, u)}) = Rank(st, active, u)
<1>1. {v \in active \cap DOMAIN st : OwnAhead(st, v, u)}
        = {v \in active \cap DOMAIN st : Ahead(st, v, u)}
  BY DEF OwnAhead, Ahead
<1> QED
  BY <1>1 DEF Rank

\* In a view without ties the ranks are the numbers 1 to the number of users in it.
LEMMA RanksAre ==
  ASSUME NEW st, NEW active, NEW A \in SUBSET User, A = active \cap DOMAIN st, Orders(st, A)
  PROVE  /\ IsFiniteSet(A) /\ Cardinality(A) \in 0..Cardinality(User)
         /\ \A u \in A : Rank(st, active, u) \in 1..Cardinality(A)
         /\ \A u, v \in A : Rank(st, active, u) = Rank(st, active, v) => u = v
         /\ \A r \in 1..Cardinality(A) : \E u \in A : Rank(st, active, u) = r
<1>1. /\ IsFiniteSet(A) /\ Cardinality(A) \in Nat /\ Cardinality(A) <= Cardinality(User)
      /\ Cardinality(User) \in Nat
  BY UsersAssumption, FS_Subset, FS_CardinalityType
<1>2. PICK P : P = [u \in A |-> {v \in A : Ahead(st, v, u)}]
  OBVIOUS
<1>3. \A u \in A : Rank(st, active, u) = 1 + Cardinality(P[u])
  BY <1>2 DEF Rank
<1>4. ASSUME NEW u \in A PROVE Cardinality(P[u]) \in 0..(Cardinality(A) - 1)
  <2>1. P[u] \in SUBSET (A \ {u})
    BY <1>2, AheadOrders
  <2>2. IsFiniteSet(A \ {u}) /\ Cardinality(A \ {u}) = Cardinality(A) - 1
    BY <1>1, FS_RemoveElement
  <2>3. IsFiniteSet(P[u]) /\ Cardinality(P[u]) <= Cardinality(A) - 1
    BY <2>1, <2>2, FS_Subset
  <2>4. Cardinality(P[u]) \in Nat
    BY <2>3, FS_CardinalityType
  <2> QED
    BY <1>1, <2>3, <2>4
<1>5. ASSUME NEW u \in A, NEW v \in A, Ahead(st, u, v) PROVE Cardinality(P[u]) < Cardinality(P[v])
  <2>1. P[u] \in SUBSET P[v] /\ u \in P[v] /\ u \notin P[u]
    BY <1>2, <1>5, AheadOrders
  <2>2. IsFiniteSet(P[v])
    <3>1. P[v] \in SUBSET A
      BY <1>2
    <3> QED
      BY <1>1, <3>1, FS_Subset
  <2>3. Cardinality(P[u]) <= Cardinality(P[v]) /\ Cardinality(P[u]) # Cardinality(P[v])
    BY <2>1, <2>2, FS_Subset
  <2>4. Cardinality(P[u]) \in Nat /\ Cardinality(P[v]) \in Nat
    BY <1>4
  <2> QED
    BY <2>3, <2>4
<1>6. PICK N : N = Cardinality(A)
  OBVIOUS
<1>7. \A u \in A : Rank(st, active, u) \in 1..N
  <2>1. \A x \in 0..(N - 1) : 1 + x \in 1..N
    BY <1>1, <1>6
  <2> QED
    BY <1>3, <1>4, <1>6, <2>1
<1>8. ASSUME NEW u \in A, NEW v \in A, Rank(st, active, u) = Rank(st, active, v) PROVE u = v
  <2>1. Cardinality(P[u]) = Cardinality(P[v]) /\ Cardinality(P[u]) \in Nat
    <3>1. Cardinality(P[u]) \in Nat /\ Cardinality(P[v]) \in Nat
      BY <1>4
    <3> QED
      BY <1>3, <1>8, <3>1
  <2> QED
    BY <1>5, <2>1, AheadOrders
<1>9. PICK f : f = [u \in A |-> Rank(st, active, u)]
  OBVIOUS
<1>10. f \in Injection(A, 1..N)
  BY <1>7, <1>8, <1>9 DEF Injection, IsInjective
<1>11. IsFiniteSet(1..N) /\ Cardinality(1..N) = N
  <2>1. 1 \in Int /\ N \in Int /\ (IF 1 > N THEN 0 ELSE N - 1 + 1) = N
    BY <1>1, <1>6
  <2> QED
    BY <2>1, FS_Interval
<1>12. f \in Surjection(A, 1..N)
  BY <1>6, <1>10, <1>11, FS_Injection
<1>13. \A r \in 1..N : \E u \in A : Rank(st, active, u) = r
  BY <1>9, <1>12 DEF Surjection
<1> QED
  BY <1>1, <1>6, <1>7, <1>8, <1>13

-----------------------------------------------------------------------------
(* Pages. *)

\* The page that shows a rank, and no other does.
LEMMA PageOfRank ==
  ASSUME NEW size \in Nat \ {0}, NEW N \in Nat, NEW r \in 1..N
  PROVE  \E k \in 0..(N - 1) : r \in (size * k + 1)..(size * k + size)
<1>1. PICK K : K = {k \in Nat : r <= size * k + size}
  OBVIOUS
<1>2. r - 1 \in K
  <2>1. r - 1 \in Nat /\ size * (r - 1) >= r - 1
    OBVIOUS
  <2>2. size * (r - 1) \in Nat
    BY <2>1
  <2>3. r <= size * (r - 1) + size
    BY <2>1, <2>2
  <2> QED
    BY <1>1, <2>1, <2>3
<1>3. PICK k \in K : \A j \in K : k <= j
  <2>1. K \in SUBSET Nat /\ K # {}
    BY <1>1, <1>2
  <2> QED
    BY <2>1, SmallestExists
<1>4. k \in 0..(N - 1) /\ r <= size * k + size
  <2>1. k \in Nat /\ r <= size * k + size
    BY <1>1
  <2>2. k <= r - 1
    BY <1>2, <1>3
  <2> QED
    BY <2>1, <2>2
<1>5. size * k + 1 <= r
  <2>1. CASE k = 0
    <3>1. size * k = 0
      BY <2>1
    <3> QED
      BY <3>1
  <2>2. CASE k # 0
    <3>1. k - 1 \in Nat /\ k - 1 \notin K
      BY <1>3, <1>4, <2>2
    <3>2. ~ (r <= size * (k - 1) + size)
      BY <1>1, <3>1
    <3>3. size * (k - 1) + size = size * k /\ size * k \in Nat
      BY <1>4
    <3> QED
      BY <3>2, <3>3
  <2> QED
    BY <2>1, <2>2
<1>6. size * k \in Nat
  BY <1>4
<1> QED
  BY <1>4, <1>5, <1>6

\* Different pages of one view show different ranks.
LEMMA PagesApart ==
  ASSUME NEW size \in Nat \ {0}, NEW k \in Nat, NEW j \in Nat, k < j
  PROVE  ((size * k + 1)..(size * k + size)) \cap ((size * j + 1)..(size * j + size)) = {}
<1>1. PICK d \in Nat : j = k + 1 + d
  <2>1. j - k - 1 \in Nat /\ j = k + 1 + (j - k - 1)
    OBVIOUS
  <2> QED
    BY <2>1
<1>2. size * j = size * k + size + size * d /\ size * d \in Nat /\ size * k \in Nat
  BY <1>1
<1> QED
  BY <1>2

\* The pages of one view and the users' own positions agree.
LEMMA ViewAgrees ==
  ASSUME NEW st, NEW active, NEW A \in SUBSET User, A = active \cap DOMAIN st, Orders(st, A),
         NEW size \in Nat \ {0}
  PROVE  Told([o \in Starts(size) |-> Entries(st, active, [limit |-> size, offset |-> o])],
                  [u \in User |-> UserPosition(st, active, u)])
<1>1. PICK N, C, rank :
        N = Cardinality(A) /\ C = Cardinality(User) /\ rank = [u \in A |-> Rank(st, active, u)]
  OBVIOUS
<1>2. /\ IsFiniteSet(A) /\ N \in Nat /\ C \in Nat /\ N <= C
      /\ \A u \in A : rank[u] \in 1..N
      /\ \A u, v \in A : rank[u] = rank[v] => u = v
      /\ \A r \in 1..N : \E u \in A : rank[u] = r
  <2>1. /\ IsFiniteSet(A) /\ N \in 0..C
        /\ \A u \in A : rank[u] \in 1..N
        /\ \A u, v \in A : rank[u] = rank[v] => u = v
        /\ \A r \in 1..N : \E u \in A : rank[u] = r
    <3>1. /\ IsFiniteSet(A) /\ Cardinality(A) \in 0..Cardinality(User)
          /\ \A u \in A : Rank(st, active, u) \in 1..Cardinality(A)
          /\ \A u, v \in A : Rank(st, active, u) = Rank(st, active, v) => u = v
          /\ \A r \in 1..Cardinality(A) : \E u \in A : Rank(st, active, u) = r
      BY RanksAre
    <3>2. \A u \in A : rank[u] = Rank(st, active, u)
      BY <1>1
    <3> QED
      BY <1>1, <3>1, <3>2
  <2>2. C \in Nat
    BY <1>1, UsersAssumption, FS_CardinalityType
  <2> QED
    BY <2>1, <2>2
<1>3. PICK pages, own :
        /\ pages = [o \in Starts(size) |-> Entries(st, active, [limit |-> size, offset |-> o])]
        /\ own = [u \in User |-> UserPosition(st, active, u)]
  OBVIOUS
<1>4. PICK all : all = {[user |-> u, rank |-> rank[u]] : u \in A}
  OBVIOUS
<1>5. DOMAIN pages = Starts(size)
      /\ \A o \in Starts(size) : pages[o] = {x \in all : x.rank \in (o + 1)..(o + size)}
  <2>1. all = {[user |-> u, rank |-> Rank(st, active, u)] : u \in active \cap DOMAIN st}
    BY <1>1, <1>4
  <2> QED
    BY <1>3, <2>1 DEF Entries
<1>6. \A o \in Starts(size) : \E k \in 0..(C - 1) : o = size * k
  BY <1>1 DEF Starts
<1>7. ASSUME NEW o \in Starts(size), NEW q \in Starts(size), o # q PROVE pages[o] \cap pages[q] = {}
  <2>1. PICK k \in 0..(C - 1), j \in 0..(C - 1) : o = size * k /\ q = size * j
    BY <1>6
  <2>2. k \in Nat /\ j \in Nat /\ (k < j \/ j < k)
    BY <1>7, <2>1
  <2>3. ((size * k + 1)..(size * k + size)) \cap ((size * j + 1)..(size * j + size)) = {}
    BY <2>2, PagesApart
  <2> QED
    BY <1>5, <2>1, <2>3
<1>8. PICK listed : listed = UNION {pages[o] : o \in Starts(size)}
  OBVIOUS
<1>9. listed = all
  <2>1. listed \subseteq all
    BY <1>5, <1>8
  <2>2. ASSUME NEW u \in A PROVE [user |-> u, rank |-> rank[u]] \in listed
    <3>1. PICK r \in 1..N : r = rank[u]
      BY <1>2
    <3>2. PICK k \in 0..(N - 1) : r \in (size * k + 1)..(size * k + size)
      BY <1>2, PageOfRank
    <3>3. k \in 0..(C - 1)
      BY <1>2
    <3>4. PICK o : o = size * k
      OBVIOUS
    <3>5. o \in Starts(size)
      BY <1>1, <3>3, <3>4 DEF Starts
    <3>6. [user |-> u, rank |-> rank[u]] \in pages[o]
      BY <1>4, <1>5, <3>1, <3>2, <3>4, <3>5
    <3> QED
      BY <1>8, <3>5, <3>6
  <2> QED
    BY <1>4, <2>1, <2>2
<1>10. IsFiniteSet(all) /\ Cardinality(all) = N
  <2>1. PICK g : g = [u \in A |-> [user |-> u, rank |-> rank[u]]]
    OBVIOUS
  <2>2. g \in Bijection(A, all)
    <3>1. \A u, v \in A : g[u] = g[v] => u = v
      <4>1. \A u \in A : g[u].user = u
        BY <2>1
      <4> QED
        BY <4>1
    <3>2. all = {g[u] : u \in A}
      BY <1>4, <2>1
    <3>3. g \in Injection(A, all)
      BY <2>1, <3>1, <3>2 DEF Injection, IsInjective
    <3>4. g \in Surjection(A, all)
      BY <2>1, <3>2 DEF Surjection
    <3> QED
      BY <3>3, <3>4 DEF Bijection
  <2> QED
    BY <1>1, <1>2, <2>2, FS_Bijection DEF ExistsBijection
<1>11. {x.rank : x \in all} = 1..N
  <2>1. \A x \in all : x.rank \in 1..N
    BY <1>2, <1>4
  <2>2. ASSUME NEW r \in 1..N PROVE \E x \in all : x.rank = r
    <3>1. PICK u \in A : rank[u] = r
      BY <1>2
    <3>2. PICK x : x = [user |-> u, rank |-> r]
      OBVIOUS
    <3> QED
      BY <1>4, <3>1, <3>2
  <2> QED
    BY <2>1, <2>2
<1>12. all = {x \in {[user |-> u, rank |-> own[u]] : u \in User} : x.rank # Nobody}
  <2>1. \A u \in User : own[u] = IF u \in A THEN rank[u] ELSE Nobody
    BY <1>1, <1>3, SameOrder DEF UserPosition
  <2>2. \A u \in A : rank[u] # Nobody
    <3>1. \A u \in A : rank[u] \in Nat
      BY <1>2
    <3> QED
      BY <3>1, UsersAssumption
  <2> QED
    BY <1>4, <2>1, <2>2
<1>13. /\ \A o, q \in DOMAIN pages : o # q => pages[o] \cap pages[q] = {}
       /\ UNION {pages[o] : o \in DOMAIN pages} = all
  BY <1>5, <1>7, <1>8, <1>9
<1>14. Told(pages, own)
  BY <1>10, <1>11, <1>12, <1>13 DEF Told
<1> QED
  BY <1>3, <1>14

\* The rows of a view are of different users' events.
LEMMA ViewsOrder ==
  ASSUME log \in Seq(Event), NEW m \in Model, NEW n \in Nat, n <= Len(log), IsFold(m, n)
  PROVE  /\ DOMAIN PetStanding(m) \subseteq User /\ DOMAIN ScoreStanding(m) \subseteq User
         /\ Orders(PetStanding(m), DOMAIN PetStanding(m))
         /\ Orders(ScoreStanding(m), DOMAIN ScoreStanding(m))
<1>1. n <= n /\ 1..n \subseteq Nat
  OBVIOUS
<1>2. PICK st, lt : st = PetStanding(m) /\ lt = ScoreStanding(m)
  OBVIOUS
<1>3. /\ DOMAIN st \subseteq User /\ DOMAIN lt \subseteq User
  BY <1>2 DEF PetStanding, ScoreStanding
<1>4. ASSUME NEW u \in DOMAIN st
      PROVE  st[u].points \in Nat /\ st[u].position \in Nat /\ log[st[u].position].owner = u
  <2>1. /\ m.pets[u] = PetAfter(u, n) /\ m.pets[u] # NoPet
        /\ st[u] = [points |-> m.pets[u].level, position |-> m.pets[u].position]
    BY <1>2, <1>3 DEF PetStanding, IsFold
  <2>2. PetAfter(u, n) # NoPet
    BY <2>1
  <2>3. /\ PetAfter(u, n).level \in Nat /\ PetAfter(u, n).position \in 1..n
        /\ log[PetAfter(u, n).position].owner = u
    BY <1>1, <2>2, PetImproves
  <2> QED
    BY <1>1, <2>1, <2>3
<1>5. ASSUME NEW u \in DOMAIN lt
      PROVE  lt[u].points \in Nat /\ lt[u].position \in Nat /\ log[lt[u].position].owner = u
  <2>1. /\ m.scores[u] = ScoreAfter(u, n) /\ m.scores[u] # NoScore
        /\ lt[u] = [points |-> m.scores[u].best, position |-> m.scores[u].position]
    BY <1>2, <1>3 DEF ScoreStanding, IsFold
  <2>2. ScoreAfter(u, n) # NoScore
    BY <2>1
  <2>3. /\ ScoreAfter(u, n).best \in Nat /\ ScoreAfter(u, n).position \in 1..n
        /\ log[ScoreAfter(u, n).position].owner = u
    BY <1>1, <2>2, ScoreImproves
  <2> QED
    BY <1>1, <2>1, <2>3
<1>6. Orders(st, DOMAIN st) /\ Orders(lt, DOMAIN lt)
  BY <1>4, <1>5 DEF Orders
<1> QED
  BY <1>2, <1>3, <1>6

(***************************************************************************)
(* No two rows of a view were reached at one position, so ROW_NUMBER()     *)
(* needs no further tie-break: pages of any size show every active user    *)
(* once under the ranks 1, 2, 3, ..., and GetUserLeaderboardPositions      *)
(* tells each user the same rank.                                          *)
(***************************************************************************)
THEOREM RanksAgreeAlways == Spec => []RanksAgree
<1>1. IInv /\ Folded => RanksAgree
  <2> SUFFICES ASSUME IInv, Folded PROVE RanksAgree
    OBVIOUS
  <2>1. PICK pets, scores : pets = PetStanding(model) /\ scores = ScoreStanding(model)
    OBVIOUS
  <2>2. /\ DOMAIN pets \subseteq User /\ DOMAIN scores \subseteq User
        /\ Orders(pets, DOMAIN pets) /\ Orders(scores, DOMAIN scores)
    <3>1. /\ log \in Seq(Event) /\ model \in Model /\ model.checkpoint \in Nat
          /\ model.checkpoint <= Len(log)
      BY DEF IInv, TypeOK, ModelOK, Model
    <3>2. IsFold(model, model.checkpoint)
      BY <3>1, HoldsIsFold DEF Folded
    <3> QED
      BY <2>1, <3>1, <3>2, ViewsOrder
  <2>3. ASSUME NEW active, NEW size \in Nat \ {0}
        PROVE  /\ Told([o \in Starts(size) |-> Entries(pets, active, [limit |-> size, offset |-> o])],
                           [u \in User |-> UserPosition(pets, active, u)])
               /\ Told([o \in Starts(size) |-> Entries(scores, active, [limit |-> size, offset |-> o])],
                           [u \in User |-> UserPosition(scores, active, u)])
    <3>1. PICK A, B : A = active \cap DOMAIN pets /\ B = active \cap DOMAIN scores
      OBVIOUS
    <3>2. A \in SUBSET User /\ B \in SUBSET User /\ Orders(pets, A) /\ Orders(scores, B)
      BY <2>2, <3>1 DEF Orders
    <3> QED
      BY <3>1, <3>2, ViewAgrees
  <2>4. ASSUME NEW page \in {NormalizePage(limit, 0) : limit \in 0..MaxPageSize}
        PROVE  page.limit \in 1..MaxPageSize
    BY PagesAssumption DEF NormalizePage
  <2>5. ASSUME NEW size \in 1..MaxPageSize, NEW o \in Starts(size)
        PROVE  NormalizePage(size, o) = [limit |-> size, offset |-> o]
    <3>1. o \in Nat
      <4>1. Cardinality(User) \in Nat
        BY UsersAssumption, FS_CardinalityType
      <4>2. \A k \in 0..(Cardinality(User) - 1) : size * k \in Nat
        BY <4>1, PagesAssumption
      <4> QED
        BY <4>2 DEF Starts
    <3> QED
      BY <3>1, PagesAssumption DEF NormalizePage
  <2>6. ASSUME NEW active, NEW size \in 1..MaxPageSize
        PROVE  /\ Told([o \in Starts(size) |-> ListPetLevels(model, active, size, o)],
                           [u \in User |-> GetUserPositions(model, active, u).pet])
               /\ Told([o \in Starts(size) |-> ListGameScores(model, active, size, o)],
                           [u \in User |-> GetUserPositions(model, active, u).score])
    <3>1. /\ [o \in Starts(size) |-> ListPetLevels(model, active, size, o)] =
               [o \in Starts(size) |-> Entries(pets, active, [limit |-> size, offset |-> o])]
          /\ [o \in Starts(size) |-> ListGameScores(model, active, size, o)] =
               [o \in Starts(size) |-> Entries(scores, active, [limit |-> size, offset |-> o])]
      BY <2>1, <2>5 DEF ListPetLevels, ListGameScores
    <3>2. /\ [u \in User |-> GetUserPositions(model, active, u).pet] =
               [u \in User |-> UserPosition(pets, active, u)]
          /\ [u \in User |-> GetUserPositions(model, active, u).score] =
               [u \in User |-> UserPosition(scores, active, u)]
      BY <2>1 DEF GetUserPositions
    <3>3. size \in Nat \ {0}
      BY PagesAssumption
    <3> QED
      BY <2>3, <3>1, <3>2, <3>3
  <2>7. ASSUME NEW active, NEW page \in {NormalizePage(limit, 0) : limit \in 0..MaxPageSize}
        PROVE  /\ Told([o \in Starts(page.limit) |-> ListPetLevels(model, active, page.limit, o)],
                           [u \in User |-> GetUserPositions(model, active, u).pet])
               /\ Told([o \in Starts(page.limit) |-> ListGameScores(model, active, page.limit, o)],
                           [u \in User |-> GetUserPositions(model, active, u).score])
    BY <2>4, <2>6
  <2> QED
    BY <2>7 DEF RanksAgree
<1>2. Init => IInv /\ Folded
  BY InitInv, InitFolds
<1>3. IInv /\ Folded /\ [Next]_vars => IInv' /\ Folded'
  BY StepInv, StepFolds
<1> QED
  BY <1>1, <1>2, <1>3, PTL DEF Spec
================================================================================
