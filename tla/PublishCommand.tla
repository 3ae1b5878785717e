--------------------------- MODULE PublishCommand ---------------------------
(***************************************************************************)
(* What Service.Publish decides before and around its writes               *)
(* (internal/event/service.go): prepare walks a command stream by stream   *)
(* and event by event, validates and numbers it, and commandMatches        *)
(* compares it with what is stored under its identifier.                   *)
(*                                                                         *)
(* The concurrency of the transaction is the subject of EventStore; here   *)
(* commands come one at a time and their inputs are unrestricted.          *)
(***************************************************************************)
EXTENDS Integers, Sequences, FiniteSets

CONSTANTS
  User,
  CommandId,
  Aggregate,         \* aggregate identifiers
  Input,             \* the commands callers may send
  Clock,             \* readings of the server's clock, in half microseconds
  MaxVersion,        \* math.MaxInt64, scaled down
  MaxCommandEvents,  \* maxCommandEvents, scaled down
  MaxStored,         \* bound: commands stored
  Nil,               \* uuid.Nil
  Absent             \* a nil pointer

ASSUME NumbersAssumption ==
  /\ MaxVersion \in Nat \ {0} /\ MaxCommandEvents \in Nat \ {0}
  /\ MaxCommandEvents < MaxVersion
  /\ MaxStored \in Nat
  /\ Clock \subseteq Nat \ {0}

ASSUME MarkersAssumption ==
  /\ Nil # Absent
  /\ {Nil, Absent} \cap (User \cup CommandId \cup Aggregate) = {}

AggregateType == {"PET", "REWARD", "GAME_SESSION"}

Texted   == {"PET_CREATED", "CARE_ACTION_COMPLETED"}
Granting == {"EXPERIENCE_GRANTED", "COINS_GRANTED"}
Reward   == {"REWARD_GRANTED", "REWARD_REDEEMED", "REWARD_EXPIRED"}

\* A pending event: its number is an amount, level or score; whole says that
\* its texts are not blank and its identifiers not empty; small that its JSON
\* is within maxPayloadSizeBytes.  The zero PendingEvent has the empty type.
Body == [type : Texted \cup Granting \cup Reward
                \cup {"LEVEL_REACHED", "GAME_SESSION_COMPLETED", ""},
         number : {-1, 0, 1}, whole : BOOLEAN, small : BOOLEAN]

StreamInput == [type : AggregateType \cup {"OTHER"}, aggregate : Aggregate \cup {Nil},
                expected : Int, events : Seq(Body)]

\* time 0 is the zero time.Time.
Command == [id : CommandId \cup {Nil}, owner : User \cup {Nil},
            actor : User \cup {Nil, Absent}, time : Nat \cup {Absent},
            streams : Seq(StreamInput)]

ASSUME InputAssumption == Input \subseteq Command

VARIABLES
  pc,        \* where Publish is
  command,   \* the command it was called with
  now,       \* the clock reading it took
  at, next,  \* the stream and the event it looks at
  seen,      \* seenStreams
  prepared,  \* preparedCommand.events
  stored,    \* the committed events
  verdict,   \* what the last call returned
  sent       \* history: the commands whose events are stored

vars == <<pc, command, now, at, next, seen, prepared, stored, verdict, sent>>

Version == 1..MaxVersion

Init ==
  /\ pc = "idle" /\ command = Absent /\ now = 0 /\ at = 0 /\ next = 0
  /\ seen = {} /\ prepared = <<>> /\ verdict = "none"
  /\ stored = {} /\ sent = {}

-----------------------------------------------------------------------------
(* The checks of prepare. *)

HeaderOK(c) ==
  /\ c.id # Nil /\ c.owner # Nil /\ c.actor # Nil
  /\ c.streams # <<>>
  /\ c.time # 0

AggregateOK(st) == st.aggregate # Nil /\ st.type \in AggregateType

Wrap(n) == IF n > MaxVersion THEN n - 2 * (MaxVersion + 1) ELSE n

VersionOverflows(st) == st.expected > MaxVersion - Len(st.events)

StreamOK(st) ==
  /\ AggregateOK(st)
  /\ st.expected >= 0
  /\ st.events # <<>>
  /\ ~VersionOverflows(st)

\* encodeAndValidatePayload.
PayloadOK(b) ==
  /\ b.type # "" /\ b.small
  /\ b.type # "LEVEL_REACHED" => b.whole
  /\ b.type \in Granting \cup {"LEVEL_REACHED"} => b.number > 0
  /\ b.type = "GAME_SESSION_COMPLETED" => b.number >= 0

Micros(t) == t \div 2

\* Mutant: nobody records who set the time.
SourceUnknown(c) == "server"

Source(c)   == IF c.time = Absent THEN "server" ELSE "caller"
Occurred(c) == Micros(IF c.time = Absent THEN now ELSE c.time)

-----------------------------------------------------------------------------
\* Mutant: one event more than the limit fits.
FullLate == Len(prepared) > MaxCommandEvents

Full == Len(prepared) >= MaxCommandEvents

Return(v) == pc' = "returned" /\ verdict' = v

Stay == UNCHANGED <<command, now, stored, sent>>

Call(c) ==
  /\ pc = "idle"
  /\ command' = c
  /\ now' \in Clock
  /\ at' = 1 /\ next' = 1 /\ seen' = {} /\ prepared' = <<>>
  /\ IF HeaderOK(c) THEN pc' = "stream" /\ verdict' = "none" ELSE Return("invalid")
  /\ UNCHANGED <<stored, sent>>

Stream == command.streams[at]

CheckStream ==
  /\ pc = "stream" /\ at <= Len(command.streams)
  /\ IF StreamOK(Stream) /\ <<Stream.type, Stream.aggregate>> \notin seen
     THEN /\ seen' = seen \cup {<<Stream.type, Stream.aggregate>>}
          /\ next' = 1
          /\ pc' = "event"
          /\ UNCHANGED verdict
     ELSE Return("invalid") /\ UNCHANGED <<seen, next>>
  /\ UNCHANGED <<at, prepared>> /\ Stay

PrepareEvent ==
  /\ pc = "event" /\ next <= Len(Stream.events)
  /\ IF Full \/ ~PayloadOK(Stream.events[next])
     THEN Return("invalid") /\ UNCHANGED <<next, prepared>>
     ELSE /\ prepared' = Append(prepared,
               [type |-> Stream.type, aggregate |-> Stream.aggregate,
                version |-> Wrap(Stream.expected + next),
                body |-> Stream.events[next], index |-> Len(prepared)])
          /\ next' = next + 1
          /\ UNCHANGED <<pc, verdict>>
  /\ UNCHANGED <<at, seen>> /\ Stay

NextStream ==
  /\ pc = "event" /\ next > Len(Stream.events)
  /\ at' = at + 1
  /\ pc' = IF at = Len(command.streams) THEN "lookup" ELSE "stream"
  /\ UNCHANGED <<next, seen, prepared, verdict>> /\ Stay

\* The rows under the command's identifier, which is scoped by its owner.
Existing == {r \in stored : r.owner = command.owner /\ r.id = command.id}

\* eventMatches; generated identifiers, positions and recording times are left out.
EventMatches(e, r) ==
  /\ r.event = e
  /\ r.actor = command.actor
  /\ r.source = Source(command)
  /\ command.time # Absent => r.occurred = Occurred(command)

CommandMatches ==
  /\ Cardinality(Existing) = Len(prepared)
  /\ \A i \in DOMAIN prepared : \E r \in Existing : EventMatches(prepared[i], r)

Rows ==
  {[id |-> command.id, owner |-> command.owner, actor |-> command.actor,
    occurred |-> Occurred(command), source |-> Source(command),
    event |-> prepared[i]] : i \in DOMAIN prepared}

\* The transaction: a replay, a conflict, or appends that the store may refuse.
Transact ==
  /\ pc = "lookup"
  /\ \/ /\ Existing # {}
        /\ Return(IF CommandMatches THEN "replayed" ELSE "conflict")
        /\ UNCHANGED <<stored, sent>>
     \/ /\ Existing = {} /\ Cardinality(sent) < MaxStored
        /\ Return("appended")
        /\ stored' = stored \cup Rows
        /\ sent' = sent \cup {command}
     \/ /\ Existing = {}
        /\ Return("refused")
        /\ UNCHANGED <<stored, sent>>
  /\ UNCHANGED <<command, now, at, next, seen, prepared>>

\* The caller has its answer; nothing of the call outlives it.
Done ==
  /\ pc = "returned"
  /\ pc' = "idle" /\ command' = Absent /\ now' = 0 /\ at' = 0 /\ next' = 0
  /\ seen' = {} /\ prepared' = <<>> /\ verdict' = "none"
  /\ UNCHANGED <<stored, sent>>

Next == (\E c \in Input : Call(c)) \/ CheckStream \/ PrepareEvent \/ NextStream \/ Transact \/ Done

Spec == Init /\ [][Next]_vars

-----------------------------------------------------------------------------
(* What a command means, without the walk. *)

\* The places of its events, in the order of the walk.
Places(c) == {p \in (DOMAIN c.streams) \X (1..MaxVersion) : p[2] <= Len(c.streams[p[1]].events)}

Rank(c, p) == Cardinality({q \in Places(c) : q[1] < p[1] \/ (q[1] = p[1] /\ q[2] <= p[2])})

DistinctStreams(c) ==
  \A i, j \in DOMAIN c.streams :
    c.streams[i].type = c.streams[j].type /\ c.streams[i].aggregate = c.streams[j].aggregate
      => i = j

Legal(c) ==
  /\ HeaderOK(c)
  /\ DistinctStreams(c)
  /\ \A i \in DOMAIN c.streams :
       /\ AggregateOK(c.streams[i])
       /\ c.streams[i].expected \in Nat
       /\ Len(c.streams[i].events) > 0
       /\ c.streams[i].expected + Len(c.streams[i].events) \in Version
  /\ \A p \in Places(c) : PayloadOK(c.streams[p[1]].events[p[2]])
  /\ Cardinality(Places(c)) <= MaxCommandEvents

SameMeaning(c, d) ==
  /\ c.streams = d.streams /\ c.actor = d.actor
  /\ c.time = Absent <=> d.time = Absent
  /\ c.time # Absent => Micros(c.time) = Micros(d.time)

(***************************************************************************)
(* The walk refuses exactly the illegal commands, wherever in the command  *)
(* the defect is, and numbers the others as their streams ask: versions    *)
(* follow the expected one without wrapping, indexes follow the order of   *)
(* the command over all its streams.                                       *)
(***************************************************************************)
PrepareIsExact ==
  /\ verdict = "invalid" => ~Legal(command)
  /\ pc = "lookup" =>
       /\ Legal(command)
       /\ Len(prepared) = Cardinality(Places(command))
       /\ \A p \in Places(command) :
            LET st == command.streams[p[1]]
                e  == prepared[Rank(command, p)]
            IN /\ e.type = st.type /\ e.aggregate = st.aggregate
               /\ e.version = st.expected + p[2] /\ e.body = st.events[p[2]]
               /\ e.index = Rank(command, p) - 1

(***************************************************************************)
(* The stored events are a faithful fingerprint of the command that wrote  *)
(* them: a second command with its identifier is answered as a replay if   *)
(* and only if it is the same command, the grouping into streams, the      *)
(* actor and an explicit time included.  A server-assigned time differs in *)
(* every attempt and does not count.                                       *)
(***************************************************************************)
ReplayIffSame ==
  verdict \in {"replayed", "conflict"} =>
    \E first \in sent :
      /\ first.owner = command.owner /\ first.id = command.id
      /\ verdict = "replayed" <=> SameMeaning(first, command)
=============================================================================
