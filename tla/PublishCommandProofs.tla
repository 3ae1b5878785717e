------------------------ MODULE PublishCommandProofs ------------------------
(***************************************************************************)
(* Theorems about PublishCommand, for any commands of any number of        *)
(* streams and events, any clock and any limits: prepare refuses exactly   *)
(* the illegal commands and numbers the others as they ask, and what is    *)
(* stored tells a replay from a conflict.                                  *)
(***************************************************************************)
EXTENDS PublishCommand, FiniteSetTheorems, SequenceTheorems, WellFoundedInduction, TLAPS

-----------------------------------------------------------------------------
(***************************************************************************)
(* The strengthening.  The walk has prepared the events of the places      *)
(* before the one it looks at, each at its rank, and every stream up to    *)
(* there has passed the checks; the rows under an identifier are those of  *)
(* one legal command, with the time it was recorded at.                    *)
(***************************************************************************)
Streams(c) == Len(c.streams)
Size(c, i) == Len(c.streams[i].events)

\* The places before the j-th event of stream i.
Before(c, i, j) == {p \in Places(c) : p[1] < i \/ (p[1] = i /\ p[2] < j)}

\* The event that the place of a command asks for.
Entry(c, p) ==
  [type |-> c.streams[p[1]].type, aggregate |-> c.streams[p[1]].aggregate,
   version |-> c.streams[p[1]].expected + p[2],
   body |-> c.streams[p[1]].events[p[2]], index |-> Rank(c, p) - 1]

\* The first n streams passed the checks.
StreamsOK(c, n) ==
  /\ \A i \in 1..n : StreamOK(c.streams[i])
  /\ \A i, j \in 1..n :
       c.streams[i].type = c.streams[j].type /\ c.streams[i].aggregate = c.streams[j].aggregate
         => i = j

Keys(c, n) == {<<c.streams[i].type, c.streams[i].aggregate>> : i \in 1..n}

\* The events prepared from some places of a command, the first ones.
Numbered(s, c, w) ==
  /\ \E S : s \in Seq(S)
  /\ Len(s) = Cardinality(w) /\ Len(s) <= MaxCommandEvents
  /\ \A p \in w : /\ Rank(c, p) \in 1..Len(s) /\ s[Rank(c, p)] = Entry(c, p)
                  /\ PayloadOK(c.streams[p[1]].events[p[2]])
  /\ \A i \in 1..Len(s) : \E p \in w : Rank(c, p) = i

Walk == {"stream", "event", "lookup"}

\* Where the walk is, and what it has seen and prepared so far.
WalkOK ==
  /\ pc \in Walk => command \in Command /\ HeaderOK(command)
  /\ pc = "stream" => at \in 1..Len(command.streams)
  /\ pc = "event" => /\ at \in 1..Len(command.streams)
                     /\ next \in 1..(Len(Stream.events) + 1)
                     /\ StreamsOK(command, at) /\ seen = Keys(command, at)
                     /\ Numbered(prepared, command, Before(command, at, next))
  /\ pc = "lookup" => at = Len(command.streams) + 1
  /\ pc \in {"stream", "lookup"} =>
       /\ StreamsOK(command, at - 1) /\ seen = Keys(command, at - 1)
       /\ Numbered(prepared, command, Before(command, at, 1))

\* The rows a command leaves, when it is recorded at a time.
Row(c, t, p) ==
  [id |-> c.id, owner |-> c.owner, actor |-> c.actor, occurred |-> t, source |-> Source(c),
   event |-> Entry(c, p)]

RowsOf(c, t) == {Row(c, t, p) : p \in Places(c)}

StoredOf(c) == {r \in stored : r.owner = c.owner /\ r.id = c.id}

\* The rows under an identifier are those of one command.
StoreOK ==
  /\ \A c \in sent : /\ c \in Command /\ Legal(c)
                     /\ \E t \in {r.occurred : r \in stored} :
                          /\ StoredOf(c) = RowsOf(c, t)
                          /\ c.time # Absent => t = Micros(c.time)
  /\ \A r \in stored : \E c \in sent : r.owner = c.owner /\ r.id = c.id

\* What the walk says, apart from the store.
WInv ==
  /\ WalkOK
  /\ pc # "returned" => verdict = "none"
  /\ verdict = "invalid" => ~ Legal(command)

IInv == WInv /\ StoreOK /\ ReplayIffSame

-----------------------------------------------------------------------------
(* The places of a command. *)

LEMMA CommandIs ==
  ASSUME NEW c \in Command
  PROVE  /\ Streams(c) \in Nat /\ DOMAIN c.streams = 1..Streams(c)
         /\ \A i \in 1..Streams(c) :
              /\ c.streams[i] \in StreamInput /\ c.streams[i].expected \in Int
              /\ Size(c, i) \in Nat
<1>1. c.streams \in Seq(StreamInput)
  BY DEF Command
<1>2. Streams(c) \in Nat /\ DOMAIN c.streams = 1..Streams(c)
  BY <1>1 DEF Streams
<1>3. ASSUME NEW i \in 1..Streams(c)
      PROVE  /\ c.streams[i] \in StreamInput /\ c.streams[i].expected \in Int
             /\ Size(c, i) \in Nat
  <2>1. PICK st : st = c.streams[i]
    OBVIOUS
  <2>2. st \in StreamInput
    BY <1>1, <2>1 DEF Streams
  <2>3. st.expected \in Int /\ st.events \in Seq(Body)
    BY <2>2 DEF StreamInput
  <2>4. Len(st.events) \in Nat
    BY <2>3
  <2> QED
    BY <2>1, <2>2, <2>3, <2>4 DEF Size
<1> QED
  BY <1>2, <1>3

LEMMA PlacesAre ==
  ASSUME NEW c \in Command
  PROVE  /\ \A i, j : <<i, j>> \in Places(c) <=> /\ i \in 1..Streams(c) /\ j \in 1..MaxVersion
                                                 /\ j <= Size(c, i)
         /\ \A p \in Places(c) : /\ p = <<p[1], p[2]>> /\ p[1] \in 1..Streams(c)
                                 /\ p[2] \in 1..MaxVersion /\ p[2] <= Size(c, p[1])
         /\ IsFiniteSet(Places(c)) /\ Cardinality(Places(c)) \in Nat
<1>1. PICK n : n = Streams(c) /\ n \in Nat /\ DOMAIN c.streams = 1..n
  BY CommandIs
<1>2. Places(c) = {p \in (1..n) \X (1..MaxVersion) : p[2] <= Size(c, p[1])}
  BY <1>1 DEF Places, Size
<1>3. MaxVersion \in Nat
  BY NumbersAssumption
<1>4. /\ IsFiniteSet(1..n) /\ IsFiniteSet(1..MaxVersion)
  BY <1>1, <1>3, FS_Interval
<1>5. IsFiniteSet((1..n) \X (1..MaxVersion))
  BY <1>4, FS_Product
<1>6. IsFiniteSet(Places(c))
  BY <1>2, <1>5, FS_Subset
<1>7. Cardinality(Places(c)) \in Nat
  BY <1>6, FS_CardinalityType
<1> QED
  BY <1>1, <1>2, <1>6, <1>7

Upto(c, p) == {q \in Places(c) : q[1] < p[1] \/ (q[1] = p[1] /\ q[2] <= p[2])}

LEMMA RankIs ==
  ASSUME NEW c \in Command, NEW p
  PROVE  /\ Rank(c, p) = Cardinality(Upto(c, p)) /\ Rank(c, p) \in Nat
         /\ IsFiniteSet(Upto(c, p))
<1>1. Rank(c, p) = Cardinality(Upto(c, p))
  BY DEF Rank, Upto
<1>2. Upto(c, p) \subseteq Places(c)
  BY DEF Upto
<1>3. IsFiniteSet(Upto(c, p))
  BY <1>2, PlacesAre, FS_Subset
<1> QED
  BY <1>1, <1>3, FS_CardinalityType

LEMMA BeforeIs ==
  ASSUME NEW c \in Command, NEW i \in Nat, NEW j \in Nat
  PROVE  /\ IsFiniteSet(Before(c, i, j)) /\ Cardinality(Before(c, i, j)) \in Nat
         /\ Before(c, i, j) \subseteq Places(c)
         /\ Cardinality(Before(c, i, j)) <= Cardinality(Places(c))
<1>1. Before(c, i, j) \subseteq Places(c)
  BY DEF Before
<1>2. /\ IsFiniteSet(Before(c, i, j))
      /\ Cardinality(Before(c, i, j)) <= Cardinality(Places(c))
  BY <1>1, PlacesAre, FS_Subset
<1> QED
  BY <1>1, <1>2, FS_CardinalityType

\* One place more.
LEMMA OneMore ==
  ASSUME NEW c \in Command, NEW i \in 1..Streams(c), NEW j \in 1..MaxVersion, j <= Size(c, i)
  PROVE  LET p == <<i, j>>
             w == Before(c, i, j)
         IN /\ p \in Places(c) /\ p \notin w
            /\ Before(c, i, j + 1) = w \cup {p} /\ Upto(c, p) = w \cup {p}
            /\ Rank(c, p) = Cardinality(w) + 1
            /\ Cardinality(Before(c, i, j + 1)) = Cardinality(w) + 1
<1>1. PICK p, w, n : p = <<i, j>> /\ w = Before(c, i, j) /\ n = Streams(c)
  OBVIOUS
<1>2. p[1] = i /\ p[2] = j
  BY <1>1
<1>3. i \in Nat /\ j \in Nat
  BY CommandIs, NumbersAssumption
<1>4. p \in Places(c)
  BY <1>1, PlacesAre
<1>5. p \notin w
  BY <1>1, <1>2, <1>3 DEF Before
<1>6. \A q \in Places(c) : q[1] \in Nat /\ q[2] \in Nat /\ q = <<q[1], q[2]>>
  BY PlacesAre, CommandIs, NumbersAssumption
<1>7. ASSUME NEW q \in Places(c)
      PROVE  /\ (q[1] < i \/ (q[1] = i /\ q[2] < j + 1))
                   <=> (q[1] < i \/ (q[1] = i /\ q[2] < j)) \/ q = p
             /\ (q[1] < i \/ (q[1] = i /\ q[2] <= j))
                   <=> (q[1] < i \/ (q[1] = i /\ q[2] < j)) \/ q = p
  <2>1. PICK x, y : x = q[1] /\ y = q[2] /\ x \in Nat /\ y \in Nat
    BY <1>6
  <2>2. q = p <=> x = i /\ y = j
    BY <1>1, <1>2, <1>6, <2>1
  <2>3. /\ y < j + 1 <=> (y < j \/ y = j)
        /\ y <= j <=> (y < j \/ y = j)
        /\ x = i => ~ (x < i)
    BY <1>3, <2>1
  <2> QED
    BY <2>1, <2>2, <2>3
<1>8. Before(c, i, j + 1) = w \cup {p}
  BY <1>1, <1>4, <1>7 DEF Before
<1>9. Upto(c, p) = w \cup {p}
  BY <1>1, <1>2, <1>4, <1>7 DEF Before, Upto
<1>10. IsFiniteSet(w) /\ Cardinality(w) \in Nat
  BY <1>1, <1>3, BeforeIs
<1>11. Cardinality(w \cup {p}) = Cardinality(w) + 1
  BY <1>5, <1>10, FS_AddElement
<1>12. Rank(c, p) = Cardinality(w \cup {p})
  BY <1>9, RankIs
<1> QED
  BY <1>1, <1>4, <1>5, <1>8, <1>9, <1>11, <1>12

LEMMA NextStreamBefore ==
  ASSUME NEW c \in Command, NEW i \in 1..Streams(c), NEW j \in Nat, j = Size(c, i) + 1
  PROVE  Before(c, i + 1, 1) = Before(c, i, j)
<1>1. i \in Nat /\ Size(c, i) \in Nat
  BY CommandIs
<1>2. ASSUME NEW q \in Places(c)
      PROVE  (q[1] < i + 1 \/ (q[1] = i + 1 /\ q[2] < 1))
                <=> (q[1] < i \/ (q[1] = i /\ q[2] < j))
  <2>1. PICK x, y : x = q[1] /\ y = q[2]
    OBVIOUS
  <2>2. x \in Nat /\ y \in Nat /\ 1 <= y /\ (x = i => y <= Size(c, i))
    BY <2>1, PlacesAre, CommandIs, NumbersAssumption
  <2>3. (x < i + 1 \/ (x = i + 1 /\ y < 1)) <=> (x < i \/ (x = i /\ y < j))
    BY <1>1, <2>2
  <2> QED
    BY <2>1, <2>3
<1> QED
  BY <1>2 DEF Before

LEMMA AllBefore ==
  ASSUME NEW c \in Command
  PROVE  Before(c, 1, 1) = {} /\ Before(c, Streams(c) + 1, 1) = Places(c)
<1>1. PICK n : n = Streams(c) /\ n \in Nat
  BY CommandIs
<1>2. ASSUME NEW q \in Places(c)
      PROVE  /\ ~ (q[1] < 1 \/ (q[1] = 1 /\ q[2] < 1)) /\ q[1] < n + 1
  <2>1. q[1] \in 1..n /\ q[2] \in 1..MaxVersion
    BY <1>1, PlacesAre
  <2> QED
    BY <1>1, <2>1, NumbersAssumption
<1> QED
  BY <1>1, <1>2 DEF Before

-----------------------------------------------------------------------------
(* Streams that pass, and events that are numbered. *)

LEMMA StreamOKIs ==
  ASSUME NEW st \in StreamInput
  PROVE  /\ Len(st.events) \in Nat
         /\ StreamOK(st) <=> /\ AggregateOK(st) /\ st.expected \in Nat /\ Len(st.events) > 0
                             /\ st.expected + Len(st.events) \in Version
<1>1. PICK x, n : x = st.expected /\ n = Len(st.events)
  OBVIOUS
<1>2. x \in Int /\ st.events \in Seq(Body)
  BY <1>1 DEF StreamInput
<1>3. n \in Nat /\ (st.events # <<>> <=> n > 0)
  BY <1>1, <1>2
<1>4. VersionOverflows(st) <=> x > MaxVersion - n
  BY <1>1 DEF VersionOverflows
<1>5. MaxVersion \in Nat
  BY NumbersAssumption
<1>6. (x >= 0 /\ n > 0 /\ ~ (x > MaxVersion - n)) <=> (x \in Nat /\ n > 0 /\ x + n \in 1..MaxVersion)
  BY <1>2, <1>3, <1>5
<1> QED
  BY <1>1, <1>3, <1>4, <1>6 DEF StreamOK, Version

LEMMA LegalIs ==
  ASSUME NEW c \in Command
  PROVE  Legal(c) <=> /\ HeaderOK(c) /\ StreamsOK(c, Streams(c))
                      /\ \A p \in Places(c) : PayloadOK(c.streams[p[1]].events[p[2]])
                      /\ Cardinality(Places(c)) <= MaxCommandEvents
<1>1. PICK n : n = Streams(c) /\ DOMAIN c.streams = 1..n
  BY CommandIs
<1>2. \A i \in 1..n : StreamOK(c.streams[i]) <=>
        /\ AggregateOK(c.streams[i]) /\ c.streams[i].expected \in Nat
        /\ Len(c.streams[i].events) > 0
        /\ c.streams[i].expected + Len(c.streams[i].events) \in Version
  BY <1>1, CommandIs, StreamOKIs
<1> QED
  BY Zenon, <1>1, <1>2 DEF Legal, DistinctStreams, StreamsOK

\* The places of streams that passed are all within the versions.
LEMMA SizeFits ==
  ASSUME NEW c \in Command, NEW i \in 1..Streams(c), StreamOK(c.streams[i])
  PROVE  /\ Size(c, i) \in 1..MaxVersion
         /\ c.streams[i].expected \in Nat /\ c.streams[i].expected + Size(c, i) <= MaxVersion
<1>1. PICK st, x, n : st = c.streams[i] /\ x = st.expected /\ n = Len(st.events)
  OBVIOUS
<1>2. x \in Nat /\ n \in Nat /\ n > 0 /\ x + n \in 1..MaxVersion
  BY <1>1, CommandIs, StreamOKIs DEF Version
<1>3. n \in 1..MaxVersion /\ x + n <= MaxVersion
  BY <1>2, NumbersAssumption
<1> QED
  BY <1>1, <1>2, <1>3 DEF Size

LEMMA Appended ==
  ASSUME NEW S, NEW s \in Seq(S), NEW e
  PROVE  /\ Append(s, e) \in Seq(S \cup {e}) /\ Len(s) \in Nat /\ Len(Append(s, e)) = Len(s) + 1
         /\ Append(s, e)[Len(s) + 1] = e /\ \A i \in 1..Len(s) : Append(s, e)[i] = s[i]
<1>1. s \in Seq(S \cup {e})
  OBVIOUS
<1> QED
  BY <1>1

LEMMA NumberedMore ==
  ASSUME NEW c \in Command, NEW i \in 1..Streams(c), NEW j \in 1..MaxVersion, j <= Size(c, i),
         NEW s, Numbered(s, c, Before(c, i, j)), Len(s) < MaxCommandEvents,
         PayloadOK(c.streams[i].events[j])
  PROVE  Numbered(Append(s, Entry(c, <<i, j>>)), c, Before(c, i, j + 1))
<1>1. PICK p, w, e, r : /\ p = <<i, j>> /\ w = Before(c, i, j) /\ e = Entry(c, <<i, j>>)
                        /\ r = Append(s, e)
  OBVIOUS
<1>2. /\ p \in Places(c) /\ p \notin w /\ Before(c, i, j + 1) = w \cup {p}
      /\ Rank(c, p) = Cardinality(w) + 1
      /\ Cardinality(w \cup {p}) = Cardinality(w) + 1
  <2>1. LET q == <<i, j>>
            v == Before(c, i, j)
        IN /\ q \in Places(c) /\ q \notin v
           /\ Before(c, i, j + 1) = v \cup {q}
           /\ Rank(c, q) = Cardinality(v) + 1
           /\ Cardinality(Before(c, i, j + 1)) = Cardinality(v) + 1
    BY Zenon, OneMore
  <2> QED
    BY Zenon, <1>1, <2>1
<1>3. PICK S : s \in Seq(S)
  BY DEF Numbered
<1>0. Len(s) \in Nat
  BY <1>3
<1>4. PICK n : n = Len(s) /\ n \in Nat
  BY Zenon, <1>0
<1>5. /\ r \in Seq(S \cup {e}) /\ Len(r) = n + 1 /\ r[n + 1] = e /\ \A k \in 1..n : r[k] = s[k]
  BY <1>1, <1>3, <1>4, Appended
<1>6. n = Cardinality(w) /\ n < MaxCommandEvents
  BY <1>1, <1>4 DEF Numbered
<1>7. ASSUME NEW q \in w
      PROVE  /\ Rank(c, q) \in 1..(n + 1) /\ r[Rank(c, q)] = Entry(c, q)
             /\ PayloadOK(c.streams[q[1]].events[q[2]])
  <2>1. /\ Rank(c, q) \in 1..n /\ s[Rank(c, q)] = Entry(c, q)
        /\ PayloadOK(c.streams[q[1]].events[q[2]])
    BY <1>1, <1>4 DEF Numbered
  <2>2. Rank(c, q) \in 1..(n + 1)
    BY <1>4, <2>1
  <2> QED
    BY <1>5, <2>1, <2>2
<1>8. Rank(c, p) = n + 1 /\ n + 1 \in 1..(n + 1) /\ r[n + 1] = Entry(c, p)
  BY <1>1, <1>2, <1>4, <1>5, <1>6
<1>9. PayloadOK(c.streams[p[1]].events[p[2]])
  BY <1>1
<1>10. ASSUME NEW k \in 1..(n + 1) PROVE \E q \in w \cup {p} : Rank(c, q) = k
  <2>1. CASE k = n + 1
    BY <1>8, <2>1
  <2>2. CASE k # n + 1
    <3>1. k \in 1..n
      BY <1>4, <2>2
    <3>2. PICK q \in w : Rank(c, q) = k
      BY <1>1, <1>4, <3>1 DEF Numbered
    <3> QED
      BY <3>2
  <2> QED
    BY <2>1, <2>2
<1>11. MaxCommandEvents \in Nat
  BY NumbersAssumption
<1>12. n + 1 <= MaxCommandEvents
  BY <1>4, <1>6, <1>11
<1>13. Numbered(r, c, w \cup {p})
  BY <1>2, <1>5, <1>6, <1>7, <1>8, <1>9, <1>10, <1>12 DEF Numbered
<1> QED
  BY <1>1, <1>2, <1>13

LEMMA NumberedNone == ASSUME NEW c PROVE Numbered(<<>>, c, {})
<1>1. <<>> \in Seq({}) /\ Len(<<>>) = 0 /\ 1..0 = {}
  OBVIOUS
<1>2. Cardinality({}) = 0
  BY FS_EmptySet
<1>3. 0 <= MaxCommandEvents
  BY NumbersAssumption
<1> QED
  BY <1>1, <1>2, <1>3 DEF Numbered

LEMMA KeysMore ==
  ASSUME NEW c, NEW n \in Nat
  PROVE  /\ Keys(c, n + 1)
              = Keys(c, n) \cup {<<c.streams[n + 1].type, c.streams[n + 1].aggregate>>}
         /\ StreamsOK(c, n + 1) <=>
              /\ StreamsOK(c, n) /\ StreamOK(c.streams[n + 1])
              /\ <<c.streams[n + 1].type, c.streams[n + 1].aggregate>> \notin Keys(c, n)
<1>1. \A i : i \in 1..(n + 1) <=> i \in 1..n \/ i = n + 1
  OBVIOUS
<1>2. n + 1 \notin 1..n
  OBVIOUS
<1> DEFINE K(i) == <<c.streams[i].type, c.streams[i].aggregate>>
<1>3. \A i, j : K(i) = K(j) <=> /\ c.streams[i].type = c.streams[j].type
                                /\ c.streams[i].aggregate = c.streams[j].aggregate
  OBVIOUS
<1>4. \A m : /\ Keys(c, m) = {K(i) : i \in 1..m}
             /\ StreamsOK(c, m) <=> /\ \A i \in 1..m : StreamOK(c.streams[i])
                                    /\ \A i, j \in 1..m : K(i) = K(j) => i = j
  BY <1>3 DEF Keys, StreamsOK
<1> HIDE DEF K
<1>5. Keys(c, n + 1) = Keys(c, n) \cup {K(n + 1)}
  BY <1>1, <1>4
<1>6. StreamsOK(c, n + 1) <=> /\ StreamsOK(c, n) /\ StreamOK(c.streams[n + 1])
                              /\ K(n + 1) \notin Keys(c, n)
  BY <1>1, <1>2, <1>4
<1> QED
  BY <1>5, <1>6 DEF K

-----------------------------------------------------------------------------
(* Every step of the walk. *)

LEMMA CallStep == ASSUME WInv, NEW c \in Input, Call(c) PROVE WInv'
<1>1. command' = c /\ c \in Command /\ at' = 1 /\ seen' = {} /\ prepared' = <<>>
  BY InputAssumption DEF Call
<1>2. CASE ~ HeaderOK(c)
  <2>1. pc' = "returned" /\ ~ Legal(c)
    BY <1>2 DEF Call, Return, Legal
  <2> QED
    BY <1>1, <2>1 DEF WInv, WalkOK, Walk
<1>3. CASE HeaderOK(c)
  <2>1. pc' = "stream" /\ verdict' = "none"
    BY <1>3 DEF Call
  <2>2. 1 \in 1..Len(c.streams)
    <3>1. PICK ss : ss = c.streams
      OBVIOUS
    <3>2. ss \in Seq(StreamInput) /\ ss # <<>>
      BY <1>1, <1>3, <3>1 DEF Command, HeaderOK
    <3>3. 1 \in 1..Len(ss)
      BY <3>2
    <3> QED
      BY <3>1, <3>3
  <2>3. StreamsOK(c, 0) /\ Keys(c, 0) = {}
    <3>1. \A i : i \notin 1..0
      OBVIOUS
    <3> QED
      BY <3>1 DEF StreamsOK, Keys
  <2>4. Numbered(<<>>, c, Before(c, 1, 1))
    BY <1>1, AllBefore, NumberedNone
  <2>5. 1 - 1 = 0
    OBVIOUS
  <2>6. WalkOK'
    BY <1>1, <1>3, <2>1, <2>2, <2>3, <2>4, <2>5 DEF WalkOK, Walk
  <2> QED
    BY <2>1, <2>6 DEF WInv
<1> QED
  BY <1>2, <1>3

LEMMA CheckStreamStep == ASSUME WInv, CheckStream PROVE WInv'
<1>1. /\ pc = "stream" /\ verdict = "none" /\ command' = command /\ at' = at
      /\ prepared' = prepared
  BY DEF WInv, CheckStream, Stay
<1>2. PICK c, n, st, key : /\ c = command /\ n = at - 1 /\ st = c.streams[at]
                           /\ key = <<st.type, st.aggregate>>
  OBVIOUS
<1>3. /\ c \in Command /\ HeaderOK(c) /\ at \in 1..Streams(c)
      /\ StreamsOK(c, n) /\ seen = Keys(c, n)
      /\ Numbered(prepared, c, Before(c, at, 1))
  BY <1>1, <1>2 DEF WInv, WalkOK, Walk, Streams
<1>4. n \in Nat /\ n + 1 = at /\ Streams(c) \in Nat
  BY <1>2, <1>3, CommandIs
<1>5. /\ Keys(c, at) = Keys(c, n) \cup {key}
      /\ StreamsOK(c, at) <=> StreamsOK(c, n) /\ StreamOK(st) /\ key \notin Keys(c, n)
  BY <1>2, <1>4, KeysMore
<1>6. CASE StreamOK(st) /\ key \notin seen
  <2>1. seen' = seen \cup {key} /\ next' = 1 /\ pc' = "event" /\ verdict' = verdict
    BY <1>2, <1>6 DEF CheckStream, Stream
  <2>2. StreamsOK(c, at) /\ seen' = Keys(c, at)
    BY <1>3, <1>5, <1>6, <2>1
  <2>3. 1 \in 1..(Len(Stream'.events) + 1)
    <3>1. Stream' = st
      BY <1>1, <1>2 DEF Stream
    <3>2. st \in StreamInput
      BY <1>2, <1>3, CommandIs
    <3>3. Len(st.events) \in Nat
      BY <3>2, StreamOKIs
    <3>4. 1 \in 1..(Len(st.events) + 1)
      BY <3>3
    <3> QED
      BY <3>1, <3>4
  <2>4. at \in 1..Len(command.streams)
    BY <1>2, <1>3 DEF Streams
  <2>5. WalkOK'
    BY <1>1, <1>2, <1>3, <2>1, <2>2, <2>3, <2>4 DEF WalkOK, Walk
  <2> QED
    BY <1>1, <2>1, <2>5 DEF WInv
<1>7. CASE ~ (StreamOK(st) /\ key \notin seen)
  <2>1. pc' = "returned"
    BY <1>2, <1>7 DEF CheckStream, Stream, Return
  <2>2. ~ StreamsOK(c, at)
    BY <1>3, <1>5, <1>7
  <2>3. ~ StreamsOK(c, Streams(c))
    <3>1. \A i \in 1..at : i \in 1..Streams(c)
      BY <1>3, <1>4
    <3> QED
      BY <2>2, <3>1 DEF StreamsOK
  <2>4. ~ Legal(c)
    BY <1>3, <2>3, LegalIs
  <2> QED
    BY <1>1, <1>2, <2>1, <2>4 DEF WInv, WalkOK, Walk
<1> QED
  BY <1>6, <1>7

LEMMA PrepareEventStep == ASSUME WInv, PrepareEvent PROVE WInv'
<1>1. /\ pc = "event" /\ verdict = "none" /\ command' = command /\ at' = at /\ seen' = seen
      /\ next <= Len(Stream.events)
  BY DEF WInv, PrepareEvent, Stay
<1>2. PICK c, st, s : c = command /\ st = c.streams[at] /\ s = prepared
  OBVIOUS
<1>3. /\ c \in Command /\ HeaderOK(c) /\ at \in 1..Streams(c) /\ Stream = st
      /\ next \in 1..(Size(c, at) + 1) /\ next <= Size(c, at)
      /\ StreamsOK(c, at) /\ seen = Keys(c, at)
      /\ Numbered(s, c, Before(c, at, next))
  BY <1>1, <1>2 DEF WInv, WalkOK, Walk, Streams, Size, Stream
<1>4. /\ Size(c, at) \in 1..MaxVersion /\ st.expected \in Nat
      /\ st.expected + Size(c, at) <= MaxVersion
  <2>1. StreamOK(c.streams[at])
    <3>1. at \in 1..at
      BY <1>3, CommandIs
    <3> QED
      BY <1>3, <3>1 DEF StreamsOK
  <2> QED
    BY <1>2, <1>3, <2>1, SizeFits
<1>5. next \in 1..MaxVersion /\ next \in Nat /\ MaxVersion \in Nat
  BY <1>3, <1>4, NumbersAssumption
<1>6. PICK p, w : p = <<at, next>> /\ w = Before(c, at, next)
  OBVIOUS
<1>7. /\ p \in Places(c) /\ Before(c, at, next + 1) \subseteq Places(c)
      /\ Cardinality(Before(c, at, next + 1)) = Cardinality(w) + 1
      /\ Rank(c, p) = Cardinality(w) + 1
  <2>1. LET q == <<at, next>>
            v == Before(c, at, next)
        IN /\ q \in Places(c)
           /\ Rank(c, q) = Cardinality(v) + 1
           /\ Cardinality(Before(c, at, next + 1)) = Cardinality(v) + 1
    BY <1>3, <1>5, OneMore
  <2>2. Before(c, at, next + 1) \subseteq Places(c)
    BY DEF Before
  <2> QED
    BY Zenon, <1>6, <2>1, <2>2
<1>8. Len(s) = Cardinality(w) /\ Cardinality(w) \in Nat
  <2>1. at \in Nat
    BY <1>3, CommandIs
  <2> QED
    BY <1>3, <1>5, <1>6, <2>1, BeforeIs DEF Numbered
<1>9. CASE Full \/ ~ PayloadOK(st.events[next])
  <2>1. pc' = "returned"
    BY <1>2, <1>3, <1>9 DEF PrepareEvent, Return
  <2>2. ASSUME Full PROVE ~ Legal(c)
    <3>1. Len(s) >= MaxCommandEvents
      BY <1>2, <2>2 DEF Full
    <3>2. Cardinality(w) + 1 <= Cardinality(Places(c))
      <4>1. at \in Nat /\ next + 1 \in Nat
        BY <1>3, <1>5, CommandIs
      <4> QED
        BY <1>3, <1>7, <4>1, BeforeIs
    <3>3. Cardinality(Places(c)) \in Nat /\ MaxCommandEvents \in Nat
      BY <1>3, PlacesAre, NumbersAssumption
    <3>4. ~ (Cardinality(Places(c)) <= MaxCommandEvents)
      BY <1>8, <3>1, <3>2, <3>3
    <3> QED
      BY <1>3, <3>4, LegalIs
  <2>3. ASSUME ~ PayloadOK(st.events[next]) PROVE ~ Legal(c)
    <3>1. ~ PayloadOK(c.streams[p[1]].events[p[2]])
      BY <1>2, <1>6, <2>3
    <3> QED
      BY <1>3, <1>7, <3>1, LegalIs
  <2>4. ~ Legal(c)
    BY <1>9, <2>2, <2>3
  <2> QED
    BY <1>1, <1>2, <2>1, <2>4 DEF WInv, WalkOK, Walk
<1>10. CASE ~ (Full \/ ~ PayloadOK(st.events[next]))
  <2>1. PICK e : e = [type |-> st.type, aggregate |-> st.aggregate,
                      version |-> Wrap(st.expected + next),
                      body |-> st.events[next], index |-> Len(s)]
    OBVIOUS
  <2>2. prepared' = Append(s, e) /\ next' = next + 1 /\ pc' = pc /\ verdict' = verdict
    BY <1>2, <1>3, <1>10, <2>1 DEF PrepareEvent
  <2>3. Wrap(st.expected + next) = st.expected + next
    <3>1. PICK x : x = st.expected
      OBVIOUS
    <3>2. x \in Nat /\ x + Size(c, at) <= MaxVersion /\ Size(c, at) \in Nat
      BY <1>4, <3>1
    <3>3. ~ (x + next > MaxVersion)
      BY <1>3, <1>5, <3>2
    <3> QED
      BY <3>1, <3>3 DEF Wrap
  <2>4. Rank(c, p) - 1 = Len(s)
    BY <1>7, <1>8
  <2>5. e = Entry(c, p)
    BY <1>2, <1>6, <2>1, <2>3, <2>4 DEF Entry
  <2>6. Len(s) < MaxCommandEvents
    <3>1. ~ (Len(s) >= MaxCommandEvents)
      BY <1>2, <1>10 DEF Full
    <3> QED
      BY <1>8, <3>1, NumbersAssumption
  <2>7. PayloadOK(c.streams[at].events[next])
    BY <1>2, <1>10
  <2>8. Numbered(Append(s, Entry(c, <<at, next>>)), c, Before(c, at, next + 1))
    BY <1>3, <1>5, <2>6, <2>7, NumberedMore
  <2>9. Numbered(prepared', command', Before(command', at', next'))
    BY Zenon, <1>1, <1>2, <1>6, <2>2, <2>5, <2>8
  <2>10. next + 1 \in 1..(Size(c, at) + 1)
    BY <1>3, <1>4, <1>5
  <2>11. /\ next' \in 1..(Len(Stream'.events) + 1) /\ at' \in 1..Len(command'.streams)
         /\ command' \in Command /\ HeaderOK(command')
         /\ StreamsOK(command', at') /\ seen' = Keys(command', at') /\ pc' = "event"
    BY <1>1, <1>2, <1>3, <2>2, <2>10 DEF Stream, Size, Streams
  <2>12. WalkOK'
    BY <2>9, <2>11 DEF WalkOK, Walk
  <2> QED
    BY <1>1, <2>2, <2>12 DEF WInv
<1> QED
  BY <1>9, <1>10

LEMMA NextStreamStep == ASSUME WInv, NextStream PROVE WInv'
<1>1. /\ pc = "event" /\ verdict = "none" /\ command' = command /\ at' = at + 1 /\ seen' = seen
      /\ next > Len(Stream.events) /\ prepared' = prepared /\ verdict' = verdict
      /\ pc' = IF at = Len(command.streams) THEN "lookup" ELSE "stream"
  BY DEF WInv, NextStream, Stay
<1>2. PICK c, n : c = command /\ n = Streams(c)
  OBVIOUS
<1>3. /\ c \in Command /\ HeaderOK(c) /\ at \in 1..n
      /\ next \in 1..(Size(c, at) + 1) /\ next > Size(c, at)
      /\ StreamsOK(c, at) /\ seen = Keys(c, at)
      /\ Numbered(prepared, c, Before(c, at, next))
  BY <1>1, <1>2 DEF WInv, WalkOK, Walk, Streams, Size, Stream
<1>4. n \in Nat /\ Size(c, at) \in Nat
  BY <1>2, <1>3, CommandIs
<1>5. next \in Nat /\ next = Size(c, at) + 1
  BY <1>3, <1>4
<1>6. Before(c, at + 1, 1) = Before(c, at, next)
  BY <1>2, <1>3, <1>5, NextStreamBefore
<1>7. /\ at' - 1 = at /\ at = n => at' = n + 1
      /\ at # n => at' \in 1..n
  BY <1>1, <1>3, <1>4
<1>8. pc' = IF at = n THEN "lookup" ELSE "stream"
  BY <1>1, <1>2 DEF Streams
<1>9. /\ command' \in Command /\ HeaderOK(command')
      /\ pc' = "stream" => at' \in 1..Len(command'.streams)
      /\ pc' = "lookup" => at' = Len(command'.streams) + 1
      /\ StreamsOK(command', at' - 1) /\ seen' = Keys(command', at' - 1)
  BY <1>1, <1>2, <1>3, <1>7, <1>8 DEF Streams
<1>10. Numbered(prepared', command', Before(command', at', 1))
  BY Zenon, <1>1, <1>2, <1>3, <1>6
<1>11. WalkOK'
  BY <1>8, <1>9, <1>10 DEF WalkOK, Walk
<1>12. pc' # "returned" /\ verdict' = "none"
  BY <1>1, <1>8
<1> QED
  BY <1>11, <1>12 DEF WInv

LEMMA LastSteps == ASSUME WInv, Transact \/ Done PROVE WInv'
<1>1. CASE Transact
  <2>1. pc' = "returned" /\ verdict' # "invalid"
    BY <1>1 DEF Transact, Return
  <2> QED
    BY <2>1 DEF WInv, WalkOK, Walk
<1>2. CASE Done
  BY <1>2 DEF Done, WInv, WalkOK, Walk
<1> QED
  BY <1>1, <1>2

\* What the transaction is given.
LEMMA WalkEnds ==
  ASSUME WInv, pc = "lookup"
  PROVE  /\ command \in Command /\ Legal(command)
         /\ Numbered(prepared, command, Places(command))
<1>1. PICK c, n : c = command /\ n = Streams(c)
  OBVIOUS
<1>2. /\ c \in Command /\ HeaderOK(c) /\ at = n + 1 /\ StreamsOK(c, at - 1)
      /\ Numbered(prepared, c, Before(c, at, 1))
  BY <1>1 DEF WInv, WalkOK, Walk, Streams
<1>3. n \in Nat
  BY <1>1, <1>2, CommandIs
<1>4. at - 1 = n
  BY <1>2, <1>3
<1>5. Before(c, at, 1) = Places(c)
  BY <1>1, <1>2, AllBefore
<1>6. Numbered(prepared, c, Places(c))
  BY Zenon, <1>2, <1>5
<1>7. /\ \A p \in Places(c) : PayloadOK(c.streams[p[1]].events[p[2]])
      /\ Cardinality(Places(c)) <= MaxCommandEvents
  BY <1>6 DEF Numbered
<1> QED
  BY <1>1, <1>2, <1>4, <1>6, <1>7, LegalIs

-----------------------------------------------------------------------------
(* Counting. *)

\* A set of numbers that is not empty has a smallest one.
LEMMA SmallestExists ==
  ASSUME NEW S \in SUBSET Nat, S # {} PROVE \E x \in S : \A y \in S : x <= y
<1> DEFINE R == {ss \in Nat \X Nat : ss[1] < ss[2]}
<1>1. IsWellFoundedOn(R, Nat)
  BY NatLessThanWellFounded DEF OpToRel
<1>2. \A x, y \in Nat : <<y, x>> \notin R => x <= y
  OBVIOUS
<1> HIDE DEF R
<1>3. PICK x \in S : \A y \in S : <<y, x>> \notin R
  BY <1>1, WFMin
<1> QED
  BY <1>2, <1>3

LEMMA ImageCount ==
  ASSUME NEW S, IsFiniteSet(S), NEW f, f \in [S -> {f[x] : x \in S}],
         \A x, y \in S : f[x] = f[y] => x = y
  PROVE  IsFiniteSet({f[x] : x \in S}) /\ Cardinality({f[x] : x \in S}) = Cardinality(S)
<1>1. PICK T : T = {f[x] : x \in S}
  OBVIOUS
<1>2. f \in Surjection(S, T)
  BY <1>1 DEF Surjection
<1>3. f \in Injection(S, T)
  BY <1>1 DEF Injection, IsInjective
<1> QED
  BY <1>1, <1>2, <1>3, FS_Surjection

-----------------------------------------------------------------------------
(* The order of places. *)

Prec(p, q) == p[1] < q[1] \/ (p[1] = q[1] /\ p[2] < q[2])

LEMMA RankOrder ==
  ASSUME NEW c \in Command, NEW p \in Places(c), NEW q \in Places(c), Prec(p, q)
  PROVE  Rank(c, p) < Rank(c, q)
<1>1. \A r \in Places(c) : r[1] \in Nat /\ r[2] \in Nat
  BY PlacesAre, CommandIs, NumbersAssumption
<1>2. Upto(c, p) \subseteq Upto(c, q)
  BY <1>1 DEF Upto, Prec
<1>3. q \in Upto(c, q) /\ q \notin Upto(c, p)
  BY <1>1 DEF Upto, Prec
<1>4. /\ Cardinality(Upto(c, p)) <= Cardinality(Upto(c, q))
      /\ Cardinality(Upto(c, p)) # Cardinality(Upto(c, q))
  <2>1. PICK A, B : A = Upto(c, p) /\ B = Upto(c, q)
    OBVIOUS
  <2>2. IsFiniteSet(B) /\ A \in SUBSET B /\ A # B
    BY <1>2, <1>3, <2>1, RankIs
  <2>3. Cardinality(A) <= Cardinality(B) /\ Cardinality(A) # Cardinality(B)
    BY <2>2, FS_Subset
  <2> QED
    BY <2>1, <2>3
<1>5. Rank(c, p) \in Nat /\ Rank(c, q) \in Nat /\ Rank(c, p) <= Rank(c, q) /\ Rank(c, p) # Rank(c, q)
  BY <1>4, RankIs
<1> QED
  BY <1>5

LEMMA RankInjective ==
  ASSUME NEW c \in Command, NEW p \in Places(c), NEW q \in Places(c), Rank(c, p) = Rank(c, q)
  PROVE  p = q
<1>1. /\ p = <<p[1], p[2]>> /\ p[1] \in Nat /\ p[2] \in Nat
      /\ q = <<q[1], q[2]>> /\ q[1] \in Nat /\ q[2] \in Nat
  BY PlacesAre, CommandIs, NumbersAssumption
<1>2. Rank(c, p) \in Nat /\ Rank(c, q) \in Nat
  BY RankIs
<1>3. ~ Prec(p, q) /\ ~ Prec(q, p)
  BY <1>2, RankOrder
<1>4. p[1] = q[1] /\ p[2] = q[2]
  BY <1>1, <1>3 DEF Prec
<1> QED
  BY <1>1, <1>4

-----------------------------------------------------------------------------
(* The entries of a command. *)

Entries(c) == {Entry(c, p) : p \in Places(c)}

LEMMA EntryInjective ==
  ASSUME NEW c \in Command, NEW p \in Places(c), NEW q \in Places(c), Entry(c, p) = Entry(c, q)
  PROVE  p = q
<1>1. Rank(c, p) - 1 = Rank(c, q) - 1
  BY DEF Entry
<1>2. Rank(c, p) \in Nat /\ Rank(c, q) \in Nat
  BY RankIs
<1>3. Rank(c, p) = Rank(c, q)
  BY <1>1, <1>2
<1> QED
  BY <1>3, RankInjective

LEMMA EntriesCount ==
  ASSUME NEW c \in Command
  PROVE  IsFiniteSet(Entries(c)) /\ Cardinality(Entries(c)) = Cardinality(Places(c))
<1>1. PICK f : f = [p \in Places(c) |-> Entry(c, p)]
  OBVIOUS
<1>2. Entries(c) = {f[p] : p \in Places(c)} /\ f \in [Places(c) -> {f[p] : p \in Places(c)}]
  BY Zenon, <1>1 DEF Entries
<1>3. \A p, q \in Places(c) : f[p] = f[q] => p = q
  BY <1>1, EntryInjective
<1> QED
  BY <1>2, <1>3, PlacesAre, ImageCount

\* The first event of a stream of a legal command.
LEMMA FirstPlace ==
  ASSUME NEW c \in Command, Legal(c), NEW i \in 1..Streams(c)
  PROVE  <<i, 1>> \in Places(c) /\ 1 \in 1..Size(c, i)
<1>1. StreamOK(c.streams[i])
  BY LegalIs DEF StreamsOK
<1>2. Size(c, i) \in 1..MaxVersion
  BY <1>1, SizeFits
<1>3. 1 \in 1..MaxVersion /\ 1 <= Size(c, i) /\ 1 \in 1..Size(c, i)
  BY <1>2, NumbersAssumption
<1> QED
  BY <1>3, PlacesAre

LEMMA LegalPlaces ==
  ASSUME NEW c \in Command, Legal(c), NEW i \in 1..Streams(c)
  PROVE  /\ Size(c, i) \in Nat /\ Size(c, i) >= 1 /\ c.streams[i].expected \in Nat
         /\ \A j \in 1..Size(c, i) : <<i, j>> \in Places(c)
<1>1. StreamOK(c.streams[i])
  BY LegalIs DEF StreamsOK
<1>2. Size(c, i) \in 1..MaxVersion /\ c.streams[i].expected \in Nat
  BY <1>1, SizeFits
<1>3. \A j \in 1..Size(c, i) : j \in 1..MaxVersion /\ j <= Size(c, i)
  BY <1>2, NumbersAssumption
<1> QED
  BY <1>2, <1>3, PlacesAre

-----------------------------------------------------------------------------
(* The stored events tell the streams. *)

SameKey(c, m, f, k) ==
  /\ c.streams[m].type = f.streams[k].type
  /\ c.streams[m].aggregate = f.streams[k].aggregate

\* Two places ask for the same event.
SameEvent(c, i, j, f, k, l) ==
  /\ SameKey(c, i, f, k)
  /\ c.streams[i].expected + j = f.streams[k].expected + l
  /\ c.streams[i].events[j] = f.streams[k].events[l]
  /\ Rank(c, <<i, j>>) - 1 = Rank(f, <<k, l>>) - 1

LEMMA EntrySame ==
  ASSUME NEW c, NEW i, NEW j, NEW f, NEW k, NEW l, Entry(c, <<i, j>>) = Entry(f, <<k, l>>)
  PROVE  SameEvent(c, i, j, f, k, l)
<1>1. PICK e : e = Entry(c, <<i, j>>)
  OBVIOUS
<1>2. /\ e.type = c.streams[i].type /\ e.aggregate = c.streams[i].aggregate
      /\ e.version = c.streams[i].expected + j /\ e.body = c.streams[i].events[j]
      /\ e.index = Rank(c, <<i, j>>) - 1
  BY <1>1 DEF Entry
<1>3. /\ e.type = f.streams[k].type /\ e.aggregate = f.streams[k].aggregate
      /\ e.version = f.streams[k].expected + l /\ e.body = f.streams[k].events[l]
      /\ e.index = Rank(f, <<k, l>>) - 1
  BY <1>1 DEF Entry
<1> QED
  BY Zenon, <1>2, <1>3 DEF SameEvent, SameKey

\* The events of one stream are events of the stream with its key.
LEMMA OneWay ==
  ASSUME NEW c \in Command, NEW f \in Command, Legal(c), Legal(f), Entries(c) \subseteq Entries(f),
         NEW m \in 1..Streams(c), NEW k \in 1..Streams(f), SameKey(c, m, f, k),
         NEW j \in 1..Size(c, m)
  PROVE  \E l \in 1..Size(f, k) :
           /\ c.streams[m].expected + j = f.streams[k].expected + l
           /\ c.streams[m].events[j] = f.streams[k].events[l]
           /\ Rank(c, <<m, j>>) = Rank(f, <<k, l>>)
<1>1. <<m, j>> \in Places(c)
  BY LegalPlaces
<1>2. PICK q \in Places(f) : Entry(c, <<m, j>>) = Entry(f, q)
  BY Zenon, <1>1 DEF Entries
<1>3. PICK x, y : x = q[1] /\ y = q[2] /\ q = <<x, y>>
  BY <1>2, PlacesAre
<1>4. x \in 1..Streams(f) /\ y \in 1..MaxVersion /\ y <= Size(f, x)
  BY <1>2, <1>3, PlacesAre
<1>5. /\ c.streams[m].type = f.streams[x].type
      /\ c.streams[m].aggregate = f.streams[x].aggregate
      /\ c.streams[m].expected + j = f.streams[x].expected + y
      /\ c.streams[m].events[j] = f.streams[x].events[y]
      /\ Rank(c, <<m, j>>) - 1 = Rank(f, <<x, y>>) - 1
  <2>1. Entry(c, <<m, j>>) = Entry(f, <<x, y>>)
    BY Zenon, <1>2, <1>3
  <2>2. SameEvent(c, m, j, f, x, y)
    BY Zenon, <2>1, EntrySame
  <2> QED
    BY Zenon, <2>2 DEF SameEvent, SameKey
<1>6. x = k
  <2>1. StreamsOK(f, Streams(f))
    BY LegalIs
  <2> QED
    BY <1>4, <1>5, <2>1 DEF StreamsOK, SameKey
<1>7. Rank(c, <<m, j>>) = Rank(f, <<x, y>>)
  <2>1. Rank(c, <<m, j>>) \in Nat /\ Rank(f, <<x, y>>) \in Nat
    BY RankIs
  <2> QED
    BY <1>5, <2>1
<1>8. y \in 1..Size(f, k)
  BY <1>4, <1>6, CommandIs, NumbersAssumption
<1> QED
  BY <1>5, <1>6, <1>7, <1>8

\* Streams with one key are the same stream.
LEMMA SameStream ==
  ASSUME NEW c \in Command, NEW f \in Command, Legal(c), Legal(f), Entries(c) = Entries(f),
         NEW m \in 1..Streams(c), NEW k \in 1..Streams(f), SameKey(c, m, f, k)
  PROVE  /\ c.streams[m] = f.streams[k]
         /\ Rank(c, <<m, 1>>) = Rank(f, <<k, 1>>)
<1>1. SameKey(f, k, c, m)
  BY DEF SameKey
<1>2. PICK a, b, v, w : /\ a = Size(c, m) /\ b = Size(f, k)
                        /\ v = c.streams[m].expected /\ w = f.streams[k].expected
  OBVIOUS
<1>3. a \in Nat /\ b \in Nat /\ a >= 1 /\ b >= 1 /\ v \in Nat /\ w \in Nat
  BY <1>2, LegalPlaces
<1>4. \A j \in 1..a : \E l \in 1..b : /\ v + j = w + l
                                      /\ c.streams[m].events[j] = f.streams[k].events[l]
                                      /\ Rank(c, <<m, j>>) = Rank(f, <<k, l>>)
  BY <1>2, OneWay
<1>5. \A l \in 1..b : \E j \in 1..a : w + l = v + j
  BY <1>1, <1>2, OneWay
<1>6. 1 \in 1..a /\ a \in 1..a /\ 1 \in 1..b /\ b \in 1..b
  BY <1>3
<1>7. v = w
  <2>1. PICK l \in 1..b : v + 1 = w + l
    BY <1>4, <1>6
  <2>2. PICK j \in 1..a : w + 1 = v + j
    BY <1>5, <1>6
  <2> QED
    BY <1>3, <2>1, <2>2
<1>8. a = b
  <2>1. PICK l \in 1..b : v + a = w + l
    BY <1>4, <1>6
  <2>2. PICK j \in 1..a : w + b = v + j
    BY <1>5, <1>6
  <2> QED
    BY <1>3, <1>7, <2>1, <2>2
<1>9. ASSUME NEW j \in 1..a
      PROVE  /\ c.streams[m].events[j] = f.streams[k].events[j]
             /\ Rank(c, <<m, j>>) = Rank(f, <<k, j>>)
  <2>1. PICK l \in 1..b : /\ v + j = w + l
                          /\ c.streams[m].events[j] = f.streams[k].events[l]
                          /\ Rank(c, <<m, j>>) = Rank(f, <<k, l>>)
    BY <1>4
  <2>2. l = j
    BY <1>3, <1>7, <2>1
  <2> QED
    BY <2>1, <2>2
<1>10. PICK s, t : s = c.streams[m] /\ t = f.streams[k]
  OBVIOUS
<1>11. s \in StreamInput /\ t \in StreamInput
  BY <1>10, CommandIs
<1>12. s.events = t.events
  <2>1. s.events \in Seq(Body) /\ t.events \in Seq(Body)
    BY <1>11 DEF StreamInput
  <2>2. Len(s.events) = a /\ Len(t.events) = a
    BY <1>2, <1>8, <1>10 DEF Size
  <2>3. \A j \in 1..Len(s.events) : s.events[j] = t.events[j]
    BY <1>9, <1>10, <2>2
  <2>4. Len(s.events) = Len(t.events)
    BY <2>2
  <2> QED
    BY Zenon, <2>1, <2>3, <2>4, SeqEqual
<1>13. s.type = t.type /\ s.aggregate = t.aggregate /\ s.expected = t.expected
  BY <1>2, <1>7, <1>10 DEF SameKey
<1>14. s = t
  BY <1>11, <1>12, <1>13 DEF StreamInput
<1> QED
  BY <1>6, <1>9, <1>10, <1>14

\* A stream has a counterpart, and the order of streams is the order of events.
LEMMA HasCounterpart ==
  ASSUME NEW c \in Command, NEW f \in Command, Legal(c), Legal(f), Entries(c) = Entries(f),
         NEW m \in 1..Streams(c)
  PROVE  \E k \in 1..Streams(f) : SameKey(c, m, f, k)
<1>1. <<m, 1>> \in Places(c)
  BY FirstPlace
<1>2. PICK q \in Places(f) : Entry(c, <<m, 1>>) = Entry(f, q)
  BY Zenon, <1>1 DEF Entries
<1>3. PICK x, y : q = <<x, y>> /\ x \in 1..Streams(f)
  BY <1>2, PlacesAre
<1>4. Entry(c, <<m, 1>>) = Entry(f, <<x, y>>)
  BY <1>2, <1>3
<1>5. SameKey(c, m, f, x)
  BY Zenon, <1>4, EntrySame DEF SameEvent
<1> QED
  BY <1>3, <1>5

LEMMA KeyOnce ==
  ASSUME NEW c \in Command, Legal(c), NEW i \in 1..Streams(c), NEW j \in 1..Streams(c),
         NEW f, NEW k, SameKey(c, i, f, k), SameKey(c, j, f, k)
  PROVE  i = j
BY LegalIs DEF StreamsOK, SameKey

LEMMA FirstRanks ==
  ASSUME NEW c \in Command, Legal(c), NEW i \in 1..Streams(c), NEW j \in 1..Streams(c), i < j
  PROVE  /\ Rank(c, <<i, 1>>) \in Nat /\ Rank(c, <<j, 1>>) \in Nat
         /\ Rank(c, <<i, 1>>) < Rank(c, <<j, 1>>)
<1>1. PICK p, q : p = <<i, 1>> /\ q = <<j, 1>>
  OBVIOUS
<1>2. p \in Places(c) /\ q \in Places(c)
  BY <1>1, FirstPlace
<1>3. Prec(p, q)
  BY <1>1 DEF Prec
<1> QED
  BY <1>1, <1>2, <1>3, RankOrder, RankIs

\* The streams of one command are the first ones of the other.
LEMMA PrefixOf ==
  ASSUME NEW c \in Command, NEW f \in Command, Legal(c), Legal(f), Entries(c) = Entries(f)
  PROVE  \A m \in 1..Streams(c) : m \in 1..Streams(f) /\ c.streams[m] = f.streams[m]
<1>1. PICK n, o : n = Streams(c) /\ o = Streams(f) /\ n \in Nat /\ o \in Nat
  BY CommandIs
<1>2. PICK Bad1 : Bad1 = {m \in 1..n : ~ (m \in 1..o /\ SameKey(c, m, f, m))}
  OBVIOUS
<1>3. Bad1 = {}
  <2>1. SUFFICES ASSUME Bad1 # {} PROVE FALSE
    OBVIOUS
  <2>2. Bad1 \in SUBSET Nat
    BY <1>2
  <2>3. PICK m \in Bad1 : \A x \in Bad1 : m <= x
    BY <2>1, <2>2, SmallestExists
  <2>4. m \in 1..n /\ ~ (m \in 1..o /\ SameKey(c, m, f, m))
    BY <1>2, <2>3
  <2>5. \A x \in 1..n : x < m => x \in 1..o /\ SameKey(c, x, f, x)
    BY <1>2, <2>3, <2>4
  <2>6. PICK k \in 1..o : SameKey(c, m, f, k)
    BY <1>1, <2>4, HasCounterpart
  <2>7. m < k
    <3>1. k # m
      BY <2>4, <2>6
    <3>2. ASSUME k < m PROVE FALSE
      <4>1. k \in 1..n /\ SameKey(c, k, f, k)
        BY <1>1, <2>4, <2>5, <2>6, <3>2
      <4>2. k = m
        BY <1>1, <2>4, <2>6, <4>1, KeyOnce
      <4> QED
        BY <3>1, <4>2
    <3> QED
      BY <1>1, <2>4, <2>6, <3>1, <3>2
  <2>8. m \in 1..o
    BY <1>1, <2>4, <2>6, <2>7
  <2>9. PICK l \in 1..n : SameKey(f, m, c, l)
    BY <1>1, <2>8, HasCounterpart
  <2>10. SameKey(c, l, f, m)
    BY <2>9 DEF SameKey
  <2>11. m < l
    <3>1. l # m
      BY <2>4, <2>8, <2>10
    <3>2. ASSUME l < m PROVE FALSE
      <4>1. l \in 1..o /\ SameKey(c, l, f, l)
        BY <1>1, <2>5, <2>8, <2>9, <3>2
      <4>2. SameKey(f, l, c, l)
        BY <4>1 DEF SameKey
      <4>3. l = m
        BY <1>1, <2>8, <2>9, <4>1, <4>2, KeyOnce
      <4> QED
        BY <3>1, <4>3
    <3> QED
      BY <1>1, <2>4, <2>9, <3>1, <3>2
  <2>12. Rank(c, <<m, 1>>) = Rank(f, <<k, 1>>) /\ Rank(c, <<l, 1>>) = Rank(f, <<m, 1>>)
    BY <1>1, <2>4, <2>6, <2>8, <2>9, <2>10, SameStream
  <2>13. /\ Rank(c, <<m, 1>>) \in Nat /\ Rank(c, <<l, 1>>) \in Nat
         /\ Rank(c, <<m, 1>>) < Rank(c, <<l, 1>>)
    BY <1>1, <2>4, <2>9, <2>11, FirstRanks
  <2>14. Rank(f, <<m, 1>>) < Rank(f, <<k, 1>>)
    BY <1>1, <2>6, <2>7, <2>8, FirstRanks
  <2> QED
    BY <2>12, <2>13, <2>14
<1>4. \A m \in 1..n : m \in 1..o /\ SameKey(c, m, f, m)
  BY <1>2, <1>3
<1> QED
  BY <1>1, <1>4, SameStream

\* The entries of a legal command tell its streams.
LEMMA EntriesTell ==
  ASSUME NEW c \in Command, NEW f \in Command, Legal(c), Legal(f), Entries(c) = Entries(f)
  PROVE  c.streams = f.streams
<1>1. PICK n, o : n = Streams(c) /\ o = Streams(f) /\ n \in Nat /\ o \in Nat
  BY CommandIs
<1>2. \A m \in 1..n : m \in 1..o /\ c.streams[m] = f.streams[m]
  BY <1>1, PrefixOf
<1>3. \A m \in 1..o : m \in 1..n
  BY <1>1, PrefixOf
<1>4. n = o
  <2>1. n >= 1 => n \in 1..n
    BY <1>1
  <2>2. o >= 1 => o \in 1..o
    BY <1>1
  <2> QED
    BY <1>1, <1>2, <1>3, <2>1, <2>2
<1>5. PICK s, t : s = c.streams /\ t = f.streams
  OBVIOUS
<1>6. s \in Seq(StreamInput) /\ t \in Seq(StreamInput)
  BY <1>5 DEF Command
<1>7. Len(s) = Len(t) /\ \A m \in 1..Len(s) : s[m] = t[m]
  BY <1>1, <1>2, <1>4, <1>5 DEF Streams
<1> QED
  BY Zenon, <1>5, <1>6, <1>7, SeqEqual

-----------------------------------------------------------------------------
(* The comparison. *)

LEMMA RowsCount ==
  ASSUME NEW c \in Command, NEW t
  PROVE  Cardinality(RowsOf(c, t)) = Cardinality(Places(c))
<1>1. PICK f : f = [p \in Places(c) |-> Row(c, t, p)]
  OBVIOUS
<1>2. RowsOf(c, t) = {f[p] : p \in Places(c)} /\ f \in [Places(c) -> {f[p] : p \in Places(c)}]
  BY Zenon, <1>1 DEF RowsOf
<1>3. ASSUME NEW p \in Places(c), NEW q \in Places(c), f[p] = f[q] PROVE p = q
  <2>1. Row(c, t, p) = Row(c, t, q)
    BY <1>1, <1>3
  <2>2. Entry(c, p) = Entry(c, q)
    BY <2>1 DEF Row
  <2> QED
    BY <2>2, EntryInjective
<1> QED
  BY <1>2, <1>3, PlacesAre, ImageCount

LEMMA SomePlace == ASSUME NEW c \in Command, Legal(c) PROVE <<1, 1>> \in Places(c)
<1>1. PICK ss : ss = c.streams
  OBVIOUS
<1>2. ss \in Seq(StreamInput) /\ ss # <<>>
  BY <1>1 DEF Command, Legal, HeaderOK
<1>3. 1 \in 1..Len(ss)
  BY <1>2
<1>4. 1 \in 1..Streams(c)
  BY <1>1, <1>3 DEF Streams
<1> QED
  BY <1>4, FirstPlace

\* eventMatches, for a command and the event of one of its places.
Matches(c, p, r) ==
  /\ r.event = Entry(c, p) /\ r.actor = c.actor /\ r.source = Source(c)
  /\ c.time # Absent => r.occurred = Micros(c.time)

LEMMA MatchForward ==
  ASSUME NEW c \in Command, NEW f \in Command, Legal(c), Legal(f), NEW t,
         f.time # Absent => t = Micros(f.time),
         Cardinality(RowsOf(f, t)) = Cardinality(Places(c)),
         \A p \in Places(c) : \E r \in RowsOf(f, t) : Matches(c, p, r)
  PROVE  SameMeaning(f, c)
<1>1. ASSUME NEW p \in Places(c)
      PROVE  \E q \in Places(f) : Entry(c, p) = Entry(f, q) /\ Matches(c, p, Row(f, t, q))
  <2>1. PICK r \in RowsOf(f, t) : Matches(c, p, r)
    OBVIOUS
  <2>2. PICK q \in Places(f) : r = Row(f, t, q)
    BY <2>1 DEF RowsOf
  <2>3. Entry(c, p) = Entry(f, q)
    BY <2>1, <2>2 DEF Matches, Row
  <2> QED
    BY <2>1, <2>2, <2>3
<1>2. Entries(c) = Entries(f)
  <2>1. PICK A, B : A = Entries(c) /\ B = Entries(f)
    OBVIOUS
  <2>2. A \in SUBSET B
    BY <1>1, <2>1 DEF Entries
  <2>3. IsFiniteSet(B) /\ Cardinality(A) = Cardinality(B)
    BY <2>1, EntriesCount, RowsCount
  <2> QED
    BY <2>1, <2>2, <2>3, FS_Subset
<1>3. c.streams = f.streams
  BY <1>2, EntriesTell
<1>4. PICK q : Matches(c, <<1, 1>>, Row(f, t, q))
  BY <1>1, SomePlace
<1>5. /\ f.actor = c.actor /\ Source(f) = Source(c)
      /\ c.time # Absent => t = Micros(c.time)
  BY <1>4 DEF Matches, Row
<1>6. f.time = Absent <=> c.time = Absent
  BY <1>5 DEF Source
<1> QED
  BY <1>3, <1>5, <1>6 DEF SameMeaning

LEMMA MatchBack ==
  ASSUME NEW c \in Command, NEW f \in Command, NEW t,
         f.time # Absent => t = Micros(f.time), SameMeaning(f, c)
  PROVE  /\ Cardinality(RowsOf(f, t)) = Cardinality(Places(c))
         /\ \A p \in Places(c) : \E r \in RowsOf(f, t) : Matches(c, p, r)
<1>1. c.streams = f.streams
  BY DEF SameMeaning
<1>2. Places(c) = Places(f)
  BY Zenon, <1>1 DEF Places
<1>3. ASSUME NEW p \in Places(c) PROVE Entry(c, p) = Entry(f, p)
  <2>1. Rank(c, p) = Rank(f, p)
    BY Zenon, <1>2 DEF Rank
  <2> QED
    BY Zenon, <1>1, <2>1 DEF Entry
<1>4. ASSUME NEW p \in Places(c) PROVE \E r \in RowsOf(f, t) : Matches(c, p, r)
  <2>1. Row(f, t, p) \in RowsOf(f, t)
    BY <1>2 DEF RowsOf
  <2>2. Source(f) = Source(c) /\ f.actor = c.actor /\ (c.time # Absent => t = Micros(c.time))
    BY DEF Source, SameMeaning
  <2>3. Matches(c, p, Row(f, t, p))
    BY <1>3, <2>2 DEF Matches, Row
  <2> QED
    BY <2>1, <2>3
<1> QED
  BY <1>2, <1>4, RowsCount

\* The prepared events are those of the places.
LEMMA PreparedAre ==
  ASSUME NEW c \in Command, NEW s, Numbered(s, c, Places(c))
  PROVE  /\ Len(s) = Cardinality(Places(c))
         /\ \A i \in DOMAIN s : \E p \in Places(c) : s[i] = Entry(c, p)
         /\ \A p \in Places(c) : \E i \in DOMAIN s : s[i] = Entry(c, p)
<1>1. DOMAIN s = 1..Len(s)
  <2>1. PICK S : s \in Seq(S)
    BY DEF Numbered
  <2> QED
    BY <2>1
<1>2. PICK n : n = Len(s)
  OBVIOUS
<1>3. /\ n = Cardinality(Places(c))
      /\ \A p \in Places(c) : Rank(c, p) \in 1..n /\ s[Rank(c, p)] = Entry(c, p)
      /\ \A i \in 1..n : \E p \in Places(c) : Rank(c, p) = i
  BY <1>2 DEF Numbered
<1> QED
  BY <1>1, <1>2, <1>3

\* The comparison tells whether the command is the one that was stored.
LEMMA MatchesSame ==
  ASSUME WInv, pc = "lookup", NEW f \in Command, Legal(f), NEW t,
         f.time # Absent => t = Micros(f.time), Existing = RowsOf(f, t)
  PROVE  CommandMatches <=> SameMeaning(f, command)
<1>1. PICK c, R : c = command /\ R = RowsOf(f, t)
  OBVIOUS
<1>2. c \in Command /\ Legal(c) /\ Numbered(prepared, c, Places(c))
  BY <1>1, WalkEnds
<1>3. /\ Len(prepared) = Cardinality(Places(c))
      /\ \A i \in DOMAIN prepared : \E p \in Places(c) : prepared[i] = Entry(c, p)
      /\ \A p \in Places(c) : \E i \in DOMAIN prepared : prepared[i] = Entry(c, p)
  BY <1>2, PreparedAre
<1>4. \A p, r : EventMatches(Entry(c, p), r) <=> Matches(c, p, r)
  BY <1>1 DEF EventMatches, Matches, Occurred
<1>5. CommandMatches <=> /\ Cardinality(R) = Cardinality(Places(c))
                         /\ \A i \in DOMAIN prepared : \E r \in R : EventMatches(prepared[i], r)
  BY Zenon, <1>1, <1>3 DEF CommandMatches
<1>6. (\A i \in DOMAIN prepared : \E r \in R : EventMatches(prepared[i], r))
        <=> \A p \in Places(c) : \E r \in R : Matches(c, p, r)
  BY Zenon, <1>3, <1>4
<1> QED
  BY <1>1, <1>2, <1>5, <1>6, MatchForward, MatchBack

-----------------------------------------------------------------------------
(* Every step keeps the store. *)

LEMMA TransactStore == ASSUME IInv, Transact PROVE StoreOK' /\ ReplayIffSame'
<1>1. PICK c : c = command
  OBVIOUS
<1>2. /\ pc = "lookup" /\ WInv /\ StoreOK /\ command' = command
      /\ c \in Command /\ Legal(c) /\ Numbered(prepared, c, Places(c))
  BY <1>1, WalkEnds DEF IInv, Transact
<1>3. Existing = StoredOf(c)
  BY <1>1 DEF Existing, StoredOf
<1>4. ASSUME NEW f \in sent, f.owner = c.owner, f.id = c.id PROVE Existing # {}
  <2>1. f \in Command /\ Legal(f)
    BY <1>2 DEF StoreOK
  <2>2. PICK t : StoredOf(f) = RowsOf(f, t)
    BY <1>2 DEF StoreOK
  <2>3. RowsOf(f, t) # {}
    BY <2>1, SomePlace DEF RowsOf
  <2> QED
    BY <1>3, <1>4, <2>2, <2>3 DEF StoredOf
<1>5. CASE Existing # {}
  <2>1. /\ UNCHANGED <<stored, sent>>
        /\ verdict' = IF CommandMatches THEN "replayed" ELSE "conflict"
    BY <1>5 DEF Transact, Return
  <2>2. PICK f \in sent : f.owner = c.owner /\ f.id = c.id
    BY <1>2, <1>3, <1>5 DEF StoreOK, StoredOf
  <2>3. PICK t : StoredOf(f) = RowsOf(f, t) /\ (f.time # Absent => t = Micros(f.time))
    BY <1>2 DEF StoreOK
  <2>4. Existing = RowsOf(f, t)
    BY <1>3, <2>2, <2>3 DEF StoredOf
  <2>5. f \in Command /\ Legal(f)
    BY <1>2 DEF StoreOK
  <2>6. CommandMatches <=> SameMeaning(f, command)
    BY <1>2, <2>3, <2>4, <2>5, MatchesSame
  <2>7. ReplayIffSame'
    BY <1>1, <1>2, <2>1, <2>2, <2>6 DEF ReplayIffSame, SameMeaning
  <2>8. StoreOK'
    BY <1>2, <2>1 DEF StoreOK, StoredOf
  <2> QED
    BY <2>7, <2>8
<1>6. CASE Existing = {}
  <2>1. verdict' \notin {"replayed", "conflict"}
    BY <1>6 DEF Transact, Return
  <2>2. CASE UNCHANGED <<stored, sent>>
    BY <1>2, <2>1, <2>2 DEF StoreOK, StoredOf, ReplayIffSame
  <2>3. CASE ~ UNCHANGED <<stored, sent>>
    <3>1. stored' = stored \cup Rows /\ sent' = sent \cup {c}
      BY <1>1, <1>6, <2>3 DEF Transact
    <3>2. PICK t : t = Occurred(c)
      OBVIOUS
    <3>3. Rows = RowsOf(c, t)
      <4>1. /\ \A i \in DOMAIN prepared : \E p \in Places(c) : prepared[i] = Entry(c, p)
            /\ \A p \in Places(c) : \E i \in DOMAIN prepared : prepared[i] = Entry(c, p)
        BY <1>2, PreparedAre
      <4>2. PICK W : W = [e \in {prepared[i] : i \in DOMAIN prepared} |->
                            [id |-> c.id, owner |-> c.owner, actor |-> c.actor, occurred |-> t,
                             source |-> Source(c), event |-> e]]
        OBVIOUS
      <4>3. Rows = {W[prepared[i]] : i \in DOMAIN prepared}
        BY <1>1, <3>2, <4>2 DEF Rows
      <4>4. \A p \in Places(c) : W[Entry(c, p)] = Row(c, t, p)
        BY <4>1, <4>2 DEF Row
      <4>5. RowsOf(c, t) = {W[Entry(c, p)] : p \in Places(c)}
        BY <4>4 DEF RowsOf
      <4> QED
        BY <4>1, <4>3, <4>5
    <3>4. \A r \in Rows : r.owner = c.owner /\ r.id = c.id /\ r.occurred = t
      BY <3>3 DEF RowsOf, Row
    <3>5. StoredOf(c)' = RowsOf(c, t)
      BY <1>3, <1>6, <3>1, <3>3, <3>4 DEF StoredOf
    <3>6. ASSUME NEW f \in sent PROVE StoredOf(f)' = StoredOf(f)
      <4>1. ~ (f.owner = c.owner /\ f.id = c.id)
        BY <1>4, <1>6
      <4> QED
        BY <3>1, <3>4, <4>1 DEF StoredOf
    <3>7. c.time # Absent => t = Micros(c.time)
      BY <3>2 DEF Occurred
    <3>8. t \in {r.occurred : r \in stored'}
      <4>1. Row(c, t, <<1, 1>>) \in stored'
        BY <1>2, <3>1, <3>3, SomePlace DEF RowsOf
      <4>2. Row(c, t, <<1, 1>>).occurred = t
        BY DEF Row
      <4> QED
        BY <4>1, <4>2
    <3>9. ASSUME NEW f \in sent
          PROVE  /\ f \in Command /\ Legal(f)
                 /\ \E v \in {r.occurred : r \in stored'} :
                      /\ StoredOf(f)' = RowsOf(f, v)
                      /\ f.time # Absent => v = Micros(f.time)
      <4>1. /\ f \in Command /\ Legal(f)
            /\ \E v \in {r.occurred : r \in stored} :
                 /\ StoredOf(f) = RowsOf(f, v)
                 /\ f.time # Absent => v = Micros(f.time)
        BY <1>2 DEF StoreOK
      <4>2. {r.occurred : r \in stored} \subseteq {r.occurred : r \in stored'}
        BY <3>1
      <4> QED
        BY <3>6, <4>1, <4>2
    <3>10. ASSUME NEW r \in stored' PROVE \E f \in sent' : r.owner = f.owner /\ r.id = f.id
      <4>1. CASE r \in stored
        BY <1>2, <3>1, <4>1 DEF StoreOK
      <4>2. CASE r \in Rows
        BY <3>1, <3>4, <4>2
      <4> QED
        BY <3>1, <4>1, <4>2
    <3>11. ASSUME NEW f \in sent'
           PROVE  /\ f \in Command /\ Legal(f)
                  /\ \E v \in {r.occurred : r \in stored'} :
                       /\ StoredOf(f)' = RowsOf(f, v)
                       /\ f.time # Absent => v = Micros(f.time)
      <4>1. CASE f \in sent
        BY <3>9, <4>1
      <4>2. CASE f = c
        BY <1>2, <3>5, <3>7, <3>8, <4>2
      <4> QED
        BY <3>1, <4>1, <4>2
    <3>12. StoreOK'
      BY <3>10, <3>11 DEF StoreOK
    <3> QED
      BY <2>1, <3>12 DEF ReplayIffSame
  <2> QED
    BY <2>2, <2>3
<1> QED
  BY <1>5, <1>6

LEMMA InitInv == Init => IInv
<1> SUFFICES ASSUME Init PROVE IInv
  OBVIOUS
<1>1. WInv
  BY DEF Init, WInv, WalkOK, Walk
<1>2. StoreOK /\ ReplayIffSame
  BY DEF Init, StoreOK, ReplayIffSame
<1> QED
  BY <1>1, <1>2 DEF IInv

LEMMA StepInv == IInv /\ [Next]_vars => IInv'
<1> SUFFICES ASSUME IInv, [Next]_vars PROVE IInv'
  OBVIOUS
<1>1. CASE UNCHANGED vars
  <2>1. WInv'
    BY <1>1 DEF IInv, WInv, vars, WalkOK, Walk, Stream
  <2>2. StoreOK' /\ ReplayIffSame'
    BY <1>1 DEF IInv, vars, StoreOK, StoredOf, ReplayIffSame
  <2> QED
    BY <2>1, <2>2 DEF IInv
<1>2. CASE (\E c \in Input : Call(c)) \/ CheckStream \/ PrepareEvent \/ NextStream \/ Done
  <2>1. WInv'
    BY <1>2, CallStep, CheckStreamStep, PrepareEventStep, NextStreamStep, LastSteps DEF IInv
  <2>2. UNCHANGED <<stored, sent>> /\ verdict' \notin {"replayed", "conflict"}
    <3>1. verdict = "none" \/ Done \/ \E c \in Input : Call(c)
      BY <1>2 DEF IInv, WInv, CheckStream, PrepareEvent, NextStream
    <3> QED
      BY <1>2, <3>1 DEF Call, CheckStream, PrepareEvent, NextStream, Done, Stay, Return
  <2>3. StoreOK' /\ ReplayIffSame'
    BY <2>2 DEF IInv, StoreOK, StoredOf, ReplayIffSame
  <2> QED
    BY <2>1, <2>3 DEF IInv
<1>3. CASE Transact
  BY <1>3, LastSteps, TransactStore DEF IInv
<1> QED
  BY <1>1, <1>2, <1>3 DEF Next

LEMMA WalkInv == Spec => []IInv
BY InitInv, StepInv, PTL DEF Spec

-----------------------------------------------------------------------------
(***************************************************************************)
(* prepare refuses exactly the illegal commands, wherever the defect is,   *)
(* and numbers the others as their streams ask: versions follow the        *)
(* expected one without wrapping, indexes the order of the whole command.  *)
(***************************************************************************)
THEOREM PreparesExactly == Spec => []PrepareIsExact
<1>1. ASSUME IInv PROVE PrepareIsExact
  <2>1. verdict = "invalid" => ~ Legal(command)
    BY <1>1 DEF IInv, WInv
  <2>2. ASSUME pc = "lookup"
        PROVE  /\ Legal(command)
               /\ Len(prepared) = Cardinality(Places(command))
               /\ \A p \in Places(command) :
                    LET st == command.streams[p[1]]
                        e  == prepared[Rank(command, p)]
                    IN /\ e.type = st.type /\ e.aggregate = st.aggregate
                       /\ e.version = st.expected + p[2] /\ e.body = st.events[p[2]]
                       /\ e.index = Rank(command, p) - 1
    <3>1. Legal(command) /\ Numbered(prepared, command, Places(command))
      BY <1>1, <2>2, WalkEnds DEF IInv
    <3>2. Len(prepared) = Cardinality(Places(command))
      BY <3>1 DEF Numbered
    <3>3. \A p \in Places(command) : prepared[Rank(command, p)] = Entry(command, p)
      BY <3>1 DEF Numbered
    <3>4. ASSUME NEW p \in Places(command)
          PROVE  LET st == command.streams[p[1]]
                     e  == Entry(command, p)
                 IN /\ e.type = st.type /\ e.aggregate = st.aggregate
                    /\ e.version = st.expected + p[2] /\ e.body = st.events[p[2]]
                    /\ e.index = Rank(command, p) - 1
      BY DEF Entry
    <3> QED
      BY Zenon, <3>1, <3>2, <3>3, <3>4
  <2> QED
    BY <2>1, <2>2 DEF PrepareIsExact
<1> QED
  BY <1>1, WalkInv, PTL

(***************************************************************************)
(* A second command with the identifier of a stored one is answered as a   *)
(* replay if and only if it is the same command: the stored events tell    *)
(* the streams, their order and versions, the actor and an explicit time.  *)
(***************************************************************************)
THEOREM ReplaysTheSame == Spec => []ReplayIffSame
<1>1. IInv => ReplayIffSame
  BY DEF IInv
<1> QED
  BY <1>1, WalkInv, PTL
=============================================================================
