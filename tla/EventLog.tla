------------------------------ MODULE EventLog ------------------------------
(***************************************************************************)
(* What the event store promises to its readers: one totally ordered,      *)
(* append-only log.  A transaction takes effect at once and as a whole:    *)
(* each of its commands either is already in the log, word for word, or    *)
(* its events follow the log in one block, each of them the next version   *)
(* of its owner's stream.  Module EventStore is shown to implement it.     *)
(***************************************************************************)
EXTENDS Integers, Sequences

CONSTANT Plan     \* sequences of prepared commands, as in EventStore

VARIABLE log      \* the events in the order of their global positions

Entry(c, i) == [owner |-> c.owner, id |-> c.id, index |-> i - 1,
                stream |-> c.events[i].stream, version |-> c.events[i].version,
                body |-> c.events[i].body]

Entries(c) == [i \in 1..Len(c.events) |-> Entry(c, i)]

Recorded(l, c) == \E p \in DOMAIN l : l[p].owner = c.owner /\ l[p].id = c.id

Positions(l, c) == {p \in DOMAIN l : l[p].owner = c.owner /\ l[p].id = c.id}

\* The command is in the log, complete and unchanged.
Replayed(l, c) == {l[p] : p \in Positions(l, c)} = {Entry(c, i) : i \in DOMAIN c.events}

\* Event e of owner o is the next one of its stream, and the stream is o's.
Continues(l, o, e) ==
  LET past == {p \in DOMAIN l : l[p].stream = e.stream}
  IN /\ {l[p].version : p \in past} = 1..(e.version - 1)
     /\ \A p \in past : l[p].owner = o

Fits(l, c) ==
  /\ ~Recorded(l, c)
  /\ \A i \in DOMAIN c.events :
       Continues(l \o SubSeq(Entries(c), 1, i - 1), c.owner, c.events[i])

Publish(p) ==
  LET after[i \in 0..Len(p)] ==
        IF i = 0 THEN log
        ELSE IF Recorded(after[i - 1], p[i]) THEN after[i - 1]
        ELSE after[i - 1] \o Entries(p[i])
  IN /\ \A i \in DOMAIN p : Replayed(after[i - 1], p[i]) \/ Fits(after[i - 1], p[i])
     /\ log' = after[Len(p)]

Init == log = <<>>
Next == \E p \in Plan : Publish(p)
Spec == Init /\ [][Next]_log
=============================================================================
