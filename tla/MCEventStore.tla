---------------------------- MODULE MCEventStore ----------------------------
(***************************************************************************)
(* Instances of EventStore for TLC.                                        *)
(***************************************************************************)
EXTENDS EventStore

CONSTANTS s1, s2, ann, bob, k1, k2, pet, game, x, y

Event(st, v, b) == [stream |-> st, version |-> v, body |-> b]

\* ann creates her pet; the same key with another payload; the next version
\* of the pet with the first one of a game; bob's attempt at ann's pet under
\* a key that ann uses too.
create  == [owner |-> ann, id |-> k1, events |-> <<Event(pet, 1, x)>>]
altered == [owner |-> ann, id |-> k1, events |-> <<Event(pet, 1, y)>>]
package == [owner |-> ann, id |-> k2, events |-> <<Event(pet, 2, x), Event(game, 1, y)>>]
longer  == [owner |-> ann, id |-> k1, events |-> <<Event(pet, 1, x), Event(pet, 2, x)>>]
steal   == [owner |-> bob, id |-> k1, events |-> <<Event(pet, 1, x)>>]
extend  == [owner |-> bob, id |-> k2, events |-> <<Event(game, 1, x), Event(pet, 2, y)>>]

AllCommands == {create, altered, package, longer, steal, extend}

\* One command per transaction, and outer transactions of two commands:
\* a sequence, its reverse, and the same command twice.
OuterPlans == {<<create, package>>, <<package, create>>, <<create, create>>}
AllPlans   == {<<c>> : c \in AllCommands} \cup OuterPlans
=============================================================================
