---------------------------- MODULE MCLeaderboard ----------------------------
(***************************************************************************)
(* An instance of Ranking, and with it of Leaderboard, for TLC.  The       *)
(* initial state chooses what it is about.                                 *)
(*                                                                         *)
(* "tables": two workers, and logs of events of every kind that applyEvent *)
(* tells apart, of which one may be malformed.  Both users may claim one   *)
(* pet, so that only the ownership of streams keeps a batch from failing   *)
(* for ever.  No history is kept.                                          *)
(*                                                                         *)
(* "ranks": one worker, and longer logs that fill one of the views: two    *)
(* pets that pass each other, or scores of three users that tie and grow.  *)
(***************************************************************************)
EXTENDS Ranking

CONSTANTS
  w1, w2, ann, bob, cid, rex, tom, max,
  TableEvents, RankEvents   \* bounds: events in the log under each focus

VARIABLE focus

Values == -1..4

Pet(t, u, id, v) == [type |-> t, schema |-> 1, kind |-> "PET", owner |-> u,
                     aggregate |-> id, session |-> id, value |-> v]
Game(u, id, v) == [type |-> GameSessionCompleted, schema |-> 1, kind |-> "GAME_SESSION",
                   owner |-> u, aggregate |-> id, session |-> id, value |-> v]

WellFormed ==
  {Pet(PetCreated, ann, rex, 1), Pet(PetCreated, bob, rex, 1), Pet(LevelReached, ann, rex, 3),
   Game(ann, rex, 0), Game(ann, rex, 2), Game(bob, tom, 2)}

Malformed ==
  {Pet(LevelReached, ann, rex, 4),
   [Pet(PetCreated, ann, rex, 1) EXCEPT !.schema = 2],
   [Pet(LevelReached, ann, rex, 2) EXCEPT !.kind = "GAME_SESSION"],
   [Game(ann, rex, 3) EXCEPT !.session = tom], [Game(ann, rex, 3) EXCEPT !.session = Nobody],
   Game(ann, rex, -1), Pet(Other, ann, rex, 1)}

Contested ==
  {Pet(PetCreated, ann, rex, 1), Pet(PetCreated, bob, tom, 1),
   Pet(LevelReached, ann, rex, 3), Pet(LevelReached, bob, tom, 3),
   Game(ann, rex, 2), Game(ann, rex, 3), Game(bob, tom, 2), Game(cid, max, 3)}

AllEvents == WellFormed \cup Malformed \cup Contested

\* The log keeps within bound and kinds when it grows.
GrowsBy(kinds, bound) == log' # log => Len(log') <= bound /\ log'[Len(log')] \in kinds

AtMostOneMalformed ==
  \A p, q \in DOMAIN log : {log[p], log[q]} \subseteq Malformed => p = q

OneView == \A p, q \in DOMAIN log : log[p].kind = log[q].kind

TableStep ==
  /\ focus = "tables" /\ Next
  /\ GrowsBy(WellFormed \cup Malformed, TableEvents) /\ AtMostOneMalformed'
  /\ UNCHANGED <<focus, reached>>

RankStep ==
  /\ focus = "ranks" /\ Next /\ Remember
  /\ GrowsBy(Contested, RankEvents) /\ OneView' /\ pc'[w2] = "idle"
  /\ UNCHANGED focus

MCInit == Init /\ reached = EmptyModel /\ focus \in {"tables", "ranks"}

MCSpec == MCInit /\ [][TableStep \/ RankStep]_<<RankingVars, focus>> /\ Fairness
=============================================================================
