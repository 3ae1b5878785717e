-------------------------- MODULE MCPublishCommand --------------------------
(***************************************************************************)
(* Instances of PublishCommand for TLC: legal commands of one and two      *)
(* streams with every variation a replay can have, and commands with one   *)
(* defect each, placed at the start, in the middle and at the end.         *)
(***************************************************************************)
EXTENDS PublishCommand

CONSTANTS ann, bob, k1, k2, x, y

B(t, n) == [type |-> t, number |-> n, whole |-> TRUE, small |-> TRUE]

pet   == B("PET_CREATED", 0)
level == B("LEVEL_REACHED", 1)
coins == B("COINS_GRANTED", 1)
game  == B("GAME_SESSION_COMPLETED", 0)
gone  == B("REWARD_EXPIRED", -1)

BadBodies ==
  {B("", 0), B("LEVEL_REACHED", 0), B("COINS_GRANTED", 0), B("EXPERIENCE_GRANTED", -1),
   B("GAME_SESSION_COMPLETED", -1), [pet EXCEPT !.whole = FALSE],
   [gone EXCEPT !.whole = FALSE], [game EXCEPT !.small = FALSE]}

S(t, a, v, es) == [type |-> t, aggregate |-> a, expected |-> v, events |-> es]

Bodies == {pet, level, coins, game, gone} \cup BadBodies

OneStream == {<<S("PET", x, v, es)>> : v \in {-1, 0, 3, 4, 5},
              es \in {<<>>, <<pet>>, <<pet, coins>>, <<coins, pet>>, <<level, level, coins>>,
                      <<level, level, coins, game>>}}

TwoStreams ==
  {<<S(t, x, 0, es), S("PET", a, v, fs)>> :
     t \in {"PET", "REWARD", "OTHER"}, a \in {x, y, Nil}, v \in {0, 4, 5},
     es \in {<<gone>>, <<gone, game>>}, fs \in {<<coins>>, <<coins, pet>>}}
  \cup {<<S("REWARD", x, 0, <<gone>>), S("PET", y, 0, <<level, b>>)>> : b \in Bodies}

C(i, o, act, t, sts) == [id |-> i, owner |-> o, actor |-> act, time |-> t, streams |-> sts]

Plain == {C(k1, ann, Absent, Absent, sts) : sts \in OneStream \cup TwoStreams}

Headers == {C(i, o, act, t, <<S("PET", x, 0, <<pet>>)>>) :
             i \in {k1, Nil}, o \in {ann, bob, Nil}, act \in {ann, bob, Nil, Absent},
             t \in {Absent, 0, 2, 3, 4}}
           \cup {C(k2, bob, Absent, 2, <<>>)}

AllInputs == Plain \cup Headers
=============================================================================
