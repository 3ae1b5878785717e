--------------------------- MODULE MCDailySummary ---------------------------
(***************************************************************************)
(* Instances of DailySummary for TLC: two users, of whom one is busy, and  *)
(* payloads of every kind that applyEvent tells apart.                     *)
(***************************************************************************)
EXTENDS DailySummary

CONSTANTS s1, s2, ann, bob, Least

Of(u, t, v) == [owner |-> u, type |-> t, schema |-> 1, value |-> v]

\* Least is a number below zero, written as 0 - Least in the set of values.
Values == {0 - Least, 0, 1, 2}

AllPayloads ==
  {Of(ann, ExperienceGranted, 1), Of(ann, ExperienceGranted, 2), Of(ann, ExperienceGranted, 0 - Least),
   Of(ann, CoinsGranted, 2), Of(ann, GameSessionCompleted, 1),
   Of(ann, GameSessionCompleted, 0 - Least), Of(ann, RewardGranted, 1),
   [Of(ann, RewardGranted, 0) EXCEPT !.schema = 2], Of(ann, "PET_FED", 1),
   Of(bob, CoinsGranted, 1)}

FewPayloads == {Of(ann, ExperienceGranted, 2), Of(ann, RewardGranted, 0)}

OnePayload == {Of(ann, ExperienceGranted, 2)}
=============================================================================
