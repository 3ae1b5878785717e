--------------------------- MODULE MCRewardGrants ---------------------------
(***************************************************************************)
(* Instances of RewardGrants for TLC: two tasks share a reward, as in the  *)
(* catalog of migration 000008, which is also issued directly.             *)
(***************************************************************************)
EXTENDS RewardGrants, TLC

CONSTANTS s1, s2, s3, ann, login, open, coins, promo

Shared == (login :> coins) @@ (open :> coins)

\* coins is valid for a day; promo is not active any more.
LevelOne == (coins :> 1) @@ (promo :> 1)

CoinsForADay == (coins :> 1) @@ (promo :> None)
=============================================================================
