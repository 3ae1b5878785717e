---------------------------- MODULE MCDailyReward ----------------------------
(***************************************************************************)
(* Instances of DailyReward for TLC: the two runs that find a violation.   *)
(* MCFrontend checks what holds.                                           *)
(***************************************************************************)
EXTENDS DailyReward

CONSTANTS s1, s2
=============================================================================
