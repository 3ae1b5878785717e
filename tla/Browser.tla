------------------------------- MODULE Browser -------------------------------
(***************************************************************************)
(* What the parts of the frontend share: the tabs of one browser, and the  *)
(* localStorage they all read, where an item may be missing.               *)
(***************************************************************************)
CONSTANTS
  Tab,        \* tabs of the browser
  Nothing     \* nothing in localStorage; no token, no user, no pet
=============================================================================
