----------------------------- MODULE MCFrontend -----------------------------
(***************************************************************************)
(* The frontend and the daily reward service behind one of its pages, for  *)
(* TLC: the session of a browser, the pet page, the rewards page, and the  *)
(* service alone over more time than the page is given.                    *)
(* They share no variable (but for the service), and an initial state      *)
(* chooses which of them runs, so that one run explores each in full.      *)
(***************************************************************************)
EXTENDS BrowserSession, PetPage, RewardsPage, TLC

CONSTANTS
  t1, t2, f1, f2, s1, s2, ann, bob, cat1, cat2,
  CalendarClock, CalendarClaims   \* bounds of the service alone

VARIABLE focus

C == INSTANCE DailyReward WITH MaxClock <- CalendarClock, MaxClaims <- CalendarClaims

Kitten == [hunger |-> 3, energy |-> 2, happiness |-> 3, experience |-> 1]

\* Bound: at any time one form at most is awaited for each account.
FormOf == ann :> f1 @@ bob :> f2

Symmetry ==
  Permutations(Tab) \cup {ann :> bob @@ bob :> ann @@ f1 :> f2 @@ f2 :> f1}

FrontendInit ==
  /\ focus \in {"session", "pet", "rewards", "calendar"}
  /\ SessionInit /\ PetInit /\ PageInit

SessionStep ==
  /\ focus = "session" /\ SessionNext
  /\ \A f \in Form : Awaited(f)' => f = FormOf[form'[f].about]
  /\ UNCHANGED <<focus, petVars, vars, pageVars>>

PetStep ==
  /\ focus = "pet" /\ PetNext
  /\ UNCHANGED <<focus, sessionVars, vars, pageVars>>

RewardsStep ==
  /\ focus = "rewards" /\ PageNext
  /\ UNCHANGED <<focus, sessionVars, petVars>>

CalendarStep ==
  /\ focus = "calendar" /\ C!Next
  /\ UNCHANGED <<focus, sessionVars, petVars, pageVars>>

FrontendNext == SessionStep \/ PetStep \/ RewardsStep \/ CalendarStep

FrontendSpec == FrontendInit /\ [][FrontendNext]_<<focus, sessionVars, petVars, vars, pageVars>>
=============================================================================
