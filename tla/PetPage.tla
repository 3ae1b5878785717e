------------------------------- MODULE PetPage -------------------------------
(***************************************************************************)
(* The pet of a browser: the Pet page (pages/Pet/Pet.tsx and PetControls)  *)
(* in any number of tabs, which all keep it in localStorage.               *)
(*                                                                         *)
(* A click is rendered and saved before the next event.  The timer's       *)
(* update is queued and rendered later, and a click that comes in between  *)
(* is rendered without it first and then again after it (React 18 skips an *)
(* update of lower priority and rebases).  due is what the pet will be     *)
(* when the queue is empty.  Captions, level, health and streak are never  *)
(* changed by the page and left out.                                       *)
(***************************************************************************)
EXTENDS Browser, Integers

CONSTANTS
  Look,       \* images of PetActions
  Max,        \* 100
  Hungry,     \* 30: below it the mood falls
  Meal,       \* 20: what feeding adds to hunger
  MealMood,   \* 5
  MealExp,    \* 10
  Effort,     \* 20: what playing costs
  PlayMood,   \* 10
  PlayExp,    \* 20
  NewPet,     \* initialPet
  NewLook,    \* "/cat.png"
  MaxExp      \* bound: experience a pet collects

Need == 0..Max

Pet == [hunger : Need, energy : Need, happiness : Need, experience : Nat]

ASSUME PetAssumption ==
  /\ Max \in Nat /\ Hungry \in Nat /\ Effort \in Nat /\ MaxExp \in Nat
  /\ Meal \in Nat /\ MealMood \in Nat /\ MealExp \in Nat
  /\ PlayMood \in Nat /\ PlayExp \in Nat
  /\ NewPet \in Pet /\ NewLook \in Look
  /\ Nothing \notin Pet /\ Nothing \notin Look

VARIABLES
  savedPet,   \* localStorage "pet"
  savedLook,  \* localStorage "selectedPet"
  page,       \* per tab: the stage of the page's life
  drawn,      \* the pet as rendered, which the next click reads
  due,        \* the pet once the queued updates have run
  look,       \* selectedPet of a tab
  earned,     \* history: experience of all clicks that were accepted
  chosen,     \* history: the look chosen last
  together    \* history: two tabs had the page open at once

petVars == <<savedPet, savedLook, page, drawn, due, look, earned, chosen, together>>

PetTypeOK ==
  /\ savedPet \in Pet \cup {Nothing} /\ savedLook \in Look \cup {Nothing}
  /\ page \in [Tab -> {"closed", "rendered", "open"}]
  /\ drawn \in [Tab -> Pet] /\ due \in [Tab -> Pet]
  /\ look \in [Tab -> Look]
  /\ earned \in 0..MaxExp /\ chosen \in Look /\ together \in BOOLEAN

-----------------------------------------------------------------------------
Least(a, b) == IF a < b THEN a ELSE b
Greatest(a, b) == IF a > b THEN a ELSE b

\* The updater functions given to setPet.
Aged(p) ==
  [p EXCEPT !.energy = Least(@ + 1, Max),
            !.hunger = Greatest(@ - 1, 0),
            !.happiness = IF p.hunger < Hungry THEN Greatest(@ - 1, 0) ELSE @]

Fed(p) ==
  [p EXCEPT !.hunger = Least(@ + Meal, Max),
            !.happiness = Least(@ + MealMood, Max),
            !.experience = @ + MealExp]

Played(p) ==
  [p EXCEPT !.energy = @ - Effort,
            !.happiness = Least(@ + PlayMood, Max),
            !.experience = @ + PlayExp]

PetInit ==
  /\ savedPet = Nothing
  /\ savedLook = Nothing
  /\ page = [t \in Tab |-> "closed"]
  /\ drawn = [t \in Tab |-> NewPet]
  /\ due = [t \in Tab |-> NewPet]
  /\ look = [t \in Tab |-> NewLook]
  /\ earned = 0
  /\ chosen = NewLook
  /\ together = FALSE

\* The first render reads localStorage.
Open(t) ==
  LET pet == IF savedPet = Nothing THEN NewPet ELSE savedPet IN
  /\ page[t] = "closed"
  /\ page' = [page EXCEPT ![t] = "rendered"]
  /\ drawn' = [drawn EXCEPT ![t] = pet]
  /\ due' = [due EXCEPT ![t] = pet]
  /\ look' = [look EXCEPT ![t] = IF savedLook = Nothing THEN NewLook ELSE savedLook]
  /\ together' = (together \/ \E other \in Tab : page[other] # "closed")
  /\ UNCHANGED <<savedPet, savedLook, earned, chosen>>

\* Mutant: the page saves only when it is opened.
SaveOnce(pet) == UNCHANGED savedPet

\* The effect on [pet], after every render that changed it.
Save(pet) == savedPet' = pet

\* All effects run after the first render, and the timer starts.
Mount(t) ==
  /\ page[t] = "rendered"
  /\ page' = [page EXCEPT ![t] = "open"]
  /\ savedPet' = drawn[t]
  /\ savedLook' = look[t]
  /\ UNCHANGED <<drawn, due, look, earned, chosen, together>>

\* The timer; what it queued before was rendered long ago.
PetTick(t) ==
  /\ page[t] = "open" /\ due[t] = drawn[t]
  /\ due' = [due EXCEPT ![t] = Aged(@)]
  /\ UNCHANGED <<savedPet, savedLook, page, drawn, look, earned, chosen, together>>

Render(t) ==
  /\ page[t] = "open" /\ due[t] # drawn[t]
  /\ drawn' = [drawn EXCEPT ![t] = due[t]]
  /\ Save(due[t])
  /\ UNCHANGED <<savedLook, page, due, look, earned, chosen, together>>

\* handleAction: the guard reads the rendered pet, the update the queue's.
Feed(t) ==
  /\ page[t] = "open" /\ drawn[t].hunger < Max
  /\ earned + MealExp <= MaxExp
  /\ drawn' = [drawn EXCEPT ![t] = Fed(@)]
  /\ due' = [due EXCEPT ![t] = Fed(@)]
  /\ Save(Fed(drawn[t]))
  /\ earned' = earned + MealExp
  /\ UNCHANGED <<savedLook, page, look, chosen, together>>

\* Mutant: the guard looks at nothing.
PlayTired(t) ==
  /\ page[t] = "open"
  /\ earned + PlayExp <= MaxExp
  /\ drawn' = [drawn EXCEPT ![t] = Played(@)]
  /\ due' = [due EXCEPT ![t] = Played(@)]
  /\ Save(Played(drawn[t]))
  /\ earned' = earned + PlayExp
  /\ UNCHANGED <<savedLook, page, look, chosen, together>>

Play(t) ==
  /\ page[t] = "open" /\ drawn[t].energy >= Effort
  /\ earned + PlayExp <= MaxExp
  /\ drawn' = [drawn EXCEPT ![t] = Played(@)]
  /\ due' = [due EXCEPT ![t] = Played(@)]
  /\ Save(Played(drawn[t]))
  /\ earned' = earned + PlayExp
  /\ UNCHANGED <<savedLook, page, look, chosen, together>>

SelectPet(t, image) ==
  /\ page[t] = "open"
  /\ look' = [look EXCEPT ![t] = image]
  /\ savedLook' = image
  /\ chosen' = image
  /\ UNCHANGED <<savedPet, page, drawn, due, earned, together>>

\* The tab is closed, or shows another page: the timer stops, an update that
\* was not rendered is lost.
Close(t) ==
  /\ page[t] # "closed"
  /\ page' = [page EXCEPT ![t] = "closed"]
  /\ drawn' = [drawn EXCEPT ![t] = NewPet]
  /\ due' = [due EXCEPT ![t] = NewPet]
  /\ look' = [look EXCEPT ![t] = NewLook]
  /\ UNCHANGED <<savedPet, savedLook, earned, chosen, together>>

PetNext ==
  \E t \in Tab :
    \/ Open(t) \/ Mount(t) \/ Close(t)
    \/ PetTick(t) \/ Render(t) \/ Feed(t) \/ Play(t)
    \/ \E image \in Look : SelectPet(t, image)

PetSpec == PetInit /\ [][PetNext]_petVars

-----------------------------------------------------------------------------
(***************************************************************************)
(* Every need of every pet - drawn, queued or saved - stays on its scale.  *)
(* Playing subtracts without a limit and trusts a guard that has read the  *)
(* rendered pet, which may be a tick behind the one the update changes.    *)
(***************************************************************************)
NeedsInRange ==
  /\ savedPet # Nothing => savedPet \in Pet
  /\ \A t \in Tab : drawn[t] \in Pet /\ due[t] \in Pet

(***************************************************************************)
(* README.md: the pet's state survives from session to session.  Whatever  *)
(* ticks, clicks, closings and reopenings come in whatever order, and even *)
(* with two tabs that each write their whole pet, the saved pet never has  *)
(* more than was earned; and with one tab at a time it has all of it, and  *)
(* the look that was chosen last.                                          *)
(***************************************************************************)
SavedAcrossSessions ==
  savedPet # Nothing =>
    /\ savedPet.experience <= NewPet.experience + earned
    /\ ~together => /\ savedPet.experience = NewPet.experience + earned
                    /\ savedLook = chosen
=============================================================================
