------------------------------- MODULE Ranking -------------------------------
(***************************************************************************)
(* The two ranked views that internal/leaderboard/service.go reads from    *)
(* the tables the projector writes.  A read is one statement, so it sees   *)
(* one committed read model; `active' is the set of users whose row of     *)
(* `users' has the status active at that moment.                           *)
(*                                                                         *)
(* Pages are walked with the model at rest: nothing in the code relates    *)
(* two pages read while the projector commits in between.                  *)
(*                                                                         *)
(* What users were shown before a reset is kept in a history variable,     *)
(* which no step reads.                                                    *)
(***************************************************************************)
EXTENDS Leaderboard

CONSTANTS
  DefaultPageSize,   \* the limit of a page that asks for none
  MaxPageSize        \* the largest limit of a page

ASSUME PagesAssumption == DefaultPageSize \in 1..MaxPageSize /\ MaxPageSize \in Nat

\* The users are the rows of a table, and `no rank' is not a rank.
ASSUME UsersAssumption == IsFiniteSet(User) /\ Nobody \notin Nat

VARIABLE reached   \* history: the last read model with the most events so far

RankingVars == <<vars, reached>>

Remember == reached' = IF model'.checkpoint >= reached.checkpoint THEN model' ELSE reached

RankingSpec == Init /\ reached = EmptyModel /\ [][Next /\ Remember]_RankingVars

-----------------------------------------------------------------------------
\* What a view orders users by: points, then when they were reached.
PetStanding(m) ==
  [u \in {v \in User : m.pets[v] # NoPet} |->
     [points |-> m.pets[u].level, position |-> m.pets[u].position]]

ScoreStanding(m) ==
  [u \in {v \in User : m.scores[v] # NoScore} |->
     [points |-> m.scores[u].best, position |-> m.scores[u].position]]

(***************************************************************************)
(* ORDER BY points DESC, position ASC in the windows of the list queries.  *)
(* All queries break a remaining tie by user_id; RanksAgree says that none *)
(* remains.                                                                *)
(***************************************************************************)
Ahead(st, u, v) ==
  \/ st[u].points > st[v].points
  \/ st[u].points = st[v].points /\ st[u].position < st[v].position

\* Mutant: of equal points the later ones come first.
OwnAheadLast(st, u, v) ==
  \/ st[u].points > st[v].points
  \/ st[u].points = st[v].points /\ st[u].position > st[v].position

\* The same order, spelled out again in GetUserLeaderboardPositions.
OwnAhead(st, u, v) ==
  \/ st[u].points > st[v].points
  \/ st[u].points = st[v].points /\ st[u].position < st[v].position

\* ROW_NUMBER() over the users who are active, in a list query.
Rank(st, active, u) == 1 + Cardinality({v \in active \cap DOMAIN st : Ahead(st, v, u)})

\* GetUserLeaderboardPositions: no rank without a row, or when not active.
UserPosition(st, active, u) ==
  IF u \in active \cap DOMAIN st
  THEN 1 + Cardinality({v \in active \cap DOMAIN st : OwnAhead(st, v, u)})
  ELSE Nobody

\* normalizePage; NoPage is ErrValidation.
NoPage == [limit |-> 0, offset |-> 0]

NormalizePage(limit, offset) ==
  IF limit < 0 \/ limit > MaxPageSize \/ offset < 0 THEN NoPage
  ELSE [limit |-> IF limit = 0 THEN DefaultPageSize ELSE limit, offset |-> offset]

\* The entries of a page: its users, with the rank each is shown.
Entries(st, active, page) ==
  {entry \in {[user |-> u, rank |-> Rank(st, active, u)] : u \in active \cap DOMAIN st} :
     entry.rank \in (page.offset + 1)..(page.offset + page.limit)}

ListPetLevels(m, active, limit, offset) ==
  Entries(PetStanding(m), active, NormalizePage(limit, offset))

ListGameScores(m, active, limit, offset) ==
  Entries(ScoreStanding(m), active, NormalizePage(limit, offset))

GetUserPositions(m, active, u) ==
  [pet |-> UserPosition(PetStanding(m), active, u),
   score |-> UserPosition(ScoreStanding(m), active, u)]

-----------------------------------------------------------------------------
\* The offsets of the pages that walk a view, however many users it has.
Starts(size) == {size * k : k \in 0..(Cardinality(User) - 1)}

\* The pages of one view and the users' own positions tell one story.
Told(pages, own) ==
  /\ \A o, q \in DOMAIN pages : o # q => pages[o] \cap pages[q] = {}
  /\ LET listed == UNION {pages[o] : o \in DOMAIN pages} IN
       /\ {x.rank : x \in listed} = 1..Cardinality(listed)
       /\ listed = {x \in {[user |-> u, rank |-> own[u]] : u \in User} : x.rank # Nobody}

(***************************************************************************)
(* The list and the user's own position are separate queries that must     *)
(* tell one story.  Whoever is active, following the pages of any legal    *)
(* size meets every active user of a view exactly once, under the ranks    *)
(* 1, 2, 3, ... without a gap or a tie, and each user's own position is    *)
(* the rank the list shows; a user who is not active has no position and   *)
(* takes no rank from the others.                                          *)
(***************************************************************************)
RanksAgree ==
  \A active \in SUBSET (DOMAIN PetStanding(model) \cup DOMAIN ScoreStanding(model)) :
    \A page \in {NormalizePage(limit, 0) : limit \in 0..MaxPageSize} :
      /\ Told([o \in Starts(page.limit) |-> ListPetLevels(model, active, page.limit, o)],
              [u \in User |-> GetUserPositions(model, active, u).pet])
      /\ Told([o \in Starts(page.limit) |-> ListGameScores(model, active, page.limit, o)],
              [u \in User |-> GetUserPositions(model, active, u).score])

\* Everyone of the earlier view is in the later one, and whoever is behind
\* another there was so before or has more points than before.
Fair(before, after) ==
  /\ DOMAIN before \subseteq DOMAIN after
  /\ \A u, v \in DOMAIN before :
       Ahead(before, v, u) => Ahead(after, v, u) \/ after[u].points > before[u].points

(***************************************************************************)
(* Nobody moves past another user without earning it: repeating one's      *)
(* record, a quarantined event or a batch of several events never costs    *)
(* the one who was there first the place.  Nor does a reset: when the      *)
(* rebuild has come as far as the views once were, in whatever batches,    *)
(* they show everyone they showed then, in an order as fair.               *)
(***************************************************************************)
NobodyOvertakesIdly ==
  [][\A before \in {model, reached} :
       before.checkpoint <= model'.checkpoint =>
         /\ Fair(PetStanding(before), PetStanding(model'))
         /\ Fair(ScoreStanding(before), ScoreStanding(model'))]_<<model, reached>>
=============================================================================
