# Formal verification of Avito Tamagotchi

TLA+ specifications of Avito Tamagotchi, the TLC configurations that model-check
them, and theorems that TLAPS proves. The program is a Go service over
PostgreSQL with a React frontend: users keep a virtual pet, do tasks and collect
rewards; an event store records what happened, and a leaderboard and a daily
summary are computed from it. All paths below are relative to `src/`; "migration
N" is a file of `backend/migrations/`.

    cd tla
    tlc -workers 2 -config EventStore.cfg MCEventStore
    tlapm EventStoreProofs.tla

## 1. The system

Almost everything that can go wrong in the backend goes wrong between two
PostgreSQL transactions or in the middle of one. Each service method is a
sequence of statements, most of them inside `Transactor.Do` of
go-transaction-manager, which joins a transaction that the context already
carries. The isolation level is PostgreSQL's default, READ COMMITTED: a
statement sees what was committed when it began and what its own transaction
wrote. A request can end at any statement through a cancelled context, a
timeout, a lost connection or a crash, and the client then does not know whether
the commit took place. In the frontend it goes wrong between two awaited
answers, between two tabs that share localStorage, and between an event and the
render that follows it.

| component | state | operations | modules |
|---|---|---|---|
| Event store: `backend/internal/event`, `repository/postgres/event.go`, migration 9 | events, the position row, streams; row lock of the position, advisory lock per command | `Publish` with `lock_event_command`, `ListByCommandID`, `append_event` | `EventStore`, `EventLog`; `EventStoreProofs` |
| Command preparation: `event.Service.prepare`, `commandMatches` | local variables of a call | validate, number, compare with what is stored | `PublishCommand`; `PublishCommandProofs` |
| Leaderboard projector: `leaderboard/projector.go`, migration 11 | pet levels, game scores, failures, checkpoint; advisory lock | `ProjectNextBatch`, `reset_leaderboard_projection` | `Leaderboard`; `LeaderboardProofs` |
| Leaderboard ranking: `leaderboard/service.go` | none (reads the projection) | the two ranked lists, a user's own positions | `Ranking`; `LeaderboardProofs` |
| Daily summary: `dailysummary/service.go`, migration 10 | a checkpoint per user, failures; row lock | `CheckIn` | `DailySummary`; `DailySummaryProofs` |
| Daily reward calendar: `rewards/dailycycle.go`, migrations 5 and 7 | progress row, claim log | `ClaimToday`, `GetStatus` | `DailyReward`; `DailyRewardProofs` |
| Rewards and tasks: `rewards/service.go`, `tasks/service.go`, migrations 1, 4, 8 | task progress, user rewards (UNIQUE per user and reward) | `ClaimTask`, `IssueReward`, both lists, the expiry computed when they are read | `RewardGrants`; `RewardGrantsProofs` |
| Authentication sessions: `service/auth.go`, migration 2 | users, refresh sessions | `Register`, `Login`, `Refresh`, `Logout` | `AuthSessions`, `Sessions`; `AuthSessionsProofs` |
| Browser session: `frontend/src/providers/AuthProvider.tsx` with its forms and routes | refresh token in localStorage, shared by tabs; user and access token per tab | restore, log in, log out, open, navigate, close | `BrowserSession` over `Sessions`, `Browser`; `FrontendProofs` |
| Pet page: `pages/Pet/Pet.tsx`, `PetControls` | pet and look in localStorage; per tab the rendered pet and queued updates | tick, render, feed, play, choose a look | `PetPage`, `Browser`; `FrontendProofs` |
| Rewards page: `pages/Rewards/Rewards.tsx` | the status shown, the requests awaited | load, claim | `RewardsPage` over `DailyReward`; `DailyRewardProofs` (partly: the list of rewards and the other views keep nothing) |
| HTTP handlers | none that outlives a request | | those the browser calls, as requests and answers of the modules above |
| Middleware, start-up, generated code, database roles, pet repository (a stub) | none that outlives a request | | not modelled |

How they interact. `app/main.go` wires authentication, events, rewards, the
daily calendar and tasks. `ClaimTask` and `IssueReward` meet at the unique key
of `user_rewards`. The event store feeds the two consumers: the projector reads
all events after its checkpoint, the daily summary those of one user between two
positions; both rely on positions becoming visible in order. They exist in
`src/` with their repositories and tests but nothing schedules or calls them
yet; nor does any service call `Publish`. They are modelled for what their
callers may do: any number of workers, any number of concurrent requests. The
browser reaches the backend only through the authentication and reward handlers;
the pet lives in the browser alone.

The modules compose in the same way:

    EventLog  <== EventStore          Sessions <== AuthSessions
       |  (what is committed stays,       |  (instance)
       |   in order, one owner)           v
       v                              BrowserSession
    Leaderboard -> Ranking
    DailySummary                      DailyReward -> RewardsPage

`<==` is a refinement that TLC checks on an instance and TLAPS proves. The two
consumers start from the log that `EventLog` specifies, `BrowserSession` calls
the actions of `Sessions`, `Ranking` and `RewardsPage` extend the module they
read, and `BrowserSession` and `PetPage` share the tabs and the localStorage of
`Browser`.

What makes each component correct, and where it is hard:

- **Event store.** Positions have no gaps and become visible in order, though
  they are taken before the commit; a command is stored once and whole under
  retries after unknown outcomes; the version check holds between racing
  writers although an `UPDATE` sees an older snapshot than the row it waited
  for; outer transactions may deadlock.
- **Leaderboard.** The tables are a function of the log, whatever pages,
  crashes, resets and rival workers there were; no event can block it for ever;
  the separate queries for lists and own positions tell one story, and nobody
  loses a place to somebody who earned nothing, not even by a reset.
- **Daily summary.** Periods follow one another without gap or overlap; a
  summary is exact, sums that overflow included; the boundary must be read again
  after waiting for the row.
- **Daily calendar.** Progress is read before the transaction and without a
  lock; the cooldown and the grace window decide on the day; the log and the
  progress are two tables.
- **Rewards and tasks.** A claim and its grant are one transaction with a unique
  key that other requests race for; the status was read before it.
- **Sessions.** A refresh token is used once, though tabs, retries and logouts
  use it concurrently; to a client every request is one operation or none.
- **Browser.** What may cost a browser its session is known and short; user and
  tokens of a tab belong together; needs of the pet stay on their scale although
  guards read a pet that is a tick old; the rewards page does not offer again
  what it has shown as taken.

`PROJECT.json` lists the hazards one by one, at the lines where they bite, with
the properties that cover them.

## 2. How the modules model the code

In every state machine of the backend a session (worker, request) is one
goroutine with its transaction. Each statement is an action with the name of the
code's method or SQL function; `pc` says which statement comes next. Writes of
an open transaction are kept apart (`draft`, `batch[w].work`, or in `request`
and `call`) and become visible in one `Commit` action; a lock is a variable that
names its holder. `Fail`, `Abort` and `Rollback` are enabled at every statement
and stand for errors, timeouts, cancelled contexts and crashes: PostgreSQL
rolls back and releases the locks. A reply that is lost after the commit is the
choice of another outcome in `Commit`, or a request that is simply made again.
Bounds on time, events, requests and so on are CONSTANTS whose names start with
`Max`; where the code has such a limit too (`MaxCommandEvents`, `MaxInt`,
`MaxBacklog`, `MaxVersion`, `MaxLevel`, `MaxPageSize`), the constant is that
limit scaled down. Definitions under a comment that starts with "Mutant" are not
part of a specification: each is a plausible bug, named in `PROJECT.json`, which
the property it is listed with detects when it replaces the definition it
varies.

**`EventStore`**: the path of `Publish` after `prepare`. `LockCommand` is
`lock_event_command`; `ListByCommandID` is the lookup and the decision between a
replay, a conflict and a new command; `append_event` is two actions because it
waits in the middle: `StartAppend` takes the statement's snapshot and
`RunAppend` runs once the position row is free, with the version check, the
unique constraints and `mapAppendError`. A plan of several commands is an outer
transaction that `Transactor.Do` joins. `DeadlockAbort` is PostgreSQL's
deadlock detector. The abstract specification is **`EventLog`**: one
append-only sequence to which a whole transaction publishes at once, each
command either recorded word for word already or continuing its streams. The
refinement maps the log to the committed rows in the order of positions.

**`PublishCommand`**: `prepare` as the loop it is, one stream and one event per
step, with `VersionOverflows` evaluated before the addition, and
`commandMatches` against the stored rows. Payload texts are abstracted to
whether they are blank, numbers to their sign, times to half microseconds so
that PostgreSQL's rounding to microseconds is visible. Whether the store accepts
the appends is left open here; `EventStore` decides it.

**`Leaderboard`**: `ProjectNextBatch` with its lock, checkpoint, page, the loop
of `applyEvent`, the checkpoint's save and the commit. `ReadModelIsFold`
compares the tables with a definition by sets of positions (births, climbs,
first best game), which knows nothing of pages and has its own account of what
a sound event is (`Sound`): `ApplyEvent` checks one thing after the other and
takes the reason of the first that fails, as the code does. A game event names
its session twice, as aggregate and in its payload; `Nobody` in the payload is a
missing session or a payload that cannot be decoded, and values may be negative.
The log and the ownership of aggregates are those that `EventLog` specifies.

**`Ranking`** (extends `Leaderboard`): the window functions of the two list
queries (`Ahead`) and of `GetUserLeaderboardPositions` (`OwnAhead`), written
down separately as they are in SQL, with `normalizePage`. A read is
one statement and sees one committed read model; which users are active is any
set. The pages of one list are read with the model at rest, as nothing in the
code relates two pages between which the projector commits. `RankingSpec` adds
a history variable: `reached` is the last read model that had the most events so
far, so that what a rebuild arrives at is compared with what users were shown
before the reset.

**`DailySummary`**: `CheckIn` with both captures of the boundary, insert, row
lock, pages, aggregation with overflow, quarantine and checkpoint. `Own` is the
filter of the query, `Page` its `ORDER BY ... LIMIT`, `ProcessPage` the loop over
a page, as a recursive function of the positions. `SummariesAreExact` compares a
summary with `Exact`, which knows nothing of pages: of the events of the period
that were not skipped it is the `Sum`, the largest score, the rewards. Instants are
ticks and a day is `DayLength` of them. `history` records the check-ins for the
properties; the code keeps none.

**`DailyReward`**: `ClaimToday`. The read of the progress, the two readings of
the clock, the upsert, the log row and the commit are separate steps; `Status`
is what `GetStatus` computes. Users share no rows, so one is enough. The field
`after` of a claim is history.

**`RewardGrants`**: `ClaimTask` and `IssueReward` with the waits of an `UPDATE`
for a row and of an `INSERT` for a key, the expiry that `IssueReward` computes
(a claim gives none), and the lists, in which `effectiveStatus` decides by the
clock whether a reward is expired. Tasks are completed by the environment: the
dispatcher of task progress is not in `src/`.

**`AuthSessions`**: a token is its number in the order of commits; a row is
`live` until it is deleted. Any request may carry any token ever issued. The
status of a user changes from outside. **`Sessions`** is its contract: no
requests, no locks, each operation that succeeds is one step. The refinement
keeps the clock, the accounts and the tokens and forgets the rest.

**`BrowserSession`**: `restoreSession` between its two `await`s, the forms,
logout, tabs that open, close and reload, and the server as the actions of
`Sessions`. A form belongs to a tab and not to its page: links and the history
leave a form that is still awaited and reach a fresh one, and the answer comes
all the same, whatever the tab shows by then (`Navigate`, `Submit`, `GotForm`).
Every page is taken to be in the history. Answers are lost before or after the server has acted. `excuse`
becomes true when something happens that is known to cost a browser its
session; the property says that nothing else does. No token expires (to a tab
that is one refusal more), and a blocked account stays so.

**`PetPage`**: a click renders at once; the update of the timer is queued and
rendered later, and a click in between is rendered without it first and then
again after it, which is what React does with updates of lower priority. `drawn`
is the pet that the guards read, `due` the pet once the queue has run. Every
render that changed the pet writes it to localStorage, in every tab.

**`RewardsPage`** (extends `DailyReward`): time passes while the page awaits
nothing, as a tick is hours and a request seconds. The runs of `loadRewards` and
`handleClaim` overlap, since the button stays enabled while a claim runs;
`task` says what each of them awaits. The claim it sent is the request of the
same session of `DailyReward`; claims of another device run beside it.

**`MCFrontend`** puts the session, the two pages and a second instance of
`DailyReward` into one run: their variables are disjoint (but for those of the
service, which runs alone or behind the page), and an initial state chooses
which of them moves, so each is explored in full and none multiplies another.
**`MCLeaderboard`** does the same for what a log is about: the projection itself,
with two workers and every kind of event, or one of the rankings, with longer
logs and the history of `RankingSpec`.

## 3. The runs

| run | instance | what it shows |
|---|---|---|
| `event_store` | 2 sessions, 4 transactions, 6 commands alone and in 3 outer plans | positions without gap (`NoPositionGap`), streams that agree with events, one owner each (`StreamsFollowEvents`), the inductive part of the proof (`DraftsConsistent`), commands stored whole (`CommandsWhole`), true acknowledgements (`AcknowledgedIsStored`), no version conflict that a command causes itself (`ConflictMeansNotStored`), commit order (`CommitsInPositionOrder`), the refinement `ImplementsLog`, and `TransactionEnds` |
| `publish_command` | about 300 commands, each after each legal one | `PrepareIsExact`: the loop refuses exactly the illegal commands and numbers the others right; `ReplayIffSame`: a stored command answers a second one if and only if it means the same |
| `leaderboard` | projecting: 2 workers, logs of up to 3 events of 13 kinds, of which one is to be ignored or quarantined, pages of 2, one reset; ranking: 1 worker, up to 4 events that two pets or three users' scores consist of, ranked pages of 1 and 2 for every set of active users | `ReadModelIsFold`: the tables, and the failures with their reasons, are what the log says; `NoPoisonedBatch`, `CheckpointMovesByPages`, `BatchEnds`; `RanksAgree`: following the pages meets every active user once, under the rank that the user's own position says; `NobodyOvertakesIdly`: from one committed model to the next, and from what was reached before a reset to the end of the rebuild, nobody passes another user without more points |
| `daily_summary_exact` | 2 users, 10 payloads, pages of 1, backlog of 2, numbers to 3 | `SummariesAreExact`, with overflow and quarantine |
| `daily_summary_races` | 2 requests of one user over two days, 3 check-ins | `CheckInsChain`, `OneSummaryPerDay`, `NoFalseAlarm`, `QuarantineIsCommitted`, `CheckInEnds` |
| `reward_grants` | 3 requests, 2 tasks that share a reward, issued directly too, valid for one of three days | `ClaimedMeansGranted`, `RefusalsAreTrue`, `GrantsAreFinal` (no grant is repeated, lost or prolonged; in the lists a reward goes from issued to expired and never back), `RequestEnds` |
| `auth_sessions` | 2 requests, one address, 3 tokens, expiry, one block | `OneTokenPerLogin`, `RegisteredOnce`, the refinement `ImplementsSessions`, `RequestEnds` |
| `frontend` | the session: 2 tabs, 2 accounts, 3 tokens, a form awaited for each account; the pet page: 2 tabs, needs up to 4; the rewards page: 2 overlapping tasks or claims, 3 claims; the service alone: a calendar of 3 days, 2 requests, 4 claims | `SessionKept`, `AccountMatchesTokens`, `LogoutIsFinal`: only the answer to a form ends being logged out; `NeedsInRange`, `SavedAcrossSessions`; `OfferFollowsClaims`; and of the service `StreakRule` for claims nobody overtook, `LogMatchesProgress` and `DaysAreEarned` for all |

Four runs check what a text of the repository says and find that the code does
something else:

| run | the text | what TLC finds |
|---|---|---|
| `daily_reward_twice` | a second claim within 24 hours "is rejected as too soon" (`dailycycle.go:13`, `handler/dailycycle.go:48`) | two requests that both read the progress before either commits both claim: the row lock of the upsert only orders them. `frontend` shows what survives the race: no day without the one before it, and a log that matches the progress. |
| `daily_reward_lap` | the start of the lap is reset on a "miss-triggered restart" (`dailycycle.go:131`) | the code looks at the day after the claimed one, so a restart at day 1 keeps the old start |
| `reward_grants_claimable` | a claim fails if the task does not exist, is not completed or was claimed (`handler/tasks.go:50`) | a completed task whose reward the user has already, as tasks of the seeds share rewards, fails for ever with "already issued" |
| `daily_summary_yesterday` | the report of the first login of a day shows what was earned yesterday (`ARCHITECTURE.md:197`) | a user checks in, earns something and checks in again on the same day: the second check-in moves the checkpoint without a summary (`dailysummary/service.go:110`), and the next day's summary begins after it. What came before a user's very first check-in is not asked for: that one only starts the account. |

Some things the models show that no text contradicts, and that are therefore
exceptions in a property rather than runs of their own: two tabs that restore
one session at once lose it, and so does a lost answer to the refresh
(`SessionKept`); a login that is answered while the session is being restored
leaves a tab with the user of one account and the token of another
(`AccountMatchesTokens`); logging out cancels nothing, so a form sent before it
(go back to `/login`, submit, go forward, log out) brings an account back when
its answer comes (`LogoutIsFinal`); with two pet pages open, experience is lost
(`SavedAcrossSessions`); a claim whose answer was lost stays offered until the
page is opened anew (`OfferFollowsClaims`).

No run checks a type invariant: where a module defines one it is a theorem
(section 4), and the inductive invariants of the others contain theirs.

### Bounds, and why they are enough

- *Sessions.* Two actors meet at every lock and every stale read of this code;
  a third is only needed where two kinds of locks queue (`reward_grants`: task
  row, then reward key). The deadlock of the event store needs two outer
  transactions in opposite orders, which its plans contain. The proofs of
  section 4 hold for any number of sessions.
- *Transactions.* Four let a command be published, repeated, altered and
  continued, and failures come in between. The six commands contain a creation,
  the same key with another payload and with one more event, a command over two
  streams, and another owner's attempt at the same streams.
- *Logs.* Three events and pages of two give a full page, a short one and an
  empty one; three events are a creation, a climb and a repeat, or the records
  of two users of which one is equalled. A log holds one malformed or ignored
  event at most, beside those that are out of sequence: each adds one row of its
  own or none. For the ranking four events let two pets be created and pass each
  other, or three users tie and one improve, with a reset and a rebuild in pages
  between; the views are tables of their own, so a log fills one. In the daily summary pages of one event
  with a backlog of two reach the limit and an overflowing sum.
- *Time.* The calendar's cooldown is 2 ticks and its grace window 4, so elapsed
  times below, at, between and beyond them occur; 9 ticks are more than a lap of
  three days. Behind the page the service has 3 ticks: a claim, its cooldown and
  another. Daily summaries run over two days of two ticks each. A reward valid
  for one day is seen on its last day and after it.
- *Browsers.* Two tabs are the fewest that share a token or a pet. Three tokens
  are a login, its rotation and one more of either. Two awaited forms are the
  fewest that differ in their tab, their account or the order of their answers,
  or of which one is sent before a logout and one after it; each account has one
  at a time. The pet's scale of 4 with
  an effort of 3, a meal of 2 and hunger below 2 lets every need reach both ends
  of its scale and every guard hold and fail.
- *Behaviours.* Each passing run allows a terminal state where a bound is used
  up, and so does not check for deadlock, except `leaderboard` and
  `publish_command`, whose actors can always make a new call. That nobody waits
  for ever is checked as liveness.
- *Symmetry* is used in `frontend` alone, of tabs, and of accounts together with
  their forms: no definition tells them apart, and the run checks invariants.

### Fairness

Fairness is assumed only of a call that was made. A goroutine goes on to its
next statement and PostgreSQL runs it (weak fairness). Where requests queue for
a lock that others take and release again and again, PostgreSQL serves waiters
in the order they came, which is strong fairness of the action that takes the
lock. In `EventStore` weak fairness of `Step` is enough because transactions are
finitely many. The deadlock detector is part of it: PostgreSQL starts it after
`deadlock_timeout`. Callers, retries, failures and the clock have no fairness.
Two conjuncts concern bounds and errors rather than scheduling: in
`AuthSessions` a commit that the bound on tokens forbids fails instead, and in
`DailySummary` a request that met an error returns it. The frontend has no
fairness: a tab may be closed and an answer lost at any moment, and the page
sets no timeout, so nothing there must happen.

## 4. What is proved

Eight modules prove 42 theorems for every value of the constants that satisfies
the named assumptions: any number of sessions, users, tabs, tokens, commands,
events and days. Together they state every invariant, action property and
refinement that a passing run checks; what the runs show on an instance, the
theorems say of all. TLC evaluates each assumption in the run whose module
extends the module that states it. The temporal part is the same everywhere: an
inductive invariant with `Init => IInv`, `IInv /\ [Next]_vars => IInv'` (one
lemma per action), and `IInv => P`; where a property needs more, a second
invariant builds on the first.

| module | theorems | why the property alone is not inductive, and what the invariant adds |
|---|---|---|
| `EventStoreProofs` | `TypeCorrect`, `PositionsHaveNoGap`, `StreamsAgree`, `DraftsStayConsistent`, `CommitOrder` | `Commit` publishes what was written earlier, when others could have committed in between. `DraftsConsistent`: only the holder of the position row has written anything, and its writes continue what is committed *now*, because the row is held to the end of the transaction. |
| | `CommandsStoredWhole` (`CommandsWhole`), `AcknowledgedStays` (`AcknowledgedIsStored`), `ConflictsAreTrue` (`ConflictMeansNotStored`) | A command is stored by several appends and looked up long before. `SInv`: from its lookup to its end a session holds the locks of the commands it writes; while it appends one, nothing of that command is committed and the draft has its first events, at adjacent positions, beside whole commands; and its reply is what it sees. |
| | `StoreImplementsLog` (`ImplementsLog`) | One commit of the store is a whole plan of the log. `LInv`: the holder of the position row is half-way through `Publish` of the log: the commands it is done with end at positions `m[1], m[2], ...`, each a replay or a block of its own, and the one it appends has its first events after the last of them. |
| `PublishCommandProofs` | `PreparesExactly` (`PrepareIsExact`) | The loop finds out one event at a time. `WInv`: it has prepared the events of the places before the current one, each at its rank, and every stream up to there has passed the checks; `seen` are the keys of those streams. |
| | `ReplaysTheSame` (`ReplayIffSame`) | `StoreOK`: the rows under an identifier are those of one legal command, with the time it was recorded at. `EntriesTell`: such rows determine the streams, their order, versions and bodies: a stream is told by its key and its interval of versions, the order by the ranks, and of two lists that differ the first place that does is a contradiction. |
| `LeaderboardProofs` | `TypeCorrect`, `NothingPoisons`, `CheckpointAdvances` | The error that would return in every retry is a pet identifier of two users. `LogOwned` and `PetsKnown`: an aggregate in the log has one owner, and every pet of the read model, or of the work of a batch, comes from an event. `Exclusive` and `WorkOK`: who holds the advisory lock works on the model it read. |
| | `ReadModelIsExact` (`ReadModelIsFold`) | `Folded`: the committed tables hold what the events up to the checkpoint say, and the work of a batch what the events up to the one it has applied say. The definition is by sets of positions, and its lemmas show that `applyEvent` takes what `n` events say to what `n + 1` say, for each kind of event; `DefectNone`: the checks of `applyEvent` in their order pass exactly the events that are `Sound`. |
| | `RanksAgreeAlways` (`RanksAgree`), `PlacesAreEarned` (`NobodyOvertakesIdly`) | Both follow from `Folded`: no two rows of a view were reached at one position, as one event belongs to one user, so the order is total and a rank is a bijection; and a row keeps its position until its points grow. `PlacesAreEarned` is about `RankingSpec`: `Backed` says that `reached` is what the events up to its own checkpoint say, so a rebuild that gets as far can only have added events to it. |
| `DailySummaryProofs` | `TypeCorrect`, `PeriodsChain` (`CheckInsChain`), `OncePerDay` (`OneSummaryPerDay`), `NeverBehind` (`NoFalseAlarm`) | `SessionOK`: the holder of a user's row has read the checkpoint that is still committed, so what it appends continues the history. `UserOK`: whatever was saved the clock and the log have reached, so a boundary captured under the lock is never behind. |
| | `SummariesExact` (`SummariesAreExact`), `QuarantineCommitted` (`QuarantineIsCommitted`) | `EInv`: a request that collects has the exact sums of its user's events up to the last one it has seen; the check-ins of the past have those of their periods, which end at the checkpoint or before; every failure belongs to a committed check-in of the event's owner. The page is the smallest events still to come, so one page after the other leaves none out. |
| `DailyRewardProofs` | `TypeCorrect`, `LogAndProgressAgree`, `EveryDayIsEarned`, `StreaksAreKept` | Requests hold stale progress. `RequestOK`: whatever a request has read is what *some* claim of the log left behind, and the day it is about to claim was earned by such a claim. `StreakRule` has an invariant of its own on top, about the request that nobody has overtaken yet. |
| | `PageClaimsByTheRules`, `OffersFollowClaims` (`OfferFollowsClaims`) | The steps of the page are steps of the service or stutter, so the theorems on claims hold behind it. `PInv`: whatever is under way on the page began in the current tick; once something is shown only a claim starts a load, and that load reads a progress claimed in this tick. |
| `RewardGrantsProofs` | `TypeCorrect`, `ClaimsMatchGrants`, `RefusalsHoldTrue`, `GrantsStay` | The claim and the grant are two statements. `TaskRows` and `RewardKeys`: a request holds the row from its update and the key from its insert to its end, and what it holds is as it found it: the task completed, the reward not there. |
| `AuthSessionsProofs` | `TypeCorrect`, `OneTokenEach`, `AccountsAppearOnce`, `SessionsAreImplemented` (`ImplementsSessions`) | A commit acts on what earlier statements have learnt. `RequestsOK`: it is still true, since a lock protects it (the row of the token, or the address). `ChainsOK`: two live tokens of one chain are the same, and a chain has none exactly when it was logged out; `AccountsOK`: an account is there exactly when one registration made its first token. |
| `FrontendProofs` | `SessionIsKept`, `AccountAlwaysMatches`, `LogoutHolds` | The refresh token that works may be in no tab and not in localStorage but in an answer. `SessionInv` says where every token is: received, or in one answer on its way to one tab, where it works. Without an excuse nobody is blocked, nothing has failed, no two tabs ask with one token, and so a token that is asked about still works. A tab that was logged out awaits no restore, as a page with the button is only shown when none runs; forms it may await, and their answers are the exception that the property names. |
| | `NeedsStayInRange`, `PetsSurviveSessions` | The guard of `Play` reads the rendered pet and the update runs on the queued one. `QueueOK`: the queued pet never has less energy, because a tick only adds some. `SavedOK` and `PagesOK`: an open page shows what is saved, unless tabs overlap. |

The two refinements are proved step by step: `SessionsAreImplemented` maps each
step of a request to one operation of `Sessions` or to a stutter, so what
`BrowserSession` assumes of its server is what the service does;
`StoreImplementsLog` maps a commit to `Publish` of the whole plan and every other
step to a stutter. What the projector and the daily summary assume of their log,
that it only grows at its end and that an aggregate keeps its owner, is
`CommitOrder` and `StreamsAgree`.

The prover has no induction over data, so loops and queries are compared with
their definitions in one of two ways. Where the code works event by event, the
invariant of the state machine is the induction: it says what was computed from
the events so far. Where one step computes a whole page (`ProcessPage`) or a
lemma needs all places of a list (`EntriesTell`), the argument is that of a
smallest counterexample among numbers, which the library has as a theorem on
well-founded relations.

`TypeCorrect` of `DailySummary` is about the variables that have a type of
their own; what a request has collected is described by `EInv` instead, more
precisely than by a type.

Assumptions are on constants only. Besides signs and orders of bounds (a page
has at least one event, the grace window is longer than the cooldown) they say
that markers such as `None`, `Nobody` or `Nothing` are none of the values they
stand beside (`NoneAssumption`, `NobodyAssumption`, `SessionAssumption`,
`OfferAssumption`), that the payloads and commands given are well-typed
(`PayloadAssumption`, `PublishedAssumption`, `CommandAssumption`,
`PlanAssumption`), that the limit on the events of one command is below the
highest version (1000 and 2^63 - 1 in the code), and that there are finitely many
users (`UsersAssumption`, for the ranks).

*Only model-checked*: the liveness properties `TransactionEnds`, `BatchEnds`,
`CheckInEnds` and `RequestEnds`, since leads-to under fairness rests on
`ENABLED`, which is beyond the prover; and the four violation runs, which show
a counterexample and have nothing to prove.

No module declares a RECURSIVE operator, so all of them can be proved about.

## 5. Not modelled

- Middleware, data transfer objects, the mapping of errors to status codes:
  stateless. Access tokens are signed and kept nowhere.
- Pet summaries and the pet repository: an interface without an implementation
  and an empty stub.
- The JSON text of payloads, password hashing, logging, configuration, start-up
  and shutdown, database roles, generated code other than the queries that the
  modules translate.
- Views of the frontend that show what they are given.
- A user with more events than `CheckIn` is prepared to read (10,000) gets an
  error and keeps the checkpoint; the state is reached in
  `daily_summary_exact`. That such a user never gets out of it is evident from
  the code and contradicts no text, so no property states it. The same goes for
  the summary that is lost with its reply, and for a block that takes effect
  after a login it raced.

## 6. Possible next steps

The modules cover the parts of the repository that keep state, and every safety
property that a run checks is a theorem. What could be added: a module for the
dispatcher of task progress and for the scheduler of the projector once `src/`
has them; and the composition of the event store with its two consumers in one
specification. Instances of it of a useful size are beyond TLC at present, so
that `EventLog` stands between them.
