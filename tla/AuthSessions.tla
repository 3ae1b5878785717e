----------------------------- MODULE AuthSessions -----------------------------
(***************************************************************************)
(* Accounts and refresh sessions: Register, Login, Refresh and Logout of   *)
(* internal/service/auth.go over the tables of migration 000002, run by    *)
(* concurrent requests that may carry any refresh token ever issued, as    *)
(* retries, repeated clicks and several tabs do.                           *)
(*                                                                         *)
(* A token is its index in the order of commits; hashing, bcrypt and the   *)
(* signature of access tokens are left out.  Each statement is a step.     *)
(***************************************************************************)
EXTENDS Integers, Sequences, FiniteSets

CONSTANTS
  Request,     \* requests in progress at once
  User,        \* normalised e-mail addresses
  RefreshTTL,  \* refreshTTL of token.Manager
  MaxTokens,   \* bound: refresh sessions created
  MaxClock,    \* bound: clock ticks
  MaxBlocks,   \* bound: changes of a user's status from outside
  None         \* no request, no token

ASSUME BoundsAssumption ==
  /\ RefreshTTL \in Nat \ {0}
  /\ MaxTokens \in Nat /\ MaxClock \in Nat /\ MaxBlocks \in Nat
  /\ None \notin Request \cup 1..MaxTokens

VARIABLES
  clock,       \* time.Now()
  status,      \* users.status, or "absent"
  tokens,      \* refresh sessions in commit order; live: the row is there
  rowLock,     \* per token, the request whose DELETE is uncommitted
  emailLock,   \* per user, the request whose INSERT is uncommitted
  pc, call,    \* where a request is, and its local variables
  loggedOut,   \* first tokens of the logins a Logout has ended
  blocks       \* changes of status so far

vars == <<clock, status, tokens, rowLock, emailLock, pc, call, loggedOut, blocks>>

-----------------------------------------------------------------------------
Token == 1..MaxTokens

Phase == {"idle", "insert", "status", "delete", "logout", "issue", "commit"}

\* root: the token of the Register or Login this one descends from.
TokenRow == [user : User, root : Token, by : {"register", "login", "refresh"},
             expiresAt : Nat, live : BOOLEAN]

Call == [by : {"register", "login", "refresh"}, user : User \cup {None},
         old : Token \cup {None}, expiresAt : Nat]

NoCall == [by |-> "login", user |-> None, old |-> None, expiresAt |-> 0]

TypeOK ==
  /\ clock \in 0..MaxClock
  /\ status \in [User -> {"absent", "active", "blocked"}]
  /\ tokens \in Seq(TokenRow) /\ Len(tokens) <= MaxTokens
  /\ rowLock \in [Token -> Request \cup {None}]
  /\ emailLock \in [User -> Request \cup {None}]
  /\ pc \in [Request -> Phase] /\ call \in [Request -> Call]
  /\ loggedOut \subseteq DOMAIN tokens
  /\ blocks \in 0..MaxBlocks

Init ==
  /\ clock = 0
  /\ status = [u \in User |-> "absent"]
  /\ tokens = <<>>
  /\ rowLock = [t \in Token |-> None]
  /\ emailLock = [u \in User |-> None]
  /\ pc = [r \in Request |-> "idle"]
  /\ call = [r \in Request |-> NoCall]
  /\ loggedOut = {}
  /\ blocks = 0

Tick ==
  /\ clock < MaxClock
  /\ clock' = clock + 1
  /\ UNCHANGED <<status, tokens, rowLock, emailLock, pc, call, loggedOut, blocks>>

\* users.status is changed by nothing in src/.
ChangeStatus(u) ==
  /\ blocks < MaxBlocks
  /\ status[u] # "absent"
  /\ status' = [status EXCEPT ![u] = IF @ = "active" THEN "blocked" ELSE "active"]
  /\ blocks' = blocks + 1
  /\ UNCHANGED <<clock, tokens, rowLock, emailLock, pc, call, loggedOut>>

Goto(r, phase) == pc' = [pc EXCEPT ![r] = phase]

Start(r, c) ==
  /\ pc[r] = "idle"
  /\ call' = [call EXCEPT ![r] = c]
  /\ UNCHANGED <<clock, status, tokens, rowLock, emailLock, loggedOut, blocks>>

-----------------------------------------------------------------------------
\* GetSession finds the committed row of the token.
SessionFound(t) == t \in DOMAIN tokens /\ tokens[t].live

\* GetByID finds the user with the status active.
Active(u) == status[u] = "active"

Register(r, u) ==
  /\ Start(r, [NoCall EXCEPT !.by = "register", !.user = u])
  /\ Goto(r, "insert")

Finish(r) ==
  /\ rowLock' = [t \in Token |-> IF rowLock[t] = r THEN None ELSE rowLock[t]]
  /\ emailLock' = [u \in User |-> IF emailLock[u] = r THEN None ELSE emailLock[u]]
  /\ call' = [call EXCEPT ![r] = NoCall]
  /\ Goto(r, "idle")

\* An error ends the request and rolls its transaction back.
Refuse(r) == Finish(r) /\ UNCHANGED <<status, tokens>>

\* Mutant: e-mail addresses are not unique.
CreateUserAgain(r) ==
  LET u == call[r].user IN
  /\ pc[r] = "insert"
  /\ emailLock[u] = None
  /\ emailLock' = [emailLock EXCEPT ![u] = r]
  /\ Goto(r, "issue")
  /\ UNCHANGED <<clock, status, tokens, rowLock, call, loggedOut, blocks>>

\* INSERT INTO users: a UNIQUE violation is ErrEmailTaken.
CreateUser(r) ==
  LET u == call[r].user IN
  /\ pc[r] = "insert"
  /\ emailLock[u] = None
  /\ IF status[u] = "absent"
     THEN /\ emailLock' = [emailLock EXCEPT ![u] = r]
          /\ Goto(r, "issue")
          /\ UNCHANGED <<status, tokens, rowLock, call>>
     ELSE Refuse(r)
  /\ UNCHANGED <<clock, loggedOut, blocks>>

\* GetByEmail, the password and the status, outside any transaction.
Login(r, u) ==
  /\ Active(u)
  /\ Start(r, [NoCall EXCEPT !.user = u])
  /\ Goto(r, "issue")

\* GetSession and the check of its expiry.
Refresh(r, t) ==
  /\ SessionFound(t)
  /\ clock < tokens[t].expiresAt
  /\ Start(r, [NoCall EXCEPT !.by = "refresh", !.user = tokens[t].user, !.old = t])
  /\ Goto(r, "status")

\* GetByID and the status.
CheckStatus(r) ==
  /\ pc[r] = "status"
  /\ IF Active(call[r].user)
     THEN Goto(r, "delete") /\ UNCHANGED <<status, tokens, rowLock, emailLock, call>>
     ELSE Refuse(r)
  /\ UNCHANGED <<clock, loggedOut, blocks>>

\* Mutant: the number of deleted rows is not looked at.
DeleteSessionUnchecked(r) ==
  LET t == call[r].old IN
  /\ pc[r] = "delete"
  /\ rowLock[t] = None
  /\ rowLock' = [rowLock EXCEPT ![t] = r]
  /\ Goto(r, "issue")
  /\ UNCHANGED <<clock, status, tokens, emailLock, call, loggedOut, blocks>>

\* DeleteSession: no row deleted is ErrSessionNotFound.
DeleteSession(r) ==
  LET t == call[r].old IN
  /\ pc[r] = "delete"
  /\ rowLock[t] = None
  /\ IF SessionFound(t)
     THEN /\ rowLock' = [rowLock EXCEPT ![t] = r]
          /\ Goto(r, "issue")
          /\ UNCHANGED <<status, tokens, emailLock, call>>
     ELSE Refuse(r)
  /\ UNCHANGED <<clock, loggedOut, blocks>>

\* Tokens.Issue and CreateSession.
CreateSession(r) ==
  /\ pc[r] = "issue"
  /\ call' = [call EXCEPT ![r].expiresAt = clock + RefreshTTL]
  /\ Goto(r, "commit")
  /\ UNCHANGED <<clock, status, tokens, rowLock, emailLock, loggedOut, blocks>>

\* The row that the request leaves behind.
NewToken(r) ==
  [user |-> call[r].user, by |-> call[r].by, expiresAt |-> call[r].expiresAt, live |-> TRUE,
   root |-> IF call[r].old = None THEN Len(tokens) + 1 ELSE tokens[call[r].old].root]

\* Mutant: a refresh prolongs the old row instead of replacing it.
CommitProlongs(r) ==
  /\ pc[r] = "commit"
  /\ Len(tokens) < MaxTokens
  /\ status' = IF call[r].by = "register" THEN [status EXCEPT ![call[r].user] = "active"] ELSE status
  /\ tokens' = IF call[r].old = None THEN Append(tokens, NewToken(r))
               ELSE [tokens EXCEPT ![call[r].old].expiresAt = call[r].expiresAt]
  /\ Finish(r)
  /\ UNCHANGED <<clock, loggedOut, blocks>>

Commit(r) ==
  /\ pc[r] = "commit"
  /\ Len(tokens) < MaxTokens
  /\ status' = IF call[r].by = "register" THEN [status EXCEPT ![call[r].user] = "active"] ELSE status
  /\ tokens' = Append([t \in DOMAIN tokens |->
                         IF t = call[r].old THEN [tokens[t] EXCEPT !.live = FALSE] ELSE tokens[t]],
                      NewToken(r))
  /\ Finish(r)
  /\ UNCHANGED <<clock, loggedOut, blocks>>

\* Logout deletes in a statement of its own.
Logout(r, t) ==
  /\ t \in DOMAIN tokens
  /\ Start(r, [NoCall EXCEPT !.old = t])
  /\ Goto(r, "logout")

DeleteLoggedOut(r) ==
  LET t == call[r].old IN
  /\ pc[r] = "logout"
  /\ rowLock[t] = None
  /\ tokens' = [tokens EXCEPT ![t].live = FALSE]
  /\ loggedOut' = IF tokens[t].live THEN loggedOut \cup {tokens[t].root} ELSE loggedOut
  /\ Finish(r)
  /\ UNCHANGED <<clock, status, blocks>>

\* Mutant: the connection returns to the pool with its transaction open.
AbortKeepsLocks(r) ==
  /\ pc[r] # "idle"
  /\ call' = [call EXCEPT ![r] = NoCall]
  /\ Goto(r, "idle")
  /\ UNCHANGED <<clock, status, tokens, rowLock, emailLock, loggedOut, blocks>>

\* A lost connection, a cancelled context or a crash.
Abort(r) ==
  /\ pc[r] # "idle"
  /\ Refuse(r)
  /\ UNCHANGED <<clock, loggedOut, blocks>>

Run(r) == CheckStatus(r) \/ CreateSession(r) \/ Commit(r)

Wait(r) == CreateUser(r) \/ DeleteSession(r) \/ DeleteLoggedOut(r)

Next ==
  \/ Tick
  \/ \E u \in User : ChangeStatus(u)
  \/ \E r \in Request :
       \/ \E u \in User : Register(r, u) \/ Login(r, u)
       \/ \E t \in Token : Refresh(r, t) \/ Logout(r, t)
       \/ Run(r) \/ Wait(r) \/ Abort(r)

Spec == Init /\ [][Next]_vars

\* Requests keep running, waiters are served in turn; at the bound on
\* tokens a request that would create one more fails instead.
FairSpec ==
  /\ Spec
  /\ \A r \in Request : /\ WF_vars(Run(r)) /\ SF_vars(Wait(r))
                        /\ WF_vars(pc[r] = "commit" /\ Len(tokens) = MaxTokens /\ Abort(r))

-----------------------------------------------------------------------------
Live(root) == {t \in DOMAIN tokens : tokens[t].live /\ tokens[t].root = root}

(***************************************************************************)
(* A login has exactly one live refresh token until it is logged out, and  *)
(* none after.  Two refreshes of one token never both succeed, a refresh   *)
(* that fails leaves the old token, and a logout that answered "done" is   *)
(* not undone by a refresh that was on its way.                            *)
(***************************************************************************)
OneTokenPerLogin ==
  \A root \in DOMAIN tokens :
    tokens[root].root = root =>
      Cardinality(Live(root)) = IF root \in loggedOut THEN 0 ELSE 1

(***************************************************************************)
(* An account and the session of its registration appear together and      *)
(* once, however many registrations of the address race or fail.           *)
(***************************************************************************)
RegisteredOnce ==
  \A u \in User :
    Cardinality({t \in DOMAIN tokens : tokens[t].user = u /\ tokens[t].by = "register"})
      = IF status[u] = "absent" THEN 0 ELSE 1

Contract == INSTANCE Sessions WITH
  tokens <- [t \in DOMAIN tokens |->
               [user |-> tokens[t].user, root |-> tokens[t].root,
                expiresAt |-> tokens[t].expiresAt, live |-> tokens[t].live]]

(***************************************************************************)
(* To its clients the service behaves as Sessions: every statement of      *)
(* every request is one whole successful operation or nothing.  A token    *)
(* that a logout or a rotation revoked stays revoked, a rotation makes one *)
(* token of the same login in the step that takes the old one, no session  *)
(* changes owner or lifetime, and an account never goes away.              *)
(***************************************************************************)
ImplementsSessions == Contract!Spec

(***************************************************************************)
(* Every request ends: requests that wait for a row or an address another  *)
(* request is writing go on when that one commits, fails or crashes.       *)
(***************************************************************************)
RequestEnds == \A r \in Request : pc[r] # "idle" ~> pc[r] = "idle"
=============================================================================
