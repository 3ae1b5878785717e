------------------------------ MODULE Sessions ------------------------------
(***************************************************************************)
(* What the authentication service promises its clients, whatever happens  *)
(* inside: accounts appear once, a login begins a chain of refresh tokens  *)
(* of which exactly the newest works, and a logout ends the chain.  Each   *)
(* operation of internal/service/auth.go that succeeds is one step here;   *)
(* AuthSessions implements these steps, BrowserSession relies on them.     *)
(***************************************************************************)
EXTENDS Integers, Sequences

CONSTANTS
  User,        \* normalised e-mail addresses
  RefreshTTL   \* refreshTTL of token.Manager

VARIABLES
  clock,       \* time.Now()
  status,      \* users.status, or "absent"
  tokens       \* refresh sessions in commit order; live: the row is there

vars == <<clock, status, tokens>>

Init ==
  /\ clock = 0
  /\ status = [u \in User |-> "absent"]
  /\ tokens = <<>>

\* A token of the chain that began with the token root.
Issued(u, root, expiresAt) ==
  [user |-> u, root |-> root, expiresAt |-> expiresAt, live |-> TRUE]

Works(t) == t \in DOMAIN tokens /\ tokens[t].live /\ clock < tokens[t].expiresAt

\* The expiry is taken from the clock before the token's row commits.
Expiry == 0 .. clock + RefreshTTL

Begin(u, expiresAt) == tokens' = Append(tokens, Issued(u, Len(tokens) + 1, expiresAt))

Register(u, expiresAt) ==
  /\ status[u] = "absent"
  /\ status' = [status EXCEPT ![u] = "active"]
  /\ Begin(u, expiresAt)
  /\ UNCHANGED clock

\* The user may have been blocked since the password was checked.
Login(u, expiresAt) ==
  /\ status[u] # "absent"
  /\ Begin(u, expiresAt)
  /\ UNCHANGED <<clock, status>>

\* The token's successor appears in the step in which the token goes.
Refresh(t, expiresAt) ==
  /\ t \in DOMAIN tokens /\ tokens[t].live
  /\ tokens' = Append([tokens EXCEPT ![t].live = FALSE],
                      Issued(tokens[t].user, tokens[t].root, expiresAt))
  /\ UNCHANGED <<clock, status>>

Logout(t) ==
  /\ t \in DOMAIN tokens /\ tokens[t].live
  /\ tokens' = [tokens EXCEPT ![t].live = FALSE]
  /\ UNCHANGED <<clock, status>>

Tick == clock' = clock + 1 /\ UNCHANGED <<status, tokens>>

ChangeStatus(u) ==
  /\ status[u] # "absent"
  /\ status' = [status EXCEPT ![u] = IF @ = "active" THEN "blocked" ELSE "active"]
  /\ UNCHANGED <<clock, tokens>>

Next ==
  \/ Tick
  \/ \E u \in User : ChangeStatus(u)
  \/ \E u \in User, e \in Expiry : Register(u, e) \/ Login(u, e)
  \/ \E t \in DOMAIN tokens, e \in Expiry : Refresh(t, e)
  \/ \E t \in DOMAIN tokens : Logout(t)

Spec == Init /\ [][Next]_vars
=============================================================================
