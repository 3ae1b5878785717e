-------------------------- MODULE AuthSessionsProofs --------------------------
(***************************************************************************)
(* Proofs about AuthSessions, for any requests, users, lifetimes and       *)
(* bounds: its types, one token per login, one registration per account,   *)
(* and that it implements Sessions.                                        *)
(***************************************************************************)
EXTENDS AuthSessions, FiniteSetTheorems, SequenceTheorems, TLAPS

-----------------------------------------------------------------------------
(***************************************************************************)
(* The strengthening.  What a request learnt from an earlier statement is  *)
(* still true when it commits, because it holds a lock on it: the row of   *)
(* the token it deletes, or the address it registers.                      *)
(***************************************************************************)
Ready(r) ==
  LET c == call[r] IN
  /\ c.user \in User
  /\ c.by = "register" =>
       c.old = None /\ status[c.user] = "absent" /\ emailLock[c.user] = r
  /\ c.by = "login" => c.old = None /\ status[c.user] # "absent"
  /\ c.by = "refresh" =>
       SessionFound(c.old) /\ rowLock[c.old] = r /\ c.user = tokens[c.old].user

RequestOK(r) ==
  LET c == call[r] IN
  /\ pc[r] = "insert" => c.by = "register" /\ c.user \in User /\ c.old = None
  /\ pc[r] \in {"status", "delete"} =>
       c.by = "refresh" /\ c.old \in DOMAIN tokens /\ c.user = tokens[c.old].user
  /\ pc[r] = "logout" => c.old \in DOMAIN tokens
  /\ pc[r] \in {"issue", "commit"} => Ready(r)
  /\ pc[r] = "commit" => c.expiresAt <= clock + RefreshTTL

RequestsOK == \A r \in Request : RequestOK(r)

\* The tokens of a chain that work, and the chains that were ended.
ChainsOK ==
  /\ \A t \in DOMAIN tokens : tokens[t].root \in DOMAIN tokens
  /\ \A s, t \in DOMAIN tokens :
       tokens[s].live /\ tokens[t].live /\ tokens[s].root = tokens[t].root => s = t
  /\ \A root \in DOMAIN tokens :
       tokens[root].root = root => (root \in loggedOut <=> Live(root) = {})

Registered(u) == {t \in DOMAIN tokens : tokens[t].user = u /\ tokens[t].by = "register"}

AccountsOK ==
  \A u \in User :
    /\ status[u] = "absent" <=> Registered(u) = {}
    /\ \A s, t \in Registered(u) : s = t

IInv == TypeOK /\ RequestsOK /\ ChainsOK /\ AccountsOK

-----------------------------------------------------------------------------
(* The pieces that the steps are made of. *)

LEMMA TokensFacts ==
  ASSUME TypeOK
  PROVE  /\ Len(tokens) \in Nat /\ DOMAIN tokens = 1..Len(tokens)
         /\ tokens \in [DOMAIN tokens -> TokenRow]
         /\ DOMAIN tokens \subseteq Token
         /\ None \notin DOMAIN tokens
<1>1. Len(tokens) \in Nat /\ DOMAIN tokens = 1..Len(tokens) /\ Len(tokens) <= MaxTokens
  BY LenProperties DEF TypeOK
<1>2. DOMAIN tokens \subseteq Token
  BY <1>1, BoundsAssumption DEF Token
<1> QED
  BY <1>1, <1>2, LenProperties, BoundsAssumption DEF TypeOK, Token

\* A row that a rotation or a logout has deleted.
Gone(row) == [row EXCEPT !.live = FALSE]

LEMMA GoneOK ==
  ASSUME NEW row \in TokenRow
  PROVE  /\ Gone(row) \in TokenRow /\ Gone(row).live = FALSE
         /\ Gone(row).user = row.user /\ Gone(row).root = row.root
         /\ Gone(row).by = row.by /\ Gone(row).expiresAt = row.expiresAt
BY DEF TokenRow, Gone

LEMMA GoneTokens ==
  ASSUME TypeOK, NEW t \in DOMAIN tokens
  PROVE  LET gone == Gone(tokens[t]) IN
         /\ tokens[t] \in TokenRow /\ gone.live = FALSE /\ gone.user = tokens[t].user
         /\ gone.root = tokens[t].root /\ gone.by = tokens[t].by
<1>1. tokens[t] \in TokenRow
  BY TokensFacts
<1> QED
  BY <1>1, GoneOK

\* What a request knows survives every step that leaves its locks alone.
LEMMA FrameOK ==
  ASSUME TypeOK, NEW q \in Request, RequestOK(q),
         pc'[q] = pc[q], call'[q] = call[q],
         clock' \in Nat, clock' >= clock,
         DOMAIN tokens \subseteq DOMAIN tokens',
         \A t \in DOMAIN tokens :
           /\ tokens'[t].user = tokens[t].user
           /\ rowLock[t] = q => rowLock'[t] = q /\ tokens'[t].live = tokens[t].live,
         \A u \in User :
           /\ emailLock[u] = q => emailLock'[u] = q /\ status'[u] = status[u]
           /\ status[u] # "absent" => status'[u] # "absent"
  PROVE  RequestOK(q)'
<1> DEFINE c == call[q]
<1>1. c \in Call /\ clock \in Nat /\ RefreshTTL \in Nat
  BY BoundsAssumption DEF TypeOK
<1>2. Ready(q) => Ready(q)'
  <2>1. SUFFICES ASSUME Ready(q) PROVE Ready(q)'
    OBVIOUS
  <2>2. c.user \in User
    BY <2>1 DEF Ready
  <2>3. c.by = "register" => c.old = None /\ status'[c.user] = "absent" /\ emailLock'[c.user] = q
    BY <2>1, <2>2 DEF Ready
  <2>4. c.by = "login" => c.old = None /\ status'[c.user] # "absent"
    BY <2>1, <2>2 DEF Ready
  <2>5. c.by = "refresh" =>
          /\ c.old \in DOMAIN tokens' /\ tokens'[c.old].live
          /\ rowLock'[c.old] = q /\ c.user = tokens'[c.old].user
    BY <2>1 DEF Ready, SessionFound
  <2> QED
    BY <2>2, <2>3, <2>4, <2>5 DEF Ready, SessionFound
<1>3. c.expiresAt \in Nat
  BY <1>1 DEF Call
<1>4. c.expiresAt <= clock + RefreshTTL => c.expiresAt <= clock' + RefreshTTL
  BY <1>1, <1>3
<1> QED
  BY <1>2, <1>4 DEF RequestOK

\* A step of r leaves the other requests and their locks as they are.
OthersKeep(r) ==
  \A q \in Request \ {r} :
    /\ pc'[q] = pc[q] /\ call'[q] = call[q]
    /\ \A t \in Token : rowLock[t] = q => rowLock'[t] = q
    /\ \A u \in User : emailLock[u] = q => emailLock'[u] = q

LEMMA FinishOK ==
  ASSUME TypeOK, NEW r \in Request, Finish(r)
  PROVE  /\ rowLock' \in [Token -> Request \cup {None}]
         /\ emailLock' \in [User -> Request \cup {None}]
         /\ pc' \in [Request -> Phase] /\ call' \in [Request -> Call]
         /\ pc'[r] = "idle" /\ OthersKeep(r)
<1>1. /\ rowLock' = [t \in Token |-> IF rowLock[t] = r THEN None ELSE rowLock[t]]
      /\ emailLock' = [u \in User |-> IF emailLock[u] = r THEN None ELSE emailLock[u]]
      /\ call' = [call EXCEPT ![r] = NoCall]
      /\ pc' = [pc EXCEPT ![r] = "idle"]
  BY DEF Finish, Goto
<1>2. NoCall \in Call
  BY DEF NoCall, Call
<1>3. /\ rowLock' \in [Token -> Request \cup {None}]
      /\ emailLock' \in [User -> Request \cup {None}]
  BY <1>1 DEF TypeOK
<1>4. pc' \in [Request -> Phase] /\ call' \in [Request -> Call] /\ pc'[r] = "idle"
  BY <1>1, <1>2 DEF TypeOK, Phase
<1>5. OthersKeep(r)
  BY <1>1 DEF TypeOK, OthersKeep
<1> QED
  BY <1>3, <1>4, <1>5

LEMMA GotoOK ==
  ASSUME TypeOK, NEW r \in Request, NEW phase \in Phase, Goto(r, phase)
  PROVE  /\ pc' \in [Request -> Phase] /\ pc'[r] = phase
         /\ \A q \in Request \ {r} : pc'[q] = pc[q]
BY DEF TypeOK, Goto

\* Steps that change nothing but a request and its locks.
LEMMA QuietOK ==
  ASSUME IInv, NEW r \in Request,
         UNCHANGED <<clock, status, tokens, loggedOut, blocks>>,
         rowLock' \in [Token -> Request \cup {None}],
         emailLock' \in [User -> Request \cup {None}],
         pc' \in [Request -> Phase], call' \in [Request -> Call],
         OthersKeep(r), RequestOK(r)'
  PROVE  IInv'
<1>1. TypeOK'
  BY DEF IInv, TypeOK
<1>2. RequestsOK'
  <2>1. SUFFICES ASSUME NEW q \in Request, q # r PROVE RequestOK(q)'
    BY DEF RequestsOK
  <2>2. TypeOK /\ RequestOK(q) /\ clock' \in Nat /\ clock' >= clock
    BY DEF IInv, RequestsOK, TypeOK
  <2>3. /\ pc'[q] = pc[q] /\ call'[q] = call[q]
        /\ \A t \in Token : rowLock[t] = q => rowLock'[t] = q
        /\ \A u \in User : emailLock[u] = q => emailLock'[u] = q
    BY <2>1 DEF OthersKeep
  <2>4. DOMAIN tokens \subseteq Token /\ tokens' = tokens /\ status' = status
    BY <2>2, TokensFacts
  <2> QED
    BY <2>2, <2>3, <2>4, FrameOK
<1>3. ChainsOK' /\ AccountsOK'
  BY DEF IInv, ChainsOK, AccountsOK, Live, Registered
<1> QED
  BY <1>1, <1>2, <1>3 DEF IInv

\* An idle request knows nothing.
LEMMA IdleOK ==
  ASSUME NEW r \in Request, pc'[r] = "idle" PROVE RequestOK(r)'
BY DEF RequestOK

LEMMA RefuseOK ==
  ASSUME IInv, NEW r \in Request, Refuse(r), UNCHANGED <<clock, loggedOut, blocks>>
  PROVE  IInv'
<1>1. Finish(r) /\ UNCHANGED <<clock, status, tokens, loggedOut, blocks>> /\ TypeOK
  BY DEF Refuse, IInv
<1>2. /\ rowLock' \in [Token -> Request \cup {None}]
      /\ emailLock' \in [User -> Request \cup {None}]
      /\ pc' \in [Request -> Phase] /\ call' \in [Request -> Call]
      /\ pc'[r] = "idle" /\ OthersKeep(r)
  BY <1>1, FinishOK
<1>3. RequestOK(r)'
  BY <1>2, IdleOK
<1> QED
  BY <1>1, <1>2, <1>3, QuietOK

\* A request starts with what it found in the tables.
LEMMA StartOK ==
  ASSUME IInv, NEW r \in Request, NEW c \in Call, NEW phase \in Phase,
         Start(r, c), Goto(r, phase), phase # "commit",
         phase = "insert" => c.by = "register" /\ c.user \in User /\ c.old = None,
         phase \in {"status", "delete"} =>
           c.by = "refresh" /\ c.old \in DOMAIN tokens /\ c.user = tokens[c.old].user,
         phase = "logout" => c.old \in DOMAIN tokens,
         phase = "issue" => c.by = "login" /\ c.old = None /\ c.user \in User
                              /\ status[c.user] # "absent"
  PROVE  IInv'
<1>1. /\ call' = [call EXCEPT ![r] = c] /\ pc' = [pc EXCEPT ![r] = phase]
      /\ UNCHANGED <<clock, status, tokens, rowLock, emailLock, loggedOut, blocks>>
  BY DEF Start, Goto
<1>2. /\ call' \in [Request -> Call] /\ call'[r] = c
      /\ pc' \in [Request -> Phase] /\ pc'[r] = phase
  BY <1>1 DEF IInv, TypeOK
<1>3. OthersKeep(r)
  BY <1>1 DEF IInv, TypeOK, OthersKeep
<1>4. RequestOK(r)'
  <2>1. phase = "issue" => Ready(r)'
    BY <1>1, <1>2 DEF Ready
  <2> QED
    BY <1>1, <1>2, <2>1 DEF RequestOK
<1> QED
  BY <1>1, <1>2, <1>3, <1>4, QuietOK DEF IInv, TypeOK

-----------------------------------------------------------------------------
(* The steps that change no table. *)

LEMMA TickOK == ASSUME IInv, Tick PROVE IInv'
<1>1. TypeOK'
  BY BoundsAssumption DEF IInv, TypeOK, Tick
<1>2. RequestsOK'
  <2>1. SUFFICES ASSUME NEW q \in Request PROVE RequestOK(q)'
    BY DEF RequestsOK
  <2>2. TypeOK /\ RequestOK(q) /\ clock' \in Nat /\ clock' >= clock
    BY DEF IInv, RequestsOK, TypeOK, Tick
  <2>3. UNCHANGED <<status, tokens, rowLock, emailLock, pc, call>>
    BY DEF Tick
  <2> QED
    BY <2>2, <2>3, FrameOK
<1>3. ChainsOK' /\ AccountsOK'
  BY DEF IInv, ChainsOK, AccountsOK, Live, Registered, Tick
<1> QED
  BY <1>1, <1>2, <1>3 DEF IInv

\* Users appear with their registration only; a change of status is no change
\* to a request that registers, for the user is absent then.
LEMMA ChangeStatusOK == ASSUME IInv, NEW u \in User, ChangeStatus(u) PROVE IInv'
<1>1. /\ status[u] # "absent"
      /\ status' = [status EXCEPT ![u] = IF status[u] = "active" THEN "blocked" ELSE "active"]
      /\ blocks < MaxBlocks /\ blocks' = blocks + 1
      /\ UNCHANGED <<clock, tokens, rowLock, emailLock, pc, call, loggedOut>>
  BY DEF ChangeStatus
<1>2. TypeOK'
  BY <1>1, BoundsAssumption DEF IInv, TypeOK
<1>3. /\ \A v \in User \ {u} : status'[v] = status[v]
      /\ status'[u] # "absent"
  BY <1>1 DEF IInv, TypeOK
<1>4. RequestsOK'
  <2>1. SUFFICES ASSUME NEW q \in Request PROVE RequestOK(q)'
    BY DEF RequestsOK
  <2>2. RequestOK(q)
    BY DEF IInv, RequestsOK
  <2>3. Ready(q) => Ready(q)'
    BY <1>1, <1>3 DEF Ready, SessionFound
  <2> QED
    BY <1>1, <2>2, <2>3 DEF RequestOK
<1>5. ChainsOK'
  BY <1>1 DEF IInv, ChainsOK, Live
<1>6. AccountsOK'
  BY <1>1, <1>3 DEF IInv, AccountsOK, Registered
<1> QED
  BY <1>2, <1>4, <1>5, <1>6 DEF IInv

LEMMA RegisterOK ==
  ASSUME IInv, NEW r \in Request, NEW u \in User, Register(r, u) PROVE IInv'
<1> DEFINE c == [NoCall EXCEPT !.by = "register", !.user = u]
<1>1. NoCall \in Call /\ NoCall.old = None
  BY DEF NoCall, Call
<1>2. c \in Call /\ c.by = "register" /\ c.user \in User /\ c.old = None
  BY <1>1 DEF Call
<1>3. Start(r, c) /\ Goto(r, "insert") /\ "insert" \in Phase
  BY DEF Register, Phase
<1> HIDE DEF c
<1> QED
  BY <1>2, <1>3, StartOK

LEMMA LoginOK ==
  ASSUME IInv, NEW r \in Request, NEW u \in User, Login(r, u) PROVE IInv'
<1> DEFINE c == [NoCall EXCEPT !.user = u]
<1>1. c = [by |-> "login", user |-> u, old |-> None, expiresAt |-> 0]
  BY DEF NoCall
<1>2. c \in Call /\ c.by = "login" /\ c.user = u /\ c.old = None
  BY <1>1 DEF Call
<1>3. /\ Start(r, c) /\ Goto(r, "issue") /\ "issue" \in Phase /\ status[u] # "absent"
  BY DEF Login, Active, Phase
<1> HIDE DEF c
<1> QED
  BY <1>2, <1>3, StartOK

LEMMA RefreshOK ==
  ASSUME IInv, NEW r \in Request, NEW t \in Token, Refresh(r, t) PROVE IInv'
<1> DEFINE c == [NoCall EXCEPT !.by = "refresh", !.user = tokens[t].user, !.old = t]
<1>1. NoCall \in Call
  BY DEF NoCall, Call
<1>2. t \in DOMAIN tokens /\ tokens[t].user \in User
  BY TokensFacts DEF IInv, Refresh, SessionFound, TokenRow
<1>3. c \in Call /\ c.by = "refresh" /\ c.old = t /\ c.user = tokens[t].user
  BY <1>1, <1>2 DEF Call
<1>4. Start(r, c) /\ Goto(r, "status") /\ "status" \in Phase
  BY DEF Refresh, Phase
<1> HIDE DEF c
<1> QED
  BY <1>2, <1>3, <1>4, StartOK

LEMMA LogoutOK ==
  ASSUME IInv, NEW r \in Request, NEW t \in Token, Logout(r, t) PROVE IInv'
<1> DEFINE c == [NoCall EXCEPT !.old = t]
<1>1. c = [by |-> "login", user |-> None, old |-> t, expiresAt |-> 0]
  BY DEF NoCall
<1>2. c \in Call /\ c.old = t
  BY <1>1 DEF Call
<1>3. Start(r, c) /\ Goto(r, "logout") /\ "logout" \in Phase /\ t \in DOMAIN tokens
  BY DEF Logout, Phase
<1> HIDE DEF c
<1> QED
  BY <1>2, <1>3, StartOK

\* A statement that gets its lock and goes on to the new session.
LEMMA CreateUserOK == ASSUME IInv, NEW r \in Request, CreateUser(r) PROVE IInv'
<1> DEFINE u == call[r].user
<1>1. pc[r] = "insert" /\ emailLock[u] = None /\ UNCHANGED <<clock, loggedOut, blocks>>
  BY DEF CreateUser
<1>2. u \in User /\ call[r].by = "register" /\ call[r].old = None
  BY <1>1 DEF IInv, RequestsOK, RequestOK
<1>3. CASE status[u] = "absent"
  <2>1. /\ emailLock' = [emailLock EXCEPT ![u] = r]
        /\ pc' = [pc EXCEPT ![r] = "issue"]
        /\ UNCHANGED <<status, tokens, rowLock, call>>
    BY <1>3 DEF CreateUser, Goto
  <2>2. /\ emailLock' \in [User -> Request \cup {None}] /\ emailLock'[u] = r
        /\ pc' \in [Request -> Phase] /\ pc'[r] = "issue"
    BY <1>2, <2>1 DEF IInv, TypeOK, Phase
  <2>3. OthersKeep(r)
    BY <1>1, <2>1, BoundsAssumption DEF IInv, TypeOK, OthersKeep
  <2>4. RequestOK(r)'
    BY <1>2, <1>3, <2>1, <2>2 DEF RequestOK, Ready
  <2> QED
    BY <1>1, <2>1, <2>2, <2>3, <2>4, QuietOK DEF IInv, TypeOK
<1>4. CASE status[u] # "absent"
  BY <1>1, <1>4, RefuseOK DEF CreateUser
<1> QED
  BY <1>3, <1>4

LEMMA CheckStatusOK == ASSUME IInv, NEW r \in Request, CheckStatus(r) PROVE IInv'
<1>1. pc[r] = "status" /\ UNCHANGED <<clock, loggedOut, blocks>>
  BY DEF CheckStatus
<1>2. CASE Active(call[r].user)
  <2>1. /\ pc' = [pc EXCEPT ![r] = "delete"]
        /\ UNCHANGED <<status, tokens, rowLock, emailLock, call>>
    BY <1>2 DEF CheckStatus, Goto
  <2>2. pc' \in [Request -> Phase] /\ pc'[r] = "delete" /\ OthersKeep(r)
    BY <2>1 DEF IInv, TypeOK, Phase, OthersKeep
  <2>3. RequestOK(r)'
    BY <1>1, <2>1, <2>2 DEF IInv, RequestsOK, RequestOK
  <2> QED
    BY <1>1, <2>1, <2>2, <2>3, QuietOK DEF IInv, TypeOK
<1>3. CASE ~ Active(call[r].user)
  BY <1>1, <1>3, RefuseOK DEF CheckStatus
<1> QED
  BY <1>2, <1>3

LEMMA DeleteSessionOK == ASSUME IInv, NEW r \in Request, DeleteSession(r) PROVE IInv'
<1> DEFINE t == call[r].old
<1>1. pc[r] = "delete" /\ rowLock[t] = None /\ UNCHANGED <<clock, loggedOut, blocks>>
  BY DEF DeleteSession
<1>2. /\ t \in DOMAIN tokens /\ t \in Token /\ call[r].by = "refresh"
      /\ call[r].user = tokens[t].user /\ tokens[t].user \in User
  BY <1>1, TokensFacts DEF IInv, RequestsOK, RequestOK, TokenRow
<1>3. CASE SessionFound(t)
  <2>1. /\ rowLock' = [rowLock EXCEPT ![t] = r]
        /\ pc' = [pc EXCEPT ![r] = "issue"]
        /\ UNCHANGED <<status, tokens, emailLock, call>>
    BY <1>3 DEF DeleteSession, Goto
  <2>2. /\ rowLock' \in [Token -> Request \cup {None}] /\ rowLock'[t] = r
        /\ pc' \in [Request -> Phase] /\ pc'[r] = "issue"
    BY <1>2, <2>1 DEF IInv, TypeOK, Phase
  <2>3. OthersKeep(r)
    BY <1>1, <2>1, BoundsAssumption DEF IInv, TypeOK, OthersKeep
  <2>4. RequestOK(r)'
    BY <1>2, <1>3, <2>1, <2>2 DEF RequestOK, Ready, SessionFound
  <2> QED
    BY <1>1, <2>1, <2>2, <2>3, <2>4, QuietOK DEF IInv, TypeOK
<1>4. CASE ~ SessionFound(t)
  BY <1>1, <1>4, RefuseOK DEF DeleteSession
<1> QED
  BY <1>3, <1>4

LEMMA CreateSessionOK == ASSUME IInv, NEW r \in Request, CreateSession(r) PROVE IInv'
<1>1. /\ pc[r] = "issue" /\ pc' = [pc EXCEPT ![r] = "commit"]
      /\ call' = [call EXCEPT ![r] = [call[r] EXCEPT !.expiresAt = clock + RefreshTTL]]
      /\ UNCHANGED <<clock, status, tokens, rowLock, emailLock, loggedOut, blocks>>
  BY DEF CreateSession, Goto
<1>2. clock + RefreshTTL \in Nat /\ call[r] \in Call
  BY BoundsAssumption DEF IInv, TypeOK
<1>3. /\ [call[r] EXCEPT !.expiresAt = clock + RefreshTTL] \in Call
      /\ [call[r] EXCEPT !.expiresAt = clock + RefreshTTL].by = call[r].by
      /\ [call[r] EXCEPT !.expiresAt = clock + RefreshTTL].user = call[r].user
      /\ [call[r] EXCEPT !.expiresAt = clock + RefreshTTL].old = call[r].old
      /\ [call[r] EXCEPT !.expiresAt = clock + RefreshTTL].expiresAt = clock + RefreshTTL
  BY <1>2 DEF Call
<1>4. /\ call' \in [Request -> Call] /\ call'[r] = [call[r] EXCEPT !.expiresAt = clock + RefreshTTL]
      /\ pc' \in [Request -> Phase] /\ pc'[r] = "commit" /\ OthersKeep(r)
  BY <1>1, <1>3 DEF IInv, TypeOK, Phase, OthersKeep
<1>5. Ready(r)
  BY <1>1 DEF IInv, RequestsOK, RequestOK
<1>6. RequestOK(r)'
  <2>1. /\ call'[r].by = call[r].by /\ call'[r].user = call[r].user
        /\ call'[r].old = call[r].old /\ call'[r].expiresAt <= clock' + RefreshTTL
    BY <1>1, <1>2, <1>3, <1>4
  <2>2. Ready(r)'
    BY <1>1, <1>5, <2>1 DEF Ready, SessionFound
  <2> QED
    BY <1>4, <2>1, <2>2 DEF RequestOK
<1> QED
  BY <1>1, <1>4, <1>6, QuietOK DEF IInv, TypeOK

LEMMA AbortOK == ASSUME IInv, NEW r \in Request, Abort(r) PROVE IInv'
BY RefuseOK DEF Abort

-----------------------------------------------------------------------------
(* The two steps that write refresh sessions. *)

LEMMA LoggedOutTokens ==
  ASSUME IInv, NEW r \in Request, DeleteLoggedOut(r), NEW t, t = call[r].old
  PROVE  /\ pc[r] = "logout" /\ rowLock[t] = None /\ t \in DOMAIN tokens
         /\ tokens' \in Seq(TokenRow) /\ Len(tokens') = Len(tokens)
         /\ DOMAIN tokens' = DOMAIN tokens
         /\ tokens'[t] = Gone(tokens[t])
         /\ \A s \in DOMAIN tokens \ {t} : tokens'[s] = tokens[s]
         /\ loggedOut' = IF tokens[t].live THEN loggedOut \cup {tokens[t].root} ELSE loggedOut
<1>1. /\ pc[r] = "logout" /\ rowLock[t] = None
      /\ tokens' = [tokens EXCEPT ![t] = Gone(tokens[t])]
      /\ loggedOut' = IF tokens[t].live THEN loggedOut \cup {tokens[t].root} ELSE loggedOut
  BY DEF DeleteLoggedOut, Gone
<1>2. t \in DOMAIN tokens
  BY <1>1 DEF IInv, RequestsOK, RequestOK
<1>3. t \in 1..Len(tokens) /\ Gone(tokens[t]) \in TokenRow /\ tokens \in Seq(TokenRow)
  BY <1>2, TokensFacts, GoneOK DEF IInv, TypeOK
<1>4. tokens' \in Seq(TokenRow) /\ Len(tokens') = Len(tokens)
  BY <1>1, <1>3, ExceptSeq
<1> QED
  BY <1>1, <1>2, <1>4

LEMMA DeleteLoggedOutOK == ASSUME IInv, NEW r \in Request, DeleteLoggedOut(r) PROVE IInv'
<1> DEFINE t == call[r].old
<1>1. /\ pc[r] = "logout" /\ rowLock[t] = None /\ t \in DOMAIN tokens
      /\ tokens' \in Seq(TokenRow) /\ Len(tokens') = Len(tokens)
      /\ DOMAIN tokens' = DOMAIN tokens
      /\ tokens'[t] = Gone(tokens[t])
      /\ \A s \in DOMAIN tokens \ {t} : tokens'[s] = tokens[s]
      /\ loggedOut' = IF tokens[t].live THEN loggedOut \cup {tokens[t].root} ELSE loggedOut
  BY LoggedOutTokens
<1>2. Finish(r) /\ UNCHANGED <<clock, status, blocks>> /\ TypeOK /\ t \in Token
  BY <1>1, TokensFacts DEF DeleteLoggedOut, IInv
<1> HIDE DEF t
<1>3. /\ \A s \in DOMAIN tokens :
           /\ tokens[s] \in TokenRow
           /\ tokens'[s].user = tokens[s].user /\ tokens'[s].root = tokens[s].root
           /\ tokens'[s].by = tokens[s].by /\ (s # t => tokens'[s].live = tokens[s].live)
      /\ tokens'[t].live = FALSE
  BY <1>1, <1>2, GoneTokens
<1>4. /\ rowLock' \in [Token -> Request \cup {None}]
      /\ emailLock' \in [User -> Request \cup {None}]
      /\ pc' \in [Request -> Phase] /\ call' \in [Request -> Call]
      /\ pc'[r] = "idle" /\ OthersKeep(r)
  BY <1>2, FinishOK
<1>5. tokens[t].root \in DOMAIN tokens
  BY <1>1 DEF IInv, ChainsOK
<1>6. TypeOK'
  <2>1. loggedOut' \subseteq DOMAIN tokens'
    BY <1>1, <1>2, <1>5 DEF TypeOK
  <2>2. Len(tokens') <= MaxTokens /\ tokens' \in Seq(TokenRow)
    BY <1>1, <1>2 DEF TypeOK
  <2> QED
    BY <1>2, <1>4, <2>1, <2>2 DEF TypeOK
<1>7. RequestsOK'
  <2>1. SUFFICES ASSUME NEW q \in Request PROVE RequestOK(q)'
    BY DEF RequestsOK
  <2>2. CASE q = r
    BY <2>2, <1>4, IdleOK
  <2>3. CASE q # r
    <3>1. RequestOK(q) /\ clock' \in Nat /\ clock' >= clock
      BY <1>2 DEF IInv, RequestsOK, TypeOK
    <3>2. /\ pc'[q] = pc[q] /\ call'[q] = call[q]
          /\ \A s \in Token : rowLock[s] = q => rowLock'[s] = q
          /\ \A u \in User : emailLock[u] = q => emailLock'[u] = q
      BY <2>3, <1>4 DEF OthersKeep
    <3>3. rowLock[t] # q /\ DOMAIN tokens \subseteq Token
      BY <1>1, <1>2, BoundsAssumption, TokensFacts
    <3> QED
      BY <1>1, <1>2, <1>3, <3>1, <3>2, <3>3, FrameOK
  <2> QED
    BY <2>2, <2>3
<1>8. ChainsOK'
  <2>1. \A s \in DOMAIN tokens' : tokens'[s].root \in DOMAIN tokens'
    BY <1>1, <1>3 DEF IInv, ChainsOK
  <2>2. \A q, s \in DOMAIN tokens' :
          tokens'[q].live /\ tokens'[s].live /\ tokens'[q].root = tokens'[s].root => q = s
    BY <1>1, <1>3 DEF IInv, ChainsOK
  <2>3. ASSUME NEW root \in DOMAIN tokens, tokens[root].root = root
        PROVE  root \in loggedOut' <=> Live(root)' = {}
    <3>1. root \in loggedOut <=> Live(root) = {}
      BY <2>3 DEF IInv, ChainsOK
    <3>2. CASE tokens[t].live /\ tokens[t].root = root
      <4>1. \A s \in DOMAIN tokens : tokens[s].live /\ tokens[s].root = root => s = t
        BY <3>2, <1>1 DEF IInv, ChainsOK
      <4>2. Live(root)' = {}
        BY <4>1, <1>1, <1>3 DEF Live
      <4> QED
        BY <4>2, <3>2, <1>1
    <3>3. CASE ~ (tokens[t].live /\ tokens[t].root = root)
      <4>1. Live(root)' = Live(root)
        BY <3>3, <1>1, <1>3 DEF Live
      <4>2. root \in loggedOut' <=> root \in loggedOut
        BY <3>3, <1>1
      <4> QED
        BY <4>1, <4>2, <3>1
    <3> QED
      BY <3>2, <3>3
  <2> QED
    BY <2>1, <2>2, <2>3, <1>1, <1>3 DEF ChainsOK
<1>9. AccountsOK'
  <2>1. \A u \in User : Registered(u)' = Registered(u)
    BY <1>1, <1>3 DEF Registered
  <2> QED
    BY <2>1, <1>2 DEF IInv, AccountsOK
<1> QED
  BY <1>6, <1>7, <1>8, <1>9 DEF IInv

\* The rows after a commit: all the old ones, without the one that the
\* request rotates, and the new one.
LEMMA CommitTokens ==
  ASSUME IInv, NEW r \in Request, Commit(r)
  PROVE  LET n   == Len(tokens) + 1
             old == call[r].old
         IN
         /\ pc[r] = "commit" /\ Ready(r) /\ n \in Nat /\ n \in Token /\ n \notin DOMAIN tokens
         /\ NewToken(r) \in TokenRow
         /\ tokens' \in Seq(TokenRow) /\ Len(tokens') = n
         /\ DOMAIN tokens' = DOMAIN tokens \cup {n}
         /\ tokens'[n] = NewToken(r)
         /\ \A t \in DOMAIN tokens : tokens'[t] = IF t = old THEN Gone(tokens[t]) ELSE tokens[t]
<1> DEFINE n == Len(tokens) + 1
           old == call[r].old
           kept == [t \in DOMAIN tokens |-> IF t = old THEN Gone(tokens[t]) ELSE tokens[t]]
<1>1. /\ pc[r] = "commit" /\ Len(tokens) < MaxTokens
      /\ tokens' = Append(kept, NewToken(r))
  BY DEF Commit, Gone
<1>2. /\ Ready(r) /\ TypeOK /\ call[r] \in Call
  BY <1>1 DEF IInv, RequestsOK, RequestOK, TypeOK
<1>3. /\ Len(tokens) \in Nat /\ DOMAIN tokens = 1..Len(tokens)
      /\ tokens \in [DOMAIN tokens -> TokenRow] /\ DOMAIN tokens \subseteq Token
      /\ None \notin DOMAIN tokens /\ MaxTokens \in Nat
  BY <1>2, TokensFacts, BoundsAssumption
<1>4. n \in Nat /\ n \in Token /\ n \notin DOMAIN tokens
  BY <1>1, <1>3 DEF Token
<1>5. NewToken(r) \in TokenRow
  <2>1. call[r].user \in User /\ call[r].by \in {"register", "login", "refresh"}
        /\ call[r].expiresAt \in Nat
    BY <1>2 DEF Ready, Call
  <2>2. (IF call[r].old = None THEN Len(tokens) + 1 ELSE tokens[call[r].old].root) \in Token
    <3>1. CASE call[r].old = None
      BY <3>1, <1>4
    <3>2. CASE call[r].old # None
      <4>1. call[r].by = "refresh" /\ call[r].old \in DOMAIN tokens
        BY <3>2, <1>2, <2>1 DEF Ready, SessionFound
      <4> QED
        BY <4>1, <3>2, <1>3 DEF TokenRow
    <3> QED
      BY <3>1, <3>2
  <2> QED
    BY <2>1, <2>2 DEF NewToken, TokenRow
<1>6. kept \in Seq(TokenRow) /\ Len(kept) = Len(tokens) /\ DOMAIN kept = DOMAIN tokens
  <2>1. kept \in [1..Len(tokens) -> TokenRow]
    BY <1>3, GoneOK
  <2>2. kept \in Seq(TokenRow)
    BY <2>1, <1>3, SeqDef
  <2> QED
    BY <2>1, <2>2, <1>3, LenProperties
<1>7. \A t \in DOMAIN tokens : kept[t] = IF t = old THEN Gone(tokens[t]) ELSE tokens[t]
  OBVIOUS
<1> HIDE DEF kept
<1>8. /\ tokens' \in Seq(TokenRow) /\ Len(tokens') = Len(tokens) + 1
      /\ \A t \in 1..Len(tokens) : tokens'[t] = kept[t]
      /\ tokens'[Len(tokens) + 1] = NewToken(r)
  BY <1>1, <1>3, <1>5, <1>6, AppendProperties
<1>9. DOMAIN tokens' = DOMAIN tokens \cup {n}
  BY <1>3, <1>8, LenProperties
<1> QED
  BY <1>1, <1>2, <1>3, <1>4, <1>5, <1>7, <1>8, <1>9

LEMMA CommitOK == ASSUME IInv, NEW r \in Request, Commit(r) PROVE IInv'
<1> DEFINE n == Len(tokens) + 1
           c == call[r]
           old == call[r].old
           new == NewToken(r)
<1>1. /\ pc[r] = "commit" /\ Ready(r) /\ n \in Nat /\ n \in Token /\ n \notin DOMAIN tokens
      /\ new \in TokenRow
      /\ tokens' \in Seq(TokenRow) /\ Len(tokens') = n
      /\ DOMAIN tokens' = DOMAIN tokens \cup {n}
      /\ tokens'[n] = new
      /\ \A t \in DOMAIN tokens : tokens'[t] = IF t = old THEN Gone(tokens[t]) ELSE tokens[t]
  BY CommitTokens
<1>2. /\ Finish(r) /\ UNCHANGED <<clock, loggedOut, blocks>> /\ TypeOK /\ n <= MaxTokens
      /\ status' = IF c.by = "register" THEN [status EXCEPT ![c.user] = "active"] ELSE status
      /\ DOMAIN tokens \subseteq Token /\ None \notin DOMAIN tokens
      /\ tokens \in [DOMAIN tokens -> TokenRow]
  <2>1. Len(tokens) \in Nat /\ Len(tokens) < MaxTokens /\ MaxTokens \in Nat
    BY TokensFacts, BoundsAssumption DEF Commit, IInv
  <2>2. n <= MaxTokens
    BY <2>1
  <2>3. /\ Finish(r) /\ UNCHANGED <<clock, loggedOut, blocks>> /\ TypeOK
        /\ status' = IF c.by = "register" THEN [status EXCEPT ![c.user] = "active"] ELSE status
    BY DEF Commit, IInv
  <2>4. /\ DOMAIN tokens \subseteq Token /\ None \notin DOMAIN tokens
        /\ tokens \in [DOMAIN tokens -> TokenRow]
    BY <2>3, TokensFacts
  <2> QED
    BY <2>2, <2>3, <2>4
<1>3. /\ new.user = c.user /\ new.by = c.by /\ new.live = TRUE
      /\ new.root = IF old = None THEN n ELSE tokens[old].root
  BY DEF NewToken
<1> HIDE DEF n, new
<1>4. /\ \A t \in DOMAIN tokens :
           /\ tokens'[t].user = tokens[t].user /\ tokens'[t].root = tokens[t].root
           /\ tokens'[t].by = tokens[t].by /\ (t # old => tokens'[t].live = tokens[t].live)
      /\ old \in DOMAIN tokens => tokens'[old].live = FALSE
  BY <1>1, <1>2, GoneTokens
<1>5. /\ rowLock' \in [Token -> Request \cup {None}]
      /\ emailLock' \in [User -> Request \cup {None}]
      /\ pc' \in [Request -> Phase] /\ call' \in [Request -> Call]
      /\ pc'[r] = "idle" /\ OthersKeep(r)
  BY <1>2, FinishOK
<1>6. /\ c.user \in User
      /\ c.by = "register" => old = None /\ status[c.user] = "absent" /\ emailLock[c.user] = r
      /\ c.by = "login" => old = None /\ status[c.user] # "absent"
      /\ c.by = "refresh" =>
           /\ old \in DOMAIN tokens /\ tokens[old].live /\ rowLock[old] = r
           /\ c.user = tokens[old].user
      /\ c.by \in {"register", "login", "refresh"}
  BY <1>1, <1>2 DEF Ready, SessionFound, TypeOK, Call
<1> HIDE DEF c, old
<1>7. \A u \in User : status'[u] = IF c.by = "register" /\ u = c.user THEN "active" ELSE status[u]
  BY <1>2 DEF TypeOK
<1>8. TypeOK'
  <2>1. status' \in [User -> {"absent", "active", "blocked"}]
    BY <1>2 DEF TypeOK
  <2>2. loggedOut' \subseteq DOMAIN tokens'
    BY <1>1, <1>2 DEF TypeOK
  <2> QED
    BY <1>1, <1>2, <1>5, <2>1, <2>2 DEF TypeOK
<1>9. RequestsOK'
  <2>1. SUFFICES ASSUME NEW q \in Request, q # r PROVE RequestOK(q)'
    BY <1>5, IdleOK DEF RequestsOK
  <2>2. RequestOK(q) /\ clock' \in Nat /\ clock' >= clock
    BY <1>2 DEF IInv, RequestsOK, TypeOK
  <2>3. /\ pc'[q] = pc[q] /\ call'[q] = call[q]
        /\ \A t \in Token : rowLock[t] = q => rowLock'[t] = q
        /\ \A u \in User : emailLock[u] = q => emailLock'[u] = q
    BY <2>1, <1>5 DEF OthersKeep
  <2>4. \A t \in DOMAIN tokens : rowLock[t] = q => t # old
    BY <2>1, <1>2, <1>6
  <2>5. \A u \in User : /\ emailLock[u] = q => status'[u] = status[u]
                        /\ status[u] # "absent" => status'[u] # "absent"
    BY <2>1, <1>6, <1>7
  <2> QED
    BY <1>1, <1>2, <1>4, <2>2, <2>3, <2>4, <2>5, FrameOK
<1>10. ChainsOK'
  <2>1. /\ \A t \in DOMAIN tokens : tokens[t].root \in DOMAIN tokens
        /\ \A s, t \in DOMAIN tokens :
             tokens[s].live /\ tokens[t].live /\ tokens[s].root = tokens[t].root => s = t
        /\ \A root \in DOMAIN tokens :
             tokens[root].root = root => (root \in loggedOut <=> Live(root) = {})
    BY DEF IInv, ChainsOK
  <2>2. \A t \in DOMAIN tokens : tokens'[t].live => tokens[t].live /\ t # old
    BY <1>4
  <2>3. old = None \/ (old \in DOMAIN tokens /\ tokens[old].live)
    BY <1>6
  <2>4. \A t \in DOMAIN tokens' : tokens'[t].root \in DOMAIN tokens'
    BY <1>1, <1>3, <1>4, <2>1, <2>3
  <2>5. \A t \in DOMAIN tokens : tokens'[t].live => tokens'[t].root # new.root
    BY <1>1, <1>3, <1>4, <2>1, <2>2, <2>3
  <2>6. \A s, t \in DOMAIN tokens' :
          tokens'[s].live /\ tokens'[t].live /\ tokens'[s].root = tokens'[t].root => s = t
    BY <1>1, <1>4, <2>1, <2>2, <2>5
  <2>7. ASSUME NEW root \in DOMAIN tokens', tokens'[root].root = root
        PROVE  root \in loggedOut' <=> Live(root)' = {}
    <3>1. CASE root = new.root
      <4>1. n \in Live(root)'
        BY <3>1, <1>1, <1>3 DEF Live
      <4>2. root \notin loggedOut
        <5>1. CASE old = None
          BY <5>1, <3>1, <1>1, <1>2, <1>3 DEF TypeOK
        <5>2. CASE old \in DOMAIN tokens /\ tokens[old].live /\ old # None
          <6>1. root = tokens[old].root /\ root \in DOMAIN tokens
            BY <5>2, <3>1, <1>3, <2>1
          <6>2. tokens[root].root = root /\ old \in Live(root)
            BY <6>1, <5>2, <2>7, <1>4 DEF Live
          <6> QED
            BY <6>1, <6>2, <2>1
        <5> QED
          BY <5>1, <5>2, <2>3, <1>2
      <4> QED
        BY <4>1, <4>2, <1>2
    <3>2. CASE root # new.root
      <4>1. root \in DOMAIN tokens /\ tokens[root].root = root
        BY <3>2, <2>7, <1>1, <1>4
      <4>2. Live(root)' = Live(root)
        <5>1. \A t \in DOMAIN tokens : t = old => tokens[t].root # root
          BY <3>2, <1>2, <1>3
        <5>2. \A t \in DOMAIN tokens :
                tokens'[t].live /\ tokens'[t].root = root <=> tokens[t].live /\ tokens[t].root = root
          BY <5>1, <1>4
        <5>3. tokens'[n].root # root
          BY <3>2, <1>1
        <5> QED
          BY <5>2, <5>3, <1>1 DEF Live
      <4> QED
        BY <4>1, <4>2, <2>1, <1>2
    <3> QED
      BY <3>1, <3>2
  <2> QED
    BY <2>4, <2>6, <2>7 DEF ChainsOK
<1>11. AccountsOK'
  <2>1. SUFFICES ASSUME NEW u \in User
                 PROVE  /\ status'[u] = "absent" <=> Registered(u)' = {}
                        /\ \A s, t \in Registered(u)' : s = t
    BY DEF AccountsOK
  <2>2. /\ status[u] = "absent" <=> Registered(u) = {}
        /\ \A s, t \in Registered(u) : s = t
    BY DEF IInv, AccountsOK
  <2>3. CASE c.by = "register" /\ u = c.user
    <3>1. Registered(u) = {}
      BY <2>2, <2>3, <1>6
    <3>2. Registered(u)' = {n}
      BY <3>1, <2>3, <1>1, <1>3, <1>4 DEF Registered
    <3> QED
      BY <3>2, <2>3, <1>7
  <2>4. CASE ~ (c.by = "register" /\ u = c.user)
    <3>1. Registered(u)' = Registered(u)
      BY <2>4, <1>1, <1>3, <1>4 DEF Registered
    <3> QED
      BY <3>1, <2>2, <2>4, <1>7
  <2> QED
    BY <2>3, <2>4
<1> QED
  BY <1>8, <1>9, <1>10, <1>11 DEF IInv

LEMMA InitOK == Init => IInv
<1> SUFFICES ASSUME Init PROVE IInv
  OBVIOUS
<1>1. NoCall \in Call /\ "idle" \in Phase /\ 0 \in 0..MaxClock /\ 0 \in 0..MaxBlocks
  BY BoundsAssumption DEF NoCall, Call, Phase
<1>2. tokens \in Seq(TokenRow) /\ Len(tokens) <= MaxTokens /\ DOMAIN tokens = {}
  BY BoundsAssumption DEF Init
<1>3. TypeOK
  BY <1>1, <1>2 DEF Init, TypeOK
<1>4. RequestsOK
  BY DEF Init, RequestsOK, RequestOK
<1>5. ChainsOK /\ AccountsOK
  BY <1>2 DEF Init, ChainsOK, AccountsOK, Registered
<1> QED
  BY <1>3, <1>4, <1>5 DEF IInv

LEMMA StepOK == IInv /\ [Next]_vars => IInv'
<1> SUFFICES ASSUME IInv, [Next]_vars PROVE IInv'
  OBVIOUS
<1>1. ASSUME NEW r \in Request,
             \/ \E u \in User : Register(r, u) \/ Login(r, u)
             \/ \E t \in Token : Refresh(r, t) \/ Logout(r, t)
             \/ Run(r) \/ Wait(r) \/ Abort(r)
      PROVE  IInv'
  <2>1. CASE \E u \in User : Register(r, u) \/ Login(r, u)
    BY <2>1, RegisterOK, LoginOK
  <2>2. CASE \E t \in Token : Refresh(r, t) \/ Logout(r, t)
    BY <2>2, RefreshOK, LogoutOK
  <2>3. CASE Run(r)
    BY <2>3, CheckStatusOK, CreateSessionOK, CommitOK DEF Run
  <2>4. CASE Wait(r)
    BY <2>4, CreateUserOK, DeleteSessionOK, DeleteLoggedOutOK DEF Wait
  <2>5. CASE Abort(r)
    BY <2>5, AbortOK
  <2> QED
    BY <1>1, <2>1, <2>2, <2>3, <2>4, <2>5
<1>2. CASE UNCHANGED vars
  <2>1. TypeOK'
    BY <1>2 DEF IInv, TypeOK, vars
  <2>2. RequestsOK'
    BY <1>2 DEF IInv, RequestsOK, RequestOK, Ready, SessionFound, vars
  <2>3. ChainsOK' /\ AccountsOK'
    BY <1>2 DEF IInv, ChainsOK, AccountsOK, Live, Registered, vars
  <2> QED
    BY <2>1, <2>2, <2>3 DEF IInv
<1> QED
  BY <1>1, <1>2, TickOK, ChangeStatusOK DEF Next

LEMMA Invariance == Spec => []IInv
<1>1. Init => IInv
  BY InitOK
<1>2. IInv /\ [Next]_vars => IInv'
  BY StepOK
<1> QED
  BY <1>1, <1>2, PTL DEF Spec

-----------------------------------------------------------------------------
(***************************************************************************)
(* Every variable keeps its type; a request's phase says which of its      *)
(* locals mean something, which is part of the strengthening.              *)
(***************************************************************************)
THEOREM TypeCorrect == Spec => []TypeOK
<1>1. IInv => TypeOK
  BY DEF IInv
<1> QED
  BY <1>1, Invariance, PTL

(***************************************************************************)
(* However many requests present whatever tokens, a login has exactly one  *)
(* token that works until it is logged out, and none after.                *)
(***************************************************************************)
THEOREM OneTokenEach == Spec => []OneTokenPerLogin
<1>1. IInv => OneTokenPerLogin
  <2> SUFFICES ASSUME IInv, NEW root \in DOMAIN tokens, tokens[root].root = root
               PROVE  Cardinality(Live(root)) = IF root \in loggedOut THEN 0 ELSE 1
    BY DEF OneTokenPerLogin
  <2>1. root \in loggedOut <=> Live(root) = {}
    BY DEF IInv, ChainsOK
  <2>2. \A s, t \in Live(root) : s = t
    BY DEF IInv, ChainsOK, Live
  <2>3. CASE Live(root) = {}
    BY <2>1, <2>3, FS_EmptySet
  <2>4. CASE Live(root) # {}
    <3>1. PICK t \in Live(root) : TRUE
      BY <2>4
    <3>2. Live(root) = {t}
      BY <2>2, <3>1
    <3> QED
      BY <2>1, <2>4, <3>2, FS_Singleton
  <2> QED
    BY <2>3, <2>4
<1> QED
  BY <1>1, Invariance, PTL

(***************************************************************************)
(* Racing or failing registrations of one address leave one account with   *)
(* one first session, or neither.                                          *)
(***************************************************************************)
THEOREM AccountsAppearOnce == Spec => []RegisteredOnce
<1>1. IInv => RegisteredOnce
  <2> SUFFICES ASSUME IInv, NEW u \in User
               PROVE  Cardinality(Registered(u)) = IF status[u] = "absent" THEN 0 ELSE 1
    BY DEF RegisteredOnce, Registered
  <2>1. status[u] = "absent" <=> Registered(u) = {}
    BY DEF IInv, AccountsOK
  <2>2. \A s, t \in Registered(u) : s = t
    BY DEF IInv, AccountsOK
  <2>3. CASE Registered(u) = {}
    BY <2>1, <2>3, FS_EmptySet
  <2>4. CASE Registered(u) # {}
    <3>1. PICK t \in Registered(u) : TRUE
      BY <2>4
    <3>2. Registered(u) = {t}
      BY <2>2, <3>1
    <3> QED
      BY <2>1, <2>4, <3>2, FS_Singleton
  <2> QED
    BY <2>3, <2>4
<1> QED
  BY <1>1, Invariance, PTL

-----------------------------------------------------------------------------
(* The implementation of Sessions: what a client sees of the table. *)

Shown(row) == [user |-> row.user, root |-> row.root, expiresAt |-> row.expiresAt, live |-> row.live]

Shows(rows) == [t \in DOMAIN rows |-> Shown(rows[t])]

View == Shows(tokens)

ShownRow == [user : User, root : Token, expiresAt : Nat, live : BOOLEAN]

LEMMA ShowsOK ==
  ASSUME NEW rows \in Seq(TokenRow)
  PROVE  /\ Shows(rows) \in Seq(ShownRow) /\ Len(Shows(rows)) = Len(rows)
         /\ Len(rows) \in Nat
         /\ DOMAIN Shows(rows) = 1..Len(rows) /\ DOMAIN rows = 1..Len(rows)
         /\ \A t \in 1..Len(rows) : Shows(rows)[t] = Shown(rows[t]) /\ rows[t] \in TokenRow
<1>1. /\ Len(rows) \in Nat /\ DOMAIN rows = 1..Len(rows)
      /\ \A t \in DOMAIN rows : rows[t] \in TokenRow
  BY LenProperties
<1>2. \A t \in DOMAIN rows : Shown(rows[t]) \in ShownRow
  BY <1>1 DEF TokenRow, Shown, ShownRow
<1>3. Shows(rows) \in [1..Len(rows) -> ShownRow]
  BY <1>1, <1>2 DEF Shows
<1>4. Shows(rows) \in Seq(ShownRow)
  BY <1>1, <1>3, SeqDef
<1> QED
  BY <1>1, <1>2, <1>3, <1>4, LenProperties DEF Shows

LEMMA ShownGone ==
  ASSUME NEW row \in TokenRow
  PROVE  /\ Shown(Gone(row)) = [Shown(row) EXCEPT !.live = FALSE]
         /\ ~ row.live => Shown(Gone(row)) = Shown(row)
<1>1. /\ Gone(row).live = FALSE /\ Gone(row).user = row.user /\ Gone(row).root = row.root
      /\ Gone(row).expiresAt = row.expiresAt /\ row.live \in BOOLEAN
  BY GoneOK DEF TokenRow
<1>2. Shown(Gone(row)) = [user |-> row.user, root |-> row.root,
                          expiresAt |-> row.expiresAt, live |-> FALSE]
  BY <1>1 DEF Shown
<1>3. [Shown(row) EXCEPT !.live = FALSE] = [user |-> row.user, root |-> row.root,
                                            expiresAt |-> row.expiresAt, live |-> FALSE]
  <2>1. Shown(row) \in ShownRow
    BY DEF TokenRow, Shown, ShownRow
  <2> DEFINE s == [Shown(row) EXCEPT !.live = FALSE]
  <2>2. s \in ShownRow
    BY <2>1 DEF ShownRow
  <2>3. /\ s.user = row.user /\ s.root = row.root
        /\ s.expiresAt = row.expiresAt /\ s.live = FALSE
    BY <2>1 DEF ShownRow, Shown
  <2> HIDE DEF s
  <2>4. s = [user |-> s.user, root |-> s.root, expiresAt |-> s.expiresAt, live |-> s.live]
    BY <2>2 DEF ShownRow
  <2>5. s = [user |-> row.user, root |-> row.root, expiresAt |-> row.expiresAt, live |-> FALSE]
    BY <2>3, <2>4, Zenon
  <2> QED
    BY <2>5 DEF s
<1>4. ~ row.live => row.live = FALSE
  BY <1>1
<1> QED
  BY <1>1, <1>2, <1>3, <1>4 DEF Shown

\* A step that writes no token and no status shows at most the clock.
LEMMA ViewInit == Init => Contract!Init
BY DEF Init, Contract!Init

LEMMA TickSeen == ASSUME Tick PROVE Contract!Tick
BY DEF Tick, Contract!Tick

LEMMA ChangeStatusSeen ==
  ASSUME NEW u \in User, ChangeStatus(u) PROVE Contract!ChangeStatus(u)
BY DEF ChangeStatus, Contract!ChangeStatus

LEMMA LoggedOutSeen ==
  ASSUME IInv, NEW r \in Request, DeleteLoggedOut(r)
  PROVE  (\E t \in DOMAIN tokens : Contract!Logout(t)) \/ UNCHANGED Contract!vars
<1>0. PICK t : t = call[r].old
  OBVIOUS
<1>1. /\ t \in DOMAIN tokens /\ tokens' \in Seq(TokenRow) /\ Len(tokens') = Len(tokens)
      /\ DOMAIN tokens' = DOMAIN tokens /\ tokens'[t] = Gone(tokens[t])
      /\ \A s \in DOMAIN tokens \ {t} : tokens'[s] = tokens[s]
  BY <1>0, LoggedOutTokens
<1>2. UNCHANGED <<clock, status>> /\ TypeOK /\ TypeOK'
  BY DeleteLoggedOutOK DEF DeleteLoggedOut, IInv
<1>3. /\ \A s \in DOMAIN tokens : View[s] = Shown(tokens[s]) /\ View'[s] = Shown(tokens'[s])
      /\ DOMAIN View = DOMAIN tokens /\ DOMAIN View' = DOMAIN tokens
      /\ tokens[t] \in TokenRow
  BY <1>1, <1>2, TokensFacts DEF View, Shows
<1>4. View' = [View EXCEPT ![t] = Shown(Gone(tokens[t]))]
  BY <1>1, <1>3 DEF View, Shows
<1>5. CASE tokens[t].live
  <2>1. View' = [View EXCEPT ![t] = [View[t] EXCEPT !.live = FALSE]]
    BY <1>1, <1>3, <1>4, ShownGone
  <2>2. t \in DOMAIN View /\ View[t].live
    BY <1>1, <1>3, <1>5 DEF Shown
  <2>3. Contract!Logout(t)
    BY <2>1, <2>2, <1>2 DEF Contract!Logout, View, Shows, Shown
  <2> QED
    BY <2>3, <1>1
<1>6. CASE ~ tokens[t].live
  <2>1. View' = View
    BY <1>3, <1>4, <1>6, ShownGone DEF View, Shows
  <2> QED
    BY <2>1, <1>2 DEF Contract!vars, View, Shows, Shown
<1> QED
  BY <1>5, <1>6

LEMMA CommitSeen ==
  ASSUME IInv, NEW r \in Request, Commit(r)
  PROVE  \E e \in Contract!Expiry :
           \/ \E u \in User : Contract!Register(u, e) \/ Contract!Login(u, e)
           \/ \E t \in DOMAIN tokens : Contract!Refresh(t, e)
<1> DEFINE n == Len(tokens) + 1
           c == call[r]
           new == NewToken(r)
<1>0. PICK u, e, old : u = call[r].user /\ e = call[r].expiresAt /\ old = call[r].old
  OBVIOUS
<1>1. /\ pc[r] = "commit" /\ Ready(r) /\ n \in Nat
      /\ new \in TokenRow
      /\ tokens' \in Seq(TokenRow) /\ Len(tokens') = n
      /\ DOMAIN tokens' = DOMAIN tokens \cup {n}
      /\ tokens'[n] = new
      /\ \A t \in DOMAIN tokens : tokens'[t] = IF t = old THEN Gone(tokens[t]) ELSE tokens[t]
  BY <1>0, CommitTokens
<1>2. /\ UNCHANGED clock /\ TypeOK /\ TypeOK'
      /\ status' = IF c.by = "register" THEN [status EXCEPT ![u] = "active"] ELSE status
      /\ c \in Call /\ RequestOK(r)
  BY <1>0, CommitOK DEF Commit, IInv, TypeOK, RequestsOK
<1>3. /\ new.user = u /\ new.expiresAt = e /\ new.live = TRUE
      /\ new.root = IF old = None THEN n ELSE tokens[old].root
  BY <1>0 DEF NewToken
<1>4. /\ u \in User
      /\ c.by = "register" => old = None /\ status[u] = "absent"
      /\ c.by = "login" => old = None /\ status[u] # "absent"
      /\ c.by = "refresh" =>
           old \in DOMAIN tokens /\ tokens[old].live /\ u = tokens[old].user
      /\ c.by \in {"register", "login", "refresh"}
  BY <1>0, <1>1, <1>2 DEF Ready, SessionFound, Call
<1>5. e \in Contract!Expiry
  <2>1. e <= clock + RefreshTTL /\ e \in Nat
    BY <1>0, <1>1, <1>2 DEF RequestOK, Call
  <2>2. clock \in Nat /\ RefreshTTL \in Nat
    BY <1>2, BoundsAssumption DEF TypeOK
  <2> QED
    BY <2>1, <2>2 DEF Contract!Expiry
<1> HIDE DEF n, c, new
<1>6. /\ n = Len(View) + 1 /\ n = Len(View') /\ None \notin DOMAIN tokens
      /\ View \in Seq(ShownRow) /\ View' \in Seq(ShownRow) /\ Len(View) \in Nat
      /\ DOMAIN View = 1..Len(View) /\ DOMAIN View = DOMAIN tokens
      /\ 1..n = 1..Len(View) \cup {n} /\ n \in Nat /\ n \in 1..n
      /\ \A t \in 1..Len(View) : View[t] = Shown(tokens[t]) /\ tokens[t] \in TokenRow
      /\ \A t \in 1..n : View'[t] = Shown(tokens'[t])
  <2>1. /\ n = Len(View) + 1 /\ View \in Seq(ShownRow) /\ Len(View) \in Nat
        /\ DOMAIN View = 1..Len(View) /\ DOMAIN View = DOMAIN tokens
        /\ \A t \in 1..Len(View) : View[t] = Shown(tokens[t]) /\ tokens[t] \in TokenRow
    BY <1>2, ShowsOK DEF n, View, TypeOK
  <2>2. /\ n = Len(View') /\ View' \in Seq(ShownRow)
        /\ \A t \in 1..n : View'[t] = Shown(tokens'[t])
    BY <1>1, ShowsOK DEF View
  <2>3. 1..n = 1..Len(View) \cup {n} /\ n \in Nat /\ n \in 1..n
    BY <2>1
  <2> QED
    BY <2>1, <2>2, <2>3, <1>2, TokensFacts
<1>7. View'[n] = [user |-> u, root |-> IF old = None THEN n ELSE tokens[old].root,
                  expiresAt |-> e, live |-> TRUE]
  <2>1. View'[n] = Shown(new)
    BY <1>1, <1>6
  <2> QED
    BY <2>1, <1>3, Zenon DEF Shown
<1>8. \A t \in DOMAIN tokens :
        View'[t] = IF t = old THEN [View[t] EXCEPT !.live = FALSE] ELSE View[t]
  <2>1. SUFFICES ASSUME NEW t \in DOMAIN tokens
                 PROVE  View'[t] = IF t = old THEN [View[t] EXCEPT !.live = FALSE] ELSE View[t]
    OBVIOUS
  <2>2. /\ View[t] = Shown(tokens[t]) /\ View'[t] = Shown(tokens'[t])
        /\ tokens[t] \in TokenRow
    BY <1>6
  <2> QED
    BY <2>2, <1>1, ShownGone
<1>9. CASE old = None
  <2>1. View' = Append(View, View'[n])
    <3>1. View'[n] \in ShownRow
      BY <1>6, ElementOfSeq
    <3>2. /\ Append(View, View'[n]) \in Seq(ShownRow) /\ Len(Append(View, View'[n])) = n
          /\ \A t \in 1..Len(View) : Append(View, View'[n])[t] = View[t]
          /\ Append(View, View'[n])[n] = View'[n]
      BY <3>1, <1>6, AppendProperties
    <3>3. \A t \in 1..n : View'[t] = Append(View, View'[n])[t]
      BY <3>2, <1>6, <1>8, <1>9
    <3> QED
      BY <3>2, <3>3, <1>6, SeqEqual
  <2>2. Contract!Begin(u, e)
    BY <2>1, <1>6, <1>7, <1>9 DEF Contract!Begin, Contract!Issued, View, Shows, Shown
  <2>3. CASE c.by = "register"
    <3>1. Contract!Register(u, e)
      BY <2>2, <2>3, <1>2, <1>4 DEF Contract!Register
    <3> QED
      BY <3>1, <1>4, <1>5
  <2>4. CASE c.by = "login"
    <3>1. Contract!Login(u, e)
      BY <2>2, <2>4, <1>2, <1>4 DEF Contract!Login
    <3> QED
      BY <3>1, <1>4, <1>5
  <2>5. c.by # "refresh"
    BY <1>4, <1>6, <1>9
  <2> QED
    BY <2>3, <2>4, <2>5, <1>4
<1>10. CASE old # None
  <2>1. /\ c.by = "refresh" /\ old \in DOMAIN tokens /\ tokens[old].live /\ status' = status
        /\ u = tokens[old].user /\ View[old] = Shown(tokens[old])
    BY <1>2, <1>4, <1>6, <1>10
  <2> DEFINE kept == [View EXCEPT ![old] = [View[old] EXCEPT !.live = FALSE]]
  <2>2. View' = Append(kept, View'[n])
    <3>1. View'[n] \in ShownRow
      BY <1>6, ElementOfSeq
    <3>2. [View[old] EXCEPT !.live = FALSE] \in ShownRow
      <4>1. View[old] \in ShownRow
        BY <2>1, <1>6, ElementOfSeq
      <4> QED
        BY <4>1 DEF ShownRow
    <3>3. /\ kept \in Seq(ShownRow) /\ Len(kept) = Len(View)
          /\ \A t \in 1..Len(View) : kept[t] = IF t = old THEN [View[old] EXCEPT !.live = FALSE] ELSE View[t]
      BY <3>2, <2>1, <1>6, ExceptSeq
    <3> HIDE DEF kept
    <3>4. /\ Append(kept, View'[n]) \in Seq(ShownRow) /\ Len(Append(kept, View'[n])) = n
          /\ \A t \in 1..Len(View) : Append(kept, View'[n])[t] = kept[t]
          /\ Append(kept, View'[n])[n] = View'[n]
      BY <3>1, <3>3, <1>6, AppendProperties
    <3>5. \A t \in 1..n : View'[t] = Append(kept, View'[n])[t]
      BY <3>3, <3>4, <1>6, <1>8
    <3> QED
      BY <3>4, <3>5, <1>6, SeqEqual
  <2>3. /\ View[old].live /\ View[old].user = u /\ View[old].root = tokens[old].root
    BY <2>1 DEF Shown
  <2>4. View'[n] = Contract!Issued(View[old].user, View[old].root, e)
    BY <2>3, <1>7, <1>10 DEF Contract!Issued
  <2>5. Contract!Refresh(old, e)
    BY <2>1, <2>2, <2>3, <2>4, <1>2, <1>6 DEF Contract!Refresh, View, Shows, Shown
  <2> QED
    BY <2>5, <2>1, <1>5
<1> QED
  BY <1>9, <1>10

LEMMA ImplementsStep == IInv /\ [Next]_vars => [Contract!Next]_Contract!vars
<1> SUFFICES ASSUME IInv, [Next]_vars PROVE Contract!Next \/ UNCHANGED Contract!vars
  OBVIOUS
<1>1. CASE UNCHANGED <<clock, status, tokens>>
  BY <1>1 DEF Contract!vars
<1>2. CASE Tick
  BY <1>2, TickSeen DEF Contract!Next
<1>3. CASE \E u \in User : ChangeStatus(u)
  BY <1>3, ChangeStatusSeen DEF Contract!Next
<1>4. ASSUME NEW r \in Request, Commit(r) PROVE Contract!Next
  <2>1. DOMAIN View = DOMAIN tokens
    BY DEF View, Shows
  <2> QED
    BY <1>4, <2>1, CommitSeen DEF Contract!Next, View, Shows, Shown
<1>5. ASSUME NEW r \in Request, DeleteLoggedOut(r)
      PROVE  Contract!Next \/ UNCHANGED Contract!vars
  <2>1. DOMAIN View = DOMAIN tokens
    BY DEF View, Shows
  <2> QED
    BY <1>5, <2>1, LoggedOutSeen DEF Contract!Next, View, Shows, Shown
<1>6. ASSUME NEW r \in Request,
             \/ \E u \in User : Register(r, u) \/ Login(r, u)
             \/ \E t \in Token : Refresh(r, t) \/ Logout(r, t)
             \/ CheckStatus(r) \/ CreateSession(r) \/ CreateUser(r)
             \/ DeleteSession(r) \/ Abort(r)
      PROVE  UNCHANGED <<clock, status, tokens>>
  BY <1>6 DEF Register, Login, Refresh, Logout, Start, CheckStatus, CreateSession,
              CreateUser, DeleteSession, Abort, Refuse
<1> QED
  BY <1>1, <1>2, <1>3, <1>4, <1>5, <1>6 DEF Next, Run, Wait, vars

(***************************************************************************)
(* The service implements Sessions: whatever its requests do concurrently, *)
(* and wherever they fail, clients see whole operations.                   *)
(***************************************************************************)
THEOREM SessionsAreImplemented == Spec => ImplementsSessions
<1>1. Init => Contract!Init
  BY ViewInit
<1>2. IInv /\ [Next]_vars => [Contract!Next]_Contract!vars
  BY ImplementsStep
<1> QED
  BY <1>1, <1>2, Invariance, PTL DEF Spec, ImplementsSessions, Contract!Spec
=============================================================================
