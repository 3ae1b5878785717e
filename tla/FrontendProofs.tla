--------------------------- MODULE FrontendProofs ---------------------------
(***************************************************************************)
(* Proofs about the browser, for any number of tabs.                       *)
(*                                                                         *)
(* BrowserSession, for any accounts and any number of tokens: the session  *)
(* is kept, account and token agree, a logout is final.  PetPage, for any  *)
(* first pet and any amounts that the clicks add and cost: every need      *)
(* stays on its scale, and no experience gets lost between sessions.       *)
(***************************************************************************)
EXTENDS BrowserSession, PetPage, SequenceTheorems, TLAPS

-----------------------------------------------------------------------------
(***************************************************************************)
(* The session.  The strengthening says where every token is: saved,       *)
(* shown by a tab, in an answer on its way to exactly one of them, or      *)
(* replaced - and that without an excuse a token asked about still works.  *)
(***************************************************************************)
Token == [user : User, root : Nat, expiresAt : {1}, live : BOOLEAN]

View == [page : {"closed", "login", "pet"}, loading : BOOLEAN, user : User \cup {Nothing},
         access : Nat \cup {Nothing}, overlap : BOOLEAN, out : BOOLEAN]

RestoreRequest == [step : {"none", "refresh", "me"}, about : Nat \cup {Nothing},
                   reply : Nat \cup User \cup {Nothing, Failed}]

FormRequest == [tab : Tab \cup {Nothing}, about : User \cup {Nothing},
                reply : Nat \cup {Nothing, Failed}]

SessionTypeOK ==
  /\ status \in [User -> {"absent", "active", "blocked"}]
  /\ tokens \in Seq(Token)
  /\ \A k \in DOMAIN tokens : status[tokens[k].user] # "absent"
  /\ received \in SUBSET DOMAIN tokens
  /\ saved \in received \cup {Nothing}
  /\ tab \in [Tab -> View]
  /\ restore \in [Tab -> RestoreRequest]
  /\ form \in [Form -> FormRequest]
  /\ excuse \in BOOLEAN

\* A request is about a token that was received, and its reply is of its kind.
RequestsOK(t) ==
  /\ restore[t].step = "none" => restore[t].reply = Nothing
  /\ restore[t].step # "none" => restore[t].about \in received
  /\ restore[t].step = "me" =>
       restore[t].reply \in {tokens[restore[t].about].user, Nothing, Failed}

FormOK(f) ==
  /\ ~ Awaited(f) => form[f].reply = Nothing
  /\ Awaited(f) => form[f].about \in User

\* The view of a tab and the restore it awaits.
ViewOK(t) ==
  /\ tab[t].access \in received \cup {Nothing}
  /\ restore[t].step # "none" => tab[t].loading
  /\ restore[t].step = "me" /\ ~ tab[t].overlap => tab[t].access = restore[t].about
  /\ tab[t].out => /\ tab[t].user = Nothing /\ tab[t].access = Nothing
                   /\ restore[t].step = "none"
  /\ ~ tab[t].loading /\ ~ tab[t].overlap =>
       IF tab[t].user = Nothing THEN tab[t].access = Nothing
       ELSE tab[t].access # Nothing /\ tokens[tab[t].access].user = tab[t].user

\* A token that no tab has received yet works, and no two answers carry it.
RestoreToken(t) == restore[t].step = "refresh" /\ restore[t].reply \notin {Nothing, Failed}
FormToken(f) == form[f].reply \notin {Nothing, Failed}

Fresh(k) == k \in DOMAIN tokens \ received /\ tokens[k].live

FlightOK ==
  /\ \A t \in Tab : RestoreToken(t) => Fresh(restore[t].reply)
  /\ \A f \in Form : FormToken(f) => Fresh(form[f].reply)
  /\ \A t \in Tab, f \in Form : RestoreToken(t) /\ FormToken(f) => restore[t].reply # form[f].reply
  /\ \A t, u \in Tab :
       t # u /\ RestoreToken(t) /\ RestoreToken(u) => restore[t].reply # restore[u].reply
  /\ \A f, g \in Form : f # g /\ FormToken(f) /\ FormToken(g) => form[f].reply # form[g].reply

\* Without an excuse nobody is blocked, nothing fails, and no two tabs ask with
\* one token, so each waiting tab's token still works.
NoExcuse ==
  /\ \A u \in User : status[u] # "blocked"
  /\ \A t \in Tab : /\ restore[t].reply # Failed
                    /\ restore[t].step = "refresh" /\ restore[t].reply = Nothing
                         => tokens[restore[t].about].live
  /\ \A t, u \in Tab :
       t # u /\ restore[t].step = "refresh" /\ restore[u].step = "refresh"
         => restore[t].about # restore[u].about

SessionInv ==
  /\ SessionTypeOK
  /\ \A t \in Tab : RequestsOK(t) /\ ViewOK(t)
  /\ \A f \in Form : FormOK(f)
  /\ FlightOK
  /\ ~ excuse => NoExcuse
  /\ SessionKept

-----------------------------------------------------------------------------
\* The records that requests and tabs start from have their types.
LEMMA RequestTypes ==
  /\ NotAsked \in RestoreRequest /\ NoForm \in FormRequest /\ Closed \in View
  /\ \A k \in Nat : Ask("refresh", k) \in RestoreRequest /\ Ask("me", k) \in RestoreRequest
BY DEF NotAsked, Ask, NoForm, Closed, View, RestoreRequest, FormRequest

\* ProtectedRoute changes the page alone, and only to the login page.
LEMMA RouteIs ==
  ASSUME NEW v \in View
  PROVE  /\ Route(v) \in View /\ Route(v).page \in {v.page, "login"}
         /\ Route(v).loading = v.loading /\ Route(v).user = v.user /\ Route(v).access = v.access
         /\ Route(v).overlap = v.overlap /\ Route(v).out = v.out
BY DEF Route, View

\* A token is a number, and its account is nobody else's marker.
LEMMA TokenTypes ==
  ASSUME SessionTypeOK, NEW k \in DOMAIN tokens
  PROVE  /\ k \in Nat /\ k # Nothing /\ k # Failed /\ tokens[k] \in Token
         /\ tokens[k].user \in User /\ tokens[k].user # Nothing /\ tokens[k].user # Failed
<1>1. k \in Nat /\ tokens[k] \in Token
  BY DEF SessionTypeOK
<1> QED
  BY <1>1, SessionAssumption DEF Token

\* What holds of a tab goes on holding through a step that leaves it alone.
LEMMA OtherTabs ==
  ASSUME SessionInv, NEW u \in Tab, tab'[u] = tab[u], restore'[u] = restore[u],
         received \subseteq received', \A k \in received : tokens'[k].user = tokens[k].user
  PROVE  RequestsOK(u)' /\ ViewOK(u)'
<1>1. RequestsOK(u) /\ ViewOK(u)
  BY DEF SessionInv
<1>2. tab[u].access # Nothing => tab[u].access \in received
  BY <1>1 DEF ViewOK
<1>3. RequestsOK(u)'
  BY <1>1 DEF RequestsOK
<1>4. ViewOK(u)'
  BY <1>1, <1>2 DEF ViewOK
<1> QED
  BY <1>3, <1>4

\* Forms that are left alone, or dropped.
LEMMA FormsKept ==
  ASSUME SessionInv, form' = [f \in Form |-> form'[f]],
         \A f \in Form : form'[f] \in {form[f], NoForm}
  PROVE  /\ form' \in [Form -> FormRequest]
         /\ \A f \in Form : FormOK(f)' /\ (FormToken(f)' => form'[f] = form[f])
<1>1. \A f \in Form : form[f] \in FormRequest /\ FormOK(f)
  BY DEF SessionInv, SessionTypeOK
<1>2. \A f \in Form : form'[f] \in FormRequest
  BY <1>1, RequestTypes
<1>3. form' \in [Form -> FormRequest]
  BY <1>2
<1>4. ASSUME NEW f \in Form PROVE FormOK(f)' /\ (FormToken(f)' => form'[f] = form[f])
  <2>1. CASE form'[f] = form[f]
    BY <1>1, <2>1 DEF FormOK, Awaited
  <2>2. CASE form'[f] = NoForm
    BY <2>2 DEF FormOK, Awaited, FormToken, NoForm
  <2> QED
    BY <2>1, <2>2
<1> QED
  BY <1>3, <1>4

LEMMA FormsAlone ==
  ASSUME SessionInv, UNCHANGED form
  PROVE  /\ form' \in [Form -> FormRequest]
         /\ \A f \in Form : FormOK(f)' /\ (FormToken(f)' => form'[f] = form[f])
<1>1. form = [f \in Form |-> form[f]]
  BY DEF SessionInv, SessionTypeOK
<1> QED
  BY <1>1, FormsKept

\* A step of one tab, or an answer to it, that the server's state survives.
LEMMA TabStep ==
  ASSUME SessionInv, NEW t \in Tab, UNCHANGED <<status, tokens>>,
         received' \in SUBSET DOMAIN tokens, received \subseteq received',
         saved' \in received' \cup {Nothing}, excuse' \in BOOLEAN,
         NEW v \in View, NEW r \in RestoreRequest,
         tab' = [tab EXCEPT ![t] = v], restore' = [restore EXCEPT ![t] = r],
         form' \in [Form -> FormRequest], \A f \in Form : FormOK(f)',
         RequestsOK(t)', ViewOK(t)', FlightOK', ~ excuse' => NoExcuse', SessionKept'
  PROVE  SessionInv'
<1>1. SessionTypeOK
  BY DEF SessionInv
<1>2. SessionTypeOK'
  BY <1>1 DEF SessionTypeOK
<1>3. ASSUME NEW u \in Tab PROVE RequestsOK(u)' /\ ViewOK(u)'
  <2>1. CASE u = t
    BY <2>1
  <2>2. CASE u # t
    <3>1. tab'[u] = tab[u] /\ restore'[u] = restore[u]
      BY <1>1, <2>2 DEF SessionTypeOK
    <3>2. \A k \in received : tokens'[k].user = tokens[k].user
      OBVIOUS
    <3> QED
      BY <3>1, <3>2, OtherTabs
  <2> QED
    BY <2>1, <2>2
<1> QED
  BY <1>2, <1>3 DEF SessionInv

\* Answers that stay on their way.
LEMMA FlightKept ==
  ASSUME SessionInv, UNCHANGED tokens,
         \A t \in Tab : RestoreToken(t)' => /\ RestoreToken(t) /\ restore'[t] = restore[t]
                                            /\ restore[t].reply \notin received',
         \A f \in Form : FormToken(f)' => /\ FormToken(f) /\ form'[f] = form[f]
                                          /\ form[f].reply \notin received'
  PROVE  FlightOK'
<1>1. FlightOK
  BY DEF SessionInv
<1>2. ASSUME NEW t \in Tab
      PROVE  RestoreToken(t)' => Fresh(restore[t].reply)' /\ restore'[t].reply = restore[t].reply
  BY <1>1 DEF FlightOK, Fresh
<1>3. ASSUME NEW f \in Form
      PROVE  FormToken(f)' => Fresh(form[f].reply)' /\ form'[f].reply = form[f].reply
  BY <1>1 DEF FlightOK, Fresh
<1> QED
  BY <1>1, <1>2, <1>3 DEF FlightOK, Fresh

\* One tab ends what it awaits, or begins to await something else than a refresh.
LEMMA NoExcuseKept ==
  ASSUME NoExcuse, SessionTypeOK, UNCHANGED <<status, tokens>>, NEW t \in Tab,
         \A u \in Tab \ {t} : restore'[u] = restore[u],
         restore'[t].reply # Failed,
         restore'[t].step = "refresh" => restore'[t] = restore[t]
  PROVE  NoExcuse'
<1>1. \A u \in Tab : restore'[u].step = "refresh" => restore'[u] = restore[u]
  OBVIOUS
<1>2. \A u \in Tab : restore'[u].reply # Failed
  BY DEF NoExcuse
<1> QED
  BY <1>1, <1>2 DEF NoExcuse

\* The promise holds on while the token saved stays the same and, without an
\* excuse, whoever asks with it goes on asking.
LEMMA PromiseKept ==
  ASSUME SessionKept, UNCHANGED <<tokens, saved, received>>, excuse => excuse',
         ~ excuse' => \A t \in Tab : Asks(t, saved) => Asks(t, saved)'
  PROVE  SessionKept'
BY DEF SessionKept

\* The two records of a tab have their types, and a step that leaves one of
\* them alone gives the tab the record it had.
LEMMA TabRecords ==
  ASSUME SessionTypeOK, NEW t \in Tab
  PROVE  /\ tab[t] \in View /\ restore[t] \in RestoreRequest
         /\ tab = [tab EXCEPT ![t] = tab[t]]
         /\ restore = [restore EXCEPT ![t] = restore[t]]
         /\ \A v : /\ [tab EXCEPT ![t] = v][t] = v
                   /\ [restore EXCEPT ![t] = v][t] = v
BY DEF SessionTypeOK

\* A page load asks with the token it finds, so unless another tab asks with it
\* already that token still works.
LEMMA OpenTabKeeps ==
  ASSUME SessionInv, NEW t \in Tab, NEW first \in {"login", "pet"}, OpenTab(t, first)
  PROVE  SessionInv'
<1> DEFINE w == [Closed EXCEPT !.page = first, !.loading = saved # Nothing]
           r == IF saved = Nothing THEN NotAsked ELSE Ask("refresh", saved)
<1>1. SessionTypeOK /\ RequestsOK(t) /\ ViewOK(t)
  BY DEF SessionInv
<1>2. /\ form' \in [Form -> FormRequest]
      /\ \A f \in Form : FormOK(f)' /\ (FormToken(f)' => form'[f] = form[f])
  BY FormsAlone DEF OpenTab
<1>3. w \in View /\ w.page = first /\ w.access = Nothing /\ w.user = Nothing /\ ~ w.out
      /\ w.loading = (saved # Nothing)
  BY DEF View, Closed
<1>4. /\ Route(w) \in View /\ Route(w).access = Nothing /\ Route(w).user = Nothing
      /\ ~ Route(w).out /\ Route(w).loading = (saved # Nothing)
  BY <1>3, RouteIs
<1>5. r \in RestoreRequest /\ r.reply = Nothing
  <2>1. saved # Nothing => saved \in Nat
    BY <1>1 DEF SessionTypeOK
  <2> QED
    BY <2>1, RequestTypes DEF NotAsked, Ask
<1>6. r.step = (IF saved = Nothing THEN "none" ELSE "refresh") /\ r.about = saved
  BY DEF NotAsked, Ask
<1>7. tab'[t] = Route(w) /\ restore'[t] = r
  <2>1. tab' = [tab EXCEPT ![t] = Route(w)] /\ restore' = [restore EXCEPT ![t] = r]
    BY DEF OpenTab, Show
  <2>2. \A v : [tab EXCEPT ![t] = v][t] = v /\ [restore EXCEPT ![t] = v][t] = v
    BY <1>1, TabRecords
  <2> QED
    BY <2>1, <2>2
<1>8. RequestsOK(t)'
  <2>1. r.step # "none" => r.about \in received
    BY <1>1, <1>6 DEF SessionTypeOK
  <2>2. received' = received
    BY DEF OpenTab
  <2> QED
    BY <1>1, <1>5, <1>6, <1>7, <2>1, <2>2 DEF RequestsOK
<1>9. ViewOK(t)'
  BY <1>4, <1>6, <1>7 DEF ViewOK
<1>10. \A u \in Tab \ {t} : restore'[u] = restore[u]
  BY <1>1 DEF OpenTab, SessionTypeOK
<1>11. FlightOK'
  <2>1. ~ RestoreToken(t)'
    BY <1>5, <1>7 DEF RestoreToken
  <2>2. ASSUME NEW u \in Tab, RestoreToken(u)'
        PROVE  RestoreToken(u) /\ restore'[u] = restore[u]
    BY <2>1, <2>2, <1>10 DEF RestoreToken
  <2>3. ASSUME NEW f \in Form, FormToken(f)' PROVE FormToken(f) /\ form'[f] = form[f]
    BY <2>3 DEF FormToken, OpenTab
  <2>4. FlightOK
    BY DEF SessionInv
  <2>5. /\ \A u \in Tab : RestoreToken(u) => restore[u].reply \notin received
        /\ \A f \in Form : FormToken(f) => form[f].reply \notin received
    BY <2>4 DEF FlightOK, Fresh
  <2>6. UNCHANGED tokens /\ received' = received
    BY DEF OpenTab, server
  <2> QED
    BY <2>2, <2>3, <2>5, <2>6, FlightKept
<1>12. ASSUME ~ excuse', saved # Nothing
       PROVE  /\ NoExcuse /\ tokens[saved].live
              /\ \A u \in Tab : ~ Asks(u, saved)
  <2>1. ~ excuse /\ \A u \in Tab : ~ Asks(u, saved)
    BY <1>12 DEF OpenTab
  <2>2. saved \in received
    BY <1>1, <1>12 DEF SessionTypeOK
  <2>3. tokens[saved].live \/ \E u \in Tab : Asks(u, saved)
    BY <2>1, <2>2 DEF SessionInv, SessionKept
  <2> QED
    BY <2>1, <2>3 DEF SessionInv
<1>13. ~ excuse' => NoExcuse'
  <2>1. SUFFICES ASSUME ~ excuse' PROVE NoExcuse'
    OBVIOUS
  <2>2. NoExcuse
    BY <2>1 DEF SessionInv, OpenTab
  <2>3. UNCHANGED <<status, tokens>>
    BY DEF OpenTab, server
  <2>4. \A u \in Tab : restore'[u].reply # Failed
    <3>1. Nothing # Failed
      BY SessionAssumption
    <3>2. restore'[t].reply # Failed
      BY <1>5, <1>7, <3>1
    <3>3. \A u \in Tab \ {t} : restore'[u].reply # Failed
      BY <1>10, <2>2 DEF NoExcuse
    <3> QED
      BY <3>2, <3>3
  <2>5. CASE saved = Nothing
    <3>1. restore'[t].step # "refresh"
      BY <1>6, <1>7, <2>5
    <3> QED
      BY <1>1, <1>10, <2>2, <2>3, <2>4, <3>1, NoExcuseKept
  <2>6. CASE saved # Nothing
    <3>1. tokens[saved].live /\ \A u \in Tab : ~ Asks(u, saved)
      BY <1>12, <2>1, <2>6
    <3>2. restore'[t].step = "refresh" /\ restore'[t].about = saved
      BY <1>6, <1>7, <2>6
    <3>3. \A u \in Tab \ {t} : restore'[u].step = "refresh" => restore'[u].about # saved
      BY <1>10, <3>1 DEF Asks
    <3> QED
      BY <1>10, <2>2, <2>3, <2>4, <3>1, <3>2, <3>3 DEF NoExcuse
  <2> QED
    BY <2>5, <2>6
<1>14. SessionKept'
  <2>1. UNCHANGED <<tokens, saved, received>> /\ (excuse => excuse')
    BY DEF OpenTab, server
  <2>2. SUFFICES ASSUME ~ excuse', received # {}
                 PROVE  saved # Nothing /\ tokens[saved].live
    BY <2>1 DEF SessionKept
  <2>3. saved # Nothing
    BY <2>1, <2>2 DEF SessionInv, SessionKept
  <2> QED
    BY <1>12, <2>2, <2>3
<1>15. /\ UNCHANGED <<status, tokens>> /\ received' = received
       /\ saved' = saved /\ excuse' \in BOOLEAN
       /\ tab' = [tab EXCEPT ![t] = Route(w)] /\ restore' = [restore EXCEPT ![t] = r]
  BY <1>1, TabRecords DEF OpenTab, Show, server, SessionTypeOK
<1>16. received' \in SUBSET DOMAIN tokens /\ saved' \in received' \cup {Nothing}
  BY <1>1, <1>15 DEF SessionTypeOK
<1> QED
  BY <1>2, <1>4, <1>5, <1>8, <1>9, <1>11, <1>13, <1>14, <1>15, <1>16, TabStep

\* The new pair is the token saved, and no other answer carries it.
LEMMA GotRefreshKeeps ==
  ASSUME SessionInv, NEW t \in Tab, GotRefresh(t)
  PROVE  SessionInv'
<1> DEFINE new == restore[t].reply
           w == [tab[t] EXCEPT !.access = new]
<1>1. SessionTypeOK /\ FlightOK /\ RequestsOK(t) /\ ViewOK(t)
  BY DEF SessionInv
<1>2. restore[t].step = "refresh" /\ RestoreToken(t)
  BY DEF GotRefresh, RestoreToken
<1>3. Fresh(new) /\ new \in DOMAIN tokens /\ new \in Nat /\ new # Nothing
  BY <1>1, <1>2, TokenTypes DEF FlightOK, Fresh
<1>4. tab[t] \in View
  BY <1>1, TabRecords
<1>5. /\ w \in View /\ w.access = new /\ w.page = tab[t].page /\ w.loading = tab[t].loading
      /\ w.out = tab[t].out /\ w.user = tab[t].user /\ w.overlap = tab[t].overlap
  BY <1>3, <1>4 DEF View
<1>6. tab[t].loading /\ ~ tab[t].out
  BY <1>1, <1>2, <1>4 DEF ViewOK, View
<1>7. /\ Route(w) \in View /\ Route(w).access = new
      /\ Route(w).loading /\ ~ Route(w).out
  BY <1>5, <1>6, RouteIs
<1>8. Ask("me", new) \in RestoreRequest
  BY <1>3, RequestTypes
<1>9. /\ UNCHANGED <<status, tokens>> /\ received' = received \cup {new}
      /\ saved' = new /\ excuse' = excuse
      /\ tab' = [tab EXCEPT ![t] = Route(w)] /\ restore' = [restore EXCEPT ![t] = Ask("me", new)]
      /\ form' = form
  BY DEF GotRefresh, Show, server
<1>18. /\ form' \in [Form -> FormRequest]
       /\ \A f \in Form : FormOK(f)' /\ (FormToken(f)' => form'[f] = form[f])
  BY <1>9, FormsAlone
<1>10. tab'[t] = Route(w) /\ restore'[t] = Ask("me", new)
  BY <1>1, <1>9, TabRecords
<1>11. RequestsOK(t)'
  BY <1>1, <1>9, <1>10 DEF RequestsOK, Ask
<1>12. ViewOK(t)'
  BY <1>7, <1>9, <1>10 DEF ViewOK, Ask
<1>13. \A u \in Tab \ {t} : restore'[u] = restore[u]
  BY <1>1, <1>9 DEF SessionTypeOK
<1>14. FlightOK'
  <2>1. ~ RestoreToken(t)'
    BY <1>10 DEF RestoreToken, Ask
  <2>2. ASSUME NEW u \in Tab, RestoreToken(u)'
        PROVE  RestoreToken(u) /\ restore'[u] = restore[u] /\ restore[u].reply \notin received'
    <3>1. u # t
      BY <2>1, <2>2
    <3>2. restore'[u] = restore[u] /\ RestoreToken(u)
      BY <1>13, <2>2, <3>1 DEF RestoreToken
    <3>3. restore[u].reply # new /\ restore[u].reply \notin received
      BY <1>1, <1>2, <3>1, <3>2 DEF FlightOK, Fresh
    <3> QED
      BY <1>9, <3>2, <3>3
  <2>3. ASSUME NEW f \in Form, FormToken(f)'
        PROVE  FormToken(f) /\ form'[f] = form[f] /\ form[f].reply \notin received'
    <3>1. FormToken(f)
      BY <1>9, <2>3 DEF FormToken
    <3>2. form[f].reply # new /\ form[f].reply \notin received
      BY <1>1, <1>2, <3>1 DEF FlightOK, Fresh
    <3> QED
      BY <1>9, <3>1, <3>2
  <2> QED
    BY <1>9, <2>2, <2>3, FlightKept
<1>15. ~ excuse' => NoExcuse'
  <2>1. ~ excuse' => NoExcuse
    BY <1>9 DEF SessionInv
  <2>2. restore'[t].reply # Failed /\ restore'[t].step # "refresh"
    BY <1>10, SessionAssumption DEF Ask
  <2> QED
    BY <1>1, <1>9, <1>13, <2>1, <2>2, NoExcuseKept
<1>16. SessionKept'
  BY <1>3, <1>9 DEF SessionKept, Fresh
<1>17. /\ received' \in SUBSET DOMAIN tokens /\ received \subseteq received'
       /\ saved' \in received' \cup {Nothing} /\ excuse' \in BOOLEAN
  BY <1>1, <1>3, <1>9 DEF SessionTypeOK
<1> QED
  BY <1>18, <1>7, <1>8, <1>9, <1>10, <1>11, <1>12, <1>14, <1>15, <1>16, <1>17, TabStep

\* What a step of one tab may do with the answers on their way: drop them, or
\* leave them and their requests as they are while nothing is received.
LEMMA FlightOfOthers ==
  ASSUME SessionInv, NEW t \in Tab, UNCHANGED <<tokens, received>>,
         \A u \in Tab \ {t} : restore'[u] = restore[u],
         RestoreToken(t)' => restore'[t] = restore[t],
         \A f \in Form : FormToken(f)' => form'[f] = form[f]
  PROVE  FlightOK'
<1>1. \A u \in Tab : RestoreToken(u)' => restore'[u] = restore[u]
  OBVIOUS
<1>2. /\ \A u \in Tab : RestoreToken(u)' => RestoreToken(u)
      /\ \A f \in Form : FormToken(f)' => FormToken(f)
  BY <1>1 DEF RestoreToken, FormToken
<1>3. /\ \A u \in Tab : RestoreToken(u) => restore[u].reply \notin received
      /\ \A f \in Form : FormToken(f) => form[f].reply \notin received
  BY DEF SessionInv, FlightOK, Fresh
<1> QED
  BY <1>1, <1>2, <1>3, FlightKept

\* A step of one tab that receives no token.
LEMMA QuietStep ==
  ASSUME SessionInv, NEW t \in Tab, UNCHANGED <<status, tokens, received>>,
         saved' \in {saved, Nothing}, excuse' \in BOOLEAN,
         NEW v \in View, NEW r \in RestoreRequest,
         tab' = [tab EXCEPT ![t] = v], restore' = [restore EXCEPT ![t] = r],
         form' \in [Form -> FormRequest],
         \A f \in Form : FormOK(f)' /\ (FormToken(f)' => form'[f] = form[f]),
         RequestsOK(t)', ViewOK(t)',
         RestoreToken(t)' => r = restore[t],
         ~ excuse' => /\ ~ excuse /\ saved' = saved /\ r.reply # Failed
                      /\ r.step = "refresh" => r = restore[t]
                      /\ restore[t].step = "refresh" => r = restore[t]
  PROVE  SessionInv'
<1>1. SessionTypeOK
  BY DEF SessionInv
<1>2. tab'[t] = v /\ restore'[t] = r
  BY <1>1, TabRecords
<1>3. \A u \in Tab \ {t} : restore'[u] = restore[u]
  BY <1>1 DEF SessionTypeOK
<1>4. FlightOK'
  BY <1>2, <1>3, FlightOfOthers
<1>5. ~ excuse' => NoExcuse'
  <2>1. SUFFICES ASSUME ~ excuse' PROVE NoExcuse'
    OBVIOUS
  <2>2. NoExcuse
    BY <2>1 DEF SessionInv
  <2>3. restore'[t].reply # Failed /\ (restore'[t].step = "refresh" => restore'[t] = restore[t])
    BY <1>2, <2>1
  <2> QED
    BY <1>1, <1>3, <2>2, <2>3, NoExcuseKept
<1>6. SessionKept'
  <2>1. CASE excuse'
    BY <2>1 DEF SessionKept
  <2>2. CASE ~ excuse'
    <3>1. UNCHANGED <<tokens, saved, received>> /\ ~ excuse
      BY <2>2
    <3>2. \A u \in Tab : Asks(u, saved) => Asks(u, saved)'
      BY <1>2, <1>3, <2>2 DEF Asks
    <3>3. SessionKept
      BY DEF SessionInv
    <3> QED
      BY <3>1, <3>2, <3>3, PromiseKept
  <2> QED
    BY <2>1, <2>2
<1>7. received' \in SUBSET DOMAIN tokens /\ saved' \in received' \cup {Nothing}
  BY <1>1 DEF SessionTypeOK
<1> QED
  BY <1>4, <1>5, <1>6, <1>7, TabStep

\* A step of one form that brings no token, and no tab notices.
LEMMA FormStep ==
  ASSUME SessionInv, NEW f \in Form, NEW r \in FormRequest, form' = [form EXCEPT ![f] = r],
         r.tab = Nothing => r.reply = Nothing, r.tab # Nothing => r.about \in User,
         r.reply \in {Nothing, Failed},
         UNCHANGED <<status, tokens, saved, tab, restore, received, excuse>>
  PROVE  SessionInv'
<1>1. SessionTypeOK /\ FlightOK /\ SessionKept /\ \A g \in Form : FormOK(g)
  BY DEF SessionInv
<1>2. form'[f] = r /\ \A g \in Form \ {f} : form'[g] = form[g]
  BY <1>1 DEF SessionTypeOK
<1>3. SessionTypeOK'
  BY <1>1 DEF SessionTypeOK
<1>4. \A t \in Tab : RequestsOK(t)' /\ ViewOK(t)'
  BY OtherTabs
<1>5. ASSUME NEW g \in Form PROVE FormOK(g)'
  BY <1>1, <1>2 DEF FormOK, Awaited
<1>6. FlightOK'
  <2>1. ASSUME NEW g \in Form, FormToken(g)'
        PROVE  FormToken(g) /\ form'[g] = form[g] /\ form[g].reply \notin received'
    <3>1. g # f
      BY <1>2, <2>1 DEF FormToken
    <3> QED
      BY <1>1, <1>2, <2>1, <3>1 DEF FormToken, FlightOK, Fresh
  <2>2. ASSUME NEW t \in Tab, RestoreToken(t)'
        PROVE  RestoreToken(t) /\ restore'[t] = restore[t] /\ restore[t].reply \notin received'
    BY <1>1, <2>2 DEF RestoreToken, FlightOK, Fresh
  <2> QED
    BY <2>1, <2>2, FlightKept
<1>7. ~ excuse' => NoExcuse'
  BY DEF SessionInv, NoExcuse
<1>8. SessionKept'
  BY <1>1 DEF SessionKept, Asks
<1> QED
  BY <1>3, <1>4, <1>5, <1>6, <1>7, <1>8 DEF SessionInv

\* A tab closed while its restore runs is an excuse, as the reply goes unheard.
LEMMA CloseTabKeeps ==
  ASSUME SessionInv, NEW t \in Tab, CloseTab(t)
  PROVE  SessionInv'
<1>1. SessionTypeOK
  BY DEF SessionInv
<1>2. /\ UNCHANGED <<status, tokens, received>> /\ saved' = saved /\ excuse' \in BOOLEAN
      /\ tab' = [tab EXCEPT ![t] = Closed] /\ restore' = [restore EXCEPT ![t] = NotAsked]
  BY <1>1 DEF CloseTab, server, SessionTypeOK
<1>3. tab'[t] = Closed /\ restore'[t] = NotAsked
  BY <1>1, <1>2, TabRecords
<1>4. RequestsOK(t)' /\ ViewOK(t)'
  BY <1>3 DEF RequestsOK, ViewOK, Closed, NotAsked
<1>5. /\ form' \in [Form -> FormRequest]
      /\ \A f \in Form : FormOK(f)' /\ (FormToken(f)' => form'[f] = form[f])
  <2>1. form' = [f \in Form |-> IF form[f].tab = t THEN NoForm ELSE form[f]]
    BY DEF CloseTab
  <2> QED
    BY <2>1, FormsKept
<1>6. ~ RestoreToken(t)'
  BY <1>3 DEF RestoreToken, NotAsked
<1>7. ~ excuse' => ~ excuse /\ restore[t].step = "none"
  BY DEF CloseTab
<1>8. NotAsked.reply # Failed /\ NotAsked.step # "refresh"
  BY SessionAssumption DEF NotAsked
<1> QED
  BY <1>2, <1>4, <1>5, <1>6, <1>7, <1>8, RequestTypes, QuietStep

\* The page changes, and what the tab awaits is as before.
LEMMA NavigateKeeps ==
  ASSUME SessionInv, NEW t \in Tab, NEW next \in {"login", "pet"}, Navigate(t, next)
  PROVE  SessionInv'
<1> DEFINE w == [tab[t] EXCEPT !.page = next]
<1>1. SessionTypeOK /\ RequestsOK(t) /\ ViewOK(t)
  BY DEF SessionInv
<1>2. tab[t] \in View /\ restore[t] \in RestoreRequest
  BY <1>1, TabRecords
<1>3. /\ w \in View /\ w.access = tab[t].access /\ w.user = tab[t].user
      /\ w.loading = tab[t].loading /\ w.out = tab[t].out /\ w.overlap = tab[t].overlap
  BY <1>2 DEF View
<1>4. /\ Route(w) \in View /\ Route(w).access = tab[t].access /\ Route(w).user = tab[t].user
      /\ Route(w).loading = tab[t].loading /\ Route(w).out = tab[t].out
      /\ Route(w).overlap = tab[t].overlap
  BY <1>3, RouteIs
<1>5. /\ UNCHANGED <<status, tokens, received, restore, form>> /\ saved' = saved
      /\ excuse' = excuse /\ excuse' \in BOOLEAN
      /\ tab' = [tab EXCEPT ![t] = Route(w)] /\ restore' = [restore EXCEPT ![t] = restore[t]]
  BY <1>1, TabRecords DEF Navigate, Show, server, SessionTypeOK
<1>6. tab'[t] = Route(w)
  BY <1>1, <1>5, TabRecords
<1>7. /\ form' \in [Form -> FormRequest]
      /\ \A f \in Form : FormOK(f)' /\ (FormToken(f)' => form'[f] = form[f])
  BY <1>5, FormsAlone
<1>8. RequestsOK(t)'
  BY <1>1, <1>5 DEF RequestsOK
<1>9. ViewOK(t)'
  BY <1>1, <1>4, <1>5, <1>6 DEF ViewOK
<1>10. ~ excuse' => restore[t].reply # Failed
  BY <1>5 DEF SessionInv, NoExcuse
<1> QED
  BY <1>2, <1>4, <1>5, <1>7, <1>8, <1>9, <1>10, QuietStep

\* The user shown is the one of the pair that was stored before.
LEMMA GotUserKeeps ==
  ASSUME SessionInv, NEW t \in Tab, GotUser(t)
  PROVE  SessionInv'
<1> DEFINE user == restore[t].reply
           w == [tab[t] EXCEPT !.user = user, !.loading = FALSE]
<1>1. SessionTypeOK /\ RequestsOK(t) /\ ViewOK(t)
  BY DEF SessionInv
<1>2. /\ restore[t].step = "me" /\ restore[t].about \in received
      /\ user = tokens[restore[t].about].user
  BY <1>1 DEF GotUser, RequestsOK
<1>3. restore[t].about \in DOMAIN tokens
  BY <1>1, <1>2 DEF SessionTypeOK
<1>4. restore[t].about # Nothing /\ user \in User /\ user # Nothing
  BY <1>1, <1>2, <1>3, TokenTypes
<1>5. tab[t] \in View
  BY <1>1, TabRecords
<1>6. /\ w \in View /\ w.access = tab[t].access /\ w.page = tab[t].page /\ ~ w.loading
      /\ w.out = tab[t].out /\ w.user = user /\ w.overlap = tab[t].overlap
  BY <1>4, <1>5 DEF View
<1>7. /\ Route(w) \in View /\ Route(w).access = tab[t].access /\ Route(w).user = user
      /\ ~ Route(w).loading
      /\ Route(w).out = tab[t].out /\ Route(w).overlap = tab[t].overlap
  BY <1>6, RouteIs
<1>8. ~ tab[t].out
  BY <1>1, <1>2 DEF ViewOK
<1>9. /\ UNCHANGED <<status, tokens, received>> /\ saved' = saved /\ excuse' = excuse
      /\ tab' = [tab EXCEPT ![t] = Route(w)] /\ restore' = [restore EXCEPT ![t] = NotAsked]
      /\ form' = form
  BY DEF GotUser, Show, server
<1>10. tab'[t] = Route(w) /\ restore'[t] = NotAsked
  BY <1>1, <1>9, TabRecords
<1>11. RequestsOK(t)'
  BY <1>1, <1>9, <1>10 DEF RequestsOK, NotAsked
<1>12. ViewOK(t)'
  <2>1. ~ tab[t].overlap => tab[t].access # Nothing /\ tokens[tab[t].access].user = user
    BY <1>1, <1>2, <1>4 DEF ViewOK
  <2>2. tab[t].access \in received \cup {Nothing}
    BY <1>1 DEF ViewOK
  <2> QED
    BY <1>4, <1>7, <1>8, <1>9, <1>10, <2>1, <2>2 DEF ViewOK, NotAsked
<1>13. NotAsked.reply # Failed /\ NotAsked.step # "refresh"
  BY SessionAssumption DEF NotAsked
<1>14. ~ RestoreToken(t)'
  BY <1>10 DEF RestoreToken, NotAsked
<1>15. excuse' \in BOOLEAN
  BY <1>1, <1>9 DEF SessionTypeOK
<1>16. /\ form' \in [Form -> FormRequest]
       /\ \A f \in Form : FormOK(f)' /\ (FormToken(f)' => form'[f] = form[f])
  BY <1>9, FormsAlone
<1> QED
  BY <1>2, <1>7, <1>9, <1>11, <1>12, <1>13, <1>14, <1>15, <1>16, RequestTypes, QuietStep

\* A restore fails for no reason but an excuse.
LEMMA RestoreFailedKeeps ==
  ASSUME SessionInv, NEW t \in Tab, RestoreFailed(t)
  PROVE  SessionInv'
<1> DEFINE w == [tab[t] EXCEPT !.user = Nothing, !.access = Nothing, !.loading = FALSE]
<1>1. SessionTypeOK /\ RequestsOK(t) /\ ViewOK(t)
  BY DEF SessionInv
<1>2. restore[t].step # "none"
  BY <1>1, SessionAssumption DEF RestoreFailed, RequestsOK
<1>3. excuse
  BY DEF SessionInv, NoExcuse, RestoreFailed
<1>4. tab[t] \in View
  BY <1>1, TabRecords
<1>5. /\ w \in View /\ w.access = Nothing /\ w.page = tab[t].page /\ ~ w.loading
      /\ w.out = tab[t].out /\ w.user = Nothing /\ w.overlap = tab[t].overlap
  BY <1>4 DEF View
<1>6. /\ Route(w) \in View /\ Route(w).access = Nothing /\ Route(w).user = Nothing
      /\ Route(w).out = tab[t].out
  BY <1>5, RouteIs
<1>7. ~ tab[t].out
  BY <1>1, <1>2 DEF ViewOK
<1>8. /\ UNCHANGED <<status, tokens, received>> /\ saved' = Nothing /\ excuse' = excuse
      /\ tab' = [tab EXCEPT ![t] = Route(w)] /\ restore' = [restore EXCEPT ![t] = NotAsked]
      /\ form' = form
  BY DEF RestoreFailed, Show, server
<1>9. tab'[t] = Route(w) /\ restore'[t] = NotAsked
  BY <1>1, <1>8, TabRecords
<1>10. RequestsOK(t)'
  BY <1>1, <1>8, <1>9 DEF RequestsOK, NotAsked
<1>11. ViewOK(t)'
  BY <1>6, <1>7, <1>8, <1>9 DEF ViewOK, NotAsked
<1>12. ~ RestoreToken(t)'
  BY <1>9 DEF RestoreToken, NotAsked
<1>13. excuse' \in BOOLEAN
  BY <1>1, <1>8 DEF SessionTypeOK
<1>14. /\ form' \in [Form -> FormRequest]
       /\ \A f \in Form : FormOK(f)' /\ (FormToken(f)' => form'[f] = form[f])
  BY <1>8, FormsAlone
<1> QED
  BY <1>3, <1>6, <1>8, <1>10, <1>11, <1>12, <1>13, <1>14, RequestTypes, QuietStep

\* A form is sent, and awaited from now on.
LEMMA SubmitKeeps ==
  ASSUME SessionInv, NEW t \in Tab, NEW f \in Form, NEW u \in User, Submit(t, f, u)
  PROVE  SessionInv'
<1> DEFINE r == [tab |-> t, about |-> u, reply |-> Nothing]
<1>1. r \in FormRequest /\ r.tab # Nothing /\ r.about \in User /\ r.reply = Nothing
  BY SessionAssumption DEF FormRequest
<1>2. form' = [form EXCEPT ![f] = r]
  BY DEF Submit
<1>3. UNCHANGED <<status, tokens, saved, tab, restore, received, excuse>>
  BY DEF Submit, server
<1> QED
  BY <1>1, <1>2, <1>3, FormStep

\* A form that failed leaves the page as it was.
LEMMA FormFailedKeeps ==
  ASSUME SessionInv, NEW f \in Form, FormFailed(f)
  PROVE  SessionInv'
<1>1. NoForm \in FormRequest /\ NoForm.tab = Nothing /\ NoForm.reply = Nothing
  BY RequestTypes DEF NoForm
<1>2. form' = [form EXCEPT ![f] = NoForm]
  BY DEF FormFailed
<1>3. UNCHANGED <<status, tokens, saved, tab, restore, received, excuse>>
  BY DEF FormFailed, server
<1> QED
  BY <1>1, <1>2, <1>3, FormStep

\* A page that ProtectedRoute shows is not restoring: of what the tab awaits,
\* only a form can bring an account back.
LEMMA LogoutKeeps ==
  ASSUME SessionInv, NEW t \in Tab, Logout(t)
  PROVE  SessionInv'
<1> DEFINE v == LoggedOut(tab[t])
<1>1. SessionTypeOK /\ RequestsOK(t) /\ ViewOK(t)
  BY DEF SessionInv
<1>2. tab[t] \in View /\ restore[t] \in RestoreRequest
  BY <1>1, TabRecords
<1>3. restore[t].step = "none"
  BY <1>1 DEF Logout, ViewOK
<1>4. v \in View /\ v.access = Nothing /\ v.user = Nothing
  BY <1>2 DEF View, LoggedOut
<1>5. /\ UNCHANGED <<status, tokens, received, restore, form>> /\ saved' = Nothing
      /\ excuse' = TRUE /\ tab' = [tab EXCEPT ![t] = v]
      /\ restore' = [restore EXCEPT ![t] = restore[t]]
  BY <1>1, TabRecords DEF Logout, server
<1>6. tab'[t] = v
  BY <1>1, <1>5, TabRecords
<1>7. /\ form' \in [Form -> FormRequest]
      /\ \A f \in Form : FormOK(f)' /\ (FormToken(f)' => form'[f] = form[f])
  BY <1>5, FormsAlone
<1>8. RequestsOK(t)'
  BY <1>1, <1>5 DEF RequestsOK
<1>9. ViewOK(t)'
  BY <1>3, <1>4, <1>5, <1>6 DEF ViewOK
<1> QED
  BY <1>2, <1>4, <1>5, <1>7, <1>8, <1>9, QuietStep

\* A request that is lost while the session is restored is an excuse ...
LEMMA LoseRestoreKeeps ==
  ASSUME SessionInv, NEW t \in Tab, LoseRestore(t)
  PROVE  SessionInv'
<1> DEFINE r == [restore[t] EXCEPT !.reply = Failed]
<1>1. SessionTypeOK /\ RequestsOK(t) /\ ViewOK(t)
  BY DEF SessionInv
<1>2. tab[t] \in View /\ restore[t] \in RestoreRequest
  BY <1>1, TabRecords
<1>3. /\ r \in RestoreRequest /\ r.step = restore[t].step /\ r.about = restore[t].about
      /\ r.reply = Failed
  BY <1>2 DEF RestoreRequest
<1>4. /\ UNCHANGED <<status, tokens, received>> /\ saved' = saved /\ excuse' = TRUE
      /\ tab' = [tab EXCEPT ![t] = tab[t]] /\ form' = form
      /\ restore' = [restore EXCEPT ![t] = r]
  <2>1. restore' = [restore EXCEPT ![t] = r]
    BY <1>1 DEF LoseRestore, SessionTypeOK
  <2> QED
    BY <1>1, <2>1, TabRecords DEF LoseRestore, server
<1>5. tab'[t] = tab[t] /\ restore'[t] = r
  BY <1>1, <1>4, TabRecords
<1>6. restore[t].step # "none"
  BY DEF LoseRestore
<1>7. RequestsOK(t)'
  BY <1>1, <1>3, <1>4, <1>5, <1>6 DEF RequestsOK
<1>8. ViewOK(t)'
  BY <1>1, <1>3, <1>4, <1>5 DEF ViewOK
<1>9. ~ RestoreToken(t)'
  BY <1>3, <1>5 DEF RestoreToken
<1>10. /\ form' \in [Form -> FormRequest]
       /\ \A f \in Form : FormOK(f)' /\ (FormToken(f)' => form'[f] = form[f])
  BY <1>4, FormsAlone
<1> QED
  BY <1>2, <1>3, <1>4, <1>7, <1>8, <1>9, <1>10, QuietStep

\* ... and a lost form is none: the token saved is not the one it carries.
LEMMA LoseFormKeeps ==
  ASSUME SessionInv, NEW f \in Form, LoseForm(f)
  PROVE  SessionInv'
<1> DEFINE r == [form[f] EXCEPT !.reply = Failed]
<1>1. SessionTypeOK /\ FormOK(f)
  BY DEF SessionInv
<1>2. form[f] \in FormRequest /\ form' = [form EXCEPT ![f] = r]
  BY <1>1 DEF SessionTypeOK, LoseForm
<1>3. /\ r \in FormRequest /\ r.tab = form[f].tab /\ r.about = form[f].about
      /\ r.reply = Failed
  BY <1>2 DEF FormRequest
<1>4. r.tab # Nothing /\ r.about \in User
  BY <1>1, <1>3 DEF LoseForm, FormOK, Awaited
<1>5. UNCHANGED <<status, tokens, saved, tab, restore, received, excuse>>
  BY DEF LoseForm, server
<1> QED
  BY <1>2, <1>3, <1>4, <1>5, FormStep

\* A pair that was issued is of an account that is not absent, so without an
\* excuse GET /auth/me answers with it.
LEMMA ServerMeKeeps ==
  ASSUME SessionInv, NEW t \in Tab, ServerMe(t)
  PROVE  SessionInv'
<1> DEFINE user == tokens[restore[t].about].user
<1>0. PICK a \in {user, Failed} : /\ restore' = [restore EXCEPT ![t].reply = a]
                                  /\ status[user] = "active" => a = user
  BY DEF ServerMe
<1> DEFINE r == [restore[t] EXCEPT !.reply = a]
<1>1. SessionTypeOK /\ RequestsOK(t) /\ ViewOK(t)
  BY DEF SessionInv
<1>2. tab[t] \in View /\ restore[t] \in RestoreRequest
  BY <1>1, TabRecords
<1>3. restore[t].step = "me" /\ restore[t].about \in received
  BY <1>1 DEF ServerMe, RequestsOK
<1>4. restore[t].about \in DOMAIN tokens
  BY <1>1, <1>3 DEF SessionTypeOK
<1>5. user \in User /\ user # Failed /\ status[user] # "absent"
  BY <1>1, <1>4, TokenTypes DEF SessionTypeOK
<1>6. /\ r \in RestoreRequest /\ r.step = "me" /\ r.about = restore[t].about
      /\ r.reply = a
  BY <1>2, <1>3, <1>5 DEF RestoreRequest
<1>7. /\ UNCHANGED <<status, tokens, received>> /\ saved' = saved /\ excuse' = excuse
      /\ tab' = [tab EXCEPT ![t] = tab[t]] /\ form' = form
      /\ restore' = [restore EXCEPT ![t] = r]
  <2>1. restore' = [restore EXCEPT ![t] = r]
    BY <1>0, <1>1 DEF SessionTypeOK
  <2> QED
    BY <1>1, <2>1, TabRecords DEF ServerMe, server
<1>8. tab'[t] = tab[t] /\ restore'[t] = r
  BY <1>1, <1>7, TabRecords
<1>9. RequestsOK(t)'
  BY <1>1, <1>3, <1>6, <1>7, <1>8 DEF RequestsOK
<1>10. ViewOK(t)'
  BY <1>1, <1>3, <1>6, <1>7, <1>8 DEF ViewOK
<1>11. ~ RestoreToken(t)'
  BY <1>6, <1>8 DEF RestoreToken
<1>12. ~ excuse' => r.reply # Failed
  <2>1. ~ excuse' => status[user] # "blocked"
    BY <1>5, <1>7 DEF SessionInv, NoExcuse
  <2>2. status[user] \in {"absent", "active", "blocked"}
    BY <1>1, <1>5 DEF SessionTypeOK
  <2> QED
    BY <1>0, <1>5, <1>6, <2>1, <2>2
<1>13. excuse' \in BOOLEAN
  BY <1>1, <1>7 DEF SessionTypeOK
<1>14. /\ form' \in [Form -> FormRequest]
       /\ \A f \in Form : FormOK(f)' /\ (FormToken(f)' => form'[f] = form[f])
  BY <1>7, FormsAlone
<1> QED
  BY <1>14, <1>2, <1>3, <1>6, <1>7, <1>9, <1>10, <1>11, <1>12, <1>13, QuietStep

\* A login replaces what the tab and localStorage hold by one new pair.
LEMMA GotFormKeeps ==
  ASSUME SessionInv, NEW f \in Form, GotForm(f)
  PROVE  SessionInv'
<1>0. PICK new : new = form[f].reply
  OBVIOUS
<1>1. SessionTypeOK /\ FlightOK /\ FormOK(f)
  BY DEF SessionInv
<1>2. FormToken(f)
  BY DEF GotForm, FormToken
<1>3. Fresh(new) /\ new \in DOMAIN tokens
  BY <1>0, <1>1, <1>2 DEF FlightOK, Fresh
<1>4. new # Nothing /\ tokens[new].user \in User /\ tokens[new].user # Nothing /\ new \in Nat
  BY <1>1, <1>3, TokenTypes
<1>5. PICK t \in Tab : t = form[f].tab
  <2>1. form[f].tab # Nothing
    BY <1>1, <1>2 DEF FormOK, FormToken, Awaited
  <2>2. form[f] \in FormRequest
    BY <1>1 DEF SessionTypeOK
  <2> QED
    BY <2>1, <2>2 DEF FormRequest
<1> DEFINE over == restore[t].step # "none"
           v == [tab[t] EXCEPT !.page = "pet", !.user = tokens[new].user, !.access = new,
                               !.overlap = over, !.out = FALSE]
<1>6. tab[t] \in View /\ restore[t] \in RestoreRequest /\ RequestsOK(t) /\ ViewOK(t)
  BY <1>1, <1>5, TabRecords DEF SessionInv
<1>7. /\ v \in View /\ v.access = new /\ v.loading = tab[t].loading
      /\ ~ v.out /\ v.user = tokens[new].user /\ v.overlap = over
  BY <1>4, <1>6 DEF View
<1>8. /\ UNCHANGED <<status, tokens, restore>> /\ received' = received \cup {new}
      /\ saved' = new /\ excuse' = excuse
      /\ tab' = [tab EXCEPT ![t] = v] /\ form' = [form EXCEPT ![f] = NoForm]
      /\ restore' = [restore EXCEPT ![t] = restore[t]]
  BY <1>0, <1>1, <1>5, TabRecords DEF GotForm, server
<1>9. tab'[t] = v
  BY <1>1, <1>5, <1>8, TabRecords
<1>10. RequestsOK(t)'
  BY <1>6, <1>8 DEF RequestsOK
<1>11. ViewOK(t)'
  <2>1. v.access \in received' /\ ~ v.out /\ v.user # Nothing /\ v.access # Nothing
    BY <1>4, <1>7, <1>8
  <2>2. tokens'[v.access].user = v.user
    BY <1>7, <1>8
  <2>3. restore[t].step # "none" => v.loading /\ v.overlap
    BY <1>6, <1>7 DEF ViewOK
  <2> QED
    BY <1>8, <1>9, <2>1, <2>2, <2>3 DEF ViewOK
<1>12. form'[f] = NoForm /\ \A g \in Form \ {f} : form'[g] = form[g]
  BY <1>1, <1>8 DEF SessionTypeOK
<1>13. /\ form' \in [Form -> FormRequest] /\ \A g \in Form : FormOK(g)'
  <2>1. form' = [g \in Form |-> form'[g]]
    BY <1>1, <1>8 DEF SessionTypeOK
  <2> QED
    BY <1>12, <2>1, FormsKept
<1>14. FlightOK'
  <2>1. ~ FormToken(f)'
    BY <1>12 DEF FormToken, NoForm
  <2>2. ASSUME NEW g \in Form, FormToken(g)'
        PROVE  FormToken(g) /\ form'[g] = form[g] /\ form[g].reply \notin received'
    <3>1. g # f
      BY <2>1, <2>2
    <3>2. form'[g] = form[g] /\ FormToken(g)
      BY <1>12, <2>2, <3>1 DEF FormToken
    <3>3. form[g].reply # new /\ form[g].reply \notin received
      BY <1>0, <1>1, <1>2, <3>1, <3>2 DEF FlightOK, Fresh
    <3> QED
      BY <1>8, <3>2, <3>3
  <2>3. ASSUME NEW u \in Tab, RestoreToken(u)'
        PROVE  RestoreToken(u) /\ restore'[u] = restore[u] /\ restore[u].reply \notin received'
    <3>1. restore'[u] = restore[u] /\ RestoreToken(u)
      BY <1>8, <2>3 DEF RestoreToken
    <3>2. restore[u].reply # new /\ restore[u].reply \notin received
      BY <1>0, <1>1, <1>2, <3>1 DEF FlightOK, Fresh
    <3> QED
      BY <1>8, <3>1, <3>2
  <2> QED
    BY <1>8, <2>2, <2>3, FlightKept
<1>15. ~ excuse' => NoExcuse'
  BY <1>8 DEF SessionInv, NoExcuse
<1>16. SessionKept'
  BY <1>3, <1>4, <1>8 DEF SessionKept, Fresh
<1>17. /\ received' \in SUBSET DOMAIN tokens /\ received \subseteq received'
       /\ saved' \in received' \cup {Nothing} /\ excuse' \in BOOLEAN
  BY <1>1, <1>3, <1>8 DEF SessionTypeOK
<1> HIDE DEF v
<1> QED
  BY <1>5, <1>6, <1>7, <1>8, <1>10, <1>11, <1>13, <1>14, <1>15, <1>16, <1>17, TabStep

-----------------------------------------------------------------------------
\* The service issues one pair more, s being the pairs it had, of which it may
\* have ended some.
LEMMA IssuedOne ==
  ASSUME SessionTypeOK, NEW s, s \in Seq(Token), Len(s) = Len(tokens), NEW e \in Token,
         tokens' = Append(s, e)
  PROVE  /\ tokens' \in Seq(Token) /\ DOMAIN tokens' = DOMAIN tokens \cup {Len(tokens) + 1}
         /\ Len(tokens) + 1 \notin DOMAIN tokens /\ tokens'[Len(tokens) + 1] = e
         /\ Len(tokens) + 1 \in Nat /\ Len(tokens) + 1 # Nothing /\ Len(tokens) + 1 # Failed
         /\ \A k \in DOMAIN tokens : tokens'[k] = s[k]
<1>1. tokens \in Seq(Token)
  BY DEF SessionTypeOK
<1>2. tokens' \in Seq(Token) /\ Len(tokens') = Len(tokens) + 1
  BY AppendProperties
<1>3. DOMAIN tokens = 1 .. Len(tokens) /\ DOMAIN tokens' = 1 .. Len(tokens) + 1 /\ Len(tokens) \in Nat
  BY <1>1, <1>2, LenProperties
<1>4. /\ DOMAIN tokens' = DOMAIN tokens \cup {Len(tokens) + 1}
      /\ Len(tokens) + 1 \notin DOMAIN tokens /\ Len(tokens) + 1 \in Nat
  BY <1>3
<1>5. tokens'[Len(tokens) + 1] = e /\ \A k \in DOMAIN tokens : tokens'[k] = s[k]
  BY <1>3, AppendProperties
<1> QED
  BY <1>2, <1>4, <1>5, SessionAssumption

\* The pair the service issues.
LEMMA IssuedTypes ==
  ASSUME NEW u \in User, NEW n \in Nat
  PROVE  /\ Server!Issued(u, n, 1) \in Token
         /\ Server!Issued(u, n, 1).user = u /\ Server!Issued(u, n, 1).live
BY DEF Server!Issued, Token

\* A token that was issued to a request joins the answers on their way.
LEMMA FlightJoined ==
  ASSUME SessionInv, NEW n, n \notin DOMAIN tokens, Fresh(n)',
         \A k : Fresh(k) => Fresh(k)', NEW asked \in BOOLEAN,
         NEW x \in Tab \cup Form,
         \A u \in Tab : RestoreToken(u)' =>
           IF u = x /\ asked THEN restore'[u].reply = n
           ELSE RestoreToken(u) /\ restore'[u].reply = restore[u].reply,
         \A g \in Form : FormToken(g)' =>
           IF g = x /\ ~ asked THEN form'[g].reply = n
           ELSE FormToken(g) /\ form'[g].reply = form[g].reply
  PROVE  FlightOK'
<1>1. FlightOK
  BY DEF SessionInv
<1>2. \A k : Fresh(k) => k # n
  BY DEF Fresh
<1>3. ASSUME NEW k, Fresh(k) \/ k = n
      PROVE  k \in DOMAIN tokens' \ received' /\ tokens'[k].live
  BY <1>3 DEF Fresh
<1>4. ASSUME NEW u \in Tab PROVE RestoreToken(u)' => Fresh(restore[u].reply)'
  <2>1. RestoreToken(u)' => Fresh(restore'[u].reply) \/ restore'[u].reply = n
    BY <1>1 DEF FlightOK
  <2>2. RestoreToken(u)' => restore'[u].reply \in DOMAIN tokens' \ received' /\ tokens'[restore'[u].reply].live
    BY <1>3, <2>1
  <2> QED
    BY <2>2 DEF Fresh
<1>5. ASSUME NEW g \in Form PROVE FormToken(g)' => Fresh(form[g].reply)'
  <2>1. FormToken(g)' => Fresh(form'[g].reply) \/ form'[g].reply = n
    BY <1>1 DEF FlightOK
  <2>2. FormToken(g)' => form'[g].reply \in DOMAIN tokens' \ received' /\ tokens'[form'[g].reply].live
    BY <1>3, <2>1
  <2> QED
    BY <2>2 DEF Fresh
<1>6. /\ \A u \in Tab : RestoreToken(u) => restore[u].reply # n
      /\ \A g \in Form : FormToken(g) => form[g].reply # n
  BY <1>1, <1>2 DEF FlightOK
<1>7. ASSUME NEW u \in Tab, NEW g \in Form, RestoreToken(u)', FormToken(g)'
      PROVE  restore'[u].reply # form'[g].reply
  BY <1>1, <1>6, <1>7 DEF FlightOK
<1>8. ASSUME NEW u \in Tab, NEW w \in Tab, u # w, RestoreToken(u)', RestoreToken(w)'
      PROVE  restore'[u].reply # restore'[w].reply
  BY <1>1, <1>6, <1>8 DEF FlightOK
<1>9. ASSUME NEW g \in Form, NEW h \in Form, g # h, FormToken(g)', FormToken(h)'
      PROVE  form'[g].reply # form'[h].reply
  BY <1>1, <1>6, <1>9 DEF FlightOK
<1> QED
  BY <1>4, <1>5, <1>7, <1>8, <1>9 DEF FlightOK

\* A refresh that succeeds: the pair asked about ends as the next one begins,
\* and the answer that carries the next one is on its way to the tab that asked.
LEMMA RefreshSucceeds ==
  ASSUME SessionInv, NEW t \in Tab,
         restore[t].step = "refresh", restore[t].reply = Nothing,
         Server!Refresh(restore[t].about, 1),
         restore' = [restore EXCEPT ![t].reply = Len(tokens) + 1],
         UNCHANGED <<saved, tab, form, received, excuse>>
  PROVE  SessionInv'
<1>0. PICK n : n = Len(tokens) + 1
  OBVIOUS
<1> DEFINE old == restore[t].about
           s == [tokens EXCEPT ![old].live = FALSE]
           e == Server!Issued(tokens[old].user, tokens[old].root, 1)
           r == [restore[t] EXCEPT !.reply = n]
<1>1. SessionTypeOK /\ FlightOK /\ SessionKept /\ \A u \in Tab : RequestsOK(u) /\ ViewOK(u)
  BY DEF SessionInv
<1>2. old \in received /\ old \in DOMAIN tokens
  BY <1>1 DEF RequestsOK, SessionTypeOK
<1>3. /\ tokens \in Seq(Token) /\ tokens[old] \in Token /\ tokens[old].user \in User
      /\ tokens[old].root \in Nat
  BY <1>1, <1>2, TokenTypes DEF SessionTypeOK, Token
<1>4. e \in Token /\ e.user = tokens[old].user /\ e.live
  BY <1>3, IssuedTypes
<1>5. s \in Seq(Token) /\ Len(s) = Len(tokens)
  <2>1. [tokens[old] EXCEPT !.live = FALSE] \in Token
    BY <1>3 DEF Token
  <2>2. s = [tokens EXCEPT ![old] = [tokens[old] EXCEPT !.live = FALSE]]
    OBVIOUS
  <2> QED
    BY <1>2, <1>3, <2>1, <2>2, ExceptSeq
<1>6. /\ \A k \in DOMAIN tokens : s[k].user = tokens[k].user /\ (k # old => s[k] = tokens[k])
  BY <1>1, <1>2, <1>3 DEF Token
<1>7. tokens' = Append(s, e) /\ status' = status
  BY DEF Server!Refresh
<1>8. /\ tokens' \in Seq(Token) /\ DOMAIN tokens' = DOMAIN tokens \cup {n}
      /\ n \notin DOMAIN tokens /\ tokens'[n] = e /\ n \in Nat /\ n # Nothing /\ n # Failed
      /\ \A k \in DOMAIN tokens : tokens'[k] = s[k]
  BY <1>0, <1>1, <1>4, <1>5, <1>7, IssuedOne
<1>9. \A k \in DOMAIN tokens :
        tokens'[k].user = tokens[k].user /\ (k # old => tokens'[k] = tokens[k])
  BY <1>6, <1>8
<1>10. restore[t] \in RestoreRequest /\ restore' = [restore EXCEPT ![t] = r]
  BY <1>0, <1>1, TabRecords DEF SessionTypeOK
<1>11. r \in RestoreRequest /\ r.step = "refresh" /\ r.about = old /\ r.reply = n
  BY <1>8, <1>10 DEF RestoreRequest
<1>12. restore'[t] = r /\ \A u \in Tab \ {t} : restore'[u] = restore[u]
  BY <1>1, <1>10 DEF SessionTypeOK
<1>13. received \subseteq DOMAIN tokens /\ received' = received /\ n \notin received
  BY <1>1, <1>8 DEF SessionTypeOK
<1>14. SessionTypeOK'
  <2>1. restore' \in [Tab -> RestoreRequest]
    BY <1>1, <1>10, <1>11 DEF SessionTypeOK
  <2>2. \A k \in DOMAIN tokens' : status'[tokens'[k].user] # "absent"
    <3>1. \A k \in DOMAIN tokens : status[tokens[k].user] # "absent"
      BY <1>1 DEF SessionTypeOK
    <3> QED
      BY <1>2, <1>4, <1>7, <1>8, <1>9, <3>1
  <2>3. received' \in SUBSET DOMAIN tokens'
    BY <1>8, <1>13
  <2> QED
    BY <1>1, <1>7, <1>8, <2>1, <2>2, <2>3 DEF SessionTypeOK
<1>15. ASSUME NEW u \in Tab PROVE RequestsOK(u)' /\ ViewOK(u)'
  <2>1. \A k \in received : tokens'[k].user = tokens[k].user
    BY <1>9, <1>13
  <2>2. CASE u # t
    <3>1. tab'[u] = tab[u] /\ restore'[u] = restore[u]
      BY <1>12, <2>2
    <3> QED
      BY <1>13, <2>1, <3>1, OtherTabs
  <2>3. CASE u = t
    <3>1. RequestsOK(t)'
      BY <1>1, <1>2, <1>11, <1>12, <1>13 DEF RequestsOK
    <3>2. tab[t].access # Nothing => tokens'[tab[t].access].user = tokens[tab[t].access].user
      BY <1>1, <2>1 DEF ViewOK
    <3>3. ViewOK(t)'
      BY <1>1, <1>11, <1>12, <1>13, <3>2 DEF ViewOK
    <3> QED
      BY <2>3, <3>1, <3>3
  <2> QED
    BY <2>2, <2>3
<1>16. FlightOK'
  <2>1. \A k : Fresh(k) => Fresh(k)'
    <3>1. ASSUME NEW k, k \in DOMAIN tokens \ received, tokens[k].live
          PROVE  k \in DOMAIN tokens' \ received' /\ tokens'[k].live
      <4>1. k # old
        BY <1>2, <3>1
      <4> QED
        BY <1>8, <1>9, <1>13, <3>1, <4>1
    <3> QED
      BY <3>1 DEF Fresh
  <2>2. Fresh(n)'
    <3>1. n \in DOMAIN tokens' /\ tokens'[n].live /\ n \notin received'
      BY <1>4, <1>8, <1>13
    <3> QED
      BY <3>1 DEF Fresh
  <2>3. \A g \in Form : FormToken(g)' => FormToken(g) /\ form'[g].reply = form[g].reply
    BY DEF FormToken
  <2>4. \A u \in Tab \ {t} : RestoreToken(u)' => RestoreToken(u) /\ restore'[u].reply = restore[u].reply
    BY <1>12 DEF RestoreToken
  <2>5. restore'[t].reply = n
    BY <1>11, <1>12
  <2>6. PICK asked \in BOOLEAN : asked
    OBVIOUS
  <2>7. \A g \in Form : FormToken(g)' =>
          IF g = t /\ ~ asked THEN form'[g].reply = n
          ELSE FormToken(g) /\ form'[g].reply = form[g].reply
    BY <2>3, <2>6
  <2>8. \A u \in Tab : RestoreToken(u)' =>
          IF u = t /\ asked THEN restore'[u].reply = n
          ELSE RestoreToken(u) /\ restore'[u].reply = restore[u].reply
    BY <2>4, <2>5, <2>6
  <2>9. n \notin DOMAIN tokens /\ t \in Tab \cup Form
    BY <1>8
  <2> QED
    BY <2>1, <2>2, <2>7, <2>8, <2>9, FlightJoined
<1>17. ~ excuse' => NoExcuse'
  <2>1. SUFFICES ASSUME ~ excuse PROVE NoExcuse'
    OBVIOUS
  <2>2. NoExcuse
    BY <2>1 DEF SessionInv
  <2>3. ASSUME NEW u \in Tab
        PROVE  /\ restore'[u].reply # Failed
               /\ restore'[u].step = "refresh" /\ restore'[u].reply = Nothing
                    => tokens'[restore'[u].about].live
    <3>1. CASE u = t
      BY <1>8, <1>11, <1>12, <3>1
    <3>2. CASE u # t
      <4>1. restore'[u] = restore[u]
        BY <1>12, <3>2
      <4>2. restore[u].step = "refresh" => restore[u].about # old /\ restore[u].about \in received
        <5>1. restore[u].step = "refresh" => restore[u].about # old
          BY <2>2, <3>2 DEF NoExcuse
        <5>2. restore[u].step = "refresh" => restore[u].about \in received
          BY <1>1 DEF RequestsOK
        <5> QED
          BY <5>1, <5>2
      <4>3. restore[u].step = "refresh" => tokens'[restore[u].about] = tokens[restore[u].about]
        BY <1>9, <1>13, <4>2
      <4> QED
        BY <2>2, <4>1, <4>3 DEF NoExcuse
    <3> QED
      BY <3>1, <3>2
  <2>4. \A u \in Tab : restore'[u].step = restore[u].step /\ restore'[u].about = restore[u].about
    BY <1>11, <1>12
  <2>5. /\ \A u \in User : status'[u] # "blocked"
        /\ \A u, w \in Tab : u # w /\ restore'[u].step = "refresh" /\ restore'[w].step = "refresh"
                              => restore'[u].about # restore'[w].about
    BY <1>7, <2>2, <2>4 DEF NoExcuse
  <2> QED
    BY <2>3, <2>5 DEF NoExcuse
<1>18. SessionKept'
  <2>1. SUFFICES ASSUME received # {}, ~ excuse
                 PROVE  saved # Nothing /\ (tokens'[saved].live \/ \E u \in Tab : Asks(u, saved)')
    BY DEF SessionKept
  <2>2. saved # Nothing /\ (tokens[saved].live \/ \E u \in Tab : Asks(u, saved))
    BY <1>1, <2>1 DEF SessionKept
  <2>3. \A u \in Tab : Asks(u, saved) => Asks(u, saved)'
    BY <1>11, <1>12 DEF Asks
  <2>4. CASE saved = old
    <3>1. Asks(t, saved)'
      BY <1>11, <1>12, <2>4 DEF Asks
    <3> QED
      BY <2>2, <3>1
  <2>5. CASE saved # old
    <3>1. tokens'[saved] = tokens[saved]
      BY <1>1, <1>9, <1>13, <2>2, <2>5 DEF SessionTypeOK
    <3> QED
      BY <2>2, <2>3, <3>1
  <2> QED
    BY <2>4, <2>5
<1>19. \A g \in Form : FormOK(g)'
  BY FormsAlone
<1> QED
  BY <1>14, <1>15, <1>16, <1>17, <1>18, <1>19 DEF SessionInv

\* Without an excuse a refresh is never refused: the token still works, no
\* account is blocked.
LEMMA ServerRefreshKeeps ==
  ASSUME SessionInv, NEW t \in Tab, ServerRefresh(t)
  PROVE  SessionInv'
<1> DEFINE old == restore[t].about
           r == [restore[t] EXCEPT !.reply = Failed]
<1>1. CASE Server!Works(old) /\ status[tokens[old].user] = "active"
  BY <1>1, RefreshSucceeds DEF ServerRefresh
<1>2. CASE ~ (Server!Works(old) /\ status[tokens[old].user] = "active")
  <2>1. SessionTypeOK /\ RequestsOK(t) /\ ViewOK(t)
    BY DEF SessionInv
  <2>2. tab[t] \in View /\ restore[t] \in RestoreRequest
    BY <2>1, TabRecords
  <2>3. /\ r \in RestoreRequest /\ r.step = restore[t].step /\ r.about = restore[t].about
        /\ r.reply = Failed
    BY <2>2 DEF RestoreRequest
  <2>4. restore[t].step = "refresh" /\ restore[t].reply = Nothing
    BY DEF ServerRefresh
  <2>5. old \in DOMAIN tokens
    BY <2>1, <2>4 DEF RequestsOK, SessionTypeOK
  <2>6. excuse
    <3>1. SUFFICES ASSUME ~ excuse PROVE FALSE
      OBVIOUS
    <3>2. NoExcuse
      BY <3>1 DEF SessionInv
    <3>3. tokens[old].live
      BY <2>4, <3>2 DEF NoExcuse
    <3>4. tokens[old] \in Token /\ tokens[old].user \in User
      BY <2>1, <2>5, TokenTypes
    <3>5. tokens[old].expiresAt = 1
      BY <3>4 DEF Token
    <3>6. Server!Works(old)
      BY <2>5, <3>3, <3>5 DEF Server!Works
    <3>7. status[tokens[old].user] \in {"absent", "active", "blocked"}
      BY <2>1, <3>4 DEF SessionTypeOK
    <3>8. status[tokens[old].user] # "absent"
      BY <2>1, <2>5 DEF SessionTypeOK
    <3>9. status[tokens[old].user] # "blocked"
      BY <3>2, <3>4 DEF NoExcuse
    <3> QED
      BY <1>2, <3>6, <3>7, <3>8, <3>9
  <2>7. /\ UNCHANGED <<status, tokens, received>> /\ saved' = saved /\ excuse' = TRUE
        /\ tab' = [tab EXCEPT ![t] = tab[t]] /\ form' = form
        /\ restore' = [restore EXCEPT ![t] = r]
    <3>1. restore' = [restore EXCEPT ![t] = r]
      BY <1>2, <2>1 DEF ServerRefresh, SessionTypeOK
    <3>2. UNCHANGED <<status, tokens>>
      BY <1>2 DEF ServerRefresh, server
    <3>3. UNCHANGED <<saved, tab, form, received, excuse>>
      BY DEF ServerRefresh
    <3>4. excuse' = TRUE
      BY <2>1, <2>6, <3>3 DEF SessionTypeOK
    <3> QED
      BY <2>1, <3>1, <3>2, <3>3, <3>4, TabRecords
  <2>8. tab'[t] = tab[t] /\ restore'[t] = r
    BY <2>1, <2>7, TabRecords
  <2>9. RequestsOK(t)'
    BY <2>1, <2>3, <2>4, <2>7, <2>8 DEF RequestsOK
  <2>10. ViewOK(t)'
    BY <2>1, <2>3, <2>7, <2>8 DEF ViewOK
  <2>11. ~ RestoreToken(t)'
    BY <2>3, <2>8 DEF RestoreToken
  <2>12. /\ form' \in [Form -> FormRequest]
         /\ \A f \in Form : FormOK(f)' /\ (FormToken(f)' => form'[f] = form[f])
    BY <2>7, FormsAlone
  <2> QED
    BY <2>2, <2>3, <2>7, <2>9, <2>10, <2>11, <2>12, QuietStep
<1> QED
  BY <1>1, <1>2

\* A form that succeeds: a pair of the account is issued and on its way.
LEMMA SubmitSucceeds ==
  ASSUME SessionInv, NEW f \in Form, Awaited(f), status[form[f].about] # "blocked",
         Server!Register(form[f].about, 1) \/ Server!Login(form[f].about, 1),
         form' = [form EXCEPT ![f].reply = Len(tokens) + 1],
         UNCHANGED <<saved, tab, restore, received, excuse>>
  PROVE  SessionInv'
<1>0. PICK n : n = Len(tokens) + 1
  OBVIOUS
<1> DEFINE u == form[f].about
           e == Server!Issued(u, n, 1)
           r == [form[f] EXCEPT !.reply = n]
<1>1. /\ SessionTypeOK /\ FlightOK /\ SessionKept
      /\ \A w \in Tab : RequestsOK(w) /\ ViewOK(w)
      /\ \A g \in Form : FormOK(g)
  BY DEF SessionInv
<1>2. u \in User
  BY <1>1 DEF FormOK
<1>3. n \in Nat /\ tokens \in Seq(Token)
  BY <1>0, <1>1, LenProperties DEF SessionTypeOK
<1>4. e \in Token /\ e.user = u /\ e.live
  BY <1>2, <1>3, IssuedTypes
<1>5. tokens' = Append(tokens, e)
  BY <1>0 DEF Server!Register, Server!Login, Server!Begin
<1>6. /\ tokens' \in Seq(Token) /\ DOMAIN tokens' = DOMAIN tokens \cup {n}
      /\ n \notin DOMAIN tokens /\ tokens'[n] = e
      /\ \A k \in DOMAIN tokens : tokens'[k] = tokens[k]
  BY <1>0, <1>1, <1>3, <1>4, <1>5, IssuedOne
<1>7. /\ status' \in [User -> {"absent", "active", "blocked"}] /\ status'[u] \in {"active"}
      /\ \A w \in User : status'[w] \in {status[w], "active"}
  <2>1. CASE Server!Register(u, 1)
    BY <1>1, <1>2, <2>1 DEF Server!Register, SessionTypeOK
  <2>2. CASE Server!Login(u, 1)
    BY <1>1, <1>2, <2>2 DEF Server!Login, SessionTypeOK
  <2> QED
    BY <2>1, <2>2
<1>8. form[f] \in FormRequest /\ form' = [form EXCEPT ![f] = r]
  BY <1>0, <1>1 DEF SessionTypeOK
<1>9. r \in FormRequest /\ r.tab = form[f].tab /\ r.about = u /\ r.reply = n
  BY <1>3, <1>8 DEF FormRequest
<1>10. form'[f] = r /\ \A g \in Form \ {f} : form'[g] = form[g]
  BY <1>1, <1>8 DEF SessionTypeOK
<1>11. received \subseteq DOMAIN tokens /\ received' = received
  BY <1>1 DEF SessionTypeOK
<1>12. SessionTypeOK'
  <2>1. form' \in [Form -> FormRequest]
    BY <1>1, <1>8, <1>9 DEF SessionTypeOK
  <2>2. \A k \in DOMAIN tokens' : status'[tokens'[k].user] # "absent"
    <3>1. \A k \in DOMAIN tokens : status[tokens[k].user] # "absent" /\ tokens[k].user \in User
      BY <1>1, TokenTypes DEF SessionTypeOK
    <3>2. ASSUME NEW k \in DOMAIN tokens PROVE status'[tokens'[k].user] # "absent"
      BY <1>6, <1>7, <3>1
    <3>3. status'[tokens'[n].user] # "absent"
      BY <1>4, <1>6, <1>7
    <3> QED
      BY <1>6, <3>2, <3>3
  <2>3. received' \in SUBSET DOMAIN tokens'
    BY <1>6, <1>11
  <2> QED
    BY <1>1, <1>6, <1>7, <2>1, <2>2, <2>3 DEF SessionTypeOK
<1>13. ASSUME NEW w \in Tab PROVE RequestsOK(w)' /\ ViewOK(w)'
  <2>1. \A k \in received : tokens'[k].user = tokens[k].user
    BY <1>6, <1>11
  <2> QED
    BY <1>11, <2>1, OtherTabs
<1>14. FlightOK'
  <2>1. \A k : Fresh(k) => Fresh(k)'
    <3>1. ASSUME NEW k, k \in DOMAIN tokens \ received, tokens[k].live
          PROVE  k \in DOMAIN tokens' \ received' /\ tokens'[k].live
      BY <1>6, <1>11, <3>1
    <3> QED
      BY <3>1 DEF Fresh
  <2>2. Fresh(n)'
    <3>1. n \in DOMAIN tokens' /\ tokens'[n].live /\ n \notin received'
      BY <1>4, <1>6, <1>11
    <3> QED
      BY <3>1 DEF Fresh
  <2>3. \A w \in Tab : RestoreToken(w)' => RestoreToken(w) /\ restore'[w].reply = restore[w].reply
    BY DEF RestoreToken
  <2>4. \A g \in Form \ {f} : FormToken(g)' => FormToken(g) /\ form'[g].reply = form[g].reply
    BY <1>10 DEF FormToken
  <2>5. form'[f].reply = n
    BY <1>9, <1>10
  <2>6. PICK asked \in BOOLEAN : ~ asked
    OBVIOUS
  <2>7. \A g \in Form : FormToken(g)' =>
          IF g = f /\ ~ asked THEN form'[g].reply = n
          ELSE FormToken(g) /\ form'[g].reply = form[g].reply
    BY <2>4, <2>5, <2>6
  <2>8. \A w \in Tab : RestoreToken(w)' =>
          IF w = f /\ asked THEN restore'[w].reply = n
          ELSE RestoreToken(w) /\ restore'[w].reply = restore[w].reply
    BY <2>3, <2>6
  <2>9. n \notin DOMAIN tokens /\ f \in Tab \cup Form
    BY <1>6
  <2> QED
    BY <2>1, <2>2, <2>7, <2>8, <2>9, FlightJoined
<1>15. ~ excuse' => NoExcuse'
  <2>1. SUFFICES ASSUME ~ excuse PROVE NoExcuse'
    OBVIOUS
  <2>2. NoExcuse
    BY <2>1 DEF SessionInv
  <2>3. \A w \in User : status'[w] # "blocked"
    BY <1>7, <2>2 DEF NoExcuse
  <2>4. \A w \in Tab : restore[w].step = "refresh" => tokens'[restore[w].about] = tokens[restore[w].about]
    BY <1>1, <1>6, <1>11 DEF RequestsOK
  <2> QED
    BY <2>2, <2>3, <2>4 DEF NoExcuse
<1>16. SessionKept'
  <2>1. SUFFICES ASSUME received # {}, ~ excuse
                 PROVE  saved # Nothing /\ (tokens'[saved].live \/ \E w \in Tab : Asks(w, saved)')
    BY DEF SessionKept
  <2>2. saved # Nothing /\ (tokens[saved].live \/ \E w \in Tab : Asks(w, saved))
    BY <1>1, <2>1 DEF SessionKept
  <2>3. \A w \in Tab : Asks(w, saved) => Asks(w, saved)'
    BY DEF Asks
  <2>4. tokens'[saved] = tokens[saved]
    BY <1>1, <1>6, <1>11, <2>2 DEF SessionTypeOK
  <2> QED
    BY <2>2, <2>3, <2>4
<1>17. ASSUME NEW g \in Form PROVE FormOK(g)'
  <2>1. CASE g = f
    BY <1>2, <1>9, <1>10, <2>1 DEF FormOK, Awaited
  <2>2. CASE g # f
    BY <1>1, <1>10, <2>2 DEF FormOK, Awaited
  <2> QED
    BY <2>1, <2>2
<1> QED
  BY <1>12, <1>13, <1>14, <1>15, <1>16, <1>17 DEF SessionInv

\* A blocked account is refused, any other gets a pair of its own.
LEMMA ServerSubmitKeeps ==
  ASSUME SessionInv, NEW f \in Form, ServerSubmit(f)
  PROVE  SessionInv'
<1>1. CASE status[form[f].about] # "blocked"
  BY <1>1, SubmitSucceeds DEF ServerSubmit
<1>2. CASE status[form[f].about] = "blocked"
  <2> DEFINE r == [form[f] EXCEPT !.reply = Failed]
  <2>1. SessionTypeOK /\ FormOK(f)
    BY DEF SessionInv
  <2>2. form[f] \in FormRequest /\ form' = [form EXCEPT ![f] = r]
    BY <1>2, <2>1 DEF SessionTypeOK, ServerSubmit
  <2>3. /\ r \in FormRequest /\ r.tab = form[f].tab /\ r.about = form[f].about
        /\ r.reply = Failed
    BY <2>2 DEF FormRequest
  <2>4. r.tab # Nothing /\ r.about \in User
    BY <2>1, <2>3 DEF ServerSubmit, FormOK, Awaited
  <2>5. UNCHANGED <<status, tokens, saved, tab, restore, received, excuse>>
    BY <1>2 DEF ServerSubmit, server
  <2> QED
    BY <2>2, <2>3, <2>4, <2>5, FormStep
<1> QED
  BY <1>1, <1>2

\* Blocking an account is an excuse, and touches no token.
LEMMA BlockKeeps ==
  ASSUME SessionInv, NEW u \in User, Block(u)
  PROVE  SessionInv'
<1>1. SessionTypeOK /\ FlightOK
  BY DEF SessionInv
<1>2. /\ status' = [status EXCEPT ![u] = "blocked"]
      /\ UNCHANGED <<tokens, saved, tab, restore, form, received>> /\ excuse' = TRUE
  BY DEF Block, Server!ChangeStatus
<1>3. SessionTypeOK'
  <2>1. \A k \in DOMAIN tokens : tokens[k].user \in User /\ status[tokens[k].user] # "absent"
    BY <1>1, TokenTypes DEF SessionTypeOK
  <2>2. status' \in [User -> {"absent", "active", "blocked"}]
    BY <1>1, <1>2 DEF SessionTypeOK
  <2>3. \A k \in DOMAIN tokens : status'[tokens[k].user] # "absent"
    BY <1>1, <1>2, <2>1 DEF SessionTypeOK
  <2> QED
    BY <1>1, <1>2, <2>2, <2>3 DEF SessionTypeOK
<1>4. \A t \in Tab : RequestsOK(t)' /\ ViewOK(t)'
  BY <1>2, OtherTabs
<1>5. FlightOK'
  <2>1. /\ \A t \in Tab : RestoreToken(t)' => RestoreToken(t)
        /\ \A f \in Form : FormToken(f)' => FormToken(f)
    BY <1>2 DEF RestoreToken, FormToken
  <2>2. /\ \A t \in Tab : RestoreToken(t) => restore[t].reply \notin received
        /\ \A f \in Form : FormToken(f) => form[f].reply \notin received
    BY <1>1 DEF FlightOK, Fresh
  <2> QED
    BY <1>2, <2>1, <2>2, FlightKept
<1>6. \A f \in Form : FormOK(f)'
  BY <1>2, FormsAlone
<1> QED
  BY <1>2, <1>3, <1>4, <1>5, <1>6 DEF SessionInv, SessionKept

\* No tab is open, nothing is stored.
LEMMA SessionInvInit == SessionInit => SessionInv
<1>1. SUFFICES ASSUME SessionInit PROVE SessionInv
  OBVIOUS
<1>2. /\ status = [u \in User |-> "absent"] /\ tokens = <<>> /\ saved = Nothing
      /\ received = {} /\ excuse = FALSE
      /\ tab = [t \in Tab |-> Closed] /\ restore = [t \in Tab |-> NotAsked]
      /\ form = [f \in Form |-> NoForm]
  BY <1>1 DEF SessionInit, Server!Init
<1>3. SessionTypeOK
  <2>1. tokens \in Seq(Token) /\ DOMAIN tokens = {}
    BY <1>2
  <2>2. /\ tab \in [Tab -> View] /\ restore \in [Tab -> RestoreRequest]
        /\ form \in [Form -> FormRequest]
    BY <1>2, RequestTypes
  <2> QED
    BY <1>2, <2>1, <2>2 DEF SessionTypeOK
<1>4. \A t \in Tab : RequestsOK(t) /\ ViewOK(t)
  BY <1>2 DEF RequestsOK, ViewOK, NotAsked, Closed
<1>7. \A f \in Form : FormOK(f)
  BY <1>2 DEF FormOK, Awaited, NoForm
<1>5. FlightOK
  BY <1>2 DEF FlightOK, RestoreToken, FormToken, NotAsked, NoForm
<1>6. NoExcuse
  BY <1>2, SessionAssumption DEF NoExcuse, NotAsked
<1> QED
  BY <1>2, <1>3, <1>4, <1>5, <1>6, <1>7 DEF SessionInv, SessionKept

\* Every step of a tab, of the service or of the network.
LEMMA SessionInvNext == SessionInv /\ [SessionNext]_sessionVars => SessionInv'
<1>1. SUFFICES ASSUME SessionInv, [SessionNext]_sessionVars PROVE SessionInv'
  OBVIOUS
<1>2. CASE UNCHANGED sessionVars
  BY <1>1, <1>2 DEF sessionVars, SessionInv, SessionTypeOK, RequestsOK, ViewOK, FormOK, Awaited, FlightOK,
     RestoreToken, FormToken, Fresh, NoExcuse, SessionKept, Asks
<1>3. ASSUME NEW u \in User, Block(u) PROVE SessionInv'
  BY <1>1, <1>3, BlockKeeps
<1>4. ASSUME NEW t \in Tab, NEW next \in {"login", "pet"}, OpenTab(t, next) \/ Navigate(t, next)
      PROVE  SessionInv'
  BY <1>1, <1>4, OpenTabKeeps, NavigateKeeps
<1>5. ASSUME NEW t \in Tab, NEW f \in Form, NEW u \in User, Submit(t, f, u) PROVE SessionInv'
  BY <1>1, <1>5, SubmitKeeps
<1>6. ASSUME NEW t \in Tab, CloseTab(t) \/ Logout(t) PROVE SessionInv'
  BY <1>1, <1>6, CloseTabKeeps, LogoutKeeps
<1>7. ASSUME NEW t \in Tab, AnswerRestore(t) PROVE SessionInv'
  BY <1>1, <1>7, ServerRefreshKeeps, ServerMeKeeps, LoseRestoreKeeps DEF AnswerRestore
<1>8. ASSUME NEW t \in Tab, HandleRestore(t) PROVE SessionInv'
  BY <1>1, <1>8, GotRefreshKeeps, GotUserKeeps, RestoreFailedKeeps DEF HandleRestore
<1>9. ASSUME NEW f \in Form, AnswerForm(f) PROVE SessionInv'
  BY <1>1, <1>9, ServerSubmitKeeps, LoseFormKeeps DEF AnswerForm
<1>10. ASSUME NEW f \in Form, HandleForm(f) PROVE SessionInv'
  BY <1>1, <1>10, GotFormKeeps, FormFailedKeeps DEF HandleForm
<1> QED
  BY <1>1, <1>2, <1>3, <1>4, <1>5, <1>6, <1>7, <1>8, <1>9, <1>10 DEF SessionNext

\* The strengthening is an invariant of the browser session.
LEMMA SessionInvariance == SessionSpec => []SessionInv
<1>1. SessionInit => SessionInv
  BY SessionInvInit
<1>2. SessionInv /\ [SessionNext]_sessionVars => SessionInv'
  BY SessionInvNext
<1> QED
  BY <1>1, <1>2, PTL DEF SessionSpec

(***************************************************************************)
(* The refresh token that all tabs share in localStorage survives reloads, *)
(* logins and any number of tabs: AuthProvider.tsx stores each new one     *)
(* before anything else, and the service ends an old one only as it issues *)
(* the answer that replaces it.                                            *)
(***************************************************************************)
THEOREM SessionIsKept == SessionSpec => []SessionKept
<1>1. SessionInv => SessionKept
  BY DEF SessionInv
<1> QED
  BY <1>1, SessionInvariance, PTL

(***************************************************************************)
(* setUser and setAccessToken of AuthProvider.tsx agree on the account:    *)
(* what restoreSession shows after its second await is the user of the     *)
(* token it stored after the first one, unless a login came in between.    *)
(***************************************************************************)
THEOREM AccountAlwaysMatches == SessionSpec => []AccountMatchesTokens
<1>1. SessionInv => AccountMatchesTokens
  BY DEF SessionInv, ViewOK, AccountMatchesTokens
<1> QED
  BY <1>1, SessionInvariance, PTL

(***************************************************************************)
(* Of all that AuthProvider.tsx does in any number of tabs, only the       *)
(* answer to a form ends being logged out: ProtectedRoute shows no page,   *)
(* and no logout button, while a restore is running.                       *)
(***************************************************************************)
THEOREM LogoutHolds == SessionSpec => []LogoutIsFinal
<1>1. SessionInv => LogoutIsFinal
  BY DEF SessionInv, ViewOK, LogoutIsFinal
<1> QED
  BY <1>1, SessionInvariance, PTL

-----------------------------------------------------------------------------
(***************************************************************************)
(* The pet page.  The strengthening: a queued update never has less energy *)
(* than what is rendered, so the guard of Play is safe for it; ticks earn  *)
(* nothing; and what an open page shows is what is saved, unless tabs      *)
(* overlap.                                                                *)
(***************************************************************************)
QueueOK ==
  \A t \in Tab : /\ drawn[t].energy <= due[t].energy
                 /\ due[t].experience = drawn[t].experience

TotalExp == NewPet.experience + earned

SavedOK ==
  /\ savedPet = Nothing <=> savedLook = Nothing
  /\ savedPet = Nothing => earned = 0 /\ chosen = NewLook
  /\ \A t \in Tab : page[t] = "open" => savedPet # Nothing

PagesOK ==
  /\ \A t \in Tab : page[t] # "closed" => drawn[t].experience <= TotalExp
  /\ ~together =>
       \A t \in Tab : page[t] # "closed" =>
         /\ drawn[t].experience = TotalExp /\ look[t] = chosen
         /\ \A other \in Tab : other # t => page[other] = "closed"

PetInv ==
  /\ PetTypeOK
  /\ QueueOK /\ SavedOK /\ PagesOK /\ SavedAcrossSessions

-----------------------------------------------------------------------------
\* What the three updates of the pet do to a pet on its scale.
LEMMA PetNeeds ==
  ASSUME NEW p \in Pet
  PROVE  /\ p.hunger \in Int /\ 0 <= p.hunger /\ p.hunger <= Max
         /\ p.energy \in Int /\ 0 <= p.energy /\ p.energy <= Max
         /\ p.happiness \in Int /\ 0 <= p.happiness /\ p.happiness <= Max
         /\ p.experience \in Nat
BY PetAssumption DEF Pet, Need

\* What EXCEPT does to the fields of a pet.
LEMMA UpdateOK ==
  ASSUME NEW p \in Pet, NEW h \in Need, NEW e \in Need, NEW m \in Need, NEW x \in Nat
  PROVE  /\ [p EXCEPT !.energy = e, !.hunger = h, !.happiness = m] \in Pet
         /\ [p EXCEPT !.hunger = h, !.happiness = m, !.experience = x] \in Pet
         /\ [p EXCEPT !.energy = e, !.happiness = m, !.experience = x] \in Pet
BY DEF Pet

LEMMA AgedOK ==
  ASSUME NEW p \in Pet
  PROVE  /\ Aged(p) \in Pet /\ Aged(p).energy >= p.energy
         /\ Aged(p).experience = p.experience
<1> DEFINE hunger == Greatest(p.hunger - 1, 0)
           energy == Least(p.energy + 1, Max)
           mood == IF p.hunger < Hungry THEN Greatest(p.happiness - 1, 0) ELSE p.happiness
<1>1. /\ hunger \in Need /\ energy \in Need /\ mood \in Need
      /\ energy >= p.energy /\ p.experience \in Nat
  BY PetNeeds, PetAssumption DEF Greatest, Least, Need
<1>2. Aged(p) = [p EXCEPT !.energy = energy, !.hunger = hunger, !.happiness = mood]
  BY Zenon DEF Aged
<1> HIDE DEF hunger, energy, mood
<1>3. /\ [p EXCEPT !.energy = energy, !.hunger = hunger, !.happiness = mood].energy = energy
      /\ [p EXCEPT !.energy = energy, !.hunger = hunger, !.happiness = mood].experience = p.experience
  BY DEF Pet
<1>4. [p EXCEPT !.energy = energy, !.hunger = hunger, !.happiness = mood] \in Pet
  BY <1>1, UpdateOK
<1>5. Aged(p) \in Pet /\ Aged(p).energy = energy /\ Aged(p).experience = p.experience
  BY <1>2, <1>3, <1>4, Zenon
<1> QED
  BY <1>1, <1>5
LEMMA FedOK ==
  ASSUME NEW p \in Pet
  PROVE  /\ Fed(p) \in Pet /\ Fed(p).energy = p.energy
         /\ Fed(p).experience = p.experience + MealExp
<1> DEFINE hunger == Least(p.hunger + Meal, Max)
           mood == Least(p.happiness + MealMood, Max)
<1>1. /\ hunger \in Need /\ p.energy \in Need /\ mood \in Need
      /\ p.experience + MealExp \in Nat
  BY PetNeeds, PetAssumption DEF Least, Need
<1> DEFINE exp == p.experience + MealExp
<1>2. Fed(p) = [p EXCEPT !.hunger = hunger, !.happiness = mood, !.experience = exp]
  BY Zenon DEF Fed
<1>3. exp = p.experience + MealExp
  OBVIOUS
<1> HIDE DEF hunger, mood, exp
<1>4. /\ [p EXCEPT !.hunger = hunger, !.happiness = mood, !.experience = exp].energy = p.energy
      /\ [p EXCEPT !.hunger = hunger, !.happiness = mood, !.experience = exp].experience = exp
  BY DEF Pet
<1>5. [p EXCEPT !.hunger = hunger, !.happiness = mood, !.experience = exp] \in Pet
  BY <1>1, <1>3, UpdateOK
<1>6. Fed(p) \in Pet /\ Fed(p).energy = p.energy /\ Fed(p).experience = exp
  BY <1>2, <1>4, <1>5, Zenon
<1> QED
  BY <1>3, <1>6, Zenon

LEMMA PlayedOK ==
  ASSUME NEW p \in Pet, p.energy >= Effort
  PROVE  /\ Played(p) \in Pet /\ Played(p).energy = p.energy - Effort
         /\ Played(p).experience = p.experience + PlayExp
<1> DEFINE mood == Least(p.happiness + PlayMood, Max)
<1>1. /\ p.hunger \in Need /\ p.energy - Effort \in Need /\ mood \in Need
      /\ p.experience + PlayExp \in Nat
  BY PetNeeds, PetAssumption DEF Least, Need
<1> DEFINE energy == p.energy - Effort
           exp == p.experience + PlayExp
<1>2. Played(p) = [p EXCEPT !.energy = energy, !.happiness = mood, !.experience = exp]
  BY Zenon DEF Played
<1>3. energy = p.energy - Effort /\ exp = p.experience + PlayExp
  OBVIOUS
<1> HIDE DEF energy, mood, exp
<1>4. /\ [p EXCEPT !.energy = energy, !.happiness = mood, !.experience = exp].energy = energy
      /\ [p EXCEPT !.energy = energy, !.happiness = mood, !.experience = exp].experience = exp
  BY DEF Pet
<1>5. [p EXCEPT !.energy = energy, !.happiness = mood, !.experience = exp] \in Pet
  BY <1>1, <1>3, UpdateOK
<1>6. Played(p) \in Pet /\ Played(p).energy = energy /\ Played(p).experience = exp
  BY <1>2, <1>4, <1>5, Zenon
<1> QED
  BY <1>3, <1>6, Zenon

\* A pet is on its scale wherever it has its type.
LEMMA TypedIsInRange ==
  ASSUME PetTypeOK PROVE NeedsInRange
BY DEF PetTypeOK, NeedsInRange

-----------------------------------------------------------------------------
LEMMA PetInitOK == PetInit => PetInv
<1> SUFFICES ASSUME PetInit PROVE PetInv
  OBVIOUS
<1>1. PetTypeOK
  <2>1. 0 \in 0..MaxExp /\ NewPet \in Pet /\ NewLook \in Look
    BY PetAssumption
  <2> QED
    BY <2>1 DEF PetInit, PetTypeOK
<1>2. NewPet \in Pet /\ NewPet.energy \in Nat
  BY PetAssumption DEF Pet, Need
<1>3. QueueOK /\ SavedOK /\ PagesOK /\ SavedAcrossSessions
  BY <1>2 DEF PetInit, QueueOK, SavedOK, PagesOK, SavedAcrossSessions
<1> QED
  BY <1>1, <1>3 DEF PetInv

LEMMA OpenOK == ASSUME PetInv, NEW t \in Tab, Open(t) PROVE PetInv'
<1> DEFINE pet == IF savedPet = Nothing THEN NewPet ELSE savedPet
           image == IF savedLook = Nothing THEN NewLook ELSE savedLook
<1>1. pet \in Pet /\ image \in Look
  BY PetAssumption DEF PetInv, PetTypeOK
<1>2. pet.experience <= TotalExp /\ (~together => pet.experience = TotalExp /\ image = chosen)
  <2>1. NewPet.experience \in Nat
    BY PetAssumption DEF Pet
  <2> QED
    BY <2>1 DEF PetInv, SavedOK, SavedAcrossSessions, TotalExp
<1>3. /\ page' = [page EXCEPT ![t] = "rendered"] /\ page[t] = "closed"
      /\ drawn' = [drawn EXCEPT ![t] = pet] /\ due' = [due EXCEPT ![t] = pet]
      /\ look' = [look EXCEPT ![t] = image]
      /\ together' = (together \/ \E other \in Tab : page[other] # "closed")
      /\ UNCHANGED <<savedPet, savedLook, earned, chosen>>
  BY DEF Open
<1> HIDE DEF pet, image
<1>4. /\ page'[t] = "rendered" /\ drawn'[t] = pet /\ due'[t] = pet /\ look'[t] = image
      /\ \A r \in Tab \ {t} : UNCHANGED <<page[r], drawn[r], due[r], look[r]>>
  BY <1>3 DEF PetInv, PetTypeOK
<1>5. PetTypeOK'
  BY <1>1, <1>3 DEF PetInv, PetTypeOK
<1>6. QueueOK'
  <2>1. pet.energy \in Nat
    BY <1>1 DEF Pet, Need
  <2> QED
    BY <1>4, <2>1 DEF PetInv, QueueOK
<1>7. SavedOK' /\ SavedAcrossSessions'
  BY <1>3, <1>4 DEF PetInv, SavedOK, SavedAcrossSessions, TotalExp
<1>8. PagesOK'
  <2>1. ASSUME NEW r \in Tab, page'[r] # "closed" PROVE drawn'[r].experience <= TotalExp
    BY <1>2, <1>4, <2>1 DEF PetInv, PagesOK
  <2>2. ASSUME ~ together', NEW r \in Tab, page'[r] # "closed"
        PROVE  /\ drawn'[r].experience = TotalExp /\ look'[r] = chosen
               /\ \A other \in Tab : other # r => page'[other] = "closed"
    <3>1. r = t /\ \A other \in Tab : other # t => page[other] = "closed"
      BY <1>3, <1>4, <2>2
    <3> QED
      BY <1>2, <1>3, <1>4, <2>2, <3>1
  <2> QED
    BY <1>3, <2>1, <2>2 DEF PagesOK, TotalExp
<1> QED
  BY <1>5, <1>6, <1>7, <1>8 DEF PetInv

LEMMA MountOK == ASSUME PetInv, NEW t \in Tab, Mount(t) PROVE PetInv'
<1>1. /\ page[t] = "rendered" /\ page' = [page EXCEPT ![t] = "open"]
      /\ savedPet' = drawn[t] /\ savedLook' = look[t]
      /\ UNCHANGED <<drawn, due, look, earned, chosen, together>>
  BY DEF Mount
<1>2. /\ page'[t] = "open" /\ \A r \in Tab \ {t} : page'[r] = page[r]
      /\ drawn[t] \in Pet /\ look[t] \in Look /\ drawn[t] # Nothing /\ look[t] # Nothing
  BY <1>1, PetAssumption DEF PetInv, PetTypeOK
<1>3. PetTypeOK'
  BY <1>1, <1>2 DEF PetInv, PetTypeOK
<1>4. QueueOK' /\ SavedOK'
  BY <1>1, <1>2 DEF PetInv, QueueOK, SavedOK
<1>5. PagesOK'
  BY <1>1, <1>2 DEF PetInv, PagesOK, TotalExp
<1>6. SavedAcrossSessions'
  BY <1>1, <1>2 DEF PetInv, PagesOK, SavedAcrossSessions, TotalExp
<1> QED
  BY <1>3, <1>4, <1>5, <1>6 DEF PetInv

\* The timer's update, and its rendering.
LEMMA PetTickOK == ASSUME PetInv, NEW t \in Tab, PetTick(t) PROVE PetInv'
<1>1. /\ due' = [due EXCEPT ![t] = Aged(due[t])] /\ due[t] = drawn[t]
      /\ UNCHANGED <<savedPet, savedLook, page, drawn, look, earned, chosen, together>>
  BY DEF PetTick
<1>2. /\ due[t] \in Pet /\ Aged(due[t]) \in Pet /\ Aged(due[t]).energy >= drawn[t].energy
      /\ Aged(due[t]).experience = drawn[t].experience /\ drawn[t].energy \in Nat
      /\ Aged(due[t]).energy \in Nat
  <2>1. due[t] \in Pet
    BY DEF PetInv, PetTypeOK
  <2>2. Aged(due[t]) \in Pet
    BY <2>1, AgedOK
  <2> QED
    BY <1>1, <2>1, <2>2, AgedOK DEF Pet, Need
<1>3. due'[t] = Aged(due[t]) /\ \A r \in Tab \ {t} : due'[r] = due[r]
  BY <1>1 DEF PetInv, PetTypeOK
<1>4. PetTypeOK'
  BY <1>1, <1>2 DEF PetInv, PetTypeOK
<1>5. QueueOK'
  BY <1>1, <1>2, <1>3 DEF PetInv, QueueOK
<1>6. SavedOK' /\ PagesOK' /\ SavedAcrossSessions'
  BY <1>1 DEF PetInv, SavedOK, PagesOK, SavedAcrossSessions, TotalExp
<1> QED
  BY <1>4, <1>5, <1>6 DEF PetInv

\* The page is rendered with a new pet, which is saved: a tick is shown, or a
\* click has added to the experience.
LEMMA ShowOK ==
  ASSUME PetInv, NEW t \in Tab, page[t] = "open",
         NEW pet \in Pet, NEW queued \in Pet, NEW gain \in Nat,
         pet.energy <= queued.energy, queued.experience = pet.experience,
         pet.experience = drawn[t].experience + gain, earned + gain <= MaxExp,
         drawn' = [drawn EXCEPT ![t] = pet], due' = [due EXCEPT ![t] = queued],
         savedPet' = pet, earned' = earned + gain,
         UNCHANGED <<savedLook, page, look, chosen, together>>
  PROVE  PetInv'
<1>1. /\ drawn'[t] = pet /\ due'[t] = queued
      /\ \A r \in Tab \ {t} : drawn'[r] = drawn[r] /\ due'[r] = due[r]
  BY DEF PetInv, PetTypeOK
<1>2. /\ NewPet.experience \in Nat /\ earned \in Nat /\ MaxExp \in Nat
      /\ \A r \in Tab : drawn[r].experience \in Nat
  <2>1. \A r \in Tab : drawn[r] \in Pet
    BY DEF PetInv, PetTypeOK
  <2> QED
    BY <2>1, PetAssumption DEF Pet, PetInv, PetTypeOK
<1>3. PetTypeOK'
  BY <1>2 DEF PetInv, PetTypeOK
<1>4. QueueOK'
  BY <1>1 DEF PetInv, QueueOK
<1>5. pet # Nothing /\ savedPet # Nothing
  BY PetAssumption DEF PetInv, SavedOK
<1>6. SavedOK'
  BY <1>5 DEF PetInv, SavedOK
<1>7. PagesOK'
  <2>1. ASSUME NEW r \in Tab, page[r] # "closed" PROVE drawn'[r].experience <= TotalExp'
    <3>1. drawn[r].experience <= TotalExp
      BY <2>1 DEF PetInv, PagesOK
    <3> QED
      BY <1>1, <1>2, <3>1 DEF TotalExp
  <2>2. ASSUME ~ together, NEW r \in Tab, page[r] # "closed"
        PROVE  /\ drawn'[r].experience = TotalExp' /\ look[r] = chosen
               /\ \A other \in Tab : other # r => page[other] = "closed"
    <3>1. r = t
      BY <2>2 DEF PetInv, PagesOK
    <3> QED
      BY <1>1, <1>2, <2>2, <3>1 DEF PetInv, PagesOK, TotalExp
  <2> QED
    BY <2>1, <2>2 DEF PagesOK
<1>8. SavedAcrossSessions'
  <2>1. pet.experience <= TotalExp'
    BY <1>1, <1>7 DEF PagesOK
  <2>2. ~ together => pet.experience = TotalExp'
    BY <1>1, <1>7 DEF PagesOK
  <2>3. ~ together => savedLook = chosen
    BY <1>5 DEF PetInv, SavedAcrossSessions
  <2> QED
    BY <2>1, <2>2, <2>3 DEF SavedAcrossSessions, TotalExp
<1> QED
  BY <1>3, <1>4, <1>6, <1>7, <1>8 DEF PetInv

LEMMA RenderOK == ASSUME PetInv, NEW t \in Tab, Render(t) PROVE PetInv'
<1>1. /\ page[t] = "open" /\ drawn' = [drawn EXCEPT ![t] = due[t]] /\ savedPet' = due[t]
      /\ due' = due /\ earned' = earned /\ UNCHANGED <<savedLook, page, look, chosen, together>>
  BY DEF Render, Save
<1>2. /\ due' = [due EXCEPT ![t] = due[t]] /\ due[t] \in Pet /\ earned \in 0..MaxExp
      /\ due[t].experience = drawn[t].experience
  BY <1>1 DEF PetInv, PetTypeOK, QueueOK
<1>3. due[t].energy \in Nat /\ due[t].experience \in Nat
  BY <1>2 DEF Pet, Need
<1>4. earned' = earned + 0 /\ earned + 0 <= MaxExp /\ due[t].experience = drawn[t].experience + 0
      /\ due[t].energy <= due[t].energy
  BY <1>1, <1>2, <1>3, PetAssumption
<1> QED
  BY <1>1, <1>2, <1>4, ShowOK

LEMMA FeedOK == ASSUME PetInv, NEW t \in Tab, Feed(t) PROVE PetInv'
<1>1. drawn[t] \in Pet /\ due[t] \in Pet /\ MealExp \in Nat
  BY PetAssumption DEF PetInv, PetTypeOK
<1>2. /\ Fed(drawn[t]) \in Pet /\ Fed(due[t]) \in Pet
      /\ Fed(drawn[t]).energy <= Fed(due[t]).energy
      /\ Fed(drawn[t]).experience = drawn[t].experience + MealExp
      /\ Fed(due[t]).experience = Fed(drawn[t]).experience
  BY <1>1, FedOK DEF PetInv, QueueOK
<1>3. /\ page[t] = "open" /\ earned + MealExp <= MaxExp /\ earned' = earned + MealExp
      /\ drawn' = [drawn EXCEPT ![t] = Fed(drawn[t])] /\ due' = [due EXCEPT ![t] = Fed(due[t])]
      /\ savedPet' = Fed(drawn[t]) /\ UNCHANGED <<savedLook, page, look, chosen, together>>
  BY DEF Feed, Save
<1> QED
  BY <1>1, <1>2, <1>3, ShowOK

LEMMA PlayOK == ASSUME PetInv, NEW t \in Tab, Play(t) PROVE PetInv'
<1>1. drawn[t] \in Pet /\ due[t] \in Pet /\ PlayExp \in Nat /\ Effort \in Nat
  BY PetAssumption DEF PetInv, PetTypeOK
<1>2. drawn[t].energy >= Effort /\ due[t].energy >= Effort /\ drawn[t].energy <= due[t].energy
  BY <1>1 DEF Play, PetInv, QueueOK, Pet, Need
<1>3. /\ Played(drawn[t]) \in Pet /\ Played(due[t]) \in Pet
      /\ Played(drawn[t]).energy <= Played(due[t]).energy
      /\ Played(drawn[t]).experience = drawn[t].experience + PlayExp
      /\ Played(due[t]).experience = Played(drawn[t]).experience
  <2>1. drawn[t].energy \in Int /\ due[t].energy \in Int
    BY <1>1 DEF Pet, Need
  <2> QED
    BY <1>1, <1>2, <2>1, PlayedOK DEF PetInv, QueueOK
<1>4. /\ page[t] = "open" /\ earned + PlayExp <= MaxExp /\ earned' = earned + PlayExp
      /\ drawn' = [drawn EXCEPT ![t] = Played(drawn[t])]
      /\ due' = [due EXCEPT ![t] = Played(due[t])]
      /\ savedPet' = Played(drawn[t]) /\ UNCHANGED <<savedLook, page, look, chosen, together>>
  BY DEF Play, Save
<1> QED
  BY <1>1, <1>3, <1>4, ShowOK

LEMMA SelectPetOK ==
  ASSUME PetInv, NEW t \in Tab, NEW image \in Look, SelectPet(t, image) PROVE PetInv'
<1>1. /\ page[t] = "open" /\ look' = [look EXCEPT ![t] = image]
      /\ savedLook' = image /\ chosen' = image
      /\ UNCHANGED <<savedPet, page, drawn, due, earned, together>>
  BY DEF SelectPet
<1>2. /\ look'[t] = image /\ \A r \in Tab \ {t} : look'[r] = look[r]
      /\ image # Nothing /\ savedPet # Nothing
  BY <1>1, PetAssumption DEF PetInv, PetTypeOK, SavedOK
<1>3. PetTypeOK'
  BY <1>1 DEF PetInv, PetTypeOK
<1>4. QueueOK' /\ SavedOK' /\ SavedAcrossSessions'
  BY <1>1, <1>2 DEF PetInv, QueueOK, SavedOK, SavedAcrossSessions, TotalExp
<1>5. PagesOK'
  BY <1>1, <1>2 DEF PetInv, PagesOK, TotalExp
<1> QED
  BY <1>3, <1>4, <1>5 DEF PetInv

LEMMA CloseOK == ASSUME PetInv, NEW t \in Tab, Close(t) PROVE PetInv'
<1>1. /\ page' = [page EXCEPT ![t] = "closed"] /\ drawn' = [drawn EXCEPT ![t] = NewPet]
      /\ due' = [due EXCEPT ![t] = NewPet] /\ look' = [look EXCEPT ![t] = NewLook]
      /\ UNCHANGED <<savedPet, savedLook, earned, chosen, together>>
  BY DEF Close
<1>2. /\ page'[t] = "closed" /\ drawn'[t] = NewPet /\ due'[t] = NewPet
      /\ \A r \in Tab \ {t} : UNCHANGED <<page[r], drawn[r], due[r], look[r]>>
  BY <1>1 DEF PetInv, PetTypeOK
<1>3. PetTypeOK'
  BY <1>1, PetAssumption DEF PetInv, PetTypeOK
<1>4. QueueOK'
  <2>1. NewPet.energy \in Nat
    BY PetAssumption DEF Pet, Need
  <2> QED
    BY <1>2, <2>1 DEF PetInv, QueueOK
<1>5. SavedOK' /\ SavedAcrossSessions'
  BY <1>1, <1>2 DEF PetInv, SavedOK, SavedAcrossSessions, TotalExp
<1>6. PagesOK'
  BY <1>1, <1>2 DEF PetInv, PagesOK, TotalExp
<1> QED
  BY <1>3, <1>4, <1>5, <1>6 DEF PetInv

LEMMA PetStepOK == PetInv /\ [PetNext]_petVars => PetInv'
<1> SUFFICES ASSUME PetInv, [PetNext]_petVars PROVE PetInv'
  OBVIOUS
<1>1. ASSUME NEW t \in Tab,
             \/ Open(t) \/ Mount(t) \/ Close(t)
             \/ PetTick(t) \/ Render(t) \/ Feed(t) \/ Play(t)
             \/ \E image \in Look : SelectPet(t, image)
      PROVE  PetInv'
  BY <1>1, OpenOK, MountOK, CloseOK, PetTickOK, RenderOK, FeedOK, PlayOK, SelectPetOK
<1>2. CASE UNCHANGED petVars
  <2>1. PetTypeOK'
    BY <1>2 DEF PetInv, PetTypeOK, petVars
  <2>2. QueueOK' /\ SavedOK' /\ PagesOK' /\ SavedAcrossSessions'
    BY <1>2 DEF PetInv, QueueOK, SavedOK, PagesOK, SavedAcrossSessions, TotalExp, petVars
  <2> QED
    BY <2>1, <2>2 DEF PetInv
<1> QED
  BY <1>1, <1>2 DEF PetNext

LEMMA PetInvariance == PetSpec => []PetInv
<1>1. PetInit => PetInv
  BY PetInitOK
<1>2. PetInv /\ [PetNext]_petVars => PetInv'
  BY PetStepOK
<1> QED
  BY <1>1, <1>2, PTL DEF PetSpec

-----------------------------------------------------------------------------
(***************************************************************************)
(* Every need stays on its scale, whatever the amounts are: the guard of   *)
(* Play reads a pet that is never fresher than the one it changes, but     *)
(* what it misses are ticks, and ticks only add energy.                    *)
(***************************************************************************)
THEOREM NeedsStayInRange == PetSpec => []NeedsInRange
<1>1. PetInv => NeedsInRange
  BY TypedIsInRange DEF PetInv
<1> QED
  BY <1>1, PetInvariance, PTL

(***************************************************************************)
(* The saved pet never has more experience than was earned, and all of it, *)
(* with the look chosen last, as long as no two tabs were open at once.    *)
(***************************************************************************)
THEOREM PetsSurviveSessions == PetSpec => []SavedAcrossSessions
<1>1. PetInv => SavedAcrossSessions
  BY DEF PetInv
<1> QED
  BY <1>1, PetInvariance, PTL
=============================================================================
