--------------------------- MODULE BrowserSession ---------------------------
(***************************************************************************)
(* The session of a browser: AuthProvider.tsx in every open tab, the       *)
(* refresh token the tabs share in localStorage, and the authentication    *)
(* service behind them, of which only the contract Sessions is used.       *)
(*                                                                         *)
(* A token stands for the pair of one answer; tab.access is the token      *)
(* whose access token the tab holds.  The provider's refreshToken is set   *)
(* wherever accessToken is and read nowhere.                               *)
(* A page is one of two kinds: "login" stands for /login and /register,    *)
(* which the router shows to anybody, "pet" for /pet and /rewards, which   *)
(* are behind ProtectedRoute.                                              *)
(***************************************************************************)
EXTENDS Browser, Integers, Sequences

CONSTANTS
  User,        \* accounts its visitors use
  Form,        \* bound: forms whose answers are awaited at once
  MaxTokens,   \* bound: tokens the server issues
  Failed       \* a refusal, an error or no answer: all are an exception

ASSUME SessionAssumption ==
  /\ Nothing \notin Nat \cup User \cup Tab \cup {Failed}
  /\ Failed \notin Nat \cup User

VARIABLES
  status,      \* of the service, see Sessions
  tokens,      \* of the service
  saved,       \* localStorage "refreshToken"
  tab,         \* what a tab shows and holds
  restore,     \* the request that restoreSession awaits
  form,        \* the requests that login and register await
  received,    \* tokens that have reached a tab
  excuse       \* something happened that may cost the browser its session

server == <<status, tokens>>
sessionVars == <<status, tokens, saved, tab, restore, form, received, excuse>>

\* No token expires here: to a tab that is one refusal more.
Server == INSTANCE Sessions WITH clock <- 0, RefreshTTL <- 1

-----------------------------------------------------------------------------
NotAsked == [step |-> "none", about |-> Nothing, reply |-> Nothing]

Ask(step, about) == [step |-> step, about |-> about, reply |-> Nothing]

\* A form is awaited in a tab, on whatever page the tab is by now.
NoForm == [tab |-> Nothing, about |-> Nothing, reply |-> Nothing]

Awaited(f) == form[f].tab # Nothing

\* overlap: a login was answered while the session was being restored;
\* out: logged out, and no form answered since.
Closed == [page |-> "closed", loading |-> FALSE, user |-> Nothing, access |-> Nothing,
           overlap |-> FALSE, out |-> FALSE]

SessionInit ==
  /\ Server!Init
  /\ saved = Nothing
  /\ tab = [t \in Tab |-> Closed]
  /\ restore = [t \in Tab |-> NotAsked]
  /\ form = [f \in Form |-> NoForm]
  /\ received = {}
  /\ excuse = FALSE

-----------------------------------------------------------------------------
Asks(t, token) == restore[t].step = "refresh" /\ restore[t].about = token

\* ProtectedRoute sends a visitor without a user to the login page.
Route(view) ==
  IF view.page = "pet" /\ ~view.loading /\ view.user = Nothing
  THEN [view EXCEPT !.page = "login"] ELSE view

Show(t, view) == tab' = [tab EXCEPT ![t] = Route(view)]

\* A page load: restoreSession starts with the token it finds.
OpenTab(t, page) ==
  /\ tab[t].page = "closed"
  /\ Show(t, [Closed EXCEPT !.page = page, !.loading = saved # Nothing])
  /\ restore' = [restore EXCEPT ![t] = IF saved = Nothing THEN NotAsked ELSE Ask("refresh", saved)]
  \* two tabs send one token
  /\ excuse' = (excuse \/ \E other \in Tab : Asks(other, saved))
  /\ UNCHANGED <<server, saved, form, received>>

\* A link or a button of a page, or the browser's Back and Forward, which
\* run no code of the pages they leave: what the tab awaits it goes on awaiting.
Navigate(t, page) ==
  /\ tab[t].page \notin {"closed", page}
  /\ Show(t, [tab[t] EXCEPT !.page = page])
  /\ UNCHANGED <<server, saved, restore, form, received, excuse>>

\* Also a reload.  The tab's requests may still run, unheard.
CloseTab(t) ==
  /\ tab[t].page # "closed"
  /\ tab' = [tab EXCEPT ![t] = Closed]
  /\ restore' = [restore EXCEPT ![t] = NotAsked]
  /\ form' = [f \in Form |-> IF form[f].tab = t THEN NoForm ELSE form[f]]
  /\ excuse' = (excuse \/ restore[t].step # "none")
  /\ UNCHANGED <<server, saved, received>>

\* POST /auth/refresh: the answer is the pair that replaces the token.
ServerRefresh(t) ==
  LET old == restore[t].about IN
  /\ restore[t].step = "refresh" /\ restore[t].reply = Nothing
  /\ IF Server!Works(old) /\ status[tokens[old].user] = "active"
     THEN /\ Len(tokens) < MaxTokens
          /\ Server!Refresh(old, 1)
          /\ restore' = [restore EXCEPT ![t].reply = Len(tokens) + 1]
     ELSE restore' = [restore EXCEPT ![t].reply = Failed] /\ UNCHANGED server
  /\ UNCHANGED <<saved, tab, form, received, excuse>>

\* GET /auth/me with the access token of that pair.
ServerMe(t) ==
  LET user == tokens[restore[t].about].user IN
  /\ restore[t].step = "me" /\ restore[t].reply = Nothing
  /\ restore' = [restore EXCEPT ![t].reply = IF status[user] = "active" THEN user ELSE Failed]
  /\ UNCHANGED <<server, saved, tab, form, received, excuse>>

\* POST /auth/register or /auth/login, with the password of the account.
ServerSubmit(f) ==
  LET u == form[f].about IN
  /\ Awaited(f) /\ form[f].reply = Nothing
  /\ IF status[u] = "blocked"
     THEN form' = [form EXCEPT ![f].reply = Failed] /\ UNCHANGED server
     ELSE /\ Len(tokens) < MaxTokens
          /\ Server!Register(u, 1) \/ Server!Login(u, 1)
          /\ form' = [form EXCEPT ![f].reply = Len(tokens) + 1]
  /\ UNCHANGED <<saved, tab, restore, received, excuse>>

\* The network loses a request or its answer.
LoseRestore(t) ==
  /\ restore[t].step # "none" /\ restore[t].reply # Failed
  /\ restore' = [restore EXCEPT ![t].reply = Failed]
  /\ excuse' = TRUE
  /\ UNCHANGED <<server, saved, tab, form, received>>

LoseForm(f) ==
  /\ Awaited(f) /\ form[f].reply # Failed
  /\ form' = [form EXCEPT ![f].reply = Failed]
  /\ UNCHANGED <<server, saved, tab, restore, received, excuse>>

-----------------------------------------------------------------------------
\* Mutant: the new refresh token is only kept in the tab.
GotRefreshUnsaved(t) ==
  LET new == restore[t].reply IN
  /\ restore[t].step = "refresh" /\ new \notin {Nothing, Failed}
  /\ Show(t, [tab[t] EXCEPT !.access = new])
  /\ received' = received \cup {new}
  /\ restore' = [restore EXCEPT ![t] = Ask("me", new)]
  /\ UNCHANGED <<server, saved, form, excuse>>

\* restoreSession goes on after await apiRefresh.
GotRefresh(t) ==
  LET new == restore[t].reply IN
  /\ restore[t].step = "refresh" /\ new \notin {Nothing, Failed}
  /\ Show(t, [tab[t] EXCEPT !.access = new])
  /\ saved' = new
  /\ received' = received \cup {new}
  /\ restore' = [restore EXCEPT ![t] = Ask("me", new)]
  /\ UNCHANGED <<server, form, excuse>>

\* and after await apiMe.
GotUser(t) ==
  /\ restore[t].step = "me" /\ restore[t].reply \notin {Nothing, Failed}
  /\ Show(t, [tab[t] EXCEPT !.user = restore[t].reply, !.loading = FALSE])
  /\ restore' = [restore EXCEPT ![t] = NotAsked]
  /\ UNCHANGED <<server, saved, form, received, excuse>>

\* Mutant: the error handler forgets the access token.
RestoreFailedKeepsAccess(t) ==
  /\ restore[t].reply = Failed
  /\ saved' = Nothing
  /\ Show(t, [tab[t] EXCEPT !.user = Nothing, !.loading = FALSE])
  /\ restore' = [restore EXCEPT ![t] = NotAsked]
  /\ UNCHANGED <<server, form, received, excuse>>

\* Whatever failed, the token in localStorage is removed, whosever it is.
RestoreFailed(t) ==
  /\ restore[t].reply = Failed
  /\ saved' = Nothing
  /\ Show(t, [tab[t] EXCEPT !.user = Nothing, !.access = Nothing, !.loading = FALSE])
  /\ restore' = [restore EXCEPT ![t] = NotAsked]
  /\ UNCHANGED <<server, form, received, excuse>>

\* The submit button is disabled while this form's answer is awaited.  A form
\* that was left is another one: AuthForm is mounted anew on every page.
Submit(t, f, u) ==
  /\ tab[t].page = "login" /\ ~Awaited(f)
  /\ form' = [form EXCEPT ![f] = [tab |-> t, about |-> u, reply |-> Nothing]]
  /\ UNCHANGED <<server, saved, tab, restore, received, excuse>>

\* login or register of the provider goes on, then AuthForm navigates, whether
\* or not the tab still shows it.
GotForm(f) ==
  LET t == form[f].tab  new == form[f].reply IN
  /\ new \notin {Nothing, Failed}
  /\ tab' = [tab EXCEPT ![t] =
       [@ EXCEPT !.page = "pet", !.user = tokens[new].user, !.access = new,
                 !.overlap = restore[t].step # "none", !.out = FALSE]]
  /\ saved' = new
  /\ received' = received \cup {new}
  /\ form' = [form EXCEPT ![f] = NoForm]
  /\ UNCHANGED <<server, restore, excuse>>

FormFailed(f) ==
  /\ form[f].reply = Failed
  /\ form' = [form EXCEPT ![f] = NoForm]
  /\ UNCHANGED <<server, saved, tab, restore, received, excuse>>

LoggedOut(view) ==
  [view EXCEPT !.user = Nothing, !.access = Nothing, !.page = "login", !.out = TRUE]

\* Mutant: the page with the button is shown before the session is restored.
LogoutWhileLoading(t) ==
  /\ tab[t].page = "pet"
  /\ tab' = [tab EXCEPT ![t] = LoggedOut(@)]
  /\ saved' = Nothing
  /\ excuse' = TRUE
  /\ UNCHANGED <<server, restore, form, received>>

\* The button is on a page that ProtectedRoute shows; no request is sent.
Logout(t) ==
  /\ tab[t].page = "pet" /\ ~tab[t].loading
  /\ tab' = [tab EXCEPT ![t] = LoggedOut(@)]
  /\ saved' = Nothing
  /\ excuse' = TRUE
  /\ UNCHANGED <<server, restore, form, received>>

\* An account is blocked, for good.
Block(u) ==
  /\ status[u] = "active" /\ Server!ChangeStatus(u)
  /\ excuse' = TRUE
  /\ UNCHANGED <<saved, tab, restore, form, received>>

AnswerRestore(t) == ServerRefresh(t) \/ ServerMe(t) \/ LoseRestore(t)
HandleRestore(t) == GotRefresh(t) \/ GotUser(t) \/ RestoreFailed(t)

AnswerForm(f) == ServerSubmit(f) \/ LoseForm(f)
HandleForm(f) == GotForm(f) \/ FormFailed(f)

SessionNext ==
  \/ \E u \in User : Block(u)
  \/ \E t \in Tab :
       \/ \E page \in {"login", "pet"} : OpenTab(t, page) \/ Navigate(t, page)
       \/ \E f \in Form, u \in User : Submit(t, f, u)
       \/ CloseTab(t) \/ Logout(t)
       \/ AnswerRestore(t) \/ HandleRestore(t)
  \/ \E f \in Form : AnswerForm(f) \/ HandleForm(f)

SessionSpec == SessionInit /\ [][SessionNext]_sessionVars

-----------------------------------------------------------------------------
(***************************************************************************)
(* A browser that was once logged in keeps a token that works, or awaits   *)
(* the answer that replaces it, across any number of tabs, reloads and     *)
(* logins - unless its visitor logs out, the account is blocked, an answer *)
(* to restoreSession is lost or its tab closed before it, or two tabs      *)
(* restore at once.  Each of these does cost the session: the token was    *)
(* rotated already, or the handler removes what another tab has saved.     *)
(***************************************************************************)
SessionKept ==
  received # {} /\ ~excuse =>
    /\ saved # Nothing
    /\ tokens[saved].live \/ \E t \in Tab : Asks(t, saved)

(***************************************************************************)
(* A tab that shows its pages to a user acts with that user's tokens, and  *)
(* one that shows nobody holds no access token, unless a login was         *)
(* answered while the session was being restored: restoreSession then      *)
(* writes over it, and user and token may be of two accounts.              *)
(***************************************************************************)
AccountMatchesTokens ==
  \A t \in Tab :
    ~tab[t].loading /\ ~tab[t].overlap =>
      IF tab[t].user = Nothing THEN tab[t].access = Nothing
      ELSE tab[t].access # Nothing /\ tokens[tab[t].access].user = tab[t].user

(***************************************************************************)
(* Only the answer to a form ends being logged out: no restore that was    *)
(* running, no page load, no other tab's login and no way through the      *)
(* history brings the account back.  A form that was sent before the       *)
(* logout and is still awaited does, as nothing cancels it.                *)
(***************************************************************************)
LogoutIsFinal ==
  \A t \in Tab : tab[t].out => tab[t].user = Nothing /\ tab[t].access = Nothing
=============================================================================
