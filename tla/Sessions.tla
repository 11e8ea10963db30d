------------------------------- MODULE Sessions -------------------------------
(***************************************************************************)
(* Login sessions of one user: the refresh tokens kept by                  *)
(* services/auth_service.py, and one browser whose tabs share the refresh  *)
(* cookie (api/client.ts, ProtectedRoute.tsx, Topbar.tsx).                 *)
(*                                                                         *)
(* refresh_access_token reads the presented token and later commits the    *)
(* rotation, without locking the row in between.  A tab has one refresh in *)
(* flight at a time; tabs know nothing of each other's.  A tab that is     *)
(* reloaded, or whose connection breaks, abandons its request, which the   *)
(* server carries on with; the answer is lost.                             *)
(***************************************************************************)
EXTENDS Integers, FiniteSets

CONSTANTS
  Tabs,
  Requests,      \* POST /auth/refresh requests being served
  Tokens,        \* refresh tokens the server may hand out
  Lifetime,      \* SESSION_MAX_DURATION_HOURS
  MaxTime,       \* bound: the clock stops here
  None

\* session is the token of the login that a token goes back to; it is not stored.
Row == [session : Tokens, expires : Lifetime .. MaxTime + Lifetime, revoked : BOOLEAN]

ASSUME SessionConstants ==
  /\ Lifetime \in Nat
  /\ MaxTime \in Nat
  /\ None \notin Tokens \cup Tabs \cup Row

VARIABLES
  now,
  active,    \* the user is active and not deleted
  tokens,    \* the rows of refresh_tokens, None for a token not handed out
  cookie,    \* the refresh cookie of the browser
  tab,       \* whether a tab shows the application or the login page
  flight,    \* the refresh requests in flight
  disturbed  \* history: an answer with a new token was disturbed, or the password was changed
             \* during a refresh

vars == <<now, active, tokens, cookie, tab, flight, disturbed>>

Idle == [stage |-> "idle"]

\* sent: the server has not looked at the token yet; checked: it found it valid;
\* denied, issued: the answer is on its way.  tab is None once nobody waits for it.
Flight == {Idle} \cup
  [stage : {"sent", "checked", "denied", "issued"}, token : Tokens \cup {None},
   tab : Tabs \cup {None}]

Issued(k) == tokens[k] # None
Live(k) == Issued(k) /\ ~tokens[k].revoked

\* Mutant of Valid: an old token is as good as a new one.
ValidThoughRevoked(k) == k # None /\ Issued(k) /\ tokens[k].expires >= now /\ active

\* What refresh_access_token accepts.
Valid(k) == k # None /\ Live(k) /\ tokens[k].expires >= now /\ active

TypeOK ==
  /\ now \in 0 .. MaxTime
  /\ active \in BOOLEAN
  /\ tokens \in [Tokens -> Row \cup {None}]
  /\ cookie \in Tokens \cup {None}
  /\ tab \in [Tabs -> {"in", "out"}]
  /\ flight \in [Requests -> Flight]
  /\ disturbed \in BOOLEAN

Init ==
  /\ now = 0
  /\ active = TRUE
  /\ tokens = [k \in Tokens |-> None]
  /\ cookie = None
  /\ tab = [t \in Tabs |-> "out"]
  /\ flight = [r \in Requests |-> Idle]
  /\ disturbed = FALSE

Tick ==
  /\ now < MaxTime
  /\ now' = now + 1
  /\ UNCHANGED <<active, tokens, cookie, tab, flight, disturbed>>

(***************************************************************************)
(* Login, logout, and what ends sessions from elsewhere                    *)
(***************************************************************************)
Waits(t) == \E r \in Requests : flight[r] # Idle /\ flight[r].tab = t

Login(t, k) ==
  /\ tab[t] = "out" /\ ~Waits(t)
  /\ active
  /\ ~Issued(k)
  /\ tokens' = [tokens EXCEPT ![k] =
       [session |-> k, expires |-> now + Lifetime, revoked |-> FALSE]]
  /\ cookie' = k
  /\ tab' = [tab EXCEPT ![t] = "in"]
  /\ UNCHANGED <<now, active, flight, disturbed>>

\* A tab opened or reloaded while the profile of a logged-in tab is in localStorage.
Open(t) ==
  /\ tab[t] = "out" /\ ~Waits(t)
  /\ \E u \in Tabs : tab[u] = "in"
  /\ tab' = [tab EXCEPT ![t] = "in"]
  /\ UNCHANGED <<now, active, tokens, cookie, flight, disturbed>>

\* The tab logs out locally in any case; if the request reaches the server, the
\* presented token is revoked and the cookie is cleared.
Logout(t, reached) ==
  /\ tab[t] = "in"
  /\ tab' = [tab EXCEPT ![t] = "out"]
  /\ IF reached
     THEN /\ tokens' = [k \in Tokens |-> IF k = cookie /\ Issued(k)
                                         THEN [tokens[k] EXCEPT !.revoked = TRUE]
                                         ELSE tokens[k]]
          /\ cookie' = None
     ELSE UNCHANGED <<tokens, cookie>>
  /\ UNCHANGED <<now, active, flight, disturbed>>

\* reset_password, change_own_password and admin_set_password revoke every token.
ChangePassword ==
  /\ tokens' = [k \in Tokens |-> IF Issued(k) THEN [tokens[k] EXCEPT !.revoked = TRUE]
                                 ELSE None]
  /\ disturbed' = (disturbed \/ \E r \in Requests : flight[r] # Idle)
  /\ UNCHANGED <<now, active, cookie, tab, flight>>

\* Deactivating, soft-deleting and restoring a user leave the tokens alone.
SetActive(flag) ==
  /\ active # flag
  /\ active' = flag
  /\ UNCHANGED <<now, tokens, cookie, tab, flight, disturbed>>

(***************************************************************************)
(* Refresh                                                                 *)
(***************************************************************************)
\* A 401, or a page load, makes the tab ask for a new access token.
SendRefresh(r, t) ==
  /\ flight[r] = Idle
  /\ tab[t] = "in" /\ ~Waits(t)
  /\ flight' = [flight EXCEPT ![r] = [stage |-> "sent", token |-> cookie, tab |-> t]]
  /\ UNCHANGED <<now, active, tokens, cookie, tab, disturbed>>

Check(r) ==
  /\ flight[r].stage = "sent"
  /\ flight' = [flight EXCEPT ![r].stage =
       IF Valid(flight[r].token) THEN "checked" ELSE "denied"]
  /\ UNCHANGED <<now, active, tokens, cookie, tab, disturbed>>

\* Mutant of Rotated: a lifetime is added to the deadline.
RotatedAndProlonged(old, k) ==
  [tokens EXCEPT ![old].revoked = TRUE,
                 ![k] = [session |-> tokens[old].session,
                         expires |-> tokens[old].expires + Lifetime, revoked |-> FALSE]]

\* Mutant of Rotated: the old token stays usable.
RotatedWithoutRevoking(old, k) ==
  [tokens EXCEPT ![k] = [session |-> tokens[old].session,
                         expires |-> tokens[old].expires, revoked |-> FALSE]]

\* "Rotate: revoke old, issue new - carry forward the original session deadline".
Rotated(old, k) ==
  [tokens EXCEPT ![old].revoked = TRUE,
                 ![k] = [session |-> tokens[old].session,
                         expires |-> tokens[old].expires, revoked |-> FALSE]]

\* The rotation commits; the old token is not looked at again.
Rotate(r, k) ==
  /\ flight[r].stage = "checked"
  /\ ~Issued(k)
  /\ tokens' = Rotated(flight[r].token, k)
  /\ flight' = [flight EXCEPT ![r].stage = "issued", ![r].token = k]
  /\ UNCHANGED <<now, active, cookie, tab, disturbed>>

\* The transaction fails and is rolled back.
Fail(r) ==
  /\ flight[r].stage \in {"sent", "checked"}
  /\ flight' = [flight EXCEPT ![r].stage = "denied"]
  /\ UNCHANGED <<now, active, tokens, cookie, tab, disturbed>>

\* Mutant of Answer: the answer is used for its access token only.
AnswerWithoutCookie(r) ==
  /\ flight[r].stage \in {"denied", "issued"}
  /\ tab' = [t \in Tabs |-> IF flight[r].stage = "denied" /\ t = flight[r].tab
                            THEN "out" ELSE tab[t]]
  /\ flight' = [flight EXCEPT ![r] = Idle]
  /\ UNCHANGED <<now, active, tokens, cookie, disturbed>>

\* The answer arrives: the browser keeps the new cookie, and a tab that is denied a
\* token goes to the login page.
Answer(r) ==
  LET f == flight[r] IN
  /\ f.stage \in {"denied", "issued"}
  /\ tab' = [t \in Tabs |-> IF f.stage = "denied" /\ t = f.tab THEN "out" ELSE tab[t]]
  /\ cookie' = IF f.stage = "issued" /\ f.tab # None THEN f.token ELSE cookie
  /\ disturbed' = (disturbed \/ (f.stage = "issued" /\ f.tab = None))
  /\ flight' = [flight EXCEPT ![r] = Idle]
  /\ UNCHANGED <<now, active, tokens>>

\* The page is reloaded (page = the state it was in) or the connection breaks ("out").
Abandon(r, page) ==
  /\ flight[r] # Idle /\ flight[r].tab # None
  /\ page \in {tab[flight[r].tab], "out"}
  /\ tab' = [tab EXCEPT ![flight[r].tab] = page]
  /\ flight' = [flight EXCEPT ![r].tab = None]
  /\ UNCHANGED <<now, active, tokens, cookie, disturbed>>

-----------------------------------------------------------------------------
Next ==
  \/ Tick
  \/ \E t \in Tabs, k \in Tokens : Login(t, k)
  \/ \E t \in Tabs : Open(t)
  \/ \E t \in Tabs, reached \in BOOLEAN : Logout(t, reached)
  \/ ChangePassword
  \/ \E flag \in BOOLEAN : SetActive(flag)
  \/ \E r \in Requests, t \in Tabs : SendRefresh(r, t)
  \/ \E r \in Requests : Check(r) \/ Fail(r) \/ Answer(r)
  \/ \E r \in Requests, k \in Tokens : Rotate(r, k)
  \/ \E r \in Requests, page \in {"in", "out"} : Abandon(r, page)

Spec == Init /\ [][Next]_vars

-----------------------------------------------------------------------------
(***************************************************************************)
(* Properties                                                              *)
(***************************************************************************)
SameSession(k, l) == Issued(k) /\ Issued(l) /\ tokens[k].session = tokens[l].session

\* "Preserve the absolute 12h session deadline, never extend": however often a session
\* is refreshed, and by whichever tabs, all its tokens end when the first one does.
DeadlineKept ==
  \A k, l \in Tokens : SameSession(k, l) => tokens[k].expires = tokens[l].expires

\* A refresh whose token was revoked after it had been checked commits now.
Overtaken ==
  \E r \in Requests :
    /\ flight[r].stage = "checked" /\ flight'[r].stage = "issued"
    /\ ~Live(flight[r].token)

\* Outside of a login, a token comes alive only in exchange for one of its session that
\* dies in the same step.  So a session never gets a second live token, and one that
\* was ended (logout, password change) never comes back, unless a refresh that had
\* checked its token before that commits after it.
LiveTokensAreHandedOver ==
  [][\A k \in Tokens : ~Live(k) /\ Live(k)' =>
       \/ tokens'[k].session = k
       \/ \E l \in Tokens : Live(l) /\ ~Live(l)' /\ SameSession(k, l)'
       \/ Overtaken]_vars

\* When nothing is in flight and no answer was ever disturbed, the browser is not left with
\* a dead token of a session that goes on without it, however its tabs' refreshes
\* overlapped and in whatever order their answers arrived.
BrowserHoldsSession ==
  /\ \A r \in Requests : flight[r] = Idle
  /\ ~disturbed
  /\ cookie # None
  /\ \E k \in Tokens : Live(k) /\ SameSession(k, cookie)
  => Live(cookie)

\* The tokens of a session, however they are exchanged, lost and revoked by overlapping
\* refreshes, amount to one session that keeps the promise of PromisedSessions.
AliveSessions == {tokens[k].session : k \in {l \in Tokens : Live(l)}}
DeadlinesOf(s) ==
  {tokens[k].expires : k \in {l \in Tokens : Issued(l) /\ tokens[l].session = s}}
GrantedSessions ==
  {tokens[flight[r].token].session : r \in {q \in Requests : flight[q].stage = "checked"}}

Promise == INSTANCE PromisedSessions WITH
  Logins    <- Tokens,
  alive     <- AliveSessions,
  deadlines <- [s \in Tokens |-> DeadlinesOf(s)],
  granted   <- GrantedSessions
SessionsAreContinued == Promise!Spec
=============================================================================
