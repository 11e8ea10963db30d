---------------------------- MODULE SessionsProofs ----------------------------
(***************************************************************************)
(* Theorems of Sessions, for any number of tabs, overlapping refreshes and *)
(* tokens, any lifetime of a session and any clock.                        *)
(***************************************************************************)
EXTENDS Sessions, TLAPS

USE SessionConstants

(***************************************************************************)
(* Type correctness                                                        *)
(***************************************************************************)
LEMMA InitTypeOK == Init => TypeOK
<1> SUFFICES ASSUME Init PROVE TypeOK
  OBVIOUS
<1>1. flight \in [Requests -> Flight]
  BY DEF Init, Flight
<1>2. tokens \in [Tokens -> Row \cup {None}] /\ tab \in [Tabs -> {"in", "out"}]
  BY DEF Init
<1>3. now \in 0 .. MaxTime
  BY DEF Init
<1>4. active \in BOOLEAN /\ disturbed \in BOOLEAN
  BY DEF Init
<1>5. QED
  BY <1>1, <1>2, <1>3, <1>4 DEF Init, TypeOK

LEMMA LoginTypeOK ==
  ASSUME TypeOK, NEW t \in Tabs, NEW k \in Tokens, Login(t, k)
  PROVE  TypeOK'
<1>1. [session |-> k, expires |-> now + Lifetime, revoked |-> FALSE] \in Row
  BY DEF TypeOK, Row
<1>2. QED
  BY <1>1 DEF Login, TypeOK

LEMMA RevokedIsRow ==
  ASSUME NEW row \in Row
  PROVE  [row EXCEPT !.revoked = TRUE] \in Row
  BY DEF Row

LEMMA EndingTypeOK ==
  ASSUME TypeOK,
         ChangePassword \/ \E t \in Tabs, reached \in BOOLEAN : Logout(t, reached)
  PROVE  TypeOK'
<1>1. \A k \in Tokens : Issued(k) => [tokens[k] EXCEPT !.revoked = TRUE] \in Row
  BY RevokedIsRow DEF Issued, TypeOK
<1>2. CASE ChangePassword
  BY <1>1, <1>2 DEF ChangePassword, TypeOK
<1>3. CASE \E t \in Tabs, reached \in BOOLEAN : Logout(t, reached)
  <2>1. PICK t \in Tabs, reached \in BOOLEAN : Logout(t, reached)
    BY <1>3
  <2>2. tokens' \in [Tokens -> Row \cup {None}] /\ cookie' \in Tokens \cup {None}
    BY <1>1, <2>1 DEF Logout, TypeOK
  <2>3. QED
    BY <2>1, <2>2 DEF Logout, TypeOK
<1>4. QED
  BY <1>2, <1>3

\* A refresh request in flight, and what may become of it.
LEMMA FlightFields ==
  ASSUME TypeOK, NEW r \in Requests, flight[r].stage # "idle"
  PROVE  /\ flight[r] \in [stage : {"sent", "checked", "denied", "issued"},
                           token : Tokens \cup {None}, tab : Tabs \cup {None}]
         /\ \A stage \in {"sent", "checked", "denied", "issued"} :
              [flight[r] EXCEPT !.stage = stage] \in Flight
         /\ \A k \in Tokens :
              [flight[r] EXCEPT !.stage = "issued", !.token = k] \in Flight
         /\ [flight[r] EXCEPT !.tab = None] \in Flight
<1>1. flight[r] \in Flight /\ flight[r] # Idle
  BY DEF TypeOK, Idle
<1>2. flight[r] \in [stage : {"sent", "checked", "denied", "issued"},
                    token : Tokens \cup {None}, tab : Tabs \cup {None}]
  BY <1>1 DEF Flight
<1>3. QED
  BY <1>2 DEF Flight

LEMMA FlightTypeOK ==
  ASSUME TypeOK, NEW r \in Requests,
         \/ \E t \in Tabs : SendRefresh(r, t)
         \/ Check(r) \/ Fail(r) \/ Answer(r)
         \/ \E page \in {"in", "out"} : Abandon(r, page)
  PROVE  TypeOK'
<1>1. CASE \E t \in Tabs : SendRefresh(r, t)
  BY <1>1 DEF SendRefresh, TypeOK, Flight
<1>2. CASE Check(r) \/ Fail(r)
  <2>1. flight' \in [Requests -> Flight]
    BY <1>2, FlightFields DEF Check, Fail, TypeOK
  <2>2. QED
    BY <1>2, <2>1 DEF Check, Fail, TypeOK
<1>3. CASE Answer(r)
  <2>1. flight[r].token \in Tokens \cup {None}
    BY <1>3, FlightFields DEF Answer
  <2>2. cookie' \in Tokens \cup {None} /\ tab' \in [Tabs -> {"in", "out"}]
    BY <1>3, <2>1 DEF Answer, TypeOK
  <2>3. disturbed' \in BOOLEAN /\ flight' \in [Requests -> Flight]
    BY <1>3 DEF Answer, TypeOK, Flight
  <2>4. QED
    BY <1>3, <2>2, <2>3 DEF Answer, TypeOK
<1>4. CASE \E page \in {"in", "out"} : Abandon(r, page)
  <2>1. PICK page \in {"in", "out"} : Abandon(r, page)
    BY <1>4
  <2>2. flight[r].stage # "idle" /\ flight[r].tab \in Tabs
    BY <2>1 DEF Abandon, TypeOK, Flight, Idle
  <2>3. flight' \in [Requests -> Flight]
    BY <2>1, <2>2, FlightFields DEF Abandon, TypeOK
  <2>4. QED
    BY <2>1, <2>2, <2>3 DEF Abandon, TypeOK
<1>5. QED
  BY <1>1, <1>2, <1>3, <1>4

(***************************************************************************)
(* The inductive invariant                                                 *)
(***************************************************************************)
\* Tokens of one session end together; a session is named after a token that was handed
\* out; a request that found its token valid presents one that was handed out.
SessionsNamed == \A k \in Tokens : Issued(k) => Issued(tokens[k].session)

CheckedTokensIssued ==
  \A r \in Requests :
    flight[r].stage = "checked" => flight[r].token \in Tokens /\ Issued(flight[r].token)

IInv == TypeOK /\ SessionsNamed /\ CheckedTokensIssued /\ DeadlineKept

LEMMA InitIInv == Init => IInv
  BY InitTypeOK
  DEF Init, IInv, SessionsNamed, CheckedTokensIssued, DeadlineKept, SameSession, Issued, Idle

\* Steps that hand out no token.
LEMMA QuietStep ==
  ASSUME IInv, TypeOK',
         \A k \in Tokens :
           /\ Issued(k)' <=> Issued(k)
           /\ Issued(k) => /\ tokens'[k].session = tokens[k].session
                           /\ tokens'[k].expires = tokens[k].expires,
         \A r \in Requests :
           flight'[r].stage = "checked" =>
             flight'[r].token \in Tokens /\ Issued(flight'[r].token)
  PROVE  IInv'
<1>1. SessionsNamed'
  <2> SUFFICES ASSUME NEW k \in Tokens, Issued(k)' PROVE Issued(tokens[k].session)'
    BY DEF SessionsNamed
  <2>1. Issued(k) /\ tokens[k] \in Row
    BY DEF IInv, TypeOK, Issued
  <2>2. tokens[k].session \in Tokens /\ Issued(tokens[k].session)
    BY <2>1 DEF IInv, SessionsNamed, Row
  <2>3. QED
    BY <2>1, <2>2 DEF Issued
<1>2. CheckedTokensIssued'
  BY DEF CheckedTokensIssued, Issued
<1>3. DeadlineKept'
  BY DEF IInv, DeadlineKept, SameSession
<1>4. QED
  BY <1>1, <1>2, <1>3 DEF IInv

LEMMA LoginStep ==
  ASSUME IInv, NEW t \in Tabs, NEW k \in Tokens, Login(t, k)
  PROVE  IInv'
<1>1. TypeOK'
  BY LoginTypeOK DEF IInv
<1>2. /\ tokens'[k] = [session |-> k, expires |-> now + Lifetime, revoked |-> FALSE]
      /\ \A l \in Tokens \ {k} : tokens'[l] = tokens[l]
      /\ ~Issued(k) /\ flight' = flight
  BY DEF IInv, TypeOK, Login
<1>8. Issued(k)'
  <2>1. [session |-> k, expires |-> now + Lifetime, revoked |-> FALSE] \in Row
    BY DEF IInv, TypeOK, Row
  <2>2. QED
    BY <1>2, <2>1 DEF Issued
<1>3. \A l \in Tokens : Issued(l) => tokens[l].session # k /\ tokens[l].session \in Tokens
  BY <1>2 DEF IInv, SessionsNamed, TypeOK, Issued, Row
<1>4. SessionsNamed'
  BY <1>2, <1>3, <1>8 DEF IInv, SessionsNamed, Issued
<1>5. CheckedTokensIssued'
  BY <1>2 DEF IInv, CheckedTokensIssued, Issued
<1>6. DeadlineKept'
  BY <1>2, <1>3 DEF IInv, DeadlineKept, SameSession, Issued
<1>7. QED
  BY <1>1, <1>4, <1>5, <1>6 DEF IInv

\* A refresh hands out k in exchange for the token it presented.
LEMMA Exchange ==
  ASSUME TypeOK, CheckedTokensIssued, NEW r \in Requests, NEW k \in Tokens, Rotate(r, k),
         NEW old, old = flight[r].token
  PROVE  /\ old \in Tokens /\ Issued(old) /\ ~Issued(k)
         /\ tokens[old] \in Row /\ tokens'[old] \in Row /\ tokens'[k] \in Row
         /\ tokens'[old] = [tokens[old] EXCEPT !.revoked = TRUE]
         /\ tokens'[k] = [session |-> tokens[old].session,
                          expires |-> tokens[old].expires, revoked |-> FALSE]
         /\ \A l \in Tokens \ {k, old} : tokens'[l] = tokens[l]
         /\ flight'[r].stage = "issued"
         /\ \A q \in Requests \ {r} : flight'[q] = flight[q]
         /\ TypeOK'
<1>1. old \in Tokens /\ Issued(old) /\ ~Issued(k)
  BY DEF CheckedTokensIssued, Rotate
<1>2. tokens[old] \in Row /\ old # k
  BY <1>1 DEF TypeOK, Issued
<1>3. [tokens[old] EXCEPT !.revoked = TRUE] \in Row
  BY <1>2, RevokedIsRow
<1>4. [session |-> tokens[old].session, expires |-> tokens[old].expires,
       revoked |-> FALSE] \in Row
  BY <1>2 DEF Row
<1>5. /\ tokens'[old] = [tokens[old] EXCEPT !.revoked = TRUE]
      /\ tokens'[k] = [session |-> tokens[old].session,
                       expires |-> tokens[old].expires, revoked |-> FALSE]
      /\ \A l \in Tokens \ {k, old} : tokens'[l] = tokens[l]
  BY <1>1, <1>2 DEF Rotate, Rotated, TypeOK
<1>6. tokens' \in [Tokens -> Row \cup {None}]
  BY <1>1, <1>2, <1>3, <1>4 DEF Rotate, Rotated, TypeOK
<1>7. /\ flight' = [flight EXCEPT ![r] = [flight[r] EXCEPT !.stage = "issued", !.token = k]]
      /\ [flight[r] EXCEPT !.stage = "issued", !.token = k] \in Flight
  BY FlightFields DEF Rotate, TypeOK
<1>8. flight' \in [Requests -> Flight]
  BY <1>7 DEF TypeOK
<1>9. flight'[r].stage = "issued" /\ \A q \in Requests \ {r} : flight'[q] = flight[q]
  <2>1. flight[r] \in [stage : {"sent", "checked", "denied", "issued"},
                      token : Tokens \cup {None}, tab : Tabs \cup {None}]
    BY FlightFields DEF Rotate
  <2>2. QED
    BY <1>7, <2>1 DEF TypeOK
<1>10. TypeOK'
  BY <1>6, <1>8 DEF Rotate, TypeOK
<1>11. QED
  BY <1>1, <1>2, <1>3, <1>4, <1>5, <1>9, <1>10

LEMMA RotateStep ==
  ASSUME IInv, NEW r \in Requests, NEW k \in Tokens, Rotate(r, k)
  PROVE  IInv'
<1>1. PICK old : old = flight[r].token
  OBVIOUS
<1>2. /\ old \in Tokens /\ Issued(old) /\ ~Issued(k)
      /\ tokens[old] \in Row /\ tokens'[old] \in Row /\ tokens'[k] \in Row
      /\ tokens'[old] = [tokens[old] EXCEPT !.revoked = TRUE]
      /\ tokens'[k] = [session |-> tokens[old].session,
                       expires |-> tokens[old].expires, revoked |-> FALSE]
      /\ \A l \in Tokens \ {k, old} : tokens'[l] = tokens[l]
      /\ flight'[r].stage = "issued"
      /\ \A q \in Requests \ {r} : flight'[q] = flight[q]
      /\ TypeOK'
  BY <1>1, Exchange DEF IInv
<1>3. /\ tokens'[k].session = tokens[old].session
      /\ tokens'[k].expires = tokens[old].expires
      /\ tokens'[old].session = tokens[old].session
      /\ tokens'[old].expires = tokens[old].expires
  BY <1>2 DEF Row
<1>4. Issued(k)' /\ Issued(old)' /\ \A l \in Tokens \ {k, old} : Issued(l)' <=> Issued(l)
  <2>1. tokens'[old] # None /\ tokens'[k] # None
    BY <1>2
  <2>2. QED
    BY <1>2, <2>1 DEF Issued
<1>5. ASSUME NEW l \in Tokens, Issued(l)'
      PROVE  \E o \in Tokens : /\ Issued(o)
                               /\ tokens'[l].session = tokens[o].session
                               /\ tokens'[l].expires = tokens[o].expires
  <2>1. CASE l = k \/ l = old
    BY <1>2, <1>3, <2>1
  <2>2. CASE l \notin {k, old}
    BY <1>2, <1>4, <1>5, <2>2
  <2>3. QED
    BY <2>1, <2>2
<1>6. SessionsNamed'
  <2> SUFFICES ASSUME NEW l \in Tokens, Issued(l)' PROVE Issued(tokens[l].session)'
    BY DEF SessionsNamed
  <2>1. PICK o \in Tokens : Issued(o) /\ tokens'[l].session = tokens[o].session
    BY <1>5
  <2>2. tokens[o].session \in Tokens /\ Issued(tokens[o].session)
    BY <2>1 DEF IInv, SessionsNamed, TypeOK, Issued, Row
  <2>3. \A m \in Tokens : Issued(m) => tokens'[m] # None
    BY <1>2, <1>4 DEF Issued
  <2>4. QED
    BY <2>1, <2>2, <2>3 DEF Issued
<1>7. CheckedTokensIssued'
  <2> SUFFICES ASSUME NEW q \in Requests, flight'[q].stage = "checked"
               PROVE  flight'[q].token \in Tokens /\ tokens'[flight'[q].token] # None
    BY DEF CheckedTokensIssued, Issued
  <2>1. flight'[q] = flight[q]
    BY <1>2
  <2>2. flight[q].token \in Tokens /\ Issued(flight[q].token)
    BY <2>1 DEF IInv, CheckedTokensIssued
  <2>3. \A m \in Tokens : Issued(m) => tokens'[m] # None
    BY <1>2, <1>4 DEF Issued
  <2>4. QED
    BY <2>1, <2>2, <2>3
<1>8. DeadlineKept'
  <2> SUFFICES ASSUME NEW l \in Tokens, NEW m \in Tokens, Issued(l)', Issued(m)',
                      tokens'[l].session = tokens'[m].session
               PROVE  tokens'[l].expires = tokens'[m].expires
    BY DEF DeadlineKept, SameSession
  <2>1. PICK o \in Tokens : /\ Issued(o)
                            /\ tokens'[l].session = tokens[o].session
                            /\ tokens'[l].expires = tokens[o].expires
    BY <1>5
  <2>2. PICK p \in Tokens : /\ Issued(p)
                            /\ tokens'[m].session = tokens[p].session
                            /\ tokens'[m].expires = tokens[p].expires
    BY <1>5
  <2>3. QED
    BY <2>1, <2>2 DEF IInv, DeadlineKept, SameSession
<1>9. QED
  BY <1>2, <1>6, <1>7, <1>8 DEF IInv

LEMMA NextIInv == IInv /\ [Next]_vars => IInv'
<1> SUFFICES ASSUME IInv, [Next]_vars PROVE IInv'
  OBVIOUS
<1>1. TypeOK /\ CheckedTokensIssued
  BY DEF IInv
<1>2. CASE \E t \in Tabs, k \in Tokens : Login(t, k)
  BY <1>2, LoginStep
<1>3. CASE \E r \in Requests, k \in Tokens : Rotate(r, k)
  BY <1>3, RotateStep
<1>4. CASE \/ UNCHANGED vars \/ Tick \/ (\E t \in Tabs : Open(t))
           \/ \E flag \in BOOLEAN : SetActive(flag)
  <2>1. TypeOK'
    BY <1>1, <1>4 DEF TypeOK, vars, Tick, Open, SetActive
  <2>2. UNCHANGED <<tokens, flight>>
    BY <1>4 DEF vars, Tick, Open, SetActive
  <2>3. QED
    BY <1>1, <2>1, <2>2, QuietStep DEF CheckedTokensIssued, Issued
<1>5. CASE \/ ChangePassword
           \/ \E t \in Tabs, reached \in BOOLEAN : Logout(t, reached)
  <2>1. TypeOK'
    BY <1>1, <1>5, EndingTypeOK
  <2>2. flight' = flight
    BY <1>5 DEF ChangePassword, Logout
  <2>3. \A k \in Tokens :
          \/ tokens'[k] = tokens[k]
          \/ Issued(k) /\ tokens'[k] = [tokens[k] EXCEPT !.revoked = TRUE]
    BY <1>1, <1>5 DEF ChangePassword, Logout, TypeOK, Issued
  <2>4. \A k \in Tokens :
          /\ Issued(k)' <=> Issued(k)
          /\ Issued(k) => /\ tokens'[k].session = tokens[k].session
                          /\ tokens'[k].expires = tokens[k].expires
    <3> TAKE k \in Tokens
    <3>1. CASE tokens'[k] = tokens[k]
      BY <3>1 DEF Issued
    <3>2. CASE Issued(k) /\ tokens'[k] = [tokens[k] EXCEPT !.revoked = TRUE]
      <4>1. tokens[k] \in Row
        BY <1>1, <3>2 DEF TypeOK, Issued
      <4>2. tokens'[k] \in Row
        BY <3>2, <4>1, RevokedIsRow
      <4>3. QED
        BY <3>2, <4>1, <4>2 DEF Issued, Row
    <3>3. QED
      BY <2>3, <3>1, <3>2
  <2>5. QED
    BY <1>1, <2>1, <2>2, <2>4, QuietStep DEF CheckedTokensIssued, Issued
<1>6. ASSUME NEW r \in Requests,
             \/ \E t \in Tabs : SendRefresh(r, t)
             \/ Check(r) \/ Fail(r) \/ Answer(r)
             \/ \E page \in {"in", "out"} : Abandon(r, page)
      PROVE  IInv'
  <2>1. TypeOK' /\ tokens' = tokens
    BY <1>1, <1>6, FlightTypeOK DEF SendRefresh, Check, Fail, Answer, Abandon
  <2>2. \A q \in Requests \ {r} : flight'[q] = flight[q]
    BY <1>1, <1>6 DEF SendRefresh, Check, Fail, Answer, Abandon, TypeOK
  <2>3. flight'[r].stage = "checked" =>
          \/ Check(r) /\ Valid(flight[r].token) /\ flight'[r].token = flight[r].token
          \/ flight[r].stage = "checked" /\ flight'[r].token = flight[r].token
    <3>1. CASE \E t \in Tabs : SendRefresh(r, t)
      BY <1>1, <3>1 DEF SendRefresh, TypeOK
    <3>2. CASE Check(r)
      <4>1. flight[r].stage # "idle"
        BY <3>2 DEF Check
      <4>2. flight[r] \in [stage : {"sent", "checked", "denied", "issued"},
                          token : Tokens \cup {None}, tab : Tabs \cup {None}]
        BY <1>1, <4>1, FlightFields
      <4>3. flight'[r] = [flight[r] EXCEPT !.stage =
                           IF Valid(flight[r].token) THEN "checked" ELSE "denied"]
        BY <1>1, <3>2 DEF Check, TypeOK
      <4>4. QED
        BY <3>2, <4>2, <4>3
    <3>3. CASE Fail(r) \/ Answer(r)
      <4>1. flight'[r] \in {Idle, [flight[r] EXCEPT !.stage = "denied"]}
        BY <1>1, <3>3 DEF Fail, Answer, TypeOK
      <4>2. flight[r].stage # "idle"
        BY <3>3 DEF Fail, Answer
      <4>3. flight[r] \in [stage : {"sent", "checked", "denied", "issued"},
                          token : Tokens \cup {None}, tab : Tabs \cup {None}]
        BY <1>1, <4>2, FlightFields
      <4>4. QED
        BY <4>1, <4>3 DEF Idle
    <3>4. CASE \E page \in {"in", "out"} : Abandon(r, page)
      <4>1. flight[r].stage # "idle"
        BY <1>1, <3>4 DEF Abandon, TypeOK, Flight, Idle
      <4>2. flight[r] \in [stage : {"sent", "checked", "denied", "issued"},
                          token : Tokens \cup {None}, tab : Tabs \cup {None}]
        BY <1>1, <4>1, FlightFields
      <4>3. flight'[r] = [flight[r] EXCEPT !.tab = None]
        BY <1>1, <3>4 DEF Abandon, TypeOK
      <4>4. QED
        BY <4>2, <4>3
    <3>5. QED
      BY <1>6, <3>1, <3>2, <3>3, <3>4
  <2>4. Check(r) /\ Valid(flight[r].token) =>
          flight[r].token \in Tokens /\ Issued(flight[r].token)
    <3> HAVE Check(r) /\ Valid(flight[r].token)
    <3>1. flight[r].token \in Tokens \cup {None}
      BY <1>1, FlightFields DEF Check
    <3>2. QED
      BY <3>1 DEF Valid, Live
  <2>5. \A q \in Requests :
          flight'[q].stage = "checked" =>
            flight'[q].token \in Tokens /\ Issued(flight'[q].token)
    BY <1>1, <2>2, <2>3, <2>4 DEF CheckedTokensIssued, Issued
  <2>6. QED
    BY <2>1, <2>5, QuietStep DEF Issued
<1>7. QED
  BY <1>2, <1>3, <1>4, <1>5, <1>6 DEF Next

\* Every variable always has its type, whatever the constants are.
THEOREM TypeCorrect == Spec => []TypeOK
<1>1. IInv => TypeOK
  BY DEF IInv
<1>2. QED
  BY <1>1, InitIInv, NextIInv, PTL DEF Spec

\* No sequence of refreshes, overlapping or not, moves the deadline of a session.
THEOREM DeadlineKeptHolds == Spec => []DeadlineKept
<1>1. IInv => DeadlineKept
  BY DEF IInv
<1>2. QED
  BY <1>1, InitIInv, NextIInv, PTL DEF Spec

(***************************************************************************)
(* Live tokens are handed over                                             *)
(***************************************************************************)
HandedOver ==
  \A k \in Tokens : ~Live(k) /\ Live(k)' =>
    \/ tokens'[k].session = k
    \/ \E l \in Tokens : Live(l) /\ ~Live(l)' /\ SameSession(k, l)'
    \/ Overtaken

LEMMA StepHandsOver == IInv /\ [Next]_vars => HandedOver
<1> SUFFICES ASSUME IInv, [Next]_vars, NEW k \in Tokens, ~Live(k), Live(k)'
             PROVE  \/ tokens'[k].session = k
                    \/ \E l \in Tokens : Live(l) /\ ~Live(l)' /\ SameSession(k, l)'
                    \/ Overtaken
  BY DEF HandedOver
<1>1. TypeOK /\ CheckedTokensIssued
  BY DEF IInv
<1>2. tokens'[k] # tokens[k]
  BY DEF Live, Issued
<1>3. CASE \E t \in Tabs, l \in Tokens : Login(t, l)
  BY <1>1, <1>2, <1>3 DEF Login, TypeOK
<1>4. ASSUME NEW r \in Requests, NEW n \in Tokens, Rotate(r, n)
      PROVE  \/ \E l \in Tokens : Live(l) /\ ~Live(l)' /\ SameSession(k, l)'
             \/ Overtaken
  <2>1. PICK old : old = flight[r].token
    OBVIOUS
  <2>2. /\ old \in Tokens /\ Issued(old) /\ ~Issued(n)
        /\ tokens[old] \in Row /\ tokens'[old] \in Row /\ tokens'[n] \in Row
        /\ tokens'[old] = [tokens[old] EXCEPT !.revoked = TRUE]
        /\ tokens'[n] = [session |-> tokens[old].session,
                         expires |-> tokens[old].expires, revoked |-> FALSE]
        /\ \A l \in Tokens \ {n, old} : tokens'[l] = tokens[l]
        /\ flight'[r].stage = "issued"
    BY <1>1, <1>4, <2>1, Exchange
  <2>3. /\ tokens'[old].revoked /\ tokens'[old].session = tokens[old].session
        /\ tokens'[n].session = tokens[old].session
    BY <2>2 DEF Row
  <2>4. k = n
    BY <1>2, <2>2, <2>3 DEF Live
  <2>5. CASE Live(old)
    <3>1. ~Live(old)'
      BY <2>3 DEF Live
    <3>2. tokens'[old] # None /\ tokens'[k] # None
      BY <2>2, <2>4
    <3>3. SameSession(k, old)'
      BY <2>3, <2>4, <3>2 DEF SameSession, Issued
    <3>4. QED
      BY <2>2, <2>5, <3>1, <3>3
  <2>6. CASE ~Live(old)
    BY <1>4, <2>1, <2>2, <2>6 DEF Overtaken, Rotate
  <2>7. QED
    BY <2>5, <2>6
<1>5. CASE \/ ChangePassword
           \/ \E t \in Tabs, reached \in BOOLEAN : Logout(t, reached)
  <2>1. Issued(k) /\ tokens'[k] = [tokens[k] EXCEPT !.revoked = TRUE]
    BY <1>1, <1>2, <1>5 DEF ChangePassword, Logout, TypeOK, Issued
  <2>2. tokens[k] \in Row
    BY <1>1, <2>1 DEF TypeOK, Issued
  <2>3. QED
    BY <2>1, <2>2 DEF Live, Row
<1>6. CASE tokens' = tokens
  BY <1>2, <1>6
<1>7. QED
  BY <1>3, <1>4, <1>5, <1>6
  DEF Next, vars, Tick, Open, SetActive, SendRefresh, Check, Fail, Answer, Abandon

\* A session never gets a second live token, and an ended one never comes back, except
\* by a refresh that was overtaken between its check and its commit.
THEOREM LiveTokensAreHandedOverHolds == Spec => LiveTokensAreHandedOver
<1>1. IInv /\ [Next]_vars => [HandedOver]_vars
  BY StepHandsOver
<1>2. QED
  BY <1>1, InitIInv, NextIInv, PTL DEF Spec, LiveTokensAreHandedOver, HandedOver

(***************************************************************************)
(* The refinement of PromisedSessions                                      *)
(***************************************************************************)
\* A step after which every token that was handed out belongs to the session it belonged
\* to, and ends when it was to end, and no other has been handed out.
SameRows ==
  \A k \in Tokens :
    /\ Issued(k)' <=> Issued(k)
    /\ Issued(k) => /\ tokens'[k].session = tokens[k].session
                    /\ tokens'[k].expires = tokens[k].expires

LEMMA SameDeadlines ==
  ASSUME SameRows
  PROVE  [s \in Tokens |-> DeadlinesOf(s)]' = [s \in Tokens |-> DeadlinesOf(s)]
<1>1. \A s : DeadlinesOf(s)' = DeadlinesOf(s)
  BY DEF SameRows, DeadlinesOf
<1>2. QED
  BY <1>1

\* A refresh that is not granted any more takes at most its own session along.
LEMMA OneRefreshLess ==
  ASSUME CheckedTokensIssued, NEW r \in Requests, flight'[r].stage # "checked",
         \A q \in Requests \ {r} : flight'[q] = flight[q],
         \A k \in Tokens : Issued(k) => tokens'[k].session = tokens[k].session
  PROVE  IF flight[r].stage = "checked"
         THEN GrantedSessions' \in {GrantedSessions,
                                    GrantedSessions \ {tokens[flight[r].token].session}}
         ELSE GrantedSessions' = GrantedSessions
<1> DEFINE Of(q) == tokens[flight[q].token].session
           Checked == {q \in Requests : flight[q].stage = "checked"}
<1>1. \A q \in Checked \ {r} : tokens'[flight'[q].token].session = Of(q)
  BY DEF CheckedTokensIssued
<1>2. {q \in Requests : flight'[q].stage = "checked"} = Checked \ {r}
  OBVIOUS
<1>3. GrantedSessions' = {Of(q) : q \in Checked \ {r}}
  BY <1>1, <1>2 DEF GrantedSessions
<1>4. GrantedSessions = {Of(q) : q \in Checked}
  BY DEF GrantedSessions
<1>5. QED
  BY <1>3, <1>4

\* Only a valid token is granted a refresh, while its session is alive.
LEMMA CheckIsGrant ==
  ASSUME IInv, NEW r \in Requests, Check(r), Valid(flight[r].token)
  PROVE  \E s \in Tokens : Promise!Grant(s)
<1>1. PICK k : k = flight[r].token
  OBVIOUS
<1>2. /\ k \in Tokens /\ Live(k) /\ tokens[k].expires >= now /\ active
      /\ tokens[k] \in Row
  <2>1. k \in Tokens \cup {None}
    BY <1>1, FlightFields DEF Check, IInv
  <2>2. k \in Tokens /\ Live(k) /\ tokens[k].expires >= now /\ active
    BY <1>1, <2>1 DEF Valid
  <2>3. QED
    BY <2>2 DEF Live, Issued, IInv, TypeOK
<1>3. PICK s : s = tokens[k].session
  OBVIOUS
<1>4. s \in Tokens /\ s \in AliveSessions
  BY <1>2, <1>3 DEF Row, AliveSessions
<1>5. \A d \in DeadlinesOf(s) : now <= d
  BY <1>2, <1>3 DEF IInv, DeadlineKept, SameSession, Live, DeadlinesOf
<1>6. GrantedSessions' = GrantedSessions \cup {s}
  <2>1. /\ \A q \in Requests \ {r} : flight'[q] = flight[q]
        /\ flight[r].stage = "sent" /\ UNCHANGED tokens
    BY DEF Check, IInv, TypeOK
  <2>2. flight'[r].stage = "checked" /\ flight'[r].token = k
    BY <1>1, FlightFields DEF Check, IInv, TypeOK
  <2>3. QED
    BY <1>3, <2>1, <2>2 DEF GrantedSessions
<1>7. UNCHANGED <<now, active, tokens>>
  BY DEF Check
<1>8. UNCHANGED <<AliveSessions, [t \in Tokens |-> DeadlinesOf(t)]>>
  BY <1>7 DEF AliveSessions, DeadlinesOf, Live, Issued
<1>9. QED
  BY <1>2, <1>4, <1>5, <1>6, <1>7, <1>8 DEF Promise!Grant

\* Nothing else that happens to a request of the browser is more than a failure.
LEMMA RefreshIsPromised ==
  ASSUME IInv, NEW r \in Requests,
         \/ \E t \in Tabs : SendRefresh(r, t)
         \/ Check(r) \/ Fail(r) \/ Answer(r)
         \/ \E page \in {"in", "out"} : Abandon(r, page)
  PROVE  [Promise!Next]_(Promise!promisedVars)
<1>1. UNCHANGED <<now, active, tokens>>
  BY DEF SendRefresh, Check, Fail, Answer, Abandon
<1>2. UNCHANGED <<AliveSessions, [t \in Tokens |-> DeadlinesOf(t)]>>
  BY <1>1 DEF AliveSessions, DeadlinesOf, Live, Issued
<1>3. \A q \in Requests \ {r} : flight'[q] = flight[q]
  BY DEF SendRefresh, Check, Fail, Answer, Abandon, IInv, TypeOK
<1>4. CASE Check(r) /\ Valid(flight[r].token)
  BY <1>4, CheckIsGrant DEF Promise!Next
<1>5. CASE flight'[r].stage # "checked"
  <2>1. PICK s : s = tokens[flight[r].token].session
    OBVIOUS
  <2>2. CASE flight[r].stage = "checked"
    <3>1. s \in Tokens
      BY <2>1, <2>2 DEF IInv, CheckedTokensIssued, TypeOK, Issued, Row
    <3>2. GrantedSessions' \in {GrantedSessions, GrantedSessions \ {s}}
      BY <1>1, <1>3, <1>5, <2>1, <2>2, OneRefreshLess DEF IInv
    <3>3. QED
      BY <1>1, <1>2, <3>1, <3>2 DEF Promise!Drop, Promise!Next, Promise!promisedVars
  <2>3. CASE flight[r].stage # "checked"
    <3>1. GrantedSessions' = GrantedSessions
      BY <1>1, <1>3, <1>5, <2>3, OneRefreshLess DEF IInv
    <3>2. QED
      BY <1>1, <1>2, <3>1 DEF Promise!promisedVars
  <2>4. QED
    BY <2>2, <2>3
<1>6. CASE \E page \in {"in", "out"} : Abandon(r, page)
  <2>1. flight[r].stage # "idle" /\ flight' = [flight EXCEPT ![r].tab = None]
    BY <1>6 DEF Abandon, IInv, TypeOK, Flight, Idle
  <2>2. flight'[r].stage = flight[r].stage /\ flight'[r].token = flight[r].token
    BY <2>1, FlightFields DEF IInv, TypeOK
  <2>3. GrantedSessions' = GrantedSessions
    BY <1>1, <1>3, <2>2 DEF GrantedSessions
  <2>4. QED
    BY <1>1, <1>2, <2>3 DEF Promise!promisedVars
<1>7. flight'[r].stage # "checked" \/ (Check(r) /\ Valid(flight[r].token))
        \/ \E page \in {"in", "out"} : Abandon(r, page)
  <2>1. CASE \E t \in Tabs : SendRefresh(r, t)
    BY <2>1 DEF SendRefresh, IInv, TypeOK
  <2>2. CASE (Check(r) /\ ~Valid(flight[r].token)) \/ Fail(r)
    <3>1. /\ flight[r].stage # "idle" /\ flight \in [Requests -> Flight]
          /\ flight' = [flight EXCEPT ![r] = [flight[r] EXCEPT !.stage = "denied"]]
      BY <2>2 DEF Check, Fail, IInv, TypeOK
    <3>2. QED
      BY <3>1, FlightFields DEF IInv
  <2>3. CASE Answer(r)
    BY <2>3 DEF Answer, Idle, IInv, TypeOK
  <2>4. QED
    BY <2>1, <2>2, <2>3
<1>8. QED
  BY <1>4, <1>5, <1>6, <1>7

LEMMA LoginIsPromised ==
  ASSUME IInv, NEW t \in Tabs, NEW k \in Tokens, Login(t, k)
  PROVE  Promise!Login(k)
<1>1. /\ tokens'[k] = [session |-> k, expires |-> now + Lifetime, revoked |-> FALSE]
      /\ \A l \in Tokens \ {k} : tokens'[l] = tokens[l]
      /\ active /\ ~Issued(k) /\ UNCHANGED <<now, active, flight>>
  BY DEF IInv, TypeOK, Login
<1>2. tokens'[k] \in Row
  BY <1>1 DEF IInv, TypeOK, Row
<1>3. /\ Issued(k)' /\ Live(k)' /\ ~Live(k)
      /\ tokens'[k].session = k /\ tokens'[k].expires = now + Lifetime
      /\ \A l \in Tokens \ {k} : (Issued(l)' <=> Issued(l)) /\ (Live(l)' <=> Live(l))
  <2>1. tokens'[k] # None
    BY <1>2
  <2>2. ~tokens'[k].revoked /\ tokens'[k].session = k /\ tokens'[k].expires = now + Lifetime
    BY <1>1
  <2>3. \A l \in Tokens \ {k} : (Issued(l)' <=> Issued(l)) /\ (Live(l)' <=> Live(l))
    BY <1>1 DEF Live, Issued
  <2>4. QED
    BY <1>1, <2>1, <2>2, <2>3 DEF Live, Issued
<1>4. \A l \in Tokens : Issued(l) => l # k /\ tokens[l].session # k
  BY <1>1 DEF IInv, SessionsNamed, TypeOK, Issued, Row
<1>5. AliveSessions' = AliveSessions \cup {k}
  BY <1>1, <1>3 DEF AliveSessions
<1>6. DeadlinesOf(k) = {} /\ DeadlinesOf(k)' = {now + Lifetime}
  BY <1>1, <1>3, <1>4 DEF DeadlinesOf
<1>7. \A s \in Tokens \ {k} : DeadlinesOf(s)' = DeadlinesOf(s)
  BY <1>1, <1>3, <1>4 DEF DeadlinesOf
<1>8. GrantedSessions' = GrantedSessions
  <2>1. \A q \in Requests : flight[q].stage = "checked" =>
          tokens'[flight[q].token] = tokens[flight[q].token]
    BY <1>1 DEF IInv, CheckedTokensIssued
  <2>2. QED
    BY <1>1, <2>1 DEF GrantedSessions
<1>9. QED
  BY <1>1, <1>5, <1>6, <1>7, <1>8 DEF Promise!Login

\* The exchange of a token for another continues the session of both.
LEMMA RotateIsRenew ==
  ASSUME IInv, NEW r \in Requests, NEW k \in Tokens, Rotate(r, k)
  PROVE  \E s \in Tokens : Promise!Renew(s)
<1>1. PICK old : old = flight[r].token
  OBVIOUS
<1>2. /\ old \in Tokens /\ Issued(old) /\ ~Issued(k)
      /\ tokens[old] \in Row /\ tokens'[old] \in Row /\ tokens'[k] \in Row
      /\ tokens'[old] = [tokens[old] EXCEPT !.revoked = TRUE]
      /\ tokens'[k] = [session |-> tokens[old].session,
                       expires |-> tokens[old].expires, revoked |-> FALSE]
      /\ \A l \in Tokens \ {k, old} : tokens'[l] = tokens[l]
      /\ flight'[r].stage = "issued"
      /\ \A q \in Requests \ {r} : flight'[q] = flight[q]
  BY <1>1, Exchange DEF IInv
<1>3. PICK s : s = tokens[old].session
  OBVIOUS
<1>4. /\ s \in Tokens /\ tokens'[k].session = s /\ tokens'[old].session = s
      /\ tokens'[k].expires = tokens[old].expires
      /\ tokens'[old].expires = tokens[old].expires
      /\ ~tokens'[k].revoked /\ tokens'[old].revoked
  BY <1>2, <1>3 DEF Row
<1>5. /\ Issued(k)' /\ Issued(old)' /\ Live(k)' /\ ~Live(old)'
      /\ \A l \in Tokens \ {k, old} : (Issued(l)' <=> Issued(l)) /\ (Live(l)' <=> Live(l))
  <2>1. tokens'[old] # None /\ tokens'[k] # None
    BY <1>2
  <2>2. QED
    BY <1>2, <1>4, <2>1 DEF Issued, Live
<1>6. s \in GrantedSessions
  BY <1>1, <1>3 DEF GrantedSessions, Rotate
<1>7. AliveSessions' = AliveSessions \cup {s}
  <2>1. ASSUME NEW l \in Tokens, Live(l) PROVE tokens[l].session \in AliveSessions' \cup {s}
    BY <1>2, <1>3, <1>5, <2>1 DEF AliveSessions, Live
  <2>2. ASSUME NEW l \in Tokens, Live(l)' PROVE tokens'[l].session \in AliveSessions \cup {s}
    BY <1>2, <1>4, <1>5, <2>2 DEF AliveSessions
  <2>3. s \in AliveSessions'
    BY <1>4, <1>5 DEF AliveSessions
  <2>4. \A x \in AliveSessions : x \in AliveSessions' \cup {s}
    BY <2>1 DEF AliveSessions
  <2>5. \A x \in AliveSessions' : x \in AliveSessions \cup {s}
    BY <2>2 DEF AliveSessions
  <2>6. s \in AliveSessions' /\ AliveSessions \subseteq AliveSessions'
    BY <1>2, <1>3, <1>4, <1>5, <2>3, <2>4
  <2>7. QED
    BY <2>5, <2>6
<1>8. \A x : DeadlinesOf(x)' = DeadlinesOf(x)
  <2> TAKE x
  <2>1. ASSUME NEW l \in Tokens, Issued(l), tokens[l].session = x
        PROVE  tokens[l].expires \in DeadlinesOf(x)'
    BY <1>2, <1>3, <1>4, <1>5, <2>1 DEF DeadlinesOf
  <2>2. ASSUME NEW l \in Tokens, Issued(l)', tokens'[l].session = x
        PROVE  tokens'[l].expires \in DeadlinesOf(x)
    <3>1. PICK o \in Tokens : /\ Issued(o) /\ tokens[o].session = x
                              /\ tokens[o].expires = tokens'[l].expires
      <4>1. CASE l \in {k, old}
        BY <1>2, <1>3, <1>4, <2>2, <4>1
      <4>2. CASE l \notin {k, old}
        BY <1>2, <1>5, <2>2, <4>2
      <4>3. QED
        BY <4>1, <4>2
    <3>2. QED
      BY <3>1 DEF DeadlinesOf
  <2>3. DeadlinesOf(x) \subseteq DeadlinesOf(x)'
    BY <2>1 DEF DeadlinesOf
  <2>4. DeadlinesOf(x)' \subseteq DeadlinesOf(x)
    BY <2>2 DEF DeadlinesOf
  <2>5. QED
    BY <2>3, <2>4
<1>9. GrantedSessions' \in {GrantedSessions, GrantedSessions \ {s}}
  <2>1. \A l \in Tokens : Issued(l) => tokens'[l].session = tokens[l].session
    BY <1>2, <1>3, <1>4
  <2>2. flight[r].stage = "checked"
    BY DEF Rotate
  <2>3. QED
    BY <1>1, <1>2, <1>3, <2>1, <2>2, OneRefreshLess DEF IInv
<1>10. UNCHANGED <<now, active>>
  BY DEF Rotate
<1>11. QED
  BY <1>4, <1>6, <1>7, <1>8, <1>9, <1>10 DEF Promise!Renew

LEMMA EndingIsPromised ==
  ASSUME IInv, ChangePassword \/ \E t \in Tabs, reached \in BOOLEAN : Logout(t, reached)
  PROVE  Promise!End
<1>1. \A k \in Tokens :
        \/ tokens'[k] = tokens[k]
        \/ Issued(k) /\ tokens'[k] = [tokens[k] EXCEPT !.revoked = TRUE]
  BY DEF ChangePassword, Logout, IInv, TypeOK, Issued
<1>2. UNCHANGED <<now, active, flight>>
  BY DEF ChangePassword, Logout
<1>3. SameRows /\ \A k \in Tokens : Live(k)' => Live(k)
  <2> SUFFICES ASSUME NEW k \in Tokens
               PROVE  /\ Issued(k)' <=> Issued(k)
                      /\ Issued(k) => /\ tokens'[k].session = tokens[k].session
                                      /\ tokens'[k].expires = tokens[k].expires
                      /\ Live(k)' => Live(k)
    BY DEF SameRows
  <2>1. CASE tokens'[k] = tokens[k]
    BY <2>1 DEF Issued, Live
  <2>2. CASE Issued(k) /\ tokens'[k] = [tokens[k] EXCEPT !.revoked = TRUE]
    <3>1. tokens[k] \in Row
      BY <2>2 DEF IInv, TypeOK, Issued
    <3>2. tokens'[k] \in Row
      BY <2>2, <3>1, RevokedIsRow
    <3>3. QED
      BY <2>2, <3>1, <3>2 DEF Issued, Live, Row
  <2>3. QED
    BY <1>1, <2>1, <2>2
<1>4. AliveSessions' \subseteq AliveSessions
  BY <1>3 DEF SameRows, AliveSessions, Live
<1>5. GrantedSessions' = GrantedSessions
  <2>1. \A q \in Requests : flight[q].stage = "checked" =>
          tokens'[flight[q].token].session = tokens[flight[q].token].session
    BY <1>3 DEF SameRows, IInv, CheckedTokensIssued
  <2>2. QED
    BY <1>2, <2>1 DEF GrantedSessions
<1>6. QED
  BY <1>2, <1>3, <1>4, <1>5, SameDeadlines DEF Promise!End

LEMMA StepKeepsPromise ==
  ASSUME IInv, [Next]_vars
  PROVE  [Promise!Next]_(Promise!promisedVars)
<1>1. CASE \E t \in Tabs, k \in Tokens : Login(t, k)
  BY <1>1, LoginIsPromised DEF Promise!Next
<1>2. CASE \E r \in Requests, k \in Tokens : Rotate(r, k)
  BY <1>2, RotateIsRenew DEF Promise!Next
<1>3. CASE \/ ChangePassword
           \/ \E t \in Tabs, reached \in BOOLEAN : Logout(t, reached)
  BY <1>3, EndingIsPromised DEF Promise!Next
<1>4. CASE Tick \/ (\E t \in Tabs : Open(t)) \/ (\E flag \in BOOLEAN : SetActive(flag))
           \/ UNCHANGED vars
  <2>1. UNCHANGED <<tokens, flight>>
    BY <1>4 DEF Tick, Open, SetActive, vars
  <2>2. UNCHANGED <<AliveSessions, [t \in Tokens |-> DeadlinesOf(t)], GrantedSessions>>
    BY <2>1 DEF AliveSessions, DeadlinesOf, GrantedSessions, Live, Issued
  <2>3. CASE Tick
    BY <2>2, <2>3 DEF Tick, Promise!Tick, Promise!Next
  <2>4. CASE \E flag \in BOOLEAN : SetActive(flag)
    <3>1. active' = ~active /\ now' = now
      BY <2>4 DEF SetActive, IInv, TypeOK
    <3>2. QED
      BY <2>2, <3>1 DEF Promise!SetActive, Promise!Next
  <2>5. CASE (\E t \in Tabs : Open(t)) \/ UNCHANGED vars
    BY <2>2, <2>5 DEF Open, vars, Promise!promisedVars
  <2>6. QED
    BY <1>4, <2>3, <2>4, <2>5
<1>5. ASSUME NEW r \in Requests,
             \/ \E t \in Tabs : SendRefresh(r, t)
             \/ Check(r) \/ Fail(r) \/ Answer(r)
             \/ \E page \in {"in", "out"} : Abandon(r, page)
      PROVE  [Promise!Next]_(Promise!promisedVars)
  BY <1>5, RefreshIsPromised
<1>6. QED
  BY <1>1, <1>2, <1>3, <1>4, <1>5 DEF Next

\* With any number of tabs and refreshes, lost answers and revocations included, the rows
\* of refresh_tokens behave as sessions that begin once, keep one deadline, and go on only
\* by refreshes granted while they were alive (refresh_access_token, login, logout).
THEOREM SessionsAreContinuedHolds == Spec => SessionsAreContinued
<1>1. Init => Promise!Init
  BY DEF Init, Promise!Init, AliveSessions, DeadlinesOf, GrantedSessions, Live, Issued, Idle
<1>2. IInv /\ [Next]_vars => [Promise!Next]_(Promise!promisedVars)
  BY StepKeepsPromise
<1>3. QED
  BY <1>1, <1>2, InitIInv, NextIInv, PTL DEF Spec, SessionsAreContinued, Promise!Spec

(***************************************************************************)
(* The browser holds its session                                           *)
(***************************************************************************)
\* What the cookie and the refreshes under way present has been handed out.
HeldTokensIssued ==
  /\ cookie # None => Issued(cookie)
  /\ \A r \in Requests :
       flight[r].stage \in {"sent", "checked", "issued"} /\ flight[r].token # None
       => Issued(flight[r].token)

\* A new token is in its answer only, until that has arrived.
PendingIsUnused ==
  \A r \in Requests : flight[r].stage = "issued" =>
    /\ flight[r].token \in Tokens \ {cookie}
    /\ \A q \in Requests \ {r} :
         flight[q].stage \in {"sent", "checked", "issued"} => flight[q].token # flight[r].token

PendingIsLive ==
  ~disturbed => \A r \in Requests : flight[r].stage = "issued" => Live(flight[r].token)

\* The cookie is dead only while the answer that replaces it is on its way, or since a
\* change of the password, which has ended everything else too.
CookieIsLive ==
  ~disturbed /\ cookie # None =>
    \/ Live(cookie)
    \/ \E r \in Requests : flight[r].stage = "issued"
    \/ /\ \A k \in Tokens : ~Live(k)
       /\ \A r \in Requests : flight[r].stage # "checked"

CookieInv == HeldTokensIssued /\ PendingIsUnused /\ PendingIsLive /\ CookieIsLive

LEMMA InitCookieInv == Init => CookieInv
  BY DEF Init, Idle, CookieInv, HeldTokensIssued, PendingIsUnused, PendingIsLive, CookieIsLive

\* What a step of one refresh, other than its commit, does to it and to the cookie.
LEMMA FlightMoves ==
  ASSUME TypeOK, NEW r \in Requests,
         \/ \E t \in Tabs : SendRefresh(r, t)
         \/ Check(r) \/ Fail(r) \/ Answer(r)
         \/ \E page \in {"in", "out"} : Abandon(r, page)
  PROVE  /\ tokens' = tokens
         /\ \A q \in Requests \ {r} : flight'[q] = flight[q]
         /\ \/ /\ cookie' = cookie /\ disturbed' = disturbed
               /\ \/ flight'[r].stage = "sent" /\ flight'[r].token = cookie
                  \/ /\ flight'[r].stage = "checked" /\ flight'[r].token = flight[r].token
                     /\ flight[r].stage = "sent"
                     /\ flight[r].token \in Tokens /\ Live(flight[r].token)
                  \/ flight'[r].stage \in {"denied", "idle"}
                  \/ /\ flight'[r].stage = flight[r].stage
                     /\ flight'[r].token = flight[r].token
               /\ flight[r].stage = "issued" => flight'[r].stage = "issued"
            \/ /\ flight[r].stage = "issued" /\ flight'[r].stage = "idle"
               /\ cookie' = flight[r].token \/ (cookie' = cookie /\ disturbed')
<1>1. tokens' = tokens
  BY DEF SendRefresh, Check, Fail, Answer, Abandon
<1>2. \A q \in Requests \ {r} : flight'[q] = flight[q]
  BY DEF SendRefresh, Check, Fail, Answer, Abandon, TypeOK
<1>3. CASE \E t \in Tabs : SendRefresh(r, t)
  <2>1. flight'[r].stage = "sent" /\ flight'[r].token = cookie
    BY <1>3 DEF SendRefresh, TypeOK
  <2>2. cookie' = cookie /\ disturbed' = disturbed /\ flight[r].stage = "idle"
    BY <1>3 DEF SendRefresh, Idle
  <2>3. QED
    BY <1>1, <1>2, <2>1, <2>2
<1>4. CASE Check(r)
  <2>1. flight[r].stage = "sent" /\ cookie' = cookie /\ disturbed' = disturbed
    BY <1>4 DEF Check
  <2>2. flight[r] \in [stage : {"sent", "checked", "denied", "issued"},
                       token : Tokens \cup {None}, tab : Tabs \cup {None}]
    BY <2>1, FlightFields
  <2>3. PICK stage : stage = IF Valid(flight[r].token) THEN "checked" ELSE "denied"
    OBVIOUS
  <2>4. flight'[r] = [flight[r] EXCEPT !.stage = stage]
    BY <1>4, <2>3 DEF Check, TypeOK
  <2>5. flight'[r].stage = stage /\ flight'[r].token = flight[r].token
    BY <2>2, <2>4
  <2>6. stage = "checked" => flight[r].token \in Tokens /\ Live(flight[r].token)
    BY <2>2, <2>3 DEF Valid
  <2>7. stage \in {"checked", "denied"}
    BY <2>3
  <2>8. QED
    BY <1>1, <1>2, <2>1, <2>5, <2>6, <2>7
<1>5. CASE Fail(r)
  <2>1. flight[r].stage \in {"sent", "checked"} /\ cookie' = cookie /\ disturbed' = disturbed
    BY <1>5 DEF Fail
  <2>2. flight[r] \in [stage : {"sent", "checked", "denied", "issued"},
                       token : Tokens \cup {None}, tab : Tabs \cup {None}]
    BY <2>1, FlightFields
  <2>3. flight'[r] = [flight[r] EXCEPT !.stage = "denied"]
    BY <1>5 DEF Fail, TypeOK
  <2>4. QED
    BY <1>1, <1>2, <2>1, <2>2, <2>3
<1>6. CASE Answer(r)
  <2>1. flight'[r] = Idle /\ flight[r].stage \in {"denied", "issued"}
    BY <1>6 DEF Answer, TypeOK
  <2>2. cookie' = IF flight[r].stage = "issued" /\ flight[r].tab # None
                  THEN flight[r].token ELSE cookie
    BY <1>6 DEF Answer
  <2>3. disturbed' = (disturbed \/ (flight[r].stage = "issued" /\ flight[r].tab = None))
    BY <1>6 DEF Answer
  <2>4. disturbed \in BOOLEAN
    BY DEF TypeOK
  <2>5. CASE flight[r].stage = "denied"
    BY <1>1, <1>2, <2>1, <2>2, <2>3, <2>4, <2>5 DEF Idle
  <2>6. CASE flight[r].stage = "issued"
    <3>1. CASE flight[r].tab # None
      BY <1>1, <1>2, <2>1, <2>2, <2>6, <3>1 DEF Idle
    <3>2. CASE flight[r].tab = None
      <4>1. disturbed'
        BY <2>3, <2>6, <3>2
      <4>2. cookie' = cookie /\ flight'[r].stage = "idle"
        BY <2>1, <2>2, <3>2 DEF Idle
      <4>3. QED
        BY <1>1, <1>2, <2>6, <4>1, <4>2
    <3>3. QED
      BY <3>1, <3>2
  <2>7. QED
    BY <2>1, <2>5, <2>6
<1>7. CASE \E page \in {"in", "out"} : Abandon(r, page)
  <2>1. cookie' = cookie /\ disturbed' = disturbed
    BY <1>7 DEF Abandon
  <2>2. flight[r].stage # "idle"
    BY <1>7 DEF Abandon, TypeOK, Flight, Idle
  <2>3. flight[r] \in [stage : {"sent", "checked", "denied", "issued"},
                       token : Tokens \cup {None}, tab : Tabs \cup {None}]
    BY <2>2, FlightFields
  <2>4. flight'[r] = [flight[r] EXCEPT !.tab = None]
    BY <1>7 DEF Abandon, TypeOK
  <2>5. flight'[r].stage = flight[r].stage /\ flight'[r].token = flight[r].token
    BY <2>3, <2>4
  <2>6. QED
    BY <1>1, <1>2, <2>1, <2>5
<1>8. QED
  BY <1>3, <1>4, <1>5, <1>6, <1>7

\* Of a token of this state, or of the next: whether it is handed out, and live, after the step.
IssuedNext(k) == tokens'[k] # None
LiveNext(k) == IssuedNext(k) /\ ~tokens'[k].revoked

LEMMA FlightKeepsCookie ==
  ASSUME TypeOK, CookieInv, NEW r \in Requests,
         \/ \E t \in Tabs : SendRefresh(r, t)
         \/ Check(r) \/ Fail(r) \/ Answer(r)
         \/ \E page \in {"in", "out"} : Abandon(r, page)
  PROVE  CookieInv'
<1>1. /\ tokens' = tokens
      /\ \A q \in Requests \ {r} : flight'[q] = flight[q]
      /\ \/ /\ cookie' = cookie /\ disturbed' = disturbed
            /\ \/ flight'[r].stage = "sent" /\ flight'[r].token = cookie
               \/ /\ flight'[r].stage = "checked" /\ flight'[r].token = flight[r].token
                  /\ flight[r].stage = "sent"
                  /\ flight[r].token \in Tokens /\ Live(flight[r].token)
               \/ flight'[r].stage \in {"denied", "idle"}
               \/ /\ flight'[r].stage = flight[r].stage
                  /\ flight'[r].token = flight[r].token
            /\ flight[r].stage = "issued" => flight'[r].stage = "issued"
         \/ /\ flight[r].stage = "issued" /\ flight'[r].stage = "idle"
            /\ cookie' = flight[r].token \/ (cookie' = cookie /\ disturbed')
  BY FlightMoves
<1>2. HeldTokensIssued'
  BY <1>1 DEF CookieInv, HeldTokensIssued, Issued, IssuedNext
<1>3. PendingIsUnused'
  <2> SUFFICES ASSUME NEW q \in Requests, flight'[q].stage = "issued"
               PROVE  /\ flight'[q].token \in Tokens \ {cookie'}
                      /\ \A p \in Requests \ {q} :
                           flight'[p].stage \in {"sent", "checked", "issued"}
                           => flight'[p].token # flight'[q].token
    BY DEF PendingIsUnused
  <2>1. flight[q].stage = "issued" /\ flight'[q].token = flight[q].token
    BY <1>1
  <2>2. /\ flight[q].token \in Tokens \ {cookie}
        /\ \A p \in Requests \ {q} :
             flight[p].stage \in {"sent", "checked", "issued"}
             => flight[p].token # flight[q].token
    BY <2>1 DEF CookieInv, PendingIsUnused
  <2>3. flight'[q].token # cookie'
    BY <1>1, <2>1, <2>2
  <2>4. ASSUME NEW p \in Requests \ {q}, flight'[p].stage \in {"sent", "checked", "issued"}
        PROVE  flight'[p].token # flight'[q].token
    BY <1>1, <2>1, <2>2, <2>4
  <2>5. QED
    BY <2>1, <2>2, <2>3, <2>4
<1>4. PendingIsLive'
  <2> SUFFICES ASSUME NEW q \in Requests, ~disturbed', flight'[q].stage = "issued"
               PROVE  LiveNext(flight'[q].token)
    BY DEF PendingIsLive, Live, Issued, LiveNext, IssuedNext
  <2>1. flight[q].stage = "issued" /\ flight'[q].token = flight[q].token
    BY <1>1
  <2>2. ~disturbed
    BY <1>1 DEF SendRefresh, Check, Fail, Answer, Abandon
  <2>3. Live(flight[q].token)
    BY <2>1, <2>2 DEF CookieInv, PendingIsLive
  <2>4. QED
    BY <1>1, <2>1, <2>3 DEF Live, Issued, LiveNext, IssuedNext
<1>5. CookieIsLive'
  <2> SUFFICES ASSUME ~disturbed', cookie' # None
               PROVE  \/ LiveNext(cookie')
                      \/ \E q \in Requests : flight'[q].stage = "issued"
                      \/ /\ \A k \in Tokens : ~LiveNext(k)
                         /\ \A q \in Requests : flight'[q].stage # "checked"
    BY DEF CookieIsLive, Live, Issued, LiveNext, IssuedNext
  <2>1. ~disturbed
    BY <1>1 DEF SendRefresh, Check, Fail, Answer, Abandon
  <2>2. CASE flight[r].stage = "issued" /\ flight'[r].stage = "idle"
    <3>1. cookie' = flight[r].token
      BY <1>1, <2>2
    <3>2. Live(flight[r].token)
      BY <2>1, <2>2 DEF CookieInv, PendingIsLive
    <3>3. QED
      BY <1>1, <3>1, <3>2 DEF Live, Issued, LiveNext, IssuedNext
  <2>3. CASE ~(flight[r].stage = "issued" /\ flight'[r].stage = "idle")
    <3>1. cookie' = cookie /\ (flight[r].stage = "issued" => flight'[r].stage = "issued")
      BY <1>1, <2>3
    <3>2. CASE Live(cookie)
      BY <1>1, <3>1, <3>2 DEF Live, Issued, LiveNext, IssuedNext
    <3>3. CASE \E q \in Requests : flight[q].stage = "issued"
      BY <1>1, <3>1, <3>3
    <3>4. CASE /\ \A k \in Tokens : ~Live(k)
               /\ \A q \in Requests : flight[q].stage # "checked"
      <4>1. \A k \in Tokens : ~LiveNext(k)
        BY <1>1, <3>4 DEF Live, Issued, LiveNext, IssuedNext
      <4>2. \A q \in Requests : flight'[q].stage # "checked"
        BY <1>1, <3>4
      <4>3. QED
        BY <4>1, <4>2
    <3>5. QED
      BY <2>1, <3>1, <3>2, <3>3, <3>4 DEF CookieInv, CookieIsLive
  <2>4. QED
    BY <2>2, <2>3
<1>6. QED
  BY <1>2, <1>3, <1>4, <1>5 DEF CookieInv

LEMMA RotateKeepsCookie ==
  ASSUME IInv, CookieInv, NEW r \in Requests, NEW k \in Tokens, Rotate(r, k)
  PROVE  CookieInv'
<1>1. PICK old : old = flight[r].token
  OBVIOUS
<1>2. /\ old \in Tokens /\ Issued(old) /\ ~Issued(k)
      /\ tokens[old] \in Row /\ tokens'[old] \in Row /\ tokens'[k] \in Row
      /\ tokens'[old] = [tokens[old] EXCEPT !.revoked = TRUE]
      /\ tokens'[k] = [session |-> tokens[old].session,
                       expires |-> tokens[old].expires, revoked |-> FALSE]
      /\ \A l \in Tokens \ {k, old} : tokens'[l] = tokens[l]
      /\ flight'[r].stage = "issued"
      /\ \A q \in Requests \ {r} : flight'[q] = flight[q]
  BY <1>1, Exchange DEF IInv
<1>3. flight[r].stage = "checked" /\ cookie' = cookie /\ disturbed' = disturbed
  BY DEF Rotate
<1>4. flight'[r].token = k
  <2>1. flight[r] \in [stage : {"sent", "checked", "denied", "issued"},
                       token : Tokens \cup {None}, tab : Tabs \cup {None}]
    BY <1>3, FlightFields DEF IInv
  <2>2. flight'[r] = [flight[r] EXCEPT !.stage = "issued", !.token = k]
    BY DEF Rotate, IInv, TypeOK
  <2>3. QED
    BY <2>1, <2>2
<1>5. LiveNext(k) /\ \A l \in Tokens : Issued(l) => IssuedNext(l)
  <2>1. tokens'[k] # None /\ tokens'[old] # None
    BY <1>2
  <2>3. ~tokens'[k].revoked
    BY <1>2
  <2>2. QED
    BY <1>2, <2>1, <2>3 DEF Live, Issued, LiveNext, IssuedNext
<1>6. /\ cookie \in Tokens \cup {None}
      /\ \A q \in Requests : flight[q].stage # "idle" => flight[q].token \in Tokens \cup {None}
  BY FlightFields DEF IInv, TypeOK
<1>7. HeldTokensIssued'
  <2>1. cookie' # None => IssuedNext(cookie')
    BY <1>3, <1>5, <1>6 DEF CookieInv, HeldTokensIssued, Issued, IssuedNext
  <2>2. ASSUME NEW q \in Requests, flight'[q].token # None,
               flight'[q].stage \in {"sent", "checked", "issued"}
        PROVE  IssuedNext(flight'[q].token)
    <3>1. CASE q = r
      BY <1>4, <1>5, <3>1 DEF Live, Issued, LiveNext, IssuedNext
    <3>2. CASE q # r
      <4>1. flight'[q] = flight[q] /\ flight[q].token \in Tokens
        BY <1>2, <1>6, <2>2, <3>2
      <4>2. Issued(flight[q].token)
        BY <2>2, <4>1 DEF CookieInv, HeldTokensIssued
      <4>3. QED
        BY <1>5, <4>1, <4>2 DEF Issued, IssuedNext
    <3>3. QED
      BY <3>1, <3>2
  <2>3. QED
    BY <2>1, <2>2 DEF HeldTokensIssued, Issued, IssuedNext
<1>8. \A q \in Requests \ {r} :
        flight[q].stage \in {"sent", "checked", "issued"} => flight[q].token # k
  BY <1>2, <1>6 DEF CookieInv, HeldTokensIssued
<1>9. PendingIsUnused'
  <2>1. k # cookie
    BY <1>2, <1>6 DEF CookieInv, HeldTokensIssued
  <2>2. ASSUME NEW q \in Requests \ {r}, flight[q].stage = "issued"
        PROVE  /\ flight[q].token \in Tokens \ {cookie}
               /\ \A p \in Requests \ {q} :
                    flight[p].stage \in {"sent", "checked", "issued"}
                    => flight[p].token # flight[q].token
    BY <2>2 DEF CookieInv, PendingIsUnused
  <2>3. QED
    BY <1>2, <1>3, <1>4, <1>8, <2>1, <2>2 DEF PendingIsUnused
<1>10. PendingIsLive'
  <2> SUFFICES ASSUME NEW q \in Requests, ~disturbed, flight'[q].stage = "issued"
               PROVE  LiveNext(flight'[q].token)
    BY <1>3 DEF PendingIsLive, Live, Issued, LiveNext, IssuedNext
  <2>1. CASE q = r
    BY <1>4, <1>5, <2>1 DEF Live, Issued, LiveNext, IssuedNext
  <2>2. CASE q # r
    <3>1. flight'[q] = flight[q] /\ flight[q].token \in Tokens
      BY <1>2, <2>2 DEF CookieInv, PendingIsUnused
    <3>2. flight[q].token # old /\ flight[q].token # k
      BY <1>1, <1>3, <1>8, <2>2, <3>1 DEF CookieInv, PendingIsUnused
    <3>3. Live(flight[q].token)
      BY <3>1 DEF CookieInv, PendingIsLive
    <3>4. tokens'[flight[q].token] = tokens[flight[q].token]
      BY <1>2, <3>1, <3>2
    <3>5. QED
      BY <3>1, <3>3, <3>4 DEF Live, Issued, LiveNext, IssuedNext
  <2>3. QED
    BY <2>1, <2>2
<1>11. CookieIsLive'
  BY <1>2 DEF CookieIsLive
<1>12. QED
  BY <1>7, <1>9, <1>10, <1>11 DEF CookieInv

LEMMA NextCookieInv == IInv /\ CookieInv /\ [Next]_vars => CookieInv'
<1> SUFFICES ASSUME IInv, CookieInv, [Next]_vars PROVE CookieInv'
  OBVIOUS
<1>1. TypeOK
  BY DEF IInv
<1>2. /\ cookie \in Tokens \cup {None}
      /\ \A q \in Requests : flight[q].stage # "idle" => flight[q].token \in Tokens \cup {None}
  BY <1>1, FlightFields DEF TypeOK
<1>3. ASSUME NEW t \in Tabs, NEW k \in Tokens, Login(t, k)
      PROVE  CookieInv'
  <2>1. /\ tokens'[k] = [session |-> k, expires |-> now + Lifetime, revoked |-> FALSE]
        /\ \A l \in Tokens \ {k} : tokens'[l] = tokens[l]
        /\ ~Issued(k) /\ flight' = flight /\ disturbed' = disturbed /\ cookie' = k
    BY <1>1, <1>3 DEF TypeOK, Login
  <2>2. LiveNext(k)
    <3>1. [session |-> k, expires |-> now + Lifetime, revoked |-> FALSE] \in Row
      BY <1>1 DEF TypeOK, Row
    <3>2. tokens'[k] # None
      BY <2>1, <3>1
    <3>3. ~tokens'[k].revoked
      BY <2>1
    <3>4. QED
      BY <3>2, <3>3 DEF LiveNext, IssuedNext
  <2>3. \A l \in Tokens : Issued(l) => (IssuedNext(l) /\ l # k) /\ (Live(l) => LiveNext(l))
    BY <2>1 DEF Live, Issued, LiveNext, IssuedNext
  <2>4. HeldTokensIssued'
    <3>1. \A q \in Requests :
            flight[q].stage \in {"sent", "checked", "issued"} /\ flight[q].token # None
            => IssuedNext(flight[q].token)
      BY <1>2, <2>3 DEF CookieInv, HeldTokensIssued
    <3>2. QED
      BY <2>1, <2>2, <3>1 DEF HeldTokensIssued, Live, Issued, LiveNext, IssuedNext
  <2>5. PendingIsUnused'
    <3>1. \A q \in Requests : flight[q].stage = "issued" => flight[q].token # k
      BY <1>2, <2>3 DEF CookieInv, HeldTokensIssued, PendingIsUnused
    <3>2. QED
      BY <2>1, <3>1 DEF CookieInv, PendingIsUnused
  <2>6. PendingIsLive'
    <3> SUFFICES ASSUME NEW q \in Requests, ~disturbed, flight[q].stage = "issued"
                 PROVE  LiveNext(flight[q].token)
      BY <2>1 DEF PendingIsLive, Live, Issued, LiveNext, IssuedNext
    <3>1. flight[q].token \in Tokens /\ Live(flight[q].token)
      BY DEF CookieInv, PendingIsUnused, PendingIsLive
    <3>2. Issued(flight[q].token)
      BY <3>1 DEF Live
    <3>3. QED
      BY <2>3, <3>1, <3>2
  <2>7. CookieIsLive'
    BY <2>1, <2>2 DEF CookieIsLive, Live, Issued, LiveNext, IssuedNext
  <2>8. QED
    BY <2>4, <2>5, <2>6, <2>7 DEF CookieInv
<1>4. ASSUME NEW t \in Tabs, NEW reached \in BOOLEAN, Logout(t, reached)
      PROVE  CookieInv'
  <2>1. flight' = flight /\ disturbed' = disturbed
    BY <1>4 DEF Logout
  <2>2. CASE ~reached
    <3>1. tokens' = tokens /\ cookie' = cookie
      BY <1>4, <2>2 DEF Logout
    <3>2. QED
      BY <2>1, <3>1 DEF CookieInv, HeldTokensIssued, PendingIsUnused, PendingIsLive,
                        CookieIsLive, Live, Issued, LiveNext, IssuedNext
  <2>3. CASE reached
    <3>1. /\ tokens' = [k \in Tokens |-> IF k = cookie /\ Issued(k)
                                         THEN [tokens[k] EXCEPT !.revoked = TRUE]
                                         ELSE tokens[k]]
          /\ cookie' = None
      BY <1>4, <2>3 DEF Logout
    <3>2. \A k \in Tokens :
            /\ Issued(k) => IssuedNext(k)
            /\ k # cookie => tokens'[k] = tokens[k]
      <4>1. \A k \in Tokens : Issued(k) => [tokens[k] EXCEPT !.revoked = TRUE] \in Row
        BY <1>1, RevokedIsRow DEF Issued, TypeOK
      <4>2. QED
        BY <3>1, <4>1 DEF Issued, IssuedNext
    <3>3. HeldTokensIssued'
      <4>1. \A q \in Requests :
              flight[q].stage \in {"sent", "checked", "issued"} /\ flight[q].token # None
              => IssuedNext(flight[q].token)
        BY <1>2, <3>2 DEF CookieInv, HeldTokensIssued
      <4>2. QED
        BY <2>1, <3>1, <4>1 DEF HeldTokensIssued, Issued, IssuedNext
    <3>4. PendingIsUnused'
      BY <2>1, <3>1 DEF CookieInv, PendingIsUnused
    <3>5. PendingIsLive'
      <4> SUFFICES ASSUME NEW q \in Requests, ~disturbed, flight[q].stage = "issued"
                   PROVE  LiveNext(flight[q].token)
        BY <2>1 DEF PendingIsLive, Live, Issued, LiveNext, IssuedNext
      <4>1. flight[q].token \in Tokens \ {cookie} /\ Live(flight[q].token)
        BY DEF CookieInv, PendingIsUnused, PendingIsLive
      <4>2. QED
        BY <3>2, <4>1 DEF Live, Issued, LiveNext, IssuedNext
    <3>6. CookieIsLive'
      BY <3>1 DEF CookieIsLive
    <3>7. QED
      BY <3>3, <3>4, <3>5, <3>6 DEF CookieInv
  <2>4. QED
    BY <2>2, <2>3
<1>5. ASSUME ChangePassword
      PROVE  CookieInv'
  <2>1. /\ tokens' = [k \in Tokens |-> IF Issued(k) THEN [tokens[k] EXCEPT !.revoked = TRUE]
                                       ELSE None]
        /\ disturbed' = (disturbed \/ \E r \in Requests : flight[r] # Idle)
        /\ flight' = flight /\ cookie' = cookie
    BY <1>5 DEF ChangePassword
  <2>2. \A k \in Tokens : Issued(k) => IssuedNext(k) /\ tokens'[k].revoked
    <3> TAKE k \in Tokens
    <3> HAVE Issued(k)
    <3>1. tokens[k] \in Row /\ tokens'[k] = [tokens[k] EXCEPT !.revoked = TRUE]
      BY <1>1, <2>1 DEF Issued, TypeOK
    <3>2. tokens'[k] \in Row
      BY <3>1, RevokedIsRow
    <3>3. QED
      BY <3>1, <3>2 DEF Issued, IssuedNext, Row
  <2>3. \A k \in Tokens : ~LiveNext(k)
    BY <2>1, <2>2 DEF Live, Issued, LiveNext, IssuedNext
  <2>4. ~disturbed' => \A q \in Requests : flight[q].stage = "idle"
    <3>1. disturbed \in BOOLEAN /\ Idle.stage = "idle"
      BY <1>1 DEF TypeOK, Idle
    <3>2. ~disturbed' => \A q \in Requests : flight[q] = Idle
      BY <2>1, Zenon
    <3>3. QED
      BY <3>1, <3>2
  <2>5. HeldTokensIssued'
    <3>1. cookie # None => IssuedNext(cookie)
      BY <1>2, <2>1, <2>2 DEF CookieInv, HeldTokensIssued
    <3>2. \A q \in Requests :
            flight[q].stage \in {"sent", "checked", "issued"} /\ flight[q].token # None
            => IssuedNext(flight[q].token)
      BY <1>2, <2>1, <2>2 DEF CookieInv, HeldTokensIssued
    <3>3. QED
      BY <2>1, <3>1, <3>2 DEF HeldTokensIssued, Issued, IssuedNext
  <2>6. PendingIsUnused'
    BY <2>1 DEF CookieInv, PendingIsUnused
  <2>7. PendingIsLive' /\ CookieIsLive'
    <3>1. PendingIsLive'
      BY <2>1, <2>4 DEF PendingIsLive
    <3>2. CookieIsLive'
      BY <2>1, <2>3, <2>4 DEF CookieIsLive, Live, Issued, LiveNext, IssuedNext
    <3>3. QED
      BY <3>1, <3>2
  <2>8. QED
    BY <2>5, <2>6, <2>7 DEF CookieInv
<1>6. CASE \/ UNCHANGED vars \/ Tick \/ (\E t \in Tabs : Open(t))
           \/ \E flag \in BOOLEAN : SetActive(flag)
  <2>1. UNCHANGED <<tokens, cookie, flight, disturbed>>
    BY <1>6 DEF vars, Tick, Open, SetActive
  <2>2. QED
    BY <2>1 DEF CookieInv, HeldTokensIssued, PendingIsUnused, PendingIsLive, CookieIsLive,
                Live, Issued, LiveNext, IssuedNext
<1>7. QED
  BY <1>1, <1>3, <1>4, <1>5, <1>6, FlightKeepsCookie, RotateKeepsCookie DEF Next

\* However the refreshes of the tabs overlap and in whatever order their answers arrive,
\* the browser is not left with a dead token of a session that goes on without it, unless
\* an answer was lost or the password changed during a refresh.
THEOREM BrowserHoldsSessionHolds == Spec => []BrowserHoldsSession
<1>1. CookieInv => BrowserHoldsSession
  <2> SUFFICES ASSUME CookieInv, ~disturbed, cookie # None,
                      \A r \in Requests : flight[r] = Idle,
                      NEW k \in Tokens, Live(k)
               PROVE  Live(cookie)
    BY DEF BrowserHoldsSession
  <2>1. \A r \in Requests : flight[r].stage = "idle"
    BY DEF Idle
  <2>2. QED
    BY <2>1 DEF CookieInv, CookieIsLive
<1>2. QED
  BY <1>1, InitIInv, NextIInv, InitCookieInv, NextCookieInv, PTL DEF Spec
=============================================================================
