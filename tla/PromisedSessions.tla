--------------------------- MODULE PromisedSessions ---------------------------
(***************************************************************************)
(* What a user may rely on about his logins, without the tokens and        *)
(* cookies that carry them: a session begins with a login, which sets its  *)
(* deadline once and for all; it can be continued only by a refresh that   *)
(* was granted while it was alive, before the deadline and to an active    *)
(* user.  A refresh that was granted is carried out even if the session    *)
(* has been ended meanwhile.                                               *)
(***************************************************************************)
EXTENDS Integers

CONSTANTS
  Logins,     \* the sessions there may be
  Lifetime

VARIABLES
  now,
  active,     \* the user is active
  alive,      \* sessions that can be continued
  deadlines,  \* of each session: none, or the one
  granted     \* sessions with a refresh that was granted and is to be carried out

promisedVars == <<now, active, alive, deadlines, granted>>

Init ==
  /\ now = 0 /\ active = TRUE
  /\ alive = {} /\ granted = {}
  /\ deadlines = [s \in Logins |-> {}]

Tick == now' = now + 1 /\ UNCHANGED <<active, alive, deadlines, granted>>

SetActive == active' = ~active /\ UNCHANGED <<now, alive, deadlines, granted>>

Login(s) ==
  /\ active /\ deadlines[s] = {}
  /\ alive' = alive \cup {s}
  /\ deadlines' = [deadlines EXCEPT ![s] = {now + Lifetime}]
  /\ UNCHANGED <<now, active, granted>>

\* Logout, or a new password.
End ==
  /\ alive' \subseteq alive
  /\ UNCHANGED <<now, active, deadlines, granted>>

Grant(s) ==
  /\ active /\ s \in alive
  /\ \A d \in deadlines[s] : now <= d
  /\ granted' = granted \cup {s}
  /\ UNCHANGED <<now, active, alive, deadlines>>

\* Other refreshes of the session may still be on their way.
Renew(s) ==
  /\ s \in granted
  /\ alive' = alive \cup {s}
  /\ granted' \in {granted, granted \ {s}}
  /\ UNCHANGED <<now, active, deadlines>>

\* A refresh fails.
Drop(s) ==
  /\ granted' = granted \ {s}
  /\ UNCHANGED <<now, active, alive, deadlines>>

Next == Tick \/ SetActive \/ End \/ \E s \in Logins : Login(s) \/ Grant(s) \/ Renew(s) \/ Drop(s)

Spec == Init /\ [][Next]_promisedVars
=============================================================================
