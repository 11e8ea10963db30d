--------------------------- MODULE MembershipProofs ---------------------------
(***************************************************************************)
(* Theorems of Membership, for any number of users, teams and overlapping  *)
(* requests.                                                               *)
(***************************************************************************)
EXTENDS Membership, TLAPS

USE MembershipAssumption

(***************************************************************************)
(* The inductive invariant                                                 *)
(***************************************************************************)
\* Who and what a request is about, and what it has been checked for.
WellBegun(c) ==
  /\ c.op \in UserOps \cup MemberOps => c.user \in Users
  /\ c.op \in TeamOps \cup MemberOps => c.team \in Teams
  /\ c.op \in {"createTeam", "updateTeam"} /\ c.user # Nobody => c.saw.state = "active"
  /\ c.op \in MemberOps \cup {"updateUser"} => c.saw.state \in {"active", "inactive"}
  /\ c.op \in {"softDelete", "hardDelete"} => c.by # c.user
  /\ c.heir # Nobody => c.heir # c.user

\* Up to the primary team, which goes with the team, a row is as it was read - unless
\* another request about the user has committed since.
SeesUser(c) ==
  c.user \in Users \ crossed =>
    users[c.user] \in {c.saw, [c.saw EXCEPT !.primary = Nobody]}

SeesHeir(c) == c.heir \in Users \ crossed => users[c.heir].state = "active"

SeesTeams(c) ==
  c.op = "softDelete" /\ c.user \in Users \ crossed /\ c.saw.role # "user" =>
    \A t \in teams : managers[t] = c.user => t \in c.managed

Snapshots ==
  \A q \in Changes :
    LET c == changes[q] IN WellBegun(c) /\ SeesUser(c) /\ SeesHeir(c) /\ SeesTeams(c)

\* The columns of a team go with its row.
NoTeamNoManager == \A t \in Teams \ teams : managers[t] = Nobody

MembershipInv ==
  /\ MembershipTypeOK /\ Snapshots /\ NoTeamNoManager
  /\ PrimaryIsMembership /\ DeletedUsersManageNothing

LEMMA MembershipInitInv == MembershipInit => MembershipInv
<1> SUFFICES ASSUME MembershipInit PROVE MembershipInv
  OBVIOUS
<1>1. NewUser \in User /\ NoChange \in ChangeRecords
  BY DEF NewUser, NoChange, User, Roles, ChangeRecords
<1>2. users \in [Users -> User]
  BY <1>1 DEF MembershipInit, User, Roles
<1>3. \A u \in Users : users[u].primary = Nobody
  BY DEF MembershipInit, NewUser
<1>4. MembershipTypeOK
  BY <1>1, <1>2 DEF MembershipInit, MembershipTypeOK
<1>5. Snapshots
  BY DEF MembershipInit, Snapshots, NoChange, WellBegun, SeesUser, SeesHeir, SeesTeams,
         UserOps, MemberOps, TeamOps
<1>6. NoTeamNoManager /\ PrimaryIsMembership /\ DeletedUsersManageNothing
  BY <1>3 DEF MembershipInit, NoTeamNoManager, PrimaryIsMembership, DeletedUsersManageNothing
<1>7. QED
  BY <1>4, <1>5, <1>6 DEF MembershipInv

(***************************************************************************)
(* A request begins                                                        *)
(***************************************************************************)
LEMMA AboutRecord ==
  ASSUME MembershipTypeOK, NEW op \in TeamOps \cup MemberOps \cup UserOps, NEW r \in Users,
         NEW u \in Users \cup {Nobody}, NEW t \in Teams \cup {Nobody}
  PROVE  /\ About(op, r, u, t) \in ChangeRecords
         /\ About(op, r, u, t).op = op /\ About(op, r, u, t).by = r
         /\ About(op, r, u, t).user = u /\ About(op, r, u, t).team = t
         /\ u \in Users => About(op, r, u, t).saw = users[u]
         /\ About(op, r, u, t).heir = Nobody /\ About(op, r, u, t).managed = {}
<1>1. (IF u \in Users THEN users[u] ELSE NewUser) \in User
  BY DEF MembershipTypeOK, NewUser, User, Roles
<1>2. (IF t \in Teams THEN managers[t] ELSE Nobody) \in Users \cup {Nobody}
  BY DEF MembershipTypeOK
<1>3. NoChange \in ChangeRecords
  BY DEF NoChange, NewUser, User, Roles, ChangeRecords
<1>4. QED
  BY <1>1, <1>2, <1>3 DEF About, NoChange, ChangeRecords

LEMMA BeginKeepsInv ==
  ASSUME MembershipInv, begun < MaxChanges, NEW q \in Changes, NEW change \in ChangeRecords,
         BeginChange(q, change),
         WellBegun(change), SeesUser(change), SeesHeir(change), SeesTeams(change)
  PROVE  MembershipInv'
<1>1. /\ changes' = [changes EXCEPT ![q] = change] /\ begun' = begun + 1
      /\ UNCHANGED <<users, members, teams, named, managers, crossed>>
  BY DEF BeginChange
<1>2. MembershipTypeOK'
  <2>1. begun' \in 0..MaxChanges
    BY <1>1 DEF MembershipInv, MembershipTypeOK
  <2>2. changes' \in [Changes -> ChangeRecords]
    BY <1>1 DEF MembershipInv, MembershipTypeOK
  <2>3. QED
    BY <1>1, <2>1, <2>2 DEF MembershipInv, MembershipTypeOK
<1>3. Snapshots'
  BY <1>1 DEF MembershipInv, MembershipTypeOK, Snapshots, WellBegun, SeesUser, SeesHeir, SeesTeams
<1>4. NoTeamNoManager' /\ PrimaryIsMembership' /\ DeletedUsersManageNothing'
  BY <1>1 DEF MembershipInv, NoTeamNoManager, PrimaryIsMembership, DeletedUsersManageNothing
<1>5. QED
  BY <1>2, <1>3, <1>4 DEF MembershipInv

LEMMA BeginTeamChange ==
  ASSUME MembershipInv, begun < MaxChanges, NEW q \in Changes, NEW r \in Users, NEW t \in Teams,
         BeginDeleteTeam(q, r, t) \/ \E m \in Users \cup {Nobody} : BeginTeam(q, r, t, m)
  PROVE  MembershipInv'
<1>1. CASE BeginDeleteTeam(q, r, t)
  <2> DEFINE c == About("deleteTeam", r, Nobody, t)
  <2>1. /\ c \in ChangeRecords /\ c.op = "deleteTeam" /\ c.user = Nobody /\ c.team = t
        /\ c.heir = Nobody
    BY AboutRecord DEF MembershipInv, TeamOps
  <2>2. WellBegun(c) /\ SeesUser(c) /\ SeesHeir(c) /\ SeesTeams(c)
    BY <2>1 DEF WellBegun, SeesUser, SeesHeir, SeesTeams, UserOps, MemberOps
  <2>3. QED
    BY <1>1, <2>1, <2>2, BeginKeepsInv DEF BeginDeleteTeam
<1>2. CASE \E m \in Users \cup {Nobody} : BeginTeam(q, r, t, m)
  <2>1. PICK m \in Users \cup {Nobody} : BeginTeam(q, r, t, m)
    BY <1>2
  <2> DEFINE op == IF t \in teams THEN "updateTeam" ELSE "createTeam"
             c == About(op, r, m, t)
  <2>2. op \in TeamOps /\ op \in {"createTeam", "updateTeam"}
    BY DEF TeamOps
  <2> HIDE DEF op
  <2>3. /\ c \in ChangeRecords /\ c.op = op /\ c.user = m /\ c.team = t /\ c.heir = Nobody
        /\ m \in Users => c.saw = users[m]
    BY <2>2, AboutRecord DEF MembershipInv
  <2>4. m # Nobody => users[m].state = "active"
    BY <2>1 DEF BeginTeam
  <2>5. WellBegun(c) /\ SeesUser(c) /\ SeesHeir(c) /\ SeesTeams(c)
    BY <2>2, <2>3, <2>4 DEF WellBegun, SeesUser, SeesHeir, SeesTeams, UserOps, MemberOps
  <2>6. BeginChange(q, c)
    BY <2>1 DEF BeginTeam, op
  <2>7. QED
    BY <2>3, <2>5, <2>6, BeginKeepsInv
<1>3. QED
  BY <1>1, <1>2

LEMMA BeginUserChange ==
  ASSUME MembershipInv, begun < MaxChanges, NEW q \in Changes, NEW r \in Users, NEW u \in Users,
         \/ \E op \in {"restore", "hardDelete"} : BeginOnDeleted(q, r, u, op)
         \/ \E t \in Teams : BeginAdd(q, r, t, u) \/ BeginRemove(q, r, t, u)
         \/ \E role \in Roles, t \in Teams \cup {Nobody} :
              \/ BeginCreateUser(q, r, u, role, t)
              \/ \E state \in {"active", "inactive"} : BeginUpdateUser(q, r, u, role, t, state)
  PROVE  MembershipInv'
<1> USE DEF UserOps, MemberOps, TeamOps
<1>1. CASE \E op \in {"restore", "hardDelete"} : BeginOnDeleted(q, r, u, op)
  <2>1. PICK op \in {"restore", "hardDelete"} : BeginOnDeleted(q, r, u, op)
    BY <1>1
  <2> DEFINE c == About(op, r, u, Nobody)
  <2>2. /\ c \in ChangeRecords /\ c.op = op /\ c.by = r /\ c.user = u /\ c.heir = Nobody
        /\ c.saw = users[u]
    BY AboutRecord DEF MembershipInv
  <2>3. r # u
    BY <2>1 DEF BeginOnDeleted, IsSuperadmin
  <2>4. WellBegun(c) /\ SeesUser(c) /\ SeesHeir(c) /\ SeesTeams(c)
    BY <2>2, <2>3 DEF WellBegun, SeesUser, SeesHeir, SeesTeams
  <2>5. QED
    BY <2>1, <2>2, <2>4, BeginKeepsInv DEF BeginOnDeleted
<1>2. CASE \E t \in Teams : BeginAdd(q, r, t, u) \/ BeginRemove(q, r, t, u)
  <2>1. PICK t \in Teams, op \in MemberOps : BeginChange(q, About(op, r, u, t)) /\ Present(u)
    BY <1>2 DEF BeginAdd, BeginRemove
  <2> DEFINE c == About(op, r, u, t)
  <2>2. /\ c \in ChangeRecords /\ c.op = op /\ c.user = u /\ c.team = t /\ c.heir = Nobody
        /\ c.saw = users[u]
    BY AboutRecord DEF MembershipInv
  <2>3. WellBegun(c) /\ SeesUser(c) /\ SeesHeir(c) /\ SeesTeams(c)
    BY <2>1, <2>2 DEF WellBegun, SeesUser, SeesHeir, SeesTeams, Present
  <2>4. QED
    BY <2>1, <2>2, <2>3, BeginKeepsInv
<1>3. CASE \E role \in Roles, t \in Teams \cup {Nobody} :
             \/ BeginCreateUser(q, r, u, role, t)
             \/ \E state \in {"active", "inactive"} : BeginUpdateUser(q, r, u, role, t, state)
  <2>1. PICK role \in Roles, t \in Teams \cup {Nobody} :
             \/ BeginCreateUser(q, r, u, role, t)
             \/ \E state \in {"active", "inactive"} : BeginUpdateUser(q, r, u, role, t, state)
    BY <1>3
  <2>2. CASE BeginCreateUser(q, r, u, role, t)
    <3> DEFINE a == About("createUser", r, u, t)
               c == [a EXCEPT !.role = role]
    <3>1. a \in ChangeRecords /\ a.op = "createUser" /\ a.user = u /\ a.heir = Nobody /\ a.saw = users[u]
      BY AboutRecord DEF MembershipInv
    <3> HIDE DEF a
    <3>2. c \in ChangeRecords /\ c.op = "createUser" /\ c.user = u /\ c.heir = Nobody /\ c.saw = users[u]
      BY <3>1 DEF ChangeRecords
    <3>3. WellBegun(c) /\ SeesUser(c) /\ SeesHeir(c) /\ SeesTeams(c)
      BY <3>2 DEF WellBegun, SeesUser, SeesHeir, SeesTeams
    <3>4. BeginChange(q, c)
      BY <2>2 DEF BeginCreateUser, a
    <3>5. QED
      BY <3>2, <3>3, <3>4, BeginKeepsInv
  <2>3. CASE \E state \in {"active", "inactive"} : BeginUpdateUser(q, r, u, role, t, state)
    <3>1. PICK state \in {"active", "inactive"} : BeginUpdateUser(q, r, u, role, t, state)
      BY <2>3
    <3> DEFINE a == About("updateUser", r, u, t)
               c == [a EXCEPT !.role = role, !.state = state]
    <3>2. a \in ChangeRecords /\ a.op = "updateUser" /\ a.user = u /\ a.heir = Nobody /\ a.saw = users[u]
      BY AboutRecord DEF MembershipInv
    <3> HIDE DEF a
    <3>3. c \in ChangeRecords /\ c.op = "updateUser" /\ c.user = u /\ c.heir = Nobody /\ c.saw = users[u]
      BY <3>2 DEF ChangeRecords
    <3>4. users[u].state \in {"active", "inactive"}
      BY <3>1 DEF BeginUpdateUser, Present
    <3>5. WellBegun(c) /\ SeesUser(c) /\ SeesHeir(c) /\ SeesTeams(c)
      BY <3>3, <3>4 DEF WellBegun, SeesUser, SeesHeir, SeesTeams
    <3>6. BeginChange(q, c)
      BY <3>1 DEF BeginUpdateUser, a
    <3>7. QED
      BY <3>3, <3>5, <3>6, BeginKeepsInv
  <2>4. QED
    BY <2>1, <2>2, <2>3
<1>4. QED
  BY <1>1, <1>2, <1>3

LEMMA BeginDeletion ==
  ASSUME MembershipInv, begun < MaxChanges, NEW q \in Changes, NEW r \in Users, NEW u \in Users,
         BeginSoftDelete(q, r, u)
  PROVE  MembershipInv'
<1>1. PICK f \in IF Fallbacks(u) = {} THEN {Nobody} ELSE Fallbacks(u) :
        BeginChange(q, [About("softDelete", r, u, Nobody) EXCEPT !.managed = Managed(u), !.heir = f])
  BY DEF BeginSoftDelete
<1>2. r # u /\ users[u] \in User
  BY DEF BeginSoftDelete, MayDelete, MembershipInv, MembershipTypeOK
<1>3. f = Nobody \/ (f \in Users /\ f # u /\ users[f].state = "active")
  BY <1>1 DEF Fallbacks, IsSuperadmin
<1> DEFINE a == About("softDelete", r, u, Nobody)
           c == [a EXCEPT !.managed = Managed(u), !.heir = f]
<1>4. a \in ChangeRecords /\ a.op = "softDelete" /\ a.by = r /\ a.user = u /\ a.saw = users[u]
  BY AboutRecord DEF MembershipInv, UserOps, MemberOps, TeamOps
<1> HIDE DEF a
<1>5. Managed(u) \in SUBSET Teams
  BY DEF Managed, MembershipInv, MembershipTypeOK
<1>6. /\ c \in ChangeRecords /\ c.op = "softDelete" /\ c.by = r /\ c.user = u
      /\ c.saw = users[u] /\ c.heir = f /\ c.managed = Managed(u)
  BY <1>3, <1>4, <1>5 DEF ChangeRecords
<1> HIDE DEF c
<1>7. WellBegun(c) /\ SeesUser(c) /\ SeesHeir(c)
  BY <1>2, <1>3, <1>6 DEF WellBegun, SeesUser, SeesHeir, UserOps, MemberOps, TeamOps
<1>8. SeesTeams(c)
  BY <1>2, <1>6 DEF SeesTeams, Managed, User, Roles
<1>9. BeginChange(q, c)
  BY <1>1 DEF a, c
<1>10. QED
  BY <1>6, <1>7, <1>8, <1>9, BeginKeepsInv

(***************************************************************************)
(* A request commits                                                       *)
(***************************************************************************)
\* What is written is about the user of the request and its heir; others may lose their
\* primary team.
Limited(q) ==
  LET c == changes[q] IN
  /\ Finish(q)
  /\ \A v \in Users \ {c.user} :
       users'[v] \in {users[v], [users[v] EXCEPT !.primary = Nobody]}
  /\ \A t \in teams' :
       IF t \in teams THEN managers'[t] \in {managers[t], Nobody, c.user, c.heir}
                      ELSE managers'[t] \in {Nobody, c.user}

\* Whoever is not in `crossed` after a commit is in no other request under way.
LEMMA Crossing ==
  ASSUME NEW q \in Changes, Finish(q), NEW v \in Users \ crossed'
  PROVE  /\ v \notin crossed
         /\ \A p \in Changes \ {q} :
              v \in {changes[p].user, changes[p].heir} => v \notin {changes[q].user, changes[q].heir}
  BY DEF Finish, Concerns

LEMMA LimitedKeepsSnapshots ==
  ASSUME MembershipInv, MembershipTypeOK', NEW q \in Changes, Limited(q)
  PROVE  Snapshots'
<1> SUFFICES ASSUME NEW p \in Changes
             PROVE  /\ WellBegun(changes'[p]) /\ SeesUser(changes[p])'
                    /\ SeesHeir(changes[p])' /\ SeesTeams(changes[p])'
  BY DEF Snapshots, WellBegun
<1>1. changes' = [changes EXCEPT ![q] = NoChange] /\ Finish(q)
  BY DEF Limited, Finish
<1>2. CASE p = q
  <2>1. changes'[p] = NoChange
    BY <1>1, <1>2 DEF MembershipInv, MembershipTypeOK
  <2>2. QED
    BY <2>1 DEF NoChange, WellBegun, SeesUser, SeesHeir, SeesTeams, UserOps, MemberOps, TeamOps
<1>3. CASE p # q
  <2> DEFINE c == changes[p]
  <2>1. changes'[p] = c /\ c \in ChangeRecords
    BY <1>1, <1>3 DEF MembershipInv, MembershipTypeOK
  <2>2. WellBegun(c) /\ SeesUser(c) /\ SeesHeir(c) /\ SeesTeams(c)
    BY DEF MembershipInv, Snapshots
  <2>3. ASSUME NEW v \in Users \ crossed', v \in {c.user, c.heir}
        PROVE  /\ v \notin crossed /\ v # changes[q].user /\ v # changes[q].heir
               /\ users'[v] \in {users[v], [users[v] EXCEPT !.primary = Nobody]}
               /\ users[v] \in User
    BY <1>1, <1>3, <2>3, Crossing DEF Limited, MembershipInv, MembershipTypeOK
  <2>4. WellBegun(changes'[p])
    BY <2>1, <2>2
  <2>5. SeesUser(changes[p])'
    <3> SUFFICES ASSUME c.user \in Users \ crossed'
                 PROVE  users'[c.user] \in {c.saw, [c.saw EXCEPT !.primary = Nobody]}
      BY <2>1 DEF SeesUser
    <3>1. users[c.user] \in {c.saw, [c.saw EXCEPT !.primary = Nobody]}
      BY <2>2, <2>3 DEF SeesUser
    <3>2. c.saw \in User
      BY <2>1 DEF ChangeRecords
    <3>3. QED
      BY <2>3, <3>1, <3>2 DEF User
  <2>6. SeesHeir(changes[p])'
    <3> SUFFICES ASSUME c.heir \in Users \ crossed' PROVE users'[c.heir].state = "active"
      BY <2>1 DEF SeesHeir
    <3>1. users[c.heir].state = "active"
      BY <2>2, <2>3 DEF SeesHeir
    <3>2. QED
      BY <2>3, <3>1 DEF User
  <2>7. SeesTeams(changes[p])'
    <3> SUFFICES ASSUME c.op = "softDelete", c.user \in Users \ crossed', c.saw.role # "user",
                        NEW t \in teams', managers'[t] = c.user
                 PROVE  t \in c.managed
      BY <2>1 DEF SeesTeams
    <3>1. c.user # changes[q].user /\ c.user # changes[q].heir /\ c.user \notin crossed /\ c.user # Nobody
      BY <2>3
    <3>2. t \in teams /\ managers[t] = c.user
      BY <3>1 DEF Limited
    <3>3. QED
      BY <2>2, <3>1, <3>2 DEF SeesTeams
  <2>8. QED
    BY <2>4, <2>5, <2>6, <2>7
<1>4. QED
  BY <1>2, <1>3

\* A deleted user manages nothing, if this holds of the user the request is about.
LEMMA LimitedDeletesManagers ==
  ASSUME MembershipInv, NEW q \in Changes, Limited(q),
         changes[q].user \in Users \ crossed' =>
           \/ users'[changes[q].user].state # "deleted"
           \/ \A t \in teams' : managers'[t] # changes[q].user
  PROVE  DeletedUsersManageNothing'
<1> DEFINE c == changes[q]
<1> SUFFICES ASSUME NEW t \in teams', managers'[t] # Nobody,
                    users'[managers'[t]].state = "deleted", managers'[t] \notin crossed'
             PROVE  users'[managers'[t]].role = "user"
  BY DEF DeletedUsersManageNothing
<1> DEFINE m == managers'[t]
<1>1. c \in ChangeRecords /\ SeesHeir(c) /\ crossed \subseteq crossed'
  BY DEF MembershipInv, MembershipTypeOK, Snapshots, Limited, Finish
<1>2. m \in {managers[t], c.user, c.heir} /\ (t \notin teams => m = c.user)
  BY DEF Limited
<1>3. m \in Users
  BY <1>1, <1>2 DEF ChangeRecords, MembershipInv, MembershipTypeOK
<1>4. m # c.user /\ t \in teams
  BY <1>2, <1>3
<1>5. users[m] \in User /\ users'[m].state = users[m].state /\ users'[m].role = users[m].role
  BY <1>3, <1>4 DEF Limited, MembershipInv, MembershipTypeOK, User
<1>6. m # c.heir
  BY <1>1, <1>3, <1>5 DEF SeesHeir
<1>7. managers[t] = m
  BY <1>2, <1>4, <1>6
<1>8. QED
  BY <1>1, <1>4, <1>5, <1>7 DEF MembershipInv, DeletedUsersManageNothing

\* The primary team is one of the user's, if this holds of the user the request is about.
LEMMA LimitedMovesUsers ==
  ASSUME MembershipInv, NEW q \in Changes, Limited(q),
         \A v \in Users \ {changes[q].user}, t \in Teams :
           <<v, t>> \in members /\ users'[v].primary = t => <<v, t>> \in members',
         changes[q].user \in Users \ crossed' /\ users'[changes[q].user].primary # Nobody =>
           <<changes[q].user, users'[changes[q].user].primary>> \in members'
  PROVE  PrimaryIsMembership'
<1> SUFFICES ASSUME NEW v \in Users \ crossed', users'[v].primary # Nobody
             PROVE  <<v, users'[v].primary>> \in members'
  BY DEF PrimaryIsMembership
<1>1. CASE v = changes[q].user
  BY <1>1
<1>2. CASE v # changes[q].user
  <2>1. users[v] \in User /\ users'[v].primary = users[v].primary
    BY <1>2 DEF Limited, MembershipInv, MembershipTypeOK, User
  <2>2. v \notin crossed /\ users[v].primary \in Teams
    BY <2>1, Crossing DEF Limited, User
  <2>3. QED
    BY <1>2, <2>1, <2>2 DEF MembershipInv, PrimaryIsMembership
<1>3. QED
  BY <1>1, <1>2

LEMMA FinishTypes ==
  ASSUME MembershipInv, NEW q \in Changes, Finish(q)
  PROVE  /\ changes' \in [Changes -> ChangeRecords]
         /\ begun' \in 0..MaxChanges /\ crossed' \subseteq Users /\ crossed \subseteq crossed'
<1>1. NoChange \in ChangeRecords
  BY DEF NoChange, NewUser, User, Roles, ChangeRecords
<1>2. Concerns(changes[q]) \subseteq Users
  BY DEF Concerns, MembershipInv, MembershipTypeOK, ChangeRecords
<1>3. QED
  BY <1>1, <1>2 DEF Finish, MembershipInv, MembershipTypeOK

\* What a request under way is known to be.
LEMMA ChangeFacts ==
  ASSUME MembershipInv, NEW q \in Changes
  PROVE  /\ changes[q] \in ChangeRecords /\ changes[q].saw \in User
         /\ WellBegun(changes[q]) /\ SeesUser(changes[q]) /\ SeesHeir(changes[q])
         /\ SeesTeams(changes[q])
  BY DEF MembershipInv, MembershipTypeOK, Snapshots, ChangeRecords

LEMMA WriteTeamKeepsInv ==
  ASSUME MembershipInv, NEW q \in Changes, WriteTeam(q)
  PROVE  MembershipInv'
<1> DEFINE c == changes[q]
           u == c.user
<1>1. /\ c \in ChangeRecords /\ c.saw \in User /\ c.team \in Teams /\ Finish(q)
      /\ u # Nobody => u \in Users /\ c.saw.state = "active"
  BY ChangeFacts DEF WriteTeam, WellBegun, TeamOps, ChangeRecords
<1>2. /\ teams' = teams \cup {c.team} /\ named' = named \cup {c.team}
      /\ managers' = [managers EXCEPT ![c.team] = Written(managers[c.team], c.was, u)]
  BY DEF WriteTeam
<1>3. u # Nobody =>
        /\ members' = members \cup {<<u, c.team>>}
        /\ users' = [users EXCEPT ![u] =
             [users[u] EXCEPT !.primary = Written(users[u].primary, c.saw.primary, c.team),
                              !.role = IF c.saw.role = "user" THEN "team_manager" ELSE users[u].role]]
  BY <1>1 DEF WriteTeam, MembershipInv, MembershipTypeOK
<1>4. u = Nobody => UNCHANGED <<users, members>>
  BY DEF WriteTeam
<1>5. u # Nobody =>
        /\ users' \in [Users -> User]
        /\ users'[u].primary = Written(users[u].primary, c.saw.primary, c.team)
        /\ users'[u].state = users[u].state
        /\ \A v \in Users \ {u} : users'[v] = users[v]
  <2> SUFFICES ASSUME u # Nobody
               PROVE  /\ users' \in [Users -> User]
                      /\ users'[u].primary = Written(users[u].primary, c.saw.primary, c.team)
                      /\ users'[u].state = users[u].state
                      /\ \A v \in Users \ {u} : users'[v] = users[v]
    OBVIOUS
  <2> DEFINE primary == Written(users[u].primary, c.saw.primary, c.team)
             role == IF c.saw.role = "user" THEN "team_manager" ELSE users[u].role
  <2>1. users \in [Users -> User] /\ u \in Users
    BY <1>1 DEF MembershipInv, MembershipTypeOK
  <2>2. primary \in Teams \cup {Nobody} /\ role \in Roles
    BY <1>1, <2>1 DEF Written, User, Roles
  <2> HIDE DEF primary, role
  <2>3. users' = [users EXCEPT ![u] = [users[u] EXCEPT !.primary = primary, !.role = role]]
    BY <1>3 DEF primary, role
  <2>4. /\ [users[u] EXCEPT !.primary = primary, !.role = role] \in User
        /\ [users[u] EXCEPT !.primary = primary, !.role = role].primary = primary
        /\ [users[u] EXCEPT !.primary = primary, !.role = role].state = users[u].state
    BY <2>1, <2>2 DEF User
  <2>5. QED
    BY <2>1, <2>3, <2>4 DEF primary
<1>6. MembershipTypeOK'
  <2>1. users' \in [Users -> User] /\ members' \subseteq Users \X Teams
    BY <1>1, <1>3, <1>4, <1>5 DEF MembershipInv, MembershipTypeOK
  <2>2. teams' \subseteq named' /\ named' \subseteq Teams /\ managers' \in [Teams -> Users \cup {Nobody}]
    BY <1>1, <1>2 DEF MembershipInv, MembershipTypeOK, Written
  <2>3. QED
    BY <1>1, <2>1, <2>2, FinishTypes DEF MembershipTypeOK
<1>7. Limited(q)
  <2>1. \A v \in Users \ {u} : users'[v] = users[v]
    BY <1>4, <1>5
  <2>2. \A t \in teams' \ teams : managers[t] = Nobody /\ t = c.team
    BY <1>1, <1>2 DEF MembershipInv, NoTeamNoManager
  <2>3. \A t \in teams' : managers'[t] \in {managers[t], u}
    BY <1>1, <1>2 DEF Written, MembershipInv, MembershipTypeOK
  <2>4. QED
    BY <1>1, <2>1, <2>2, <2>3 DEF Limited
<1>8. NoTeamNoManager'
  BY <1>1, <1>2 DEF MembershipInv, MembershipTypeOK, NoTeamNoManager
<1>9. PrimaryIsMembership'
  <2>1. u \in Users \ crossed' /\ users'[u].primary # Nobody => <<u, users'[u].primary>> \in members'
    <3> SUFFICES ASSUME u \in Users \ crossed', users'[u].primary # Nobody
                 PROVE  <<u, users'[u].primary>> \in members'
      OBVIOUS
    <3>1. u \notin crossed /\ u # Nobody
      BY <1>1, FinishTypes
    <3>2. users[u].primary # Nobody => <<u, users[u].primary>> \in members
      BY <3>1 DEF MembershipInv, PrimaryIsMembership
    <3>3. QED
      BY <1>3, <1>5, <3>1, <3>2 DEF Written
  <2>2. members \subseteq members'
    BY <1>3, <1>4
  <2>3. QED
    BY <1>7, <2>1, <2>2, LimitedMovesUsers
<1>10. DeletedUsersManageNothing'
  <2>1. u \in Users \ crossed' => users'[u].state # "deleted"
    <3> SUFFICES ASSUME u \in Users \ crossed' PROVE users'[u].state # "deleted"
      OBVIOUS
    <3>1. u \notin crossed /\ u # Nobody
      BY <1>1, FinishTypes
    <3>2. users[u] \in {c.saw, [c.saw EXCEPT !.primary = Nobody]}
      BY <3>1, ChangeFacts DEF SeesUser
    <3>3. users[u].state = "active"
      BY <1>1, <3>1, <3>2 DEF User
    <3>4. QED
      BY <1>5, <3>1, <3>3
  <2>2. QED
    BY <1>7, <2>1, LimitedDeletesManagers
<1>11. QED
  BY <1>6, <1>7, <1>8, <1>9, <1>10, LimitedKeepsSnapshots DEF MembershipInv

LEMMA WriteDeleteTeamKeepsInv ==
  ASSUME MembershipInv, NEW q \in Changes, WriteDeleteTeam(q)
  PROVE  MembershipInv'
<1> DEFINE c == changes[q]
           t == c.team
<1>1. c \in ChangeRecords /\ t \in Teams /\ Finish(q)
  BY ChangeFacts DEF WriteDeleteTeam, WellBegun, TeamOps
<1>2. /\ teams' = teams \ {t} /\ named' = named
      /\ managers' = [managers EXCEPT ![t] = Nobody]
      /\ members' = {pair \in members : pair[2] # t}
      /\ users' = [u \in Users |-> IF users[u].primary = t THEN [users[u] EXCEPT !.primary = Nobody]
                                                           ELSE users[u]]
  BY DEF WriteDeleteTeam
<1>3. /\ users' \in [Users -> User]
      /\ \A u \in Users : /\ users'[u] \in {users[u], [users[u] EXCEPT !.primary = Nobody]}
                          /\ users'[u].primary # t
                          /\ users'[u].primary \in {users[u].primary, Nobody}
                          /\ users'[u].state = users[u].state /\ users'[u].role = users[u].role
  BY <1>1, <1>2 DEF MembershipInv, MembershipTypeOK, User
<1>4. MembershipTypeOK'
  BY <1>1, <1>2, <1>3, FinishTypes DEF MembershipInv, MembershipTypeOK
<1>5. Limited(q)
  BY <1>1, <1>2, <1>3 DEF Limited, MembershipInv, MembershipTypeOK
<1>6. NoTeamNoManager'
  BY <1>1, <1>2 DEF MembershipInv, MembershipTypeOK, NoTeamNoManager
<1>7. PrimaryIsMembership'
  <2> SUFFICES ASSUME NEW u \in Users \ crossed', users'[u].primary # Nobody
               PROVE  <<u, users'[u].primary>> \in members'
    BY DEF PrimaryIsMembership
  <2>1. u \notin crossed /\ users'[u].primary = users[u].primary /\ users[u].primary # t
    BY <1>1, <1>3, FinishTypes
  <2>2. <<u, users[u].primary>> \in members
    BY <2>1 DEF MembershipInv, PrimaryIsMembership
  <2>3. QED
    BY <1>2, <2>1, <2>2
<1>8. DeletedUsersManageNothing'
  <2> SUFFICES ASSUME NEW s \in teams', managers'[s] # Nobody,
                      users'[managers'[s]].state = "deleted"
               PROVE  managers'[s] \in crossed' \/ users'[managers'[s]].role = "user"
    BY DEF DeletedUsersManageNothing
  <2>1. s \in teams /\ managers'[s] = managers[s] /\ managers[s] \in Users
    BY <1>1, <1>2 DEF MembershipInv, MembershipTypeOK
  <2>2. QED
    BY <1>1, <1>3, <2>1, FinishTypes DEF MembershipInv, DeletedUsersManageNothing
<1>9. QED
  BY <1>4, <1>5, <1>6, <1>7, <1>8, LimitedKeepsSnapshots DEF MembershipInv

\* Members come and go; the rest of a team stays.
LEMMA WriteMemberKeepsInv ==
  ASSUME MembershipInv, NEW q \in Changes, WriteAdd(q) \/ WriteRemove(q)
  PROVE  MembershipInv'
<1> DEFINE c == changes[q]
           u == c.user
<1>1. /\ c \in ChangeRecords /\ c.saw \in User /\ u \in Users /\ c.team \in Teams
      /\ c.saw.state \in {"active", "inactive"}
      /\ Finish(q) /\ UNCHANGED <<teams, named, managers>>
  BY ChangeFacts DEF WriteAdd, WriteRemove, WellBegun, MemberOps
<1>2. PICK next \in Teams \cup {Nobody} :
        /\ users' = [users EXCEPT ![u] = [users[u] EXCEPT !.primary = next]]
        /\ \/ /\ WriteAdd(q) /\ members' = members \cup {<<u, c.team>>}
              /\ next = IF c.saw.primary = Nobody THEN c.team ELSE users[u].primary
           \/ /\ WriteRemove(q) /\ members' = members \ {<<u, c.team>>}
              /\ IF c.saw.primary = c.team THEN next \in NextTeam(u, c.team)
                                           ELSE next = users[u].primary
  <2>1. CASE WriteAdd(q)
    <3> DEFINE n == IF c.saw.primary = Nobody THEN c.team ELSE users[u].primary
    <3>1. n \in Teams \cup {Nobody}
      BY <1>1 DEF MembershipInv, MembershipTypeOK, User
    <3>2. users' = [users EXCEPT ![u] = [users[u] EXCEPT !.primary = n]]
      BY <1>1, <2>1 DEF WriteAdd, MembershipInv, MembershipTypeOK
    <3>3. QED
      BY <2>1, <3>1, <3>2 DEF WriteAdd
  <2>2. CASE WriteRemove(q)
    <3>1. PICK n \in NextTeam(u, c.team) :
            users' = [users EXCEPT ![u].primary = IF c.saw.primary = c.team THEN n ELSE @]
      BY <2>2 DEF WriteRemove
    <3> DEFINE p == IF c.saw.primary = c.team THEN n ELSE users[u].primary
    <3>2. p \in Teams \cup {Nobody}
      BY <1>1, <3>1 DEF NextTeam, TeamsOf, MembershipInv, MembershipTypeOK, User
    <3>3. users' = [users EXCEPT ![u] = [users[u] EXCEPT !.primary = p]]
      BY <1>1, <3>1 DEF MembershipInv, MembershipTypeOK
    <3>4. QED
      BY <2>2, <3>1, <3>2, <3>3 DEF WriteRemove
  <2>3. QED
    BY <2>1, <2>2
<1>3. /\ users' \in [Users -> User]
      /\ users'[u].primary = next /\ users'[u].state = users[u].state
      /\ \A v \in Users \ {u} : users'[v] = users[v]
  BY <1>1, <1>2 DEF MembershipInv, MembershipTypeOK, User
<1>4. MembershipTypeOK'
  BY <1>1, <1>2, <1>3, FinishTypes DEF MembershipInv, MembershipTypeOK
<1>5. Limited(q)
  BY <1>1, <1>3 DEF Limited
<1>6. NoTeamNoManager'
  BY <1>1 DEF MembershipInv, NoTeamNoManager
<1>7. ASSUME u \notin crossed' PROVE users[u] \in {c.saw, [c.saw EXCEPT !.primary = Nobody]} /\ u \notin crossed
  BY <1>1, <1>7, FinishTypes, ChangeFacts DEF SeesUser
<1>8. PrimaryIsMembership'
  <2>1. u \notin crossed' /\ next # Nobody => <<u, next>> \in members'
    <3> SUFFICES ASSUME u \notin crossed', next # Nobody PROVE <<u, next>> \in members'
      OBVIOUS
    <3>1. users[u].primary # Nobody => <<u, users[u].primary>> \in members
      BY <1>1, <1>7 DEF MembershipInv, PrimaryIsMembership
    <3>2. users[u].primary \in {c.saw.primary, Nobody}
      BY <1>1, <1>7 DEF User
    <3>3. \A n \in NextTeam(u, c.team) \ {Nobody} : <<u, n>> \in members /\ n # c.team
      BY DEF NextTeam, TeamsOf
    <3>4. QED
      BY <1>2, <3>1, <3>2, <3>3
  <2>2. \A v \in Users \ {u}, t \in Teams : <<v, t>> \in members => <<v, t>> \in members'
    BY <1>2
  <2>3. QED
    BY <1>3, <1>5, <2>1, <2>2, LimitedMovesUsers
<1>9. DeletedUsersManageNothing'
  <2>1. u \notin crossed' => users'[u].state # "deleted"
    BY <1>1, <1>3, <1>7 DEF User
  <2>2. QED
    BY <1>5, <2>1, LimitedDeletesManagers
<1>10. QED
  BY <1>4, <1>5, <1>6, <1>8, <1>9, LimitedKeepsSnapshots DEF MembershipInv

LEMMA WriteCreateUserKeepsInv ==
  ASSUME MembershipInv, NEW q \in Changes, WriteCreateUser(q)
  PROVE  MembershipInv'
<1> DEFINE c == changes[q]
           u == c.user
           new == [role |-> c.role, primary |-> c.team, state |-> "active"]
<1>1. /\ c \in ChangeRecords /\ u \in Users /\ c.team \in Teams \cup {Nobody}
      /\ Finish(q) /\ UNCHANGED <<teams, named, managers>>
      /\ users' = [users EXCEPT ![u] = new] /\ members' = Joined(c)
  BY ChangeFacts DEF WriteCreateUser, WellBegun, UserOps, ChangeRecords
<1>2. new \in User
  BY <1>1 DEF User, ChangeRecords
<1>3. /\ users' \in [Users -> User] /\ users'[u] = new
      /\ \A v \in Users \ {u} : users'[v] = users[v]
  BY <1>1, <1>2 DEF MembershipInv, MembershipTypeOK
<1>4. members \subseteq members' /\ members' \subseteq Users \X Teams
  BY <1>1 DEF Joined, MembershipInv, MembershipTypeOK
<1>5. MembershipTypeOK'
  BY <1>1, <1>3, <1>4, FinishTypes DEF MembershipInv, MembershipTypeOK
<1>6. Limited(q)
  BY <1>1, <1>3 DEF Limited
<1>7. NoTeamNoManager'
  BY <1>1 DEF MembershipInv, NoTeamNoManager
<1>8. PrimaryIsMembership'
  <2>1. c.team # Nobody => <<u, c.team>> \in members'
    BY <1>1 DEF Joined
  <2>2. QED
    BY <1>3, <1>4, <1>6, <2>1, LimitedMovesUsers
<1>9. DeletedUsersManageNothing'
  BY <1>3, <1>6, LimitedDeletesManagers
<1>10. QED
  BY <1>5, <1>6, <1>7, <1>8, <1>9, LimitedKeepsSnapshots DEF MembershipInv

LEMMA WriteUpdateUserKeepsInv ==
  ASSUME MembershipInv, NEW q \in Changes, WriteUpdateUser(q)
  PROVE  MembershipInv'
<1> DEFINE c == changes[q]
           u == c.user
           role == Written(users[u].role, c.saw.role, c.role)
           primary == IF c.team = Nobody THEN users[u].primary
                      ELSE Written(users[u].primary, c.saw.primary, c.team)
           state == IF users[u].state = "deleted" THEN users[u].state
                    ELSE Written(users[u].state, c.saw.state, c.state)
<1>1. /\ c \in ChangeRecords /\ c.saw \in User /\ u \in Users /\ c.team \in Teams \cup {Nobody}
      /\ c.saw.state \in {"active", "inactive"} /\ c.state \in {"active", "inactive"}
      /\ Finish(q) /\ UNCHANGED <<teams, named, managers>> /\ members' = Joined(c)
  BY ChangeFacts DEF WriteUpdateUser, WellBegun, UserOps, ChangeRecords
<1>2. users \in [Users -> User] /\ users[u] \in User
  BY <1>1 DEF MembershipInv, MembershipTypeOK
<1>3. /\ role \in Roles /\ primary \in Teams \cup {Nobody}
      /\ state \in {"new", "active", "inactive", "deleted", "gone"}
  BY <1>1, <1>2 DEF Written, User, ChangeRecords
<1>4. users' = [users EXCEPT ![u] = [users[u] EXCEPT !.role = role, !.primary = primary,
                                                     !.state = state]]
  BY <1>1, <1>2 DEF WriteUpdateUser
<1>5. /\ users' \in [Users -> User]
      /\ users'[u].primary = primary /\ users'[u].state = state
      /\ \A v \in Users \ {u} : users'[v] = users[v]
  <2> HIDE DEF role, primary, state
  <2>1. /\ [users[u] EXCEPT !.role = role, !.primary = primary, !.state = state] \in User
        /\ [users[u] EXCEPT !.role = role, !.primary = primary, !.state = state].primary = primary
        /\ [users[u] EXCEPT !.role = role, !.primary = primary, !.state = state].state = state
    BY <1>2, <1>3 DEF User
  <2>2. QED
    BY <1>1, <1>2, <1>4, <2>1
<1>6. members \subseteq members' /\ members' \subseteq Users \X Teams
  BY <1>1 DEF Joined, MembershipInv, MembershipTypeOK
<1>7. MembershipTypeOK'
  BY <1>1, <1>5, <1>6, FinishTypes DEF MembershipInv, MembershipTypeOK
<1>8. Limited(q)
  BY <1>1, <1>5 DEF Limited
<1>9. NoTeamNoManager'
  BY <1>1 DEF MembershipInv, NoTeamNoManager
<1>10. PrimaryIsMembership'
  <2>1. u \notin crossed' /\ primary # Nobody => <<u, primary>> \in members'
    <3> SUFFICES ASSUME u \notin crossed', primary # Nobody PROVE <<u, primary>> \in members'
      OBVIOUS
    <3>1. users[u].primary # Nobody => <<u, users[u].primary>> \in members
      BY <1>1, FinishTypes DEF MembershipInv, PrimaryIsMembership
    <3>2. primary = users[u].primary \/ (c.team # Nobody /\ primary = c.team)
      BY DEF Written
    <3>3. c.team # Nobody => <<u, c.team>> \in members'
      BY <1>1 DEF Joined
    <3>4. QED
      BY <1>6, <3>1, <3>2, <3>3
  <2>2. QED
    BY <1>5, <1>6, <1>8, <2>1, LimitedMovesUsers
<1>11. DeletedUsersManageNothing'
  <2>1. u \notin crossed' => users'[u].state # "deleted"
    <3> SUFFICES ASSUME u \notin crossed' PROVE state # "deleted"
      BY <1>5
    <3>1. users[u] \in {c.saw, [c.saw EXCEPT !.primary = Nobody]}
      BY <1>1, FinishTypes, ChangeFacts DEF SeesUser
    <3>2. users[u].state \in {"active", "inactive"}
      BY <1>1, <3>1 DEF User
    <3>3. QED
      BY <1>1, <3>2 DEF Written
  <2>2. QED
    BY <1>8, <2>1, LimitedDeletesManagers
<1>12. QED
  BY <1>7, <1>8, <1>9, <1>10, <1>11, LimitedKeepsSnapshots DEF MembershipInv

LEMMA WriteSoftDeleteKeepsInv ==
  ASSUME MembershipInv, NEW q \in Changes, WriteSoftDelete(q)
  PROVE  MembershipInv'
<1> DEFINE c == changes[q]
           u == c.user
<1>1. /\ c \in ChangeRecords /\ u \in Users /\ c.managed \subseteq teams /\ c.saw \in User
      /\ c.heir \in Users \cup {Nobody} /\ c.heir # u /\ c.op = "softDelete"
      /\ Finish(q) /\ UNCHANGED <<teams, named>>
  BY ChangeFacts DEF WriteSoftDelete, WellBegun, UserOps, ChangeRecords
<1>2. /\ managers' = [t \in Teams |-> IF t \in c.managed THEN c.heir ELSE managers[t]]
      /\ members' = members \cup (IF c.heir = Nobody THEN {} ELSE {c.heir} \X c.managed)
      /\ users' = [users EXCEPT ![u] = [users[u] EXCEPT !.state = "deleted"]]
  BY <1>1 DEF WriteSoftDelete, MembershipInv, MembershipTypeOK
<1>3. /\ users' \in [Users -> User]
      /\ users'[u].primary = users[u].primary
      /\ \A v \in Users \ {u} : users'[v] = users[v]
  BY <1>1, <1>2 DEF MembershipInv, MembershipTypeOK, User
<1>4. members \subseteq members' /\ members' \subseteq Users \X Teams
  BY <1>1, <1>2 DEF MembershipInv, MembershipTypeOK
<1>5. managers' \in [Teams -> Users \cup {Nobody}]
  BY <1>1, <1>2 DEF MembershipInv, MembershipTypeOK
<1>6. MembershipTypeOK'
  BY <1>1, <1>3, <1>4, <1>5, FinishTypes DEF MembershipInv, MembershipTypeOK
<1>7. Limited(q)
  BY <1>1, <1>2, <1>3 DEF Limited, MembershipInv, MembershipTypeOK
<1>8. NoTeamNoManager'
  BY <1>1, <1>2 DEF MembershipInv, NoTeamNoManager
<1>9. PrimaryIsMembership'
  <2>1. u \notin crossed' /\ users[u].primary # Nobody => <<u, users[u].primary>> \in members
    BY <1>1, FinishTypes DEF MembershipInv, PrimaryIsMembership
  <2>2. QED
    BY <1>3, <1>4, <1>7, <2>1, LimitedMovesUsers
<1>10. DeletedUsersManageNothing'
  <2> SUFFICES ASSUME NEW t \in teams', managers'[t] # Nobody,
                      users'[managers'[t]].state = "deleted", managers'[t] \notin crossed'
               PROVE  users'[managers'[t]].role = "user"
    BY DEF DeletedUsersManageNothing
  <2> DEFINE m == managers'[t]
  <2>1. t \in teams /\ t \in Teams /\ m \in Users /\ m \notin crossed
    BY <1>1, <1>5, FinishTypes DEF MembershipInv, MembershipTypeOK
  <2>2. m # c.heir
    <3> SUFFICES ASSUME m = c.heir PROVE FALSE
      OBVIOUS
    <3>1. users[m].state = "active" /\ m # u
      BY <1>1, <2>1, ChangeFacts DEF SeesHeir
    <3>2. QED
      BY <1>3, <2>1, <3>1
  <2>3. t \notin c.managed /\ m = managers[t]
    BY <1>2, <2>1, <2>2
  <2>4. CASE m = u
    <3>1. c.saw.role = "user"
      BY <1>1, <2>1, <2>3, <2>4, ChangeFacts DEF SeesTeams
    <3>2. users[u] \in {c.saw, [c.saw EXCEPT !.primary = Nobody]}
      BY <2>1, <2>4, ChangeFacts DEF SeesUser
    <3>3. users[u].role = "user" /\ users'[u].role = users[u].role
      BY <1>1, <1>2, <3>1, <3>2 DEF User, MembershipInv, MembershipTypeOK
    <3>4. QED
      BY <2>4, <3>3
  <2>5. CASE m # u
    BY <1>3, <2>1, <2>3, <2>5 DEF MembershipInv, DeletedUsersManageNothing
  <2>6. QED
    BY <2>4, <2>5
<1>11. QED
  BY <1>6, <1>7, <1>8, <1>9, <1>10, LimitedKeepsSnapshots DEF MembershipInv

LEMMA WriteOnDeletedKeepsInv ==
  ASSUME MembershipInv, NEW q \in Changes, WriteRestore(q) \/ WriteHardDelete(q)
  PROVE  MembershipInv'
<1> DEFINE c == changes[q]
           u == c.user
<1>1. /\ c \in ChangeRecords /\ u \in Users /\ Finish(q) /\ UNCHANGED <<teams, named>>
      /\ users \in [Users -> User] /\ managers \in [Teams -> Users \cup {Nobody}]
  BY ChangeFacts DEF WriteRestore, WriteHardDelete, WellBegun, UserOps, MembershipInv, MembershipTypeOK
<1>2. PICK row \in User :
        /\ users' = [users EXCEPT ![u] = row] /\ row.state # "deleted"
        /\ row.primary \in {users[u].primary, Nobody}
        /\ row.primary # Nobody => members' = members
  <2>1. CASE WriteRestore(q)
    <3>1. [users[u] EXCEPT !.state = "active"] \in User
      BY <1>1 DEF User
    <3>2. users' = [users EXCEPT ![u] = [users[u] EXCEPT !.state = "active"]] /\ members' = members
      BY <1>1, <2>1 DEF WriteRestore
    <3>3. QED
      BY <1>1, <3>1, <3>2 DEF User
  <2>2. CASE WriteHardDelete(q)
    <3>1. [NewUser EXCEPT !.state = "gone"] \in User
      BY DEF NewUser, User, Roles
    <3>2. QED
      BY <2>2, <3>1 DEF WriteHardDelete, NewUser, User
  <2>3. QED
    BY <2>1, <2>2
<1>3. users' \in [Users -> User] /\ users'[u] = row /\ \A v \in Users \ {u} : users'[v] = users[v]
  BY <1>1, <1>2
<1>4. /\ members' \subseteq members
      /\ \A v \in Users \ {u}, t \in Teams : <<v, t>> \in members => <<v, t>> \in members'
  BY DEF WriteRestore, WriteHardDelete
<1>5. /\ managers' \in [Teams -> Users \cup {Nobody}]
      /\ \A t \in Teams : managers'[t] \in {managers[t], Nobody}
  BY <1>1 DEF WriteRestore, WriteHardDelete
<1>6. MembershipTypeOK'
  BY <1>1, <1>3, <1>4, <1>5, FinishTypes DEF MembershipInv, MembershipTypeOK
<1>7. Limited(q)
  BY <1>1, <1>3, <1>5 DEF Limited, MembershipInv, MembershipTypeOK
<1>8. NoTeamNoManager'
  BY <1>1, <1>5 DEF MembershipInv, NoTeamNoManager
<1>9. PrimaryIsMembership'
  <2>1. u \notin crossed' /\ row.primary # Nobody => <<u, row.primary>> \in members'
    BY <1>1, <1>2, FinishTypes DEF MembershipInv, PrimaryIsMembership
  <2>2. QED
    BY <1>3, <1>4, <1>7, <2>1, LimitedMovesUsers
<1>10. DeletedUsersManageNothing'
  BY <1>2, <1>3, <1>7, LimitedDeletesManagers
<1>11. QED
  BY <1>6, <1>7, <1>8, <1>9, <1>10, LimitedKeepsSnapshots DEF MembershipInv

LEMMA FailKeepsInv ==
  ASSUME MembershipInv, NEW q \in Changes, FailChange(q)
  PROVE  MembershipInv'
<1>1. /\ changes' = [changes EXCEPT ![q] = NoChange]
      /\ UNCHANGED <<users, members, teams, named, managers, begun, crossed>>
  BY DEF FailChange
<1>2. NoChange \in ChangeRecords
  BY DEF NoChange, NewUser, User, Roles, ChangeRecords
<1>3. MembershipTypeOK'
  BY <1>1, <1>2 DEF MembershipInv, MembershipTypeOK
<1>4. Snapshots'
  <2> SUFFICES ASSUME NEW p \in Changes
               PROVE  /\ WellBegun(changes'[p]) /\ SeesUser(changes[p])'
                      /\ SeesHeir(changes[p])' /\ SeesTeams(changes[p])'
    BY DEF Snapshots, WellBegun
  <2>1. changes'[p] \in {changes[p], NoChange}
    BY <1>1 DEF MembershipInv, MembershipTypeOK
  <2>2. CASE changes'[p] = NoChange
    BY <2>2 DEF NoChange, WellBegun, SeesUser, SeesHeir, SeesTeams, UserOps, MemberOps, TeamOps
  <2>3. CASE changes'[p] = changes[p]
    BY <1>1, <2>3, ChangeFacts DEF SeesUser, SeesHeir, SeesTeams
  <2>4. QED
    BY <2>1, <2>2, <2>3
<1>5. NoTeamNoManager' /\ PrimaryIsMembership' /\ DeletedUsersManageNothing'
  BY <1>1 DEF MembershipInv, NoTeamNoManager, PrimaryIsMembership, DeletedUsersManageNothing
<1>6. QED
  BY <1>3, <1>4, <1>5 DEF MembershipInv

LEMMA MembershipStep == MembershipInv /\ [MembershipNext]_memberVars => MembershipInv'
<1> SUFFICES ASSUME MembershipInv, [MembershipNext]_memberVars PROVE MembershipInv'
  OBVIOUS
<1>1. CASE UNCHANGED memberVars
  BY <1>1 DEF memberVars, MembershipInv, MembershipTypeOK, Snapshots, WellBegun, SeesUser, SeesHeir,
              SeesTeams, NoTeamNoManager, PrimaryIsMembership, DeletedUsersManageNothing
<1>2. ASSUME NEW q \in Changes, begun < MaxChanges, BeginSome(q) PROVE MembershipInv'
  <2>1. CASE \E r \in Users, t \in Teams :
               \/ BeginDeleteTeam(q, r, t)
               \/ \E m \in Users \cup {Nobody} : BeginTeam(q, r, t, m)
    BY <1>2, <2>1, BeginTeamChange
  <2>2. CASE \E r, u \in Users : BeginSoftDelete(q, r, u)
    BY <1>2, <2>2, BeginDeletion
  <2>3. CASE \E r, u \in Users :
          \/ \E op \in {"restore", "hardDelete"} : BeginOnDeleted(q, r, u, op)
          \/ \E t \in Teams : BeginAdd(q, r, t, u) \/ BeginRemove(q, r, t, u)
          \/ \E role \in Roles, t \in Teams \cup {Nobody} :
               \/ BeginCreateUser(q, r, u, role, t)
               \/ \E state \in {"active", "inactive"} : BeginUpdateUser(q, r, u, role, t, state)
    BY <1>2, <2>3, BeginUserChange
  <2>4. QED
    BY <1>2, <2>1, <2>2, <2>3 DEF BeginSome
<1>3. QED
  BY <1>1, <1>2, WriteTeamKeepsInv, WriteDeleteTeamKeepsInv, WriteMemberKeepsInv,
     WriteCreateUserKeepsInv, WriteUpdateUserKeepsInv, WriteSoftDeleteKeepsInv,
     WriteOnDeletedKeepsInv, FailKeepsInv DEF MembershipNext

(***************************************************************************)
(* The theorems                                                            *)
(***************************************************************************)
\* The rows keep their form, a team exists only under a key that was given out, and no
\* more requests are begun than the bound allows.
THEOREM MembershipTypeCorrect == MembershipSpec => []MembershipTypeOK
<1>1. MembershipInv => MembershipTypeOK
  BY DEF MembershipInv
<1>2. QED
  BY <1>1, MembershipInitInv, MembershipStep, PTL DEF MembershipSpec

\* Whatever requests do with users and teams, the primary team of a user is one he is a
\* member of, unless two requests about him crossed (team_service.py, user_service.py).
THEOREM PrimaryIsMembershipHolds == MembershipSpec => []PrimaryIsMembership
<1>1. MembershipInv => PrimaryIsMembership
  BY DEF MembershipInv
<1>2. QED
  BY <1>1, MembershipInitInv, MembershipStep, PTL DEF MembershipSpec

\* A deleted user manages no team, but for the exceptions that the property names
\* (soft_delete_user).
THEOREM DeletedUsersManageNothingHolds == MembershipSpec => []DeletedUsersManageNothing
<1>1. MembershipInv => DeletedUsersManageNothing
  BY DEF MembershipInv
<1>2. QED
  BY <1>1, MembershipInitInv, MembershipStep, PTL DEF MembershipSpec

\* A superadmin whose role and state stay is still one.
LEMMA StillSuperadmin ==
  ASSUME NEW v \in Superadmins, users'[v].role = users[v].role, users'[v].state = users[v].state
  PROVE  v \in Superadmins'
  BY DEF Superadmins, IsSuperadmin

\* All superadmins stay.
LEMMA WritesThatSpareSuperadmins ==
  ASSUME MembershipInv, NEW q \in Changes,
         \/ WriteTeam(q) /\ changes[q].saw.role # "user"
         \/ WriteDeleteTeam(q) \/ WriteAdd(q) \/ WriteRemove(q)
         \/ WriteCreateUser(q) \/ WriteRestore(q)
  PROVE  Superadmins \subseteq Superadmins'
<1> DEFINE c == changes[q]
<1>1. users \in [Users -> User] /\ \A v \in Superadmins : v \in Users /\ users[v] \in User
  BY DEF MembershipInv, MembershipTypeOK, Superadmins
<1>2. CASE WriteTeam(q) /\ c.saw.role # "user"
  <2>1. \A v \in Users : users'[v].role = users[v].role /\ users'[v].state = users[v].state
    BY <1>1, <1>2 DEF WriteTeam, User
  <2>2. QED
    BY <1>1, <2>1, StillSuperadmin
<1>3. CASE WriteDeleteTeam(q)
  <2>1. \A v \in Users : users'[v].role = users[v].role /\ users'[v].state = users[v].state
    BY <1>1, <1>3 DEF WriteDeleteTeam, User
  <2>2. QED
    BY <1>1, <2>1, StillSuperadmin
<1>4. CASE WriteAdd(q) \/ WriteRemove(q)
  <2>1. PICK next : users' = [users EXCEPT ![c.user].primary = next]
    BY <1>4 DEF WriteAdd, WriteRemove
  <2>2. \A v \in Users : users'[v].role = users[v].role /\ users'[v].state = users[v].state
    BY <1>1, <2>1 DEF User
  <2>3. QED
    BY <1>1, <2>2, StillSuperadmin
<1>5. CASE WriteCreateUser(q)
  <2>1. \A v \in Users : v # c.user => users'[v] = users[v]
    BY <1>1, <1>5 DEF WriteCreateUser
  <2>2. c.user \notin Superadmins
    BY <1>5 DEF WriteCreateUser, Superadmins, IsSuperadmin
  <2>3. QED
    BY <1>1, <2>1, <2>2, StillSuperadmin
<1>6. CASE WriteRestore(q)
  <2>1. \A v \in Users : /\ users'[v].role = users[v].role
                         /\ users'[v].state \in {users[v].state, "active"}
    BY <1>1, <1>6 DEF WriteRestore, User
  <2>2. QED
    BY <2>1 DEF Superadmins, IsSuperadmin
<1>7. QED
  BY <1>2, <1>3, <1>4, <1>5, <1>6

\* A deletion leaves its sender.
LEMMA DeletionSparesSender ==
  ASSUME MembershipInv, NEW q \in Changes, WriteSoftDelete(q) \/ WriteHardDelete(q),
         changes[q].by \in Superadmins
  PROVE  changes[q].by \in Superadmins'
<1> DEFINE c == changes[q]
<1>1. c.by # c.user /\ c.by \in Users
  BY ChangeFacts DEF WriteSoftDelete, WriteHardDelete, WellBegun, Superadmins
<1>2. users'[c.by] = users[c.by]
  BY <1>1 DEF WriteSoftDelete, WriteHardDelete, MembershipInv, MembershipTypeOK
<1>3. QED
  BY <1>2, StillSuperadmin

\* Nothing is written when a request begins.
LEMMA BeginsReadOnly ==
  ASSUME NEW q \in Changes, BeginSome(q)
  PROVE  UNCHANGED users
<1>1. ASSUME NEW change, BeginChange(q, change) PROVE UNCHANGED users
  BY <1>1 DEF BeginChange
<1>2. ASSUME NEW r \in Users, NEW u \in Users, BeginSoftDelete(q, r, u) PROVE UNCHANGED users
  BY <1>1, <1>2 DEF BeginSoftDelete
<1>3. ASSUME NEW r \in Users, NEW u \in Users, NEW op \in {"restore", "hardDelete"},
             BeginOnDeleted(q, r, u, op)
      PROVE  UNCHANGED users
  BY <1>1, <1>3 DEF BeginOnDeleted
<1>4. ASSUME NEW r \in Users, NEW u \in Users, NEW t \in Teams,
             BeginAdd(q, r, t, u) \/ BeginRemove(q, r, t, u)
      PROVE  UNCHANGED users
  BY <1>1, <1>4 DEF BeginAdd, BeginRemove
<1>5. ASSUME NEW r \in Users, NEW u \in Users, NEW role \in Roles, NEW t \in Teams \cup {Nobody},
             \/ BeginCreateUser(q, r, u, role, t)
             \/ \E state \in {"active", "inactive"} : BeginUpdateUser(q, r, u, role, t, state)
      PROVE  UNCHANGED users
  BY <1>1, <1>5 DEF BeginCreateUser, BeginUpdateUser
<1>6. ASSUME NEW r \in Users, NEW t \in Teams,
             BeginDeleteTeam(q, r, t) \/ \E m \in Users \cup {Nobody} : BeginTeam(q, r, t, m)
      PROVE  UNCHANGED users
  BY <1>1, <1>6 DEF BeginDeleteTeam, BeginTeam
<1>7. QED
  BY <1>2, <1>3, <1>4, <1>5, <1>6 DEF BeginSome

\* What LastSuperadminGoes says of a step.
LastGoes ==
  Superadmins # {} /\ Superadmins' = {} =>
    \E q \in Changes :
      LET c == changes[q] IN
      /\ c # NoChange /\ changes'[q] = NoChange
      /\ \/ c.op = "updateUser"
         \/ c.op \in {"softDelete", "hardDelete"} /\ c.by \notin Superadmins
         \/ c.op \in {"createTeam", "updateTeam"} /\ c.saw.role = "user"

\* No other step takes the last superadmin away.
LEMMA StepSparesSuperadmins ==
  MembershipInv /\ [MembershipNext]_memberVars => [LastGoes]_memberVars
<1> SUFFICES ASSUME MembershipInv, MembershipNext, Superadmins # {}, Superadmins' = {}
             PROVE  \E q \in Changes :
                      LET c == changes[q] IN
                      /\ c # NoChange /\ changes'[q] = NoChange
                      /\ \/ c.op = "updateUser"
                         \/ c.op \in {"softDelete", "hardDelete"} /\ c.by \notin Superadmins
                         \/ c.op \in {"createTeam", "updateTeam"} /\ c.saw.role = "user"
  BY DEF LastGoes
<1>1. users' # users
  BY DEF Superadmins, IsSuperadmin
<1>2. PICK q \in Changes :
        \/ WriteTeam(q) \/ WriteDeleteTeam(q) \/ WriteAdd(q) \/ WriteRemove(q)
        \/ WriteCreateUser(q) \/ WriteUpdateUser(q)
        \/ WriteSoftDelete(q) \/ WriteRestore(q) \/ WriteHardDelete(q)
  <2>1. \A q \in Changes : BeginSome(q) => UNCHANGED users
    BY BeginsReadOnly
  <2>2. \A q \in Changes : FailChange(q) => UNCHANGED users
    BY DEF FailChange
  <2>3. QED
    BY <1>1, <2>1, <2>2 DEF MembershipNext
<1> DEFINE c == changes[q]
<1>3. changes'[q] = NoChange /\ c # NoChange
  <2>1. Finish(q) /\ c.op # "none"
    BY <1>2 DEF WriteTeam, WriteDeleteTeam, WriteAdd, WriteRemove, WriteCreateUser,
                WriteUpdateUser, WriteSoftDelete, WriteRestore, WriteHardDelete
  <2>2. NoChange.op = "none"
    BY DEF NoChange
  <2>3. QED
    BY <2>1, <2>2 DEF Finish, MembershipInv, MembershipTypeOK
<1>4. CASE WriteUpdateUser(q)
  BY <1>3, <1>4 DEF WriteUpdateUser
<1>5. CASE WriteSoftDelete(q) \/ WriteHardDelete(q)
  <2>1. c.by \notin Superadmins
    BY <1>5, DeletionSparesSender
  <2>2. QED
    BY <1>3, <1>5, <2>1 DEF WriteSoftDelete, WriteHardDelete
<1>6. CASE WriteTeam(q)
  <2>1. c.saw.role = "user"
    BY <1>6, WritesThatSpareSuperadmins
  <2>2. QED
    BY <1>3, <1>6, <2>1 DEF WriteTeam
<1>7. CASE WriteDeleteTeam(q) \/ WriteAdd(q) \/ WriteRemove(q) \/ WriteCreateUser(q) \/ WriteRestore(q)
  BY <1>7, WritesThatSpareSuperadmins
<1>8. QED
  BY <1>2, <1>4, <1>5, <1>6, <1>7

\* The last superadmin goes in the ways that the property names and in no other
\* (delete_user, update_user, update_team).
THEOREM LastSuperadminGoesHolds == MembershipSpec => LastSuperadminGoes
  BY MembershipInitInv, MembershipStep, StepSparesSuperadmins, PTL
  DEF MembershipSpec, LastSuperadminGoes, LastGoes
===============================================================================
