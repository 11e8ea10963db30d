------------------------------ MODULE Membership ------------------------------
(***************************************************************************)
(* Users, teams and who belongs to which: the role, the primary team and   *)
(* the state of each user, the junction table user_teams, and the manager  *)
(* of each team.  The three are kept in step by hand.  A request checks    *)
(* its sender and reads what it is about; then it writes what differs from *)
(* what it has read and commits (READ COMMITTED), so that the commits of   *)
(* other requests may lie between.                                         *)
(***************************************************************************)
EXTENDS FiniteSets, Naturals

CONSTANTS
  Users, Teams,
  Superuser,    \* the account that is seeded at the first start
  Nobody,       \* NULL
  Changes,      \* requests that may be under way at a time
  MaxChanges    \* bound of the requests begun

ASSUME MembershipAssumption ==
  Superuser \in Users /\ Nobody \notin Users \cup Teams /\ MaxChanges \in Nat

VARIABLES
  users,      \* [role, primary, state]
  members,    \* user_teams
  teams,      \* teams that exist
  named,      \* keys of teams that have been given out
  managers,   \* manager_id of each team
  changes,    \* the requests
  begun,      \* number of requests begun
  crossed     \* users about whom a request has committed while another one was under way

memberVars == <<users, members, teams, named, managers, changes, begun, crossed>>

Roles == {"superadmin", "team_manager", "user"}

\* state: "new" before the row is made, "gone" when it has been removed for good.
User == [ role : Roles, primary : Teams \cup {Nobody},
          state : {"new", "active", "inactive", "deleted", "gone"} ]
NewUser == [role |-> "user", primary |-> Nobody, state |-> "new"]

\* saw: the row of the user as it was read.  was: the manager of the team, as it was read.
\* managed and heir: the teams to be handed over, and to whom.
NoChange ==
  [ op |-> "none", by |-> Nobody, user |-> Nobody, team |-> Nobody, role |-> "user",
    state |-> "active", saw |-> NewUser, was |-> Nobody, managed |-> {}, heir |-> Nobody ]

TeamOps == {"createTeam", "updateTeam", "deleteTeam"}
MemberOps == {"addMember", "removeMember"}
UserOps == {"createUser", "updateUser", "softDelete", "restore", "hardDelete"}
ChangeRecords ==
  [ op : {"none"} \cup TeamOps \cup MemberOps \cup UserOps, by : Users \cup {Nobody},
    user : Users \cup {Nobody}, team : Teams \cup {Nobody}, role : Roles,
    state : {"active", "inactive"}, saw : User, was : Users \cup {Nobody},
    managed : SUBSET Teams, heir : Users \cup {Nobody} ]

MembershipInit ==
  /\ users = [u \in Users |-> IF u = Superuser
                              THEN [role |-> "superadmin", primary |-> Nobody, state |-> "active"]
                              ELSE NewUser]
  /\ members = {} /\ teams = {} /\ named = {} /\ managers = [t \in Teams |-> Nobody]
  /\ changes = [q \in Changes |-> NoChange]
  /\ begun = 0 /\ crossed = {}

Present(u) == users[u].state \in {"active", "inactive"}      \* is_deleted == False
Stored(u) == users[u].state \notin {"new", "gone"}
TeamsOf(u) == {t \in Teams : <<u, t>> \in members}

\* require_superadmin; the guards of update_user for a team manager.
IsSuperadmin(u) == users[u].state = "active" /\ users[u].role = "superadmin"
Leads(r, u) ==
  /\ users[r].state = "active" /\ users[r].role = "team_manager"
  /\ TeamsOf(r) \cap TeamsOf(u) # {} /\ users[u].role = "user"

-----------------------------------------------------------------------------
\* What the requests read, and what they refuse.
BeginChange(q, change) ==
  /\ changes' = [changes EXCEPT ![q] = change]
  /\ begun' = begun + 1
  /\ UNCHANGED <<users, members, teams, named, managers, crossed>>

About(op, r, u, t) ==
  [ NoChange EXCEPT !.op = op, !.by = r, !.user = u, !.team = t,
    !.saw = IF u \in Users THEN users[u] ELSE NewUser,
    !.was = IF t \in Teams THEN managers[t] ELSE Nobody ]

\* create_team and update_team, with _validate_manager.
BeginTeam(q, r, t, m) ==
  /\ IsSuperadmin(r) /\ (m # Nobody => users[m].state = "active")
  /\ t \in teams => m # Nobody
  /\ t \in named => t \in teams
  /\ BeginChange(q, About(IF t \in teams THEN "updateTeam" ELSE "createTeam", r, m, t))

BeginDeleteTeam(q, r, t) ==
  /\ IsSuperadmin(r) /\ t \in teams /\ \A u \in Users : <<u, t>> \notin members
  /\ BeginChange(q, About("deleteTeam", r, Nobody, t))

BeginAdd(q, r, t, u) ==
  /\ IsSuperadmin(r) /\ t \in teams /\ Present(u)
  /\ BeginChange(q, About("addMember", r, u, t))

BeginRemove(q, r, t, u) ==
  /\ IsSuperadmin(r) /\ <<u, t>> \in members /\ Present(u) /\ u # r
  /\ BeginChange(q, About("removeMember", r, u, t))

BeginCreateUser(q, r, u, role, t) ==
  /\ IsSuperadmin(r) /\ users[u].state = "new" /\ t \in teams \cup {Nobody}
  /\ BeginChange(q, [About("createUser", r, u, t) EXCEPT !.role = role])

BeginUpdateUser(q, r, u, role, t, state) ==
  /\ Present(u) /\ t \in teams \cup {Nobody}
  /\ IsSuperadmin(r) \/ (Leads(r, u) /\ role = "user")
  /\ BeginChange(q, [About("updateUser", r, u, t) EXCEPT !.role = role, !.state = state])

\* _get_fallback_superadmin
Fallbacks(u) ==
  IF users[Superuser].state = "active" /\ u # Superuser
  THEN {Superuser} ELSE {f \in Users \ {u} : IsSuperadmin(f)}

\* Mutant of Managed: only the teams of team managers are handed over.
ManagedByManagers(u) ==
  IF users[u].role = "team_manager" THEN {t \in teams : managers[t] = u} ELSE {}

\* The teams that soft_delete_user hands over.
Managed(u) ==
  IF users[u].role \in {"superadmin", "team_manager"} THEN {t \in teams : managers[t] = u} ELSE {}

\* Mutant of MayDelete: the count alone is relied on.
MayDeleteOneself(r, u) ==
  /\ IsSuperadmin(r) /\ Present(u)
  /\ users[u].role = "superadmin"
     => Cardinality({v \in Users : users[v].role = "superadmin" /\ Present(v)}) > 1

MayDelete(r, u) ==
  /\ IsSuperadmin(r) /\ Present(u) /\ u # r
  /\ users[u].role = "superadmin"
     => Cardinality({v \in Users : users[v].role = "superadmin" /\ Present(v)}) > 1

BeginSoftDelete(q, r, u) ==
  /\ MayDelete(r, u)
  /\ \E f \in IF Fallbacks(u) = {} THEN {Nobody} ELSE Fallbacks(u) :
       BeginChange(q, [About("softDelete", r, u, Nobody) EXCEPT !.managed = Managed(u), !.heir = f])

\* restore_user, hard_delete_user
BeginOnDeleted(q, r, u, op) ==
  /\ IsSuperadmin(r) /\ users[u].state = "deleted" /\ op \in {"restore", "hardDelete"}
  /\ BeginChange(q, About(op, r, u, Nobody))

-----------------------------------------------------------------------------
\* What they write.  Foreign keys: a row that names a team or a user that is gone by now
\* cannot be written, and the request fails.
Concerns(change) == {change.user, change.heir} \ {Nobody}

Finish(q) ==
  /\ changes' = [changes EXCEPT ![q] = NoChange]
  /\ crossed' = crossed \cup
       (Concerns(changes[q]) \cap UNION {Concerns(changes[p]) : p \in Changes \ {q}})
  /\ UNCHANGED begun

\* Only a value that differs from the one that was read is written.
Written(old, read, new) == IF new # read THEN new ELSE old

WriteTeam(q) ==
  LET c == changes[q] IN
  /\ c.op \in {"createTeam", "updateTeam"}
  /\ c.team \in (IF c.op = "updateTeam" THEN teams ELSE Teams \ named)
  /\ teams' = teams \cup {c.team} /\ named' = named \cup {c.team}
  /\ managers' = [managers EXCEPT ![c.team] = Written(@, c.was, c.user)]
  /\ IF c.user = Nobody
     THEN UNCHANGED <<users, members>>
     ELSE /\ Stored(c.user)
          /\ members' = members \cup {<<c.user, c.team>>}
          /\ users' = [users EXCEPT
               ![c.user].primary = Written(@, c.saw.primary, c.team),
               ![c.user].role = IF c.saw.role = "user" THEN "team_manager" ELSE @]
  /\ Finish(q)

\* The keys of the members go with the team: CASCADE, and SET NULL for primary teams.
WriteDeleteTeam(q) ==
  LET t == changes[q].team IN
  /\ changes[q].op = "deleteTeam" /\ t \in teams
  /\ teams' = teams \ {t}
  /\ managers' = [managers EXCEPT ![t] = Nobody]
  /\ members' = {pair \in members : pair[2] # t}
  /\ users' = [u \in Users |-> IF users[u].primary = t THEN [users[u] EXCEPT !.primary = Nobody]
                                                       ELSE users[u]]
  /\ Finish(q) /\ UNCHANGED named

WriteAdd(q) ==
  LET c == changes[q] IN
  /\ c.op = "addMember" /\ c.team \in teams /\ Stored(c.user)
  /\ members' = members \cup {<<c.user, c.team>>}
  /\ users' = [users EXCEPT ![c.user].primary = IF c.saw.primary = Nobody THEN c.team ELSE @]
  /\ Finish(q) /\ UNCHANGED <<teams, named, managers>>

\* Mutant of NextTeam: the next team is looked for before the membership is deleted.
NextTeamOfAll(u, t) == IF TeamsOf(u) = {} THEN {Nobody} ELSE TeamsOf(u)

\* select(user_teams.c.team_id).limit(1), after the membership has been deleted.
NextTeam(u, t) == IF TeamsOf(u) \ {t} = {} THEN {Nobody} ELSE TeamsOf(u) \ {t}

WriteRemove(q) ==
  LET c == changes[q] IN
  /\ c.op = "removeMember" /\ Stored(c.user)
  /\ members' = members \ {<<c.user, c.team>>}
  /\ \E next \in NextTeam(c.user, c.team) :
       users' = [users EXCEPT ![c.user].primary = IF c.saw.primary = c.team THEN next ELSE @]
  /\ Finish(q) /\ UNCHANGED <<teams, named, managers>>

Joined(c) == IF c.team = Nobody THEN members ELSE members \cup {<<c.user, c.team>>}

WriteCreateUser(q) ==
  LET c == changes[q] IN
  /\ c.op = "createUser" /\ users[c.user].state = "new" /\ c.team \in teams \cup {Nobody}
  /\ users' = [users EXCEPT ![c.user] =
                 [role |-> c.role, primary |-> c.team, state |-> "active"]]
  /\ members' = Joined(c)
  /\ Finish(q) /\ UNCHANGED <<teams, named, managers>>

WriteUpdateUser(q) ==
  LET c == changes[q] IN
  /\ c.op = "updateUser" /\ Stored(c.user) /\ c.team \in teams \cup {Nobody}
  /\ users' = [users EXCEPT
       ![c.user].role = Written(@, c.saw.role, c.role),
       ![c.user].primary = IF c.team = Nobody THEN @ ELSE Written(@, c.saw.primary, c.team),
       ![c.user].state = IF @ = "deleted" THEN @ ELSE Written(@, c.saw.state, c.state)]
  /\ members' = Joined(c)
  /\ Finish(q) /\ UNCHANGED <<teams, named, managers>>

\* The heir becomes a member of the teams he inherits.
WriteSoftDelete(q) ==
  LET c == changes[q] IN
  /\ c.op = "softDelete" /\ Stored(c.user)
  /\ c.managed \subseteq teams /\ (c.heir # Nobody => Stored(c.heir))
  /\ managers' = [t \in Teams |-> IF t \in c.managed THEN c.heir ELSE managers[t]]
  /\ members' = members \cup (IF c.heir = Nobody THEN {} ELSE {c.heir} \X c.managed)
  /\ users' = [users EXCEPT ![c.user].state = "deleted"]
  /\ Finish(q) /\ UNCHANGED <<teams, named>>

WriteRestore(q) ==
  LET u == changes[q].user IN
  /\ changes[q].op = "restore" /\ Stored(u)
  /\ users' = [users EXCEPT ![u].state = "active"]
  /\ Finish(q) /\ UNCHANGED <<members, teams, named, managers>>

WriteHardDelete(q) ==
  LET u == changes[q].user IN
  /\ changes[q].op = "hardDelete" /\ Stored(u)
  /\ managers' = [t \in Teams |-> IF managers[t] = u THEN Nobody ELSE managers[t]]
  /\ members' = {pair \in members : pair[1] # u}
  /\ users' = [users EXCEPT ![u] = [NewUser EXCEPT !.state = "gone"]]
  /\ Finish(q) /\ UNCHANGED <<teams, named>>

\* The transaction is rolled back.
FailChange(q) ==
  /\ changes[q] # NoChange
  /\ changes' = [changes EXCEPT ![q] = NoChange]
  /\ UNCHANGED <<users, members, teams, named, managers, begun, crossed>>

BeginSome(q) ==
  \/ \E r, u \in Users :
       \/ BeginSoftDelete(q, r, u)
       \/ \E op \in {"restore", "hardDelete"} : BeginOnDeleted(q, r, u, op)
       \/ \E t \in Teams : BeginAdd(q, r, t, u) \/ BeginRemove(q, r, t, u)
       \/ \E role \in Roles, t \in Teams \cup {Nobody} :
            \/ BeginCreateUser(q, r, u, role, t)
            \/ \E state \in {"active", "inactive"} : BeginUpdateUser(q, r, u, role, t, state)
  \/ \E r \in Users, t \in Teams :
       \/ BeginDeleteTeam(q, r, t)
       \/ \E m \in Users \cup {Nobody} : BeginTeam(q, r, t, m)

MembershipNext ==
  \E q \in Changes :
    \/ changes[q] = NoChange /\ begun < MaxChanges /\ BeginSome(q)
    \/ WriteTeam(q) \/ WriteDeleteTeam(q) \/ WriteAdd(q) \/ WriteRemove(q)
    \/ WriteCreateUser(q) \/ WriteUpdateUser(q)
    \/ WriteSoftDelete(q) \/ WriteRestore(q) \/ WriteHardDelete(q) \/ FailChange(q)

MembershipSpec == MembershipInit /\ [][MembershipNext]_memberVars

-----------------------------------------------------------------------------
MembershipTypeOK ==
  /\ users \in [Users -> User] /\ members \subseteq Users \X Teams
  /\ teams \subseteq named /\ named \subseteq Teams /\ managers \in [Teams -> Users \cup {Nobody}]
  /\ changes \in [Changes -> ChangeRecords]
  /\ begun \in 0..MaxChanges /\ crossed \subseteq Users

\* The primary team of a user is one he is a member of, through any sequence of moves
\* between teams, deletions and restores: members are found through user_teams, his name
\* tag through the primary team.  The exception: two requests about him crossed.
PrimaryIsMembership ==
  \A u \in Users \ crossed :
    users[u].primary # Nobody => <<u, users[u].primary>> \in members

\* A team is handed over before its manager is deleted.  The exceptions: he was given the
\* team, or its heir was deleted, by a request that crossed the deletion; or an update had
\* made him an ordinary user, whose teams soft_delete_user does not look for.
DeletedUsersManageNothing ==
  \A t \in teams :
    managers[t] # Nobody /\ users[managers[t]].state = "deleted"
    => managers[t] \in crossed \/ users[managers[t]].role = "user"

Superadmins == {u \in Users : IsSuperadmin(u)}

\* The last superadmin who can log in goes only by an update of his role or of is_active,
\* which nothing checks; by a deletion whose sender had himself been deleted, demoted or
\* deactivated after it had begun; or by becoming the manager of a team in a request that
\* still took him for an ordinary user.
LastSuperadminGoes ==
  [][Superadmins # {} /\ Superadmins' = {} =>
       \E q \in Changes :
         LET c == changes[q] IN
         /\ c # NoChange /\ changes'[q] = NoChange
         /\ \/ c.op = "updateUser"
            \/ c.op \in {"softDelete", "hardDelete"} /\ c.by \notin Superadmins
            \/ c.op \in {"createTeam", "updateTeam"} /\ c.saw.role = "user"]_memberVars
=============================================================================
