--------------------------- MODULE MCAdministration ---------------------------
(***************************************************************************)
(* What administrators set up, for TLC, one part in each behaviour: the    *)
(* e-mail schedules (DueSchedules), users and teams (Membership) and the   *)
(* certificate that nginx serves (Certificates).  They share no state, so  *)
(* that checking them side by side would only multiply their states.       *)
(*                                                                         *)
(* Two jobs, requests and installs each, so that any two can overlap; two  *)
(* users and teams, so that there is an heir and a next team; from an      *)
(* organisation that has been set up, three requests reach every exception *)
(* that Membership names; two certificates, so that one can follow the     *)
(* other.                                                                  *)
(***************************************************************************)
EXTENDS DueSchedules, Membership, Certificates, TLC

CONSTANTS j2, q2, t1, c2, ca, cb, i1, i2

ASSUME AdministrationAssumption == t1 \in Teams

VARIABLE part   \* the part that is at work

Parts == {"dueSchedules", "membership", "certificates"}

MCPlans == {{1, 2}, {2}}
MCSymmetry == Permutations({ca, cb}) \cup Permutations({i1, i2})

\* An organisation that has been set up, to which things can happen within the bound: but
\* for the superuser, everybody is in team t1.
StaffedInit ==
  /\ users = [u \in Users |->
       IF u = Superuser
       THEN [role |-> "superadmin", primary |-> Nobody, state |-> "active"]
       ELSE [role |-> "user", primary |-> t1, state |-> "active"]]
  /\ members = (Users \ {Superuser}) \X {t1}
  /\ teams = Teams /\ named = Teams
  /\ managers = [t \in Teams |-> Nobody]
  /\ changes = [q \in Changes |-> NoChange]
  /\ begun = 0 /\ crossed = {}

\* The parts that are not at work stay in one of their initial states.
AdministrationInit ==
  /\ part \in Parts
  /\ DueInit /\ (part # "dueSchedules" => kind = "report" /\ row.plan = {2})
  /\ MembershipInit \/ (part = "membership" /\ StaffedInit)
  /\ CertInit /\ (part # "certificates" => uploaded = {})

\* Bound: of the installs, the deletions and ssl_init at most three are under way at a time.
ThreeOverlap ==
  Cardinality({i \in Installs : installs[i] # NoInstall} \cup deleting \cup ({init} \ {"idle"})) <= 3

On(name) == part = name /\ UNCHANGED part

\* Jobs and requests are interchangeable: of two that are free, the first is taken.
AdministrationNext ==
  \/ /\ On("dueSchedules") /\ DueNext
     /\ (\A j \in Jobs : jobs[j] = NoJob) => jobs'[j2] = NoJob
     /\ (\A q \in Editing : editing[q].stage = "idle") => editing'[q2].stage = "idle"
     /\ UNCHANGED <<memberVars, certVars>>
  \/ /\ On("membership") /\ MembershipNext
     /\ (\A q \in Changes : changes[q] = NoChange) => changes'[c2] = NoChange
     /\ UNCHANGED <<dueVars, certVars>>
  \/ On("certificates") /\ CertNext /\ ThreeOverlap' /\ UNCHANGED <<dueVars, memberVars>>

AdministrationVars == <<part, dueVars, memberVars, certVars>>
AdministrationSpec == AdministrationInit /\ [][AdministrationNext]_AdministrationVars

\* The type invariants of the parts; only a certificate of the database is active.
AdministrationTypeOK == DueSchedulesTypeOK /\ MembershipTypeOK /\ CertificatesTypeOK
=============================================================================
