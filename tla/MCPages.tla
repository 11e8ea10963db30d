------------------------------- MODULE MCPages -------------------------------
(***************************************************************************)
(* Pages of the client with what they talk to, for TLC, one of them in     *)
(* each behaviour: the forms (Editors), the ticks of a team task           *)
(* (TeamTasks) and both halves of the backup page (BackupList,             *)
(* BackupSchedule).  They share no state, so that checking them side by    *)
(* side would only multiply their states.                                  *)
(*                                                                         *)
(* Two rows, backups and requests each, so that any two can overlap; two   *)
(* pages of the same person, two presses of the button and two edits of    *)
(* the task that he is assigned to.                                        *)
(***************************************************************************)
EXTENDS Editors, TeamTasks, BackupList, BackupSchedule, TLC

CONSTANTS k2, p1

VARIABLE part   \* the page that is open

Parts == {"editors", "teamTasks", "backupList", "backupSchedule"}

MCOwner == [b \in Tabs |-> p1]
MCSymmetry ==
  {p @@ q @@ r : p \in Permutations(Tabs), q \in Permutations(Presses), r \in Permutations(Edits)}

\* Bound: of the requests about a team task at most two overlap.
TwoOverlap ==
  Cardinality({e \in Edits : edits[e].stage = "read"} \cup {k \in Presses : ticks[k] # NoTick}) <= 2

\* The parts that are not at work stay in one of their initial states.
PagesInit ==
  /\ part \in Parts
  /\ EditorInit /\ (part # "editors" => form = SmtpForm /\ open = "closed")
  /\ TeamTasksInit
  /\ ListInit /\ (part # "backupList" => stored = {} /\ \A c \in Calls : Free(c) => c = k2)
  /\ ScheduleInit /\ (part # "backupSchedule" => settings = InitialSheet)

On(name) == part = name /\ UNCHANGED part

PagesNext ==
  \/ On("editors") /\ EditorNext /\ UNCHANGED <<taskVars, listVars, scheduleVars>>
  \/ On("teamTasks") /\ TeamTasksNext /\ UNCHANGED <<editorVars, listVars, scheduleVars>>
  \/ On("backupList") /\ ListNext /\ UNCHANGED <<editorVars, taskVars, scheduleVars>>
  \/ On("backupSchedule") /\ ScheduleNext /\ UNCHANGED <<editorVars, taskVars, listVars>>

PagesVars == <<part, editorVars, taskVars, listVars, scheduleVars>>
PagesSpec == PagesInit /\ [][PagesNext]_PagesVars

\* The type invariants of the parts; in the list of backups a spinner, behind which the
\* whole list disappears, never outlives the loads (BackupPage.tsx).
PagesTypeOK ==
  EditorTypeOK /\ TeamTasksTypeOK /\ BackupListTypeOK /\ BackupScheduleTypeOK
=============================================================================
