----------------------------- MODULE BackupList -----------------------------
(***************************************************************************)
(* The list of backups of pages/BackupPage.tsx.  It is kept by hand: the   *)
(* page loads it at the start, each of its requests that makes or restores *)
(* a backup loads it again when it has been answered, and a deletion takes *)
(* the row out.  Requests of different kinds may overlap, and so may the   *)
(* loads.                                                                  *)
(***************************************************************************)
EXTENDS FiniteSets

CONSTANTS
  Backups,    \* rows there may be
  Calls       \* requests of the page that may be under way at a time

ASSUME BackupListAssumption == Backups # {} /\ Calls # {} /\ "none" \notin Backups

VARIABLES
  stored,     \* rows of backup_records
  listed,     \* backups
  spinning,   \* loadingList
  broken,     \* listError
  calls,      \* the requests
  target,     \* restoringId and deletingId: a row or "none"
  calm        \* the last load was alone, and since then one thing happened at a time

listVars == <<stored, listed, spinning, broken, calls, target, calm>>

Making == {"create", "upload", "force"}
OnRow == {"restore", "delete"}
Operations == Making \cup OnRow \cup {"load"}

\* after: for a load, the request it belongs to.
NoCall ==
  [ op |-> "none", after |-> "none", stage |-> "idle", seen |-> {}, row |-> "none",
    alone |-> FALSE ]
Calling(op, row, alone) ==
  [NoCall EXCEPT !.op = op, !.stage = "sent", !.row = row, !.alone = alone]
CallRecords ==
  [ op : Operations \cup {"none"}, after : Operations \cup {"none"},
    stage : {"idle", "sent", "done"}, seen : SUBSET Backups, row : Backups \cup {"none"},
    alone : BOOLEAN ]

Free(c) == calls[c].op = "none"
Alone(c) == \A d \in Calls \ {c} : Free(d)
Begin(c, record) ==
  [d \in Calls |-> IF d = c THEN record ELSE [calls[d] EXCEPT !.alone = FALSE]]
Disturbed == [d \in Calls |-> [calls[d] EXCEPT !.alone = FALSE]]
Ended(c) == [calls EXCEPT ![c] = NoCall]

Known == stored \cup listed \cup UNION {calls[c].seen : c \in Calls}

ListInit ==
  /\ stored \in SUBSET Backups
  /\ listed = {} /\ spinning = TRUE /\ broken = FALSE
  /\ \E c \in Calls : calls = [d \in Calls |-> IF d = c THEN Calling("load", "none", TRUE) ELSE NoCall]
  /\ target = [op \in OnRow |-> "none"]
  /\ calm = FALSE

-----------------------------------------------------------------------------
\* loadBackups, called by the refresh button or when request c has been answered.
LoadBackups(c) ==
  /\ calls' = Begin(c, [Calling("load", "none", Alone(c)) EXCEPT !.after = calls[c].op])
  /\ spinning' = TRUE /\ broken' = FALSE
  /\ calm' = (calm /\ Alone(c))

PressRefresh(c) == Free(c) /\ LoadBackups(c) /\ UNCHANGED <<stored, listed, target>>

\* handleCreate, handleUpload, handleForceRun: `creating` and its like last until the
\* list has been loaded.
PressMake(c, op) ==
  /\ Free(c) /\ op \in Making
  /\ \A d \in Calls : calls[d].op # op /\ calls[d].after # op
  /\ calls' = Begin(c, Calling(op, "none", Alone(c)))
  /\ calm' = (calm /\ Alone(c))
  /\ UNCHANGED <<stored, listed, spinning, broken, target>>

\* handleRestore, handleDelete, from a row that is on the screen: the button is disabled
\* for the row that was pressed last, not for the others.
PressRow(c, op, b) ==
  /\ Free(c) /\ op \in OnRow
  /\ ~spinning /\ ~broken /\ b \in listed /\ target[op] # b
  /\ target' = [target EXCEPT ![op] = b]
  /\ calls' = Begin(c, Calling(op, b, Alone(c)))
  /\ calm' = (calm /\ Alone(c))
  /\ UNCHANGED <<stored, listed, spinning, broken>>

\* The server's part.  A restored dump brings its own rows.
Serve(c) ==
  /\ calls[c].stage = "sent"
  /\ LET call == calls[c] IN
     /\ CASE call.op \in Making   -> \E b \in Backups \ Known : stored' = stored \cup {b}
          [] call.op = "restore" -> call.row \in stored /\ stored' \in SUBSET Backups
          [] call.op = "delete"  -> call.row \in stored /\ stored' = stored \ {call.row}
          [] call.op = "load"    -> UNCHANGED stored
     /\ calls' = [calls EXCEPT ![c].stage = "done",
                               ![c].seen = IF call.op = "load" THEN stored ELSE {}]
  /\ UNCHANGED <<listed, spinning, broken, target, calm>>

-----------------------------------------------------------------------------
\* The finally of handleRestore and handleDelete: also when it was another row that was
\* pressed last.
Released(op) == IF op \in OnRow THEN [target EXCEPT ![op] = "none"] ELSE target

\* Mutant of MakeAnswer: the list is not loaded again.
MakeAnswerOnly(c) ==
  /\ calls[c].stage = "done" /\ calls[c].op \in Making
  /\ calls' = Ended(c)
  /\ UNCHANGED <<stored, listed, spinning, broken, target, calm>>

MakeAnswer(c) ==
  /\ calls[c].stage = "done" /\ calls[c].op \in Making
  /\ LoadBackups(c)
  /\ UNCHANGED <<stored, listed, target>>

RestoreAnswer(c) ==
  /\ calls[c].stage = "done" /\ calls[c].op = "restore"
  /\ LoadBackups(c)
  /\ UNCHANGED <<stored, listed, target>>

DeleteAnswer(c) ==
  /\ calls[c].stage = "done" /\ calls[c].op = "delete"
  /\ listed' = listed \ {calls[c].row}
  /\ calls' = Ended(c)
  /\ target' = Released("delete")
  /\ UNCHANGED <<stored, spinning, broken, calm>>

\* setBackups(data): whichever load is answered last has the last word.
LoadAnswer(c) ==
  /\ calls[c].stage = "done" /\ calls[c].op = "load"
  /\ listed' = calls[c].seen /\ spinning' = FALSE
  /\ calls' = Ended(c)
  /\ calm' = calls[c].alone
  /\ target' = Released(calls[c].after)
  /\ UNCHANGED <<stored, broken>>

\* Mutant of CallFails: loadBackups stops the spinner in its try, not in a finally.
CallFailsSpinning(c) ==
  /\ ~Free(c)
  /\ calls' = [d \in Calls |-> IF d = c THEN NoCall ELSE Disturbed[d]]
  /\ calm' = FALSE
  /\ broken' = (broken \/ calls[c].op = "load")
  /\ target' = Released(IF calls[c].op = "load" THEN calls[c].after ELSE calls[c].op)
  /\ UNCHANGED <<stored, listed, spinning>>

\* Refused, or the answer is lost.
CallFails(c) ==
  /\ ~Free(c)
  /\ calls' = [d \in Calls |-> IF d = c THEN NoCall ELSE Disturbed[d]]
  /\ calm' = FALSE
  /\ IF calls[c].op = "load"
     THEN broken' = TRUE /\ spinning' = FALSE
     ELSE UNCHANGED <<broken, spinning>>
  /\ target' = Released(IF calls[c].op = "load" THEN calls[c].after ELSE calls[c].op)
  /\ UNCHANGED <<stored, listed>>

\* The scheduler or another administrator.
OthersBackups ==
  /\ \/ \E b \in Backups \ Known : stored' = stored \cup {b}
     \/ \E b \in stored : stored' = stored \ {b}
  /\ calls' = Disturbed /\ calm' = FALSE
  /\ UNCHANGED <<listed, spinning, broken, target>>

ListNext ==
  \/ \E c \in Calls :
       \/ PressRefresh(c) \/ Serve(c) \/ CallFails(c)
       \/ MakeAnswer(c) \/ RestoreAnswer(c) \/ DeleteAnswer(c) \/ LoadAnswer(c)
       \/ \E op \in Making : PressMake(c, op)
       \/ \E op \in OnRow, b \in Backups : PressRow(c, op, b)
  \/ OthersBackups

ListSpec == ListInit /\ [][ListNext]_listVars

-----------------------------------------------------------------------------
\* The types, and the spinner, behind which the whole list disappears, never outlives the
\* loads.
BackupListTypeOK ==
  /\ stored \subseteq Backups /\ listed \subseteq Backups
  /\ spinning \in BOOLEAN /\ broken \in BOOLEAN /\ calm \in BOOLEAN
  /\ calls \in [Calls -> CallRecords]
  /\ target \in [OnRow -> Backups \cup {"none"}]
  /\ spinning => \E c \in Calls : calls[c].op = "load"

\* When the requests of the page are over, the list is right, through any sequence of
\* loads, new backups, deletions and restores - unless two of them overlapped, one
\* failed, or somebody else made or deleted a backup.
ListIsRight ==
  calm /\ ~spinning /\ ~broken /\ (\A c \in Calls : Free(c)) => listed = stored
=============================================================================
