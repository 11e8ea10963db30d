------------------------------ MODULE TeamTasks ------------------------------
(***************************************************************************)
(* A team task: its status, the people assigned to it and their ticks.     *)
(* The manager's dialog saves the whole list of people, the task board     *)
(* saves a status, and everybody ticks off his own part with a request     *)
(* that turns the tick round, whichever way it is.  Requests read, then    *)
(* write and commit (READ COMMITTED), so that others' commits may lie      *)
(* between.  A person may have several pages open (tabs, devices), each    *)
(* shows what it last read, and a request that a page has given up may     *)
(* still be carried out.                                                   *)
(***************************************************************************)
EXTENDS FiniteSets

CONSTANTS
  People,     \* who may be assigned
  Tabs,       \* pages open with the task on them
  Owner,      \* whose page it is
  Presses,    \* presses of the button that may be under way at a time
  Edits,      \* requests of managers that may be under way at a time
  Statuses,   \* _VALID_STATUSES
  Pending,    \* the status of a new task
  NoTask, Gone,   \* the status of a task that is not there yet, and not any more
  NoPress

ASSUME TeamTasksAssumption ==
  /\ Owner \in [Tabs -> People] /\ NoPress \notin Presses
  /\ Pending \in Statuses
  /\ NoTask \notin Statuses /\ Gone \notin Statuses /\ NoTask # Gone

VARIABLES
  status,   \* of the task
  marks,    \* of each person: "none" when not assigned, "open", or "done"
  edits,    \* update_team_task requests
  ticks,    \* toggle_my_completion requests, with the page that sent them
  waits,    \* the press that a page's button is disabled for
  shown,    \* the mark that a page shows
  loads,    \* the mark in an answer on its way to a page
  sure      \* the pages, answers and presses whose mark is still the one of the database

pageVars == <<ticks, waits, shown, loads, sure>>
taskVars == <<status, marks, edits, pageVars>>

Marks == {"none", "open", "done"}
Nothing == "nothing"

\* completed_at is set or cleared.
Turned(mark) == IF mark = "done" THEN "open" ELSE "done"
Assigned == {p \in People : marks[p] # "none"}

\* whole: with the list of people.  status: the one to write, or NoTask.
NoEdit == [stage |-> "idle", whole |-> FALSE, list |-> {}, existing |-> {}, status |-> NoTask]
NoTick == [stage |-> "idle"]

EditRecords ==
  [ stage : {"idle", "read"}, whole : BOOLEAN, list : SUBSET People, existing : SUBSET People,
    status : Statuses \cup {NoTask} ]
Answered(stage, b) == [stage |-> stage, tab |-> b, wants |-> "none", loaded |-> "none"]
TickRecords ==
  [ stage : {"sent", "read", "done", "settling"}, tab : Tabs, wants : Marks, loaded : Marks ]

TeamTasksInit ==
  /\ status = NoTask
  /\ marks = [p \in People |-> "none"]
  /\ edits = [e \in Edits |-> NoEdit]
  /\ ticks = [k \in Presses |-> NoTick]
  /\ waits = [b \in Tabs |-> NoPress]
  /\ shown = [b \in Tabs |-> "none"]
  /\ loads = [b \in Tabs |-> Nothing]
  /\ sure = [page |-> Tabs, load |-> {}, press |-> {}]

\* Whose button request k is the press of.
Of(k) == Owner[ticks[k].tab]

\* The marks of these people change: what their pages show, have asked for and have been
\* pressed on is out of date, but for the press that does it and the page that waits for it.
Doubt(people, own) ==
  sure' = [ page  |-> {b \in sure.page : Owner[b] \notin people \/ waits[b] \in own},
            load  |-> {b \in sure.load : Owner[b] \notin people \/ waits[b] \in own},
            press |-> {j \in sure.press : Of(j) \notin people \/ j \in own} ]

-----------------------------------------------------------------------------
\* The manager.  create_team_task, delete_team_task.
CreateTask ==
  /\ status = NoTask
  /\ \E list \in SUBSET People :
       marks' = [p \in People |-> IF p \in list THEN "open" ELSE "none"]
  /\ status' = Pending
  /\ UNCHANGED <<edits, pageVars>>

DeleteTask ==
  /\ status \in Statuses
  /\ status' = Gone
  /\ marks' = [p \in People |-> "none"]
  /\ Doubt(Assigned, {})
  /\ UNCHANGED <<edits, ticks, waits, shown, loads>>

\* update_team_task from the dialog, with all its fields, or from the task board, with
\* the status alone: the task and its people are read.  Only a field that differs from
\* what was read is written.
ReadTask(e) ==
  /\ edits[e].stage = "idle" /\ status \in Statuses
  /\ \E whole \in BOOLEAN, list \in SUBSET People, s \in Statuses :
       /\ whole \/ list = {}
       /\ edits' = [edits EXCEPT ![e] =
                      [ stage |-> "read", whole |-> whole, list |-> list,
                        existing |-> Assigned, status |-> IF s # status THEN s ELSE NoTask ]]
  /\ UNCHANGED <<status, marks, pageVars>>

\* Mutant of SetAssignees: all rows are deleted and written again.
RecreateAssignees(list, existing) ==
  /\ marks' = [p \in People |-> IF p \in list THEN "open" ELSE "none"]
  /\ Doubt(existing, {})

\* _set_assignees: the difference to the people that were read.
SetAssignees(list, existing) ==
  /\ marks' = [p \in People |->
       IF p \in existing \ list THEN "none" ELSE IF p \in list \ existing THEN "open" ELSE marks[p]]
  /\ Doubt(existing \ list, {})

\* Mutant of Conflicts: the rows of the people do not need the one of the task (no
\* foreign key), and an update that finds no row is no error.
ConflictsOfPeople(e) ==
  edits[e].whole /\ (edits[e].list \ edits[e].existing) \cap Assigned # {}

\* Somebody else has added the same person meanwhile (primary key), or deleted the task.
Conflicts(e) ==
  \/ status = Gone
  \/ edits[e].whole /\ (edits[e].list \ edits[e].existing) \cap Assigned # {}

WriteTask(e) ==
  LET edit == edits[e] IN
  /\ edit.stage = "read" /\ ~Conflicts(e)
  /\ status' = IF edit.status # NoTask THEN edit.status ELSE status
  /\ IF edit.whole
     THEN SetAssignees(edit.list, edit.existing)
     ELSE UNCHANGED <<marks, sure>>
  /\ edits' = [edits EXCEPT ![e] = NoEdit]
  /\ UNCHANGED <<ticks, waits, shown, loads>>

RollBack(e) ==
  /\ edits[e].stage = "read" /\ Conflicts(e)
  /\ edits' = [edits EXCEPT ![e] = NoEdit]
  /\ UNCHANGED <<status, marks, pageVars>>

-----------------------------------------------------------------------------
\* A page with the task on it.  The button shows the tick, and is disabled while
\* completeTask.isPending.
Tick(b, k) ==
  /\ shown[b] # "none" /\ waits[b] = NoPress /\ ticks[k] = NoTick
  /\ ticks' = [ticks EXCEPT ![k] =
                 [stage |-> "sent", tab |-> b, wants |-> Turned(shown[b]), loaded |-> "none"]]
  /\ waits' = [waits EXCEPT ![b] = k]
  /\ sure' = [sure EXCEPT !.press = IF b \in sure.page THEN @ \cup {k} ELSE @]
  /\ UNCHANGED <<status, marks, edits, shown, loads>>

\* toggle_complete reads the row; "not assigned to this task" ends the request.
ReadTick(k) ==
  /\ ticks[k].stage = "sent" /\ marks[Of(k)] # "none"
  /\ ticks' = [ticks EXCEPT ![k].stage = "read", ![k].loaded = marks[Of(k)]]
  /\ UNCHANGED <<status, marks, edits, waits, shown, loads, sure>>

WriteTick(k) ==
  /\ ticks[k].stage = "read" /\ marks[Of(k)] # "none"
  /\ marks' = [marks EXCEPT ![Of(k)] = Turned(ticks[k].loaded)]
  /\ ticks' = [ticks EXCEPT ![k] = Answered("done", ticks[k].tab)]
  /\ Doubt({Of(k)}, {k})
  /\ UNCHANGED <<status, edits, waits, shown, loads>>

\* Mutant of AnswerTick: onSuccess does not wait for the refetch.
AnswerAtOnce(k) ==
  /\ ticks[k].stage = "done" /\ waits[ticks[k].tab] = k
  /\ ticks' = [ticks EXCEPT ![k] = NoTick]
  /\ waits' = [waits EXCEPT ![ticks[k].tab] = NoPress]
  /\ loads' = [loads EXCEPT ![ticks[k].tab] = Nothing]
  /\ sure' = [sure EXCEPT !.press = @ \ {k}, !.load = @ \ {ticks[k].tab}]
  /\ UNCHANGED <<status, marks, edits, shown>>

\* onSuccess asks for the tasks again, instead of an answer that is on its way, and
\* isPending lasts until they are there.
AnswerTick(k) ==
  /\ ticks[k].stage = "done" /\ waits[ticks[k].tab] = k
  /\ ticks' = [ticks EXCEPT ![k] = Answered("settling", ticks[k].tab)]
  /\ loads' = [loads EXCEPT ![ticks[k].tab] = Nothing]
  /\ sure' = [sure EXCEPT !.load = @ \ {ticks[k].tab}]
  /\ UNCHANGED <<status, marks, edits, waits, shown>>

\* The tasks are read for the page, after a tick or because the user has come back to it,
\* and get there.
Refetch(b) ==
  /\ loads' = [loads EXCEPT ![b] = marks[Owner[b]]]
  /\ sure' = [sure EXCEPT !.load = @ \cup {b}]
  /\ UNCHANGED <<status, marks, edits, ticks, waits, shown>>

Settling(b) == waits[b] # NoPress /\ ticks[waits[b]].stage = "settling"

Show(b) ==
  /\ loads[b] # Nothing
  /\ shown' = [shown EXCEPT ![b] = loads[b]]
  /\ loads' = [loads EXCEPT ![b] = Nothing]
  /\ sure' = [ page  |-> IF b \in sure.load THEN sure.page \cup {b} ELSE sure.page \ {b},
               load  |-> sure.load \ {b},
               press |-> IF Settling(b) THEN sure.press \ {waits[b]} ELSE sure.press ]
  /\ IF Settling(b)
     THEN ticks' = [ticks EXCEPT ![waits[b]] = NoTick] /\ waits' = [waits EXCEPT ![b] = NoPress]
     ELSE UNCHANGED <<ticks, waits>>
  /\ UNCHANGED <<status, marks, edits>>

\* The page gives up waiting (the user reloads it, or the connection breaks) and its button
\* is enabled again, while the server goes on with the request.
GiveUp(b) ==
  /\ waits[b] # NoPress /\ ticks[waits[b]].stage \in {"sent", "read"}
  /\ waits' = [waits EXCEPT ![b] = NoPress]
  /\ sure' = [sure EXCEPT !.page = @ \ {b}, !.load = @ \ {b}]
  /\ UNCHANGED <<status, marks, edits, ticks, shown, loads>>

\* The request is refused, or it, its answer or the refetch is lost, or nobody waits for
\* the answer any more.
EndTick(k) ==
  LET b == ticks[k].tab IN
  /\ ticks[k] # NoTick
  /\ ticks' = [ticks EXCEPT ![k] = NoTick]
  /\ IF waits[b] = k
     THEN /\ waits' = [waits EXCEPT ![b] = NoPress]
          /\ sure' = [ page |-> sure.page \ {b}, load |-> sure.load \ {b},
                       press |-> sure.press \ {k} ]
     ELSE waits' = waits /\ sure' = [sure EXCEPT !.press = @ \ {k}]
  /\ UNCHANGED <<status, marks, edits, shown, loads>>

TeamTasksNext ==
  \/ CreateTask \/ DeleteTask
  \/ \E e \in Edits : ReadTask(e) \/ WriteTask(e) \/ RollBack(e)
  \/ \E b \in Tabs, k \in Presses : Tick(b, k)
  \/ \E k \in Presses : ReadTick(k) \/ WriteTick(k) \/ AnswerTick(k) \/ EndTick(k)
  \/ \E b \in Tabs : Refetch(b) \/ Show(b) \/ GiveUp(b)

TeamTasksSpec == TeamTasksInit /\ [][TeamTasksNext]_taskVars

-----------------------------------------------------------------------------
\* The types, and a request that is going to turn a tick has found one.
TeamTasksTypeOK ==
  /\ status \in Statuses \cup {NoTask, Gone}
  /\ marks \in [People -> Marks]
  /\ edits \in [Edits -> EditRecords]
  /\ ticks \in [Presses -> {NoTick} \cup TickRecords]
  /\ \A k \in Presses : ticks[k].stage = "read" => ticks[k].loaded \in {"open", "done"}
  /\ waits \in [Tabs -> Presses \cup {NoPress}]
  /\ shown \in [Tabs -> Marks]
  /\ loads \in [Tabs -> Marks \cup {Nothing}]
  /\ sure \in [page : SUBSET Tabs, load : SUBSET Tabs, press : SUBSET Presses]

\* A deleted task leaves no assignments behind, though requests that had read it go on.
NoOrphanAssignees == status = Gone => Assigned = {}

LeftOut(p) ==
  \E e \in Edits :
    /\ edits[e].stage = "read" /\ edits'[e].stage = "idle"
    /\ edits[e].whole /\ p \notin edits[e].list

TicksOff(k) == ticks[k].stage = "read" /\ ticks'[k].stage = "done"

\* What a person has ticked off stays so, whoever edits the task meanwhile and however
\* the edits overlap, until he turns it round, a saved list leaves him out, or the task
\* is deleted.
TicksAreKept ==
  [][\A p \in People :
       marks[p] = "done" /\ marks'[p] # "done" =>
         \/ \E k \in Presses : TicksOff(k) /\ Of(k) = p
         \/ LeftOut(p) \/ status' = Gone]_taskVars

\* A press of the button does what the button says, although the request only turns the
\* tick round: the page waits for the new state before it can be pressed again.  What is
\* left is a page that missed an answer and has not read the task since, a person taken
\* off the task and put back, and, after the page had read the mark, another press of the
\* same person: on another page of his, or one that the page had given up.
TickDoesWhatItShows ==
  [][\A k \in Presses :
       TicksOff(k) /\ k \in sure.press => marks'[Of(k)] = ticks[k].wants]_taskVars
=============================================================================
