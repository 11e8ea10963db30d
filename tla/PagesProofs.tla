----------------------------- MODULE PagesProofs -----------------------------
(***************************************************************************)
(* Theorems of the client's pages: of TeamTasks, Editors, BackupList and   *)
(* BackupSchedule, for any number of people, rows, backups and requests    *)
(* under way, and of all pages together as MCPages composes them.          *)
(***************************************************************************)
EXTENDS MCPages, TLAPS

(***************************************************************************)
(* The schedule of the backups                                             *)
(***************************************************************************)
\* What the page has read, and shows, is what the server has, as long as nothing has
\* happened to either since; and nothing is saved before there is a form.
ToldTheTruth ==
  /\ told => /\ loading # "sent"
             /\ loading = "read" => found = settings
             /\ loading = "ended" /\ saving = "no" => sheet = settings
  /\ saving # "no" => loading = "ended"

\* What was told before a save is still so while it is under way.
UntouchedWhileSaving == told /\ saving = "sent" => sheet = settings

ScheduleInv == BackupScheduleTypeOK /\ ToldTheTruth /\ UntouchedWhileSaving

LEMMA ScheduleInitInv == ScheduleInit => ScheduleInv
  BY BackupScheduleAssumption
  DEF ScheduleInit, ScheduleInv, BackupScheduleTypeOK, ToldTheTruth, UntouchedWhileSaving,
      InitialSheet, Sheets

LEMMA ScheduleStep == ScheduleInv /\ [ScheduleNext]_scheduleVars => ScheduleInv'
<1> SUFFICES ASSUME ScheduleInv, [ScheduleNext]_scheduleVars PROVE ScheduleInv'
  OBVIOUS
<1> USE DEF ScheduleInv, BackupScheduleTypeOK, ToldTheTruth, UntouchedWhileSaving
<1>1. CASE UNCHANGED scheduleVars
  BY <1>1 DEF scheduleVars
<1>2. CASE ReadSchedule
  BY <1>2 DEF ReadSchedule
<1>3. CASE ShowSchedule
  BY <1>3 DEF ShowSchedule
<1>4. CASE ScheduleFails
  BY <1>4 DEF ScheduleFails
<1>5. CASE SetSetting
  <2>1. PICK s \in Settings, v \in Values : sheet' = [sheet EXCEPT ![s] = v]
    BY <1>5 DEF SetSetting
  <2>2. sheet' \in Sheets
    BY <2>1 DEF Sheets
  <2>3. QED
    BY <1>5, <2>2 DEF SetSetting
<1>6. CASE SendSchedule
  BY <1>6 DEF SendSchedule
<1>7. CASE WriteSchedule
  <2>1. settings' \in Sheets
    BY <1>7 DEF WriteSchedule, Sheets
  <2>2. QED
    BY <1>7, <2>1 DEF WriteSchedule
<1>8. CASE ScheduleSavedAnswer
  BY <1>8 DEF ScheduleSavedAnswer
<1>9. CASE SavingFails
  BY <1>9 DEF SavingFails
<1>10. CASE OthersSchedule
  <2>1. PICK s \in Settings, v \in Values : settings' = [settings EXCEPT ![s] = v]
    BY <1>10 DEF OthersSchedule
  <2>2. settings' \in Sheets
    BY <2>1 DEF Sheets
  <2>3. QED
    BY <1>10, <2>2 DEF OthersSchedule
<1>11. QED
  BY <1>1, <1>2, <1>3, <1>4, <1>5, <1>6, <1>7, <1>8, <1>9, <1>10 DEF ScheduleNext

\* The page shows the schedule that is in force as long as nobody has typed or saved
\* elsewhere, whatever part of a save the server has taken (loadSchedule,
\* handleSaveSchedule of BackupPage.tsx and PUT /backup/schedule).
THEOREM SheetIsInForceHolds == ScheduleSpec => []SheetIsInForce
<1>1. ScheduleInv => SheetIsInForce
  BY DEF ScheduleInv, ToldTheTruth, SheetIsInForce
<1>2. QED
  BY <1>1, ScheduleInitInv, ScheduleStep, PTL DEF ScheduleSpec

(***************************************************************************)
(* Team tasks                                                              *)
(***************************************************************************)
\* What a press that nothing has gone wrong with is going to do is about the tick as it is.
PressIsSure(k) ==
  k \in sure.press =>
    /\ ticks[k] # NoTick
    /\ ticks[k].stage = "sent" => marks[Of(k)] # "none" /\ ticks[k].wants = Turned(marks[Of(k)])
    /\ ticks[k].stage = "read" => ticks[k].wants = Turned(ticks[k].loaded)

\* A page waits for its own press.  What it shows while it does not wait, and what it is
\* going to show when it need not wait any more, is the tick as it is, if nothing has gone
\* wrong.
PageIsSure(b) ==
  /\ waits[b] # NoPress => ticks[waits[b]] # NoTick /\ ticks[waits[b]].tab = b
  /\ b \in sure.page /\ waits[b] = NoPress /\ shown[b] # "none" => shown[b] = marks[Owner[b]]
  /\ b \in sure.load => loads[b] # Nothing
  /\ b \in sure.load /\ (waits[b] = NoPress \/ Settling(b)) /\ loads[b] # "none" =>
       loads[b] = marks[Owner[b]]

TeamTasksInv ==
  /\ TeamTasksTypeOK /\ NoOrphanAssignees
  /\ status = NoTask => Assigned = {} /\ \A e \in Edits : edits[e].stage = "idle"
  /\ \A k \in Presses : PressIsSure(k)
  /\ \A b \in Tabs : PageIsSure(b)

LEMMA TeamTasksInitInv == TeamTasksInit => TeamTasksInv
  BY TeamTasksAssumption
  DEF TeamTasksInit, TeamTasksInv, TeamTasksTypeOK, NoOrphanAssignees, PressIsSure, PageIsSure,
      Assigned, NoEdit, NoTick, EditRecords, TickRecords, Marks

LEMMA TickFacts ==
  ASSUME TeamTasksInv, NEW k \in Presses
  PROVE  /\ NoTick.stage = "idle"
         /\ ticks[k] = NoTick <=> ticks[k].stage = "idle"
         /\ ticks[k] # NoTick =>
              /\ ticks[k] \in TickRecords /\ ticks[k].tab \in Tabs
              /\ Of(k) \in People /\ marks[Of(k)] \in Marks
  BY TeamTasksAssumption DEF TeamTasksInv, TeamTasksTypeOK, TickRecords, NoTick, Of

\* A person who is not taken off keeps his tick; of whoever is taken off, or comes back,
\* nothing is sure any more.
LEMMA DoubtKeepsInv ==
  ASSUME TeamTasksInv, NEW gone, Doubt(gone, {}), UNCHANGED <<ticks, waits, shown, loads>>,
         marks' \in [People -> Marks],
         \A p \in People \ gone : marks'[p] = marks[p] \/ marks[p] = "none"
  PROVE  /\ sure' \in [page : SUBSET Tabs, load : SUBSET Tabs, press : SUBSET Presses]
         /\ \A k \in Presses : PressIsSure(k)'
         /\ \A b \in Tabs : PageIsSure(b)'
<1>1. /\ sure'.page = {b \in sure.page : Owner[b] \notin gone}
      /\ sure'.load = {b \in sure.load : Owner[b] \notin gone}
      /\ sure'.press = {j \in sure.press : Of(j) \notin gone}
      /\ sure' = [page |-> sure'.page, load |-> sure'.load, press |-> sure'.press]
  BY DEF Doubt
<1>2. /\ sure.page \subseteq Tabs /\ sure.load \subseteq Tabs /\ sure.press \subseteq Presses
      /\ Owner \in [Tabs -> People]
  BY TeamTasksAssumption DEF TeamTasksInv, TeamTasksTypeOK
<1>3. sure' \in [page : SUBSET Tabs, load : SUBSET Tabs, press : SUBSET Presses]
  BY <1>1, <1>2
<1>4. ASSUME NEW k \in Presses PROVE PressIsSure(k)'
  <2>1. PressIsSure(k)
    BY DEF TeamTasksInv
  <2>2. QED
    BY <1>1, <2>1, TickFacts DEF PressIsSure, Of
<1>5. ASSUME NEW b \in Tabs PROVE PageIsSure(b)'
  <2>1. PageIsSure(b) /\ Owner[b] \in People
    BY <1>2 DEF TeamTasksInv
  <2>2. QED
    BY <1>1, <2>1 DEF PageIsSure, Settling
<1>6. QED
  BY <1>3, <1>4, <1>5

LEMMA TaskStep ==
  ASSUME TeamTasksInv, CreateTask \/ DeleteTask
  PROVE  TeamTasksInv'
<1>1. CASE CreateTask
  <2>1. PICK list \in SUBSET People :
          marks' = [p \in People |-> IF p \in list THEN "open" ELSE "none"]
    BY <1>1 DEF CreateTask
  <2>2. marks' \in [People -> Marks]
    BY <2>1 DEF Marks
  <2>3. TeamTasksTypeOK' /\ status' \notin {NoTask, Gone} /\ UNCHANGED pageVars
    BY <1>1, <2>2, TeamTasksAssumption DEF CreateTask, TeamTasksInv, TeamTasksTypeOK, pageVars
  <2>4. \A p \in People : marks[p] = "none"
    BY <1>1 DEF CreateTask, TeamTasksInv, Assigned
  <2>5. ASSUME NEW k \in Presses PROVE PressIsSure(k)'
    <3>1. PressIsSure(k)
      BY DEF TeamTasksInv
    <3>2. QED
      BY <2>3, <2>4, <3>1, TickFacts DEF pageVars, PressIsSure, Of
  <2>6. ASSUME NEW b \in Tabs PROVE PageIsSure(b)'
    <3>1. PageIsSure(b) /\ Owner[b] \in People
      BY TeamTasksAssumption DEF TeamTasksInv
    <3>2. shown[b] \in Marks /\ (b \in sure.load => loads[b] \in Marks)
      BY <3>1 DEF TeamTasksInv, TeamTasksTypeOK, PageIsSure
    <3>3. QED
      BY <2>3, <2>4, <3>1, <3>2 DEF pageVars, PageIsSure, Settling
  <2>7. QED
    BY <2>3, <2>5, <2>6 DEF TeamTasksInv, NoOrphanAssignees
<1>2. CASE DeleteTask
  <2>1. marks' \in [People -> Marks] /\ \A p \in People : marks'[p] = "none"
    BY <1>2 DEF DeleteTask, Marks
  <2>2. Assigned' = {}
    BY <2>1 DEF Assigned
  <2>3. \A p \in People \ Assigned : marks[p] = "none"
    BY DEF Assigned
  <2>4. /\ Doubt(Assigned, {}) /\ UNCHANGED edits /\ UNCHANGED <<ticks, waits, shown, loads>>
        /\ status' = Gone
    BY <1>2 DEF DeleteTask
  <2>5. /\ sure' \in [page : SUBSET Tabs, load : SUBSET Tabs, press : SUBSET Presses]
        /\ \A k \in Presses : PressIsSure(k)'
        /\ \A b \in Tabs : PageIsSure(b)'
    BY <2>1, <2>3, <2>4, DoubtKeepsInv
  <2>6. QED
    BY <2>1, <2>2, <2>4, <2>5, TeamTasksAssumption
    DEF TeamTasksInv, TeamTasksTypeOK, NoOrphanAssignees
<1>3. QED
  BY <1>1, <1>2

LEMMA PagesUnchanged ==
  ASSUME TeamTasksInv, UNCHANGED marks, UNCHANGED pageVars
  PROVE  /\ \A k \in Presses : PressIsSure(k)'
         /\ \A b \in Tabs : PageIsSure(b)'
  BY DEF TeamTasksInv, pageVars, PressIsSure, PageIsSure, Settling, Of

LEMMA EditStep ==
  ASSUME TeamTasksInv, NEW e \in Edits, ReadTask(e) \/ WriteTask(e) \/ RollBack(e)
  PROVE  TeamTasksInv'
<1>0. NoEdit \in EditRecords
  BY DEF NoEdit, EditRecords
<1>1. CASE ReadTask(e)
  <2>1. PICK whole \in BOOLEAN, list \in SUBSET People, s \in Statuses :
          /\ whole \/ list = {}
          /\ edits' = [edits EXCEPT ![e] =
                         [ stage |-> "read", whole |-> whole, list |-> list,
                           existing |-> Assigned, status |-> IF s # status THEN s ELSE NoTask ]]
    BY <1>1, Zenon DEF ReadTask
  <2> DEFINE edit == [ stage |-> "read", whole |-> whole, list |-> list,
                       existing |-> Assigned, status |-> IF s # status THEN s ELSE NoTask ]
  <2>2. edit \in EditRecords
    BY DEF EditRecords, Assigned
  <2>3. edits' \in [Edits -> EditRecords]
    BY <2>1, <2>2 DEF TeamTasksInv, TeamTasksTypeOK
  <2>4. UNCHANGED <<status, marks>> /\ UNCHANGED pageVars /\ status \in Statuses
    BY <1>1 DEF ReadTask
  <2>5. TeamTasksTypeOK'
    BY <2>3, <2>4 DEF TeamTasksInv, TeamTasksTypeOK, pageVars
  <2>6. QED
    BY <2>4, <2>5, PagesUnchanged, TeamTasksAssumption
    DEF TeamTasksInv, NoOrphanAssignees, Assigned
<1>2. CASE RollBack(e)
  <2>1. edits' \in [Edits -> EditRecords]
    BY <1>0, <1>2 DEF RollBack, TeamTasksInv, TeamTasksTypeOK
  <2>2. status # NoTask /\ UNCHANGED <<status, marks>> /\ UNCHANGED pageVars
    BY <1>2 DEF RollBack, TeamTasksInv
  <2>3. TeamTasksTypeOK'
    BY <2>1, <2>2 DEF TeamTasksInv, TeamTasksTypeOK, pageVars
  <2>4. QED
    BY <2>2, <2>3, PagesUnchanged DEF TeamTasksInv, NoOrphanAssignees, Assigned
<1>3. CASE WriteTask(e)
  <2> DEFINE edit == edits[e]
  <2>1. edit \in EditRecords /\ status # Gone /\ edits' \in [Edits -> EditRecords]
    BY <1>0, <1>3 DEF WriteTask, Conflicts, TeamTasksInv, TeamTasksTypeOK
  <2>2. /\ status' \in Statuses \cup {NoTask} /\ UNCHANGED <<ticks, waits, shown, loads>>
        /\ status # NoTask /\ status' # NoTask
    BY <1>3, <2>1 DEF WriteTask, EditRecords, TeamTasksInv, TeamTasksTypeOK
  <2>3. CASE ~edit.whole
    <3>1. UNCHANGED marks /\ UNCHANGED pageVars
      BY <1>3, <2>3 DEF WriteTask, pageVars
    <3>2. TeamTasksTypeOK'
      BY <2>1, <2>2, <3>1 DEF TeamTasksInv, TeamTasksTypeOK, pageVars
    <3>3. QED
      BY <2>2, <3>1, <3>2, PagesUnchanged, TeamTasksAssumption
      DEF TeamTasksInv, NoOrphanAssignees
  <2>4. CASE edit.whole
    <3>1. SetAssignees(edit.list, edit.existing)
      BY <1>3, <2>4 DEF WriteTask
    <3>2. marks' \in [People -> Marks]
      BY <3>1 DEF SetAssignees, Marks, TeamTasksInv, TeamTasksTypeOK
    <3>3. (edit.list \ edit.existing) \cap Assigned = {}
      BY <1>3, <2>4 DEF WriteTask, Conflicts
    <3>4. \A p \in People \ (edit.existing \ edit.list) : marks'[p] = marks[p] \/ marks[p] = "none"
      BY <3>1, <3>3 DEF SetAssignees, Assigned
    <3>5. /\ sure' \in [page : SUBSET Tabs, load : SUBSET Tabs, press : SUBSET Presses]
          /\ \A k \in Presses : PressIsSure(k)'
          /\ \A b \in Tabs : PageIsSure(b)'
      BY <2>2, <3>1, <3>2, <3>4, DoubtKeepsInv DEF SetAssignees
    <3>6. QED
      BY <2>1, <2>2, <3>2, <3>5, TeamTasksAssumption
      DEF TeamTasksInv, TeamTasksTypeOK, NoOrphanAssignees
  <2>5. QED
    BY <2>3, <2>4
<1>4. QED
  BY <1>1, <1>2, <1>3

\* A step of one press that changes nobody's tick.
LEMMA PressStepInv ==
  ASSUME TeamTasksInv, TeamTasksTypeOK', UNCHANGED <<status, marks, edits>>,
         \A k \in Presses : PressIsSure(k)', \A b \in Tabs : PageIsSure(b)'
  PROVE  TeamTasksInv'
  BY DEF TeamTasksInv, NoOrphanAssignees, Assigned

LEMMA PressStepOfPage ==
  ASSUME TeamTasksInv, NEW b \in Tabs, NEW k \in Presses, Tick(b, k)
  PROVE  TeamTasksInv'
<1> DEFINE tick == [stage |-> "sent", tab |-> b, wants |-> Turned(shown[b]), loaded |-> "none"]
<1>1. /\ tick \in TickRecords /\ tick.stage = "sent" /\ tick.tab = b /\ tick # NoTick
      /\ tick.wants = Turned(shown[b])
  BY DEF TickRecords, Turned, Marks, NoTick
<1>2. /\ ticks' = [ticks EXCEPT ![k] = tick] /\ waits' = [waits EXCEPT ![b] = k]
      /\ sure' = [sure EXCEPT !.press = IF b \in sure.page THEN @ \cup {k} ELSE @]
      /\ UNCHANGED <<status, marks, edits, shown, loads>>
      /\ shown[b] # "none" /\ waits[b] = NoPress /\ ticks[k] = NoTick
  BY DEF Tick
<1> HIDE DEF tick
<1>3. /\ ticks'[k] = tick /\ \A j \in Presses \ {k} : ticks'[j] = ticks[j]
      /\ waits'[b] = k /\ \A a \in Tabs \ {b} : waits'[a] = waits[a]
      /\ sure'.page = sure.page /\ sure'.load = sure.load
      /\ sure'.press = IF b \in sure.page THEN sure.press \cup {k} ELSE sure.press
      /\ k # NoPress
  BY <1>2, TeamTasksAssumption DEF TeamTasksInv, TeamTasksTypeOK
<1>4. TeamTasksTypeOK'
  BY <1>1, <1>2, <1>3 DEF TeamTasksInv, TeamTasksTypeOK
<1>5. ASSUME NEW j \in Presses PROVE PressIsSure(j)'
  <2>1. PressIsSure(j) /\ PageIsSure(b)
    BY DEF TeamTasksInv
  <2>2. QED
    BY <1>1, <1>2, <1>3, <2>1 DEF PressIsSure, PageIsSure, Of
<1>6. ASSUME NEW a \in Tabs PROVE PageIsSure(a)'
  <2>1. PageIsSure(a) /\ waits[a] \in Presses \cup {NoPress}
    BY DEF TeamTasksInv, TeamTasksTypeOK
  <2>2. QED
    BY <1>1, <1>2, <1>3, <2>1 DEF PageIsSure, Settling
<1>7. QED
  BY <1>2, <1>4, <1>5, <1>6, PressStepInv

LEMMA ReadTickStep ==
  ASSUME TeamTasksInv, NEW k \in Presses, ReadTick(k)
  PROVE  TeamTasksInv'
<1>1. ticks[k].stage = "sent" /\ ticks[k] # NoTick /\ marks[Of(k)] # "none"
  BY TickFacts DEF ReadTick
<1>2. ticks[k] \in TickRecords /\ marks[Of(k)] \in Marks
  BY <1>1, TickFacts
<1> DEFINE mark == marks[Of(k)]
           tick == [ticks[k] EXCEPT !.stage = "read", !.loaded = mark]
<1>3. /\ ticks' = [ticks EXCEPT ![k] = tick]
      /\ UNCHANGED <<status, marks, edits, waits, shown, loads, sure>>
  BY DEF ReadTick, TeamTasksInv, TeamTasksTypeOK
<1>4. mark \in {"open", "done"} /\ mark = marks[Of(k)]
  BY <1>1, <1>2 DEF Marks
<1> HIDE DEF mark
<1>5. /\ tick \in TickRecords /\ tick.stage = "read" /\ tick.loaded = mark
      /\ tick.tab = ticks[k].tab /\ tick.wants = ticks[k].wants /\ tick # NoTick
  BY <1>2, <1>4 DEF TickRecords, Marks, NoTick
<1> HIDE DEF tick
<1>6. ticks'[k] = tick /\ \A j \in Presses \ {k} : ticks'[j] = ticks[j]
  BY <1>3 DEF TeamTasksInv, TeamTasksTypeOK
<1>7. TeamTasksTypeOK'
  BY <1>3, <1>4, <1>5, <1>6 DEF TeamTasksInv, TeamTasksTypeOK
<1>8. ASSUME NEW j \in Presses PROVE PressIsSure(j)'
  <2>1. PressIsSure(j)
    BY DEF TeamTasksInv
  <2>2. QED
    BY <1>1, <1>3, <1>4, <1>5, <1>6, <2>1 DEF PressIsSure, Of
<1>9. ASSUME NEW a \in Tabs PROVE PageIsSure(a)'
  <2>1. PageIsSure(a) /\ waits[a] \in Presses \cup {NoPress}
    BY DEF TeamTasksInv, TeamTasksTypeOK
  <2>2. QED
    BY <1>1, <1>3, <1>5, <1>6, <2>1 DEF PageIsSure, Settling
<1>10. QED
  BY <1>3, <1>7, <1>8, <1>9, PressStepInv

LEMMA WriteTickStep ==
  ASSUME TeamTasksInv, NEW k \in Presses, WriteTick(k)
  PROVE  TeamTasksInv'
<1>1. ticks[k].stage = "read" /\ ticks[k] # NoTick /\ marks[Of(k)] # "none"
  BY TickFacts DEF WriteTick
<1>2. ticks[k] \in TickRecords /\ ticks[k].tab \in Tabs /\ Of(k) \in People
  BY <1>1, TickFacts
<1> DEFINE tick == Answered("done", ticks[k].tab)
           own == Of(k)
<1>3. /\ marks' = [marks EXCEPT ![own] = Turned(ticks[k].loaded)]
      /\ ticks' = [ticks EXCEPT ![k] = tick] /\ Doubt({own}, {k})
      /\ UNCHANGED <<status, edits, waits, shown, loads>>
  BY DEF WriteTick
<1>4. tick \in TickRecords /\ tick.stage = "done" /\ tick.tab = ticks[k].tab /\ tick # NoTick
  BY <1>2 DEF Answered, TickRecords, Marks, NoTick
<1>5. /\ sure'.page = {b \in sure.page : Owner[b] # own \/ waits[b] = k}
      /\ sure'.load = {b \in sure.load : Owner[b] # own \/ waits[b] = k}
      /\ sure'.press = {j \in sure.press : Of(j) # own \/ j = k}
      /\ sure' = [page |-> sure'.page, load |-> sure'.load, press |-> sure'.press]
  BY <1>3 DEF Doubt
<1>6. own \in People /\ own = Of(k)
  BY <1>2
<1> HIDE DEF tick, own
<1>7. ticks'[k] = tick /\ \A j \in Presses \ {k} : ticks'[j] = ticks[j]
  BY <1>3 DEF TeamTasksInv, TeamTasksTypeOK
<1>8. marks' \in [People -> Marks] /\ \A p \in People \ {own} : marks'[p] = marks[p]
  BY <1>3, <1>6 DEF TeamTasksInv, TeamTasksTypeOK, Turned, Marks
<1>9. TeamTasksTypeOK'
  <2>1. sure' \in [page : SUBSET Tabs, load : SUBSET Tabs, press : SUBSET Presses]
    BY <1>5 DEF TeamTasksInv, TeamTasksTypeOK
  <2>2. QED
    BY <1>3, <1>4, <1>7, <1>8, <2>1 DEF TeamTasksInv, TeamTasksTypeOK
<1>10. ASSUME NEW j \in Presses PROVE PressIsSure(j)'
  <2>1. PressIsSure(j)
    BY DEF TeamTasksInv
  <2>2. CASE j = k
    BY <1>4, <1>7, <2>2 DEF PressIsSure
  <2>3. CASE j # k
    <3>1. ticks'[j] = ticks[j] /\ Of(j)' = Of(j)
      BY <1>7, <2>3 DEF Of
    <3>2. j \in sure'.press => j \in sure.press /\ Of(j) # own
      BY <1>5, <2>3
    <3>3. QED
      BY <1>8, <2>1, <3>1, <3>2, TickFacts DEF PressIsSure
  <2>4. QED
    BY <2>2, <2>3
<1>11. ASSUME NEW a \in Tabs PROVE PageIsSure(a)'
  <2>1. PageIsSure(a) /\ waits[a] \in Presses \cup {NoPress} /\ Owner[a] \in People
    BY TeamTasksAssumption DEF TeamTasksInv, TeamTasksTypeOK
  <2>2. k # NoPress
    BY TeamTasksAssumption
  <2>3. CASE waits[a] = k
    BY <1>3, <1>4, <1>5, <1>7, <2>1, <2>2, <2>3 DEF PageIsSure, Settling
  <2>4. CASE waits[a] # k
    <3>1. a \in sure'.page \/ a \in sure'.load => marks'[Owner[a]] = marks[Owner[a]]
      BY <1>5, <1>8, <2>1, <2>4
    <3>2. /\ a \in sure'.page => a \in sure.page
          /\ a \in sure'.load => a \in sure.load
          /\ waits[a] # NoPress => ticks'[waits[a]] = ticks[waits[a]]
      BY <1>5, <1>7, <2>1, <2>4
    <3>3. QED
      BY <1>3, <2>1, <2>4, <3>1, <3>2 DEF PageIsSure, Settling
  <2>5. QED
    BY <2>3, <2>4
<1>12. Assigned # {} /\ status # Gone /\ status # NoTask
  BY <1>1, <1>2 DEF Assigned, TeamTasksInv, NoOrphanAssignees
<1>13. QED
  BY <1>3, <1>9, <1>10, <1>11, <1>12 DEF TeamTasksInv, NoOrphanAssignees

LEMMA AnswerTickStep ==
  ASSUME TeamTasksInv, NEW k \in Presses, AnswerTick(k)
  PROVE  TeamTasksInv'
<1>1. ticks[k].stage = "done" /\ ticks[k] # NoTick /\ waits[ticks[k].tab] = k
  BY TickFacts DEF AnswerTick
<1>2. ticks[k] \in TickRecords /\ ticks[k].tab \in Tabs
  BY <1>1, TickFacts
<1> DEFINE b == ticks[k].tab
           tick == Answered("settling", b)
<1>3. /\ ticks' = [ticks EXCEPT ![k] = tick] /\ loads' = [loads EXCEPT ![b] = Nothing]
      /\ sure' = [sure EXCEPT !.load = @ \ {b}]
      /\ UNCHANGED <<status, marks, edits, waits, shown>>
  BY DEF AnswerTick
<1>4. /\ tick \in TickRecords /\ tick.stage = "settling" /\ tick.tab = b /\ tick # NoTick
      /\ b \in Tabs /\ waits[b] = k /\ ticks[k].tab = b
  BY <1>1, <1>2 DEF Answered, TickRecords, Marks, NoTick
<1> HIDE DEF b, tick
<1>5. /\ ticks'[k] = tick /\ \A j \in Presses \ {k} : ticks'[j] = ticks[j]
      /\ \A a \in Tabs \ {b} : loads'[a] = loads[a]
      /\ sure'.page = sure.page /\ sure'.load = sure.load \ {b} /\ sure'.press = sure.press
  BY <1>3, <1>4 DEF TeamTasksInv, TeamTasksTypeOK
<1>6. TeamTasksTypeOK'
  BY <1>3, <1>4, <1>5 DEF TeamTasksInv, TeamTasksTypeOK
<1>7. ASSUME NEW j \in Presses PROVE PressIsSure(j)'
  <2>1. PressIsSure(j)
    BY DEF TeamTasksInv
  <2>2. QED
    BY <1>3, <1>4, <1>5, <2>1 DEF PressIsSure, Of
<1>8. ASSUME NEW a \in Tabs PROVE PageIsSure(a)'
  <2>1. PageIsSure(a) /\ waits[a] \in Presses \cup {NoPress} /\ k # NoPress
    BY TeamTasksAssumption DEF TeamTasksInv, TeamTasksTypeOK
  <2>2. CASE a = b
    BY <1>3, <1>4, <1>5, <2>1, <2>2 DEF PageIsSure
  <2>3. CASE a # b
    <3>1. waits[a] # k
      BY <1>4, <2>1, <2>3 DEF PageIsSure
    <3>2. QED
      BY <1>3, <1>5, <2>1, <2>3, <3>1 DEF PageIsSure, Settling
  <2>4. QED
    BY <2>2, <2>3
<1>9. QED
  BY <1>3, <1>6, <1>7, <1>8, PressStepInv

LEMMA RefetchStep ==
  ASSUME TeamTasksInv, NEW b \in Tabs, Refetch(b)
  PROVE  TeamTasksInv'
<1>1. /\ loads' = [loads EXCEPT ![b] = marks[Owner[b]]]
      /\ sure' = [sure EXCEPT !.load = @ \cup {b}]
      /\ UNCHANGED <<status, marks, edits, ticks, waits, shown>>
  BY DEF Refetch
<1>2. marks[Owner[b]] \in Marks /\ Nothing \notin Marks
  BY TeamTasksAssumption DEF TeamTasksInv, TeamTasksTypeOK, Marks, Nothing
<1>3. /\ loads'[b] = marks[Owner[b]] /\ \A a \in Tabs \ {b} : loads'[a] = loads[a]
      /\ sure'.page = sure.page /\ sure'.load = sure.load \cup {b} /\ sure'.press = sure.press
  BY <1>1 DEF TeamTasksInv, TeamTasksTypeOK
<1>4. TeamTasksTypeOK'
  BY <1>1, <1>2, <1>3 DEF TeamTasksInv, TeamTasksTypeOK
<1>5. ASSUME NEW j \in Presses PROVE PressIsSure(j)'
  BY <1>1, <1>3 DEF TeamTasksInv, PressIsSure, Of
<1>6. ASSUME NEW a \in Tabs PROVE PageIsSure(a)'
  <2>1. PageIsSure(a)
    BY DEF TeamTasksInv
  <2>2. QED
    BY <1>1, <1>2, <1>3, <2>1 DEF PageIsSure, Settling
<1>7. QED
  BY <1>1, <1>4, <1>5, <1>6, PressStepInv

\* The press that a page waits for, or has sent, is not another one's.
LEMMA NobodyWaits ==
  ASSUME TeamTasksInv, NEW b \in Tabs, NEW k \in Presses, NEW a \in Tabs, a # b,
         waits[b] = k \/ (ticks[k] # NoTick /\ ticks[k].tab = b)
  PROVE  waits[a] # k
  BY TeamTasksAssumption DEF TeamTasksInv, PageIsSure

LEMMA ShowStep ==
  ASSUME TeamTasksInv, NEW b \in Tabs, Show(b)
  PROVE  TeamTasksInv'
<1>1. /\ loads[b] # Nothing
      /\ shown' = [shown EXCEPT ![b] = loads[b]] /\ loads' = [loads EXCEPT ![b] = Nothing]
      /\ sure' = [ page  |-> IF b \in sure.load THEN sure.page \cup {b} ELSE sure.page \ {b},
                   load  |-> sure.load \ {b},
                   press |-> IF Settling(b) THEN sure.press \ {waits[b]} ELSE sure.press ]
      /\ UNCHANGED <<status, marks, edits>>
  BY DEF Show
<1>2. /\ loads[b] \in Marks
      /\ shown'[b] = loads[b] /\ \A a \in Tabs \ {b} : shown'[a] = shown[a]
      /\ \A a \in Tabs \ {b} : loads'[a] = loads[a]
      /\ shown' \in [Tabs -> Marks] /\ loads' \in [Tabs -> Marks \cup {Nothing}]
  BY <1>1 DEF TeamTasksInv, TeamTasksTypeOK
<1>3. /\ sure'.page = IF b \in sure.load THEN sure.page \cup {b} ELSE sure.page \ {b}
      /\ sure'.load = sure.load \ {b}
      /\ sure'.press = IF Settling(b) THEN sure.press \ {waits[b]} ELSE sure.press
      /\ sure' \in [page : SUBSET Tabs, load : SUBSET Tabs, press : SUBSET Presses]
  BY <1>1 DEF TeamTasksInv, TeamTasksTypeOK
<1>4. PageIsSure(b) /\ (b \in sure.load /\ Settling(b) /\ loads[b] # "none" => loads[b] = marks[Owner[b]])
  BY DEF TeamTasksInv, PageIsSure
<1>5. CASE ~Settling(b)
  <2>1. UNCHANGED <<ticks, waits>>
    BY <1>5 DEF Show
  <2>2. TeamTasksTypeOK'
    BY <1>1, <1>2, <1>3, <2>1 DEF TeamTasksInv, TeamTasksTypeOK
  <2>3. ASSUME NEW j \in Presses PROVE PressIsSure(j)'
    BY <1>1, <1>3, <1>5, <2>1 DEF TeamTasksInv, PressIsSure, Of
  <2>4. ASSUME NEW a \in Tabs PROVE PageIsSure(a)'
    <3>1. PageIsSure(a)
      BY DEF TeamTasksInv
    <3>2. CASE a = b
      BY <1>1, <1>2, <1>3, <1>4, <2>1, <3>2 DEF PageIsSure
    <3>3. CASE a # b
      BY <1>1, <1>2, <1>3, <2>1, <3>1, <3>3 DEF PageIsSure, Settling
    <3>4. QED
      BY <3>2, <3>3
  <2>5. QED
    BY <1>1, <2>2, <2>3, <2>4, PressStepInv
<1>6. CASE Settling(b)
  <2>1. PICK k \in Presses : k = waits[b]
    BY <1>6 DEF Settling, TeamTasksInv, TeamTasksTypeOK
  <2>2. ticks' = [ticks EXCEPT ![k] = NoTick] /\ waits' = [waits EXCEPT ![b] = NoPress]
    BY <1>6, <2>1 DEF Show
  <2>3. /\ ticks'[k] = NoTick /\ \A j \in Presses \ {k} : ticks'[j] = ticks[j]
        /\ waits'[b] = NoPress /\ \A a \in Tabs \ {b} : waits'[a] = waits[a]
        /\ ticks' \in [Presses -> {NoTick} \cup TickRecords]
        /\ waits' \in [Tabs -> Presses \cup {NoPress}]
        /\ sure'.press = sure.press \ {k}
    BY <1>3, <1>6, <2>1, <2>2 DEF TeamTasksInv, TeamTasksTypeOK
  <2>4. TeamTasksTypeOK'
    BY <1>1, <1>2, <1>3, <2>3, TickFacts DEF TeamTasksInv, TeamTasksTypeOK
  <2>5. ASSUME NEW j \in Presses PROVE PressIsSure(j)'
    BY <1>1, <2>3 DEF TeamTasksInv, PressIsSure, Of
  <2>6. ASSUME NEW a \in Tabs PROVE PageIsSure(a)'
    <3>1. PageIsSure(a) /\ waits[a] \in Presses \cup {NoPress}
      BY DEF TeamTasksInv, TeamTasksTypeOK
    <3>2. CASE a = b
      BY <1>1, <1>2, <1>3, <1>4, <1>6, <2>3, <3>2 DEF PageIsSure
    <3>3. CASE a # b
      <4>1. waits[a] # k
        BY <2>1, <3>3, NobodyWaits
      <4>2. QED
        BY <1>1, <1>2, <1>3, <2>3, <3>1, <3>3, <4>1 DEF PageIsSure, Settling
    <3>4. QED
      BY <3>2, <3>3
  <2>7. QED
    BY <1>1, <2>4, <2>5, <2>6, PressStepInv
<1>7. QED
  BY <1>5, <1>6

LEMMA GiveUpStep ==
  ASSUME TeamTasksInv, NEW b \in Tabs, GiveUp(b)
  PROVE  TeamTasksInv'
<1>1. /\ waits' = [waits EXCEPT ![b] = NoPress]
      /\ sure' = [sure EXCEPT !.page = @ \ {b}, !.load = @ \ {b}]
      /\ UNCHANGED <<status, marks, edits, ticks, shown, loads>>
  BY DEF GiveUp
<1>2. /\ waits'[b] = NoPress /\ \A a \in Tabs \ {b} : waits'[a] = waits[a]
      /\ waits' \in [Tabs -> Presses \cup {NoPress}]
      /\ sure'.page = sure.page \ {b} /\ sure'.load = sure.load \ {b} /\ sure'.press = sure.press
      /\ sure' \in [page : SUBSET Tabs, load : SUBSET Tabs, press : SUBSET Presses]
  BY <1>1 DEF TeamTasksInv, TeamTasksTypeOK
<1>3. TeamTasksTypeOK'
  BY <1>1, <1>2 DEF TeamTasksInv, TeamTasksTypeOK
<1>4. ASSUME NEW j \in Presses PROVE PressIsSure(j)'
  BY <1>1, <1>2 DEF TeamTasksInv, PressIsSure, Of
<1>5. ASSUME NEW a \in Tabs PROVE PageIsSure(a)'
  <2>1. PageIsSure(a)
    BY DEF TeamTasksInv
  <2>2. CASE a = b
    BY <1>2, <2>2 DEF PageIsSure
  <2>3. CASE a # b
    BY <1>1, <1>2, <2>1, <2>3 DEF PageIsSure, Settling
  <2>4. QED
    BY <2>2, <2>3
<1>6. QED
  BY <1>1, <1>3, <1>4, <1>5, PressStepInv

LEMMA EndTickStep ==
  ASSUME TeamTasksInv, NEW k \in Presses, EndTick(k)
  PROVE  TeamTasksInv'
<1>1. PICK b \in Tabs : b = ticks[k].tab /\ ticks[k] # NoTick
  BY TickFacts DEF EndTick
<1>2. /\ ticks' = [ticks EXCEPT ![k] = NoTick]
      /\ IF waits[b] = k
         THEN /\ waits' = [waits EXCEPT ![b] = NoPress]
              /\ sure' = [ page |-> sure.page \ {b}, load |-> sure.load \ {b},
                           press |-> sure.press \ {k} ]
         ELSE waits' = waits /\ sure' = [sure EXCEPT !.press = @ \ {k}]
      /\ UNCHANGED <<status, marks, edits, shown, loads>>
  BY <1>1 DEF EndTick
<1>3. /\ ticks'[k] = NoTick /\ \A j \in Presses \ {k} : ticks'[j] = ticks[j]
      /\ ticks' \in [Presses -> {NoTick} \cup TickRecords]
      /\ waits'[b] = IF waits[b] = k THEN NoPress ELSE waits[b]
      /\ \A a \in Tabs \ {b} : waits'[a] = waits[a]
      /\ waits' \in [Tabs -> Presses \cup {NoPress}]
      /\ sure'.press = sure.press \ {k}
      /\ sure'.page = (IF waits[b] = k THEN sure.page \ {b} ELSE sure.page)
      /\ sure'.load = (IF waits[b] = k THEN sure.load \ {b} ELSE sure.load)
      /\ sure' \in [page : SUBSET Tabs, load : SUBSET Tabs, press : SUBSET Presses]
  <2>1. CASE waits[b] = k
    BY <1>2, <2>1 DEF TeamTasksInv, TeamTasksTypeOK
  <2>2. CASE waits[b] # k
    BY <1>2, <2>2 DEF TeamTasksInv, TeamTasksTypeOK
  <2>3. QED
    BY <2>1, <2>2
<1>4. TeamTasksTypeOK'
  BY <1>2, <1>3, TickFacts DEF TeamTasksInv, TeamTasksTypeOK
<1>5. ASSUME NEW j \in Presses PROVE PressIsSure(j)'
  BY <1>2, <1>3 DEF TeamTasksInv, PressIsSure, Of
<1>6. ASSUME NEW a \in Tabs PROVE PageIsSure(a)'
  <2>1. PageIsSure(a) /\ waits[a] \in Presses \cup {NoPress}
    BY DEF TeamTasksInv, TeamTasksTypeOK
  <2>2. CASE a = b /\ waits[b] = k
    BY <1>3, <2>2 DEF PageIsSure
  <2>3. CASE a # b \/ waits[b] # k
    <3>1. waits[a] # k
      BY <1>1, <2>3, NobodyWaits
    <3>2. /\ waits'[a] = waits[a] /\ (waits[a] # NoPress => ticks'[waits[a]] = ticks[waits[a]])
          /\ a \in sure'.page => a \in sure.page
          /\ a \in sure'.load => a \in sure.load
      BY <1>3, <2>1, <2>3, <3>1
    <3>3. QED
      BY <1>2, <2>1, <3>2 DEF PageIsSure, Settling
  <2>4. QED
    BY <2>2, <2>3
<1>7. QED
  BY <1>2, <1>4, <1>5, <1>6, PressStepInv

LEMMA TeamTasksStep == TeamTasksInv /\ [TeamTasksNext]_taskVars => TeamTasksInv'
<1>1. CASE UNCHANGED taskVars /\ TeamTasksInv
  <2>1. UNCHANGED <<status, marks, edits>> /\ UNCHANGED marks /\ UNCHANGED pageVars
    BY <1>1 DEF taskVars
  <2>2. TeamTasksTypeOK'
    BY <1>1, <2>1 DEF pageVars, TeamTasksInv, TeamTasksTypeOK
  <2>3. QED
    BY <1>1, <2>1, <2>2, PagesUnchanged, PressStepInv
<1>2. QED
  BY <1>1, TaskStep, EditStep, PressStepOfPage, ReadTickStep, WriteTickStep, AnswerTickStep,
     RefetchStep, ShowStep, GiveUpStep, EndTickStep DEF TeamTasksNext

\* The records keep their form, and a request that is going to turn a tick has found one.
THEOREM TeamTasksTypeCorrect == TeamTasksSpec => []TeamTasksTypeOK
<1>1. TeamTasksInv => TeamTasksTypeOK
  BY DEF TeamTasksInv
<1>2. QED
  BY <1>1, TeamTasksInitInv, TeamTasksStep, PTL DEF TeamTasksSpec

\* A deleted team task leaves no assignments behind, whatever requests that had read it
\* go on to write (delete_team_task, update_team_task).
THEOREM NoOrphanAssigneesHolds == TeamTasksSpec => []NoOrphanAssignees
<1>1. TeamTasksInv => NoOrphanAssignees
  BY DEF TeamTasksInv
<1>2. QED
  BY <1>1, TeamTasksInitInv, TeamTasksStep, PTL DEF TeamTasksSpec

\* Only the writing of a press takes it from "read" to "done".
LEMMA OnlyWriteTicksOff ==
  ASSUME TeamTasksInv, TeamTasksNext, NEW k \in Presses, TicksOff(k)
  PROVE  WriteTick(k)
<1>1. /\ ticks[k].stage = "read" /\ ticks'[k].stage = "done" /\ ticks'[k] # ticks[k]
      /\ ticks \in [Presses -> {NoTick} \cup TickRecords] /\ ticks'[k] # NoTick
  BY TickFacts DEF TicksOff, TeamTasksInv, TeamTasksTypeOK
<1>2. ~UNCHANGED ticks
  BY <1>1
<1>3. ~CreateTask /\ ~DeleteTask /\ \A e \in Edits : ~ReadTask(e) /\ ~WriteTask(e) /\ ~RollBack(e)
  BY <1>2 DEF CreateTask, DeleteTask, ReadTask, WriteTask, RollBack, pageVars
<1>4. \A b \in Tabs : ~Refetch(b) /\ ~GiveUp(b)
  BY <1>2 DEF Refetch, GiveUp
<1>5. \A b \in Tabs, j \in Presses : ~Tick(b, j)
  <2> SUFFICES ASSUME NEW b \in Tabs, NEW j \in Presses, Tick(b, j) PROVE FALSE
    OBVIOUS
  <2>1. ticks'[k].stage # "done"
    BY <1>1 DEF Tick
  <2>2. QED
    BY <1>1, <2>1
<1>6. \A b \in Tabs : ~Show(b)
  BY <1>1 DEF Show
<1>7. ASSUME NEW j \in Presses, ReadTick(j) \/ WriteTick(j) \/ AnswerTick(j) \/ EndTick(j)
      PROVE  WriteTick(k)
  <2>1. j = k
    BY <1>1, <1>7 DEF ReadTick, WriteTick, AnswerTick, EndTick
  <2>2. ~ReadTick(k) /\ ~AnswerTick(k)
    BY <1>1 DEF ReadTick, AnswerTick
  <2>3. ~EndTick(k)
    BY <1>1 DEF EndTick
  <2>4. QED
    BY <1>7, <2>1, <2>2, <2>3
<1>8. QED
  BY <1>3, <1>4, <1>5, <1>6, <1>7 DEF TeamTasksNext

\* Whatever edits overlap, a tick stays until it is turned round, its owner is left out of
\* a list that is saved, or the task is deleted (_set_assignees).
THEOREM TicksAreKeptHolds == TeamTasksSpec => TicksAreKept
<1>1. TeamTasksInv /\ [TeamTasksNext]_taskVars =>
        [\A p \in People : marks[p] = "done" /\ marks'[p] # "done" =>
           \/ \E k \in Presses : TicksOff(k) /\ Of(k) = p
           \/ LeftOut(p) \/ status' = Gone]_taskVars
  <2> SUFFICES ASSUME TeamTasksInv, TeamTasksNext, status' # Gone,
                      NEW p \in People, marks[p] = "done", marks'[p] # "done"
               PROVE  (\E k \in Presses : TicksOff(k) /\ Of(k) = p) \/ LeftOut(p)
    OBVIOUS
  <2>1. CASE CreateTask \/ DeleteTask
    <3>1. status = NoTask /\ p \in Assigned
      BY <2>1 DEF CreateTask, DeleteTask, Assigned
    <3>2. QED
      BY <3>1 DEF TeamTasksInv
  <2>2. ASSUME NEW e \in Edits, ReadTask(e) \/ WriteTask(e) \/ RollBack(e) PROVE LeftOut(p)
    <3>1. WriteTask(e) /\ edits[e].whole
      BY <2>2 DEF ReadTask, WriteTask, RollBack
    <3>2. SetAssignees(edits[e].list, edits[e].existing) /\ p \in Assigned
      BY <3>1 DEF WriteTask, Assigned
    <3>3. (edits[e].list \ edits[e].existing) \cap Assigned = {}
      BY <3>1 DEF WriteTask, Conflicts
    <3>4. p \notin edits[e].list
      BY <3>2, <3>3 DEF SetAssignees
    <3>5. edits[e].stage = "read" /\ edits'[e].stage = "idle"
      BY <3>1 DEF WriteTask, NoEdit, TeamTasksInv, TeamTasksTypeOK
    <3>6. QED
      BY <3>1, <3>4, <3>5 DEF LeftOut
  <2>3. ASSUME NEW k \in Presses, ReadTick(k) \/ WriteTick(k) \/ AnswerTick(k) \/ EndTick(k)
        PROVE  TicksOff(k) /\ Of(k) = p
    <3>1. WriteTick(k)
      BY <2>3 DEF ReadTick, AnswerTick, EndTick
    <3>2. /\ ticks[k].stage = "read" /\ marks' = [marks EXCEPT ![Of(k)] = Turned(ticks[k].loaded)]
          /\ ticks' = [ticks EXCEPT ![k] = Answered("done", ticks[k].tab)]
      BY <3>1 DEF WriteTick
    <3>3. Of(k) = p
      BY <3>2 DEF TeamTasksInv, TeamTasksTypeOK
    <3>4. QED
      BY <3>2, <3>3 DEF TicksOff, Answered, TeamTasksInv, TeamTasksTypeOK
  <2>4. ASSUME NEW b \in Tabs, (\E k \in Presses : Tick(b, k)) \/ Refetch(b) \/ Show(b) \/ GiveUp(b)
        PROVE  FALSE
    BY <2>4 DEF Tick, Refetch, Show, GiveUp
  <2>5. QED
    BY <2>1, <2>2, <2>3, <2>4 DEF TeamTasksNext
<1>2. QED
  BY <1>1, TeamTasksInitInv, TeamTasksStep, PTL DEF TeamTasksSpec, TicksAreKept

\* A press of the button does what the button showed, though the request only turns the
\* tick round, whatever other pages and managers do meanwhile, but for the cases that
\* TickDoesWhatItShows names (toggle_complete, useCompleteTeamTask).
THEOREM TickDoesWhatItShowsHolds == TeamTasksSpec => TickDoesWhatItShows
<1>1. TeamTasksInv /\ [TeamTasksNext]_taskVars =>
        [\A k \in Presses :
           TicksOff(k) /\ k \in sure.press => marks'[Of(k)] = ticks[k].wants]_taskVars
  <2> SUFFICES ASSUME TeamTasksInv, TeamTasksNext, NEW k \in Presses, TicksOff(k), k \in sure.press
               PROVE  marks'[Of(k)] = ticks[k].wants
    OBVIOUS
  <2>1. ticks[k].stage = "read" /\ PressIsSure(k)
    BY DEF TicksOff, TeamTasksInv
  <2>2. Of(k) \in People /\ marks \in [People -> Marks]
    BY <2>1, TickFacts DEF PressIsSure, TeamTasksInv, TeamTasksTypeOK
  <2>3. marks' = [marks EXCEPT ![Of(k)] = Turned(ticks[k].loaded)]
    BY OnlyWriteTicksOff DEF WriteTick
  <2>4. QED
    BY <2>1, <2>2, <2>3 DEF PressIsSure
<1>2. QED
  BY <1>1, TeamTasksInitInv, TeamTasksStep, PTL DEF TeamTasksSpec, TickDoesWhatItShows

(***************************************************************************)
(* The list of backups                                                     *)
(***************************************************************************)
\* A request that counts as undisturbed is the only one, and while the list is calm there
\* is no other.
OneAtATime ==
  \A c \in Calls :
    /\ calls[c].alone => Alone(c)
    /\ calm /\ ~Free(c) => calls[c].alone

\* What the answer to a request is going to make of the list: an undisturbed load brings
\* what is stored, and an undisturbed request finds the list right.
AnswersFit ==
  \A c \in Calls :
    /\ calls[c].op = "load" /\ calls[c].stage = "done" /\ calls[c].alone => calls[c].seen = stored
    /\ calm /\ calls[c].op \notin {"none", "load"} /\ calls[c].stage = "sent" => listed = stored
    /\ calm /\ calls[c].op = "delete" /\ calls[c].stage = "done" =>
         listed \ {calls[c].row} = stored

FreeIsIdle == \A c \in Calls : Free(c) => calls[c].stage = "idle"

RestIsRight == calm /\ (\A c \in Calls : Free(c)) => listed = stored

ListInv == BackupListTypeOK /\ FreeIsIdle /\ OneAtATime /\ AnswersFit /\ RestIsRight

LEMMA CallForms ==
  /\ NoCall \in CallRecords /\ NoCall.op = "none" /\ NoCall.stage = "idle" /\ ~NoCall.alone
  /\ \A op \in Operations, row \in Backups \cup {"none"}, alone \in BOOLEAN :
       /\ Calling(op, row, alone) \in CallRecords
       /\ Calling(op, row, alone).op = op /\ Calling(op, row, alone).row = row
       /\ Calling(op, row, alone).alone = alone /\ Calling(op, row, alone).stage = "sent"
  BY DEF NoCall, Calling, CallRecords

LEMMA ListInitInv == ListInit => ListInv
<1> SUFFICES ASSUME ListInit PROVE ListInv
  OBVIOUS
<1>1. PICK c \in Calls :
        calls = [d \in Calls |-> IF d = c THEN Calling("load", "none", TRUE) ELSE NoCall]
  BY DEF ListInit
<1> DEFINE call == Calling("load", "none", TRUE)
<1>2. call \in CallRecords /\ call.op = "load" /\ call.stage = "sent"
  <2>1. "load" \in Operations /\ "none" \in Backups \cup {"none"} /\ TRUE \in BOOLEAN
    BY DEF Operations
  <2>2. QED
    BY <2>1, CallForms
<1> HIDE DEF call
<1>3. /\ calls \in [Calls -> CallRecords] /\ calls[c] = call
      /\ \A d \in Calls \ {c} : calls[d] = NoCall
  BY <1>1, <1>2, CallForms DEF call
<1>4. BackupListTypeOK
  BY <1>2, <1>3 DEF ListInit, BackupListTypeOK, OnRow
<1>5. \A d \in Calls \ {c} : Free(d) /\ ~calls[d].alone /\ calls[d].stage = "idle"
  BY <1>3, CallForms DEF Free
<1>6. ~Free(c) /\ calls[c].stage = "sent" /\ Alone(c) /\ calm = FALSE
  BY <1>2, <1>3, <1>5 DEF Free, Alone, ListInit
<1>7. FreeIsIdle /\ OneAtATime /\ AnswersFit /\ RestIsRight
  BY <1>5, <1>6 DEF FreeIsIdle, OneAtATime, AnswersFit, RestIsRight, Free
<1>8. QED
  BY <1>4, <1>7 DEF ListInv

\* A request that begins disturbs the others.
LEMMA BeginCall ==
  ASSUME ListInv, NEW c \in Calls, NEW record \in CallRecords,
         record.op # "none", record.stage = "sent", record.alone = Alone(c),
         calls' = Begin(c, record), calm' = (calm /\ Alone(c)), UNCHANGED <<stored, listed>>,
         calm /\ Alone(c) /\ record.op # "load" => listed = stored
  PROVE  /\ calls' \in [Calls -> CallRecords] /\ calls'[c] = record
         /\ \A d \in Calls \ {c} : calls'[d].op = calls[d].op
         /\ calm' \in BOOLEAN
         /\ FreeIsIdle' /\ OneAtATime' /\ AnswersFit' /\ RestIsRight'
<1>1. calls \in [Calls -> CallRecords]
  BY DEF ListInv, BackupListTypeOK
<1>2. calls'[c] = record
  BY DEF Begin
<1>3. ASSUME NEW d \in Calls \ {c}
      PROVE  /\ calls'[d] \in CallRecords /\ calls'[d].op = calls[d].op
             /\ calls'[d].stage = calls[d].stage /\ calls'[d].alone = FALSE
  BY <1>1 DEF Begin, CallRecords
<1>4. calls' \in [Calls -> CallRecords]
  BY <1>2, <1>3 DEF Begin
<1>5. calm' \in BOOLEAN
  BY DEF Alone
<1>6. Alone(c)' <=> Alone(c)
  BY <1>3 DEF Alone, Free
<1>7. FreeIsIdle'
  BY <1>2, <1>3 DEF ListInv, FreeIsIdle, Free
<1>8. OneAtATime'
  BY <1>2, <1>3, <1>6 DEF OneAtATime, Alone, Free
<1>9. AnswersFit'
  BY <1>2, <1>3 DEF AnswersFit, Alone, Free
<1>10. RestIsRight'
  BY <1>2 DEF RestIsRight, Free
<1>11. QED
  BY <1>2, <1>3, <1>4, <1>5, <1>7, <1>8, <1>9, <1>10

LEMMA LoadStep ==
  ASSUME ListInv, NEW c \in Calls, LoadBackups(c), UNCHANGED <<stored, listed, target>>
  PROVE  ListInv'
<1> DEFINE call == Calling("load", "none", Alone(c))
           record == [call EXCEPT !.after = calls[c].op]
<1>1. Alone(c) \in BOOLEAN
  BY DEF Alone
<1>2. call \in CallRecords /\ call.op = "load" /\ call.stage = "sent" /\ call.alone = Alone(c)
  BY <1>1, CallForms DEF Operations
<1>3. calls[c].op \in Operations \cup {"none"}
  BY DEF ListInv, BackupListTypeOK, CallRecords
<1> HIDE DEF call
<1>4. /\ record \in CallRecords /\ record.op = "load" /\ record.stage = "sent"
      /\ record.alone = Alone(c)
  BY <1>2, <1>3 DEF CallRecords
<1>5. /\ calls' = Begin(c, record) /\ calm' = (calm /\ Alone(c))
      /\ spinning' = TRUE /\ broken' = FALSE
  BY DEF LoadBackups, call
<1> HIDE DEF record
<1>6. /\ calls' \in [Calls -> CallRecords] /\ calls'[c] = record /\ calm' \in BOOLEAN
      /\ FreeIsIdle' /\ OneAtATime' /\ AnswersFit' /\ RestIsRight'
  BY <1>4, <1>5, BeginCall
<1>7. QED
  BY <1>4, <1>5, <1>6 DEF ListInv, BackupListTypeOK

LEMMA PressStep ==
  ASSUME ListInv, NEW c \in Calls,
         \/ \E op \in Making : PressMake(c, op)
         \/ \E op \in OnRow, b \in Backups : PressRow(c, op, b)
  PROVE  ListInv'
<1>1. PICK op \in Making \cup OnRow, row \in Backups \cup {"none"} :
        /\ Free(c) /\ calls' = Begin(c, Calling(op, row, Alone(c)))
        /\ calm' = (calm /\ Alone(c))
        /\ target' = target \/ (op \in OnRow /\ target' = [target EXCEPT ![op] = row])
        /\ UNCHANGED <<stored, listed, spinning, broken>>
  BY DEF PressMake, PressRow
<1> DEFINE call == Calling(op, row, Alone(c))
<1>2. Alone(c) \in BOOLEAN
  BY DEF Alone
<1>3. /\ call \in CallRecords /\ call.op = op /\ call.stage = "sent" /\ call.alone = Alone(c)
      /\ op \notin {"none", "load"}
  BY <1>2, CallForms DEF Operations, Making, OnRow
<1> HIDE DEF call
<1>4. calm /\ Alone(c) => listed = stored
  BY <1>1 DEF ListInv, RestIsRight, Alone
<1>5. /\ calls' \in [Calls -> CallRecords] /\ calm' \in BOOLEAN
      /\ \A d \in Calls \ {c} : calls'[d].op = calls[d].op
      /\ FreeIsIdle' /\ OneAtATime' /\ AnswersFit' /\ RestIsRight'
  BY <1>1, <1>3, <1>4, BeginCall DEF call
<1>6. spinning' => \E d \in Calls : calls'[d].op = "load"
  BY <1>1, <1>5 DEF ListInv, BackupListTypeOK, Free
<1>7. target' \in [OnRow -> Backups \cup {"none"}]
  BY <1>1 DEF ListInv, BackupListTypeOK
<1>8. QED
  BY <1>1, <1>5, <1>6, <1>7 DEF ListInv, BackupListTypeOK

\* A request that the server has answered.
LEMMA ServeStep ==
  ASSUME ListInv, NEW c \in Calls, Serve(c)
  PROVE  ListInv'
<1> DEFINE call == calls[c]
           served == [call EXCEPT !.stage = "done", !.seen = IF call.op = "load" THEN stored ELSE {}]
<1>1. /\ calls \in [Calls -> CallRecords] /\ call \in CallRecords
      /\ stored \subseteq Backups /\ call.op # "none" /\ call.stage = "sent"
  BY DEF ListInv, BackupListTypeOK, FreeIsIdle, Free, Serve
<1>2. calls' = [calls EXCEPT ![c] = served]
  BY <1>1 DEF Serve
<1>3. /\ served \in CallRecords /\ served.stage = "done" /\ served.op = call.op
      /\ served.row = call.row /\ served.alone = call.alone
      /\ call.op = "load" => served.seen = stored
  BY <1>1 DEF CallRecords
<1> HIDE DEF served
<1>4. /\ calls' \in [Calls -> CallRecords] /\ calls'[c] = served
      /\ \A d \in Calls \ {c} : calls'[d] = calls[d]
  BY <1>1, <1>2, <1>3
<1>5. UNCHANGED <<listed, spinning, broken, target, calm>>
  BY DEF Serve
<1>6. \A d \in Calls : (Free(d)' <=> Free(d)) /\ (Alone(d)' <=> Alone(d)) /\ calls'[d].alone = calls[d].alone
  BY <1>3, <1>4 DEF Free, Alone
<1>7. FreeIsIdle' /\ OneAtATime' /\ RestIsRight'
  BY <1>1, <1>4, <1>5, <1>6 DEF ListInv, FreeIsIdle, OneAtATime, RestIsRight, Free
<1>8. \A d \in Calls \ {c} : ~calls[d].alone /\ (calm => Free(d))
  BY <1>1 DEF ListInv, OneAtATime, Alone, Free
<1>9. CASE call.op = "load"
  <2>1. UNCHANGED stored
    BY <1>9 DEF Serve
  <2>2. AnswersFit'
    BY <1>3, <1>4, <1>5, <1>8, <1>9, <2>1 DEF AnswersFit, Free
  <2>3. BackupListTypeOK'
    BY <1>3, <1>4, <1>5, <2>1 DEF ListInv, BackupListTypeOK
  <2>4. QED
    BY <1>7, <2>2, <2>3 DEF ListInv
<1>10. CASE call.op # "load"
  <2>1. /\ stored' \subseteq Backups
        /\ call.op = "delete" => stored' = stored \ {call.row}
    BY <1>1, <1>10 DEF Serve, CallRecords, Operations, Making, OnRow
  <2>2. calm => listed = stored
    BY <1>1, <1>10 DEF ListInv, AnswersFit
  <2>3. AnswersFit'
    BY <1>3, <1>4, <1>5, <1>8, <1>10, <2>1, <2>2 DEF AnswersFit, Free
  <2>4. BackupListTypeOK'
    BY <1>3, <1>4, <1>5, <2>1 DEF ListInv, BackupListTypeOK
  <2>5. QED
    BY <1>7, <2>3, <2>4 DEF ListInv
<1>11. QED
  BY <1>9, <1>10

\* A request that is over.
LEMMA AnswerStep ==
  ASSUME ListInv, NEW c \in Calls, DeleteAnswer(c) \/ LoadAnswer(c)
  PROVE  ListInv'
<1>1. /\ calls \in [Calls -> CallRecords] /\ calls[c] \in CallRecords
      /\ calls[c].stage = "done" /\ ~Free(c) /\ UNCHANGED stored
      /\ calls' = [calls EXCEPT ![c] = NoCall]
  BY DEF ListInv, BackupListTypeOK, DeleteAnswer, LoadAnswer, Ended, Free
<1>2. /\ calls' \in [Calls -> CallRecords] /\ calls'[c] = NoCall
      /\ \A d \in Calls \ {c} : calls'[d] = calls[d]
  BY <1>1, CallForms
<1>3. \A d \in Calls \ {c} : ~calls[d].alone /\ (calm => Free(d))
  BY <1>1 DEF ListInv, OneAtATime, Alone
<1>4. \A op : Released(op) \in [OnRow -> Backups \cup {"none"}]
  BY DEF Released, ListInv, BackupListTypeOK
<1>5. FreeIsIdle'
  BY <1>2, CallForms DEF ListInv, FreeIsIdle, Free
<1>6. calm' => /\ \A d \in Calls \ {c} : Free(d)
               /\ listed' = stored
  BY <1>1, <1>3 DEF DeleteAnswer, LoadAnswer, ListInv, OneAtATime, AnswersFit, Alone, Free
<1>7. OneAtATime' /\ AnswersFit' /\ RestIsRight'
  BY <1>1, <1>2, <1>3, <1>6, CallForms DEF OneAtATime, AnswersFit, RestIsRight, Free, Alone
<1>8. BackupListTypeOK'
  <2>1. CASE DeleteAnswer(c)
    <3>1. /\ listed' \subseteq Backups /\ target' \in [OnRow -> Backups \cup {"none"}]
          /\ UNCHANGED <<spinning, broken, calm>> /\ calls[c].op # "load"
      BY <1>4, <2>1 DEF DeleteAnswer, ListInv, BackupListTypeOK
    <3>2. QED
      BY <1>1, <1>2, <3>1 DEF ListInv, BackupListTypeOK
  <2>2. CASE LoadAnswer(c)
    <3>1. /\ listed' \subseteq Backups /\ target' \in [OnRow -> Backups \cup {"none"}]
          /\ spinning' = FALSE /\ UNCHANGED broken /\ calm' \in BOOLEAN
      BY <1>1, <1>4, <2>2 DEF LoadAnswer, CallRecords
    <3>2. QED
      BY <1>1, <1>2, <3>1 DEF ListInv, BackupListTypeOK
  <2>3. QED
    BY <2>1, <2>2
<1>9. QED
  BY <1>5, <1>7, <1>8 DEF ListInv

\* A failure, and what others do, end the calm.
LEMMA DisturbedStep ==
  ASSUME ListInv, OthersBackups \/ \E c \in Calls : CallFails(c)
  PROVE  ListInv'
<1>1. \A d \in Calls : /\ Disturbed[d] \in CallRecords /\ ~Disturbed[d].alone
                       /\ Disturbed[d].op = calls[d].op /\ Disturbed[d].stage = calls[d].stage
  BY DEF Disturbed, ListInv, BackupListTypeOK, CallRecords
<1>2. CASE OthersBackups
  <2>1. /\ stored' \subseteq Backups /\ calls' = Disturbed /\ calm' = FALSE
        /\ UNCHANGED <<listed, spinning, broken, target>>
    BY <1>2 DEF OthersBackups, ListInv, BackupListTypeOK
  <2>2. calls' \in [Calls -> CallRecords]
    BY <1>1, <2>1 DEF Disturbed
  <2>3. BackupListTypeOK'
    BY <1>1, <2>1, <2>2 DEF ListInv, BackupListTypeOK
  <2>4. FreeIsIdle' /\ OneAtATime' /\ AnswersFit' /\ RestIsRight'
    BY <1>1, <2>1 DEF ListInv, FreeIsIdle, OneAtATime, AnswersFit, RestIsRight, Free
  <2>5. QED
    BY <2>3, <2>4 DEF ListInv
<1>3. ASSUME NEW c \in Calls, CallFails(c) PROVE ListInv'
  <2>1. /\ calls' = [d \in Calls |-> IF d = c THEN NoCall ELSE Disturbed[d]] /\ calm' = FALSE
        /\ UNCHANGED <<stored, listed>>
        /\ IF calls[c].op = "load" THEN broken' = TRUE /\ spinning' = FALSE
           ELSE UNCHANGED <<broken, spinning>>
    BY <1>3 DEF CallFails
  <2>2. /\ calls' \in [Calls -> CallRecords] /\ calls'[c] = NoCall
        /\ \A d \in Calls \ {c} : calls'[d] = Disturbed[d]
    BY <1>1, <2>1, CallForms
  <2>3. target' \in [OnRow -> Backups \cup {"none"}]
    BY <1>3 DEF CallFails, Released, ListInv, BackupListTypeOK
  <2>4. BackupListTypeOK'
    BY <1>1, <2>1, <2>2, <2>3 DEF ListInv, BackupListTypeOK
  <2>5. FreeIsIdle' /\ OneAtATime' /\ AnswersFit' /\ RestIsRight'
    BY <1>1, <2>1, <2>2, CallForms DEF ListInv, FreeIsIdle, OneAtATime, AnswersFit, RestIsRight, Free
  <2>6. QED
    BY <2>4, <2>5 DEF ListInv
<1>4. QED
  BY <1>2, <1>3

LEMMA ListStep == ListInv /\ [ListNext]_listVars => ListInv'
<1>1. CASE UNCHANGED listVars
  BY <1>1 DEF listVars, ListInv, BackupListTypeOK, FreeIsIdle, OneAtATime, AnswersFit, RestIsRight, Free, Alone
<1>2. ASSUME ListInv, NEW c \in Calls, PressRefresh(c) \/ MakeAnswer(c) \/ RestoreAnswer(c) PROVE ListInv'
  BY <1>2, LoadStep DEF PressRefresh, MakeAnswer, RestoreAnswer
<1>3. QED
  BY <1>1, <1>2, PressStep, ServeStep, AnswerStep, DisturbedStep DEF ListNext

\* The records keep their form, and the spinner, behind which the list disappears, never
\* outlives the loads (loadBackups).
THEOREM BackupListTypeCorrect == ListSpec => []BackupListTypeOK
<1>1. ListInv => BackupListTypeOK
  BY DEF ListInv
<1>2. QED
  BY <1>1, ListInitInv, ListStep, PTL DEF ListSpec

\* The list that the backup page keeps by hand is right when its requests are over, unless
\* they overlapped or one failed, or others changed the backups (BackupPage.tsx).
THEOREM ListIsRightHolds == ListSpec => []ListIsRight
<1>1. ListInv => ListIsRight
  BY DEF ListInv, RestIsRight, ListIsRight
<1>2. QED
  BY <1>1, ListInitInv, ListStep, PTL DEF ListSpec

(***************************************************************************)
(* The forms                                                               *)
(***************************************************************************)
\* The fields of an open form come from its row, but for the exceptions: a query that has
\* not answered, or has failed; and another row of a form that keeps its state.
FieldsFit ==
  /\ open # "closed" =>
       \/ source = open
       \/ source \in {"loading", "failed"}
       \/ form.seed = "kept" /\ open \in Rows /\ source \in Rows
  /\ form.seed = "remembered" => source = "new"
  /\ timers > 0 => form.ends = "timer"

SavesFit ==
  \A s \in Saves : saves[s].target = "none" => saves[s] = NoSave

\* Nothing is typed before the fields are there, and nothing but the save of the text
\* itself is under way when it was typed in peace.
TypedInPeace ==
  /\ source = "loading" => text = "clean"
  /\ ~hurried /\ text # "clean" =>
       /\ timers = 0
       /\ \A s \in Saves : UnderWay(s) =>
            text = "sent" /\ saves[s].mine /\ \A z \in Saves : UnderWay(z) => z = s

EditorInv == EditorTypeOK /\ RightRow /\ FieldsFit /\ SavesFit /\ TypedInPeace

\* What the proofs use of the table of forms.
LEMMA FormFacts ==
  ASSUME NEW f \in Forms
  PROVE  /\ f.seed = "remembered" => f.ends = "closes" /\ f.edits = {"new"} /\ f.place # "fixed"
         /\ f.ends \in {"closes", "clears", "stays", "timer"}
<1> USE DEF Dialog, Mounted, Inline, Fixed, OnlyNew, OnlyRows
<1>1. \A g \in {SmtpForm, JiraForm, AnnouncementForm, EmailTemplateEditor, EmailWorkflowForm,
                ResponsibilityGroupForm, ResponsibilityMemberForm} :
        g.seed = "row" /\ g.ends = "closes"
  BY DEF SmtpForm, JiraForm, AnnouncementForm, EmailTemplateEditor, EmailWorkflowForm,
         ResponsibilityGroupForm, ResponsibilityMemberForm
<1>2. \A g \in {TaskForm, TeamTaskForm, ItemForm, InventoryGroupForm, InventoryScheduleForm,
                ReleaseForm, PhaseForm, MilestoneForm} :
        g.seed = "row" /\ g.ends = "closes"
  BY DEF TaskForm, TeamTaskForm, ItemForm, InventoryGroupForm, InventoryScheduleForm, ReleaseForm,
         PhaseForm, MilestoneForm
<1>3. \A g \in {UserForm, WorkLogForm, PatchForm, BoardForm} : g.seed = "row" /\ g.ends = "closes"
  BY DEF UserForm, WorkLogForm, PatchForm, BoardForm, Apart
<1>4. \A g \in {WorkTypeForm, ColumnForm, LabelForm, ReportScheduleForm, WorkLogOfTaskForm} :
        g.seed = "row" /\ g.ends = "closes"
  BY DEF WorkTypeForm, ColumnForm, LabelForm, ReportScheduleForm, WorkLogOfTaskForm
<1>5. \A g \in {WebhookForm, CommentForm, BrandingForm, TeamForm, PermissionMatrix,
                BulkPermissions, PasswordForm} :
        /\ g.seed \in {"row", "live", "kept", "loaded"}
        /\ g.ends \in {"closes", "clears", "stays", "timer"}
  BY DEF WebhookForm, CommentForm, BrandingForm, TeamForm, PermissionMatrix, BulkPermissions,
         PasswordForm
<1>6. LeaveForm.ends = "closes" /\ LeaveForm.edits = {"new"} /\ LeaveForm.place = "beside"
  BY DEF LeaveForm
<1>7. QED
  BY <1>1, <1>2, <1>3, <1>4, <1>5, <1>6 DEF Forms

SaveRecords ==
  [target : Rows \cup {"new", "none"}, source : Sources \cup {"none"}, mine : BOOLEAN]

LEMMA EditorInitInv == EditorInit => EditorInv
<1> SUFFICES ASSUME EditorInit PROVE EditorInv
  OBVIOUS
<1>1. open \in Rows \cup {"new", "closed"} /\ form \in Forms
  BY DEF EditorInit, Targets
<1>2. source \in Sources /\ source # "loading"
  BY <1>1, EditorsAssumption DEF EditorInit, Sources
<1>3. NoSave \in SaveRecords
  BY DEF NoSave, SaveRecords
<1>4. EditorTypeOK
  <2>1. saves \in [Saves -> SaveRecords]
    BY <1>3 DEF EditorInit
  <2>2. timers \in 0..MaxTimers
    BY EditorsAssumption DEF EditorInit
  <2>3. QED
    BY <1>1, <1>2, <2>1, <2>2 DEF EditorInit, EditorTypeOK, SaveRecords
<1>5. RightRow /\ SavesFit /\ TypedInPeace
  BY <1>2 DEF EditorInit, RightRow, SavesFit, TypedInPeace, UnderWay
<1>6. FieldsFit
  <2>1. CASE form.seed = "remembered"
    BY <1>1, <2>1, FormFacts DEF EditorInit, FieldsFit
  <2>2. CASE form.seed # "remembered"
    BY <2>2 DEF EditorInit, FieldsFit
  <2>3. QED
    BY <2>1, <2>2
<1>7. QED
  BY <1>4, <1>5, <1>6 DEF EditorInv

\* The saves that stay stay about the same row, whosever they are.
LEMMA SavesThatStay ==
  ASSUME EditorInv, UNCHANGED form,
         \A s \in Saves : \/ saves'[s] = NoSave
                          \/ /\ UnderWay(s) /\ saves'[s].target = saves[s].target
                             /\ saves'[s].source = saves[s].source
  PROVE  RightRow' /\ SavesFit'
<1>1. SavesFit'
  BY DEF EditorInv, SavesFit, UnderWay
<1>2. RightRow'
  BY DEF EditorInv, RightRow, UnderWay, Kind
<1>3. QED
  BY <1>1, <1>2

LEMMA DisownFacts ==
  ASSUME EditorInv
  PROVE  /\ Disown \in [Saves -> SaveRecords]
         /\ \A s \in Saves : \/ Disown[s] = NoSave
                             \/ /\ UnderWay(s) /\ Disown[s].target = saves[s].target
                                /\ Disown[s].source = saves[s].source
<1> SUFFICES ASSUME NEW s \in Saves
             PROVE  /\ Disown[s] \in SaveRecords
                    /\ \/ Disown[s] = NoSave
                       \/ /\ UnderWay(s) /\ Disown[s].target = saves[s].target
                          /\ Disown[s].source = saves[s].source
  BY DEF Disown
<1>1. saves[s] \in SaveRecords
  BY DEF EditorInv, EditorTypeOK, SaveRecords
<1>2. Disown[s] = [saves[s] EXCEPT !.mine = FALSE]
  BY DEF Disown
<1>3. CASE saves[s] = NoSave
  <2>1. [saves[s] EXCEPT !.mine = FALSE] = saves[s]
    <3>1. NoSave.mine = FALSE
      BY DEF NoSave
    <3>2. QED
      BY <1>1, <1>3, <3>1 DEF SaveRecords
  <2>2. Disown[s] = NoSave /\ NoSave \in SaveRecords
    BY <1>1, <1>2, <1>3, <2>1
  <2>3. QED
    BY <2>2
<1>4. CASE saves[s] # NoSave
  BY <1>1, <1>2, <1>4 DEF SaveRecords, UnderWay
<1>5. QED
  BY <1>3, <1>4

LEMMA BusyOrNot ==
  ~Busy /\ timers \in 0..MaxTimers => timers = 0 /\ \A s \in Saves : ~UnderWay(s)
  BY EditorsAssumption DEF Busy

LEMMA OpenStep ==
  ASSUME EditorInv, Open
  PROVE  EditorInv'
<1>1. PICK row \in Targets : OpenFor(row) \/ OpenAgain(row)
  BY DEF Open
<1>2. /\ row \in Rows \cup {"new"} /\ row # "closed" /\ Kind(row) \in form.edits
      /\ row # "loading" /\ row \in Sources
  BY EditorsAssumption DEF Targets, Sources
<1>3. UNCHANGED <<form, timers, verdict>> /\ hurried' = Busy /\ hurried' \in BOOLEAN
  BY DEF Open, Busy
<1>4. CASE OpenFor(row)
  <2>1. /\ open' = row /\ text' = "clean" /\ saves' = Disown /\ source' = Filled(row)
        /\ form.seed # "remembered"
    BY <1>4 DEF OpenFor, Empty, Keeps
  <2>2. EditorTypeOK'
    BY <1>2, <1>3, <2>1, DisownFacts DEF EditorInv, EditorTypeOK, SaveRecords, Filled, Sources
  <2>3. FieldsFit' /\ TypedInPeace'
    BY <1>3, <2>1 DEF EditorInv, FieldsFit, TypedInPeace, Filled
  <2>4. RightRow' /\ SavesFit'
    BY <1>3, <2>1, DisownFacts, SavesThatStay
  <2>5. QED
    BY <2>2, <2>3, <2>4 DEF EditorInv
<1>5. CASE OpenAgain(row)
  <2>1. /\ open' = row /\ UNCHANGED <<source, text, saves>>
        /\ \/ form.seed = "kept" /\ open \in Rows /\ row \in Rows
           \/ form.seed = "remembered"
    BY <1>5 DEF OpenAgain, Keeps
  <2>2. EditorTypeOK'
    BY <1>2, <1>3, <2>1 DEF EditorInv, EditorTypeOK
  <2>3. open' # "closed" =>
          \/ source' = open'
          \/ source' \in {"loading", "failed"}
          \/ form'.seed = "kept" /\ open' \in Rows /\ source' \in Rows
    <3>1. CASE form.seed = "remembered"
      <4>1. form.edits = {"new"} /\ source = "new"
        BY <3>1, FormFacts DEF EditorInv, EditorTypeOK, FieldsFit
      <4>2. row = "new"
        BY <1>2, <4>1 DEF Kind
      <4>3. QED
        BY <2>1, <4>1, <4>2
    <3>2. CASE form.seed = "kept" /\ open \in Rows /\ row \in Rows
      BY <1>3, <2>1, <3>2, EditorsAssumption DEF EditorInv, FieldsFit
    <3>3. QED
      BY <2>1, <3>1, <3>2
  <2>4. FieldsFit'
    BY <1>3, <2>1, <2>3 DEF EditorInv, FieldsFit
  <2>5. TypedInPeace'
    BY <1>3, <2>1, BusyOrNot DEF EditorInv, EditorTypeOK, TypedInPeace, UnderWay
  <2>6. RightRow' /\ SavesFit'
    BY <1>3, <2>1, SavesThatStay DEF UnderWay
  <2>7. QED
    BY <2>2, <2>4, <2>5, <2>6 DEF EditorInv
<1>6. QED
  BY <1>1, <1>4, <1>5

\* Steps that leave the requests alone.
LEMMA FormStep ==
  ASSUME EditorInv, Load \/ LoadFails \/ Type \/ Cancel \/ Reseed
  PROVE  EditorInv'
<1>1. UNCHANGED <<form, timers, verdict>>
  BY DEF Load, LoadFails, Type, Cancel, Reseed
<1>2. RightRow' /\ SavesFit'
  <2>1. saves' = saves \/ saves' = Disown
    BY DEF Load, LoadFails, Type, Cancel, Reseed, Empty
  <2>2. QED
    BY <1>1, <2>1, SavesThatStay, DisownFacts DEF UnderWay
<1>3. CASE Load
  <2>1. EditorTypeOK'
    BY <1>3 DEF Load, EditorInv, EditorTypeOK, Sources
  <2>2. FieldsFit' /\ TypedInPeace'
    BY <1>3, EditorsAssumption DEF Load, EditorInv, EditorTypeOK, FieldsFit, TypedInPeace, UnderWay
  <2>3. QED
    BY <1>2, <2>1, <2>2 DEF EditorInv
<1>4. CASE LoadFails
  <2>1. EditorTypeOK'
    BY <1>4 DEF LoadFails, EditorInv, EditorTypeOK, Sources
  <2>2. FieldsFit' /\ TypedInPeace'
    BY <1>4 DEF LoadFails, EditorInv, FieldsFit, TypedInPeace, UnderWay
  <2>3. QED
    BY <1>2, <2>1, <2>2 DEF EditorInv
<1>5. CASE Type
  <2>1. EditorTypeOK'
    BY <1>5 DEF Type, EditorInv, EditorTypeOK, Busy
  <2>2. FieldsFit' /\ TypedInPeace'
    BY <1>5, BusyOrNot
    DEF Type, Usable, EditorInv, EditorTypeOK, FieldsFit, TypedInPeace, UnderWay
  <2>3. QED
    BY <1>2, <2>1, <2>2 DEF EditorInv
<1>6. CASE Cancel
  <2>1. CASE form.seed = "remembered"
    <3>1. open' = "closed" /\ UNCHANGED <<source, text, saves, hurried>>
      BY <1>6, <2>1 DEF Cancel
    <3>2. EditorTypeOK' /\ FieldsFit' /\ TypedInPeace'
      BY <1>1, <3>1 DEF EditorInv, EditorTypeOK, FieldsFit, TypedInPeace, UnderWay
    <3>3. QED
      BY <1>2, <3>2 DEF EditorInv
  <2>2. CASE form.seed # "remembered"
    <3>1. open' = "closed" /\ source' = "closed" /\ text' = "clean" /\ saves' = Disown /\ UNCHANGED hurried
      BY <1>6, <2>2 DEF Cancel, Empty
    <3>2. EditorTypeOK'
      BY <1>1, <3>1, DisownFacts DEF EditorInv, EditorTypeOK, SaveRecords, Sources
    <3>3. FieldsFit' /\ TypedInPeace'
      BY <1>1, <2>2, <3>1 DEF EditorInv, FieldsFit, TypedInPeace
    <3>4. QED
      BY <1>2, <3>2, <3>3 DEF EditorInv
  <2>3. QED
    BY <2>1, <2>2
<1>7. CASE Reseed
  <2>1. EditorTypeOK' /\ FieldsFit' /\ TypedInPeace'
    BY <1>7 DEF Reseed, EditorInv, EditorTypeOK, FieldsFit, TypedInPeace
  <2>2. QED
    BY <1>2, <2>1 DEF EditorInv
<1>8. QED
  BY <1>3, <1>4, <1>5, <1>6, <1>7

LEMMA SaveStep ==
  ASSUME EditorInv, NEW s \in Saves, Save(s)
  PROVE  EditorInv'
<1> DEFINE save == [target |-> open, source |-> source, mine |-> TRUE]
<1>1. /\ open # "closed" /\ source # "loading" /\ saves[s] = NoSave
      /\ saves' = [saves EXCEPT ![s] = save] /\ text' = "sent" /\ hurried' = Busy
      /\ UNCHANGED <<form, open, source, timers, verdict>>
  BY DEF Save, Usable, UnderWay
<1>2. /\ saves \in [Saves -> SaveRecords] /\ open \in Rows \cup {"new"} /\ source \in Sources
      /\ open # "none"
  BY <1>1, EditorsAssumption DEF EditorInv, EditorTypeOK, SaveRecords
<1>3. save \in SaveRecords /\ save.target = open /\ save.source = source /\ save.mine = TRUE
  BY <1>2 DEF SaveRecords
<1> HIDE DEF save
<1>4. /\ saves' \in [Saves -> SaveRecords] /\ saves'[s] = save
      /\ \A z \in Saves \ {s} : saves'[z] = saves[z]
  BY <1>1, <1>2, <1>3
<1>5. EditorTypeOK'
  BY <1>1, <1>4 DEF EditorInv, EditorTypeOK, SaveRecords, Busy
<1>6. \/ source = open
      \/ form.seed = "kept" /\ Kind(source) = Kind(open)
      \/ source = "failed"
  BY <1>1 DEF EditorInv, FieldsFit, Kind
<1>7. RightRow'
  <2>1. ASSUME NEW z \in Saves \ {s}, UnderWay(z)'
        PROVE  \/ saves'[z].source = saves'[z].target
               \/ form'.seed = "kept" /\ Kind(saves'[z].source) = Kind(saves'[z].target)
               \/ saves'[z].source = "failed"
    BY <1>1, <1>4, <2>1 DEF EditorInv, RightRow, UnderWay
  <2>2. QED
    BY <1>1, <1>3, <1>4, <1>6, <2>1 DEF RightRow, Kind
<1>8. SavesFit'
  BY <1>2, <1>3, <1>4 DEF EditorInv, SavesFit
<1>9. FieldsFit'
  BY <1>1 DEF EditorInv, FieldsFit
<1>10. TypedInPeace'
  <2>1. timers \in 0..MaxTimers
    BY DEF EditorInv, EditorTypeOK
  <2>2. ~Busy => timers = 0 /\ \A z \in Saves : ~UnderWay(z)
    BY <2>1, BusyOrNot
  <2>3. QED
    BY <1>1, <1>3, <1>4, <2>2 DEF TypedInPeace, UnderWay
<1>11. QED
  BY <1>5, <1>7, <1>8, <1>9, <1>10 DEF EditorInv

\* The request is over, and the others belong to the form as before, or to none any more.
LEMMA SavesAfter ==
  ASSUME EditorInv, NEW s \in Saves, UNCHANGED form,
         saves' = End(s) \/ saves' = [Disown EXCEPT ![s] = NoSave]
  PROVE  /\ saves' \in [Saves -> SaveRecords] /\ saves'[s] = NoSave
         /\ saves' = End(s) => \A z \in Saves \ {s} : saves'[z] = saves[z]
         /\ RightRow' /\ SavesFit'
<1>1. saves \in [Saves -> SaveRecords] /\ NoSave \in SaveRecords
  BY DEF EditorInv, EditorTypeOK, SaveRecords, NoSave
<1>2. CASE saves' = End(s)
  <2>1. /\ saves' \in [Saves -> SaveRecords] /\ saves'[s] = NoSave
        /\ \A z \in Saves \ {s} : saves'[z] = saves[z]
    BY <1>1, <1>2 DEF End
  <2>2. QED
    BY <2>1, SavesThatStay DEF UnderWay
<1>3. CASE saves' = [Disown EXCEPT ![s] = NoSave] /\ saves' # End(s)
  <2>1. /\ saves' \in [Saves -> SaveRecords] /\ saves'[s] = NoSave
        /\ \A z \in Saves \ {s} : saves'[z] = Disown[z]
    BY <1>1, <1>3, DisownFacts
  <2>2. QED
    BY <1>3, <2>1, DisownFacts, SavesThatStay
<1>4. QED
  BY <1>2, <1>3

LEMMA EndStep ==
  ASSUME EditorInv, NEW s \in Saves, Answer(s) \/ Refuse(s)
  PROVE  EditorInv'
<1>1. UnderWay(s) /\ UNCHANGED <<form, hurried>> /\ verdict' \in {"saved", "refused"}
  BY DEF Answer, Refuse
<1>2. /\ timers \in 0..MaxTimers /\ form \in Forms /\ source \in Sources
      /\ open \in Rows \cup {"new", "closed"} /\ text \in {"clean", "typed", "sent"}
  BY DEF EditorInv, EditorTypeOK
<1>3. CASE Close(s) \/ Clear(s)
  <2>1. /\ saves' = [Disown EXCEPT ![s] = NoSave] /\ text' = "clean" /\ UNCHANGED timers
        /\ open' \in {open, "closed"} /\ source' \in {source, "closed"}
        /\ open' = open => source' = source \/ open = "closed"
        /\ form.seed = "remembered" => source' = source
    BY <1>3 DEF Close, Clear, Hits
  <2>2. EditorTypeOK'
    BY <1>1, <1>2, <2>1, SavesAfter DEF EditorInv, EditorTypeOK, SaveRecords, Sources
  <2>3. FieldsFit' /\ TypedInPeace'
    BY <1>1, <2>1 DEF EditorInv, FieldsFit, TypedInPeace
  <2>4. QED
    BY <1>1, <2>1, <2>2, <2>3, SavesAfter DEF EditorInv
<1>4. CASE Pass(s) \/ Remain(s) \/ Refuse(s)
  <2>1. /\ saves' = End(s) /\ UNCHANGED <<open, source>>
        /\ text' \in {"clean", text} \/ (text' = "typed" /\ text = "sent" /\ saves[s].mine)
    BY <1>4 DEF Pass, Remain, Refuse
  <2>2. \/ UNCHANGED timers
        \/ /\ form.ends = "timer" /\ timers' = timers + 1 /\ timers' <= MaxTimers
           /\ text' = IF saves[s].mine /\ text = "sent" THEN "clean" ELSE text
    BY <1>4 DEF Pass, Remain, Refuse
  <2>3. /\ saves' \in [Saves -> SaveRecords] /\ saves'[s] = NoSave
        /\ \A z \in Saves \ {s} : saves'[z] = saves[z]
        /\ RightRow' /\ SavesFit'
    BY <1>1, <2>1, SavesAfter
  <2>4. timers' \in 0..MaxTimers
    BY <1>2, <2>2, EditorsAssumption
  <2>5. EditorTypeOK'
    BY <1>1, <1>2, <2>1, <2>3, <2>4 DEF EditorInv, EditorTypeOK, SaveRecords
  <2>6. FieldsFit'
    BY <1>1, <2>1, <2>2 DEF EditorInv, FieldsFit
  <2>7. TypedInPeace'
    <3>1. source' = "loading" => text' = "clean"
      BY <2>1 DEF EditorInv, TypedInPeace
    <3>2. ASSUME ~hurried', text' # "clean"
          PROVE  /\ timers' = 0
                 /\ \A z \in Saves : ~UnderWay(z)'
      <4>1. ~hurried /\ text # "clean"
        BY <1>1, <2>1, <3>2
      <4>2. /\ timers = 0 /\ text = "sent" /\ saves[s].mine
            /\ \A z \in Saves : UnderWay(z) => z = s
        BY <1>1, <4>1 DEF EditorInv, TypedInPeace
      <4>3. UNCHANGED timers
        BY <2>2, <3>2, <4>2
      <4>4. QED
        BY <2>3, <4>2, <4>3 DEF UnderWay
    <3>3. QED
      BY <3>1, <3>2 DEF TypedInPeace
  <2>8. QED
    BY <2>3, <2>5, <2>6, <2>7 DEF EditorInv
<1>5. QED
  BY <1>3, <1>4 DEF Answer

LEMMA TimerStep ==
  ASSUME EditorInv, TimerFires
  PROVE  EditorInv'
<1>1. /\ timers > 0 /\ timers' = timers - 1 /\ open' = "closed" /\ text' = "clean"
      /\ saves' = Disown /\ source' = "closed" /\ UNCHANGED <<form, hurried, verdict>>
  BY DEF TimerFires, Empty
<1>2. timers' \in 0..MaxTimers
  BY <1>1, EditorsAssumption DEF EditorInv, EditorTypeOK
<1>3. EditorTypeOK'
  BY <1>1, <1>2, DisownFacts DEF EditorInv, EditorTypeOK, SaveRecords, Sources
<1>4. form.seed # "remembered" /\ form.ends = "timer"
  BY <1>1, FormFacts DEF EditorInv, EditorTypeOK, FieldsFit
<1>5. FieldsFit' /\ TypedInPeace'
  BY <1>1, <1>4 DEF FieldsFit, TypedInPeace
<1>6. QED
  BY <1>1, <1>3, <1>5, DisownFacts, SavesThatStay DEF EditorInv

LEMMA EditorStep == EditorInv /\ [EditorNext]_editorVars => EditorInv'
<1>1. CASE UNCHANGED editorVars
  BY <1>1 DEF editorVars, EditorInv, EditorTypeOK, RightRow, FieldsFit, SavesFit, TypedInPeace, UnderWay, Kind
<1>2. QED
  BY <1>1, OpenStep, FormStep, SaveStep, EndStep, TimerStep DEF EditorNext

\* The state of a form, of its requests and its timers keeps its form.
THEOREM EditorTypeCorrect == EditorSpec => []EditorTypeOK
<1>1. EditorInv => EditorTypeOK
  BY DEF EditorInv
<1>2. QED
  BY <1>1, EditorInitInv, EditorStep, PTL DEF EditorSpec

\* Each of the forms of the client writes to the row that its text was filled from, but for
\* the two exceptions that the property names, however opening, typing, saving, cancelling
\* and late answers interleave.
THEOREM RightRowHolds == EditorSpec => []RightRow
<1>1. EditorInv => RightRow
  BY DEF EditorInv
<1>2. QED
  BY <1>1, EditorInitInv, EditorStep, PTL DEF EditorSpec

\* What was typed while nothing was under way goes with the answer of its own save and not
\* otherwise (the await mutateAsync(...) of each form and what follows it).
THEOREM InputKeptHolds == EditorSpec => InputKept
<1>1. EditorInv /\ [EditorNext]_editorVars =>
        [ text # "clean" /\ text' = "clean" /\ ~(Open \/ Cancel)
          => \/ /\ text = "sent" /\ verdict' = "saved"
                /\ \E s \in Saves : saves[s].mine /\ saves'[s] = NoSave
             \/ hurried
             \/ form.seed = "live"
             \/ source = "failed" ]_editorVars
  <2> SUFFICES ASSUME EditorInv, EditorNext, text # "clean", text' = "clean", ~Open, ~Cancel,
                      ~hurried, form.seed # "live", source # "failed"
               PROVE  /\ text = "sent" /\ verdict' = "saved"
                      /\ \E s \in Saves : saves[s].mine /\ saves'[s] = NoSave
    OBVIOUS
  <2>1. /\ timers = 0 /\ source # "loading"
        /\ \A s \in Saves : UnderWay(s) => text = "sent" /\ saves[s].mine
    BY DEF EditorInv, TypedInPeace
  <2>2. ~Load /\ ~LoadFails /\ ~Type /\ ~Reseed
    BY <2>1 DEF Load, LoadFails, Type, Reseed
  <2>3. ~TimerFires
    BY <2>1 DEF TimerFires
  <2>4. \A s \in Saves : ~Save(s)
    BY DEF Save
  <2>5. \A s \in Saves : ~Refuse(s)
    BY DEF Refuse
  <2>6. PICK s \in Saves : Answer(s)
    BY <2>2, <2>3, <2>4, <2>5 DEF EditorNext
  <2>7. UnderWay(s) /\ verdict' = "saved" /\ UNCHANGED form
    BY <2>6 DEF Answer
  <2>8. saves' = End(s) \/ saves' = [Disown EXCEPT ![s] = NoSave]
    BY <2>6 DEF Answer, Close, Pass, Clear, Remain
  <2>9. saves'[s] = NoSave
    BY <2>7, <2>8, SavesAfter
  <2>10. QED
    BY <2>1, <2>7, <2>9
<1>2. QED
  BY <1>1, EditorInitInv, EditorStep, PTL DEF EditorSpec, InputKept

(***************************************************************************)
(* The pages together                                                      *)
(***************************************************************************)
\* A behaviour of the pages is one of each page, so that every theorem of a part holds of
\* the specification that TLC checks.
THEOREM PagesAreParts ==
  PagesSpec => EditorSpec /\ TeamTasksSpec /\ ListSpec /\ ScheduleSpec
<1>1. PagesInit => EditorInit /\ TeamTasksInit /\ ListInit /\ ScheduleInit
  BY DEF PagesInit
<1>2. [PagesNext]_PagesVars => [EditorNext]_editorVars
  BY DEF PagesNext, PagesVars
<1>3. [PagesNext]_PagesVars => [TeamTasksNext]_taskVars
  BY DEF PagesNext, PagesVars
<1>4. [PagesNext]_PagesVars => [ListNext]_listVars
  BY DEF PagesNext, PagesVars
<1>5. [PagesNext]_PagesVars => [ScheduleNext]_scheduleVars
  BY DEF PagesNext, PagesVars
<1>6. QED
  BY <1>1, <1>2, <1>3, <1>4, <1>5, PTL
  DEF PagesSpec, EditorSpec, TeamTasksSpec, ListSpec, ScheduleSpec

\* The records of all pages keep their form, and the spinner of the list of backups never
\* outlives the loads (BackupPage.tsx), whichever page is open.
THEOREM PagesTypeCorrect == PagesSpec => []PagesTypeOK
<1>1. ScheduleSpec => []BackupScheduleTypeOK
  <2>1. ScheduleInv => BackupScheduleTypeOK
    BY DEF ScheduleInv
  <2>2. QED
    BY <2>1, ScheduleInitInv, ScheduleStep, PTL DEF ScheduleSpec
<1>2. QED
  BY <1>1, PagesAreParts, EditorTypeCorrect, TeamTasksTypeCorrect,
     BackupListTypeCorrect, PTL
  DEF PagesTypeOK
=============================================================================
