---------------------------- MODULE BackupSchedule ----------------------------
(***************************************************************************)
(* The schedule tab of pages/BackupPage.tsx and the two endpoints behind   *)
(* it.  The page keeps the six settings in one record, sends the whole of  *)
(* it with PUT /backup/schedule and shows what comes back.  The request    *)
(* model of that endpoint knows hours and minutes only; pydantic drops the *)
(* other settings before save_schedule sees them.                          *)
(***************************************************************************)
CONSTANTS
  Values,    \* what a setting may be
  Default    \* SCHEDULE_KEYS on the server and the initial state of the page agree on it

ASSUME BackupScheduleAssumption == Default \in Values

VARIABLES
  settings,      \* the rows of app_settings
  sheet,         \* the settings on the page
  loading,       \* loadSchedule: "sent", "read" with what it has found, or "ended"
  found,
  saving,        \* handleSaveSchedule: "no", "sent", "written" with its answer
  body, answer,
  told           \* nothing has happened to the sheet or the settings since the page read them

scheduleVars == <<settings, sheet, loading, found, saving, body, answer, told>>

\* "hour" stands for hour and minute, "enabled" for the switch, the frequency, the day
\* and the number of backups to keep.
Settings == {"hour", "enabled"}
Accepted == {"hour"}
Sheets == [Settings -> Values]
InitialSheet == [s \in Settings |-> Default]

ScheduleInit ==
  /\ settings \in Sheets
  /\ sheet = InitialSheet
  /\ loading = "sent" /\ saving = "no"
  /\ found = InitialSheet /\ body = InitialSheet /\ answer = InitialSheet
  /\ told = FALSE

-----------------------------------------------------------------------------
ReadSchedule ==
  /\ loading = "sent"
  /\ loading' = "read" /\ found' = settings /\ told' = TRUE
  /\ UNCHANGED <<settings, sheet, saving, body, answer>>

ShowSchedule ==
  /\ loading = "read"
  /\ loading' = "ended" /\ sheet' = found
  /\ UNCHANGED <<settings, found, saving, body, answer, told>>

\* The catch is silent: the page goes on with its defaults.
ScheduleFails ==
  /\ loading \in {"sent", "read"}
  /\ loading' = "ended" /\ told' = FALSE
  /\ UNCHANGED <<settings, sheet, found, saving, body, answer>>

\* The form is there when loadingSchedule has ended, and while a save is under way.
SetSetting ==
  /\ loading = "ended"
  /\ \E s \in Settings, v \in Values : sheet' = [sheet EXCEPT ![s] = v]
  /\ told' = FALSE
  /\ UNCHANGED <<settings, loading, found, saving, body, answer>>

SendSchedule ==
  /\ loading = "ended" /\ saving = "no"
  /\ saving' = "sent" /\ body' = sheet
  /\ UNCHANGED <<settings, sheet, loading, found, answer, told>>

\* save_schedule, which ends with get_schedule in the same transaction.
WriteSchedule ==
  /\ saving = "sent"
  /\ settings' = [s \in Settings |-> IF s \in Accepted THEN body[s] ELSE settings[s]]
  /\ answer' = settings'
  /\ saving' = "written" /\ told' = FALSE
  /\ UNCHANGED <<sheet, loading, found, body>>

\* Mutant of ScheduleSavedAnswer: the page keeps what it has sent.
KeepSheet ==
  /\ saving = "written"
  /\ saving' = "no" /\ told' = (settings = answer)
  /\ UNCHANGED <<settings, sheet, loading, found, body, answer>>

\* setSchedule(data): what was typed meanwhile is replaced.
ScheduleSavedAnswer ==
  /\ saving = "written"
  /\ saving' = "no" /\ sheet' = answer /\ told' = (settings = answer)
  /\ UNCHANGED <<settings, loading, found, body, answer>>

SavingFails ==
  /\ saving \in {"sent", "written"}
  /\ saving' = "no" /\ told' = FALSE
  /\ UNCHANGED <<settings, sheet, loading, found, body, answer>>

\* Another administrator, or a restored dump.
OthersSchedule ==
  /\ \E s \in Settings, v \in Values : settings' = [settings EXCEPT ![s] = v]
  /\ settings' # settings
  /\ told' = FALSE
  /\ UNCHANGED <<sheet, loading, found, saving, body, answer>>

ScheduleNext ==
  \/ ReadSchedule \/ ShowSchedule \/ ScheduleFails
  \/ SetSetting \/ SendSchedule \/ WriteSchedule \/ ScheduleSavedAnswer \/ SavingFails
  \/ OthersSchedule

ScheduleSpec == ScheduleInit /\ [][ScheduleNext]_scheduleVars

-----------------------------------------------------------------------------
BackupScheduleTypeOK ==
  /\ {settings, sheet, found, body, answer} \subseteq Sheets
  /\ loading \in {"sent", "read", "ended"} /\ saving \in {"no", "sent", "written"}
  /\ told \in BOOLEAN

\* As long as nobody has typed or saved elsewhere since the page heard from the server,
\* it shows the schedule that is in force - also right after a save of which the server
\* has taken a part only.
SheetIsInForce == told /\ loading = "ended" /\ saving = "no" => sheet = settings

\* What the tests of the endpoint say (tests/test_backup_schedule.py:424,
\* tests/test_scheduled_tasks.py:910): the answer to a save holds the settings sent.
ScheduleIsSaved == saving = "written" => answer = body
=============================================================================
