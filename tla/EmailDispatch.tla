---------------------------- MODULE EmailDispatch ----------------------------
(***************************************************************************)
(* Scheduled e-mail: tasks/email_tasks.py, run every 15 minutes by the     *)
(* in-process loop of main.py in every uvicorn worker, and by Celery Beat. *)
(*                                                                         *)
(* A job goes through the mails that are due.  For each it looks for an    *)
(* email_logs row of the day, writes a pending row, hands the message to   *)
(* the SMTP server and marks the row sent or failed.  The workflow job is  *)
(* one transaction, committed after the last mail; the reminder jobs       *)
(* commit the pending row before they send, and the outcome after that.    *)
(*                                                                         *)
(* Time is counted in ticks of UTC, DayLength ticks to the day.  Local     *)
(* time (Europe/Istanbul, or the zone of a workflow) is Offset ahead.      *)
(***************************************************************************)
EXTENDS Integers

CONSTANTS
  Loops,       \* uvicorn workers, each running _email_scheduler_loop
  Workers,     \* Celery workers running evaluate_scheduled_workflows and the reminders
  Notices,     \* task_due_soon, task_overdue and worklog_reminder mails, by recipient
  Reports,     \* dashboard_report workflows
  Reminders,   \* mails of the work-log and team-task reminder jobs, by recipient
  Hours,       \* the local hours at which a mail is due
  Ids,         \* bound: identifiers of email_logs rows
  DayLength, Offset,
  MaxTime,     \* bound: the clock stops here
  None

Runners == Loops \cup Workers
Mails == Notices \cup Reports \cup Reminders

Row == [mail : Mails, status : {"pending", "sent", "failed"}, created : Nat]

ASSUME EmailConstants ==
  /\ Loops \cap Workers = {}
  /\ Notices \cap Reports = {} /\ (Notices \cup Reports) \cap Reminders = {}
  /\ DayLength \in Nat \ {0} /\ Offset \in 0 .. DayLength - 1 /\ MaxTime \in Nat
  /\ Hours \in [Mails -> SUBSET (0 .. DayLength - 1)]
  /\ None \notin Ids \cup Mails \cup Nat \cup Row
  /\ None \notin [mail : Mails, late : BOOLEAN]

VARIABLES
  now,     \* the clock
  logs,    \* the committed rows of email_logs, None for an id without a row
  inbox,   \* history: what the SMTP server took, by the id of its row
  run      \* the job a runner is at

vars == <<now, logs, inbox, run>>

Table == [Ids -> Row \cup {None}]

Idle == [step |-> "idle"]

\* today: the local date of the start; began: the start of the open transaction;
\* todo: mails left; mail and id: the one at hand; own: uncommitted writes to logs.
Job == [step : {"ready", "clear", "recorded", "answered"}, name : {"workflows", "reminders"},
        today : Nat, began : Nat \cup {None}, todo : SUBSET Mails,
        mail : Mails \cup {None}, id : Ids \cup {None}, own : Table]

\* late: handed over by a job that had run past midnight.
Taken == [mail : Mails, late : BOOLEAN]

TypeOK ==
  /\ now \in 0 .. MaxTime
  /\ logs \in Table
  /\ inbox \in [Ids -> Taken \cup {None}]
  /\ run \in [Runners -> Job \cup {Idle}]

NoRows == [x \in Ids |-> None]

Init ==
  /\ now = 0
  /\ logs = NoRows
  /\ inbox = [x \in Ids |-> None]
  /\ run = [a \in Runners |-> Idle]

Tick ==
  /\ now < MaxTime
  /\ now' = now + 1
  /\ UNCHANGED <<logs, inbox, run>>

(***************************************************************************)
(* Days                                                                    *)
(***************************************************************************)
UtcDay(t) == t \div DayLength
LocalDay(t) == (t + Offset) \div DayLength
LocalHour(t) == (t + Offset) % DayLength

\* today_start.  already_sent_today takes the day of the host's clock, which is UTC in
\* the containers; the other queries take the local date the job has started on, and
\* its midnight as if it were UTC.
DayStart(a, m) ==
  DayLength * IF m \in Notices THEN UtcDay(now) ELSE run[a].today

-----------------------------------------------------------------------------
(***************************************************************************)
(* A job                                                                   *)
(***************************************************************************)
\* Mutant of LockFree: the loop of every uvicorn worker runs the jobs.
LockFreeAlways(a) == TRUE

\* pg_try_advisory_xact_lock(_EMAIL_LOCK_KEY): taken by the loops, for as long as their
\* jobs run, and not by the Celery tasks.
LockFree(a) == a \in Loops => \A b \in Loops : run[b] = Idle

JobMails(name) == IF name = "workflows" THEN Notices \cup Reports ELSE Reminders

Start(a, name) ==
  /\ run[a] = Idle
  /\ LockFree(a)
  /\ run' = [run EXCEPT ![a] =
       [step |-> "ready", name |-> name, today |-> LocalDay(now), began |-> now,
        todo |-> {m \in JobMails(name) : LocalHour(now) \in Hours[m]},
        mail |-> None, id |-> None, own |-> NoRows]]
  /\ UNCHANGED <<now, logs, inbox>>

\* What the transaction of runner a sees.
Seen(a, x) == IF run[a].own[x] # None THEN run[a].own[x] ELSE logs[x]

\* Mutant of Counts: only what was certainly sent counts.
CountsSent(row) == row.status = "sent"

\* Failed rows do not count, so that a failure is retried; those of a report do.
Counts(row) == row.mail \in Reports \/ row.status \in {"sent", "pending"}

AlreadySent(a, m) ==
  \E x \in Ids :
    /\ Seen(a, x) # None
    /\ Seen(a, x).mail = m
    /\ Counts(Seen(a, x))
    /\ Seen(a, x).created >= DayStart(a, m)

\* Mutant of Check: the first transaction of a job is taken to last.
CheckWithoutBegin(a, m) ==
  /\ run[a].step = "ready" /\ m \in run[a].todo
  /\ run' = IF AlreadySent(a, m)
            THEN [run EXCEPT ![a].todo = @ \ {m}]
            ELSE [run EXCEPT ![a].step = "clear", ![a].mail = m]
  /\ UNCHANGED <<now, logs, inbox>>

\* The first statement after a commit begins the next transaction.
Check(a, m) ==
  /\ run[a].step = "ready" /\ m \in run[a].todo
  /\ run' = IF AlreadySent(a, m)
            THEN [run EXCEPT ![a].todo = @ \ {m}]
            ELSE [run EXCEPT ![a].step = "clear", ![a].mail = m,
                             ![a].began = IF @ = None THEN now ELSE @]
  /\ UNCHANGED <<now, logs, inbox>>

Fresh(x) ==
  /\ logs[x] = None /\ inbox[x] = None
  /\ \A a \in Runners : run[a] # Idle => run[a].own[x] = None

\* Mutant of Record: the pending row of a reminder is flushed and not committed.
RecordUncommitted(a, x) ==
  LET row == [mail |-> run[a].mail, status |-> "pending", created |-> run[a].began] IN
  /\ run[a].step = "clear"
  /\ Fresh(x)
  /\ run' = [run EXCEPT ![a] =
       [run[a] EXCEPT !.step = "recorded", !.id = x, !.own = [run[a].own EXCEPT ![x] = row]]]
  /\ UNCHANGED <<now, logs, inbox>>

\* create_log_entry; created_at is the start of the transaction.  The reminder jobs
\* "commit the pending log BEFORE sending".
Record(a, x) ==
  LET row == [mail |-> run[a].mail, status |-> "pending", created |-> run[a].began] IN
  /\ run[a].step = "clear"
  /\ Fresh(x)
  /\ IF run[a].name = "reminders"
     THEN /\ logs' = [logs EXCEPT ![x] = row]
          /\ run' = [run EXCEPT ![a].step = "recorded", ![a].id = x, ![a].began = None]
     ELSE /\ run' = [run EXCEPT ![a] =
               [run[a] EXCEPT !.step = "recorded", !.id = x,
                             !.own = [run[a].own EXCEPT ![x] = row]]]
          /\ UNCHANGED logs
  /\ UNCHANGED <<now, inbox>>

\* _mark_log_sent, _mark_log_failed.
Outcome(row, reported) ==
  [row EXCEPT !.status = IF reported THEN "sent" ELSE "failed"]

\* The job of runner a has run past midnight: the mail is handed over on another day
\* than its row is dated, or its row is dated another day than the job looks at.
Late(a, row) ==
  IF row.mail \in Notices THEN UtcDay(now) # UtcDay(row.created)
                          ELSE LocalDay(row.created) # run[a].today

\* _dispatch_email_inline.  When the connection breaks, a mail may be reported failed
\* though the server took it.
Dispatch(a, taken, reported) ==
  LET x == run[a].id IN
  /\ run[a].step = "recorded"
  /\ reported => taken
  /\ inbox' = IF ~taken THEN inbox ELSE [inbox EXCEPT ![x] =
       [mail |-> run[a].mail, late |-> Late(a, Seen(a, x))]]
  /\ run' = [run EXCEPT ![a] =
       [run[a] EXCEPT !.step = IF run[a].name = "reminders" THEN "answered" ELSE "ready",
                      !.todo = @ \ {run[a].mail}, !.mail = None, !.id = None,
                      !.own = [run[a].own EXCEPT ![x] = Outcome(Seen(a, x), reported)]]]
  /\ UNCHANGED <<now, logs>>

\* The outcome of one reminder, or the whole workflow job.
Commit(a) ==
  /\ \/ run[a].step = "answered"
     \/ run[a].step = "ready" /\ run[a].todo = {}
  /\ logs' = [x \in Ids |-> Seen(a, x)]
  /\ run' = [run EXCEPT ![a] =
       IF run[a].todo = {} THEN Idle
       ELSE [run[a] EXCEPT !.step = "ready", !.began = None, !.own = NoRows]]
  /\ UNCHANGED <<now, inbox>>

\* A workflow that raises an error is skipped, and the job goes on to the others.
Skip(a, m) ==
  /\ run[a].step = "ready" /\ run[a].name = "workflows" /\ m \in run[a].todo
  /\ run' = [run EXCEPT ![a].todo = @ \ {m}]
  /\ UNCHANGED <<now, logs, inbox>>

\* The process dies or a transaction fails: what was not committed is rolled back, what
\* was sent stays sent.
Crash(a) ==
  /\ run[a] # Idle
  /\ run' = [run EXCEPT ![a] = Idle]
  /\ UNCHANGED <<now, logs, inbox>>

Next ==
  \/ Tick
  \/ \E a \in Runners, name \in {"workflows", "reminders"} : Start(a, name)
  \/ \E a \in Runners, m \in Mails : Check(a, m) \/ Skip(a, m)
  \/ \E a \in Runners, x \in Ids : Record(a, x)
  \/ \E a \in Runners, taken, reported \in BOOLEAN : Dispatch(a, taken, reported)
  \/ \E a \in Runners : Commit(a) \/ Crash(a)

Spec == Init /\ [][Next]_vars

-----------------------------------------------------------------------------
(***************************************************************************)
(* Properties                                                              *)
(***************************************************************************)
\* Rows x and y are about the same mail of the same day.
SameMail(x, y) ==
  /\ logs[x] # None /\ logs[y] # None
  /\ logs[x].mail = logs[y].mail
  /\ IF logs[x].mail \in Notices
     THEN UtcDay(logs[x].created) = UtcDay(logs[y].created)
     ELSE LocalDay(logs[x].created) = LocalDay(logs[y].created)

PastMidnight(x) == inbox[x].late

\* The row is dated before the moment that the query takes for the beginning of its day.
Early(x) ==
  logs[x].mail \notin Notices /\ logs[x].created < DayLength * LocalDay(logs[x].created)

\* "All jobs are idempotent (EmailLog dedup / next_run_at claiming) so running alongside
\* Celery Beat cannot send duplicates" (main.py): no mail is on record as sent twice
\* for one day, except by a job that runs past midnight, and except a report that is due
\* in the local hours that are still yesterday in UTC.
NoDuplicates ==
  \A x, y \in Ids :
    /\ SameMail(x, y)
    /\ logs[x].status = "sent" /\ logs[y].status = "sent"
    => x = y \/ PastMidnight(x) \/ PastMidnight(y) \/ Early(x) \/ Early(y)

\* "The dedup record survives a crash and prevents a duplicate on the next tick": the
\* SMTP server gets a reminder at most once a day, whatever crashes, unless one was
\* reported failed or sent by a job that ran past midnight.
RemindersAtMostOnce ==
  \A x, y \in Ids :
    /\ SameMail(x, y) /\ inbox[x] # None /\ inbox[y] # None
    /\ logs[x].mail \in Reminders
    => \/ x = y
       \/ logs[x].status = "failed" \/ logs[y].status = "failed"
       \/ PastMidnight(x) \/ PastMidnight(y)

\* A notice is never suppressed by an attempt that did not get through: a row that
\* counts as sent for the day is one the SMTP server has taken, at every commit.
NoticesBlockedOnlyByDelivery ==
  \A x \in Ids :
    logs[x] # None /\ logs[x].mail \in Notices /\ Counts(logs[x]) => inbox[x] # None
\* Whichever processes run the jobs, and wherever they die: each attempt at a mail has one
\* row and reaches the server at most once, a reminder only while its pending row is
\* committed, and the row is settled once, and as sent only if the server has the mail.
Journal == INSTANCE PromisedMails WITH
  Attempts <- Ids, Announced <- Reminders, entry <- logs,
  taken <- [x \in Ids |-> IF inbox[x] = None THEN None ELSE inbox[x].mail]
JournalIsKept == Journal!Spec
=============================================================================
