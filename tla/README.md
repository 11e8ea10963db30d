# A verification development for the work-tracking application

The repository holds a web application for teams: work logs, leave, kanban boards, team
tasks, scheduled e-mail, database backups, TLS certificates, an audit log, inventory and
several integrations. This directory holds TLA+ models of the parts whose correctness
depends on *order*: what overlapping requests, timers, worker processes, browser tabs and
failures do to the state they share, on the server and in the web client. TLC checks each
model on a small instance, and TLAPS proves the safety properties for all values of the constants.

    cd tla
    tlasany KanbanTasks.tla
    tlc -workers 2 -config MCKanbanTasks.cfg MCKanbanTasks
    tlapm KanbanTasksProofs.tla

`PROJECT.json` is the machine-readable index. It lists the components, the runs, the
mutated definitions that show that each property can fail, the source lines behind every
definition, the hazards and the theorems. Paths below are relative to `src/app/backend/app`
unless they begin with `frontend/`, `nginx/` or another top directory of `src/app`.

## 1. The system

### Processes and what they share

- **API**: FastAPI under uvicorn, usually several worker processes. `DBSessionMiddleware`
  (`core/middleware.py`) gives each request one `AsyncSession`, that is one PostgreSQL
  transaction at READ COMMITTED. It commits when the status is below 400 and rolls back
  otherwise. Handlers read rows, `await`, and write later; hardly any of them locks the
  rows it has read.
- **Loops of the API processes** (`main.py`): *every* uvicorn worker starts a backup loop
  (each 60 s) and an e-mail loop (each 900 s). Advisory locks keep the workers apart.
- **Celery worker and Beat** (`tasks/`): the backup check each minute, e-mail workflows
  each 15 minutes, inventory reports each hour, work-log reminders on weekdays. Its backup
  task shares the lock of the loops; its e-mail tasks do not.
- **Browser**: a React client. Tabs share the refresh cookie and `localStorage`, but each
  has its own access token, its own refresh in flight, and its own cache of the server's
  data (`@tanstack/react-query`). Pages mount queries; forms copy rows and save them with
  mutations; what a mutation invalidates decides what the pages show afterwards.
- **nginx** with a shell watcher that reloads it when a certificate file changes, and
  `ssl_init`, a container that runs at each `docker compose up` and makes the files if one is missing.
- **Shared state**: the PostgreSQL tables, the files of the backup, upload and certificate
  volumes (which are not transactional), and the SMTP server.

### Components

| Component | State | Operations | What is hard | What makes it correct |
|---|---|---|---|---|
| Kanban (`services/kanban_service.py`) | boards, columns, tasks with `column_id`, `sort_order`, `is_archived` | create, move, archive, restore, bulk update, delete | `move_task` and `create_task` compute positions from rows read earlier; `delete_column` checks, then deletes | no orphans, cards keep their order, ties only for known reasons, cards in use survive their column |
| Board page (`frontend/src/components/kanban/KanbanBoard.tsx`) | the fetched cards, the copy of them that a drag begins with | drop → `move_task` | the client sends a *rank* in a list that may be filtered or outdated, the server takes a *`sort_order`* | a dropped card lands where it was dropped |
| Backups (`services/backup_service.py`) | `backup_records`, the `.sql` files, schedule settings | scheduled check, manual, upload, delete, restore, prune, reschedule | many pollers, files outside the transaction, restore replaces the bookkeeping itself | one scheduled backup per run time, one is made in the end, pruning removes the oldest |
| Sessions (`services/auth_service.py`, `frontend/src/api/client.ts`) | `refresh_tokens`, the cookie, tabs | login, refresh with rotation, logout, password change | refreshes that overlap, lost and reordered answers | the deadline never moves, tokens are exchanged one for one, the browser keeps its session |
| Scheduled e-mail (`tasks/email_tasks.py`, `main.py`) | `email_logs`, what the SMTP server took | workflow job, reminder jobs | jobs in several processes, delivery outside the transaction, UTC and local days | no mail twice for a day, a failure suppresses nothing |
| Report and inventory schedules (`services/report_schedule_service.py`, `inventory_service.py`) | a row with its plan and `next_run_at` | claim, advance, deliver; create, edit, delete, send now | claim with `SKIP LOCKED`, edits and sending while a job is at work, a crash between delivery and commit | no run sent by two jobs, the next run is one of the stored plan |
| Users, teams, membership (`services/user_service.py`, `team_service.py`) | users, teams, junction table, primary team, manager | assign, promote, demote, delete, restore | one fact in three places, counts checked before the write | copies agree, nobody deleted manages a team, a superadmin remains |
| Team tasks (`services/team_task_service.py`, `frontend/src/pages/TeamTasksPage.tsx`) | task, assignees with `completed_at` | create, edit, delete, toggle | lists of people saved as differences to what was read; a toggle sent from an old page or a second tab | ticks are kept, a press does what the button shows |
| TLS certificates (`services/ssl_service.py`, `nginx/reload-watcher.sh`, `nginx/init-ssl.sh`) | rows, one active; two files; what nginx loaded | upload, activate, sync, delete, generate, reload | two files written one after the other by processes that do not wait for each other, a watcher on one of them | nginx serves the active certificate |
| Data layer of the client (`frontend/src/api/*.ts`, `main.tsx`) | one cache entry per query key | mount, refetch, poll, retry, mutate, invalidate | answers overtake each other; a mutation has to know every query that shows its effect | no page goes back in time, one's own writes appear |
| Forms and pages of the client (`frontend/src/pages`, `components`) | the copy of a row in component state, lists kept by hand | open, type, save, cancel, answer | code after `await` runs on whatever is open by then | a save writes its own row, typed text is kept, lists agree with the server |
| Activation, password reset | one-time tokens on the user row | request, use | – | a token works once |
| Permissions (`core/permissions.py`) | role defaults and overrides | resolve | precedence | the resolution agrees with its definition |
| Work logs, leave | one table each | create, edit, decide | – | decisions follow the life cycle |
| Audit log (`core/middleware.py`) | `audit_logs` | snapshot before and after, background write | snapshots in other transactions | entries match the change |
| Rest: Jira, Teams webhooks, notifications, inventory items, patches, releases, branding, export, deployment scripts | independent rows or none | create, read, update, delete | their screens, see the client | – |

The hazards these lead to, each at the line where it bites and with the properties about it, are
in `PROJECT.json`.

## 2. The modules

| Module | Models | Proofs | Instance for TLC |
|---|---|---|---|
| `KanbanTasks` | boards, columns and cards on the server | `KanbanTasksProofs` | `MCKanbanTasks` |
| `BackupScheduler` | backups, their files and their schedule | `BackupSchedulerProofs` | `MCBackupScheduler` |
| `Sessions` | refresh tokens and the tabs of a browser | `SessionsProofs` | `MCSessions` |
| `EmailDispatch` | the scheduled e-mail jobs | `EmailDispatchProofs` | `MCEmailDispatch` |
| `QueryCache` | one query of the client, its cache entry, the mutations and the pages around it | `QueryCacheProofs` | `MCQueryCache` |
| `FreshReads` | what the cache promises (abstract) | `QueryCacheProofs` | `MCQueryCache` |
| `PromisedSessions` | what a login promises (abstract) | `SessionsProofs` | `MCSessions` |
| `PromisedMails` | what `email_logs` promises (abstract) | `EmailDispatchProofs` | `MCEmailDispatch` |
| `PromisedRuns` | what an e-mail schedule promises (abstract) | `AdministrationProofs` | `MCAdministration` |
| `ClientApi`, `ClientPages` | tables: all queries and mutations; all pages and dialogs | – | `MCQueryCache` |
| `KanbanDrag` (extends `KanbanTasks`) | dragging cards on pages, beside all other requests | `KanbanTasksProofs` | `MCKanbanDrag` |
| `EditorForms`, `Editors` | table of the forms; one form at work | `PagesProofs` | `MCPages` |
| `TeamTasks` | a team task, its people, their tabs and their ticks | `PagesProofs` | `MCPages` |
| `BackupList` | the list of the backup page | `PagesProofs` | `MCPages` |
| `BackupSchedule` | the settings of the backup page | `PagesProofs` | `MCPages`, and itself with `MCBackupSchedule.cfg` |
| `DueSchedules` | report and inventory schedules | `AdministrationProofs` | `MCAdministration` |
| `Membership` | users, teams and who belongs to which | `MembershipProofs` | `MCAdministration` |
| `Certificates` | from the certificate in the database to what nginx serves | `AdministrationProofs` | `MCAdministration` |

`MCPages` and `MCAdministration` check modules that share no state: a behaviour chooses
one part at the start (`part`) and the others rest. Letting them run side by side would
multiply the states and show nothing more.

### How transactions are modelled

A handler whose writes depend on what it read is split where another transaction can
commit in between: a *read* step that remembers what it saw, and a *write* step that is
the rest of the handler and its commit. A handler that writes only what came with the
request is a single step. `Fail` (or `Crash`) stands for the rollback, and may happen at
any point between the steps. What the database does by itself belongs to the step that
causes it: cascades and foreign keys, and the rule that an UPDATE looks only at the rows
that matched when it started.

### KanbanTasks and KanbanDrag

`column`, `order` and `archived` are the three columns of `tasks` that matter;
`request[r]` is what request `r` has read. `CreateTaskRead`/`CreateTaskWrite` are
`create_task` (largest `sort_order`, archived cards included, plus one).
`MoveTaskRead`/`MoveTaskWrite` are `move_task`. `Renumbered` is the combined effect of its
UPDATE statements on one row, and `seen` gives the rows those statements matched: either
those of the moment of the reads, or all by the time of the write. `DeleteColumnRead` and
`DeleteColumnWrite` are the two halves of `delete_column`. `SetArchived` is `delete_task`
and the `is_archived` field of `update_task`; `BulkUpdate` is `bulk_update_tasks`.

`KanbanDrag` adds the page. A request of `Dropped` comes from a drag: `PickUp` copies the list
of the page, `Release` sends the rank of the card in that copy (`Place`), and nothing holds it
back: an earlier drop of the same or another page may still be under way (each drop is a request
of its own), others create, move and delete meanwhile, and the list may lack cards because it is
filtered (`taskParams`) or because they came later. A list that was read long before the drag, or
a second drag from the same list, needs no step of its own: it is a drag that was picked up when the
list was read. `itself` is the case of a card released over its own image after it was dragged to
another column: `findIndex` gives -1 and position 0 is sent.

### BackupScheduler

`rows` is `backup_records`, `files` the directory, `schedule` the settings, and `job[a]`
the transaction of an actor: a loop, a Celery worker or a request.
`StartScheduled` is `run_scheduled_backup_check` up to the start of `pg_dump`: lock,
enabled, time, weekday, deduplication query. `Flush` is the end of `pg_dump`: file written,
row flushed, old files unlinked. `Commit` makes the row visible and the old rows
disappear. `Fail` rolls back the rows and *not* the files; a Celery worker then stores a
`failed` row (`SaveFailed`) or cannot (`GiveUp`). A dump contains both `backup_records`
and `app_settings`, so `RestoreBackup` brings back older rows *and* an older schedule,
which is why `files[x]` is the content and not a flag.

### Sessions

`tokens` is `refresh_tokens`, `cookie` the one refresh cookie, and `flight[r]` a refresh
from `SendRefresh` over `Check` and `Rotate` to `Answer`. `Check` and `Rotate` are the two
halves of `refresh_access_token`: the row is read and validated, and later the old token
is revoked and the new one inserted, without a lock in between. `Abandon` is a reload or
a broken connection: the server goes on, and the answer is lost. The variable
`disturbed` is history and restricts no action.

`PromisedSessions` has neither tokens nor cookies, only sessions: they begin with a login, which
sets the deadline, and are continued by refreshes granted while they were alive, before the
deadline and to an active user. `Sessions` implements it with `alive <- ` the sessions with a live
token, `deadlines <- ` the expiry dates among their tokens, and `granted <- ` the sessions of the
refreshes between `Check` and `Rotate`. A refresh that was granted may be carried out after a
logout, which the code allows; nothing else revives a session.

### EmailDispatch

`logs` is `email_logs`, `inbox` what the SMTP server took (history), and `run[a]` the job
of a runner with its uncommitted writes `own`. `Check` is the deduplication query, in the
version of each kind of mail: *notices* use `already_sent_today` on the UTC day; *reports*
count rows of any status; *reminders* use the local date. `Record`, `Dispatch` and
`Commit` follow; the workflow job commits once at its end, while the reminder jobs commit
the pending row *before* sending. `created_at` is the start of the transaction (server
default `now()`), so that a long job dates its rows by its beginning.

`PromisedMails` is the journal without jobs, transactions and locks: an attempt at a mail is handed
over at most once; a reminder only while its pending entry stands; an entry is settled once, and
as sent only if the server has the mail. `EmailDispatch` implements it with `entry <- logs` and
`taken <- ` the mails in `inbox`.

### ClientApi and ClientPages

Two tables. `ClientApi` has every hook of `frontend/src/api`: for a query its key, the parts
of the database that its response shows, its `staleTime` and whether it polls; for a
mutation the parts that its request changes, the keys that its `onSuccess` invalidates,
and whether `onSuccess` *returns* the promise of the invalidation (`() => qc.invalidate...`)
or drops it (`() => { qc.invalidate... }`). `ClientPages` has every page, section and dialog
with the queries it mounts, the mutations it sends, and the components it is shown with.

### QueryCache and FreshReads

A behaviour watches one query `q`. `server` is the version of its data, `view` what the
cache holds, `fetch` the request of the entry, `pending` the mutations of this client.
`Move` is a change of page or dialog: mounting, unmounting, garbage collection.
`ChangeParameters` is another key; `Age` is `staleTime`; `ShowTab` is
`refetchOnWindowFocus`; `Poll` is `refetchInterval`. `Read`, `Arrive` and `Fail` are a request. `Retry`
is the one retry of `main.tsx`: it comes after a delay, and pauses until the tab is visible. A mutation goes from `Send` over `Commit` to `Answer`, which
is `onSuccess`: `Refetch` cancels the request under way of a query that has data
(`cancelRefetch`) and joins a first load; `Invalidate` marks an entry nobody uses. `Settle`
ends `await mutateAsync()`. The library itself is not in the repository: its rules are
modelled as the options in `main.tsx` and the hooks use them, and marked external.

`FreshReads` says what a user may rely on, in four actions and without a cache: a page may
show an old state, never goes back, and whatever it loads after a write of its user was
acknowledged contains that write. `QueryCache` implements it with `committed <- server`,
`floor <- own`, `shown <- view`.

### Editors

All 32 forms copy a row into component state and end with what follows `await
mutateAsync(...)`. They differ in six ways, which `EditorForms` records for each from its code:
where the form is, what it edits, how it is filled, whose `isPending` disables Save, what
follows the await, and which dialogs are apart. `Editors` is the state machine: `open` and
`source` tell for which row the form is open and from which its fields were filled, `text`
whether something typed is in it, `saves` the requests with the row they write to.

### TeamTasks

`marks` is `team_task_assignees` with `completed_at`. `ReadTask`/`WriteTask` are the halves of
`update_team_task` with `_set_assignees` (the difference to what was read); `ReadTick`/`WriteTick`
those of `toggle_complete`. A person (`Owner`) has any number of tabs, each with what it last
read (`shown`), an answer on its way to it (`loads`) and the press that its button waits for
(`waits`). `Tick`, `AnswerTick` and `Show` are that button, which stays disabled until the list has been
read again; `Refetch` is that reading, or one because the user has come back. `GiveUp` is a reload or a broken
connection: the tab forgets the request, and the server may carry it out later. `Conflicts` is
what the database refuses. `sure` is history: which tabs, answers and presses are about the tick as
it is in the table.

### BackupList and BackupSchedule

`BackupPage.tsx` does without the query cache. `BackupList` has its hand-kept list: overlapping
operations, each followed by a load, with the last answer on the screen. `BackupSchedule` has
the settings sheet: load, edit, `PUT`, and the request model that drops four of the six
settings. `SaveSchedule` of `BackupScheduler` is the service behind the endpoint and takes any.

### DueSchedules

`row` is one schedule. `Claim`, `Deliver`, `CommitRun` and `Die` are a job under its row lock.
`ReadRow`, `Replan` and `WriteRow` are an edit or "send now", which writes only the columns that
differ from what it read, like SQLAlchemy. A plan is the set of times at which it is to run;
`NextRun` is the next of them.

`PromisedRuns` knows of no jobs: a run is one step, at a time that is due, of a schedule that is on,
to the next time of the plan, and a crash may undo it until it is recorded. `DueSchedules`
implements it with `next <- ` the time that the job at work is going to write, or else the one in
the row, and `open <- ` the run that this job has sent.

### Membership

`users` (role, primary team, state), `members` (`user_teams`), `teams` and `managers`. Each
request is a `Begin...` step with its checks and everything it reads, and a `Write...` step; `Written`
writes a field only if it differs from the value read. `crossed` is history: users about whom
two requests overlapped.

### Certificates

`active` are the rows, `crt` and `key` the two files, `loaded` what nginx has. `Flush`, `Unlink`,
`WriteCrt`, `WriteKey` and `CommitInstall` are `activate_certificate`, and from `Unlink` on
`sync_active_certificate`. `Poll` and `Reload` are the shell watcher, which compares whole
seconds (`recent`, `seenNow`). `InitCheck`, `InitWriteKey` and `InitWriteCrt` are `init-ssl.sh`, which
can run at any time beside the rest (`docker compose up` starts it and the backend together), looks
once and then makes both files; the first installation is a behaviour that begins with it.
`RestoreDatabase` brings back other rows and leaves the files. `spoilt` is history: the exceptions that
`ActiveIsServed` names.

## 3. What is checked

Each property that is expected to hold comes with a mutant: a changed definition, of the
kind a slip in the code would give, under which the same run finds the property violated.

| Run | Properties | What it shows |
|---|---|---|
| `kanban` | `TypeOK`, `NoOrphans`, `OrderKept`, `TiesOnlyFromReuseOrStaleReads` | Overlapping requests never orphan a card, nor swap two cards that nobody moves. Two cards get equal positions only by the three named ways; the renumbering arithmetic itself never produces a tie. |
| `kanban_drag` | `DropLandsWhereReleased`, `DenseColumnsStayDense` | Sending a rank as a `sort_order` puts the card where it was released while the column is numbered without gaps and still what the page shows, whatever else is under way. Columns stay numbered without gaps but for the named ways. |
| `kanban_delete_column` | `ActiveTasksSurviveColumns` (violated) | See finding 1. |
| `backup` | `TypeOK`, `NotMadeTwice`, `PruningSparesNewest`, `DueIsMade` | The shared lock and the deduplication query are enough under manual backups, restores, rescheduling and failures; pruning takes the oldest rows. A due backup is made in the end, although attempts fail and runners die. (Two backups that prune at once do not fit into the bounds; the theorem covers them.) |
| `backup_keep` | `KeepsLastBackups` (violated) | See finding 2. |
| `sessions` | `TypeOK`, `LiveTokensAreHandedOver`, `BrowserHoldsSession`, `SessionsAreContinued` | Two tabs refreshing at once cannot prolong a session, and cannot lock the browser out of it unless an answer was lost. A session lives on only by refreshes that were granted in time. |
| `email` | `TypeOK`, `NoDuplicates`, `RemindersAtMostOnce`, `JournalIsKept` | With the loops alone the jobs are idempotent unless one runs past midnight or a report is due in the first local hours, and failed attempts are retried. The rows can be trusted at every moment, also after a crash. |
| `email_duplicates` | `NoDuplicates` (violated) | See finding 3: with one loop and one Celery worker they are not. |
| `query_cache` | `TypeOK`, `OwnWritesShown`, `ViewNeverGoesBack`, `SettledIsShown`, `ImplementsFreshReads`, `PolledViewsCatchUp`, `OwnWritesAppear` | For every class of query and mutation: an answer that was overtaken never replaces newer data; every write of the user is on the screen, on its way or failed; a dialog that waited closes over an up-to-date page; polling survives failures. |
| `pages` | `PagesTypeOK`, `RightRow`, `InputKept`, `NoOrphanAssignees`, `TicksAreKept`, `TickDoesWhatItShows`, `ListIsRight`, `SheetIsInForce` | A form writes to the row it was filled from, and loses typed text only to a late answer of an earlier save. Ticks survive overlapping edits, and a press of the button does what it shows but for the named cases. The backup page agrees with the server once it is quiet. |
| `administration` | `AdministrationTypeOK`, `NextRunFollowsPlan`, `PrimaryIsMembership`, `DeletedUsersManageNothing`, `ActiveIsServed`, `LastSuperadminGoes`, `RunsAreSteps` | Row locks keep jobs apart, so that a run looks like a single step; the three copies of membership agree unless two requests about one user cross; nginx serves the active certificate once all is quiet, through activations, synchronisations, deletions, restarts, later runs of `ssl_init` and restored databases; and the exceptions to each are the listed ones and no others. |
| `backup_schedule` | `ScheduleIsSaved` (violated) | See finding 4. |

Three properties that are theorems are not repeated in the runs, as the refinements contain them:
`DeadlineKept` (in `PromisedSessions` the deadline of a session is set once),
`NoticesBlockedOnlyByDelivery` (in `PromisedMails` an entry says "sent" only of a mail that was
taken) and `SentByOneJob` (in `PromisedRuns` what was sent is run again only if it may be).

Properties with exceptions ("unless two requests about him crossed") name each way in which the
code lets the rule down; TLC confirms that the list is complete within the bounds, and the
theorems of section 5 that it is complete for all of them. The exceptions are behaviour of the program that a maintainer may want to know of:

- `MCKnownGaps` (`MCQueryCache`) lists the mutations that leave a query on the same page out of
  date: comments and the task history, teams and the user list, a new announcement and the
  banner, and users and the people of team tasks.
- `RightRow`: the permission matrix can be saved after its load has failed, which replaces
  everything; the team form keeps the fields of the team it was open for.
- `LastSuperadminGoes`: an update of role or `is_active` is not checked against the last
  superadmin; a deletion, soft or hard, can take him if its sender has himself been deleted,
  demoted or deactivated since it began; and a request that still takes him for an
  ordinary user makes him a team leader. (That a *hard* deletion can do it needs more requests
  than the run has; the attempt to prove the property without that case failed on it.)
- `NoDuplicates`: a report that is due in the local hours before midnight UTC is sent at every tick,
  since the query takes the midnight of the local date as UTC (`tasks/email_tasks.py:733`).
- `ActiveIsServed`: a reload between the two files is not repeated, and a certificate written in
  the second already seen is not noticed. `ssl_init` does not look again before it writes: if a file
  was missing when it started (a fresh volume under an older database), it can replace the active
  certificate that the starting backend has just written by its own. A restored database
  can have another certificate active than the one in the files, until the next synchronisation.
- `DropLandsWhereReleased`: a drop on a column with gaps (archived cards leave them), or from a
  filtered or outdated list, may land elsewhere; so may one whose move overlaps another.
- `TickDoesWhatItShows`: the request only turns the tick round, so that a press on a second tab, or
  one that was given up and is carried out later, makes the next press do the opposite.

### Bounds, and why they suffice

- **Kanban**: one board, two columns, three cards, two requests, requested position 2,
  positions up to 3 (`MaxOrder`), bulk updates of all three cards. Three cards are the
  fewest with something between two others. Two requests give each stale read there is: a
  third adds another writer between read and write, and a single request can already
  commit there as often as it likes. Position 2 is met from above, from below and from the
  other column. The properties compare two cards, so that more cards add rows that are
  renumbered by the same rule. That no bound matters for the four properties is proved.
- **KanbanDrag** (`kanban_drag`): the cards and columns of the kanban run, one drag at a time, whose
  list may be as old and as incomplete as it likes, and one request at a time of anybody else, which
  may begin or commit at any moment of the drag and of its move. Positions 1 and 3 of the others
  put a card first or last; a drop sends any rank from 0 to 3. `NoneArchived` ends behaviours at
  the first archived card, which the kanban run has, as both properties are about columns without
  gaps. Two drags at a time differ from a drag and a move only in where the position comes from. Both
  properties are proved for any number of cards, drags and requests, archived cards included.
- **Backups**: one loop, one worker, one client, three identifiers, two days of two ticks,
  retention 2, a daily and a weekly schedule. Two runners are the least for a race; the
  clock lets a backup begin on one day and end on the next. Three identifiers allow to keep
  two and prune the third. `SpareIds` leaves an identifier to the scheduled backups, so
  that clients cannot exhaust the small supply. As liveness excludes symmetry
  reduction, `InOrder` gives the identifiers out in order instead.
- **Sessions**: two tabs, two refreshes, three tokens, lifetime 1 and clock up to 2. Three
  tokens are a login and two rotations, or two logins and a rotation; the clock passes the
  deadline. All its properties are proved without these bounds.
- **E-mail**: two loops (or a loop and a worker), a notice, a report and two reminders
  (the second one is sent in a new transaction of the same job), three rows, days
  of three ticks, local time one tick ahead, clock up to 4. A job can be repeated on a day,
  run past the midnight of either zone, and be taken up on the next day.
  The notice and the report are due at any hour, the local hours that are still yesterday in
  UTC included; reminders at the later ones, as their defaults are. All its properties are proved for
  any mails, hours, offset and clock (`RemindersAtMostOnce` for hours like these; `JournalIsKept`
  with Celery workers beside the loops too, of which this run has none).
- **Query cache**: a behaviour depends on a query and a mutation only by their
  attributes, so that every pair of the client's tables is represented by one of its class
  and every place by one that shows and offers the same; `EveryPairIsRepresented` and
  `EveryPlaceIsRepresented` are assumptions that TLC evaluates over the full tables. Two
  mutations in flight and two writes, of the user or of others, are the least for one to
  overtake the other; two failures exhaust the retry. That neither bound matters for the
  safety properties is proved.
- **Pages**: two rows, saves, calls and backups each, so that any two can overlap. Of a team task
  two tabs of one person with two presses, a second person to be assigned and removed, and two
  edits; `TwoOverlap` lets at most two of these presses and edits be under way at a time, which is
  enough for each to commit between the halves of another. All 32 forms are
  initial states. The properties are proved for any number of each, and without `TwoOverlap`.
- **Administration**: two jobs and requests, and two plans of two hours. Two users (the
  seeded superadmin and another) and two teams, two requests at a time and three in all, from
  the fresh installation and from a staffed one: an heir, a next team and every named exception
  are reached. The properties are proved for any number of each, and of requests in all.
- **Certificates**: two certificates and two installs, so that one certificate can follow another
  and any two installs can overlap; of installs, deletions and `ssl_init` at most three are under way at
  a time (`ThreeOverlap`). The clock of the watcher, the runs of `ssl_init` and the restored
  databases need no bound. The properties are proved for any number of certificates and installs.

`CHECK_DEADLOCK FALSE` stands where the model may really stop: the backup runs (no
identifier left, the clock at its end), `query_cache`, `pages`, `backup_schedule` and
`administration` (clocks and counters at `LastHour`, `MaxChanges` or `MaxVersion`, a deleted
schedule or task, users who do nothing). In the other runs TLC checks deadlock too.

### Fairness

`DueIsMade` needs fairness (`Fairness` of `BackupScheduler`). Weak fairness of `StartScheduled` is the
one-minute polling of loops and Beat: a runner that may start finally does. Weak fairness
of `GiveUp`: error handling of the Celery task ends. Strong fairness of `Flush` and
`Commit`: a step that keeps becoming possible and keeps failing succeeds in the end,
which is the assumption that a backup retried every minute is not always
interrupted. `Tick`, the clients and the failures have no fairness. When `SpareIds` bites,
`DueIsMade` grants the exception that no identifier is left, which only the bound causes.

`PolledViewsCatchUp` and `OwnWritesAppear` have weak fairness of `Read`, `Arrive` and `Poll`: the
server answers in the end, answers arrive, and the interval timer of a visible page
runs. `Retry` has strong fairness: react-query pauses a retry in a hidden tab and goes on as soon as
the tab is shown, however briefly. `OwnWritesAppear` is therefore claimed of a tab that is shown again
and again (`[]<>visible`); one that stays hidden need not refetch. That the network is there is
assumed: while the browser is offline react-query pauses requests too. Nobody has to write, move, look or fail. Failures are bounded (`MaxFailures`), so that
"however many requests failed" means up to that many, enough to exhaust the retry.

## 4. Findings

1. **A card in use is deleted with its column** (`services/kanban_service.py:287`).
   `delete_column` refuses to delete a column with active cards ("Önce taşıyın veya
   arşivleyin"), but counts them before the deletion; a card that another request creates,
   moves there or restores in between goes with the column by `ON DELETE CASCADE`.
2. **"Keep Last N Backups" counts failed attempts** (`services/backup_service.py:447`).
   The rows of failed attempts have no file but count for the retention, so that the files
   of good backups among the last N are removed.
3. **Loop and Celery Beat can send a mail twice** (`main.py:84`). The docstring
   (`main.py:75-77`) promises that running alongside Beat cannot send duplicates. The
   e-mail lock is taken by the loops only, and both sides can pass the deduplication
   query before either commits.
4. **Four settings of the backup schedule are not saved** (`routers/backup.py:13`). The page
   sends the whole sheet, but `BackupScheduleUpdate` has only the hour and the minute under the
   names that are sent; the switch, the frequency, the day and the number to keep are dropped, and
   the answer shows the old ones. `tests/test_backup_schedule.py:424` and
   `tests/test_scheduled_tasks.py:910` expect them saved.

## 5. What is proved

Every safety property that a passing run checks is a theorem, and so are the four refinements; what is
left to TLC is listed at the end. All theorems hold for every value of the constants that satisfies the
named assumptions of the modules (`KanbanConstants`, `DragAssumption`, `BackupConstants`,
`SessionConstants`, `EmailConstants`, `QueryCacheAssumption`, `EditorsAssumption`,
`TeamTasksAssumption`, `BackupListAssumption`, `BackupScheduleAssumption`, `DueSchedulesAssumption`,
`MembershipAssumption`, `CertificatesAssumption`; `AdministrationAssumption`, that the team everybody
is in exists, for the staffed organisation). These only say that identifiers are distinct
from `None` and from the words a field may hold instead, that bounds are numbers, that the
sets of identifiers that are counted (cards, backups) are finite, and what kind of set a
constant is. No theorem limits the number of requests, tabs, runners, users, cards or mails.

Each proof has the same plan: the properties of a module are conjoined with what makes
them inductive, one lemma shows that each action preserves the result, and a last step in
temporal logic concludes. What follows is what had to be added, and why.

- **KanbanTasks.** `TypeCorrect`. `NoOrphansHolds`: `TypeOK /\ NoOrphans` is inductive;
  each deletion takes the rows below it along, and each write that puts a card into a
  column checks the column in its own step, as the foreign key does. `OrderKeptHolds`: from
  `RenumberedMonotone` (renumbering does not reverse two cards of one column, whatever the
  outdated values are) and `PassedOverMonotone` (nor when only one of them is seen: a shift
  by one cannot jump over a neighbour). `TiesExplained`: from `RenumberedInjective` and
  `PlaceFree`, which need an up-to-date read; that is where `TieExplained` comes in.
  `DenseColumnsStayDenseHolds`: a step for each kind of action (`MoveStaysDense`,
  `NewCardStaysDense`, `RemovalStaysDense`); by `DenseByCount` it is enough that there are no ties and
  no number beyond the count, and `Stale` and `Outside` are the moves for which this fails.
- **KanbanDrag.** `DragTypeCorrect`. `DragsAreRequests`: a drag is a step of `KanbanTasks`, whose
  theorems therefore hold of it. `DropLandsWhereReleasedHolds`: `DragInv` adds that the request
  of a drag asks for what was dragged and that the cards above are among those listed. No lock and no
  order of requests is assumed: that the move did not overlap another is the hypothesis `~Stale`,
  and that the list is right is `StillShown`. `UpToDateMove` then gives the rows after the drop, `CountUpTo`
  turns ranks into numbers (in a set numbered 1, 2, ... without a gap as many as `k` have a number up
  to `k`), and `LowestAreUnique` says that the cards above are the lowest ones.
- **BackupScheduler.** `TypeCorrect`, `NotMadeTwiceHolds` and `PruningSparesNewestHolds`.
  `NotMadeTwice` alone is not inductive: another runner, or a client, could commit a
  completed scheduled row. `IInv` adds `OneRunner` (the advisory lock: one runner at a time is in its transaction) and
  `ClientsAreManual` (what a request commits is never of kind `scheduled`). Restoring needs
  the locks of all tables and so excludes open transactions. Pruning needs no invariant beyond
  the types: only the end of `pg_dump` unlinks files (`FilesAreLeft`), and
  `NewestFillsRetention` counts what it keeps. A transaction counts the rows it sees, the
  committed ones, which is why it does not matter how many others prune at the same time.
- **Sessions.** `TypeCorrect`, `DeadlineKeptHolds`, `LiveTokensAreHandedOverHolds`,
  `BrowserHoldsSessionHolds`, `SessionsAreContinuedHolds`. `IInv` adds `SessionsNamed` (the token that names a session was handed out, so that a
  fresh login starts a session of its own) and `CheckedTokensIssued` (a refresh that passed
  its check presents a token with a row, although it may have been revoked since). For
  `BrowserHoldsSession`, `CookieInv` says where the live token of an undisturbed browser is: the cookie is
  live, or a refresh has replaced it and its answer, which nobody else has seen
  (`PendingIsUnused`), brings a live one, or everything has been revoked. The refinement to
  `PromisedSessions` needs no more than `IInv`: `DeadlineKept` makes the deadlines of a session one
  (`SameDeadlines`), and of the refreshes granted to a session one can end while others go on
  (`OneRefreshLess`), which is why `Renew` may or may not use up the grant.
- **EmailDispatch.** `TypeCorrect`, `NoticesBlockedOnlyByDeliveryHolds`, `NoDuplicatesHolds`,
  `RemindersAtMostOnceHolds`, `JournalIsKeptHolds`. For the notices `IInv` adds
  `JobInv`: a job keeps to the mails of its kind, has a row for the mail it hands over, and
  every uncommitted row of a notice that would suppress a retry belongs to a mail that was
  taken or is the one at hand. It does not use the lock, so that the theorem also covers
  loops and Celery workers side by side, where `NoDuplicates` fails. That and
  `RemindersAtMostOnce` are proved
  under `LoopsOnly` (no Celery worker runs the jobs; finding 3 shows that this is needed), and
  `RemindersAtMostOnce` also under `RemindersByDay` (reminders are due at hours that are the same day
  in UTC, as the defaults are). `MailInv` says that there is one job at a time, and that two
  rows of mails that were taken are apart by a day (`Apart`), in the table that is committed
  *and* in the one that the job at work sees; `Onward` is what the job knows at each of its
  steps: after its query nothing blocks the mail at hand, and after its row only that row.
  The refinement to `PromisedMails` assumes neither lock nor hours. `JournalInv` says instead that no
  two jobs are at work on one row (`OneWriter`, from the identifiers being fresh), what an
  uncommitted row may be (`Writes`: new, or the outcome of a pending row that is unchanged in the
  table) and that it is true (`WritesTruth`).
- **QueryCache.** `TypeCorrect`; and, for every table of queries, mutations and places that
  satisfies `InvalidationComplete` (a mutation invalidates each query shown where it is sent,
  or the pair is a known gap, which TLC's tables do): `WritesAreShown`, `ViewIsMonotone`,
  `SettlingShows`, and `CacheRefines`, the refinement to `FreshReads`. `Consistent` strengthens
  them: `view` and the answer under way are not ahead of the server; a request that was started or
  restarted after an acknowledged write reads at least that write; and a mutation that waits
  (`fetch.awaiting`) waits for a request that brings its own.

- **Membership.** `MembershipTypeCorrect`, `PrimaryIsMembershipHolds`,
  `DeletedUsersManageNothingHolds`, `LastSuperadminGoesHolds`. `MembershipInv` adds `Snapshots`:
  what a request has read of its user, of the heir and of the teams is still so, up to a primary
  team that went with its team, unless the user is in `crossed`. This gives the history variable
  its meaning, and makes `crossed` the only exception.
- **DueSchedules.** `DueSchedulesTypeCorrect`, `NextRunFollowsPlanHolds`, `SentByOneJobHolds`,
  `RunsAreStepsHolds`. `DueInv`
  adds `OneHolder` (the row lock), `JobKnowsRow` (under it, what the job has read is so, and the
  time it is going to write is later than all that was sent), `NextIsUnsent` and `EditKnowsPlan`.
  `LeastTime` finds the next run of a plan without induction over data, by the
  well-foundedness of strict inclusion. The refinement to `PromisedRuns` adds `RowIsDue`: the row
  that a job holds stays as the job found it, so that delivering can stand for the whole run.
- **Certificates.** `CertificatesTypeCorrect`, `ActiveIsServedHolds`. `CertInv` adds that an install
  which began alone still has nobody beside it that matters (`AloneMeansAlone`), that the file
  holds the active certificate or the one of an activation that nothing can forestall
  (`FileIsActive`), and that a watcher that has seen the file has loaded it (`FileIsLoaded`).
  `ssl_init` breaks none of them unless a certificate is active or about to be (`InitStep`), and a
  restored database only if another one is active in it (`RestoreStep`).
- **TeamTasks.** `TeamTasksTypeCorrect`, `NoOrphanAssigneesHolds`, `TicksAreKeptHolds`,
  `TickDoesWhatItShowsHolds`. `TeamTasksInv` says what `sure` means: a press of it, whether sent or read,
  wants the opposite of the tick as it is in the table or, once read, of the one it has read (`PressIsSure`), and a tab of it that does not wait shows
  that tick, or is going to (`PageIsSure`).
- **BackupList.** `BackupListTypeCorrect`, `ListIsRightHolds`. `ListInv` adds that an undisturbed request
  is the only one (`OneAtATime`) and what its answer is going to make of the list (`AnswersFit`).
- **BackupSchedule.** `SheetIsInForceHolds`, with `ToldTheTruth` (what was read is in force as long as
  nobody has saved elsewhere) and `UntouchedWhileSaving`.
- **Editors.** `EditorTypeCorrect`, `RightRowHolds`, `InputKeptHolds`. `EditorInv` adds `FieldsFit`,
  `SavesFit` and `TypedInPeace`: text that was typed while nothing else went on has at most the
  save of that very text under way. `FormFacts` are the few facts about the 32 forms that
  the proof uses; a form added to the table has to keep them.
- **The composed specifications.** `PagesAreParts` and `AdministrationIsParts`: a behaviour of what TLC
  checks is one of each part (of `Membership`, see below), so that the theorems about the parts hold of it. From these
  `PagesTypeCorrect` and `AdministrationTypeCorrect`. The staffed organisation is not an initial state of
  `Membership`; `StaffedInitInv` shows that it satisfies `MembershipInv`, for any users and
  teams, and `MembershipHoldsWhenStaffed` that its rules hold from there too.

**Only model-checked.** `DueIsMade`, `PolledViewsCatchUp` and `OwnWritesAppear`: liveness under
fairness needs ENABLED, which is out of this prover's reach, as are induction over data and
RECURSIVE operators. For that reason no module here declares a recursive operator. That the
tables of `ClientApi` and `ClientPages` satisfy `InvalidationComplete` is for the run `query_cache` to
show: a mutation that lacks an invalidation breaks `OwnWritesShown` there.

## 6. What is not modelled

Left out of the modules above: in the kanban model the requester and its rights (a superadmin
passes every check, so that each operation is possible for some requester); texts, labels,
comments, subtasks, attachments and the order of columns; personal boards' creation; the
heartbeat and the check log of the backups, which are only displayed; access tokens, which
the server does not store; templates, recipients and Teams copies of mails. An attempt of
`pg_dump` either yields a complete file or none. A database error and a dying process are
the same rollback. The state of the network (a browser offline) is not modelled.

Restoring a database (`restore_backup`) replaces every table. It is an action where the restored
rows meet state that is not restored: in `BackupScheduler` (files) and in `Certificates` (files, nginx). The other
modules do not have it, and their properties are about behaviours without a restore: it brings back
older rows as a whole, so that for instance refresh tokens that were revoked since
the backup are valid again until their old deadline (`Sessions`), and a mail whose row is gone can be sent
again (`EmailDispatch`).

Simplifications that the properties do not tell apart from the code: `DueSchedules` has a plan as a
set of times, which leaves out that `compute_next_run` falls back to the first of the month after
one that is too short (`report_schedule_service.py:42-58`); `DeleteBoard` is one step, although
`delete_board` loads the columns first (the cascade takes what came since);
`RestoreBackup` gets the locks of all tables at once; in `EmailDispatch` a report with several recipients is one
mail, and a job that finds its mail sent keeps no start of a transaction; the answer of a logout is not lost. In the client: layout, filters, paging, charts, exports and texts; drafts
in `localStorage`; uploads are a save like any other.

Components, or their server halves, without a module:

- **Rows on their own** (work logs, leave requests, inventory items, patches, releases,
  responsibilities, notifications, announcements, Jira and webhook settings, branding): a
  request checks one row and writes it, and the last commit stays. Two requests have no
  rule between them that an order of steps could break. Their screens are in the client modules.
- **Permissions, activation and reset tokens**: case distinctions over rows read in one
  transaction, better covered by unit tests than by a state machine.
- **Audit log**: nothing reads its rows back, and they promise nothing that a state could break.
- **Rate limits, headers, export, deployment scripts**: no state of the application.

## 7. What the development rests on, and what remains

The modules were written in the order of the hazards: data that requests share (kanban,
backups, sessions, e-mail), then what the browser shows of it, then the administration. Every
safety property and the four refinements are proved, so that what they rest on is the reading of
the source in the modules, the exceptions they name, and the assumptions of section 5. The findings
of section 4 and the liveness properties rest on the bounds of their runs; the former
are counterexamples, for which a bound is no restriction.

What remains worth doing, when the code is changed: an abstract specification of the backups
(one scheduled backup a day as a single step, over failures, restarts and restores), and the
rule of `NoDuplicates` in `PromisedMails`, once the Celery tasks take the e-mail lock too and the rule
holds for all runners.
