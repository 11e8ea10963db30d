------------------------------ MODULE ClientApi ------------------------------
(***************************************************************************)
(* The data layer of the web client: the queries and mutations that        *)
(* app/frontend/src/api exports, as tables.                                *)
(*                                                                         *)
(* A query has the key it is cached under, the parts of the database that  *)
(* its response shows, how long its data counts as fresh, and whether it   *)
(* polls.  A mutation has the parts of the database its request changes,   *)
(* the keys its onSuccess invalidates, and whether onSuccess returns the   *)
(* promise of the invalidation (an arrow with an expression), which keeps  *)
(* the mutation pending until the queries it refetches have answered, or   *)
(* drops it (an arrow with a block).                                       *)
(*                                                                         *)
(* The parameters of a key are the string "p" for a filter object and "id" *)
(* for the row that a screen is about: a screen and its dialogs are about  *)
(* one row of each kind.                                                   *)
(***************************************************************************)
EXTENDS Sequences, TLC

Query(key, reads) == [key |-> key, reads |-> reads, fresh |-> "never", polls |-> FALSE]
Polling(q) == [q EXCEPT !.polls = TRUE]
FreshFor(q, time) == [q EXCEPT !.fresh = time]

\* onSuccess: () => qc.invalidateQueries(...)  and  onSuccess: () => { qc.invalidateQueries(...) }
Returns(writes, keys) == [writes |-> writes, keys |-> keys, returned |-> TRUE]
Drops(writes, keys) == [writes |-> writes, keys |-> keys, returned |-> FALSE]

\* Kanban (api/kanban.ts).
Kanban(rest) == <<"kanban">> \o rest

BoardData == {"boards", "columns", "tasks"}
TaskData == {"tasks", "columns", "users", "labels"}
ActivityData == {"history", "tasks", "users"}

BoardQueries ==
  [ useBoards  |-> Query(Kanban(<<"boards", "p">>), BoardData),
    useBoard   |-> Query(Kanban(<<"board", "id">>), BoardData),
    useColumns |-> Query(Kanban(<<"columns", "id">>), {"columns"}),
    useTasks   |-> Query(Kanban(<<"tasks", "p">>), TaskData) ]

BoardMutations ==
  [ useCreateBoard |-> Returns({"boards", "columns"}, {Kanban(<<"boards">>)}),
    useUpdateBoard |-> Drops({"boards"}, {Kanban(<<"boards">>), Kanban(<<>>)}),
    useDeleteBoard |-> Returns({"boards", "columns", "tasks"}, {Kanban(<<"boards">>)}) ]

ColumnMutations ==
  [ useCreateColumn   |-> Returns({"columns"}, {Kanban(<<>>)}),
    useUpdateColumn   |-> Returns({"columns"}, {Kanban(<<>>)}),
    useDeleteColumn   |-> Returns({"columns"}, {Kanban(<<>>)}),
    useReorderColumns |-> Returns({"columns"}, {Kanban(<<"columns">>)}) ]

TaskMutations ==
  [ useCreateTask |-> Returns({"tasks", "history"}, {Kanban(<<>>)}),
    useUpdateTask |-> Returns({"tasks", "history"}, {Kanban(<<>>)}),
    useMoveTask   |-> Returns({"tasks", "history"}, {Kanban(<<>>)}),
    useDeleteTask |-> Returns({"tasks", "history"}, {Kanban(<<>>)}) ]

CommentHooks ==
  [ queries |-> [ useTaskComments |-> Query(Kanban(<<"comments", "id">>), {"comments", "users"}),
                  useTaskHistory  |-> Query(Kanban(<<"history", "id">>), {"history", "users"}) ],
    mutations |->
      [ useCreateComment |-> Returns({"comments", "history"}, {Kanban(<<"comments", "id">>)}),
        useDeleteComment |-> Returns({"comments", "history"}, {Kanban(<<"comments", "id">>)}) ] ]

SubtaskHooks ==
  [ queries |-> [ useTaskSubtasks |-> Query(Kanban(<<"subtasks", "id">>), {"subtasks"}) ],
    mutations |->
      [ useCreateSubtask |-> Returns({"subtasks"}, {Kanban(<<"subtasks", "id">>)}),
        useUpdateSubtask |-> Returns({"subtasks"}, {Kanban(<<"subtasks", "id">>)}),
        useDeleteSubtask |-> Returns({"subtasks"}, {Kanban(<<"subtasks", "id">>)}),
        useBulkUpdateTasks |-> Returns({"tasks"}, {Kanban(<<>>)}) ] ]

AttachmentHooks ==
  [ queries |-> [ useTaskAttachments |-> Query(Kanban(<<"attachments", "id">>), {"attachments"}) ],
    mutations |->
      [ useUploadAttachment |-> Returns({"attachments"}, {Kanban(<<"attachments", "id">>)}),
        useDeleteAttachment |-> Returns({"attachments"}, {Kanban(<<"attachments", "id">>)}) ] ]

LabelHooks ==
  [ queries |-> [ useLabels |-> Query(Kanban(<<"labels">>), {"labels"}),
                  useActivityFeed |-> Query(Kanban(<<"activity", "p">>), ActivityData) ],
    mutations |->
      [ useCreateLabel |-> Returns({"labels"}, {Kanban(<<"labels">>)}),
        useUpdateLabel |-> Returns({"labels"}, {Kanban(<<"labels">>)}),
        useDeleteLabel |-> Drops({"labels", "tasks"}, {Kanban(<<"labels">>), Kanban(<<>>)}) ] ]

\* Users, permissions and teams (api/users.ts, api/teams.ts).
Users(rest) == <<"users">> \o rest
Teams(rest) == <<"teams">> \o rest

UserData == {"users", "teams"}

UserQueries ==
  [ useUsers       |-> Query(Users(<<"list", "p">>), UserData),
    usePermissions |-> Query(Users(<<"permissions", "id">>), {"permissions"}),
    useEffectivePermissions |-> Query(Users(<<"effectivePermissions", "id">>), {"permissions", "users"}),
    useMyEffectivePermissions |-> Query(Users(<<"myEffectivePermissions">>), {"permissions", "users"}) ]

UserMutations ==
  [ useCreateUser      |-> Returns({"users"}, {Users(<<>>)}),
    useUpdateUser      |-> Drops({"users"}, {Users(<<>>)}),
    useUpdateMyProfile |-> Drops({"users"}, {Users(<<>>)}),
    useDeleteUser      |-> Returns({"users"}, {Users(<<>>)}),
    useRestoreUser     |-> Returns({"users"}, {Users(<<>>)}),
    useHardDeleteUser  |-> Returns({"users"}, {Users(<<>>)}) ]

PermissionMutations ==
  [ useChangeOwnPassword |-> Returns({"passwords"}, {}),
    useSetUserPassword   |-> Returns({"passwords"}, {}),
    useSetPermissions |-> Drops({"permissions"}, {Users(<<"permissions", "id">>),
                                  Users(<<"effectivePermissions", "id">>), Users(<<>>)}),
    useBulkApplyPermissions |-> Drops({"permissions"}, {Users(<<>>)}) ]

TeamHooks ==
  [ queries |-> [ useTeams |-> Query(Teams(<<"list", "p">>), {"teams", "users"}),
                  useTeam  |-> Query(Teams(<<"detail", "id">>), {"teams", "users"}) ],
    mutations |->
      [ useCreateTeam       |-> Returns({"teams"}, {Teams(<<>>)}),
        useUpdateTeam       |-> Returns({"teams"}, {Teams(<<>>)}),
        useDeleteTeam       |-> Returns({"teams"}, {Teams(<<>>)}),
        useAddTeamMember    |-> Drops({"teams", "users"}, {Teams(<<>>), Users(<<>>)}),
        useRemoveTeamMember |-> Drops({"teams", "users"}, {Teams(<<>>), Users(<<>>)}) ] ]

\* Work logs (api/worklog.ts) and leave requests (api/leaves.ts).
WorkLogData == {"worklogs", "workTypes", "users"}

WorkTypeMutations ==
  LET refreshed == {<<"workTypes">>, <<"worklogs">>} IN
  [ useCreateWorkType |-> Drops({"workTypes"}, refreshed),
    useUpdateWorkType |-> Drops({"workTypes"}, refreshed),
    useDeleteWorkType |-> Drops({"workTypes"}, refreshed) ]

WorkLogHooks ==
  [ queries |-> [ useWorkTypes |-> Query(<<"workTypes", "p">>, {"workTypes"}),
                  useWorkLogs  |-> Query(<<"worklogs", "list", "p">>, WorkLogData) ],
    mutations |->
      [ useCreateWorkLog |-> Drops({"worklogs"}, {<<"worklogs">>}),
        useUpdateWorkLog |-> Returns({"worklogs"}, {<<"worklogs">>}),
        useDeleteWorkLog |-> Returns({"worklogs"}, {<<"worklogs">>}) ] ]

LeaveData == {"leaves", "users"}

LeaveHooks ==
  [ queries |-> [ useLeaves |-> Query(<<"leaves", "list", "p">>, LeaveData) ],
    mutations |->
      [ useCreateLeave |-> Returns({"leaves"}, {<<"leaves">>}),
        useUpdateLeave |-> Returns({"leaves"}, {<<"leaves">>}),
        useDeleteLeave |-> Returns({"leaves"}, {<<"leaves">>}) ] ]

\* Team tasks, notifications, announcements and Jira (api/teamTasks.ts,
\* notifications.ts, announcements.ts, jira.ts).
TeamTaskData == {"team_tasks", "users"}

TeamTaskHooks ==
  [ queries |-> [ useTeamTasks |-> Query(<<"team-tasks">>, TeamTaskData) ],
    mutations |->
      [ useCreateTeamTask   |-> Returns({"team_tasks"}, {<<"team-tasks">>}),
        useUpdateTeamTask   |-> Returns({"team_tasks"}, {<<"team-tasks">>}),
        useDeleteTeamTask   |-> Returns({"team_tasks"}, {<<"team-tasks">>}),
        useCompleteTeamTask |-> Returns({"team_tasks"}, {<<"team-tasks">>}) ] ]

NotificationHooks ==
  [ queries |-> [ useNotifications |-> Polling(Query(<<"notifications">>, {"notifications"})) ],
    mutations |->
      [ useMarkRead    |-> Returns({"notifications"}, {<<"notifications">>}),
        useMarkAllRead |-> Returns({"notifications"}, {<<"notifications">>}) ] ]

\* Mutant of AnnouncementHooks: a change refreshes the page of the administrator alone.
AnnouncementHooksOfThePage ==
  LET all == <<"announcements", "all">>
      active == <<"announcements", "active">> IN
  [ queries |->
      [ useActiveAnnouncements |-> FreshFor(Polling(Query(active, {"announcements"})), "minute"),
        useAllAnnouncements    |-> Query(all, {"announcements"}) ],
    mutations |->
      [ useCreateAnnouncement |-> Returns({"announcements"}, {all}),
        useUpdateAnnouncement |-> Drops({"announcements"}, {all}),
        useDeleteAnnouncement |-> Drops({"announcements"}, {all}) ] ]

AnnouncementHooks ==
  LET all == <<"announcements", "all">>
      active == <<"announcements", "active">> IN
  [ queries |->
      [ useActiveAnnouncements |-> FreshFor(Polling(Query(active, {"announcements"})), "minute"),
        useAllAnnouncements    |-> Query(all, {"announcements"}) ],
    mutations |->
      [ useCreateAnnouncement |-> Returns({"announcements"}, {all}),
        useUpdateAnnouncement |-> Drops({"announcements"}, {all, active}),
        useDeleteAnnouncement |-> Drops({"announcements"}, {all, active}) ] ]

JiraHooks ==
  [ queries |-> [ useJiraConfigs |-> Query(<<"jira", "configs">>, {"jira_configs"}) ],
    mutations |->
      [ useCreateJiraConfig   |-> Returns({"jira_configs"}, {<<"jira", "configs">>}),
        useUpdateJiraConfig   |-> Returns({"jira_configs"}, {<<"jira", "configs">>}),
        useDeleteJiraConfig   |-> Returns({"jira_configs"}, {<<"jira", "configs">>}),
        useRefreshTaskJira    |-> Returns({"tasks"}, {Kanban(<<>>)}) ] ]

\* Inventory (api/inventory.ts).
Inventory(rest) == <<"inventory">> \o rest

InventoryItemHooks ==
  [ queries |-> [ useInventoryItems |-> Query(Inventory(<<"items", "p">>), {"items", "groups"}) ],
    mutations |->
      [ useCreateInventoryItem |-> Returns({"items"}, {Inventory(<<>>)}),
        useUpdateInventoryItem |-> Returns({"items"}, {Inventory(<<>>)}),
        useDeleteInventoryItem |-> Returns({"items"}, {Inventory(<<>>)}) ] ]

InventoryGroupHooks ==
  [ queries |-> [ useInventoryGroups |-> Query(Inventory(<<"groups">>), {"groups", "items"}) ],
    mutations |->
      [ useCreateInventoryGroup |-> Returns({"groups"}, {Inventory(<<>>)}),
        useUpdateInventoryGroup |-> Returns({"groups"}, {Inventory(<<>>)}),
        useDeleteInventoryGroup |-> Returns({"groups", "items"}, {Inventory(<<>>)}),
        useAssignItemsToGroup   |-> Returns({"items"}, {Inventory(<<>>)}) ] ]

InventoryScheduleHooks ==
  LET schedules == Inventory(<<"schedules">>) IN
  [ queries |-> [ useInventorySchedules |-> Query(schedules, {"inventory_schedules"}) ],
    mutations |->
      [ useCreateInventorySchedule  |-> Returns({"inventory_schedules"}, {schedules}),
        useUpdateInventorySchedule  |-> Returns({"inventory_schedules"}, {schedules}),
        useDeleteInventorySchedule  |-> Returns({"inventory_schedules"}, {schedules}),
        useSendInventoryScheduleNow |-> Returns({"inventory_schedules"}, {schedules}) ] ]

\* E-mail (api/email.ts).
Email(rest) == <<"email">> \o rest

SmtpHooks ==
  [ queries |-> [ useSmtpConfigs |-> Query(Email(<<"smtp">>), {"smtp_configs"}) ],
    mutations |->
      [ useCreateSmtpConfig |-> Returns({"smtp_configs"}, {Email(<<"smtp">>)}),
        useUpdateSmtpConfig |-> Returns({"smtp_configs"}, {Email(<<"smtp">>)}) ] ]

EmailTemplateHooks ==
  [ queries |-> [ useEmailTemplates |-> Query(Email(<<"templates">>), {"templates"}) ],
    mutations |->
      [ useCreateEmailTemplate |-> Returns({"templates"}, {Email(<<"templates">>)}),
        useUpdateEmailTemplate |-> Returns({"templates"}, {Email(<<"templates">>)}),
        useDeleteEmailTemplate |-> Returns({"templates"}, {Email(<<"templates">>)}) ] ]

EmailWorkflowHooks ==
  [ queries |-> [ useEmailWorkflows |-> Query(Email(<<"workflows">>), {"workflows"}) ],
    mutations |->
      [ useCreateEmailWorkflow |-> Returns({"workflows"}, {Email(<<"workflows">>)}),
        useUpdateEmailWorkflow |-> Returns({"workflows"}, {Email(<<"workflows">>)}),
        useToggleEmailWorkflow |-> Returns({"workflows"}, {Email(<<"workflows">>)}),
        useDeleteEmailWorkflow |-> Returns({"workflows"}, {Email(<<"workflows">>)}) ] ]

EmailLogHooks ==
  [ queries |->
      [ useEmailLogs |-> Query(Email(<<"logs", "p">>), {"email_logs"}),
        useWorkflowEmailLogs |-> Query(Email(<<"workflow-logs", "id">>), {"email_logs"}),
        useEmailCeleryHeartbeat |-> Polling(Query(Email(<<"celery-heartbeat">>), {"heartbeat"})) ],
    mutations |->
      [ useEvaluateEmailsNow |-> Returns({"email_logs", "workflows"}, {Email(<<>>)}) ] ]

TeamsWebhookHooks ==
  [ queries |-> [ useTeamsWebhooks |-> Query(Email(<<"teams-webhooks">>), {"webhooks"}) ],
    mutations |->
      [ useCreateTeamsWebhook |-> Returns({"webhooks"}, {Email(<<"teams-webhooks">>)}),
        useDeleteTeamsWebhook |-> Returns({"webhooks"}, {Email(<<"teams-webhooks">>)}) ] ]

\* Administration (api/admin.ts).
SslHooks ==
  [ queries |-> [ useSslCertificates |-> Query(<<"admin", "ssl">>, {"certificates"}) ],
    mutations |->
      [ useUploadPem           |-> Returns({"certificates"}, {<<"admin", "ssl">>}),
        useUploadJks           |-> Returns({"certificates"}, {<<"admin", "ssl">>}),
        useActivateCertificate |-> Returns({"certificates"}, {<<"admin", "ssl">>}),
        useDeleteCertificate   |-> Returns({"certificates"}, {<<"admin", "ssl">>}) ] ]

BrandingHooks ==
  LET shown == {<<"admin", "branding">>, <<"branding">>} IN
  [ queries |-> [ useBranding |-> Query(<<"admin", "branding">>, {"branding"}) ],
    mutations |->
      [ useUpdateBranding |-> Drops({"branding"}, shown),
        useUploadLogo     |-> Drops({"branding"}, shown),
        useUploadFavicon  |-> Drops({"branding"}, shown) ] ]

\* The public branding is fetched by App.tsx, LoginPage.tsx and Sidebar.tsx themselves.
PublicBranding == FreshFor(Query(<<"branding">>, {"branding"}), "forever")

\* UserActivityPage.tsx has a query of its own.
UserActivity == Query(<<"user-activity", "id", "p">>, {"users", "worklogs", "tasks"})

AdminQueries ==
  [ useAuditLogs |-> Query(<<"admin", "audit-logs", "p">>, {"audit_logs"}),
    useDashboardStats |-> FreshFor(Query(<<"admin", "stats", "dashboard">>,
                                         {"users", "tasks", "worklogs", "email_logs"}), "minute"),
    useSystemHealth |-> Polling(Query(<<"admin", "system-health">>, {"health"})) ]

ReportScheduleHooks ==
  LET schedules == <<"admin", "report-schedules">> IN
  [ queries |->
      [ useReportSchedules |-> Query(schedules, {"report_schedules"}),
        useUserActivitySummary |-> Query(<<"admin", "users", "activity-summary">>,
                                         {"users", "worklogs", "tasks"}) ],
    mutations |->
      [ useCreateReportSchedule |-> Returns({"report_schedules"}, {schedules}),
        useUpdateReportSchedule |-> Returns({"report_schedules"}, {schedules}),
        useDeleteReportSchedule |-> Returns({"report_schedules"}, {schedules}),
        useRunReportSchedule    |-> Returns({"report_schedules"}, {schedules}) ] ]

\* Patches, releases and responsibilities (api/patches.ts, releases.ts, responsibility.ts).
PatchHooks ==
  [ queries |-> [ useCustomers |-> Query(<<"patches", "customers">>, {"customers"}),
                  usePatches   |-> Query(<<"patches", "list", "p">>, {"patches", "users"}) ],
    mutations |->
      [ useCreateCustomer |-> Returns({"customers"}, {<<"patches", "customers">>}),
        useCreatePatch    |-> Drops({"patches"}, {<<"patches">>}),
        useUpdatePatch    |-> Drops({"patches"}, {<<"patches">>}),
        useDeletePatch    |-> Drops({"patches"}, {<<"patches">>}) ] ]

ReleaseHooks ==
  LET Change == Returns({"releases"}, {<<"releases">>}) IN
  [ queries |-> [ useReleases |-> Query(<<"releases">>, {"releases"}) ],
    mutations |->
      [ useCreateRelease |-> Change, useUpdateRelease |-> Change, useDeleteRelease |-> Change,
        useAddPhase |-> Change, useUpdatePhase |-> Change, useDeletePhase |-> Change,
        useAddMilestone |-> Change, useUpdateMilestone |-> Change, useDeleteMilestone |-> Change ] ]

ResponsibilityHooks ==
  LET Change == Returns({"responsibilities"}, {<<"responsibility-groups">>}) IN
  [ queries |-> [ useResponsibilityGroups |->
                    Query(<<"responsibility-groups">>, {"responsibilities", "users"}) ],
    mutations |->
      [ useCreateGroup |-> Change, useUpdateGroup |-> Change, useDeleteGroup |-> Change,
        useAddMember |-> Change, useUpdateMember |-> Change, useRemoveMember |-> Change ] ]

-----------------------------------------------------------------------------
\* All of them.
ClientQueries ==
  BoardQueries @@ UserQueries @@ AdminQueries @@ CommentHooks.queries @@
  SubtaskHooks.queries @@ AttachmentHooks.queries @@ LabelHooks.queries @@
  TeamHooks.queries @@ WorkLogHooks.queries @@ LeaveHooks.queries @@ TeamTaskHooks.queries @@
  NotificationHooks.queries @@ AnnouncementHooks.queries @@ JiraHooks.queries @@
  InventoryItemHooks.queries @@ InventoryGroupHooks.queries @@
  InventoryScheduleHooks.queries @@ SmtpHooks.queries @@ EmailTemplateHooks.queries @@
  EmailWorkflowHooks.queries @@ EmailLogHooks.queries @@ TeamsWebhookHooks.queries @@
  SslHooks.queries @@ BrandingHooks.queries @@ ReportScheduleHooks.queries @@
  PatchHooks.queries @@ ReleaseHooks.queries @@ ResponsibilityHooks.queries
    @@ [publicBranding |-> PublicBranding, userActivity |-> UserActivity]

ClientMutations ==
  BoardMutations @@ ColumnMutations @@ TaskMutations @@ UserMutations @@
  PermissionMutations @@ WorkTypeMutations @@ CommentHooks.mutations @@
  SubtaskHooks.mutations @@ AttachmentHooks.mutations @@ LabelHooks.mutations @@
  TeamHooks.mutations @@ WorkLogHooks.mutations @@ LeaveHooks.mutations @@
  TeamTaskHooks.mutations @@ NotificationHooks.mutations @@ AnnouncementHooks.mutations @@
  JiraHooks.mutations @@ InventoryItemHooks.mutations @@ InventoryGroupHooks.mutations @@
  InventoryScheduleHooks.mutations @@ SmtpHooks.mutations @@ EmailTemplateHooks.mutations @@
  EmailWorkflowHooks.mutations @@ EmailLogHooks.mutations @@ TeamsWebhookHooks.mutations @@
  SslHooks.mutations @@ BrandingHooks.mutations @@ ReportScheduleHooks.mutations @@
  PatchHooks.mutations @@ ReleaseHooks.mutations @@ ResponsibilityHooks.mutations
=============================================================================
