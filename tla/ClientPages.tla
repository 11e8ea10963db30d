----------------------------- MODULE ClientPages -----------------------------
(***************************************************************************)
(* The pages and dialogs of the web client, app/frontend/src/pages and     *)
(* components: for each, the components it is shown with, the queries it   *)
(* mounts and the mutations its buttons and forms send.                    *)
(***************************************************************************)
EXTENDS ClientApi

Place(around, mounts, offers) == [around |-> around, mounts |-> mounts, offers |-> offers]

\* App.tsx and AppShell.tsx: what is mounted around every page.
BrandingInit == Place({}, {"publicBranding"}, {})
TeamTasksPopup == Place({}, {"useTeamTasks"}, {})
Sidebar == Place({}, {"publicBranding"}, {})
AnnouncementBanner == Place({}, {"useActiveAnnouncements"}, {})
TopbarOffers == {"useMarkRead", "useMarkAllRead"}
Topbar == Place({"BrandingInit", "TeamTasksPopup", "Sidebar", "AnnouncementBanner"},
                {"useNotifications"}, TopbarOffers)
Shell == Topbar.around \cup {"Topbar"}

Page(mounts, offers) == Place(Shell, mounts, offers)
Within(page, mounts, offers) == Place(Shell \cup {page}, mounts, offers)

ChangePasswordModal == Within("ProfilePage", {}, {"useChangeOwnPassword"})

LoginPage == Place({"BrandingInit"}, {"publicBranding"}, {})

-----------------------------------------------------------------------------
\* Dashboard, reports, profile.
DashboardPage ==
  Page({"useTasks", "useWorkLogs", "useUsers", "useDashboardStats", "useSystemHealth"}, {})

ReportsPage == Page({"useUsers", "useWorkLogs", "useUserActivitySummary"}, {})

ReportScheduleSection ==
  Within("ReportsPage", {"useReportSchedules"},
         {"useCreateReportSchedule", "useUpdateReportSchedule", "useDeleteReportSchedule",
          "useRunReportSchedule"})

ProfilePage == Page({}, {"useUpdateMyProfile"})

\* Kanban.
KanbanBoardsPage ==
  Page({"useUsers", "useBoards"}, {"useCreateBoard", "useUpdateBoard", "useDeleteBoard"})

KanbanPage ==
  Page({"useBoard", "useColumns", "useLabels", "useTeams", "useUsers", "useBoards"},
       {"useBulkUpdateTasks"})

KanbanBoard == Within("KanbanPage", {"useColumns", "useTasks"}, {"useMoveTask"})

TaskCard == Place(KanbanBoard.around \cup {"KanbanBoard"}, {"useTaskSubtasks"}, {})

OnBoard == TaskCard.around \cup {"TaskCard"}

TaskModal ==
  Place(OnBoard,
        {"useLabels", "useUsers", "useTaskComments", "useTaskSubtasks", "useTaskHistory",
         "useTaskAttachments"},
        {"useCreateTask", "useUpdateTask", "useMoveTask", "useDeleteTask"})

InTaskModal(offers) == Place(OnBoard \cup {"TaskModal"}, {}, offers)

SubtasksTab == InTaskModal({"useCreateSubtask", "useUpdateSubtask", "useDeleteSubtask"})
CommentsTab == InTaskModal({"useCreateComment", "useDeleteComment"})
AttachmentsTab == InTaskModal({"useUploadAttachment", "useDeleteAttachment"})

WorkLogFromTaskModal == Place(OnBoard, {"useWorkTypes"}, {"useCreateWorkLog"})

GanttPage == Page({"useTasks", "useColumns"}, {})
TimelinePage == Page({"useActivityFeed"}, {})

\* Work logs and leave.
WorkLogPage == Page({"useUsers", "useWorkLogs"}, {"useDeleteWorkLog"})

WorkLogModal ==
  Within("WorkLogPage", {"useWorkTypes", "useUsers"}, {"useCreateWorkLog", "useUpdateWorkLog"})

LeavePage ==
  Page({"useLeaves", "useUsers"}, {"useCreateLeave", "useUpdateLeave", "useDeleteLeave"})

LeaveCalendarPage == Page({"useLeaves"}, {})

UserActivityPage == Page({"userActivity"}, {})

\* Team tasks.
TeamTasksPage == Page({"useTeamTasks"}, {"useDeleteTeamTask", "useCompleteTeamTask"})
TeamTasksKanban == Within("TeamTasksPage", {}, {"useUpdateTeamTask"})
TeamTaskModal ==
  Within("TeamTasksPage", {"useUsers"}, {"useCreateTeamTask", "useUpdateTeamTask"})

-----------------------------------------------------------------------------
\* Inventory, patches, responsibilities, releases.
InventoryPage ==
  Page({"useMyEffectivePermissions", "useInventoryItems", "useInventoryGroups",
        "useInventorySchedules"},
       {"useDeleteInventoryItem"})

ItemFormModal ==
  Within("InventoryPage", {}, {"useCreateInventoryItem", "useUpdateInventoryItem"})

InventoryGroupsPanel == Within("InventoryPage", {}, {"useDeleteInventoryGroup"})

InventoryGroupModal ==
  Within("InventoryPage", {}, {"useCreateInventoryGroup", "useUpdateInventoryGroup"})

InventorySchedulesPanel ==
  Within("InventoryPage", {}, {"useDeleteInventorySchedule", "useSendInventoryScheduleNow"})

InventoryScheduleModal ==
  Within("InventoryPage", {"useTeamsWebhooks"},
         {"useCreateInventorySchedule", "useUpdateInventorySchedule"})

PatchesPage == Page({"usePatches"}, {"useDeletePatch"})
PatchModal == Within("PatchesPage", {}, {"useCreatePatch", "useUpdatePatch"})
CustomerPicker ==
  Place(PatchModal.around \cup {"PatchModal"}, {"useCustomers"}, {"useCreateCustomer"})

ResponsibilityPage ==
  Page({"useResponsibilityGroups"}, {"useDeleteGroup", "useRemoveMember"})
ResponsibilityGroupModal ==
  Within("ResponsibilityPage", {}, {"useCreateGroup", "useUpdateGroup"})
ResponsibilityMemberModal ==
  Within("ResponsibilityPage", {"useUsers"}, {"useAddMember", "useUpdateMember"})

ReleaseCalendarPage ==
  Page({"useReleases"}, {"useDeleteRelease", "useDeletePhase", "useDeleteMilestone"})
ReleaseModal == Within("ReleaseCalendarPage", {}, {"useCreateRelease", "useUpdateRelease"})
PhaseModal == Within("ReleaseCalendarPage", {}, {"useAddPhase", "useUpdatePhase"})
MilestoneModal == Within("ReleaseCalendarPage", {}, {"useAddMilestone", "useUpdateMilestone"})

-----------------------------------------------------------------------------
\* Users, teams, permissions.
UsersPage == Page({"useUsers"}, {"useDeleteUser", "useRestoreUser", "useHardDeleteUser"})
UserFormModal == Within("UsersPage", {}, {"useCreateUser", "useUpdateUser"})
SetPasswordModal == Within("UsersPage", {}, {"useSetUserPassword"})
BulkPermissionModal == Within("UsersPage", {}, {"useBulkApplyPermissions"})

PermissionMatrixModal ==
  Within("PermissionsPage", {"usePermissions", "useEffectivePermissions"}, {"useSetPermissions"})
PermissionsPage == Page({"useUsers"}, {})

TeamsPage == Page({"useTeams"}, {})
TeamRow == Within("TeamsPage", {"useTeam"}, {"useDeleteTeam"})
TeamForm ==
  Place(TeamRow.around \cup {"TeamRow"}, {"useUsers"}, {"useCreateTeam", "useUpdateTeam"})
MemberRow == Place(TeamRow.around \cup {"TeamRow"}, {}, {"useRemoveTeamMember"})
AddMemberRow == Place(TeamRow.around \cup {"TeamRow"}, {"useUsers"}, {"useAddTeamMember"})

AnnouncementsPage ==
  Page({"useAllAnnouncements", "useTeams", "useUsers"},
       {"useCreateAnnouncement", "useUpdateAnnouncement", "useDeleteAnnouncement"})

\* E-mail administration and logs.
EmailTemplatesPage ==
  Page({"useEmailTemplates"},
       {"useCreateEmailTemplate", "useUpdateEmailTemplate", "useDeleteEmailTemplate"})

EmailWorkflowsPage ==
  Page({"useEmailWorkflows", "useEmailTemplates", "useTeamsWebhooks", "useUsers",
        "useEmailCeleryHeartbeat"},
       {"useEvaluateEmailsNow", "useToggleEmailWorkflow", "useDeleteEmailWorkflow"})

EmailWorkflowModal ==
  Within("EmailWorkflowsPage", {}, {"useCreateEmailWorkflow", "useUpdateEmailWorkflow"})

WorkflowLogs ==
  Within("EmailWorkflowsPage", {"useWorkflowEmailLogs"}, EmailWorkflowsPage.offers)

EmailLogsPage == Page({"useEmailLogs"}, {})
AuditLogsPage == Page({"useAuditLogs"}, {})

-----------------------------------------------------------------------------
\* Settings: one component, its sections and dialogs.
SettingsPage ==
  Page({"useSmtpConfigs", "useJiraConfigs", "useSslCertificates", "useBranding",
        "useTeamsWebhooks", "useWorkTypes", "useBoards", "useColumns", "useLabels"}, {})

Section(offers) == Within("SettingsPage", {}, offers)

SmtpModal == Section({"useCreateSmtpConfig", "useUpdateSmtpConfig"})
JiraSection == Section({"useDeleteJiraConfig"})
JiraModal == Section({"useCreateJiraConfig", "useUpdateJiraConfig"})
BrandingSection == Section({"useUpdateBranding", "useUploadLogo", "useUploadFavicon"})
SslSection ==
  Section({"useUploadPem", "useUploadJks", "useActivateCertificate", "useDeleteCertificate"})
WebhookSection == Section({"useCreateTeamsWebhook", "useDeleteTeamsWebhook"})
WorkTypeSection == Section({"useCreateWorkType", "useUpdateWorkType", "useDeleteWorkType"})
ColumnSection == Section({"useCreateColumn", "useUpdateColumn", "useDeleteColumn"})
LabelSection == Section({"useCreateLabel", "useUpdateLabel", "useDeleteLabel"})

-----------------------------------------------------------------------------
\* The table of them all.
ClientPlaces ==
  [ BrandingInit |-> BrandingInit, TeamTasksPopup |-> TeamTasksPopup, Sidebar |-> Sidebar,
    AnnouncementBanner |-> AnnouncementBanner, Topbar |-> Topbar,
    ChangePasswordModal |-> ChangePasswordModal, LoginPage |-> LoginPage,
    DashboardPage |-> DashboardPage, ReportsPage |-> ReportsPage,
    ReportScheduleSection |-> ReportScheduleSection, ProfilePage |-> ProfilePage,
    KanbanBoardsPage |-> KanbanBoardsPage, KanbanPage |-> KanbanPage,
    KanbanBoard |-> KanbanBoard, TaskCard |-> TaskCard, TaskModal |-> TaskModal,
    SubtasksTab |-> SubtasksTab, CommentsTab |-> CommentsTab,
    AttachmentsTab |-> AttachmentsTab, WorkLogFromTaskModal |-> WorkLogFromTaskModal,
    GanttPage |-> GanttPage, TimelinePage |-> TimelinePage, WorkLogPage |-> WorkLogPage,
    WorkLogModal |-> WorkLogModal, LeavePage |-> LeavePage,
    LeaveCalendarPage |-> LeaveCalendarPage, UserActivityPage |-> UserActivityPage,
    TeamTasksPage |-> TeamTasksPage, TeamTasksKanban |-> TeamTasksKanban,
    TeamTaskModal |-> TeamTaskModal, InventoryPage |-> InventoryPage,
    ItemFormModal |-> ItemFormModal, InventoryGroupsPanel |-> InventoryGroupsPanel,
    InventoryGroupModal |-> InventoryGroupModal,
    InventorySchedulesPanel |-> InventorySchedulesPanel,
    InventoryScheduleModal |-> InventoryScheduleModal, PatchesPage |-> PatchesPage,
    PatchModal |-> PatchModal, CustomerPicker |-> CustomerPicker,
    ResponsibilityPage |-> ResponsibilityPage,
    ResponsibilityGroupModal |-> ResponsibilityGroupModal,
    ResponsibilityMemberModal |-> ResponsibilityMemberModal,
    ReleaseCalendarPage |-> ReleaseCalendarPage, ReleaseModal |-> ReleaseModal,
    PhaseModal |-> PhaseModal, MilestoneModal |-> MilestoneModal, UsersPage |-> UsersPage,
    UserFormModal |-> UserFormModal, SetPasswordModal |-> SetPasswordModal,
    BulkPermissionModal |-> BulkPermissionModal,
    PermissionMatrixModal |-> PermissionMatrixModal, PermissionsPage |-> PermissionsPage,
    TeamsPage |-> TeamsPage, TeamForm |-> TeamForm, TeamRow |-> TeamRow,
    MemberRow |-> MemberRow, AddMemberRow |-> AddMemberRow,
    AnnouncementsPage |-> AnnouncementsPage, EmailTemplatesPage |-> EmailTemplatesPage,
    EmailWorkflowsPage |-> EmailWorkflowsPage, EmailWorkflowModal |-> EmailWorkflowModal,
    WorkflowLogs |-> WorkflowLogs, EmailLogsPage |-> EmailLogsPage,
    AuditLogsPage |-> AuditLogsPage, SettingsPage |-> SettingsPage, SmtpModal |-> SmtpModal,
    JiraSection |-> JiraSection, JiraModal |-> JiraModal,
    BrandingSection |-> BrandingSection, SslSection |-> SslSection,
    WebhookSection |-> WebhookSection, WorkTypeSection |-> WorkTypeSection,
    ColumnSection |-> ColumnSection, LabelSection |-> LabelSection ]
=============================================================================
