----------------------------- MODULE EditorForms -----------------------------
(***************************************************************************)
(* The forms of the web client by what their code does with the text typed *)
(* into them.  All of them copy a row into component state, send the copy  *)
(* with `await mutateAsync(...)` and end with what follows it; Cancel is   *)
(* never disabled.  They differ in:                                        *)
(*   place   over the page; beside the rows, whose buttons stay in reach;  *)
(*           or fixed, a part of the page that is always there             *)
(*   edits   opened for rows, for new ones, or for both                    *)
(*   apart   the kinds whose dialog has a state of its own, so that a save *)
(*           of that kind closes no dialog of the other                    *)
(*   seed    the row, copied when the form opens; kept, copied unless the  *)
(*           form was open for another row; remembered by the page when    *)
(*           the form is closed; loaded by a query of its own; or live,    *)
(*           copied again whenever the data of the page changes            *)
(*   guard   whose isPending disables Save: the hooks of the page, which   *)
(*           outlive the dialog, only the one of this kind of save, or     *)
(*           those of the dialog                                           *)
(*   ends    closes the dialog; clears the input; stays; or closes it by a *)
(*           timer                                                         *)
(***************************************************************************)
\* A dialog over its page whose hooks are in the page.
Dialog ==
  [ place |-> "over", edits |-> {"row", "new"}, apart |-> {}, seed |-> "row",
    guard |-> "page", ends |-> "closes" ]

\* A dialog that is mounted when it opens, with hooks of its own.
Mounted == [Dialog EXCEPT !.guard = "dialog"]

\* A form beside the rows.
Inline == [Dialog EXCEPT !.place = "beside"]

\* A form that is a part of its page.
Fixed(ends) ==
  [Dialog EXCEPT !.place = "fixed", !.edits = {"new"}, !.ends = ends]

OnlyNew(f) == [f EXCEPT !.edits = {"new"}]
OnlyRows(f) == [f EXCEPT !.edits = {"row"}]
Apart(f) == [f EXCEPT !.apart = f.edits]

-----------------------------------------------------------------------------
\* pages/SettingsPage.tsx
SmtpForm == Dialog
JiraForm == Dialog
WebhookForm == Fixed("clears")
WorkTypeForm == Inline
ColumnForm == Inline
LabelForm == Inline
BrandingForm == [OnlyRows(Fixed("stays")) EXCEPT !.seed = "live"]

\* The other pages of the administrator.
AnnouncementForm == Dialog
EmailTemplateEditor == Dialog
EmailWorkflowForm == Dialog
ReportScheduleForm == Inline
TeamForm == [Inline EXCEPT !.seed = "kept", !.guard = "kind"]
UserForm == Apart(Mounted)
PermissionMatrix == [OnlyRows(Mounted) EXCEPT !.seed = "loaded", !.ends = "stays"]
BulkPermissions == [OnlyNew(Mounted) EXCEPT !.ends = "timer"]
PasswordForm == [OnlyRows(Mounted) EXCEPT !.ends = "stays"]

\* Work.
TaskForm == Mounted
CommentForm == Fixed("clears")
WorkLogForm == Apart(Mounted)
WorkLogOfTaskForm == OnlyNew(Mounted)
BoardForm == [Dialog EXCEPT !.apart = {"row"}, !.guard = "kind"]
TeamTaskForm == Mounted
LeaveForm == [OnlyNew(Inline) EXCEPT !.seed = "remembered"]

\* Resources.
ItemForm == Mounted
InventoryGroupForm == Mounted
InventoryScheduleForm == Mounted
PatchForm == Apart(Mounted)
ResponsibilityGroupForm == Dialog
ResponsibilityMemberForm == Dialog
ReleaseForm == Mounted
PhaseForm == Mounted
MilestoneForm == Mounted

-----------------------------------------------------------------------------
Forms ==
  { SmtpForm, JiraForm, WebhookForm, WorkTypeForm, ColumnForm, LabelForm, BrandingForm,
    AnnouncementForm, EmailTemplateEditor, EmailWorkflowForm, ReportScheduleForm, TeamForm,
    UserForm, PermissionMatrix, BulkPermissions, PasswordForm, TaskForm, CommentForm,
    WorkLogForm, WorkLogOfTaskForm, BoardForm, TeamTaskForm, LeaveForm, ItemForm,
    InventoryGroupForm, InventoryScheduleForm, PatchForm, ResponsibilityGroupForm,
    ResponsibilityMemberForm, ReleaseForm, PhaseForm, MilestoneForm }
=============================================================================
