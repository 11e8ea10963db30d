---------------------------- MODULE MCQueryCache ----------------------------
(***************************************************************************)
(* QueryCache for TLC with the tables of the client.  A behaviour depends  *)
(* on a mutation and a query only by their attributes, so that every pair  *)
(* of a mutation and a query that shows what it changes is represented by  *)
(* one pair of its class, and every place by one that shows the query and  *)
(* offers its mutations alike.                                             *)
(***************************************************************************)
EXTENDS QueryCache, ClientPages

\* A write of the left-hand mutation changes what the query shows on the page where it is
\* made, and nothing refreshes it.
MCKnownGaps ==
  ({"useCreateComment", "useDeleteComment"} \X {"useTaskHistory"})
    \cup ({"useCreateTeam", "useUpdateTeam"} \X {"useUsers"})
    \cup {<<"useCreateAnnouncement", "useActiveAnnouncements">>}
    \cup ({"useCreateUser", "useUpdateUser", "useUpdateMyProfile", "useDeleteUser",
           "useRestoreUser", "useHardDeleteUser", "useAddTeamMember", "useRemoveTeamMember"}
          \X {"useTeamTasks"})

\* What is written and watched.  "none": nothing of this client is.
MCScenarios ==
  { <<"useCreateBoard", "useBoards">>, <<"useUpdateBoard", "useBoards">>,
    <<"useUpdateBoard", "useBoard">>, <<"useReorderColumns", "useBoards">>,
    <<"useRefreshTaskJira", "useBoards">>, <<"useCreateComment", "useTaskHistory">>,
    <<"useDeleteBoard", "useDashboardStats">>, <<"useDeleteLabel", "useDashboardStats">>,
    <<"useUpdateUser", "useTasks">>, <<"useUpdateUser", "useTeamTasks">>,
    <<"useMarkRead", "useNotifications">>,
    <<"useCreateAnnouncement", "useActiveAnnouncements">>,
    <<"useUpdateAnnouncement", "useActiveAnnouncements">>,
    <<"useUpdateBranding", "publicBranding">>,
    <<"none", "useBoards">>, <<"none", "useNotifications">>,
    <<"none", "useActiveAnnouncements">>, <<"none", "useDashboardStats">>,
    <<"none", "publicBranding">> }

MCStops ==
  [ useBoards      |-> {"Topbar", "KanbanBoardsPage", "KanbanPage"},
    useBoard       |-> {"Topbar", "KanbanBoardsPage", "KanbanPage"},
    useTasks       |-> {"Topbar", "DashboardPage", "UserFormModal"},
    useTaskHistory |-> {"Topbar", "TaskModal", "CommentsTab"},
    useTeamTasks   |-> {"Topbar", "LoginPage", "UserFormModal"},
    useNotifications |-> {"Topbar", "ChangePasswordModal", "LoginPage"},
    useActiveAnnouncements |-> {"Topbar", "LoginPage", "AnnouncementsPage"},
    useDashboardStats |-> {"Topbar", "DashboardPage", "KanbanBoardsPage", "LabelSection"},
    publicBranding |-> {"Topbar", "BrandingSection"} ]

-----------------------------------------------------------------------------
\* Every pair and every place has one of its class among those.

\* Parts of the page frame, which no user goes to.
Frame == {"BrandingInit", "TeamTasksPopup", "Sidebar", "AnnouncementBanner"}

Shows(p, name) == \E c \in ClientPlaces[p].around \cup {p} : name \in ClientPlaces[c].mounts

Attributes(name) == <<ClientQueries[name].fresh, ClientQueries[name].polls>>

Class(m, name) ==
  << \E k \in ClientMutations[m].keys : StartsWith(ClientQueries[name].key, k),
     ClientMutations[m].returned,
     <<m, name>> \in MCKnownGaps,
     \E p \in DOMAIN ClientPlaces \ Frame : m \in ClientPlaces[p].offers /\ Shows(p, name),
     Attributes(name) >>

Kind(p, name) ==
  <<Shows(p, name), {m \in ClientPlaces[p].offers : <<m, name>> \in MCScenarios}>>

ASSUME EveryPairIsRepresented ==
  LET names == DOMAIN ClientQueries
      changed(m) == {name \in names : ClientMutations[m].writes \cap ClientQueries[name].reads # {}}
      written == {pair \in MCScenarios : pair[1] # "none"}
      others == MCScenarios \ written
  IN /\ \A m \in DOMAIN ClientMutations : \A name \in changed(m) :
          Class(m, name) \in {Class(pair[1], pair[2]) : pair \in written}
     /\ {Attributes(name) : name \in names} = {Attributes(pair[2]) : pair \in others}

ASSUME EveryPlaceIsRepresented ==
  \A name \in DOMAIN MCStops :
    \A p \in DOMAIN ClientPlaces \ Frame : \E stop \in MCStops[name] : Kind(p, name) = Kind(stop, name)

-----------------------------------------------------------------------------
CONSTANTS s1, s2

\* (A LET has TLC count the cost of a table where it is used, not where it is made.)
MCQueries == LET table == ClientQueries IN table
MCMutations == LET table == ClientMutations IN table
MCPlaces == LET table == ClientPlaces IN table
=============================================================================
