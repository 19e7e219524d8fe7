-------------------------- MODULE WorkspaceCommands --------------------------
(* The commands of `tasks`, `chat`, `admin`, `appscript` and `youtube`       *)
(* (internal/cmd/tasks_*.go, chat_*.go, admin_*.go, appscript.go and         *)
(* youtube.go).                                                              *)
EXTENDS CommandSteps

---------------------------------------------------------------------------
(* Tasks.                                                                  *)

\* resolveTasklistID: a title is looked up.
ResolveTasklist == Opt(<<Read("taskList"), Check>>)

TasksList == <<Account, Check, Service>> \o ResolveTasklist \o <<Read("task"), Check>>
TasksGet == <<Account, Check, Service>> \o ResolveTasklist \o <<Read("task")>>
\* A task that repeats is made of one task for each date.
TasksAdd == <<Check, DryRun, Account>>
              \o Either(<<Service>> \o ResolveTasklist \o <<Check, Create("task")>>,
                        <<Check, Service>> \o ResolveTasklist \o <<Create("task")>>
                          \o Each(<<Create("task")>>))
TasksUpdate == <<Check, DryRun>> \o Connect \o ResolveTasklist \o <<Update("task")>>
TasksDone == <<Check, DryRun>> \o Connect \o ResolveTasklist \o <<Update("task")>>
TasksUndo == <<Check, DryRun>> \o Connect \o ResolveTasklist \o <<Update("task")>>
TasksDelete == <<Check>> \o Confirm \o Connect \o ResolveTasklist \o <<Delete("task")>>
TasksClear == <<Check>> \o Confirm \o Connect \o ResolveTasklist \o <<Delete("task")>>
TasksListsList == Connect \o <<Read("taskList"), Check>>
TasksListsCreate == Makes(Create("taskList"))

---------------------------------------------------------------------------
(* Chat, for accounts of an organisation.                                  *)

\* requireWorkspaceAccount.
WorkspaceAccount == <<Account, Check>>
InChat(steps) == <<Check, DryRun>> \o WorkspaceAccount \o <<Service>> \o steps

ChatDMSend == InChat(<<Check, Create("space"), Check, Send("message")>>)
ChatDMSpace == InChat(<<Check, Create("space"), Check>>)
ChatMessagesSend == InChat(<<Send("message")>>)
ChatMessagesList == WorkspaceAccount \o <<Check, Service, Check>>
                      \o Opt(<<Read("readState")>>) \o <<Read("message"), Check>>
ChatReactionsCreate == InChat(<<Create("reaction")>>)
ChatReactionsList == <<Check>> \o WorkspaceAccount \o <<Service, Read("reaction")>>
\* Nobody is asked.
ChatReactionsDelete == InChat(<<Delete("reaction")>>)
ChatSpacesList == WorkspaceAccount \o <<Service, Read("space"), Check>>
ChatSpacesFind == WorkspaceAccount \o <<Check, Service, Read("space")>>
ChatSpacesCreate == InChat(<<Create("space")>>)
ChatThreadsList == WorkspaceAccount \o <<Check, Service, Read("message"), Check>>

---------------------------------------------------------------------------
(* Groups and users of a domain.  requireAdminAccount checks the account too. *)

AdminGroupsList == ListsLate("group")
AdminGroupsMembersList == ListsLate("groupMember")
AdminGroupsMembersAdd == MakesLate(Create("groupMember"))
AdminGroupsMembersRemove == RemovesLate("groupMember")
AdminUsersList == ListsLate("user")
AdminUsersGet == ShowsLate("user")
AdminUsersCreate == MakesLate(Create("user"))
AdminUsersSuspend == <<Account, Check>> \o Confirm \o <<Service, Update("user")>>

---------------------------------------------------------------------------
(* Scripts and videos.                                                     *)

AppScriptGet == ShowsLate("script")
AppScriptContent == ShowsLate("script")
AppScriptCreate == MakesLate(Create("script"))
\* What a script may change is anything.  A script that fails is reported in the
\* output of a command that succeeds.
AppScriptRun == <<Account, Check, Service>>
                  \o Either(<<Update("scriptEffect")>>, Tolerated(Update("scriptEffect")))

YouTubeStats == Connect \o <<Read("channel")>>
YouTubeVideos == Connect \o <<Read("video")>>
\* The whole snippet that was read is written, with what the flags change.
YouTubeUpdate == Connect \o <<Read("video"), Check, MayStop, Replace("video")>>

---------------------------------------------------------------------------
WorkspaceCommandSet ==
  {Command("tasks list", TasksList), Command("tasks get", TasksGet),
   Command("tasks add", TasksAdd), Command("tasks update", TasksUpdate),
   Command("tasks done", TasksDone), Command("tasks undo", TasksUndo),
   Command("tasks delete", TasksDelete), Command("tasks clear", TasksClear),
   Command("tasks lists list", TasksListsList), Command("tasks lists create", TasksListsCreate),
   Command("chat dm send", ChatDMSend), Command("chat dm space", ChatDMSpace),
   Command("chat messages list", ChatMessagesList), Command("chat messages send", ChatMessagesSend),
   Command("chat messages react", ChatReactionsCreate),
   Command("chat messages reactions create", ChatReactionsCreate),
   Command("chat messages reactions list", ChatReactionsList),
   Command("chat messages reactions delete", ChatReactionsDelete),
   Command("chat spaces list", ChatSpacesList), Command("chat spaces find", ChatSpacesFind),
   Command("chat spaces create", ChatSpacesCreate), Command("chat threads list", ChatThreadsList),
   Command("admin groups list", AdminGroupsList),
   Command("admin groups members list", AdminGroupsMembersList),
   Command("admin groups members add", AdminGroupsMembersAdd),
   Command("admin groups members remove", AdminGroupsMembersRemove),
   Command("admin users list", AdminUsersList), Command("admin users get", AdminUsersGet),
   Command("admin users create", AdminUsersCreate),
   Command("admin users suspend", AdminUsersSuspend),
   Command("appscript get", AppScriptGet), Command("appscript content", AppScriptContent),
   Command("appscript create", AppScriptCreate), Command("appscript run", AppScriptRun),
   Command("youtube stats", YouTubeStats), Command("youtube videos", YouTubeVideos),
   Command("youtube update", YouTubeUpdate)}
=============================================================================
