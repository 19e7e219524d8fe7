------------------------------ MODULE MCCommands ------------------------------
(* The commands of the program, for TLC.                                     *)
EXTENDS CommandScripts, GmailCommands, PeopleCommands, CalendarCommands, DocsCommands,
        SedCommands, SheetsCommands, SlidesCommands, ClassroomCommands, WorkspaceCommands,
        AuthCommands, TLC

AllCommands == GmailCommandSet \cup PeopleCommandSet \cup DriveCommandSet \cup CalendarCommandSet
                 \cup DocsCommandSet \cup SedCommandSet \cup SheetsCommandSet \cup SlidesCommandSet
                 \cup ClassroomCommandSet \cup WorkspaceCommandSet \cup AuthCommandSet

SendPaths == {"send", "gmail send", "gmail autoreply", "gmail forward", "gmail fwd",
              "gmail drafts send"}

\* What the code is known not to do.  A command that is not named keeps the
\* property, and one that begins to keep it can be taken off the list.
Exemptions ==
  [\* no dryRunExit on the way to the change
   dryRun |->
     {"gmail labels create", "gmail labels modify", "gmail watch serve", "contacts create",
      "contacts update", "drive upload", "drive mkdir", "drive move", "drive rename", "drive share",
      "calendar alias set", "calendar alias unset", "calendar subscribe", "docs write",
      "docs update", "docs insert", "docs delete", "docs edit", "docs find-replace",
      "docs find-replace --format=markdown", "slides create", "slides create-from-markdown",
      "slides add-slide", "slides replace-slide", "slides delete-slide", "slides update-notes",
      "appscript run", "youtube update", "auth credentials set", "auth add", "auth keep",
      "auth tokens import"},
   \* a file shared with a user or a domain, mail forwarded to an address; local
   \* pictures: readable for anybody for as long as Docs or Slides needs them; and
   \* four deletions
   asked |->
     {"drive share", "gmail autoforward update", "docs create",
      "docs find-replace --format=markdown", "slides add-slide", "slides replace-slide",
      "slides delete-slide", "sheets named-ranges delete", "forms watch delete",
      "chat messages reactions delete"},
   \* one thread of several; the state file; placeholders of pictures; the move
   \* to a folder; errors of a script; pictures whose place is gone
   reported |->
     {"gmail labels modify", "gmail watch stop", "docs find-replace --format=markdown",
      "sheets create", "appscript run", "docs sed, several expressions"},
   \* values or positions that were read are written without their revision
   overwrites |->
     {"gmail labels style", "gmail drafts update", "gmail sendas update", "gmail vacation update",
      "gmail autoforward update", "calendar update", "calendar delete", "calendar respond",
      "calendar propose-time", "docs create", "docs write", "docs update", "docs sed",
      "docs sed, several expressions", "docs clear",
      "docs find-replace --format=markdown", "slides add-slide", "forms add-question",
      "youtube update"},
   \* the answer of --manual is typed; the server runs until it is killed
   waits |->
     {"auth add", "gmail watch serve"}]
=============================================================================
