---------------------------- MODULE DriveCommands ----------------------------
(* The commands of `drive` (internal/cmd/drive*.go), and what the commands   *)
(* for documents share with them.                                            *)
EXTENDS CommandSteps

---------------------------------------------------------------------------
(* Files.                                                                  *)

\* downloadDriveFile: straight into the file of the user.
DownloadDriveFile == <<Check, Read("file"), Check, Save("file")>>

\* copyViaDrive.
CopyViaDrive == <<Check, DryRun>> \o Connect \o <<Read("file"), Check, Create("file"), Check>>
\* exportViaDrive.
ExportViaDrive == <<Check, DryRun>> \o Connect \o <<Read("file"), Check>> \o DownloadDriveFile

DriveLs == <<Check>> \o Connect \o <<Read("file")>>
DriveSearch == <<Check>> \o Connect \o <<Read("file")>>
DriveGet == <<Account, Check, Service, Read("file")>>
DriveDownload == <<Account, Check, Service, Read("file"), Check>> \o DownloadDriveFile
DriveURL == Connect \o Each(<<Read("file")>>)
DriveDrives == Connect \o <<Read("drive"), Check>>

\* With --replace the content of a file is replaced whatever it is meanwhile.
RunDriveReplaceUpload == <<Read("file"), Check, Update("file")>>
DriveUpload == <<Check>> \o Connect \o Either(<<Create("file")>>, RunDriveReplaceUpload)
DriveMkdir == <<Account, Check, Service, Create("file")>>
\* For good with --permanent, else into the trash.
DriveDelete == <<Account, Check>> \o Confirm \o <<Service>>
                 \o Either(<<Delete("file")>>, <<Update("file")>>)
\* The parents that were read are those it is taken out of.
DriveMove == <<Account, Check, Service, Read("file"), Update("file")>>
DriveRename == <<Account, Check, Service, Update("file")>>

---------------------------------------------------------------------------
(* Permissions.                                                            *)

\* Only sharing with everybody is confirmed; a user or a domain is let in at once.
DriveShare == <<Account, Check>>
                \o Either(Confirm \o <<Service, Expose("file")>>, <<Service, Expose("file")>>)
                \o <<Read("file")>>
DriveUnshare == <<Account, Check>> \o Confirm \o <<Service, Delete("permission")>>
DrivePermissions == <<Account, Check, Service, Read("permission")>>

---------------------------------------------------------------------------
(* Comments.                                                               *)

DriveCommentsList == <<Check>> \o Connect \o <<Read("comment")>>
DriveCommentsGet == <<Check>> \o Connect \o <<Read("comment")>>
DriveCommentsCreate == <<Check, DryRun>> \o Connect \o <<Create("comment")>>
DriveCommentsUpdate == <<Check, DryRun>> \o Connect \o <<Update("comment")>>
DriveCommentsDelete == <<Check>> \o Confirm \o Connect \o <<Delete("comment")>>
DriveCommentReply == <<Check, DryRun>> \o Connect \o <<Create("comment")>>

---------------------------------------------------------------------------
DriveCommandSet ==
  {Command("drive ls", DriveLs), Command("drive search", DriveSearch),
   Command("drive get", DriveGet), Command("drive download", DriveDownload),
   Command("drive copy", CopyViaDrive), Command("drive upload", DriveUpload),
   Command("drive mkdir", DriveMkdir), Command("drive delete", DriveDelete),
   Command("drive move", DriveMove), Command("drive rename", DriveRename),
   Command("drive share", DriveShare), Command("drive unshare", DriveUnshare),
   Command("drive permissions", DrivePermissions), Command("drive url", DriveURL),
   Command("drive drives", DriveDrives), Command("drive comments list", DriveCommentsList),
   Command("drive comments get", DriveCommentsGet),
   Command("drive comments create", DriveCommentsCreate),
   Command("drive comments update", DriveCommentsUpdate),
   Command("drive comments delete", DriveCommentsDelete),
   Command("drive comments reply", DriveCommentReply)}
=============================================================================
