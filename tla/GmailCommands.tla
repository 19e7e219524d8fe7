---------------------------- MODULE GmailCommands ----------------------------
(* The commands of `gmail` (internal/cmd/gmail_*.go).                        *)
EXTENDS CommandSteps

---------------------------------------------------------------------------
(* Reading.                                                                *)

GmailSearch == <<Account, Check, Service, Read("thread"), MayStop, Read("label"), Check>>
                 \o Each(<<Read("thread")>>)
GmailMessagesSearch == <<Account, Check, Service, Read("message"), MayStop, Read("label"), Check>>
                         \o Each(<<Read("message")>>)
GmailGet == <<Account, Check, Service, Read("message"), Check>>

\* downloadAttachmentToPath: a file of the right size is left as it is.
DownloadAttachments == Each(<<Check>> \o Opt(<<Read("message"), Save("file")>>))

GmailAttachment == <<Check, DryRun>> \o Connect
                     \o Opt(Tolerated(Read("message")))
                     \o Opt(<<Check, Read("message"), Save("file")>>)
GmailThreadGet == <<Account, Check, Service, Read("thread"), Check>> \o DownloadAttachments
GmailThreadAttachments == <<Account, Check, Service, Read("thread"), Check>> \o DownloadAttachments
GmailURL == <<Account>>
GmailHistory == <<Account, Check, Service, Read("history")>>

---------------------------------------------------------------------------
(* Labels and messages.                                                    *)

GmailLabelsList == Connect \o <<Read("label")>>
GmailLabelsGet == Connect \o <<Read("label"), Check, Read("label")>>
GmailLabelsCreate == <<Account, Check, Service, Read("label"), Check, Create("label")>>

\* resolveMutableGmailLabel: by id, then by name.
ResolveMutableLabel == Tolerated(Read("label")) \o Opt(<<Check, Read("label"), Check, Read("label")>>)

GmailLabelsRename == <<Account, Check, Service>> \o ResolveMutableLabel
                       \o <<Check, Read("label"), Check, DryRun, Update("label")>>
GmailLabelsStyle == Connect \o <<Check>> \o ResolveMutableLabel \o <<Check, DryRun, Replace("label")>>
GmailLabelsDelete == Connect \o <<Check>> \o ResolveMutableLabel \o <<Check>> \o Confirm
                       \o <<Delete("label")>>
\* A thread that cannot be modified is noted, and the command goes on.
GmailLabelsModify == <<Account, Check, Service, Read("label")>> \o Each(Tolerated(Update("thread")))
GmailThreadModify == <<Check, DryRun>> \o Connect \o <<Read("label"), Update("thread")>>
GmailMessagesModify == <<Check, DryRun>> \o Connect \o <<Read("label"), Update("message")>>

\* gmailBulkLabelOp: chunks of 1000 messages.
BulkLabelOp == <<Check, DryRun>> \o Connect \o Opt(<<Read("message")>>)
                 \o <<MayStop, Read("label")>> \o Each(<<Update("message")>>)

GmailBatchDelete == <<Check>> \o Confirm \o Connect \o <<Delete("message")>>
GmailBatchModify == <<Check, DryRun>> \o Connect \o <<Read("label"), Update("message")>>

---------------------------------------------------------------------------
(* Composing and sending.                                                  *)

\* requireGmailSendService.
SendService == Connect \o <<NoSend>>

\* resolveComposeSender: a list of addresses that cannot be read leads to a get.
ResolveComposeSender == Either(<<Read("sendAs"), Check>>, Opt(<<Read("sendAs"), Check>>))

\* prepareComposeReply.
PrepareComposeReply ==
  Opt(Either(<<Read("message")>>, <<Read("thread"), Check>> \o Opt(Tolerated(Read("message")))))

\* One message for each batch of recipients.
GmailSend == <<Check, DryRun>> \o SendService \o ResolveComposeSender \o PrepareComposeReply
               \o <<Check>> \o Each(<<Check, Send("mail")>>)

GmailForward == <<Check, DryRun>> \o SendService \o ResolveComposeSender \o <<Read("message")>>
                  \o Each(<<Read("message")>>) \o <<Check, Send("mail")>>

GmailAutoReply ==
  <<Check, DryRun>> \o SendService \o ResolveComposeSender
    \o <<Read("label")>> \o Opt(<<Create("label")>>) \o <<Read("message")>>
    \o Each(<<Read("message")>> \o Opt(<<Check, Send("mail"), Check, Update("thread")>>))

GmailDraftsList == Connect \o <<Read("draft")>>
GmailDraftsGet == <<Check>> \o Connect \o <<Read("draft"), MayStop, Check>> \o DownloadAttachments
GmailDraftsDelete == <<Check>> \o Confirm \o Connect \o <<Delete("draft")>>
GmailDraftsSend == <<Check, DryRun>> \o SendService \o <<Send("mail")>>
GmailDraftsCreate == <<Check, DryRun>> \o Connect \o ResolveComposeSender \o PrepareComposeReply
                       \o <<Check, Create("draft")>>
\* The recipients and the thread may be taken over from the draft.
GmailDraftsUpdate ==
  <<Check, DryRun>> \o Connect
    \o Opt(<<Read("draft")>> \o Opt(<<Check, Read("thread"), Check>>))
    \o <<Check>> \o ResolveComposeSender \o PrepareComposeReply \o <<Check, Replace("draft")>>

---------------------------------------------------------------------------
(* Settings.                                                               *)

GmailAutoForwardGet == Connect \o <<Read("autoForwarding")>>
\* What was read is written back; switched on, or with another address, it lets
\* somebody read the mail that comes.
GmailAutoForwardUpdate ==
  <<Check, DryRun>> \o Connect \o <<Read("autoForwarding")>>
    \o Either(<<Replace("autoForwarding")>>, <<Expose("mailbox")>>)
GmailDelegatesList == Connect \o <<Read("delegate")>>
GmailDelegatesGet == Connect \o <<Check, Read("delegate")>>
GmailDelegatesAdd == <<Check, DryRun>> \o Confirm \o Connect \o <<Expose("mailbox")>>
GmailDelegatesRemove == <<Check>> \o Confirm \o Connect \o <<Delete("delegate")>>

GmailFiltersList == Connect \o <<Read("filter")>>
GmailFiltersGet == Connect \o <<Check, Read("filter")>>
\* createGmailFilterWithRetry: some failures are tried again; a filter that is
\* there already is as good.
CreateFilter(create) == Either(Try(<<create>>, <<create>>), <<Read("filter"), Check>>)
\* A filter that forwards mail has to be confirmed.
GmailFiltersCreate ==
  <<Check, DryRun>>
    \o Either(Confirm \o Connect \o Opt(<<Read("label")>>) \o CreateFilter(Expose("mailbox")),
              Connect \o Opt(<<Read("label")>>) \o CreateFilter(Create("filter")))
GmailFiltersDelete == <<Check>> \o Confirm \o Connect \o <<Delete("filter")>>
GmailFiltersExport == Connect \o <<Read("filter")>> \o Opt(<<Save("file")>>)

GmailForwardingList == Connect \o <<Read("forwardingAddress")>>
GmailForwardingGet == Connect \o <<Check, Read("forwardingAddress")>>
GmailForwardingCreate == <<Check, DryRun>> \o Connect \o <<Create("forwardingAddress")>>
GmailForwardingDelete == <<Check>> \o Confirm \o Connect \o <<Delete("forwardingAddress")>>

GmailSendAsList == Connect \o <<Read("sendAs")>>
GmailSendAsGet == <<Account, Check, Service, Read("sendAs")>>
GmailSendAsCreate == <<Check, DryRun>> \o Connect \o <<Create("sendAs")>>
GmailSendAsVerify == <<Check, DryRun>> \o Connect \o <<Send("verification")>>
GmailSendAsDelete == <<Check>> \o Confirm \o Connect \o <<Delete("sendAs")>>
GmailSendAsUpdate == <<Check, DryRun>> \o Connect \o <<Read("sendAs"), Replace("sendAs")>>

GmailVacationGet == Connect \o <<Read("vacation")>>
GmailVacationUpdate ==
  <<Check, DryRun>> \o Connect \o <<Read("vacation"), Check, Replace("vacation")>>

GmailWatchStart == <<Check, DryRun>> \o Connect \o Opt(<<Read("label")>>)
                     \o <<Update("watch"), Check, Store("watchState")>>
GmailWatchStatus == <<Account, Check>>
GmailWatchRenew == <<Account, Check, DryRun, Service, Update("watch"), Check, Store("watchState")>>
\* The file may stay behind: os.Remove's error is dropped.
GmailWatchStop == Confirm \o Connect \o <<Delete("watch")>> \o Tolerated(Erase("watchState"))
\* ListenAndServe returns only with an error.
GmailWatchServe == <<Account, Check>> \o Opt(<<Store("watchState")>>) \o <<Check, Killed, Fail>>

---------------------------------------------------------------------------
(* Open tracking.                                                          *)

\* tracking.SaveSecrets.
SaveSecrets == <<Check, Store("trackingKey"), Store("adminKey")>>

\* tracking.DeployWorker, which calls wrangler; ensureD1Database: a database
\* that is there already is as good.
DeployWorker == <<Check>> \o Either(<<Create("database")>>, <<Read("database")>>)
                  \o <<Check, Update("schema"), Update("workerKey"), Update("workerAdminKey"),
                       Check, Create("worker")>>

\* The keys are stored before the worker is deployed and the configuration saved.
GmailTrackSetup == <<Check, Account, Check>> \o Opt(<<Prompt>>) \o <<Check, DryRun>>
                     \o SaveSecrets \o Opt(DeployWorker) \o <<Store("trackingConfig")>>
GmailTrackOpens == <<Account, Check, Read("opens"), Check>>
GmailTrackStatus == <<Account, Check>>

---------------------------------------------------------------------------
GmailCommandSet ==
  {Command("gmail search", GmailSearch), Command("gmail messages search", GmailMessagesSearch),
   Command("gmail get", GmailGet), Command("gmail attachment", GmailAttachment),
   Command("gmail thread get", GmailThreadGet), Command("gmail thread modify", GmailThreadModify),
   Command("gmail thread attachments", GmailThreadAttachments), Command("gmail url", GmailURL),
   Command("gmail history", GmailHistory), Command("gmail labels list", GmailLabelsList),
   Command("gmail labels get", GmailLabelsGet), Command("gmail labels create", GmailLabelsCreate),
   Command("gmail labels rename", GmailLabelsRename), Command("gmail labels style", GmailLabelsStyle),
   Command("gmail labels delete", GmailLabelsDelete), Command("gmail labels modify", GmailLabelsModify),
   Command("gmail messages modify", GmailMessagesModify), Command("gmail archive", BulkLabelOp),
   Command("gmail trash", BulkLabelOp), Command("gmail mark-read", BulkLabelOp),
   Command("gmail unread", BulkLabelOp), Command("gmail batch delete", GmailBatchDelete),
   Command("gmail batch modify", GmailBatchModify), Command("gmail send", GmailSend),
   Command("send", GmailSend), Command("gmail forward", GmailForward),
   Command("gmail autoreply", GmailAutoReply), Command("gmail drafts list", GmailDraftsList),
   Command("gmail drafts get", GmailDraftsGet), Command("gmail drafts delete", GmailDraftsDelete),
   Command("gmail drafts send", GmailDraftsSend), Command("gmail drafts create", GmailDraftsCreate),
   Command("gmail drafts update", GmailDraftsUpdate),
   Command("gmail autoforward get", GmailAutoForwardGet),
   Command("gmail autoforward update", GmailAutoForwardUpdate),
   Command("gmail delegates list", GmailDelegatesList), Command("gmail delegates get", GmailDelegatesGet),
   Command("gmail delegates add", GmailDelegatesAdd),
   Command("gmail delegates remove", GmailDelegatesRemove),
   Command("gmail filters list", GmailFiltersList), Command("gmail filters get", GmailFiltersGet),
   Command("gmail filters create", GmailFiltersCreate),
   Command("gmail filters delete", GmailFiltersDelete),
   Command("gmail filters export", GmailFiltersExport),
   Command("gmail forwarding list", GmailForwardingList),
   Command("gmail forwarding get", GmailForwardingGet),
   Command("gmail forwarding create", GmailForwardingCreate),
   Command("gmail forwarding delete", GmailForwardingDelete),
   Command("gmail sendas list", GmailSendAsList), Command("gmail sendas get", GmailSendAsGet),
   Command("gmail sendas create", GmailSendAsCreate), Command("gmail sendas verify", GmailSendAsVerify),
   Command("gmail sendas delete", GmailSendAsDelete), Command("gmail sendas update", GmailSendAsUpdate),
   Command("gmail vacation get", GmailVacationGet), Command("gmail vacation update", GmailVacationUpdate),
   Command("gmail watch start", GmailWatchStart), Command("gmail watch status", GmailWatchStatus),
   Command("gmail watch renew", GmailWatchRenew), Command("gmail watch stop", GmailWatchStop),
   Command("gmail watch serve", GmailWatchServe), Command("gmail track setup", GmailTrackSetup),
   Command("gmail track opens", GmailTrackOpens), Command("gmail track status", GmailTrackStatus)}
=============================================================================
