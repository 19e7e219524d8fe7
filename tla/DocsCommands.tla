----------------------------- MODULE DocsCommands -----------------------------
(* The commands of `docs` (internal/cmd/docs*.go); `sed` and `clear` are in  *)
(* SedCommands.                                                              *)
EXTENDS DriveCommands

---------------------------------------------------------------------------
(* Pictures and tables.                                                    *)

\* uploadLocalImage: anybody can read the copy, so that Docs can; it is removed
\* if the rest fails.
UploadLocalImage(image) ==
  <<Check, Lend(image)>>
    \o Try(<<Expose("image"), Read("image"), Check>>, Tolerated(TakeBack(image)) \o <<Fail>>)

\* insertImagesIntoDocs, for two local pictures: the copies are removed when it
\* returns, once all are there.
InsertImages ==
  <<Read("document")>>
    \o Opt(Opt(<<Service, Check>> \o UploadLocalImage("image1")
                 \o Opt(<<Check>> \o UploadLocalImage("image2"))
                 \o <<Defer("image1"), Defer("image2")>>)
             \o <<Replace("document")>>)

\* InsertNativeTable: the table, then the cells one by one.
InsertNativeTable == <<Replace("document"), Read("document"), Check>> \o Each(<<Replace("document")>>)

\* cleanupDocsImagePlaceholders.
CleanPlaceholders == Tolerated(Update("document"))

\* replaceDocsMarkdownRange: only its first request names the revision.
ReplaceMarkdownRange ==
  <<Guarded("document")>> \o Opt(InsertNativeTable)
    \o Opt(Try(InsertImages, CleanPlaceholders \o <<Fail>>) \o CleanPlaceholders)

---------------------------------------------------------------------------
(* Documents.                                                              *)

\* loadDocsTargetDocument.
LoadDocument == <<Read("document"), Check>>
Pageless == <<Update("pageStyle")>>

DocsInfo == <<Check>> \o Connect \o LoadDocument
DocsCat == <<Check>> \o Connect \o LoadDocument
DocsListTabs == <<Check>> \o Connect \o LoadDocument
DocsStructure == <<Check>> \o Connect \o LoadDocument
DocsCreate == <<Check, DryRun>> \o Connect \o <<Check, Create("document"), Check>>
                \o Opt(<<Service>> \o Opt(InsertImages)) \o Opt(<<Service>> \o Pageless)

\* The text goes where the document ended when it was read.
DocsWritePlain == Connect \o LoadDocument \o <<Replace("document")>> \o Opt(Pageless)
DocsWriteMarkdown == <<Check>> \o Connect \o <<Update("document")>> \o Opt(Connect \o Pageless)
DocsWrite == <<Check>> \o Either(DocsWritePlain, DocsWriteMarkdown)
DocsUpdate == <<Check>> \o Connect
                \o Either(LoadDocument \o <<Replace("document")>>, <<Update("document")>>)
                \o Opt(Pageless)
DocsInsert == <<Check>> \o Connect \o <<Update("document")>>
DocsDelete == <<Check>> \o Connect \o <<Update("document")>>

\* DocsFindReplaceCmd.Run: all at once, or one match after the other.
FindReplacePlain == <<Check, Account>> \o Connect
                      \o Either(<<Update("document")>>,
                                LoadDocument \o <<MayStop, Guarded("document")>>)
FindReplaceMarkdown == <<Check, Account>> \o Connect \o LoadDocument
                         \o Opt(ReplaceMarkdownRange \o Each(LoadDocument \o ReplaceMarkdownRange))

---------------------------------------------------------------------------
(* Comments, of the file.                                                  *)

DocsCommentsList == <<Check>> \o Connect \o <<Read("comment")>>
DocsCommentsGet == <<Check>> \o Connect \o <<Read("comment")>>
DocsCommentsAdd == <<Check, DryRun>> \o Connect \o <<Create("comment")>>
DocsCommentsReply == <<Check, DryRun>> \o Connect \o <<Create("comment")>>
DocsCommentsResolve == <<Check, DryRun>> \o Connect \o <<Create("comment")>>
DocsCommentsDelete == <<Check>> \o Confirm \o Connect \o <<Delete("comment")>>

---------------------------------------------------------------------------
DocsCommandSet ==
  {Command("docs export", ExportViaDrive), Command("docs copy", CopyViaDrive),
   Command("docs info", DocsInfo), Command("docs cat", DocsCat),
   Command("docs list-tabs", DocsListTabs), Command("docs structure", DocsStructure),
   Command("docs create", DocsCreate), Command("docs write", DocsWrite),
   Command("docs update", DocsUpdate), Command("docs insert", DocsInsert),
   Command("docs delete", DocsDelete), Command("docs edit", FindReplacePlain),
   Command("docs find-replace", FindReplacePlain),
   Command("docs find-replace --format=markdown", FindReplaceMarkdown),
   Command("docs comments list", DocsCommentsList), Command("docs comments get", DocsCommentsGet),
   Command("docs comments add", DocsCommentsAdd),
   Command("docs comments reply", DocsCommentsReply),
   Command("docs comments resolve", DocsCommentsResolve),
   Command("docs comments delete", DocsCommentsDelete)}
=============================================================================
