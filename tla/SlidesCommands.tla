---------------------------- MODULE SlidesCommands ----------------------------
(* The commands of `slides` (internal/cmd/slides*.go) and of `forms`         *)
(* (internal/cmd/forms*.go).                                                 *)
EXTENDS DriveCommands

---------------------------------------------------------------------------
(* Presentations.                                                          *)

\* infoViaDrive.
InfoViaDrive == <<Account, Check, Service, Read("file"), Check>>
SlidesListSlides == ShowsLate("presentation")
SlidesReadSlide == ShowsLate("presentation") \o <<Check>>
SlidesThumbnail == <<Account, Check, Service, Read("slide"), Check>>
                     \o Opt(<<Read("thumbnail"), Check, Save("file")>>)

SlidesCreate == <<Account, Check, Service, Create("presentation"), Check>>
\* CreatePresentationFromMarkdown: the presentation, then all its slides at once.
PresentationFromMarkdown == <<Check, Create("presentation")>> \o Opt(<<Update("presentation")>>)
SlidesCreateFromMarkdown == <<Account, Check, Service>> \o PresentationFromMarkdown
                              \o Opt(<<Service, Update("file")>>) \o <<Service, Read("file")>>
\* Nothing removes the copy where the replacements fail.
SlidesCreateFromTemplate == <<Account, Check, DryRun, Service, Create("presentation"), Check,
                              Service, Update("presentation")>>

---------------------------------------------------------------------------
(* Slides.  A picture goes through a file of the user's that anybody can     *)
(* read until the command returns.                                           *)

LendPicture == <<Check, Lend("image"), Defer("image"), Expose("image")>>
                 \o Opt(<<Read("image")>>) \o <<Check>>

SlidesAddSlide ==
  <<Check, Account, Check, Service, Service>> \o LendPicture \o <<Read("presentation"), Check>>
    \o Either(<<Update("presentation")>>, <<Replace("presentation")>>)  \* --before: at its index
    \o Opt(<<Read("presentation"), Check, Update("notes")>>)
SlidesReplaceSlide ==
  <<Check, Account, Check, Service, Service, Read("presentation"), Check>> \o LendPicture
    \o <<Check, Update("presentation")>>
SlidesUpdateNotes == <<Check, Account, Check, Service, Read("presentation"), Check, Update("notes")>>
SlidesDeleteSlide == <<Account, Check, Service, Delete("slide")>>

---------------------------------------------------------------------------
(* Forms.                                                                  *)

FormsGet == ShowsLate("form")
FormsCreate == MakesLate(Create("form"))
FormsResponsesList == ShowsLate("response")
FormsResponseGet == ShowsLate("response")
\* At an index of the user's, or after the last question there was.
FormsAddQuestion == <<Account, Check, DryRun, Service>>
                      \o Either(<<Update("form")>>, <<Read("form"), Replace("form")>>)
\* The index is checked before the user is asked.
FormsDeleteQuestion == <<Account, Check, Service, Read("form"), Check>> \o Confirm
                         \o <<Delete("question")>>
FormsMoveQuestion == MakesLate(Update("form"))
FormsUpdate == <<Account, Check, DryRun, Service, Check, Update("form")>>
FormsWatchCreate == MakesLate(Create("formWatch"))
FormsWatchList == ShowsLate("formWatch")
FormsWatchRenew == MakesLate(Update("formWatch"))
FormsWatchDelete == MakesLate(Delete("formWatch"))

---------------------------------------------------------------------------
SlidesCommandSet ==
  {Command("slides export", ExportViaDrive), Command("slides copy", CopyViaDrive),
   Command("slides info", InfoViaDrive), Command("slides list-slides", SlidesListSlides),
   Command("slides read-slide", SlidesReadSlide), Command("slides thumbnail", SlidesThumbnail),
   Command("slides create", SlidesCreate),
   Command("slides create-from-markdown", SlidesCreateFromMarkdown),
   Command("slides create-from-template", SlidesCreateFromTemplate),
   Command("slides add-slide", SlidesAddSlide),
   Command("slides replace-slide", SlidesReplaceSlide),
   Command("slides update-notes", SlidesUpdateNotes),
   Command("slides delete-slide", SlidesDeleteSlide),
   Command("forms get", FormsGet), Command("forms create", FormsCreate),
   Command("forms responses list", FormsResponsesList),
   Command("forms responses get", FormsResponseGet),
   Command("forms add-question", FormsAddQuestion),
   Command("forms delete-question", FormsDeleteQuestion),
   Command("forms move-question", FormsMoveQuestion), Command("forms update", FormsUpdate),
   Command("forms watch create", FormsWatchCreate), Command("forms watch list", FormsWatchList),
   Command("forms watch renew", FormsWatchRenew), Command("forms watch delete", FormsWatchDelete)}
=============================================================================
