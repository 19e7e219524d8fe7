----------------------------- MODULE SedCommands -----------------------------
(* `docs sed` (internal/cmd/docs_sed*.go) and `docs clear`, which runs it.   *)
(* An expression is a substitution, a deletion, an insertion or a            *)
(* transliteration; what it is about decides how it is carried out.  Nearly  *)
(* all of it goes to positions of the document that was read, in one batch   *)
(* of requests or in several, and no batch names the revision.               *)
EXTENDS CommandSteps

\* fetchDoc; fetchAndBuildMap and resolveAddress.
FetchDoc == <<Service, Read("document")>>
FetchMap == FetchDoc \o <<Check>>

\* The edits, if there is anything to edit.
EditThere == Opt(<<Replace("document")>>)

---------------------------------------------------------------------------
(* Lines.                                                                  *)

RunDeleteCommand == FetchDoc \o <<Check>> \o EditThere
RunInsertAroundMatch == FetchDoc \o <<Check>> \o EditThere
RunTransliterate == FetchDoc \o <<Update("document")>>

RunAddressedDelete == FetchMap \o EditThere
RunAddressedAppend == FetchMap \o <<Replace("document")>>
RunAddressedInsert == FetchMap \o <<Replace("document")>>
RunAddressedSubstitute == FetchMap \o <<Check>> \o EditThere
RunAddressed == OneOf(<<RunAddressedDelete, RunAddressedAppend, RunAddressedInsert,
                        RunAddressedSubstitute>>)

---------------------------------------------------------------------------
(* Tables.                                                                 *)

RunTableOp == FetchDoc \o <<Check, Replace("document")>>
RunTableMerge == FetchDoc \o <<Check, Replace("document")>>
RunTableRowColOp == FetchDoc \o <<Check, Replace("document")>>
RunTableWildcardReplace == <<Check>> \o EditThere
RunTableCellReplace ==
  Either(RunTableRowColOp,
         FetchDoc \o Either(RunTableWildcardReplace, <<Check>> \o EditThere))
RunBatchCellReplace == FetchDoc \o <<Check>> \o EditThere

\* The table is looked for near the place where it was put; it may not be found.
FillTableCells == <<Read("document")>> \o EditThere
RunTableCreate == <<Check>> \o FetchDoc \o Opt(<<Replace("document")>> \o Opt(FillTableCells))

---------------------------------------------------------------------------
(* Text and pictures.                                                      *)

DoPositionalInsert == <<Replace("document")>> \o Opt(FillTableCells)
\* The beginning and the end of the document; an empty one; all of its text.
RunPositionalInsert == FetchDoc \o Opt(Either(<<Replace("document")>>, DoPositionalInsert))

RunImageReplace == FetchDoc \o EditThere
RunNative == <<Service, Update("document")>>

ProcessFootnotes == Each(<<Replace("document")>> \o Opt(<<Update("document")>>))
ApplyBreakPhase == <<Read("document"), Replace("document")>>

\* The matched text and the picture in its place: two calls.
ReplaceByImage == <<Replace("document"), Replace("document")>>
RunManualInner ==
  <<Check, Read("document")>>
    \o Opt(Each(ReplaceByImage) \o EditThere \o EditThere \o ProcessFootnotes
             \o Opt(ApplyBreakPhase) \o Opt(<<Read("document")>> \o EditThere))

\* One group of paragraphs, then the document is read again.
ApplyDeferredBullets ==
  <<Read("document")>> \o Opt(Each(<<Replace("document"), Read("document")>>) \o EditThere)
RunManual == <<Service>> \o RunManualInner \o Opt(ApplyDeferredBullets)

---------------------------------------------------------------------------
(* One expression, or several of them.                                     *)

RunSingle == OneOf(<<RunAddressed, RunDeleteCommand, RunInsertAroundMatch, RunTransliterate,
                     RunTableOp, RunPositionalInsert, RunTableMerge, RunTableCellReplace,
                     RunTableCreate, RunImageReplace, RunNative, RunManual>>)

ProcessCellExprs == Each(OneOf(<<RunTableMerge, RunTableCellReplace, RunTableOp,
                                 RunBatchCellReplace>>))

\* A picture is tried twice.  If the text is gone by then, and the picture not
\* there, the second attempt finds nothing to do.
RunImageTwice == LET image == FetchDoc \o Opt(ReplaceByImage) IN Try(image, image)

RunBatch ==
  <<Service>> \o Each(RunPositionalInsert) \o Each(RunAddressed) \o Opt(<<Update("document")>>)
    \o Opt(Each(OneOf(<<RunDeleteCommand, RunInsertAroundMatch, RunTransliterate, RunImageReplace,
                        RunManualInner>>))
             \o ApplyDeferredBullets)
    \o Each(RunTableCreate) \o ProcessCellExprs \o Each(RunImageTwice)

Sed(steps) == <<Check, DryRun, Account>> \o steps
DocsSed == Sed(RunSingle)
DocsSedSeveral == Sed(RunBatch)
DocsClear == <<Check>> \o Sed(RunPositionalInsert)

---------------------------------------------------------------------------
SedCommandSet ==
  {Command("docs sed", DocsSed), Command("docs sed, several expressions", DocsSedSeveral),
   Command("docs clear", DocsClear)}
=============================================================================
