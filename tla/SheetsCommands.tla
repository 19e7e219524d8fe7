---------------------------- MODULE SheetsCommands ----------------------------
(* The commands of `sheets` (internal/cmd/sheets*.go).                       *)
EXTENDS DriveCommands

---------------------------------------------------------------------------
(* Cells.                                                                  *)

SheetsGet == <<Account, Check, Service, Read("spreadsheet")>>
SheetsMetadata == <<Account, Check, Service, Read("spreadsheet")>>
SheetsLinks == Shows("spreadsheet") \o <<Check>>
SheetsNotes == Shows("spreadsheet") \o <<Check>>
SheetsReadFormat == <<Account, Check, Service, Read("spreadsheet"), Check>>

\* copyDataValidation: onto cells that are written already.
CopyDataValidation == <<Check, Read("spreadsheet"), Check, Update("validation")>>
SheetsUpdate == Makes(Update("spreadsheet")) \o Opt(CopyDataValidation)
SheetsAppend == Makes(Create("row")) \o Opt(CopyDataValidation)
SheetsClear == Makes(Update("spreadsheet"))
\* Into a folder with --parent: where that fails it says so, and succeeds.
SheetsCreate == Makes(Create("spreadsheet"))
                  \o Opt(Try(<<Service, Read("file"), Update("file")>>, <<>>))

\* What names a tab or a range is resolved to ids first: fetchSpreadsheetRangeCatalog.
OnResolved(steps) == <<Check, DryRun>> \o Connect \o <<Read("spreadsheet"), Check>> \o steps
\* runSheetsMutation.
RunSheetsMutation == OnResolved(<<Update("spreadsheet")>>)
SheetsFormat == OnResolved(<<Update("spreadsheet")>>)
SheetsInsert == OnResolved(<<Update("spreadsheet")>>)
SheetsUpdateNote == OnResolved(<<Update("note")>>)
SheetsFindReplace == <<Check, DryRun>> \o Connect \o Opt(<<Read("spreadsheet"), Check>>)
                       \o <<Update("spreadsheet")>>

---------------------------------------------------------------------------
(* Tabs, charts and named ranges.                                          *)

SheetsAddTab == Makes(Create("tab"))
SheetsRenameTab == OnResolved(<<Update("tab")>>)
\* What the name stands for is looked up before the question is put.
SheetsDeleteTab == <<Check>> \o Connect \o <<Read("spreadsheet"), Check>>
                     \o Confirm \o <<Delete("tab")>>

SheetsChartList == <<Account, Check, Service, Read("chart"), Check>>
SheetsChartGet == <<Account, Check, Service, Read("chart"), Check>>
SheetsChartCreate == <<Check, DryRun>> \o Connect \o Opt(<<Read("spreadsheet"), Check>>)
                       \o <<Check, Create("chart")>>
SheetsChartUpdate == OnResolved(<<Update("chart")>>)
SheetsChartDelete == Removes("chart")

SheetsNamedRangesList == <<Account, Check, Service, Read("spreadsheet")>>
SheetsNamedRangesGet == <<Account, Check, Service, Read("spreadsheet"), Check>>
\* These three check, then plan, then look the name up.
OnNamedRange(steps) == <<Account, Check, DryRun, Service, Read("spreadsheet"), Check>> \o steps
SheetsNamedRangesAdd == OnNamedRange(<<Create("namedRange")>>)
SheetsNamedRangesUpdate == OnNamedRange(<<Update("namedRange"), Read("spreadsheet"), Check>>)
\* Nobody is asked.
SheetsNamedRangesDelete == OnNamedRange(<<Delete("namedRange")>>)

---------------------------------------------------------------------------
SheetsCommandSet ==
  {Command("sheets export", ExportViaDrive), Command("sheets copy", CopyViaDrive),
   Command("sheets get", SheetsGet), Command("sheets metadata", SheetsMetadata),
   Command("sheets links", SheetsLinks), Command("sheets notes", SheetsNotes),
   Command("sheets read-format", SheetsReadFormat), Command("sheets update", SheetsUpdate),
   Command("sheets append", SheetsAppend), Command("sheets clear", SheetsClear),
   Command("sheets create", SheetsCreate), Command("sheets format", SheetsFormat),
   Command("sheets insert", SheetsInsert), Command("sheets update-note", SheetsUpdateNote),
   Command("sheets find-replace", SheetsFindReplace), Command("sheets add-tab", SheetsAddTab),
   Command("sheets rename-tab", SheetsRenameTab), Command("sheets delete-tab", SheetsDeleteTab),
   Command("sheets chart list", SheetsChartList), Command("sheets chart get", SheetsChartGet),
   Command("sheets chart create", SheetsChartCreate),
   Command("sheets chart update", SheetsChartUpdate),
   Command("sheets chart delete", SheetsChartDelete),
   Command("sheets named-ranges list", SheetsNamedRangesList),
   Command("sheets named-ranges get", SheetsNamedRangesGet),
   Command("sheets named-ranges add", SheetsNamedRangesAdd),
   Command("sheets named-ranges update", SheetsNamedRangesUpdate),
   Command("sheets named-ranges delete", SheetsNamedRangesDelete)}
   \cup {Command("sheets " \o change, RunSheetsMutation) :
           change \in {"merge", "unmerge", "number-format", "freeze",
                       "resize-columns", "resize-rows"}}
=============================================================================
