\* Every command with every combination of flags.
SPECIFICATION FairSpec
CONSTANTS
  Commands <- AllCommands
  SendCommands <- SendPaths
  Exempt <- Exemptions
  Shared = {"document", "event", "series", "contact", "label", "draft", "sendAs", "vacation", "autoForwarding", "presentation", "form", "video"}
  MaxTurns = 1
CHECK_DEADLOCK FALSE
INVARIANTS TypeOK DryRunChangesNothing NothingGraveUnasked RefusalLeavesNothing
INVARIANTS NoSendHolds FailureReported NothingLeftBehind OthersEditsKept
PROPERTY EndsWithoutInput
