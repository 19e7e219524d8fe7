\* Two processes at a time, two states, two consents.
SPECIFICATION FairSpec
CONSTANTS
  p1 = p1
  p2 = p2
  ann = ann
  bob = bob
  mail = mail
  drive = drive
  NoToken = NoToken
  NoFlow = NoFlow
  Runs = {p1, p2}
  Accounts = {ann, bob}
  Asks = {mail, drive}
  Flows <- SomeFlows
  MaxStates = 2
  MaxCodes = 2
  Cut = {1}
CHECK_DEADLOCK FALSE
INVARIANTS TypeOK PrintedIsRedeemable
PROPERTIES StoresConsents EveryRunEnds
