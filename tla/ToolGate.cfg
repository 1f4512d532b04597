SPECIFICATION FairSpec
CONSTANTS
  Turns = {t1, t2}
  MaxCalls = 2
  Permissions <- AllPermissions
  Capable = TRUE
  NoCall = NoCall
INVARIANTS RunsApproved KeySendNeverBlocks PromptIsLive
PROPERTY RequestShown
CHECK_DEADLOCK FALSE
