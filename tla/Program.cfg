SPECIFICATION Spec
CONSTANTS
  None = None
  NoChat = NoChat
  NoModel = NoModel
  NoList = NoList
  Works <- Edits
  BesideStarts <- Resume
  MaxCalls = 2
  Heights = {16, 22}
  Shelves <- AllShelves
  SavedSessions = 2
  MaxOpens = 2
CHECK_DEADLOCK FALSE
INVARIANTS SuccessIsReal PayloadMatches ScreensAgree
