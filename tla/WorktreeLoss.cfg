SPECIFICATION Spec
CONSTANTS
  None = None
  NoChat = NoChat
  NoModel = NoModel
  NoList = NoList
  Works <- AllWork
  BesideStarts <- Resume
  MaxCalls = 2
  Heights = {0}
  Shelves <- NoShelves
  SavedSessions = 6
  MaxOpens = 0
CHECK_DEADLOCK FALSE
INVARIANTS LosesNoWork
