SPECIFICATION Spec
CONSTANTS
  Turns = {t1, t2}
  MaxCalls = 2
  Permissions <- AllPermissions
  Capable = TRUE
  NoCall = NoCall
INVARIANT ReadOnlyRunsNothing
CHECK_DEADLOCK FALSE
