\* As Sessions.cfg: the first message has an image attached.
SPECIFICATION Spec
CONSTANTS
  Procs = {p1, p2}
  IDs = {i1, i2}
  Huge = {2}
  Images = {1}
  KeepRecent = 1
  Retention = TRUE
  MaxMessages = 2
  MaxLines = 2
  MaxStarts = 2
  MaxFaults = 1
  Gone = Gone
  None = None
  Partial = Partial
INVARIANT SavedCanResume
CHECK_DEADLOCK FALSE
