\* Two processes that may run at once or one after the other, two sessions, one
\* of an older version; the second message is too long for the archive; one fault.
\* No message has an image attached: SessionImage.cfg has those.
SPECIFICATION Spec
CONSTANTS
  Procs = {p1, p2}
  IDs = {i1, i2}
  Huge = {2}
  Images = {}
  KeepRecent = 1
  Retention = TRUE
  MaxMessages = 2
  MaxLines = 2
  MaxStarts = 2
  MaxFaults = 1
  Gone = Gone
  None = None
  Partial = Partial
SYMMETRY ProcSymmetry
INVARIANTS FilesAreWhole StaysSearchable SeqIncreases RetentionCovers
CHECK_DEADLOCK FALSE
