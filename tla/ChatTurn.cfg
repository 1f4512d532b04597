SPECIFICATION Spec
CONSTANTS
  Streams = {s1, s2, s3, s4, s5, s6}
  NoStream = NoStream
  Pipeline = Pipeline
  Commands <- AllCommands
  MaxCommands = 2
  MaxGaps = 0
  Suggestions <- AllSuggestions
  KeepTail = 2
  Resumed <- Old
CHECK_DEADLOCK FALSE
INVARIANTS SingleListener Cancellable ConversationIsSound
PROPERTIES KeepsMessages CommitIsOwn
