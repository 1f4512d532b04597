SPECIFICATION Spec
CONSTANTS
  Streams = {s1, s2, s3, s4, s5, s6}
  NoStream = NoStream
  Pipeline = Pipeline
  Commands <- CommitCommands
  MaxCommands = 2
  MaxGaps = 0
  Suggestions = {}
  KeepTail = 2
  Resumed <- Old
CHECK_DEADLOCK FALSE
PROPERTY CommitIsAnswer
