SPECIFICATION FairSpec
CONSTANTS
  Streams = {s1, s2, s3, s4, s5, s6}
  NoStream = NoStream
  Pipeline = Pipeline
  Commands <- SlowCommands
  MaxCommands = 2
  MaxGaps = 1
  Suggestions = {}
  KeepTail = 2
  Resumed <- Short
CHECK_DEADLOCK FALSE
PROPERTY PromptReturns
