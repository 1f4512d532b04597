\* One-slot channels.  The agent loop: responses of two tokens, two rounds and
\* a tool that may be called twice in each of them, so that every sender can
\* find its channel full and a call can be repeated within a round and across
\* rounds.  The plain call: three tokens per response and one continuation, so
\* that a truncated answer is continued and given up on; the provider may return
\* a tool call nobody asked for.
SPECIFICATION LoopsSpec
CONSTANTS
  Adapters = {"openai", "anthropic", "bedrock"}
  Cap = 1
  MaxTokens = 2
  PlainTokens = 3
  Calls = {c1}
  MaxCalls = 2
  MaxRounds = 2
  MaxContinuations = 1
  NoCall = NoCall
INVARIANTS
  DoneNeverBlocked
  RunsOnce
  UsageIsTotal
  ResultsAreReal
  StallIsReported
PROPERTIES
  ImplementsEventStream
  CallEnds
CHECK_DEADLOCK FALSE
