--------------------------- MODULE ProviderStream ---------------------------
(***************************************************************************)
(* One streaming request to a model provider: the goroutine started by     *)
(* streamChatRaw (internal/llm/client.go) or by its Anthropic and Bedrock  *)
(* adapters (anthropic.go, bedrock.go), its event channel ch, its one-slot *)
(* result channel resCh, and the idle watchdog of idle.go.  The reader of  *)
(* both channels is a loop that starts such a request per round: ToolLoop  *)
(* or PlainChat.                                                           *)
(*                                                                         *)
(* Abstracted: SSE framing and JSON (a frame is a token, a tool call, a    *)
(* finish reason or usage), HTTP headers, message contents; a thinking     *)
(* token is a token.  A request that reports usage reports one unit, in    *)
(* some frame of its response.                                             *)
(***************************************************************************)
EXTENDS Naturals, Sequences

CONSTANTS
  Adapters,   \* the provider adapters a call may use
  Cap,        \* capacity of the event channels (64 in the code)
  MaxTokens,  \* bound: tokens one response carries
  Calls,      \* tool calls, identified by their toolCallKey
  MaxCalls    \* bound: tool calls one response carries

ASSUME AdapterAssumption ==
  /\ Adapters # {}
  /\ Adapters \subseteq {"openai", "anthropic", "bedrock"}
ASSUME CapAssumption == Cap \in Nat \ {0}
ASSUME BoundsAssumption == MaxTokens \in Nat /\ MaxCalls \in Nat

VARIABLES
  adapter,  \* ep.Provider, fixed for the call
  rpc,      \* where the streaming goroutine is
  rtools,   \* the request carries tool definitions
  ch,       \* the event channel: tokens and errors not yet received
  result,   \* what resCh holds: NoResult (closed empty) or a Result
  tokens,   \* tokens produced by this response (bounded by MaxTokens)
  metered,  \* usage that the frames of this response have reported
  stalled,  \* the idle watchdog has fired and cancelled the request context
  ctxDone,  \* the caller's context is cancelled (timeout, signal, reset)
  billed    \* history: usage the provider reported over all requests

reqVars == <<rpc, rtools, ch, result, tokens, metered, stalled>>
streamVars == <<adapter, reqVars, ctxDone, billed>>

RawStates == {"off", "connect", "read", "send", "fail", "failNoSelect",
              "closed"}
ErrorKinds == {"toolsUnsupported", "other"}
RawEvents == {"token"} \cup ErrorKinds
FinishReasons == {"stop", "length"}
CallSeqs == UNION {[1..n -> Calls] : n \in 0..MaxCalls}
Results == [calls : CallSeqs, finish : FinishReasons, usage : {0, 1}]
NoResult == [calls |-> <<>>, finish |-> "none", usage |-> 0]

StreamInit ==
  /\ adapter \in Adapters
  /\ rpc = "off"
  /\ rtools = FALSE
  /\ ch = <<>>
  /\ result = NoResult
  /\ tokens = 0
  /\ metered = 0
  /\ stalled = FALSE
  /\ ctxDone = FALSE
  /\ billed = 0

\* streamChatRaw(ctx, ..., tools): new channels, new goroutine.
StartRequest(withTools) ==
  /\ rpc' = "connect"
  /\ rtools' = withTools
  /\ ch' = <<>>
  /\ result' = NoResult
  /\ tokens' = 0
  /\ metered' = 0
  /\ stalled' = FALSE

-----------------------------------------------------------------------------
\* client.Do fails, the status is not 200, or the context was already done:
\* the error is sent without a select (the channel is still empty).
ConnectFails ==
  /\ rpc = "connect"
  /\ Len(ch) < Cap
  /\ \E k \in ErrorKinds :
       /\ k = "toolsUnsupported" => rtools
       /\ ch' = Append(ch, k)
  /\ rpc' = "closed"
  /\ UNCHANGED <<adapter, rtools, result, tokens, metered, stalled, ctxDone, billed>>

\* Status 200: the idle watchdog is armed and the body is scanned.
HeadersArrive ==
  /\ rpc = "connect"
  /\ rpc' = "read"
  /\ UNCHANGED <<adapter, rtools, ch, result, tokens, metered, stalled, ctxDone, billed>>

\* A content delta is read; the goroutine is now at the select that sends it.
TokenArrives ==
  /\ rpc = "read"
  /\ tokens < MaxTokens
  /\ tokens' = tokens + 1
  /\ rpc' = "send"
  /\ UNCHANGED <<adapter, rtools, ch, result, metered, stalled, ctxDone, billed>>

\* A usage frame (chunk.Usage, message_start and message_delta, the metadata of
\* Bedrock): the tokens are spent, whatever becomes of the response.
UsageArrives ==
  /\ rpc = "read"
  /\ metered = 0
  /\ metered' = 1 /\ billed' = billed + 1
  /\ UNCHANGED <<adapter, rpc, rtools, ch, result, tokens, stalled, ctxDone>>

SendToken ==
  /\ rpc = "send"
  /\ \/ /\ Len(ch) < Cap
        /\ ch' = Append(ch, "token")
        /\ rpc' = "read"
     \/ /\ ctxDone
        /\ rpc' = "closed"
        /\ UNCHANGED ch
  /\ UNCHANGED <<adapter, rtools, result, tokens, metered, stalled, ctxDone, billed>>

WatchdogFires_StoppedByFirstTick ==
  /\ rpc \in {"read", "send"}
  /\ ~stalled
  /\ tokens = 0
  /\ stalled' = TRUE
  /\ UNCHANGED <<adapter, rpc, rtools, ch, result, tokens, metered, ctxDone, billed>>

\* idleWatchdog fires: it cancels the request's own context, which ends a
\* pending read but not a pending send.
WatchdogFires ==
  /\ rpc \in {"read", "send"}
  /\ ~stalled
  /\ stalled' = TRUE
  /\ UNCHANGED <<adapter, rpc, rtools, ch, result, tokens, metered, ctxDone, billed>>

\* The read ends in an error, the network's or the cancellation of the
\* request context: the goroutine is now at the send of its error event, a
\* select except in the Bedrock adapter.
ReadFails ==
  /\ rpc = "read"
  /\ rpc' = IF adapter = "bedrock" THEN "failNoSelect" ELSE "fail"
  /\ UNCHANGED <<adapter, rtools, ch, result, tokens, metered, stalled, ctxDone, billed>>

\* An "error" frame of an Anthropic stream is not sent by a select either.
ErrorFrame ==
  /\ adapter = "anthropic"
  /\ rpc = "read"
  /\ rpc' = "failNoSelect"
  /\ UNCHANGED <<adapter, rtools, ch, result, tokens, metered, stalled, ctxDone, billed>>

ReportFailure ==
  /\ \/ /\ rpc \in {"fail", "failNoSelect"}
        /\ Len(ch) < Cap
        /\ ch' = Append(ch, "other")
     \/ /\ rpc = "fail" /\ ctxDone
        /\ UNCHANGED ch
  /\ rpc' = "closed"
  /\ UNCHANGED <<adapter, rtools, result, tokens, metered, stalled, ctxDone, billed>>

\* [DONE] or end of body: the accumulated tool calls go to resCh.  The
\* adapters range over a Go map, so the calls may come in any order.  The usage
\* goes with them: every other way out of a response leaves it behind.
ResponseEnds ==
  /\ rpc = "read"
  /\ result' \in Results /\ result'.usage = metered
  /\ rpc' = "closed"
  /\ UNCHANGED <<adapter, rtools, ch, tokens, metered, stalled, ctxDone, billed>>

StreamNext ==
  \/ ConnectFails \/ HeadersArrive \/ TokenArrives \/ UsageArrives \/ SendToken
  \/ WatchdogFires \/ ReadFails \/ ErrorFrame \/ ReportFailure \/ ResponseEnds

StreamTypeOK ==
  /\ adapter \in Adapters
  /\ rpc \in RawStates
  /\ rtools \in BOOLEAN
  /\ ch \in Seq(RawEvents)
  /\ result \in Results \cup {NoResult}
  /\ tokens \in 0..MaxTokens
  /\ metered \in {0, 1}
  /\ stalled \in BOOLEAN
  /\ ctxDone \in BOOLEAN
  /\ billed \in Nat
=============================================================================
