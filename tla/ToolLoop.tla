------------------------------ MODULE ToolLoop ------------------------------
(***************************************************************************)
(* The agent loop: StreamChatWithToolsN (internal/llm/toolloop.go), which  *)
(* every tool-using caller shares (the TUI's startToolStream, print mode,  *)
(* subagents, the bench runner).  One goroutine starts a provider request  *)
(* per round, forwards its events, executes the tool calls of the response *)
(* and feeds the results to the next round.                                *)
(***************************************************************************)
EXTENDS ChatCall

CONSTANT MaxRounds  \* maxRounds, the tool-round limit of the call

ASSUME RoundsAssumption == MaxRounds \in Nat

VARIABLES
  hasTools,   \* len(toolDefs) > 0, fixed for the call
  round,      \* the loop counter
  errKind,    \* the buffered error event of this round, or "none"
  todo,       \* tool calls of this response still to run
  seen,       \* seenToolCalls
  executed    \* history: how many times each call reached the executor

roundVars == <<hasTools, round, errKind, continued>>
toolVars == <<todo, seen, executed>>
loopVars == <<pc, usage, log, roundVars, toolVars>>
vars == <<streamVars, loopVars, callerVars>>

LoopStates == {"round", "forward", "sendError", "disable", "retry", "inspect",
               "replace", "start", "exec", "report", "done", "closed"}

Init ==
  /\ CallInit
  /\ pc = "round"
  /\ hasTools \in BOOLEAN
  /\ round = 0
  /\ errKind = "none"
  /\ todo = <<>>
  /\ seen = {}
  /\ executed = [c \in Calls |-> 0]

-----------------------------------------------------------------------------
(* The loop's goroutine. *)

StartRound ==
  /\ pc = "round"
  /\ round < MaxRounds
  /\ StartRequest(hasTools)
  /\ pc' = "forward"
  /\ errKind' = "none"
  /\ UNCHANGED <<adapter, ctxDone, billed, usage, log, hasTools, round,
                 continued, toolVars, callerVars>>

RoundsExhausted ==
  /\ pc = "round"
  /\ round = MaxRounds
  /\ pc' = "done"
  /\ UNCHANGED <<streamVars, usage, log, roundVars, toolVars, callerVars>>

\* for evt := range evtCh: tokens are forwarded, an error is kept back.
Forward ==
  /\ pc = "forward"
  /\ ch # <<>>
  /\ ch' = Tail(ch)
  /\ IF Head(ch) = "token"
       THEN SendOrQuit(ES!Event("token"), "forward") /\ UNCHANGED errKind
       ELSE errKind' = Head(ch) /\ UNCHANGED <<pc, log>>
  /\ UNCHANGED <<adapter, rpc, rtools, result, tokens, metered, stalled, ctxDone, billed,
                 usage, hasTools, round, continued, toolVars, callerVars>>

StreamClosed_LastRoundUsage ==
  /\ pc = "forward"
  /\ ch = <<>>
  /\ rpc = "closed"
  /\ pc' = IF errKind = "toolsUnsupported" /\ hasTools THEN "disable"
           ELSE IF errKind # "none" THEN "sendError"
           ELSE IF result = NoResult THEN "done"
           ELSE "inspect"
  /\ usage' = IF errKind = "none" THEN result.usage ELSE usage
  /\ UNCHANGED <<streamVars, log, roundVars, toolVars, callerVars>>

\* evtCh is closed and drained: an error ends the call (or, when the model
\* rejected the tools, retries without them); a missing result ends it too.
StreamClosed ==
  /\ pc = "forward"
  /\ ch = <<>>
  /\ rpc = "closed"
  /\ pc' = IF errKind = "toolsUnsupported" /\ hasTools THEN "disable"
           ELSE IF errKind # "none" THEN "sendError"
           ELSE IF result = NoResult THEN "done"
           ELSE "inspect"
  /\ usage' = IF errKind = "none" THEN usage + result.usage ELSE usage
  /\ UNCHANGED <<streamVars, log, roundVars, toolVars, callerVars>>

SendError ==
  /\ pc = "sendError"
  /\ SendOrQuit(ES!Event("error"), "done")
  /\ UNCHANGED <<streamVars, usage, roundVars, toolVars, callerVars>>

DisableTools_SameLoop ==
  /\ pc = "disable"
  /\ SendOrQuit(ES!Event("toolsDisabled"), "forward")
  /\ IF pc' = "forward"
       THEN StartRequest(FALSE) /\ errKind' = "none"
       ELSE UNCHANGED <<reqVars, errKind>>
  /\ UNCHANGED <<adapter, ctxDone, billed, usage, hasTools, round, continued,
                 toolVars, callerVars>>

DisableTools ==
  /\ pc = "disable"
  /\ SendOrQuit(ES!Event("toolsDisabled"), "retry")
  /\ IF pc' = "retry" THEN StartRequest(FALSE) ELSE UNCHANGED reqVars
  /\ UNCHANGED <<adapter, ctxDone, billed, usage, roundVars, toolVars,
                 callerVars>>

\* The plain response of the retry is forwarded whole, errors included.
ForwardRetry ==
  /\ pc = "retry"
  /\ ch # <<>>
  /\ ch' = Tail(ch)
  /\ SendOrQuit(ES!Event(IF Head(ch) = "token" THEN "token" ELSE "error"), "retry")
  /\ UNCHANGED <<adapter, rpc, rtools, result, tokens, metered, stalled, ctxDone, billed,
                 usage, roundVars, toolVars, callerVars>>

RetryClosed_FallsThrough ==
  /\ pc = "retry"
  /\ ch = <<>>
  /\ rpc = "closed"
  /\ usage' = usage + result.usage
  /\ pc' = "sendError"
  /\ UNCHANGED <<streamVars, log, roundVars, toolVars, callerVars>>

RetryClosed ==
  /\ pc = "retry"
  /\ ch = <<>>
  /\ rpc = "closed"
  /\ usage' = usage + result.usage
  /\ pc' = "done"
  /\ UNCHANGED <<streamVars, log, roundVars, toolVars, callerVars>>

-----------------------------------------------------------------------------
(* A complete response: tool calls (native, or written as text), a          *)
(* truncated answer, or the final answer.                                   *)

NativeCalls ==
  /\ pc = "inspect"
  /\ result.calls # <<>>
  /\ todo' = result.calls
  /\ pc' = "start"
  /\ UNCHANGED <<streamVars, usage, log, roundVars, seen, executed, callerVars>>

\* parseTextToolCalls accepts only names of the offered tools.
TextCalls ==
  /\ pc = "inspect"
  /\ result.calls = <<>>
  /\ hasTools /\ tokens > 0
  /\ \E cs \in CallSeqs \ {<<>>} : todo' = cs
  /\ pc' = "replace"
  /\ UNCHANGED <<streamVars, usage, log, roundVars, seen, executed, callerVars>>

SendReplace ==
  /\ pc = "replace"
  /\ SendOrQuit(ES!Event("replace"), "start")
  /\ UNCHANGED <<streamVars, usage, roundVars, toolVars, callerVars>>

\* finish_reason "length": continue in another round.
ContinueAnswer ==
  /\ pc = "inspect"
  /\ result.calls = <<>>
  /\ result.finish = "length"
  /\ continued' = (tokens > 0)
  /\ round' = round + 1
  /\ pc' = "round"
  /\ UNCHANGED <<streamVars, usage, log, hasTools, errKind, toolVars, callerVars>>

\* The final answer, or a continuation that repeats itself (isRepetitive
\* needs text in both rounds).
FinalAnswer ==
  /\ pc = "inspect"
  /\ result.calls = <<>>
  /\ result.finish = "length" => continued /\ tokens > 0
  /\ pc' = "done"
  /\ UNCHANGED <<streamVars, usage, log, roundVars, toolVars, callerVars>>

-----------------------------------------------------------------------------
(* Executing the calls of a response, one at a time.                        *)

StartCall ==
  /\ pc = "start"
  /\ todo # <<>>
  /\ SendOrQuit(ES!CallEvent("start", Head(todo)), "exec")
  /\ UNCHANGED <<streamVars, usage, roundVars, toolVars, callerVars>>

RunCall_SeenOnSuccess ==
  /\ pc = "exec"
  /\ LET c == Head(todo) IN
       IF c \in seen
         THEN UNCHANGED <<seen, executed>>
         ELSE /\ seen' \in {seen, seen \cup {c}}
              /\ executed' = [executed EXCEPT ![c] = @ + 1]
  /\ pc' = "report"
  /\ UNCHANGED <<streamVars, usage, log, roundVars, todo, callerVars>>

RunCall_MarksFirst ==
  /\ pc = "exec"
  /\ seen' = seen \cup {Head(todo)}
  /\ UNCHANGED executed
  /\ pc' = "report"
  /\ UNCHANGED <<streamVars, usage, log, roundVars, todo, callerVars>>

\* A call whose key was seen before is answered without running it.
RunCall ==
  /\ pc = "exec"
  /\ LET c == Head(todo) IN
       IF c \in seen
         THEN UNCHANGED <<seen, executed>>
         ELSE /\ seen' = seen \cup {c}
              /\ executed' = [executed EXCEPT ![c] = @ + 1]
  /\ pc' = "report"
  /\ UNCHANGED <<streamVars, usage, log, roundVars, todo, callerVars>>

ReportCall ==
  /\ pc = "report"
  /\ SendOrQuit(ES!CallEvent("result", Head(todo)), "start")
  /\ todo' = IF pc' = "start" THEN Tail(todo) ELSE todo
  /\ UNCHANGED <<streamVars, usage, roundVars, seen, executed, callerVars>>

\* All calls answered: their results go to the model in the next round.
RoundEnds ==
  /\ pc = "start"
  /\ todo = <<>>
  /\ round' = round + 1
  /\ pc' = "round"
  /\ UNCHANGED <<streamVars, usage, log, hasTools, errKind, continued, toolVars,
                 callerVars>>

SendDone ==
  /\ SendLast
  /\ UNCHANGED <<streamVars, usage, roundVars, toolVars, callerVars>>

LoopStep ==
  \/ StartRound \/ RoundsExhausted \/ Forward \/ StreamClosed \/ SendError
  \/ DisableTools \/ ForwardRetry \/ RetryClosed \/ NativeCalls \/ TextCalls
  \/ SendReplace \/ ContinueAnswer \/ FinalAnswer \/ StartCall \/ RunCall
  \/ ReportCall \/ RoundEnds \/ SendDone

StreamStep == StreamNext /\ UNCHANGED <<loopVars, callerVars>>

Receive == ReceiveEvent /\ UNCHANGED <<roundVars, toolVars>>
Cancel == CancelCall /\ UNCHANGED <<roundVars, toolVars>>
Leave == LeaveCall /\ UNCHANGED <<roundVars, toolVars>>
Finished == SeeClosed /\ UNCHANGED <<roundVars, toolVars>>

Next == LoopStep \/ StreamStep \/ Receive \/ Cancel \/ Leave \/ Finished

(***************************************************************************)
(* The goroutines run whenever they can, the caller keeps receiving, tool  *)
(* calls return, and the timers fire: the dial and header timeouts, the    *)
(* idle watchdog, and with them the failed read of a cancelled request.    *)
(* Nothing is assumed of the provider: a response may stall for ever.      *)
(***************************************************************************)
Fairness ==
  /\ WF_vars(LoopStep)
  /\ WF_vars(Receive) /\ WF_vars(Finished)
  /\ WF_vars((SendToken \/ ReportFailure) /\ UNCHANGED <<loopVars, callerVars>>)
  /\ WF_vars(WatchdogFires /\ UNCHANGED <<loopVars, callerVars>>)
  /\ WF_vars((stalled \/ ctxDone) /\ ReadFails /\ UNCHANGED <<loopVars, callerVars>>)
  /\ WF_vars((ConnectFails \/ HeadersArrive) /\ UNCHANGED <<loopVars, callerVars>>)

Spec == Init /\ [][Next]_vars /\ Fairness

-----------------------------------------------------------------------------
(* Properties *)

\* Type correctness of the call and its request.
TypeOK ==
  /\ CallTypeOK
  /\ hasTools \in BOOLEAN
  /\ pc \in LoopStates
  /\ round \in 0..MaxRounds
  /\ errKind \in ErrorKinds \cup {"none"}
  /\ continued \in BOOLEAN
  /\ todo \in Seq(Calls)
  /\ seen \subseteq Calls
  /\ executed \in [Calls -> Nat]

\* The final send of Done is not a select, so it must never meet a full
\* channel of a caller that returned at an error: the goroutine would be
\* leaked, as it is for a caller that stops reading on its own.
DoneNeverBlocked == pc = "done" /\ reader = "left" => HasRoom

\* No call with the same key reaches the executor twice in one agent call,
\* in whichever rounds the model repeats it (seenToolCalls).
RunsOnce == \A c \in Calls : executed[c] <= 1

\* Every tool call that was reported as finished had really been executed,
\* in this round or an earlier one: the nudge given for a duplicate never
\* stands for a call that did not run.
ResultsAreReal ==
  \A i \in 1..Len(log) : log[i].type = "result" => executed[log[i].call] >= 1
=============================================================================
