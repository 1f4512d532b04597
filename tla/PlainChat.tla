------------------------------ MODULE PlainChat ------------------------------
(***************************************************************************)
(* StreamChat (internal/llm/client.go): a chat call without tools, used by *)
(* the TUI for models that reject tools, for search answers, compaction    *)
(* and strategy generation, and by the research pipeline and the           *)
(* evaluators.  One goroutine forwards the events of a provider request,   *)
(* errors included, and continues a truncated answer in a further request. *)
(***************************************************************************)
EXTENDS ChatCall

CONSTANT MaxContinuations  \* maxContinuations (3 in the code)

VARIABLE attempt  \* the loop counter

attemptVars == <<attempt, continued>>
plainLoopVars == <<pc, usage, log, attemptVars>>
plainVars == <<streamVars, plainLoopVars, callerVars>>

PlainLoopStates == {"round", "forward", "done", "closed"}

PlainInit ==
  /\ CallInit
  /\ pc = "round"
  /\ attempt = 0

StartAttempt ==
  /\ pc = "round"
  /\ StartRequest(FALSE)
  /\ pc' = "forward"
  /\ UNCHANGED <<adapter, ctxDone, billed, usage, log, attemptVars, callerVars>>

PlainForward_DropsErrors ==
  /\ pc = "forward"
  /\ ch # <<>>
  /\ ch' = Tail(ch)
  /\ IF Head(ch) = "token"
       THEN SendOrQuit(ES!Event("token"), "forward")
       ELSE UNCHANGED <<pc, log>>
  /\ UNCHANGED <<adapter, rpc, rtools, result, tokens, metered, stalled, ctxDone, billed,
                 usage, attemptVars, callerVars>>

\* for evt := range ch: every event is forwarded.
PlainForward ==
  /\ pc = "forward"
  /\ ch # <<>>
  /\ ch' = Tail(ch)
  /\ SendOrQuit(ES!Event(IF Head(ch) = "token" THEN "token" ELSE "error"), "forward")
  /\ UNCHANGED <<adapter, rpc, rtools, result, tokens, metered, stalled, ctxDone, billed,
                 usage, attemptVars, callerVars>>

StreamDrained == pc = "forward" /\ ch = <<>> /\ rpc = "closed"
Repetitive == continued /\ tokens > 0
Truncated == result.finish = "length"

\* The request failed or was dropped (no result), or the answer is complete,
\* or it only repeats what it continues, or the attempts are used up.
LastAttempt ==
  /\ StreamDrained
  /\ Truncated => Repetitive \/ attempt = MaxContinuations
  /\ usage' = usage + result.usage
  /\ pc' = "done"
  /\ UNCHANGED <<streamVars, log, attemptVars, callerVars>>

PlainContinueAnswer ==
  /\ StreamDrained
  /\ Truncated /\ attempt < MaxContinuations
  /\ usage' = usage + result.usage
  /\ continued' = (tokens > 0)
  /\ attempt' = attempt + 1
  /\ pc' = "round"
  /\ UNCHANGED <<streamVars, log, callerVars>>

PlainSendDone ==
  /\ SendLast
  /\ UNCHANGED <<streamVars, usage, attemptVars, callerVars>>

PlainLoopStep ==
  StartAttempt \/ PlainForward \/ LastAttempt \/ PlainContinueAnswer \/ PlainSendDone

PlainStreamStep == StreamNext /\ UNCHANGED <<plainLoopVars, callerVars>>

PlainReceive == ReceiveEvent /\ UNCHANGED attemptVars
PlainCancel == CancelCall /\ UNCHANGED attemptVars
PlainLeave == LeaveCall /\ UNCHANGED attemptVars
PlainFinished == SeeClosed /\ UNCHANGED attemptVars

PlainNext ==
  \/ PlainLoopStep \/ PlainStreamStep
  \/ PlainReceive \/ PlainCancel \/ PlainLeave \/ PlainFinished

\* As in ToolLoop: goroutines run, the caller receives, the timers fire.
PlainFairness ==
  /\ WF_plainVars(PlainLoopStep)
  /\ WF_plainVars(PlainReceive) /\ WF_plainVars(PlainFinished)
  /\ WF_plainVars((SendToken \/ ReportFailure) /\ UNCHANGED <<plainLoopVars, callerVars>>)
  /\ WF_plainVars(WatchdogFires /\ UNCHANGED <<plainLoopVars, callerVars>>)
  /\ WF_plainVars((stalled \/ ctxDone) /\ ReadFails /\ UNCHANGED <<plainLoopVars, callerVars>>)
  /\ WF_plainVars((ConnectFails \/ HeadersArrive) /\ UNCHANGED <<plainLoopVars, callerVars>>)

PlainSpec == PlainInit /\ [][PlainNext]_plainVars /\ PlainFairness
=============================================================================
