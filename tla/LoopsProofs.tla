----------------------------- MODULE LoopsProofs -----------------------------
(***************************************************************************)
(* Proofs about the parts that the agent loop and the plain chat call      *)
(* share, one provider request, sending on out, and the caller, and what   *)
(* the event protocol, which both implement, guarantees that caller; then  *)
(* about the agent loop, for every number of rounds, calls, tokens and     *)
(* every channel capacity: type correctness, the safety invariants of      *)
(* ToolLoop, and that the loop implements EventStream; then the same of    *)
(* the plain chat call, for every number of continuations.                 *)
(***************************************************************************)
EXTENDS ToolLoop, PlainChat, SequenceTheorems, TLAPS

(* Facts about the operators the models are built from. *)

\* A list of tool calls of bounded length is a sequence of calls.
LEMMA CallSeqsAreSequences == CallSeqs \subseteq Seq(Calls)
  BY DEF CallSeqs

\* What resCh holds has a sequence of calls and at most one unit of usage.
LEMMA ResultFacts ==
  ASSUME NEW r \in Results \cup {NoResult}
  PROVE  /\ r.calls \in Seq(Calls)
         /\ r.usage \in {0, 1}
  <1>1. CASE r \in Results
    BY <1>1, CallSeqsAreSequences DEF Results
  <1>2. CASE r = NoResult
    BY <1>2 DEF NoResult
  <1> QED BY <1>1, <1>2

\* The events of a request channel.
LEMMA RawEventFacts ==
  /\ "token" \in RawEvents
  /\ "other" \in RawEvents
  /\ \A e \in RawEvents : e # "token" => e \in ErrorKinds
  /\ \A k \in ErrorKinds : k \in RawEvents /\ k # "token" /\ k # "none"
  BY DEF RawEvents, ErrorKinds

\* The events a loop constructs.
LEMMA EventFacts ==
  /\ \A t \in ES!EventTypes : ES!Event(t) \in ES!Events
  /\ \A t \in ES!EventTypes, c \in Calls : ES!CallEvent(t, c) \in ES!Events
  /\ \A u \in Nat : ES!DoneEvent(u) \in ES!Events
  BY DEF ES!Events, ES!Event, ES!CallEvent, ES!DoneEvent, ES!EventTypes

\* What they say.
LEMMA EventFields ==
  /\ \A t : ES!Event(t).type = t
  /\ \A t, c : ES!CallEvent(t, c).type = t /\ ES!CallEvent(t, c).call = c
  /\ \A u : ES!DoneEvent(u).type = "done" /\ ES!DoneEvent(u).usage = u
  BY DEF ES!Event, ES!CallEvent, ES!DoneEvent

\* A send either appends its event or gives up on a cancelled context.
LEMMA SendFacts ==
  ASSUME log \in Seq(ES!Events), NEW e \in ES!Events, NEW next,
         SendOrQuit(e, next)
  PROVE  /\ log' \in Seq(ES!Events)
         /\ \A i \in 1..Len(log) : log'[i] = log[i]
         /\ \/ /\ pc' = next
               /\ HasRoom
               /\ Len(log') = Len(log) + 1
               /\ log'[Len(log) + 1] = e
            \/ /\ pc' = "closed"
               /\ ctxDone
               /\ log' = log
  BY DEF SendOrQuit

\* The final send appends Done and closes the channel.
LEMMA SendLastFacts ==
  ASSUME log \in Seq(ES!Events), usage \in Nat, SendLast
  PROVE  /\ log' \in Seq(ES!Events)
         /\ \A i \in 1..Len(log) : log'[i] = log[i]
         /\ Len(log') = Len(log) + 1
         /\ log'[Len(log) + 1] = ES!DoneEvent(usage)
         /\ pc = "done" /\ pc' = "closed"
  <1>1. ES!DoneEvent(usage) \in ES!Events
    BY EventFacts
  <1> QED BY <1>1 DEF SendLast

-----------------------------------------------------------------------------
(* Type correctness of a request. *)

LEMMA StreamInitTypes == StreamInit => StreamTypeOK
  <1> SUFFICES ASSUME StreamInit PROVE StreamTypeOK
    OBVIOUS
  <1>1. rtools \in BOOLEAN /\ stalled \in BOOLEAN /\ ctxDone \in BOOLEAN
    BY Zenon DEF StreamInit
  <1> QED BY <1>1, BoundsAssumption DEF StreamInit, StreamTypeOK, RawStates

LEMMA StartRequestTypes ==
  ASSUME StreamTypeOK, NEW t \in BOOLEAN, StartRequest(t),
         UNCHANGED <<adapter, ctxDone, billed>>
  PROVE  StreamTypeOK'
  <1>1. (rtools \in BOOLEAN /\ stalled \in BOOLEAN /\ ctxDone \in BOOLEAN)'
    BY Zenon DEF StreamTypeOK, StartRequest
  <1> QED BY <1>1, BoundsAssumption DEF StreamTypeOK, StartRequest, RawStates

\* Receiving from the request's channel.
LEMMA DequeueTypes ==
  ASSUME StreamTypeOK, ch # <<>>, ch' = Tail(ch),
         UNCHANGED <<adapter, rpc, rtools, result, tokens, metered, stalled, ctxDone, billed>>
  PROVE  /\ StreamTypeOK'
         /\ Head(ch) \in RawEvents
         /\ Len(ch') = Len(ch) - 1
         /\ \A i \in 1..Len(ch') : ch'[i] = ch[i + 1]
         /\ Head(ch) = ch[1]
  BY HeadTailProperties DEF StreamTypeOK

LEMMA StreamNextTypes ==
  ASSUME StreamTypeOK, StreamNext
  PROVE  StreamTypeOK'
  <1>f. (rtools \in BOOLEAN /\ stalled \in BOOLEAN /\ ctxDone \in BOOLEAN)'
    BY Zenon DEF StreamTypeOK, StreamNext, ConnectFails, HeadersArrive, UsageArrives, TokenArrives,
         SendToken, WatchdogFires, ReadFails, ErrorFrame, ReportFailure, ResponseEnds
  <1> USE <1>f DEF StreamTypeOK, RawStates
  <1>1. CASE ConnectFails
    BY <1>1, RawEventFacts DEF ConnectFails
  <1>2. CASE HeadersArrive
    BY <1>2 DEF HeadersArrive
  <1>3. CASE TokenArrives
    BY <1>3, BoundsAssumption DEF TokenArrives
  <1>4. CASE SendToken
    BY <1>4, RawEventFacts DEF SendToken
  <1>5. CASE WatchdogFires
    BY <1>5 DEF WatchdogFires
  <1>6. CASE ReadFails
    BY <1>6 DEF ReadFails
  <1>7. CASE ErrorFrame
    BY <1>7 DEF ErrorFrame
  <1>8. CASE ReportFailure
    BY <1>8, RawEventFacts DEF ReportFailure
  <1>9. CASE ResponseEnds
    BY <1>9 DEF ResponseEnds
  <1>10. CASE UsageArrives
    BY <1>10 DEF UsageArrives
  <1> QED BY <1>1, <1>2, <1>3, <1>4, <1>5, <1>6, <1>7, <1>8, <1>9, <1>10 DEF StreamNext

LEMMA StreamStutterTypes ==
  ASSUME StreamTypeOK, UNCHANGED streamVars
  PROVE  StreamTypeOK'
  BY DEF StreamTypeOK, streamVars, reqVars

\* Type correctness of the caller's steps.
LEMMA CallerTypes ==
  ASSUME CallTypeOK, ReceiveEvent \/ CancelCall \/ LeaveCall \/ SeeClosed
  PROVE  CallTypeOK'
  <1>1. (ctxDone \in BOOLEAN)'
    BY Zenon DEF CallTypeOK, StreamTypeOK, ReceiveEvent, CancelCall, LeaveCall,
         SeeClosed, streamVars
  <1>2. StreamTypeOK'
    BY <1>1 DEF CallTypeOK, StreamTypeOK, ReceiveEvent, CancelCall, LeaveCall,
         SeeClosed, streamVars, reqVars
  <1>3. log' = log /\ usage' = usage
    BY DEF ReceiveEvent, CancelCall, LeaveCall, SeeClosed
  <1>4. (nread \in 0..Len(log) /\ reader \in {"reading", "left", "gone"})'
    BY <1>3 DEF CallTypeOK, ReceiveEvent, CancelCall, LeaveCall, SeeClosed, callerVars
  <1> QED BY <1>2, <1>3, <1>4 DEF CallTypeOK

-----------------------------------------------------------------------------
(* A request that ends without a result, and not because the caller         *)
(* cancelled, leaves an error.                                              *)

Failed == rpc = "closed" /\ result = NoResult /\ ~ctxDone
ErrorWaits == \E i \in 1..Len(ch) : ch[i] # "token"

\* It is put in ch as the request ends.
LEMMA FailureIsSent ==
  ASSUME ch \in Seq(RawEvents), StreamNext, Failed'
  PROVE  ErrorWaits'
  <1>1. CASE ConnectFails \/ ReportFailure
    <2>1. PICK k \in ErrorKinds : ch' = Append(ch, k)
      BY <1>1 DEF ConnectFails, ReportFailure, Failed, ErrorKinds
    <2>2. Len(ch) + 1 \in 1..Len(ch') /\ ch'[Len(ch) + 1] = k /\ k # "token"
      BY <2>1, RawEventFacts
    <2> QED BY <2>2 DEF ErrorWaits
  <1>2. CASE SendToken
    BY <1>2 DEF SendToken, Failed
  <1>3. CASE HeadersArrive \/ TokenArrives \/ UsageArrives \/ WatchdogFires \/ ReadFails \/ ErrorFrame
    BY <1>3 DEF HeadersArrive, UsageArrives, TokenArrives, WatchdogFires, ReadFails, ErrorFrame, Failed
  <1>4. CASE ResponseEnds
    <2>1. result' \in Results
      BY <1>4 DEF ResponseEnds
    <2>2. NoResult \notin Results
      BY DEF Results, NoResult, FinishReasons
    <2> QED BY <2>1, <2>2 DEF Failed
  <1> QED BY <1>1, <1>2, <1>3, <1>4 DEF StreamNext

\* It waits behind the tokens.
LEMMA ErrorStaysBehind ==
  ASSUME ch \in Seq(RawEvents), ErrorWaits, ch # <<>>, Head(ch) = "token", ch' = Tail(ch)
  PROVE  ErrorWaits'
  <1>1. /\ Len(ch') = Len(ch) - 1 /\ Head(ch) = ch[1] /\ Len(ch) \in Nat
        /\ \A i \in 1..Len(ch') : ch'[i] = ch[i + 1]
    BY HeadTailProperties
  <1>2. PICK i \in 1..Len(ch) : ch[i] # "token"
    BY DEF ErrorWaits
  <1>3. i - 1 \in 1..Len(ch') /\ ch'[i - 1] = ch[i]
    BY <1>1, <1>2
  <1> QED BY <1>2, <1>3 DEF ErrorWaits

\* The last event of a log.
LEMMA LastTypeIs ==
  ASSUME NEW s \in Seq(ES!Events)
  PROVE  /\ s = <<>> => ES!LastType(s) = "none"
         /\ s # <<>> => Len(s) \in 1..Len(s) /\ ES!LastType(s) = s[Len(s)].type
  BY EmptySeq DEF ES!LastType

-----------------------------------------------------------------------------
(* The steps of a loop and of its caller as steps of the event protocol. *)

\* Sending an event that may follow, or giving up, is a step of the protocol.
LEMMA SendImplements ==
  ASSUME log \in Seq(ES!Events), NEW e \in ES!Events, NEW next,
         next # "closed", pc # "closed", e.type # "done",
         SendOrQuit(e, next), ctxDone' = ctxDone, ES!MayFollow(log, e)
  PROVE  ES!Next
  <1>1. CASE log' = Append(log, e) /\ pc' = next
    <2>1. Len(log') = Len(log) + 1 /\ log'[Len(log')] = e
      BY <1>1
    <2>2. ~(pc = "closed") /\ ((pc' = "closed") = (e.type = "done"))
      BY <1>1
    <2>3. ctxDone' \in {ctxDone, TRUE}
      OBVIOUS
    <2>4. ES!Emit
      BY <1>1, <2>1, <2>2, <2>3, Zenon DEF ES!Emit, ES!Sent
    <2> QED BY <2>4 DEF ES!Next
  <1>2. CASE ctxDone /\ pc' = "closed" /\ log' = log
    <2>1. (pc' = "closed") = TRUE /\ ~(pc = "closed")
      BY <1>2
    <2>2. ES!Abandon
      BY <1>2, <2>1, Zenon DEF ES!Abandon
    <2> QED BY <2>2 DEF ES!Next
  <1> QED BY <1>1, <1>2 DEF SendOrQuit

\* The final send closes the channel as it sends Done.
LEMMA SendLastImplements ==
  ASSUME log \in Seq(ES!Events), usage \in Nat, SendLast, ctxDone' = ctxDone,
         ES!MayFollow(log, ES!DoneEvent(usage))
  PROVE  ES!Next
  <1> DEFINE e == ES!DoneEvent(usage)
  <1>1. e \in ES!Events /\ e.type = "done" /\ ES!MayFollow(log, e)
    BY EventFacts, EventFields
  <1>2. pc = "done" /\ pc' = "closed" /\ log' = Append(log, e)
    BY DEF SendLast
  <1> HIDE DEF e
  <1>3. Len(log') = Len(log) + 1 /\ log'[Len(log')] = e
    BY <1>1, <1>2
  <1>4. ~(pc = "closed") /\ ((pc' = "closed") = (e.type = "done"))
    BY <1>1, <1>2
  <1>5. ES!Emit
    BY <1>1, <1>2, <1>3, <1>4, Zenon DEF ES!Emit, ES!Sent
  <1> QED BY <1>5 DEF ES!Next

\* The caller sends nothing; it may cancel.
LEMMA CallerImplements ==
  ASSUME ReceiveEvent \/ CancelCall \/ LeaveCall
  PROVE  [ES!Next]_<<log, pc = "closed", ctxDone>>
  <1>1. UNCHANGED <<log, pc>> /\ (ctxDone' = ctxDone \/ ctxDone' = TRUE)
    BY Zenon DEF ReceiveEvent, CancelCall, LeaveCall
  <1>2. (pc' = "closed") = (pc = "closed")
    BY <1>1
  <1>3. CASE ctxDone' = TRUE
    <2>1. ES!Cancel
      BY <1>1, <1>2, <1>3, Zenon DEF ES!Cancel
    <2> QED BY <2>1 DEF ES!Next
  <1> QED BY <1>1, <1>2, <1>3

-----------------------------------------------------------------------------
(* What a caller may rely on in any call that keeps the protocol. *)

\* The four promises about the log, and the reason they are kept: Done closes.
ProtocolInv ==
  /\ log \in Seq(ES!Events)
  /\ ctxDone \in BOOLEAN
  /\ ES!LastType(log) = "done" => pc = "closed"
  /\ ES!DoneIsLast
  /\ ES!OnlyDoneAfterError
  /\ ES!ResultFollowsStart
  /\ ES!NoToolsAfterDisable

\* Nothing is sent to begin with.
LEMMA InitProtocol == ES!Init => ProtocolInv
  <1> SUFFICES ASSUME ES!Init PROVE ProtocolInv
    OBVIOUS
  <1>1. log \in Seq(ES!Events) /\ Len(log) = 0 /\ pc # "closed" /\ ctxDone = FALSE
    BY DEF ES!Init
  <1>2. ES!LastType(log) # "done"
    BY DEF ES!Init, ES!LastType
  <1>3. /\ ES!DoneIsLast /\ ES!OnlyDoneAfterError
        /\ ES!ResultFollowsStart /\ ES!NoToolsAfterDisable
    BY <1>1 DEF ES!DoneIsLast, ES!OnlyDoneAfterError, ES!ResultFollowsStart,
                ES!NoToolsAfterDisable
  <1> QED BY <1>1, <1>2, <1>3 DEF ProtocolInv

\* An event that may follow keeps the promises.
LEMMA EmitProtocol ==
  ASSUME ProtocolInv, ES!Emit
  PROVE  ProtocolInv'
  <1> DEFINE n == Len(log)
             e == ES!Sent
  <1>1. log \in Seq(ES!Events) /\ n \in Nat /\ e \in ES!Events /\ pc # "closed"
    BY DEF ProtocolInv, ES!Emit
  <1>2. log' \in Seq(ES!Events) /\ Len(log') = n + 1 /\ log'[n + 1] = e
    BY <1>1 DEF ES!Emit
  <1>3. \A i \in 1..n : log'[i] = log[i]
    BY <1>1 DEF ES!Emit
  <1>4. ES!LastType(log') = e.type
    BY <1>2 DEF ES!LastType
  <1>5. \A i \in 1..n : log[i].type # "done"
    BY <1>1, Zenon DEF ProtocolInv, ES!DoneIsLast
  <1>6. n > 0 => ES!LastType(log) = log[n].type
    BY <1>1 DEF ES!LastType
  <1>7. (pc' = "closed") = (e.type = "done") /\ ctxDone' \in BOOLEAN
    <2>1. (pc' = "closed") = (e.type = "done") /\ ctxDone' \in {ctxDone, TRUE}
      BY DEF ES!Emit
    <2>2. ctxDone \in BOOLEAN
      BY DEF ProtocolInv
    <2> QED BY <2>1, <2>2
  <1>8. ES!MayFollow(log, e)
    BY DEF ES!Emit
  <1> HIDE DEF e
  <1>9. ES!DoneIsLast'
    <2>1. \A i \in 1..Len(log') : log'[i].type = "done" => i = Len(log') /\ pc' = "closed"
      <3>1. \A i \in 1..n : log'[i].type # "done"
        BY <1>3, <1>5
      <3>2. e.type = "done" => pc' = "closed"
        BY <1>7
      <3>3. \A i \in 1..(n + 1) : i \in 1..n \/ i = n + 1
        BY <1>1
      <3> QED BY <1>2, <3>1, <3>2, <3>3
    <2>2. pc' = "closed" => ES!LastType(log') = "done"
      BY <1>4, <1>7
    <2> QED BY <2>1, <2>2 DEF ES!DoneIsLast
  <1>10. ES!OnlyDoneAfterError'
    <2> SUFFICES ASSUME NEW i \in 1..(n + 1), NEW j \in 1..(n + 1), i < j,
                        log'[i].type = "error"
                 PROVE  log'[j].type = "done"
      BY <1>1, <1>2 DEF ES!OnlyDoneAfterError
    <2>1. i \in 1..n /\ log[i].type = "error"
      BY <1>1, <1>3
    <2>2. CASE j \in 1..n
      BY <1>3, <2>1, <2>2 DEF ProtocolInv, ES!OnlyDoneAfterError
    <2>3. CASE j = n + 1
      <3>1. i = n
        BY <1>1, <1>5, <2>1 DEF ProtocolInv, ES!OnlyDoneAfterError
      <3> QED BY <1>1, <1>2, <1>6, <1>8, <2>1, <2>3, <3>1 DEF ES!MayFollow
    <2> QED BY <1>1, <2>2, <2>3
  <1>11. ES!ResultFollowsStart'
    <2> SUFFICES ASSUME NEW i \in 1..(n + 1)
                 PROVE  /\ log'[i].type = "result" =>
                             /\ i > 1 /\ log'[i-1].type = "start"
                             /\ log'[i-1].call = log'[i].call
                        /\ log'[i].type = "start" /\ i < n + 1 =>
                             /\ log'[i+1].type = "result"
                             /\ log'[i+1].call = log'[i].call
      BY <1>1, <1>2 DEF ES!ResultFollowsStart
    <2>1. CASE i \in 1..n /\ i < n
      <3>1. i + 1 \in 1..n /\ (i > 1 => i - 1 \in 1..n)
        BY <1>1, <2>1
      <3> QED BY <1>1, <1>3, <2>1, <3>1 DEF ProtocolInv, ES!ResultFollowsStart
    <2>2. CASE i \in 1..n /\ i = n
      <3>1. i > 1 => i - 1 \in 1..n
        BY <1>1, <2>2
      <3>2. log[n].type = "start" => e.type = "result" /\ e.call = log[n].call
        BY <1>1, <1>6, <1>8, <2>2 DEF ES!MayFollow, ES!CallEvent
      <3> QED BY <1>1, <1>2, <1>3, <2>2, <3>1, <3>2 DEF ProtocolInv, ES!ResultFollowsStart
    <2>3. CASE i = n + 1
      <3>1. ASSUME e.type = "result"
            PROVE  n > 0 /\ log[n].type = "start" /\ log[n].call = e.call
        <4>1. ES!LastType(log) = "start" /\ e = ES!CallEvent("result", log[n].call)
          BY <1>8, <3>1 DEF ES!MayFollow
        <4>2. n > 0
          BY <1>1, <4>1, EmptySeq DEF ES!LastType
        <4> QED BY <1>6, <4>1, <4>2 DEF ES!CallEvent
      <3> QED BY <1>1, <1>2, <1>3, <2>3, <3>1
    <2> QED BY <1>1, <2>1, <2>2, <2>3
  <1>12. ES!NoToolsAfterDisable'
    <2> SUFFICES ASSUME NEW i \in 1..(n + 1), NEW j \in 1..(n + 1), i < j,
                        log'[i].type = "toolsDisabled"
                 PROVE  log'[j].type \in {"token", "error", "done"}
      BY <1>1, <1>2 DEF ES!NoToolsAfterDisable
    <2>1. i \in 1..n /\ log[i].type = "toolsDisabled"
      BY <1>1, <1>3
    <2>2. CASE j \in 1..n
      BY <1>3, <2>1, <2>2 DEF ProtocolInv, ES!NoToolsAfterDisable
    <2>3. CASE j = n + 1
      BY <1>2, <1>8, <2>1, <2>3 DEF ES!MayFollow, ES!Disabled
    <2> QED BY <1>1, <2>2, <2>3
  <1> QED BY <1>2, <1>4, <1>7, <1>9, <1>10, <1>11, <1>12 DEF ProtocolInv

\* A call that keeps the protocol keeps them all along.
LEMMA ProtocolHolds == ES!Spec => []ProtocolInv
  <1>1. ProtocolInv /\ [ES!Next]_<<log, pc = "closed", ctxDone>> => ProtocolInv'
    <2> SUFFICES ASSUME ProtocolInv, [ES!Next]_<<log, pc = "closed", ctxDone>>
                 PROVE  ProtocolInv'
      OBVIOUS
    <2>1. CASE ES!Emit
      BY <2>1, EmitProtocol
    <2>2. CASE ES!Abandon \/ ES!Cancel \/ UNCHANGED <<log, pc = "closed", ctxDone>>
      <3>1. log' = log /\ ((pc' = "closed") = (pc = "closed") \/ (ctxDone /\ pc' = "closed"))
        BY <2>2, Zenon DEF ES!Abandon, ES!Cancel
      <3>2. ctxDone' = ctxDone \/ ctxDone' = TRUE
        BY <2>2, Zenon DEF ES!Abandon, ES!Cancel
      <3>3. ctxDone => ctxDone'
        BY <3>2
      <3>4. ES!LastType(log') = ES!LastType(log)
        BY <3>1
      <3>5. ctxDone' \in BOOLEAN
        BY <3>2, Zenon DEF ProtocolInv
      <3>6. ES!DoneIsLast'
        BY <3>1, <3>3, <3>4 DEF ProtocolInv, ES!DoneIsLast
      <3>7. ES!OnlyDoneAfterError' /\ ES!ResultFollowsStart' /\ ES!NoToolsAfterDisable'
        BY <3>1 DEF ProtocolInv, ES!OnlyDoneAfterError, ES!ResultFollowsStart,
                    ES!NoToolsAfterDisable
      <3> QED BY <3>1, <3>4, <3>5, <3>6, <3>7 DEF ProtocolInv
    <2> QED BY <2>1, <2>2 DEF ES!Next
  <1> QED BY InitProtocol, <1>1, PTL DEF ES!Spec

\* Done ends every call that nobody cancelled, and is sent at most once.
THEOREM DoneIsLastHolds == ES!Spec => []ES!DoneIsLast
  <1>1. ProtocolInv => ES!DoneIsLast
    BY DEF ProtocolInv
  <1> QED BY ProtocolHolds, <1>1, PTL

\* A caller that returns at an error event loses nothing but Done.
THEOREM OnlyDoneAfterErrorHolds == ES!Spec => []ES!OnlyDoneAfterError
  <1>1. ProtocolInv => ES!OnlyDoneAfterError
    BY DEF ProtocolInv
  <1> QED BY ProtocolHolds, <1>1, PTL

\* A caller may pair a tool result with the start it saw last, as
\* runPrintJSON does with its single pendingTool.
THEOREM ResultFollowsStartHolds == ES!Spec => []ES!ResultFollowsStart
  <1>1. ProtocolInv => ES!ResultFollowsStart
    BY DEF ProtocolInv
  <1> QED BY ProtocolHolds, <1>1, PTL

\* Once the provider refused the tools, no tool of the call runs.
THEOREM NoToolsAfterDisableHolds == ES!Spec => []ES!NoToolsAfterDisable
  <1>1. ProtocolInv => ES!NoToolsAfterDisable
    BY DEF ProtocolInv
  <1> QED BY ProtocolHolds, <1>1, PTL

-----------------------------------------------------------------------------
(* The agent loop *)

\* The request: an error is the last thing a stream carries, and a stream
\* that carried one, or was dropped, has no result.
RequestInv ==
  /\ \A i \in 1..Len(ch) :
       ch[i] # "token" => i = Len(ch) /\ rpc = "closed" /\ result = NoResult
  /\ result # NoResult => rpc = "closed"
  /\ pc \notin {"forward", "retry", "closed"} => rpc \in {"off", "closed"}
  /\ pc = "forward" /\ errKind # "none" =>
       ch = <<>> /\ rpc = "closed" /\ result = NoResult

\* The round counter is below its limit wherever it may be incremented.
RoundInv == pc \notin {"round", "done", "closed"} => round < MaxRounds

\* What has been sent, by where the loop is.
LogInv ==
  /\ \A i \in 1..Len(log) : log[i].type = "done" => i = Len(log) /\ pc = "closed"
  /\ \A i \in 1..Len(log) : log[i].type = "error" /\ pc # "closed" =>
       /\ i = Len(log)
       /\ pc = "done" \/ (pc = "retry" /\ ch = <<>> /\ rpc = "closed")
  /\ pc \in {"exec", "report"} =>
       /\ todo # <<>>
       /\ log # <<>>
       /\ log[Len(log)] = ES!CallEvent("start", Head(todo))
  /\ \A i \in 1..Len(log) : i = Len(log) /\ log[i].type = "start" =>
       pc \in {"exec", "report", "closed"}
  /\ \A i \in 1..Len(log) : log[i].type = "toolsDisabled" =>
       pc \in {"retry", "done", "closed"}

\* The usage summed so far lacks only what the running request reported, or the
\* last one, if it failed; a request that rejected its tools had none.
MeterInv ==
  /\ rpc \in {"off", "connect"} => metered = 0
  /\ result # NoResult => result.usage = metered
  /\ \A i \in 1..Len(ch) : ch[i] = "toolsUnsupported" => metered = 0
  /\ pc = "forward" /\ errKind = "toolsUnsupported" => metered = 0
  /\ pc = "disable" => metered = 0
UsageInv ==
  /\ pc \in {"forward", "retry"} => billed = usage + metered
  /\ pc \notin {"forward", "retry", "closed"} => billed = usage + LostUsage
  /\ \A i \in 1..Len(log) : log[i].type = "done" =>
       log[i].usage + LostUsage = billed /\ rpc \in {"off", "closed"}

\* A call has been executed exactly if its key was recorded.
RunsInv ==
  /\ \A c \in Calls : executed[c] = IF c \in seen THEN 1 ELSE 0
  /\ pc = "report" => Head(todo) \in seen
  /\ \A i \in 1..Len(log) : log[i].type = "result" => log[i].call \in seen

\* A caller that returned at an error has read everything sent so far.
ReaderInv ==
  reader = "left" /\ pc # "closed" =>
    /\ log # <<>>
    /\ log[Len(log)].type = "error"
    /\ nread = Len(log)

\* The error of a request that failed is in ch, buffered, or the last event
\* sent; wherever else the loop is, there is a result.
FailureInv ==
  /\ rpc = "off" => ~stalled
  /\ pc = "forward" /\ Failed => errKind # "none" \/ ErrorWaits
  /\ pc = "retry" /\ Failed => ES!LastType(log) = "error" \/ ErrorWaits
  /\ pc = "done" /\ Failed => ES!LastType(log) = "error"
  /\ pc \in {"round", "inspect", "replace", "start", "exec", "report"} /\ rpc = "closed" =>
       result # NoResult
  /\ ES!LastType(log) = "done" /\ stalled /\ ~ctxDone /\ result = NoResult =>
       Len(log) > 1 /\ log[Len(log) - 1].type = "error"

IInv ==
  /\ TypeOK
  /\ RequestInv
  /\ RoundInv
  /\ LogInv
  /\ MeterInv
  /\ UsageInv
  /\ RunsInv
  /\ ReaderInv
  /\ FailureInv

-----------------------------------------------------------------------------
(* Type correctness, with the round counter's bound that it rests on. *)

LEMMA InitTypeOK == Init => TypeOK /\ RoundInv
  <1> SUFFICES ASSUME Init PROVE TypeOK /\ RoundInv
    OBVIOUS
  <1>1. StreamTypeOK
    BY StreamInitTypes DEF Init, CallInit
  <1>2. hasTools \in BOOLEAN /\ continued \in BOOLEAN
    BY Zenon DEF Init, CallInit
  <1>3. executed \in [Calls -> Nat]
    BY DEF Init
  <1> QED BY <1>1, <1>2, <1>3, RoundsAssumption
          DEF Init, CallInit, TypeOK, CallTypeOK, RoundInv, LoopStates

LEMMA NextTypeOK ==
  ASSUME IInv, [Next]_vars
  PROVE  TypeOK' /\ RoundInv'
  <1> USE DEF IInv, TypeOK, CallTypeOK, RoundInv, LoopStates, loopVars, roundVars,
              toolVars, callerVars
  <1>0. Len(log) \in Nat /\ nread \in 0..Len(log)
    OBVIOUS
  <1>1. CASE StartRound
    <2>1. StreamTypeOK'
      BY <1>1, StartRequestTypes DEF StartRound
    <2> QED BY <1>1, <2>1 DEF StartRound
  <1>2. CASE RoundsExhausted
    BY <1>2, StreamStutterTypes DEF RoundsExhausted
  <1>3. CASE Forward
    <2>1. StreamTypeOK' /\ Head(ch) \in RawEvents
      BY <1>3, DequeueTypes DEF Forward
    <2>2. CASE Head(ch) = "token"
      <3>1. SendOrQuit(ES!Event("token"), "forward")
        BY <1>3, <2>2 DEF Forward
      <3>2. ES!Event("token") \in ES!Events
        BY EventFacts DEF ES!EventTypes
      <3> QED BY <1>0, <1>3, <2>1, <2>2, <3>1, <3>2, SendFacts DEF Forward
    <2>3. CASE Head(ch) # "token"
      BY <1>3, <2>1, <2>3, RawEventFacts DEF Forward
    <2> QED BY <2>2, <2>3
  <1>4. CASE StreamClosed
    <2>1. result.usage \in {0, 1}
      BY ResultFacts DEF StreamTypeOK
    <2> QED BY <1>4, <2>1, StreamStutterTypes DEF StreamClosed
  <1>5. CASE SendError
    <2>1. ES!Event("error") \in ES!Events
      BY EventFacts DEF ES!EventTypes
    <2>2. SendOrQuit(ES!Event("error"), "done")
      BY <1>5 DEF SendError
    <2> QED BY <1>0, <1>5, <2>1, <2>2, SendFacts, StreamStutterTypes DEF SendError
  <1>6. CASE DisableTools
    <2>1. ES!Event("toolsDisabled") \in ES!Events
      BY EventFacts DEF ES!EventTypes
    <2>2. SendOrQuit(ES!Event("toolsDisabled"), "retry")
      BY <1>6 DEF DisableTools
    <2>3. StreamTypeOK'
      BY <1>6, StartRequestTypes, StreamStutterTypes DEF DisableTools, streamVars
    <2> QED BY <1>0, <1>6, <2>1, <2>2, <2>3, SendFacts DEF DisableTools
  <1>7. CASE ForwardRetry
    <2> DEFINE e == ES!Event(IF Head(ch) = "token" THEN "token" ELSE "error")
    <2>1. StreamTypeOK'
      BY <1>7, DequeueTypes DEF ForwardRetry
    <2>2. e \in ES!Events
      BY EventFacts DEF ES!EventTypes
    <2>3. SendOrQuit(e, "retry")
      BY <1>7 DEF ForwardRetry
    <2> HIDE DEF e
    <2> QED BY <1>0, <1>7, <2>1, <2>2, <2>3, SendFacts DEF ForwardRetry
  <1>8. CASE RetryClosed
    <2>1. result.usage \in {0, 1}
      BY ResultFacts DEF StreamTypeOK
    <2> QED BY <1>8, <2>1, StreamStutterTypes DEF RetryClosed
  <1>9. CASE NativeCalls
    <2>1. result.calls \in Seq(Calls)
      BY ResultFacts DEF StreamTypeOK
    <2> QED BY <1>9, <2>1, StreamStutterTypes DEF NativeCalls
  <1>10. CASE TextCalls
    BY <1>10, CallSeqsAreSequences, StreamStutterTypes DEF TextCalls
  <1>11. CASE SendReplace
    <2>1. ES!Event("replace") \in ES!Events
      BY EventFacts DEF ES!EventTypes
    <2>2. SendOrQuit(ES!Event("replace"), "start")
      BY <1>11 DEF SendReplace
    <2> QED BY <1>0, <1>11, <2>1, <2>2, SendFacts, StreamStutterTypes DEF SendReplace
  <1>12. CASE ContinueAnswer
    BY <1>12, RoundsAssumption, StreamStutterTypes DEF ContinueAnswer
  <1>13. CASE FinalAnswer
    BY <1>13, StreamStutterTypes DEF FinalAnswer
  <1>14. CASE StartCall
    <2>1. Head(todo) \in Calls
      BY <1>14, HeadTailProperties DEF StartCall
    <2>2. ES!CallEvent("start", Head(todo)) \in ES!Events
      BY <2>1, EventFacts DEF ES!EventTypes
    <2>3. SendOrQuit(ES!CallEvent("start", Head(todo)), "exec")
      BY <1>14 DEF StartCall
    <2> QED BY <1>0, <1>14, <2>2, <2>3, SendFacts, StreamStutterTypes DEF StartCall
  <1>15. CASE RunCall
    <2>1. Head(todo) \in Calls
      BY <1>15, HeadTailProperties DEF RunCall, LogInv
    <2> QED BY <1>15, <2>1, StreamStutterTypes DEF RunCall
  <1>16. CASE ReportCall
    <2>1. Head(todo) \in Calls /\ Tail(todo) \in Seq(Calls)
      BY <1>16, HeadTailProperties DEF ReportCall, LogInv
    <2>2. ES!CallEvent("result", Head(todo)) \in ES!Events
      BY <2>1, EventFacts DEF ES!EventTypes
    <2>3. SendOrQuit(ES!CallEvent("result", Head(todo)), "start")
      BY <1>16 DEF ReportCall
    <2> QED BY <1>0, <1>16, <2>1, <2>2, <2>3, SendFacts, StreamStutterTypes
            DEF ReportCall
  <1>17. CASE RoundEnds
    BY <1>17, RoundsAssumption, StreamStutterTypes DEF RoundEnds
  <1>18. CASE SendDone
    BY <1>0, <1>18, SendLastFacts, StreamStutterTypes DEF SendDone
  <1>19. CASE StreamStep
    BY <1>19, StreamNextTypes DEF StreamStep
  <1>20. CASE Receive \/ Cancel \/ Leave \/ Finished
    <2>1. CallTypeOK'
      BY <1>20, CallerTypes DEF Receive, Cancel, Leave, Finished
    <2>2. UNCHANGED <<pc, roundVars, toolVars>>
      BY <1>20 DEF Receive, Cancel, Leave, Finished, ReceiveEvent, CancelCall,
                   LeaveCall, SeeClosed
    <2> QED BY <2>1, <2>2
  <1>21. CASE UNCHANGED vars
    BY <1>21, StreamStutterTypes DEF vars
  <1> QED
    BY <1>1, <1>2, <1>3, <1>4, <1>5, <1>6, <1>7, <1>8, <1>9, <1>10, <1>11, <1>12,
       <1>13, <1>14, <1>15, <1>16, <1>17, <1>18, <1>19, <1>20, <1>21
       DEF Next, LoopStep

-----------------------------------------------------------------------------
(* The request invariant. *)

LEMMA NextRequestInv ==
  ASSUME IInv, [Next]_vars
  PROVE  RequestInv'
  <1> USE DEF IInv, RequestInv
  <1>t. ch \in Seq(RawEvents) /\ Len(ch) \in Nat
    BY DEF TypeOK, CallTypeOK, StreamTypeOK
  <1>1. CASE StartRound
    BY <1>1 DEF StartRound, StartRequest
  <1>2. CASE Forward
    <2>1. /\ Len(ch') = Len(ch) - 1
          /\ \A i \in 1..Len(ch') : ch'[i] = ch[i + 1]
          /\ Head(ch) = ch[1]
      BY <1>2, DequeueTypes DEF Forward, TypeOK, CallTypeOK
    <2>2. Len(ch) > 0
      BY <1>2, <1>t, EmptySeq DEF Forward
    <2>3. ch' \in Seq(RawEvents)
      BY <1>2, <1>t, HeadTailProperties DEF Forward
    <2>4. errKind' # "none" => ch' = <<>> /\ rpc = "closed" /\ result = NoResult
      <3>1. CASE Head(ch) = "token"
        BY <1>2, <1>t, <2>2, <3>1 DEF Forward
      <3>2. CASE Head(ch) # "token"
        <4>1. Len(ch) = 1 /\ rpc = "closed" /\ result = NoResult
          BY <1>t, <2>1, <2>2, <3>2
        <4> QED BY <2>1, <2>3, <4>1, EmptySeq
      <3> QED BY <3>1, <3>2
    <2>5. pc' \in {"forward", "closed"}
      BY <1>2 DEF Forward, SendOrQuit
    <2>6. UNCHANGED <<rpc, result>>
      BY <1>2 DEF Forward
    <2>7. \A i \in 1..Len(ch') :
            ch'[i] # "token" => i = Len(ch') /\ rpc' = "closed" /\ result' = NoResult
      BY <1>t, <2>1, <2>2, <2>6
    <2> QED BY <2>4, <2>5, <2>6, <2>7
  <1>3. CASE ForwardRetry
    <2>1. /\ Len(ch') = Len(ch) - 1
          /\ \A i \in 1..Len(ch') : ch'[i] = ch[i + 1]
      BY <1>3, DequeueTypes DEF ForwardRetry, TypeOK, CallTypeOK
    <2>2. Len(ch) > 0
      BY <1>3, <1>t, EmptySeq DEF ForwardRetry
    <2>3. pc' \in {"retry", "closed"} /\ UNCHANGED <<rpc, result>>
      BY <1>3 DEF ForwardRetry, SendOrQuit
    <2> QED BY <1>t, <2>1, <2>2, <2>3
  <1>4. CASE DisableTools
    <2>1. CASE pc' = "retry"
      BY <1>4, <2>1 DEF DisableTools, StartRequest
    <2>2. CASE pc' # "retry"
      BY <1>4, <2>2 DEF DisableTools, SendOrQuit, reqVars
    <2> QED BY <2>1, <2>2
  <1>5. CASE StreamClosed \/ RetryClosed
    BY <1>5 DEF StreamClosed, RetryClosed, streamVars, reqVars, roundVars
  <1>6. CASE \/ RoundsExhausted \/ SendError \/ NativeCalls \/ TextCalls
             \/ SendReplace \/ ContinueAnswer \/ FinalAnswer \/ StartCall \/ RunCall
             \/ ReportCall \/ RoundEnds \/ SendDone
    <2>1. UNCHANGED <<ch, rpc, result>>
      BY <1>6 DEF RoundsExhausted, SendError, NativeCalls, TextCalls, SendReplace,
           ContinueAnswer, FinalAnswer, StartCall, RunCall, ReportCall, RoundEnds,
           SendDone, streamVars, reqVars
    <2>2. pc \notin {"forward", "retry", "closed"} /\ pc' # "forward"
      BY <1>6 DEF RoundsExhausted, SendError, NativeCalls, TextCalls, SendReplace,
           ContinueAnswer, FinalAnswer, StartCall, RunCall, ReportCall, RoundEnds,
           SendDone, SendOrQuit, SendLast
    <2> QED BY <2>1, <2>2
  <1>7. CASE StreamStep
    <2>1. UNCHANGED <<pc, errKind>> /\ StreamNext
      BY <1>7 DEF StreamStep, loopVars, roundVars
    <2>2. pc \in {"forward", "retry", "closed"} /\ rpc # "closed"
      BY <2>1 DEF StreamNext, ConnectFails, HeadersArrive, UsageArrives, TokenArrives, SendToken,
           WatchdogFires, ReadFails, ErrorFrame, ReportFailure, ResponseEnds
    <2>3. \A i \in 1..Len(ch) : ch[i] = "token"
      BY <2>2
    <2>4. result = NoResult
      BY <2>2
    <2>5. CASE ConnectFails \/ ReportFailure
      BY <1>t, <2>1, <2>2, <2>3, <2>4, <2>5 DEF ConnectFails, ReportFailure
    <2>6. CASE SendToken
      BY <1>t, <2>1, <2>2, <2>3, <2>4, <2>6 DEF SendToken
    <2>7. CASE HeadersArrive \/ TokenArrives \/ UsageArrives \/ WatchdogFires \/ ReadFails \/ ErrorFrame
      BY <2>1, <2>2, <2>3, <2>4, <2>7
         DEF HeadersArrive, UsageArrives, TokenArrives, WatchdogFires, ReadFails, ErrorFrame
    <2>8. CASE ResponseEnds
      BY <2>1, <2>2, <2>3, <2>8 DEF ResponseEnds
    <2> QED BY <2>1, <2>5, <2>6, <2>7, <2>8 DEF StreamNext
  <1>8. CASE Receive \/ Cancel \/ Leave \/ Finished \/ UNCHANGED vars
    <2>1. UNCHANGED <<ch, rpc, result, pc, errKind>>
      BY <1>8 DEF Receive, Cancel, Leave, Finished, ReceiveEvent, CancelCall, LeaveCall,
           SeeClosed, vars, streamVars, reqVars, loopVars, roundVars
    <2> QED BY <2>1
  <1> QED BY <1>1, <1>2, <1>3, <1>4, <1>5, <1>6, <1>7, <1>8 DEF Next, LoopStep

-----------------------------------------------------------------------------
(* What has been sent. *)

\* One more event keeps the invariant when it fits the place it is sent from.
LEMMA LogGrows ==
  ASSUME log \in Seq(ES!Events), LogInv, pc # "closed",
         \A i \in 1..Len(log) : log[i].type # "error",
         NEW e,
         Len(log') = Len(log) + 1,
         \A i \in 1..Len(log) : log'[i] = log[i],
         log'[Len(log) + 1] = e,
         e.type # "done",
         e.type = "error" =>
           pc' \in {"done", "closed"} \/ (pc' = "retry" /\ ch' = <<>> /\ rpc' = "closed"),
         pc' \in {"exec", "report"} =>
           /\ todo' # <<>>
           /\ e = ES!CallEvent("start", Head(todo')),
         e.type = "start" => pc' \in {"exec", "report", "closed"},
         pc \in {"retry", "done", "closed"} \/ e.type = "toolsDisabled" =>
           pc' \in {"retry", "done", "closed"}
  PROVE  LogInv'
  <1>1. Len(log) \in Nat /\ log' # <<>>
    BY EmptySeq
  <1> QED BY <1>1 DEF LogInv

\* Leaving the log alone keeps it when the loop does not move to a place that
\* needs an event, or is closed.
LEMMA LogStays ==
  ASSUME LogInv, log' = log,
         \/ pc' = "closed"
         \/ /\ pc' \notin {"exec", "report"}
            /\ pc \notin {"exec", "report", "closed"}
            /\ \A i \in 1..Len(log) : log[i].type # "error"
            /\ pc \in {"retry", "done"} => pc' \in {"retry", "done"}
  PROVE  LogInv'
  BY DEF LogInv

LEMMA NextLogInv ==
  ASSUME IInv, [Next]_vars
  PROVE  LogInv'
  <1> USE DEF IInv
  <1>t. log \in Seq(ES!Events) /\ Len(log) \in Nat /\ todo \in Seq(Calls)
    BY DEF TypeOK, CallTypeOK
  <1>e. pc \notin {"done", "retry", "closed"} => \A i \in 1..Len(log) : log[i].type # "error"
    BY DEF LogInv
  <1>1. CASE Forward
    <2>1. CASE Head(ch) = "token"
      <3>1. SendOrQuit(ES!Event("token"), "forward") /\ ES!Event("token") \in ES!Events
        BY <1>1, <2>1, EventFacts DEF Forward, ES!EventTypes
      <3>2. pc = "forward"
        BY <1>1 DEF Forward
      <3>3. CASE log' = log
        BY <1>t, <1>e, <3>1, <3>2, <3>3, SendFacts, LogStays
      <3>4. CASE log' # log
        BY <1>t, <1>e, <3>1, <3>2, <3>4, SendFacts, LogGrows, EventFields
      <3> QED BY <3>3, <3>4
    <2>2. CASE Head(ch) # "token"
      BY <1>1, <1>e, <2>2, LogStays DEF Forward
    <2> QED BY <2>1, <2>2
  <1>2. CASE SendError
    <2>1. SendOrQuit(ES!Event("error"), "done") /\ ES!Event("error") \in ES!Events
      BY <1>2, EventFacts DEF SendError, ES!EventTypes
    <2>2. pc = "sendError"
      BY <1>2 DEF SendError
    <2>3. CASE log' = log
      BY <1>t, <1>e, <2>1, <2>2, <2>3, SendFacts, LogStays
    <2>4. CASE log' # log
      BY <1>t, <1>e, <2>1, <2>2, <2>4, SendFacts, LogGrows, EventFields
    <2> QED BY <2>3, <2>4
  <1>3. CASE DisableTools
    <2>1. /\ SendOrQuit(ES!Event("toolsDisabled"), "retry")
          /\ ES!Event("toolsDisabled") \in ES!Events
      BY <1>3, EventFacts DEF DisableTools, ES!EventTypes
    <2>2. pc = "disable"
      BY <1>3 DEF DisableTools
    <2>3. CASE log' = log
      BY <1>t, <1>e, <2>1, <2>2, <2>3, SendFacts, LogStays
    <2>4. CASE log' # log
      BY <1>t, <1>e, <2>1, <2>2, <2>4, SendFacts, LogGrows, EventFields
    <2> QED BY <2>3, <2>4
  <1>4. CASE ForwardRetry
    <2> DEFINE e == ES!Event(IF Head(ch) = "token" THEN "token" ELSE "error")
    <2>1. SendOrQuit(e, "retry") /\ e \in ES!Events
      BY <1>4, EventFacts DEF ForwardRetry, ES!EventTypes
    <2>2. pc = "retry" /\ ch # <<>> /\ UNCHANGED rpc
      BY <1>4 DEF ForwardRetry
    <2>3. \A i \in 1..Len(log) : log[i].type # "error"
      BY <2>2 DEF LogInv
    <2>4. e.type \in {"token", "error"}
      BY EventFields
    <2>5. e.type = "error" => ch' = <<>> /\ rpc' = "closed"
      <3> SUFFICES ASSUME Head(ch) # "token" PROVE ch' = <<>> /\ rpc' = "closed"
        BY EventFields
      <3>1. Head(ch) = ch[1] /\ Len(ch') = Len(ch) - 1 /\ ch' \in Seq(RawEvents)
        BY <1>4, DequeueTypes DEF ForwardRetry, TypeOK, CallTypeOK, StreamTypeOK
      <3>2. ch \in Seq(RawEvents) /\ Len(ch) \in Nat /\ Len(ch) > 0
        BY <2>2, EmptySeq DEF TypeOK, CallTypeOK, StreamTypeOK
      <3>3. Len(ch) = 1 /\ rpc = "closed"
        BY <3>1, <3>2 DEF RequestInv
      <3> QED BY <2>2, <3>1, <3>3, EmptySeq
    <2> HIDE DEF e
    <2>6. CASE log' = log
      BY <1>t, <2>1, <2>2, <2>3, <2>6, SendFacts, LogStays
    <2>7. CASE log' # log
      BY <1>t, <2>1, <2>2, <2>3, <2>4, <2>5, <2>7, SendFacts, LogGrows
    <2> QED BY <2>6, <2>7
  <1>5. CASE SendReplace
    <2>1. SendOrQuit(ES!Event("replace"), "start") /\ ES!Event("replace") \in ES!Events
      BY <1>5, EventFacts DEF SendReplace, ES!EventTypes
    <2>2. pc = "replace"
      BY <1>5 DEF SendReplace
    <2>3. CASE log' = log
      BY <1>t, <1>e, <2>1, <2>2, <2>3, SendFacts, LogStays
    <2>4. CASE log' # log
      BY <1>t, <1>e, <2>1, <2>2, <2>4, SendFacts, LogGrows, EventFields
    <2> QED BY <2>3, <2>4
  <1>6. CASE StartCall
    <2> DEFINE e == ES!CallEvent("start", Head(todo))
    <2>1. SendOrQuit(e, "exec") /\ e \in ES!Events
      BY <1>6, <1>t, HeadTailProperties, EventFacts DEF StartCall, ES!EventTypes
    <2>2. pc = "start" /\ todo # <<>> /\ todo' = todo
      BY <1>6 DEF StartCall, toolVars
    <2>3. e.type = "start"
      BY EventFields
    <2>4. CASE log' = log
      BY <1>t, <1>e, <2>1, <2>2, <2>4, SendFacts, LogStays
    <2>5. CASE log' # log
      BY <1>t, <1>e, <2>1, <2>2, <2>3, <2>5, SendFacts, LogGrows
    <2> QED BY <2>4, <2>5
  <1>7. CASE ReportCall
    <2> DEFINE e == ES!CallEvent("result", Head(todo))
    <2>1. SendOrQuit(e, "start") /\ e \in ES!Events
      BY <1>7, <1>t, HeadTailProperties, EventFacts DEF ReportCall, LogInv, ES!EventTypes
    <2>2. pc = "report"
      BY <1>7 DEF ReportCall
    <2>3. e.type = "result"
      BY EventFields
    <2>4. CASE pc' = "closed"
      <3>1. log' = log
        BY <1>t, <2>1, <2>4, SendFacts
      <3> QED BY <2>4, <3>1, LogStays
    <2>5. CASE pc' # "closed"
      BY <1>t, <1>e, <2>1, <2>2, <2>3, <2>5, SendFacts, LogGrows
    <2> QED BY <2>4, <2>5
  <1>8. CASE SendDone
    <2>1. /\ log' \in Seq(ES!Events)
          /\ \A i \in 1..Len(log) : log'[i] = log[i]
          /\ Len(log') = Len(log) + 1
          /\ log'[Len(log) + 1] = ES!DoneEvent(usage)
          /\ pc = "done" /\ pc' = "closed"
      BY <1>8, SendLastFacts DEF SendDone, TypeOK, CallTypeOK
    <2> QED BY <1>t, <2>1, EventFields DEF LogInv
  <1>9. CASE StartRound \/ RoundsExhausted \/ StreamClosed \/ NativeCalls \/ TextCalls
             \/ ContinueAnswer \/ FinalAnswer \/ RoundEnds
    <2>1. log' = log
      BY <1>9 DEF StartRound, RoundsExhausted, StreamClosed, NativeCalls, TextCalls,
           ContinueAnswer, FinalAnswer, RoundEnds
    <2>2. /\ pc \notin {"exec", "report", "done", "retry", "closed"}
          /\ pc' \notin {"exec", "report"}
      BY <1>9 DEF StartRound, RoundsExhausted, StreamClosed, NativeCalls, TextCalls,
           ContinueAnswer, FinalAnswer, RoundEnds
    <2> QED BY <1>e, <2>1, <2>2, LogStays
  <1>10. CASE RetryClosed
    BY <1>10 DEF RetryClosed, LogInv
  <1>11. CASE RunCall
    BY <1>11 DEF RunCall, LogInv
  <1>12. CASE StreamStep
    <2>1. UNCHANGED <<pc, log, todo>> /\ StreamNext
      BY <1>12 DEF StreamStep, loopVars, toolVars
    <2>2. rpc # "closed"
      BY <2>1 DEF StreamNext, ConnectFails, HeadersArrive, UsageArrives, TokenArrives, SendToken,
           WatchdogFires, ReadFails, ErrorFrame, ReportFailure, ResponseEnds
    <2> QED BY <2>1, <2>2 DEF LogInv
  <1>13. CASE Receive \/ Cancel \/ Leave \/ Finished \/ UNCHANGED vars
    <2>1. UNCHANGED <<ch, rpc, pc, log, todo>>
      BY <1>13 DEF Receive, Cancel, Leave, Finished, ReceiveEvent, CancelCall, LeaveCall,
           SeeClosed, vars, streamVars, reqVars, loopVars, toolVars
    <2> QED BY <2>1 DEF LogInv
  <1> QED BY <1>1, <1>2, <1>3, <1>4, <1>5, <1>6, <1>7, <1>8, <1>9, <1>10, <1>11,
             <1>12, <1>13 DEF Next, LoopStep

-----------------------------------------------------------------------------
(* Usage, executed calls and the caller. *)

\* A loop step only ever extends the log, by at most one event, and every step
\* keeps the events already sent.
LEMMA LogIsPrefix ==
  ASSUME IInv, [Next]_vars
  PROVE  \/ log' = log
         \/ /\ Len(log') = Len(log) + 1
            /\ \A i \in 1..Len(log) : log'[i] = log[i]
            /\ \/ log'[Len(log) + 1] = ES!DoneEvent(usage) /\ SendDone
               \/ /\ log'[Len(log) + 1].type \notin {"done", "result"}
                  /\ ~SendDone
               \/ /\ log'[Len(log) + 1] = ES!CallEvent("result", Head(todo))
                  /\ ReportCall
  <1> USE DEF IInv
  <1>t. log \in Seq(ES!Events) /\ Len(log) \in Nat /\ todo \in Seq(Calls) /\ usage \in Nat
    BY DEF TypeOK, CallTypeOK
  <1>1. CASE Forward
    <2>1. CASE Head(ch) = "token"
      <3>1. SendOrQuit(ES!Event("token"), "forward") /\ ES!Event("token") \in ES!Events
        BY <1>1, <2>1, EventFacts DEF Forward, ES!EventTypes
      <3> QED BY <1>1, <1>t, <3>1, SendFacts, EventFields DEF Forward, SendDone, SendLast
    <2>2. CASE Head(ch) # "token"
      BY <1>1, <2>2 DEF Forward
    <2> QED BY <2>1, <2>2
  <1>2. CASE SendError
    <2>1. SendOrQuit(ES!Event("error"), "done") /\ ES!Event("error") \in ES!Events
      BY <1>2, EventFacts DEF SendError, ES!EventTypes
    <2> QED BY <1>2, <1>t, <2>1, SendFacts, EventFields DEF SendError, SendDone, SendLast
  <1>3. CASE DisableTools
    <2>1. /\ SendOrQuit(ES!Event("toolsDisabled"), "retry")
          /\ ES!Event("toolsDisabled") \in ES!Events
      BY <1>3, EventFacts DEF DisableTools, ES!EventTypes
    <2> QED BY <1>3, <1>t, <2>1, SendFacts, EventFields DEF DisableTools, SendDone, SendLast
  <1>4. CASE ForwardRetry
    <2> DEFINE e == ES!Event(IF Head(ch) = "token" THEN "token" ELSE "error")
    <2>1. SendOrQuit(e, "retry") /\ e \in ES!Events /\ pc = "retry"
      BY <1>4, EventFacts DEF ForwardRetry, ES!EventTypes
    <2>2. e.type \notin {"done", "result"}
      BY EventFields
    <2> HIDE DEF e
    <2> QED BY <1>t, <2>1, <2>2, SendFacts DEF SendDone, SendLast
  <1>5. CASE SendReplace
    <2>1. SendOrQuit(ES!Event("replace"), "start") /\ ES!Event("replace") \in ES!Events
      BY <1>5, EventFacts DEF SendReplace, ES!EventTypes
    <2> QED BY <1>5, <1>t, <2>1, SendFacts, EventFields DEF SendReplace, SendDone, SendLast
  <1>6. CASE StartCall
    <2> DEFINE e == ES!CallEvent("start", Head(todo))
    <2>1. SendOrQuit(e, "exec") /\ e \in ES!Events /\ pc = "start"
      BY <1>6, <1>t, HeadTailProperties, EventFacts DEF StartCall, ES!EventTypes
    <2>2. e.type = "start"
      BY EventFields
    <2> HIDE DEF e
    <2> QED BY <1>t, <2>1, <2>2, SendFacts DEF SendDone, SendLast
  <1>7. CASE ReportCall
    <2> DEFINE e == ES!CallEvent("result", Head(todo))
    <2>1. SendOrQuit(e, "start") /\ e \in ES!Events
      BY <1>7, <1>t, HeadTailProperties, EventFacts DEF ReportCall, LogInv, ES!EventTypes
    <2> HIDE DEF e
    <2>2. log' = log \/ (/\ Len(log') = Len(log) + 1
                         /\ \A i \in 1..Len(log) : log'[i] = log[i]
                         /\ log'[Len(log) + 1] = e)
      BY <1>t, <2>1, SendFacts
    <2> QED BY <1>7, <2>2 DEF e
  <1>8. CASE SendDone
    BY <1>8, <1>t, SendLastFacts DEF SendDone
  <1>9. CASE StartRound \/ RoundsExhausted \/ StreamClosed \/ NativeCalls \/ TextCalls
             \/ ContinueAnswer \/ FinalAnswer \/ RoundEnds \/ RetryClosed \/ RunCall
    BY <1>9 DEF StartRound, RoundsExhausted, StreamClosed, NativeCalls, TextCalls,
         ContinueAnswer, FinalAnswer, RoundEnds, RetryClosed, RunCall
  <1>10. CASE StreamStep \/ Receive \/ Cancel \/ Leave \/ Finished \/ UNCHANGED vars
    BY <1>10 DEF StreamStep, Receive, Cancel, Leave, Finished, ReceiveEvent, CancelCall,
         LeaveCall, SeeClosed, vars, loopVars
  <1> QED BY <1>1, <1>2, <1>3, <1>4, <1>5, <1>6, <1>7, <1>8, <1>9, <1>10
          DEF Next, LoopStep

\* What a response has reported goes into its result; tools are rejected before
\* anything is reported.
LEMMA NextMeterInv ==
  ASSUME IInv, [Next]_vars
  PROVE  MeterInv'
  <1>s. MeterInv /\ RequestInv /\ metered \in {0, 1} /\ ch \in Seq(RawEvents) /\ Len(ch) \in Nat
    BY DEF IInv, TypeOK, CallTypeOK, StreamTypeOK
  <1>1. CASE StartRound
    BY <1>1 DEF StartRound, StartRequest, MeterInv
  <1>2. CASE DisableTools
    <2>1. CASE pc' = "retry"
      BY <1>2, <2>1 DEF DisableTools, StartRequest, MeterInv
    <2>2. CASE pc' # "retry"
      <3>1. pc' = "closed" /\ UNCHANGED reqVars
        BY <1>2, <2>2 DEF DisableTools, SendOrQuit
      <3> QED BY <1>s, <3>1 DEF MeterInv, reqVars
    <2> QED BY <2>1, <2>2
  <1>3. CASE Forward \/ ForwardRetry
    <2>1. /\ ch # <<>> /\ ch' = Tail(ch)
          /\ UNCHANGED <<rpc, result, metered>> /\ pc \in {"forward", "retry"} /\ pc' \in {pc, "closed"}
          /\ pc = "forward" => errKind' = errKind \/ errKind' = Head(ch)
      BY <1>3 DEF Forward, ForwardRetry, SendOrQuit
    <2>2. Len(ch') = Len(ch) - 1 /\ (\A i \in 1..Len(ch') : ch'[i] = ch[i + 1]) /\ Head(ch) = ch[1]
      BY <1>s, <2>1, HeadTailProperties
    <2>3. 1 \in 1..Len(ch)
      BY <1>s, <2>1
    <2> QED BY <1>s, <2>1, <2>2, <2>3 DEF MeterInv
  <1>4. CASE StreamClosed
    BY <1>4, <1>s DEF StreamClosed, MeterInv, streamVars, reqVars
  <1>5. CASE RetryClosed \/ SendDone \/ RoundsExhausted \/ NativeCalls \/ TextCalls \/ ContinueAnswer
             \/ FinalAnswer \/ RoundEnds \/ RunCall \/ SendError \/ SendReplace \/ StartCall \/ ReportCall
    <2>1. UNCHANGED <<rpc, result, ch, metered>> /\ pc' \notin {"forward", "disable"}
      BY <1>5 DEF RetryClosed, SendDone, SendLast, RoundsExhausted, NativeCalls, TextCalls,
           ContinueAnswer, FinalAnswer, RoundEnds, RunCall, SendError, SendReplace, StartCall,
           ReportCall, SendOrQuit, streamVars, reqVars
    <2> QED BY <1>s, <2>1 DEF MeterInv
  <1>6. CASE StreamStep
    <2>1. UNCHANGED <<pc, errKind>> /\ StreamNext
      BY <1>6 DEF StreamStep, loopVars, roundVars
    <2>2. rpc # "off" /\ rpc' # "off" /\ rpc # "closed"
      BY <2>1 DEF StreamNext, ConnectFails, HeadersArrive, UsageArrives, TokenArrives, SendToken,
           WatchdogFires, ReadFails, ErrorFrame, ReportFailure, ResponseEnds
    <2>3. /\ pc \in {"forward", "retry", "closed"} /\ (pc = "forward" => errKind = "none")
          /\ result = NoResult /\ \A i \in 1..Len(ch) : ch[i] = "token"
      BY <1>s, <2>2 DEF RequestInv
    <2>4. CASE ConnectFails
      BY <1>s, <2>1, <2>2, <2>3, <2>4 DEF ConnectFails, MeterInv
    <2>5. CASE ReportFailure \/ SendToken
      <3>1. /\ \A i \in 1..Len(ch') : ch'[i] \in {"token", "other"}
            /\ UNCHANGED <<result, metered>> /\ rpc' # "connect"
        BY <1>s, <2>3, <2>5 DEF ReportFailure, SendToken
      <3> QED BY <2>1, <2>2, <2>3, <3>1 DEF MeterInv
    <2>6. CASE HeadersArrive \/ TokenArrives \/ UsageArrives \/ WatchdogFires \/ ReadFails \/ ErrorFrame
      BY <1>s, <2>1, <2>2, <2>3, <2>6 DEF HeadersArrive, UsageArrives, TokenArrives, WatchdogFires,
         ReadFails, ErrorFrame, MeterInv
    <2>7. CASE ResponseEnds
      BY <1>s, <2>1, <2>2, <2>3, <2>7 DEF ResponseEnds, MeterInv
    <2> QED BY <2>1, <2>4, <2>5, <2>6, <2>7 DEF StreamNext
  <1>7. CASE Receive \/ Cancel \/ Leave \/ Finished \/ UNCHANGED vars
    <2>1. UNCHANGED <<pc, ch, errKind, result, metered, rpc>>
      BY <1>7 DEF Receive, Cancel, Leave, Finished, ReceiveEvent, CancelCall, LeaveCall,
           SeeClosed, vars, streamVars, reqVars, loopVars, roundVars
    <2> QED BY <1>s, <2>1 DEF MeterInv
  <1> QED BY <1>1, <1>2, <1>3, <1>4, <1>5, <1>6, <1>7 DEF Next, LoopStep

LEMMA NextUsageInv ==
  ASSUME IInv, [Next]_vars
  PROVE  UsageInv'
  <1> DEFINE Summed == /\ pc \in {"forward", "retry"} => billed = usage + metered
                       /\ pc \notin {"forward", "retry", "closed"} => billed = usage + LostUsage
             Reported == \A i \in 1..Len(log) : log[i].type = "done" =>
                           log[i].usage + LostUsage = billed /\ rpc \in {"off", "closed"}
  <1> USE DEF LostUsage
  <1>t. /\ usage \in Nat /\ billed \in Nat /\ Len(log) \in Nat /\ metered \in {0, 1}
        /\ result.usage \in {0, 1} /\ NoResult.usage = 0
    BY ResultFacts DEF IInv, TypeOK, CallTypeOK, StreamTypeOK, NoResult
  <1>s. Summed /\ Reported
    BY DEF IInv, UsageInv
  <1>1. CASE StartRound
    <2>0. LostUsage = 0
      BY <1>1, <1>t DEF StartRound, IInv, RequestInv, FailureInv, MeterInv
    <2>1. Summed'
      BY <1>1, <1>t, <1>s, <2>0 DEF StartRound, StartRequest
    <2>2. pc = "round" /\ log' = log
      BY <1>1 DEF StartRound
    <2>3. Reported'
      BY <2>2 DEF IInv, LogInv
    <2> QED BY <2>1, <2>3 DEF UsageInv
  <1>2. CASE DisableTools
    <2>1. SendOrQuit(ES!Event("toolsDisabled"), "retry") /\ pc = "disable"
      BY <1>2 DEF DisableTools
    <2>2. Summed'
      BY <1>2, <1>t, <1>s, <2>1 DEF DisableTools, StartRequest, SendOrQuit, reqVars, IInv, MeterInv
    <2>3. \A i \in 1..Len(log') : log'[i].type # "done"
      <3>1. ~SendDone /\ ~ReportCall
        BY <2>1 DEF SendDone, SendLast, ReportCall
      <3>2. \A i \in 1..Len(log) : log[i].type # "done"
        BY <2>1 DEF IInv, LogInv
      <3> QED BY <1>t, <3>1, <3>2, LogIsPrefix
    <2> QED BY <2>2, <2>3 DEF UsageInv
  <1>3. CASE Forward \/ ForwardRetry \/ SendError \/ SendReplace \/ StartCall \/ ReportCall
    <2>1. UNCHANGED <<usage, billed, result, metered, rpc>> /\ ~SendDone /\ pc # "closed"
      BY <1>3 DEF Forward, ForwardRetry, SendError, SendReplace, StartCall, ReportCall,
           SendDone, SendLast, streamVars, reqVars
    <2>2. Summed'
      BY <1>3, <1>s, <2>1 DEF Forward, ForwardRetry, SendError, SendReplace, StartCall,
           ReportCall, SendOrQuit
    <2>3. \A i \in 1..Len(log') : log'[i].type # "done"
      <3>1. \A i \in 1..Len(log) : log[i].type # "done"
        BY <2>1 DEF IInv, LogInv
      <3> QED BY <1>t, <2>1, <3>1, LogIsPrefix, EventFields
    <2> QED BY <2>2, <2>3 DEF UsageInv
  <1>4. CASE StreamClosed
    <2>1. Summed'
      BY <1>4, <1>t, <1>s DEF StreamClosed, IInv, RequestInv, MeterInv, streamVars, reqVars
    <2>2. Reported'
      BY <1>4, <1>s DEF StreamClosed, streamVars, reqVars
    <2> QED BY <2>1, <2>2 DEF UsageInv
  <1>5. CASE RetryClosed
    BY <1>5, <1>t, <1>s DEF RetryClosed, IInv, MeterInv, streamVars, reqVars, UsageInv
  <1>6. CASE SendDone
    <2>1. /\ Len(log') = Len(log) + 1
          /\ \A i \in 1..Len(log) : log'[i] = log[i]
          /\ log'[Len(log) + 1] = ES!DoneEvent(usage)
          /\ pc = "done" /\ pc' = "closed"
      BY <1>6, SendLastFacts DEF SendDone, IInv, TypeOK, CallTypeOK
    <2>2. UNCHANGED <<billed, rpc, result, metered>>
      BY <1>6 DEF SendDone, streamVars, reqVars
    <2>3. billed = usage + LostUsage /\ rpc \in {"off", "closed"}
      BY <1>s, <2>1 DEF IInv, RequestInv
    <2> QED BY <1>t, <1>s, <2>1, <2>2, <2>3, EventFields DEF UsageInv
  <1>7. CASE RoundsExhausted \/ NativeCalls \/ TextCalls \/ ContinueAnswer \/ FinalAnswer
             \/ RoundEnds \/ RunCall
    BY <1>7, <1>s DEF RoundsExhausted, NativeCalls, TextCalls, ContinueAnswer, FinalAnswer,
         RoundEnds, RunCall, streamVars, reqVars, UsageInv
  <1>8. CASE StreamStep
    <2>1. UNCHANGED <<pc, log, usage>> /\ StreamNext
      BY <1>8 DEF StreamStep, loopVars
    <2>2. rpc \notin {"off", "closed"}
      BY <2>1 DEF StreamNext, ConnectFails, HeadersArrive, UsageArrives, TokenArrives, SendToken,
           WatchdogFires, ReadFails, ErrorFrame, ReportFailure, ResponseEnds
    <2>3. \A i \in 1..Len(log) : log[i].type # "done"
      BY <1>s, <2>2
    <2>4. pc \in {"forward", "retry", "closed"}
      BY <2>2 DEF IInv, RequestInv
    <2>5. billed' - metered' = billed - metered
      <3>1. CASE UsageArrives
        BY <1>t, <3>1 DEF UsageArrives
      <3>2. CASE ~UsageArrives
        BY <2>1, <3>2 DEF StreamNext, ConnectFails, HeadersArrive, UsageArrives, TokenArrives, SendToken,
             WatchdogFires, ReadFails, ErrorFrame, ReportFailure, ResponseEnds
      <3> QED BY <3>1, <3>2
    <2>6. billed' \in Nat /\ metered' \in {0, 1}
      BY NextTypeOK DEF TypeOK, CallTypeOK, StreamTypeOK
    <2> QED BY <1>t, <1>s, <2>1, <2>3, <2>4, <2>5, <2>6 DEF UsageInv
  <1>9. CASE Receive \/ Cancel \/ Leave \/ Finished \/ UNCHANGED vars
    <2>1. UNCHANGED <<pc, log, usage, billed, result, metered, rpc>>
      BY <1>9 DEF Receive, Cancel, Leave, Finished, ReceiveEvent, CancelCall, LeaveCall,
           SeeClosed, vars, streamVars, reqVars, loopVars
    <2> QED BY <1>s, <2>1 DEF UsageInv
  <1> QED BY <1>1, <1>2, <1>3, <1>4, <1>5, <1>6, <1>7, <1>8, <1>9 DEF Next, LoopStep

LEMMA NextRunsInv ==
  ASSUME IInv, [Next]_vars
  PROVE  RunsInv'
  <1>t. /\ Len(log) \in Nat /\ seen \subseteq Calls /\ executed \in [Calls -> Nat]
        /\ log \in Seq(ES!Events)
    BY DEF IInv, TypeOK, CallTypeOK
  <1>s. /\ \A c \in Calls : executed[c] = IF c \in seen THEN 1 ELSE 0
        /\ pc = "report" => Head(todo) \in seen
        /\ \A i \in 1..Len(log) : log[i].type = "result" => log[i].call \in seen
    BY DEF IInv, RunsInv
  <1>l. CASE seen' = seen /\ executed' = executed /\ (pc' = "report" => pc = "report" /\ todo' = todo)
    <2>1. \A i \in 1..Len(log') : log'[i].type = "result" => log'[i].call \in seen
      <3>1. CASE log' = log
        BY <1>s, <3>1
      <3>2. CASE ReportCall
        <4>1. pc = "report"
          BY <3>2 DEF ReportCall
        <4> QED BY <1>t, <1>s, <3>2, <4>1, LogIsPrefix, EventFields
                DEF ReportCall, SendDone, SendLast
      <3>3. CASE log' # log /\ ~ReportCall
        BY <1>t, <1>s, <3>3, LogIsPrefix, EventFields
      <3> QED BY <3>1, <3>2, <3>3
    <2> QED BY <1>l, <1>s, <2>1 DEF RunsInv
  <1>1. CASE RunCall
    <2>1. Head(todo) \in Calls /\ log' = log /\ todo' = todo
      BY <1>1, HeadTailProperties DEF RunCall, IInv, TypeOK, LogInv
    <2>2. CASE Head(todo) \in seen
      BY <1>1, <1>s, <2>1, <2>2 DEF RunCall, RunsInv
    <2>3. CASE Head(todo) \notin seen
      <3>1. /\ seen' = seen \cup {Head(todo)}
            /\ executed' = [executed EXCEPT ![Head(todo)] = @ + 1]
        BY <1>1, <2>3 DEF RunCall
      <3> QED BY <1>t, <1>s, <2>1, <2>3, <3>1 DEF RunsInv
    <2> QED BY <2>2, <2>3
  <1>2. CASE \/ StartRound \/ RoundsExhausted \/ Forward \/ StreamClosed \/ SendError
             \/ DisableTools \/ ForwardRetry \/ RetryClosed \/ NativeCalls \/ TextCalls
             \/ SendReplace \/ ContinueAnswer \/ FinalAnswer \/ StartCall \/ ReportCall
             \/ RoundEnds \/ SendDone
    <2>1. UNCHANGED <<seen, executed>>
      BY <1>2 DEF StartRound, RoundsExhausted, Forward, StreamClosed, SendError,
           DisableTools, ForwardRetry, RetryClosed, NativeCalls, TextCalls, SendReplace,
           ContinueAnswer, FinalAnswer, StartCall, ReportCall, RoundEnds, SendDone, toolVars
    <2>2. pc' # "report"
      BY <1>2 DEF StartRound, RoundsExhausted, Forward, StreamClosed, SendError,
           DisableTools, ForwardRetry, RetryClosed, NativeCalls, TextCalls, SendReplace,
           ContinueAnswer, FinalAnswer, StartCall, ReportCall, RoundEnds, SendDone,
           SendOrQuit, SendLast
    <2> QED BY <1>l, <2>1, <2>2
  <1>3. CASE StreamStep \/ Receive \/ Cancel \/ Leave \/ Finished \/ UNCHANGED vars
    <2>1. UNCHANGED <<pc, seen, executed, todo>>
      BY <1>3 DEF StreamStep, Receive, Cancel, Leave, Finished, ReceiveEvent, CancelCall,
           LeaveCall, SeeClosed, vars, loopVars, toolVars
    <2> QED BY <1>l, <2>1
  <1> QED BY <1>1, <1>2, <1>3 DEF Next, LoopStep

LEMMA NextReaderInv ==
  ASSUME IInv, [Next]_vars
  PROVE  ReaderInv'
  <1>t. Len(log) \in Nat /\ log \in Seq(ES!Events) /\ nread \in 0..Len(log)
    BY DEF IInv, TypeOK, CallTypeOK
  <1>1. CASE LoopStep
    <2>1. UNCHANGED <<reader, nread>>
      BY <1>1 DEF LoopStep, StartRound, RoundsExhausted, Forward, StreamClosed, SendError,
           DisableTools, ForwardRetry, RetryClosed, NativeCalls, TextCalls, SendReplace,
           ContinueAnswer, FinalAnswer, StartCall, RunCall, ReportCall, RoundEnds, SendDone,
           callerVars
    <2> SUFFICES ASSUME reader = "left", pc' # "closed"
                 PROVE  log' # <<>> /\ log'[Len(log')].type = "error" /\ nread = Len(log')
      BY <2>1 DEF ReaderInv
    <2>2. pc # "closed"
      BY <1>1 DEF LoopStep, StartRound, RoundsExhausted, Forward, StreamClosed, SendError,
           DisableTools, ForwardRetry, RetryClosed, NativeCalls, TextCalls, SendReplace,
           ContinueAnswer, FinalAnswer, StartCall, RunCall, ReportCall, RoundEnds, SendDone,
           SendLast
    <2>3. log # <<>> /\ log[Len(log)].type = "error" /\ nread = Len(log)
      BY <2>2 DEF IInv, ReaderInv
    <2>4. Len(log) \in 1..Len(log)
      BY <1>t, <2>3, EmptySeq
    <2>5. pc = "done" \/ (pc = "retry" /\ ch = <<>>)
      BY <2>2, <2>3, <2>4 DEF IInv, LogInv
    <2>6. log' = log
      BY <1>1, <2>5 DEF LoopStep, StartRound, RoundsExhausted, Forward, StreamClosed,
           SendError, DisableTools, ForwardRetry, RetryClosed, NativeCalls, TextCalls,
           SendReplace, ContinueAnswer, FinalAnswer, StartCall, RunCall, ReportCall,
           RoundEnds, SendDone, SendLast
    <2> QED BY <2>3, <2>6
  <1>2. CASE StreamStep \/ Cancel \/ UNCHANGED vars
    BY <1>2 DEF StreamStep, Cancel, CancelCall, vars, loopVars, callerVars, IInv, ReaderInv
  <1>3. CASE Receive
    <2>1. /\ reader = "reading" /\ nread < Len(log) /\ nread' = nread + 1
          /\ UNCHANGED <<log, pc>>
      BY <1>3 DEF Receive, ReceiveEvent
    <2> SUFFICES ASSUME reader' = "left", pc # "closed"
                 PROVE  log # <<>> /\ log[Len(log)].type = "error" /\ nread' = Len(log)
      BY <2>1 DEF ReaderInv
    <2>2. log[nread + 1].type = "error"
      BY <1>3, <2>1 DEF Receive, ReceiveEvent
    <2>3. nread + 1 \in 1..Len(log)
      BY <1>t, <2>1
    <2>4. nread + 1 = Len(log)
      BY <2>2, <2>3 DEF IInv, LogInv
    <2> QED BY <1>t, <2>1, <2>2, <2>3, <2>4, EmptySeq
  <1>4. CASE Leave \/ Finished
    BY <1>4 DEF Leave, Finished, LeaveCall, SeeClosed, ReaderInv
  <1> QED BY <1>1, <1>2, <1>3, <1>4 DEF Next

\* A request that ends without a result leaves its error.
LEMMA NextFailureInv ==
  ASSUME IInv, [Next]_vars
  PROVE  FailureInv'
  <1>s. /\ FailureInv /\ Len(log) \in Nat /\ log \in Seq(ES!Events) /\ usage \in Nat
        /\ ch \in Seq(RawEvents) /\ errKind \in ErrorKinds \cup {"none"}
    BY DEF IInv, TypeOK, CallTypeOK, StreamTypeOK
  <1>r. pc \notin {"forward", "retry", "closed"} => rpc \in {"off", "closed"}
    BY DEF IInv, RequestInv
  <1>n. pc # "closed" => ES!LastType(log) # "done"
    BY <1>s, LastTypeIs DEF IInv, LogInv
  \* What is sent before Done is not Done.
  <1>m. ASSUME pc # "closed", ~SendDone
        PROVE  ES!LastType(log') # "done"
    <2>1. CASE log' = log
      BY <1>n, <1>m, <2>1
    <2>2. CASE log' # log
      <3>1. Len(log') = Len(log) + 1 /\ log'[Len(log) + 1].type # "done"
        BY <1>m, <2>2, LogIsPrefix, EventFields
      <3>2. log' # <<>>
        BY <1>s, <3>1
      <3> QED BY <3>1, <3>2 DEF ES!LastType
    <2> QED BY <2>1, <2>2
  <1>1. CASE StartRound
    <2>1. rpc' = "connect" /\ pc' = "forward" /\ pc = "round" /\ ~SendDone
      BY <1>1 DEF StartRound, StartRequest, SendDone, SendLast
    <2> QED BY <1>m, <2>1 DEF FailureInv, Failed
  <1>2. CASE RoundsExhausted
    <2>1. /\ UNCHANGED <<rpc, ch, result, stalled, ctxDone, log>>
          /\ pc = "round" /\ pc' = "done"
      BY <1>2 DEF RoundsExhausted, streamVars, reqVars
    <2> QED BY <1>s, <1>n, <2>1 DEF FailureInv, Failed
  <1>3. CASE Forward
    <2>1. /\ pc = "forward" /\ ch # <<>> /\ ch' = Tail(ch)
          /\ UNCHANGED <<rpc, result, stalled, ctxDone>> /\ ~SendDone
      BY <1>3 DEF Forward, SendDone, SendLast
    <2>2. pc' = "forward" \/ (pc' = "closed" /\ ctxDone)
      BY <1>3, <2>1 DEF Forward, SendOrQuit
    <2>3. ASSUME Failed, pc' = "forward" PROVE errKind' # "none" \/ ErrorWaits'
      <3>1. CASE Head(ch) = "token"
        <4>1. errKind' = errKind
          BY <1>3, <3>1 DEF Forward
        <4>2. errKind # "none" \/ ErrorWaits
          BY <1>s, <2>1, <2>3 DEF FailureInv
        <4> QED BY <1>s, <2>1, <3>1, <4>1, <4>2, ErrorStaysBehind
      <3>2. CASE Head(ch) # "token"
        <4>1. errKind' = Head(ch) /\ Head(ch) \in RawEvents
          BY <1>3, <1>s, <2>1, <3>2, HeadTailProperties DEF Forward
        <4> QED BY <3>2, <4>1, RawEventFacts
      <3> QED BY <3>1, <3>2
    <2> QED BY <1>s, <1>m, <2>1, <2>2, <2>3 DEF FailureInv, Failed
  <1>4. CASE StreamClosed
    <2>1. /\ UNCHANGED <<rpc, ch, result, stalled, ctxDone, log>> /\ ch = <<>>
          /\ pc = "forward" /\ rpc = "closed"
          /\ pc' = "done" => errKind = "none"
          /\ pc' = "inspect" => result # NoResult
          /\ pc' \in {"disable", "sendError", "done", "inspect"}
      BY <1>4 DEF StreamClosed, streamVars, reqVars
    <2>2. ~ErrorWaits
      BY <2>1 DEF ErrorWaits
    <2> QED BY <1>s, <1>n, <2>1, <2>2 DEF FailureInv, Failed
  <1>5. CASE SendError
    <2>1. /\ SendOrQuit(ES!Event("error"), "done") /\ ES!Event("error") \in ES!Events
          /\ UNCHANGED <<rpc, ch, result, stalled, ctxDone>> /\ pc = "sendError"
      BY <1>5, EventFacts DEF SendError, ES!EventTypes, streamVars, reqVars
    <2>2. CASE pc' = "done" /\ Len(log') = Len(log) + 1 /\ log'[Len(log) + 1] = ES!Event("error")
      <3>1. log' # <<>>
        BY <1>s, <2>2
      <3>2. ES!LastType(log') = "error"
        BY <2>2, <3>1, EventFields DEF ES!LastType
      <3> QED BY <1>s, <2>1, <2>2, <3>2 DEF FailureInv
    <2>3. CASE pc' = "closed" /\ log' = log
      BY <1>s, <1>n, <2>1, <2>3 DEF FailureInv
    <2> QED BY <1>s, <2>1, <2>2, <2>3, SendFacts
  <1>6. CASE DisableTools
    <2>1. pc = "disable" /\ ~SendDone /\ pc' \in {"retry", "closed"}
      BY <1>6 DEF DisableTools, SendOrQuit, SendDone, SendLast
    <2>2. CASE pc' = "retry"
      <3>1. rpc' = "connect"
        BY <1>6, <2>2 DEF DisableTools, StartRequest
      <3> QED BY <1>m, <2>1, <2>2, <3>1 DEF FailureInv, Failed
    <2>3. CASE pc' = "closed"
      <3>1. UNCHANGED <<rpc, stalled>>
        BY <1>6, <2>3 DEF DisableTools, reqVars
      <3> QED BY <1>s, <1>m, <2>1, <2>3, <3>1 DEF FailureInv
    <2> QED BY <2>1, <2>2, <2>3
  <1>7. CASE ForwardRetry
    <2> DEFINE e == ES!Event(IF Head(ch) = "token" THEN "token" ELSE "error")
    <2>1. /\ SendOrQuit(e, "retry") /\ e \in ES!Events
          /\ pc = "retry" /\ ch # <<>> /\ ch' = Tail(ch)
          /\ UNCHANGED <<rpc, result, stalled, ctxDone>> /\ ~SendDone
      BY <1>7, EventFacts DEF ForwardRetry, ES!EventTypes, SendDone, SendLast
    <2>2. e.type = IF Head(ch) = "token" THEN "token" ELSE "error"
      BY EventFields
    <2> HIDE DEF e
    <2>3. CASE pc' = "retry" /\ Len(log') = Len(log) + 1 /\ log'[Len(log) + 1] = e
      <3>1. log' # <<>>
        BY <1>s, <2>3
      <3>2. ES!LastType(log') = e.type
        BY <2>3, <3>1 DEF ES!LastType
      <3>3. ASSUME Failed, e.type = "token" PROVE ErrorWaits'
        <4>1. \A i \in 1..Len(log) : log[i].type # "error"
          BY <2>1 DEF IInv, LogInv
        <4>2. ErrorWaits
          BY <1>s, <2>1, <3>3, <4>1, LastTypeIs DEF FailureInv
        <4> QED BY <1>s, <2>1, <2>2, <3>3, <4>2, ErrorStaysBehind
      <3> QED BY <1>s, <2>1, <2>2, <2>3, <3>2, <3>3 DEF FailureInv, Failed
    <2>4. CASE pc' = "closed" /\ log' = log
      BY <1>s, <1>n, <2>1, <2>4 DEF FailureInv
    <2> QED BY <1>s, <2>1, <2>3, <2>4, SendFacts
  <1>8. CASE RetryClosed
    <2>1. /\ UNCHANGED <<rpc, ch, result, stalled, ctxDone, log>> /\ ch = <<>>
          /\ pc = "retry" /\ pc' = "done"
      BY <1>8 DEF RetryClosed, streamVars, reqVars
    <2>2. ~ErrorWaits
      BY <2>1 DEF ErrorWaits
    <2> QED BY <1>s, <1>n, <2>1, <2>2 DEF FailureInv, Failed
  <1>9. CASE NativeCalls \/ TextCalls \/ SendReplace \/ ContinueAnswer \/ StartCall \/ RunCall
             \/ ReportCall \/ RoundEnds \/ FinalAnswer
    <2>1. /\ UNCHANGED <<rpc, ch, result, stalled, ctxDone>>
          /\ pc \in {"inspect", "replace", "start", "exec", "report"} /\ ~SendDone
          /\ pc' \in {"round", "inspect", "replace", "start", "exec", "report", "done", "closed"}
      BY <1>9 DEF NativeCalls, TextCalls, SendReplace, ContinueAnswer, StartCall, RunCall,
           ReportCall, RoundEnds, FinalAnswer, SendOrQuit, SendDone, SendLast, streamVars, reqVars
    <2> QED BY <1>s, <1>m, <2>1 DEF FailureInv, Failed
  <1>10. CASE SendDone
    <2>1. /\ \A i \in 1..Len(log) : log'[i] = log[i]
          /\ Len(log') = Len(log) + 1
          /\ pc = "done" /\ pc' = "closed"
      BY <1>s, <1>10, SendLastFacts DEF SendDone
    <2>2. UNCHANGED <<rpc, result, stalled, ctxDone>>
      BY <1>10 DEF SendDone, streamVars, reqVars
    <2>3. ASSUME stalled, ~ctxDone, result = NoResult
          PROVE  Len(log') > 1 /\ log'[Len(log') - 1].type = "error"
      <3>1. ES!LastType(log) = "error"
        BY <1>s, <1>r, <2>1, <2>3 DEF FailureInv, Failed
      <3>2. log # <<>> /\ log[Len(log)].type = "error"
        BY <3>1 DEF ES!LastType
      <3>3. Len(log) \in 1..Len(log)
        BY <1>s, <3>2, LastTypeIs
      <3> QED BY <1>s, <2>1, <3>2, <3>3
    <2> QED BY <1>s, <2>1, <2>2, <2>3 DEF FailureInv
  <1>11. CASE StreamStep
    <2>1. UNCHANGED <<pc, log, errKind>> /\ StreamNext
      BY <1>11 DEF StreamStep, loopVars, roundVars
    <2>2. rpc \notin {"off", "closed"} /\ rpc' # "off"
      BY <2>1 DEF StreamNext, ConnectFails, HeadersArrive, UsageArrives, TokenArrives, SendToken,
           WatchdogFires, ReadFails, ErrorFrame, ReportFailure, ResponseEnds
    <2>3. pc \in {"forward", "retry", "closed"}
      BY <1>r, <2>2
    <2>4. ES!LastType(log) # "done"
      BY <1>s, <2>2, LastTypeIs DEF IInv, UsageInv
    <2>5. Failed' => ErrorWaits'
      BY <1>s, <2>1, FailureIsSent
    <2> QED BY <2>1, <2>2, <2>3, <2>4, <2>5 DEF FailureInv
  <1>12. CASE Receive \/ Cancel \/ Leave \/ Finished \/ UNCHANGED vars
    <2>1. UNCHANGED <<rpc, ch, result, stalled, pc, log, errKind>>
      BY <1>12 DEF Receive, Cancel, Leave, Finished, ReceiveEvent, CancelCall, LeaveCall,
           SeeClosed, vars, streamVars, reqVars, loopVars, roundVars
    <2>2. ctxDone' = ctxDone \/ ctxDone' = TRUE
      BY <1>12, Zenon DEF Receive, Cancel, Leave, Finished, ReceiveEvent, CancelCall, LeaveCall,
           SeeClosed, vars, streamVars
    <2> QED BY <1>s, <2>1, <2>2 DEF FailureInv, Failed, ErrorWaits
  <1> QED BY <1>1, <1>2, <1>3, <1>4, <1>5, <1>6, <1>7, <1>8, <1>9, <1>10, <1>11, <1>12
          DEF Next, LoopStep

-----------------------------------------------------------------------------
(* The theorems. *)

LEMMA InitIInv == Init => IInv
  <1> SUFFICES ASSUME Init PROVE IInv
    OBVIOUS
  <1>1. TypeOK /\ RoundInv
    BY InitTypeOK
  <1>2. RequestInv
    BY DEF Init, CallInit, StreamInit, RequestInv
  <1>3. LogInv /\ ReaderInv
    BY DEF Init, CallInit, LogInv, ReaderInv
  <1>4. MeterInv /\ UsageInv /\ RunsInv
    BY DEF Init, CallInit, StreamInit, MeterInv, UsageInv, LostUsage, RunsInv
  <1>5. FailureInv
    BY DEF Init, CallInit, StreamInit, FailureInv, Failed, ES!LastType
  <1> QED BY <1>1, <1>2, <1>3, <1>4, <1>5 DEF IInv

LEMMA InductiveInvariant == Spec => []IInv
  <1>1. IInv /\ [Next]_vars => IInv'
    BY NextTypeOK, NextRequestInv, NextLogInv, NextMeterInv, NextUsageInv, NextRunsInv, NextReaderInv,
       NextFailureInv
       DEF IInv
  <1> QED BY InitIInv, <1>1, PTL DEF Spec

\* The variables of an agent call keep their types.
THEOREM TypeCorrect == Spec => []TypeOK
  <1>1. IInv => TypeOK
    BY DEF IInv
  <1> QED BY InductiveInvariant, <1>1, PTL

\* No tool call is executed twice in one agent call, whatever the model
\* repeats in whichever round.
THEOREM RunsOnceHolds == Spec => []RunsOnce
  <1>1. IInv => RunsOnce
    BY DEF IInv, RunsInv, RunsOnce
  <1> QED BY InductiveInvariant, <1>1, PTL

\* A reported result stands for a call that was executed.
THEOREM ResultsAreRealHolds == Spec => []ResultsAreReal
  <1>1. IInv => ResultsAreReal
    BY DEF IInv, TypeOK, RunsInv, ResultsAreReal
  <1> QED BY InductiveInvariant, <1>1, PTL

\* Done reports the usage of every request of the call, but for what the last one
\* reported if it failed.
THEOREM UsageIsTotalHolds == Spec => []UsageIsTotal
  <1>1. IInv => UsageIsTotal
    BY DEF IInv, UsageInv, UsageIsTotal
  <1> QED BY InductiveInvariant, <1>1, PTL

\* A provider that fell silent is reported before Done, unless the caller
\* cancelled or the answer was complete.
THEOREM StallIsReportedHolds == Spec => []StallIsReported
  <1>1. IInv => StallIsReported
    BY DEF IInv, FailureInv, StallIsReported, ES!LastType
  <1> QED BY InductiveInvariant, <1>1, PTL

\* The final send never blocks on a caller that returned at an error.
THEOREM DoneNeverBlockedHolds == Spec => []DoneNeverBlocked
  <1>1. IInv => DoneNeverBlocked
    BY CapAssumption DEF IInv, TypeOK, CallTypeOK, ReaderInv, DoneNeverBlocked, HasRoom
  <1> QED BY InductiveInvariant, <1>1, PTL

-----------------------------------------------------------------------------
(* The agent loop implements the event protocol. *)

\* What the invariant says of the last event, in the protocol's words.
LEMMA LastEvent ==
  ASSUME IInv, pc # "closed"
  PROVE  /\ ES!LastType(log) # "done"
         /\ ES!LastType(log) = "error" => pc = "done" \/ (pc = "retry" /\ ch = <<>>)
         /\ ES!LastType(log) = "start" => pc \in {"exec", "report"}
         /\ pc = "report" =>
              /\ ES!LastType(log) = "start"
              /\ log[Len(log)].call = Head(todo)
         /\ ES!Disabled(log) => pc \in {"retry", "done"}
  <1>t. log \in Seq(ES!Events) /\ Len(log) \in Nat
    BY DEF IInv, TypeOK, CallTypeOK
  <1>1. ES!LastType(log) # "none" => log # <<>> /\ Len(log) \in 1..Len(log)
                                     /\ ES!LastType(log) = log[Len(log)].type
    BY <1>t, EmptySeq DEF ES!LastType
  <1>2. pc = "report" => ES!LastType(log) = "start" /\ log[Len(log)].call = Head(todo)
    BY EventFields DEF IInv, LogInv, ES!LastType
  <1>3. ES!Disabled(log) => pc \in {"retry", "done"}
    BY DEF ES!Disabled, IInv, LogInv
  <1> QED BY <1>1, <1>2, <1>3 DEF IInv, LogInv

LEMMA StepImplements ==
  ASSUME IInv, [Next]_vars
  PROVE  [ES!Next]_<<log, pc = "closed", ctxDone>>
  <1>t. log \in Seq(ES!Events) /\ todo \in Seq(Calls) /\ usage \in Nat
    BY DEF IInv, TypeOK, CallTypeOK
  <1>s. CASE log' = log /\ ctxDone' = ctxDone /\ (pc' = "closed" <=> pc = "closed")
    <2>1. (pc' = "closed") = (pc = "closed")
      BY <1>s
    <2> QED BY <1>s, <2>1
  <1>1. CASE Forward
    <2>1. CASE Head(ch) = "token"
      <3>1. SendOrQuit(ES!Event("token"), "forward") /\ ES!Event("token") \in ES!Events
        BY <1>1, <2>1, EventFacts DEF Forward, ES!EventTypes
      <3>2. pc = "forward" /\ ctxDone' = ctxDone
        BY <1>1 DEF Forward
      <3>3. ES!MayFollow(log, ES!Event("token"))
        BY <3>2, LastEvent, EventFields DEF ES!MayFollow
      <3> QED BY <1>t, <3>1, <3>2, <3>3, SendImplements, EventFields
    <2>2. CASE Head(ch) # "token"
      BY <1>1, <2>2, <1>s DEF Forward
    <2> QED BY <2>1, <2>2
  <1>2. CASE SendError
    <2>1. SendOrQuit(ES!Event("error"), "done") /\ ES!Event("error") \in ES!Events
      BY <1>2, EventFacts DEF SendError, ES!EventTypes
    <2>2. pc = "sendError" /\ ctxDone' = ctxDone
      BY <1>2 DEF SendError, streamVars
    <2>3. ES!MayFollow(log, ES!Event("error"))
      BY <2>2, LastEvent, EventFields DEF ES!MayFollow
    <2> QED BY <1>t, <2>1, <2>2, <2>3, SendImplements, EventFields
  <1>3. CASE DisableTools
    <2>1. /\ SendOrQuit(ES!Event("toolsDisabled"), "retry")
          /\ ES!Event("toolsDisabled") \in ES!Events
      BY <1>3, EventFacts DEF DisableTools, ES!EventTypes
    <2>2. pc = "disable" /\ ctxDone' = ctxDone
      BY <1>3 DEF DisableTools
    <2>3. ES!MayFollow(log, ES!Event("toolsDisabled"))
      BY <2>2, LastEvent, EventFields DEF ES!MayFollow
    <2> QED BY <1>t, <2>1, <2>2, <2>3, SendImplements, EventFields
  <1>4. CASE ForwardRetry
    <2> DEFINE e == ES!Event(IF Head(ch) = "token" THEN "token" ELSE "error")
    <2>1. SendOrQuit(e, "retry") /\ e \in ES!Events
      BY <1>4, EventFacts DEF ForwardRetry, ES!EventTypes
    <2>2. pc = "retry" /\ ch # <<>> /\ ctxDone' = ctxDone
      BY <1>4 DEF ForwardRetry
    <2>3. e.type \in {"token", "error"}
      BY EventFields
    <2> HIDE DEF e
    <2>4. ES!MayFollow(log, e)
      BY <2>2, <2>3, LastEvent DEF ES!MayFollow
    <2> QED BY <1>t, <2>1, <2>2, <2>3, <2>4, SendImplements
  <1>5. CASE SendReplace
    <2>1. SendOrQuit(ES!Event("replace"), "start") /\ ES!Event("replace") \in ES!Events
      BY <1>5, EventFacts DEF SendReplace, ES!EventTypes
    <2>2. pc = "replace" /\ ctxDone' = ctxDone
      BY <1>5 DEF SendReplace, streamVars
    <2>3. ES!MayFollow(log, ES!Event("replace"))
      BY <2>2, LastEvent, EventFields DEF ES!MayFollow
    <2> QED BY <1>t, <2>1, <2>2, <2>3, SendImplements, EventFields
  <1>6. CASE StartCall
    <2> DEFINE e == ES!CallEvent("start", Head(todo))
    <2>1. SendOrQuit(e, "exec") /\ e \in ES!Events
      BY <1>6, <1>t, HeadTailProperties, EventFacts DEF StartCall, ES!EventTypes
    <2>2. pc = "start" /\ ctxDone' = ctxDone
      BY <1>6 DEF StartCall, streamVars
    <2>3. e.type = "start"
      BY EventFields
    <2> HIDE DEF e
    <2>4. ES!MayFollow(log, e)
      BY <2>2, <2>3, LastEvent DEF ES!MayFollow
    <2> QED BY <1>t, <2>1, <2>2, <2>3, <2>4, SendImplements
  <1>7. CASE ReportCall
    <2> DEFINE e == ES!CallEvent("result", Head(todo))
    <2>1. SendOrQuit(e, "start") /\ e \in ES!Events
      BY <1>7, <1>t, HeadTailProperties, EventFacts
         DEF ReportCall, IInv, LogInv, ES!EventTypes
    <2>2. pc = "report" /\ ctxDone' = ctxDone
      BY <1>7 DEF ReportCall, streamVars
    <2>3. e.type = "result" /\ e = ES!CallEvent("result", log[Len(log)].call)
      BY <2>2, LastEvent, EventFields
    <2> HIDE DEF e
    <2>4. ES!MayFollow(log, e)
      BY <2>2, <2>3, LastEvent DEF ES!MayFollow
    <2> QED BY <1>t, <2>1, <2>2, <2>3, <2>4, SendImplements
  <1>8. CASE SendDone
    <2>1. SendLast /\ pc = "done" /\ ctxDone' = ctxDone
      BY <1>8 DEF SendDone, SendLast, streamVars
    <2>2. ES!MayFollow(log, ES!DoneEvent(usage))
      BY <2>1, LastEvent, EventFields DEF ES!MayFollow
    <2> QED BY <1>t, <2>1, <2>2, SendLastImplements
  <1>9. CASE StartRound \/ RoundsExhausted \/ StreamClosed \/ NativeCalls \/ TextCalls
             \/ ContinueAnswer \/ FinalAnswer \/ RoundEnds \/ RetryClosed \/ RunCall
    <2>1. log' = log /\ ctxDone' = ctxDone /\ pc # "closed" /\ pc' # "closed"
      BY <1>9 DEF StartRound, RoundsExhausted, StreamClosed, NativeCalls, TextCalls,
           ContinueAnswer, FinalAnswer, RoundEnds, RetryClosed, RunCall, streamVars
    <2> QED BY <1>s, <2>1
  <1>10. CASE StreamStep \/ Finished \/ UNCHANGED vars
    <2>1. UNCHANGED <<log, pc, ctxDone>>
      BY <1>10 DEF StreamStep, StreamNext, ConnectFails, HeadersArrive, UsageArrives, TokenArrives,
           SendToken, WatchdogFires, ReadFails, ErrorFrame, ReportFailure, ResponseEnds,
           Finished, SeeClosed, vars, loopVars, streamVars
    <2> QED BY <1>s, <2>1
  <1>11. CASE Receive \/ Cancel \/ Leave
    BY <1>11, CallerImplements DEF Receive, Cancel, Leave
  <1> QED BY <1>1, <1>2, <1>3, <1>4, <1>5, <1>6, <1>7, <1>8, <1>9, <1>10, <1>11
          DEF Next, LoopStep

\* The agent loop implements the event protocol its callers rely on.
THEOREM Implements == Spec => ImplementsEventStream
  <1>1. Init => ES!Init
    <2> SUFFICES ASSUME Init PROVE ES!Init
      OBVIOUS
    <2>1. log = <<>> /\ pc = "round" /\ ctxDone = FALSE
      BY DEF Init, CallInit, StreamInit
    <2>2. (pc = "closed") = FALSE
      BY <2>1
    <2> QED BY <2>1, <2>2, Zenon DEF ES!Init
  <1>2. IInv /\ [Next]_vars => [ES!Next]_<<log, pc = "closed", ctxDone>>
    BY StepImplements
  <1> QED BY <1>1, <1>2, InductiveInvariant, PTL DEF Spec, ImplementsEventStream, ES!Spec

-----------------------------------------------------------------------------
(* The plain chat call.  It forwards errors as they come, so that the place *)
(* of an error, in ch, on its way, or last in log, is what its invariant is *)
(* about.                                                                   *)

PlainTypeOK ==
  /\ CallTypeOK
  /\ pc \in PlainLoopStates
  /\ attempt \in Nat
  /\ continued \in BOOLEAN

\* The request: an error is the last thing a stream carries, and a stream
\* that carried one, or was dropped, has no result.
PlainRequestInv ==
  /\ \A i \in 1..Len(ch) :
       ch[i] # "token" => i = Len(ch) /\ rpc = "closed" /\ result = NoResult
  /\ result # NoResult => rpc = "closed"
  /\ pc \notin {"forward", "closed"} => rpc \in {"off", "closed"}

\* What has been sent: after an error nothing comes from the request.
PlainLogInv ==
  /\ \A i \in 1..Len(log) : log[i].type \in {"token", "error", "done"}
  /\ \A i \in 1..Len(log) : log[i].type = "done" => i = Len(log) /\ pc = "closed"
  /\ \A i \in 1..Len(log) : log[i].type = "error" /\ pc # "closed" =>
       /\ i = Len(log) /\ result = NoResult
       /\ pc = "done" \/ (pc = "forward" /\ ch = <<>> /\ rpc = "closed")

\* The usage summed so far lacks only what the running request reported, or the
\* last one, if it failed.
PlainUsageInv ==
  /\ result # NoResult => result.usage = metered
  /\ pc = "forward" => billed = usage + metered
  /\ pc = "round" => billed = usage /\ LostUsage = 0
  /\ pc = "done" => billed = usage + LostUsage
  /\ \A i \in 1..Len(log) : log[i].type = "done" =>
       log[i].usage + LostUsage = billed /\ rpc \in {"off", "closed"}

\* The error of a request that failed is in ch, or the last event sent.
PlainFailureInv ==
  /\ pc = "forward" /\ Failed => ES!LastType(log) = "error" \/ ErrorWaits
  /\ pc = "done" /\ Failed => ES!LastType(log) = "error"
  /\ pc = "done" => rpc = "closed"
  /\ ES!LastType(log) = "done" /\ ~ctxDone /\ result = NoResult =>
       Len(log) > 1 /\ log[Len(log) - 1].type = "error"

\* A caller that returned at an error has read everything sent so far.
PlainReaderInv ==
  reader = "left" /\ pc # "closed" =>
    log # <<>> /\ log[Len(log)].type = "error" /\ nread = Len(log)

PlainIInv ==
  /\ PlainTypeOK /\ PlainRequestInv /\ PlainLogInv
  /\ PlainUsageInv /\ PlainFailureInv /\ PlainReaderInv

-----------------------------------------------------------------------------
(* Lemmas *)

\* A call starts with nothing sent and nothing billed.
LEMMA PlainInitIInv == PlainInit => PlainIInv
  <1> SUFFICES ASSUME PlainInit PROVE PlainIInv
    OBVIOUS
  <1>1. StreamTypeOK
    BY StreamInitTypes DEF PlainInit, CallInit
  <1>2. PlainTypeOK
    <2>1. continued \in BOOLEAN
      BY Zenon DEF PlainInit, CallInit
    <2> QED BY <1>1, <2>1 DEF PlainInit, CallInit, PlainTypeOK, CallTypeOK, PlainLoopStates
  <1>3. /\ pc = "round" /\ rpc = "off" /\ ch = <<>> /\ result = NoResult
        /\ log = <<>> /\ usage = 0 /\ billed = 0 /\ metered = 0 /\ reader = "reading"
    BY DEF PlainInit, CallInit, StreamInit
  <1>4. PlainRequestInv /\ PlainLogInv /\ PlainUsageInv /\ PlainReaderInv
    BY <1>3 DEF PlainRequestInv, PlainLogInv, PlainUsageInv, LostUsage, PlainReaderInv
  <1>5. PlainFailureInv
    BY <1>3 DEF PlainFailureInv, Failed, ES!LastType
  <1> QED BY <1>2, <1>4, <1>5 DEF PlainIInv

\* The event that stands for what comes out of ch.
Relayed == ES!Event(IF Head(ch) = "token" THEN "token" ELSE "error")

\* What is forwarded, and when.
LEMMA Forwarded ==
  ASSUME PlainIInv, PlainForward
  PROVE  /\ SendOrQuit(Relayed, "forward") /\ Relayed \in ES!Events
         /\ Relayed.type \in {"token", "error"}
         /\ pc = "forward" /\ ch' \in Seq(RawEvents) /\ Len(ch) \in Nat /\ Len(ch) > 0
         /\ Len(ch') = Len(ch) - 1 /\ \A i \in 1..Len(ch') : ch'[i] = ch[i + 1]
         /\ Relayed.type = "token" => ch[1] = "token"
         /\ Relayed.type = "error" => ch' = <<>> /\ rpc = "closed" /\ result = NoResult
         /\ \A i \in 1..Len(log) : log[i].type = "token"
  <1>1. SendOrQuit(Relayed, "forward") /\ Relayed \in ES!Events
    BY EventFacts DEF PlainForward, Relayed, ES!EventTypes
  <1>2. Relayed.type = IF Head(ch) = "token" THEN "token" ELSE "error"
    BY EventFields DEF Relayed
  <1>3. pc = "forward" /\ ch # <<>> /\ ch \in Seq(RawEvents)
    BY DEF PlainForward, PlainIInv, PlainTypeOK, CallTypeOK, StreamTypeOK
  <1>4. Len(ch) \in Nat /\ Len(ch) > 0
    BY <1>3, EmptySeq
  <1>5. /\ Len(ch') = Len(ch) - 1 /\ (\A i \in 1..Len(ch') : ch'[i] = ch[i + 1])
        /\ Head(ch) = ch[1] /\ ch' \in Seq(RawEvents)
    <2>1. StreamTypeOK /\ ch' = Tail(ch)
             /\ UNCHANGED <<adapter, rpc, rtools, result, tokens, metered, stalled, ctxDone, billed>>
      BY DEF PlainForward, PlainIInv, PlainTypeOK, CallTypeOK
    <2> QED BY <1>3, <2>1, DequeueTypes DEF StreamTypeOK
  <1>6. \A i \in 1..Len(log) : log[i].type = "token"
    BY <1>3 DEF PlainIInv, PlainLogInv
  <1>7. ch[1] # "token" => Len(ch) = 1 /\ rpc = "closed" /\ result = NoResult
    <2>1. 1 \in 1..Len(ch) /\ PlainRequestInv
      BY <1>4 DEF PlainIInv
    <2> QED BY <2>1, Zenon DEF PlainRequestInv
  <1>8. Relayed.type = "error" => ch' = <<>> /\ rpc = "closed" /\ result = NoResult
    BY <1>2, <1>4, <1>5, <1>7, EmptySeq
  <1> QED BY <1>1, <1>2, <1>3, <1>4, <1>5, <1>6, <1>8

-----------------------------------------------------------------------------
(* Type correctness. *)

\* Every step keeps the types.
LEMMA PlainNextTypeOK ==
  ASSUME PlainIInv, [PlainNext]_plainVars
  PROVE  PlainTypeOK'
  <1> USE DEF PlainIInv, PlainTypeOK, CallTypeOK, PlainLoopStates, plainLoopVars, attemptVars, callerVars
  <1>0. Len(log) \in Nat /\ nread \in 0..Len(log)
    OBVIOUS
  <1>1. CASE StartAttempt
    <2>1. StreamTypeOK'
      BY <1>1, StartRequestTypes DEF StartAttempt
    <2> QED BY <1>1, <2>1 DEF StartAttempt
  <1>2. CASE PlainForward
    <2>1. StreamTypeOK'
      BY <1>2, DequeueTypes DEF PlainForward
    <2>2. SendOrQuit(Relayed, "forward") /\ Relayed \in ES!Events
      BY <1>2, Forwarded
    <2> QED BY <1>0, <1>2, <2>1, <2>2, SendFacts DEF PlainForward
  <1>3. CASE LastAttempt \/ PlainContinueAnswer
    <2>1. result.usage \in {0, 1}
      BY ResultFacts DEF StreamTypeOK
    <2>2. StreamTypeOK' /\ usage' \in Nat
      BY <1>3, <2>1, StreamStutterTypes DEF LastAttempt, PlainContinueAnswer
    <2>3. (continued \in BOOLEAN)'
      <3>1. CASE LastAttempt
        BY <3>1 DEF LastAttempt
      <3>2. CASE PlainContinueAnswer
        BY <3>2 DEF PlainContinueAnswer
      <3> QED BY <1>3, <3>1, <3>2
    <2>4. attempt' \in Nat /\ pc' \in PlainLoopStates
      BY <1>3 DEF LastAttempt, PlainContinueAnswer
    <2> QED BY <1>0, <1>3, <2>2, <2>3, <2>4 DEF LastAttempt, PlainContinueAnswer
  <1>4. CASE PlainSendDone
    BY <1>0, <1>4, SendLastFacts, StreamStutterTypes DEF PlainSendDone
  <1>5. CASE PlainStreamStep
    BY <1>5, StreamNextTypes DEF PlainStreamStep
  <1>6. CASE PlainReceive \/ PlainCancel \/ PlainLeave \/ PlainFinished
    <2>1. CallTypeOK'
      BY <1>6, CallerTypes DEF PlainReceive, PlainCancel, PlainLeave, PlainFinished
    <2>2. UNCHANGED <<pc, attemptVars>>
      BY <1>6 DEF PlainReceive, PlainCancel, PlainLeave, PlainFinished, ReceiveEvent, CancelCall,
                  LeaveCall, SeeClosed
    <2> QED BY <2>1, <2>2
  <1>7. CASE UNCHANGED plainVars
    BY <1>7, StreamStutterTypes DEF plainVars
  <1> QED BY <1>1, <1>2, <1>3, <1>4, <1>5, <1>6, <1>7 DEF PlainNext, PlainLoopStep

-----------------------------------------------------------------------------
(* What the steps of the request and of the caller do to the others. *)

\* A step of the request happens while the loop forwards, or after it gave up.
LEMMA RequestStep ==
  ASSUME PlainIInv, PlainStreamStep
  PROVE  /\ UNCHANGED <<pc, usage, log, ctxDone, nread, reader>>
         /\ pc \in {"forward", "closed"} /\ rpc \notin {"off", "closed"}
         /\ result = NoResult /\ \A i \in 1..Len(ch) : ch[i] = "token"
         /\ \A i \in 1..Len(log) : /\ log[i].type # "done"
                                   /\ pc = "forward" => log[i].type = "token"
  <1>1. UNCHANGED <<pc, usage, log, nread, reader>> /\ StreamNext
    BY DEF PlainStreamStep, plainLoopVars, callerVars
  <1>2. rpc \notin {"off", "closed"} /\ ctxDone' = ctxDone
    BY <1>1 DEF StreamNext, ConnectFails, HeadersArrive, UsageArrives, TokenArrives, SendToken,
         WatchdogFires, ReadFails, ErrorFrame, ReportFailure, ResponseEnds
  <1>3. pc \in PlainLoopStates
    BY DEF PlainIInv, PlainTypeOK
  <1> QED BY <1>1, <1>2, <1>3 DEF PlainIInv, PlainRequestInv, PlainLogInv, PlainUsageInv, PlainLoopStates

\* The caller's steps leave the call alone, and a context that is cancelled
\* stays cancelled.
LEMMA CallerStep ==
  ASSUME PlainReceive \/ PlainCancel \/ PlainLeave \/ PlainFinished \/ UNCHANGED plainVars
  PROVE  /\ UNCHANGED <<rpc, ch, result, metered, billed, pc, usage, log>>
         /\ ~ctxDone' => ~ctxDone
  <1>1. UNCHANGED <<rpc, ch, result, metered, billed, pc, usage, log>>
    BY DEF PlainReceive, PlainCancel, PlainLeave, PlainFinished, ReceiveEvent, CancelCall, LeaveCall,
         SeeClosed, plainVars, streamVars, reqVars, plainLoopVars
  <1>2. ctxDone' = ctxDone \/ ctxDone' = TRUE
    BY Zenon DEF PlainReceive, PlainCancel, PlainLeave, PlainFinished, ReceiveEvent, CancelCall, LeaveCall,
         SeeClosed, plainVars, streamVars
  <1> QED BY <1>1, <1>2

\* An error stays the last thing in ch.
LEMMA PlainNextRequestInv ==
  ASSUME PlainIInv, [PlainNext]_plainVars
  PROVE  PlainRequestInv'
  <1>s. PlainRequestInv /\ ch \in Seq(RawEvents) /\ Len(ch) \in Nat
    BY DEF PlainIInv, PlainTypeOK, CallTypeOK, StreamTypeOK
  <1>1. CASE StartAttempt
    BY <1>1 DEF StartAttempt, StartRequest, PlainRequestInv
  <1>2. CASE PlainForward
    <2>1. pc' \in {"forward", "closed"} /\ UNCHANGED <<rpc, result>>
      BY <1>2 DEF PlainForward, SendOrQuit
    <2>2. /\ Len(ch) > 0 /\ Len(ch') = Len(ch) - 1
          /\ \A i \in 1..Len(ch') : ch'[i] = ch[i + 1]
      BY <1>2, Forwarded
    <2> QED BY <1>s, <2>1, <2>2 DEF PlainRequestInv
  <1>3. CASE LastAttempt \/ PlainContinueAnswer \/ PlainSendDone
    <2>1. UNCHANGED <<ch, rpc, result>> /\ rpc \in {"off", "closed"}
      BY <1>s, <1>3 DEF LastAttempt, PlainContinueAnswer, PlainSendDone, SendLast, StreamDrained,
           PlainRequestInv, streamVars, reqVars
    <2> QED BY <1>s, <2>1 DEF PlainRequestInv
  <1>4. CASE PlainStreamStep
    <2>1. /\ pc' = pc /\ pc \in {"forward", "closed"} /\ rpc # "closed" /\ result = NoResult
          /\ \A i \in 1..Len(ch) : ch[i] = "token"
      BY <1>4, RequestStep
    <2>2. StreamNext
      BY <1>4 DEF PlainStreamStep
    <2>3. CASE ConnectFails \/ ReportFailure \/ SendToken
      BY <1>s, <2>1, <2>3 DEF ConnectFails, ReportFailure, SendToken, PlainRequestInv
    <2>4. CASE HeadersArrive \/ TokenArrives \/ UsageArrives \/ WatchdogFires \/ ReadFails \/ ErrorFrame
      BY <2>1, <2>4 DEF HeadersArrive, UsageArrives, TokenArrives, WatchdogFires, ReadFails, ErrorFrame,
           PlainRequestInv
    <2>5. CASE ResponseEnds
      BY <2>1, <2>5 DEF ResponseEnds, PlainRequestInv
    <2> QED BY <2>2, <2>3, <2>4, <2>5 DEF StreamNext
  <1>5. CASE PlainReceive \/ PlainCancel \/ PlainLeave \/ PlainFinished \/ UNCHANGED plainVars
    BY <1>s, <1>5, CallerStep DEF PlainRequestInv
  <1> QED BY <1>1, <1>2, <1>3, <1>4, <1>5 DEF PlainNext, PlainLoopStep

\* An error that was sent ends the forwarding; only Done follows.
LEMMA PlainNextLogInv ==
  ASSUME PlainIInv, [PlainNext]_plainVars
  PROVE  PlainLogInv'
  <1>s. PlainLogInv /\ log \in Seq(ES!Events) /\ Len(log) \in Nat /\ usage \in Nat
    BY DEF PlainIInv, PlainTypeOK, CallTypeOK
  <1>1. CASE StartAttempt \/ LastAttempt \/ PlainContinueAnswer
    <2>1. log' = log /\ pc' # "closed" /\ pc \in {"round", "forward"}
      BY <1>1 DEF StartAttempt, LastAttempt, PlainContinueAnswer, StreamDrained
    <2>2. CASE \A i \in 1..Len(log) : log[i].type # "error"
      BY <1>s, <2>1, <2>2 DEF PlainLogInv
    <2>3. CASE \E i \in 1..Len(log) : log[i].type = "error"
      <3>1. pc = "forward" /\ result = NoResult
        BY <1>s, <2>1, <2>3 DEF PlainLogInv
      <3>2. ~Truncated
        BY <3>1 DEF Truncated, NoResult
      <3>3. pc' = "done" /\ result' = result
        BY <1>1, <3>1, <3>2 DEF StartAttempt, LastAttempt, PlainContinueAnswer, streamVars, reqVars
      <3> QED BY <1>s, <2>1, <3>1, <3>3 DEF PlainLogInv
    <2> QED BY <2>2, <2>3
  <1>2. CASE PlainForward
    <2>1. /\ SendOrQuit(Relayed, "forward") /\ Relayed \in ES!Events
          /\ Relayed.type \in {"token", "error"}
          /\ Relayed.type = "error" => ch' = <<>> /\ rpc = "closed" /\ result = NoResult
          /\ \A i \in 1..Len(log) : log[i].type = "token"
      BY <1>2, Forwarded
    <2>2. UNCHANGED <<rpc, result>>
      BY <1>2 DEF PlainForward
    <2>3. /\ \A i \in 1..Len(log) : log'[i] = log[i]
          /\ \/ pc' = "forward" /\ Len(log') = Len(log) + 1 /\ log'[Len(log) + 1] = Relayed
             \/ pc' = "closed" /\ log' = log
      BY <1>s, <2>1, SendFacts
    <2>4. CASE pc' = "forward" /\ Len(log') = Len(log) + 1 /\ log'[Len(log) + 1] = Relayed
      BY <1>s, <2>1, <2>2, <2>3, <2>4 DEF PlainLogInv
    <2>5. CASE pc' = "closed" /\ log' = log
      BY <1>s, <2>1, <2>5 DEF PlainLogInv
    <2> QED BY <2>3, <2>4, <2>5
  <1>3. CASE PlainSendDone
    <2>1. /\ \A i \in 1..Len(log) : log'[i] = log[i]
          /\ Len(log') = Len(log) + 1 /\ log'[Len(log) + 1] = ES!DoneEvent(usage)
          /\ pc = "done" /\ pc' = "closed"
      BY <1>s, <1>3, SendLastFacts DEF PlainSendDone
    <2>2. ES!DoneEvent(usage).type = "done"
      BY EventFields
    <2> QED BY <1>s, <2>1, <2>2 DEF PlainLogInv
  <1>4. CASE PlainStreamStep
    <2>1. /\ UNCHANGED <<pc, log>> /\ pc \in {"forward", "closed"}
          /\ \A i \in 1..Len(log) : /\ log[i].type # "done"
                                    /\ pc = "forward" => log[i].type = "token"
      BY <1>4, RequestStep
    <2> QED BY <1>s, <2>1 DEF PlainLogInv
  <1>5. CASE PlainReceive \/ PlainCancel \/ PlainLeave \/ PlainFinished \/ UNCHANGED plainVars
    BY <1>s, <1>5, CallerStep DEF PlainLogInv
  <1> QED BY <1>1, <1>2, <1>3, <1>4, <1>5 DEF PlainNext, PlainLoopStep

\* The usage is summed as a request ends, before the next is billed.
LEMMA PlainNextUsageInv ==
  ASSUME PlainIInv, [PlainNext]_plainVars
  PROVE  PlainUsageInv'
  <1> USE DEF LostUsage
  <1>s. /\ PlainUsageInv /\ Len(log) \in Nat /\ log \in Seq(ES!Events)
        /\ usage \in Nat /\ billed \in Nat /\ metered \in {0, 1}
        /\ result.usage \in {0, 1} /\ NoResult.usage = 0
    BY ResultFacts DEF PlainIInv, PlainTypeOK, CallTypeOK, StreamTypeOK, NoResult
  <1>n. pc # "closed" => \A i \in 1..Len(log) : log[i].type # "done"
    BY DEF PlainIInv, PlainLogInv
  <1>1. CASE StartAttempt
    BY <1>s, <1>n, <1>1 DEF StartAttempt, StartRequest, PlainUsageInv
  <1>2. CASE PlainForward
    <2>1. /\ SendOrQuit(Relayed, "forward") /\ Relayed \in ES!Events
          /\ Relayed.type \in {"token", "error"}
          /\ pc = "forward"
      BY <1>2, Forwarded
    <2>2. UNCHANGED <<usage, billed, result, metered>>
      BY <1>2 DEF PlainForward
    <2>3. pc' \in {"forward", "closed"} /\ \A i \in 1..Len(log') : log'[i].type # "done"
      BY <1>s, <1>n, <2>1, SendFacts
    <2> QED BY <1>s, <2>1, <2>2, <2>3 DEF PlainUsageInv
  <1>3. CASE LastAttempt \/ PlainContinueAnswer
    <2>1. Truncated => result # NoResult
      BY DEF Truncated, NoResult
    <2> QED BY <1>s, <1>n, <1>3, <2>1 DEF LastAttempt, PlainContinueAnswer, StreamDrained, streamVars,
           reqVars, PlainUsageInv
  <1>4. CASE PlainSendDone
    <2>1. /\ Len(log') = Len(log) + 1
          /\ \A i \in 1..Len(log) : log'[i] = log[i]
          /\ log'[Len(log) + 1] = ES!DoneEvent(usage)
          /\ pc = "done" /\ pc' = "closed"
      BY <1>s, <1>4, SendLastFacts DEF PlainSendDone
    <2>2. UNCHANGED <<billed, rpc, result, metered>> /\ rpc \in {"off", "closed"}
      BY <1>4, <2>1 DEF PlainSendDone, streamVars, reqVars, PlainIInv, PlainRequestInv
    <2> QED BY <1>s, <1>n, <2>1, <2>2, EventFields DEF PlainUsageInv
  <1>5. CASE PlainStreamStep
    <2>1. /\ UNCHANGED <<pc, usage, log>> /\ pc \in {"forward", "closed"} /\ result = NoResult
          /\ \A i \in 1..Len(log) : log[i].type # "done"
      BY <1>5, RequestStep
    <2>2. billed' + metered = billed + metered'
      <3>1. CASE UsageArrives
        BY <1>s, <3>1 DEF UsageArrives
      <3>2. CASE ~UsageArrives
        BY <1>5, <3>2 DEF PlainStreamStep, StreamNext, ConnectFails, HeadersArrive, UsageArrives, TokenArrives,
             SendToken, WatchdogFires, ReadFails, ErrorFrame, ReportFailure, ResponseEnds
      <3> QED BY <3>1, <3>2
    <2>3. billed' \in Nat /\ metered' \in {0, 1}
      BY PlainNextTypeOK DEF PlainTypeOK, CallTypeOK, StreamTypeOK
    <2>4. result' # NoResult => result'.usage = metered'
      <3>1. CASE ResponseEnds
        BY <3>1 DEF ResponseEnds
      <3>2. CASE ~ResponseEnds
        BY <1>5, <2>1, <3>2 DEF PlainStreamStep, StreamNext, ConnectFails, HeadersArrive, UsageArrives,
             TokenArrives, SendToken, WatchdogFires, ReadFails, ErrorFrame, ReportFailure
      <3> QED BY <3>1, <3>2
    <2>5. pc' = "forward" => billed' = usage' + metered'
      <3>1. pc = "forward" => billed = usage + metered
        BY <1>s DEF PlainUsageInv
      <3>2. pc' = pc /\ usage' = usage
        BY <2>1
      <3>3. usage \in Nat /\ billed \in Nat /\ metered \in Nat /\ billed' \in Nat /\ metered' \in Nat
        BY <1>s, <2>3
      <3>4. ASSUME pc' = "forward" PROVE billed' = usage' + metered'
        <4>1. billed = usage + metered
          BY <3>1, <3>2, <3>4
        <4>2. billed' + metered = billed + metered'
          BY <2>2
        <4>3. \A b, m \in Nat : b + metered = billed + m => b = usage + m
          BY <3>3, <4>1
        <4>4. billed' = usage + metered'
          BY <3>3, <4>2, <4>3
        <4> QED BY <3>2, <4>4, Zenon
      <3> QED BY <3>4
    <2>6. pc' \notin {"round", "done"}
      <3>1. pc' = pc /\ pc \in {"forward", "closed"}
        BY <2>1
      <3> QED BY <3>1
    <2>7. \A i \in 1..Len(log') : log'[i].type # "done"
      <3>1. log' = log /\ \A i \in 1..Len(log) : log[i].type # "done"
        BY <2>1
      <3> QED BY <3>1
    <2> QED BY <2>4, <2>5, <2>6, <2>7 DEF PlainUsageInv
  <1>6. CASE PlainReceive \/ PlainCancel \/ PlainLeave \/ PlainFinished \/ UNCHANGED plainVars
    BY <1>s, <1>6, CallerStep DEF PlainUsageInv
  <1> QED BY <1>1, <1>2, <1>3, <1>4, <1>5, <1>6 DEF PlainNext, PlainLoopStep

\* A request that ends without a result leaves its error.
LEMMA PlainNextFailureInv ==
  ASSUME PlainIInv, [PlainNext]_plainVars
  PROVE  PlainFailureInv'
  <1>s. /\ PlainFailureInv /\ Len(log) \in Nat /\ log \in Seq(ES!Events) /\ usage \in Nat
        /\ ch \in Seq(RawEvents) /\ Len(ch) \in Nat
    BY DEF PlainIInv, PlainTypeOK, CallTypeOK, StreamTypeOK
  <1>n. pc # "closed" => ES!LastType(log) # "done"
    <2>1. log # <<>> => Len(log) \in 1..Len(log)
      BY <1>s, EmptySeq
    <2> QED BY <2>1 DEF PlainIInv, PlainLogInv, ES!LastType
  <1>1. CASE StartAttempt
    BY <1>n, <1>1 DEF StartAttempt, StartRequest, PlainFailureInv, Failed
  <1>2. CASE PlainForward
    <2>1. /\ SendOrQuit(Relayed, "forward") /\ Relayed \in ES!Events
          /\ Relayed.type \in {"token", "error"} /\ Len(ch) > 0
          /\ Len(ch') = Len(ch) - 1 /\ \A i \in 1..Len(ch') : ch'[i] = ch[i + 1]
          /\ Relayed.type = "token" => ch[1] = "token"
          /\ \A i \in 1..Len(log) : log[i].type = "token"
      BY <1>2, Forwarded
    <2>2. pc = "forward" /\ UNCHANGED <<rpc, result, ctxDone>>
      BY <1>2 DEF PlainForward
    <2>3. CASE pc' = "forward" /\ Len(log') = Len(log) + 1 /\ log'[Len(log) + 1] = Relayed
      <3>1. ES!LastType(log') = Relayed.type
        <4>1. log' # <<>>
          BY <1>s, <2>3, EmptySeq
        <4> QED BY <2>3, <4>1 DEF ES!LastType
      <3>2. ASSUME Failed', Relayed.type = "token" PROVE ErrorWaits'
        <4>1. ES!LastType(log) # "error"
          BY <1>s, <2>1, LastTypeIs
        <4>2. ErrorWaits
          BY <1>s, <2>2, <3>2, <4>1 DEF PlainFailureInv, Failed
        <4>3. ch # <<>> /\ ch' = Tail(ch) /\ Head(ch) = "token"
          BY <1>2, <3>2, EventFields DEF PlainForward, Relayed
        <4> QED BY <1>s, <4>2, <4>3, ErrorStaysBehind
      <3> QED BY <2>1, <2>3, <3>1, <3>2 DEF PlainFailureInv
    <2>4. CASE pc' = "closed" /\ log' = log /\ ctxDone
      BY <1>n, <2>2, <2>4 DEF PlainFailureInv
    <2> QED BY <1>s, <2>1, <2>3, <2>4, SendFacts
  <1>3. CASE LastAttempt
    <2>1. pc = "forward" /\ ch = <<>> /\ rpc = "closed" /\ pc' = "done"
          /\ UNCHANGED <<rpc, ch, result, ctxDone, log>>
      BY <1>3 DEF LastAttempt, StreamDrained, streamVars, reqVars
    <2> QED BY <1>s, <1>n, <2>1 DEF PlainFailureInv, Failed, ErrorWaits
  <1>4. CASE PlainContinueAnswer
    BY <1>n, <1>4 DEF PlainContinueAnswer, StreamDrained, PlainFailureInv
  <1>5. CASE PlainSendDone
    <2>1. /\ \A i \in 1..Len(log) : log'[i] = log[i]
          /\ Len(log') = Len(log) + 1
          /\ pc = "done" /\ pc' = "closed"
      BY <1>s, <1>5, SendLastFacts DEF PlainSendDone
    <2>2. UNCHANGED <<rpc, result, ctxDone>>
      BY <1>5 DEF PlainSendDone, streamVars, reqVars
    <2>3. ASSUME ~ctxDone, result = NoResult
          PROVE  Len(log') > 1 /\ log'[Len(log') - 1].type = "error"
      <3>1. ES!LastType(log) = "error"
        BY <1>s, <2>1, <2>3 DEF PlainFailureInv, Failed
      <3>2. log # <<>> /\ log[Len(log)].type = "error"
        BY <3>1 DEF ES!LastType
      <3>3. Len(log) \in 1..Len(log)
        BY <1>s, <3>2, EmptySeq
      <3> QED BY <1>s, <2>1, <3>2, <3>3
    <2> QED BY <2>1, <2>2, <2>3 DEF PlainFailureInv
  <1>6. CASE PlainStreamStep
    <2>1. /\ UNCHANGED <<pc, log, ctxDone>> /\ pc \in {"forward", "closed"}
          /\ \A i \in 1..Len(log) : log[i].type # "done"
      BY <1>6, RequestStep
    <2>2. ES!LastType(log) # "done"
      <3>1. log # <<>> => Len(log) \in 1..Len(log)
        BY <1>s, EmptySeq
      <3> QED BY <2>1, <3>1 DEF ES!LastType
    <2>3. Failed' => ErrorWaits'
      BY <1>s, <1>6, FailureIsSent DEF PlainStreamStep
    <2> QED BY <2>1, <2>2, <2>3 DEF PlainFailureInv
  <1>7. CASE PlainReceive \/ PlainCancel \/ PlainLeave \/ PlainFinished \/ UNCHANGED plainVars
    <2>1. UNCHANGED <<rpc, ch, result, pc, log>> /\ (~ctxDone' => ~ctxDone)
      BY <1>7, CallerStep
    <2> QED BY <1>s, <2>1 DEF PlainFailureInv, Failed, ErrorWaits
  <1> QED BY <1>1, <1>2, <1>3, <1>4, <1>5, <1>6, <1>7 DEF PlainNext, PlainLoopStep

\* Nothing is sent to a caller that returned at an error, but Done.
LEMMA PlainNextReaderInv ==
  ASSUME PlainIInv, [PlainNext]_plainVars
  PROVE  PlainReaderInv'
  <1>s. /\ PlainReaderInv /\ Len(log) \in Nat /\ nread \in 0..Len(log)
    BY DEF PlainIInv, PlainTypeOK, CallTypeOK
  <1>1. CASE StartAttempt \/ LastAttempt \/ PlainContinueAnswer
    <2>1. UNCHANGED <<log, reader, nread>> /\ pc # "closed"
      BY <1>1 DEF StartAttempt, LastAttempt, PlainContinueAnswer, StreamDrained, callerVars
    <2> QED BY <1>s, <2>1 DEF PlainReaderInv
  <1>2. CASE PlainForward
    <2>1. pc = "forward" /\ \A i \in 1..Len(log) : log[i].type = "token"
      BY <1>2, Forwarded
    <2>2. reader' = reader
      BY <1>2 DEF PlainForward, callerVars
    <2>3. reader # "left"
      <3>1. log # <<>> => Len(log) \in 1..Len(log)
        BY <1>s, EmptySeq DEF PlainIInv, PlainTypeOK, CallTypeOK
      <3> QED BY <1>s, <2>1, <3>1 DEF PlainReaderInv
    <2> QED BY <2>2, <2>3 DEF PlainReaderInv
  <1>3. CASE PlainSendDone
    BY <1>3 DEF PlainSendDone, SendLast, PlainReaderInv
  <1>4. CASE PlainStreamStep \/ UNCHANGED plainVars
    <2>1. UNCHANGED <<pc, log, nread, reader>>
      BY <1>4 DEF PlainStreamStep, plainVars, plainLoopVars, callerVars
    <2> QED BY <1>s, <2>1 DEF PlainReaderInv
  <1>5. CASE PlainReceive
    <2>1. /\ reader = "reading" /\ nread < Len(log) /\ nread' = nread + 1
          /\ UNCHANGED <<pc, log>>
          /\ reader' = "left" => log[nread + 1].type = "error"
      BY <1>5 DEF PlainReceive, ReceiveEvent
    <2>2. nread + 1 \in 1..Len(log)
      BY <1>s, <2>1
    <2>3. ASSUME reader' = "left", pc # "closed"
          PROVE  nread + 1 = Len(log)
      BY <2>1, <2>2, <2>3 DEF PlainIInv, PlainLogInv
    <2>4. log # <<>>
      BY <1>s, <2>2
    <2> QED BY <2>1, <2>3, <2>4 DEF PlainReaderInv
  <1>6. CASE PlainCancel \/ PlainLeave \/ PlainFinished
    BY <1>s, <1>6 DEF PlainCancel, PlainLeave, PlainFinished, CancelCall, LeaveCall, SeeClosed, callerVars,
         PlainReaderInv
  <1> QED BY <1>1, <1>2, <1>3, <1>4, <1>5, <1>6 DEF PlainNext, PlainLoopStep

-----------------------------------------------------------------------------
(* The theorems. *)

\* The invariant holds of every reachable state.
THEOREM PlainInductiveInvariant == PlainSpec => []PlainIInv
  <1>1. PlainIInv /\ [PlainNext]_plainVars => PlainIInv'
    BY PlainNextTypeOK, PlainNextRequestInv, PlainNextLogInv,
       PlainNextUsageInv, PlainNextFailureInv, PlainNextReaderInv
       DEF PlainIInv
  <1> QED BY PlainInitIInv, <1>1, PTL DEF PlainSpec

\* Every reachable state of a plain call is well typed.
THEOREM PlainTypeCorrect == PlainSpec => []PlainTypeOK
  <1>1. PlainIInv => PlainTypeOK
    BY DEF PlainIInv
  <1> QED BY PlainInductiveInvariant, <1>1, PTL

\* Done reports what every request of the call was billed, continuations
\* included, but for what the last one reported if it failed.
THEOREM PlainUsageIsTotalHolds == PlainSpec => []UsageIsTotal
  <1>1. PlainIInv => UsageIsTotal
    BY DEF PlainIInv, PlainUsageInv, UsageIsTotal
  <1> QED BY PlainInductiveInvariant, <1>1, PTL

\* A provider that fell silent is reported before Done, unless the caller
\* cancelled or the answer was complete.
THEOREM PlainStallIsReportedHolds == PlainSpec => []StallIsReported
  <1>1. PlainIInv => StallIsReported
    BY DEF PlainIInv, PlainFailureInv, StallIsReported, ES!LastType
  <1> QED BY PlainInductiveInvariant, <1>1, PTL

\* As in the agent loop (ToolLoop, DoneNeverBlocked): the send of Done, which
\* is not a select, never blocks on a caller that returned at an error.
THEOREM DoneFindsRoom == PlainSpec => [](pc = "done" /\ reader = "left" => HasRoom)
  <1>1. PlainIInv => (pc = "done" /\ reader = "left" => HasRoom)
    BY CapAssumption DEF PlainIInv, PlainTypeOK, CallTypeOK, PlainReaderInv, HasRoom
  <1> QED BY PlainInductiveInvariant, <1>1, PTL

-----------------------------------------------------------------------------
(* The plain call implements the event protocol. *)

\* Each step is a step of the protocol, or none of its business.
LEMMA PlainStepImplements ==
  ASSUME PlainIInv, [PlainNext]_plainVars
  PROVE  [ES!Next]_<<log, pc = "closed", ctxDone>>
  <1>t. log \in Seq(ES!Events) /\ Len(log) \in Nat /\ usage \in Nat
    BY DEF PlainIInv, PlainTypeOK, CallTypeOK
  <1>s. CASE log' = log /\ ctxDone' = ctxDone /\ (pc' = "closed" <=> pc = "closed")
    <2>1. (pc' = "closed") = (pc = "closed")
      BY <1>s
    <2> QED BY <1>s, <2>1
  <1>l. /\ ES!LastType(log) \in {"none", "token", "error", "done"}
        /\ pc # "closed" => ES!LastType(log) # "done" /\ ~ES!Disabled(log)
    <2>1. log # <<>> => Len(log) \in 1..Len(log)
      BY <1>t, EmptySeq
    <2> QED BY <2>1 DEF PlainIInv, PlainLogInv, ES!LastType, ES!Disabled
  <1>1. CASE StartAttempt \/ LastAttempt \/ PlainContinueAnswer
    <2>1. log' = log /\ ctxDone' = ctxDone /\ pc # "closed" /\ pc' # "closed"
      BY <1>1 DEF StartAttempt, LastAttempt, PlainContinueAnswer, StreamDrained, streamVars
    <2> QED BY <1>s, <2>1
  <1>2. CASE PlainForward
    <2>1. /\ SendOrQuit(Relayed, "forward") /\ Relayed \in ES!Events
          /\ Relayed.type \in {"token", "error"}
          /\ pc = "forward" /\ \A i \in 1..Len(log) : log[i].type = "token"
      BY <1>2, Forwarded
    <2>2. ctxDone' = ctxDone
      BY <1>2 DEF PlainForward
    <2>3. ES!LastType(log) \in {"none", "token"}
      <3>1. log # <<>> => Len(log) \in 1..Len(log)
        BY <1>t, EmptySeq
      <3> QED BY <2>1, <3>1 DEF ES!LastType
    <2>4. ES!MayFollow(log, Relayed)
      BY <1>l, <2>1, <2>3 DEF ES!MayFollow
    <2> QED BY <1>t, <2>1, <2>2, <2>4, SendImplements
  <1>3. CASE PlainSendDone
    <2>1. SendLast /\ pc = "done" /\ ctxDone' = ctxDone
      BY <1>3 DEF PlainSendDone, SendLast, streamVars
    <2>2. ES!MayFollow(log, ES!DoneEvent(usage))
      BY <1>l, <2>1, EventFields DEF ES!MayFollow
    <2> QED BY <1>t, <2>1, <2>2, SendLastImplements
  <1>4. CASE PlainStreamStep \/ PlainFinished \/ UNCHANGED plainVars
    <2>1. UNCHANGED <<log, pc, ctxDone>>
      BY <1>4 DEF PlainStreamStep, StreamNext, ConnectFails, HeadersArrive, UsageArrives, TokenArrives,
           SendToken, WatchdogFires, ReadFails, ErrorFrame, ReportFailure, ResponseEnds,
           PlainFinished, SeeClosed, plainVars, plainLoopVars, streamVars
    <2> QED BY <1>s, <2>1
  <1>5. CASE PlainReceive \/ PlainCancel \/ PlainLeave
    BY <1>5, CallerImplements DEF PlainReceive, PlainCancel, PlainLeave
  <1> QED BY <1>1, <1>2, <1>3, <1>4, <1>5 DEF PlainNext, PlainLoopStep

\* The plain call implements the event protocol, so that a caller need not
\* know which of the two loops it listens to.
THEOREM PlainImplements == PlainSpec => ImplementsEventStream
  <1>1. PlainInit => ES!Init
    <2> SUFFICES ASSUME PlainInit PROVE ES!Init
      OBVIOUS
    <2>1. log = <<>> /\ pc = "round" /\ ctxDone = FALSE
      BY DEF PlainInit, CallInit, StreamInit
    <2>2. (pc = "closed") = FALSE
      BY <2>1
    <2> QED BY <2>1, <2>2, Zenon DEF ES!Init
  <1>2. PlainIInv /\ [PlainNext]_plainVars => [ES!Next]_<<log, pc = "closed", ctxDone>>
    BY PlainStepImplements
  <1> QED BY <1>1, <1>2, PlainInductiveInvariant, PTL DEF PlainSpec, ImplementsEventStream, ES!Spec
=============================================================================
