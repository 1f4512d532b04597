------------------------------ MODULE ChatCall ------------------------------
(***************************************************************************)
(* What every chat call has besides its provider requests: the goroutine   *)
(* that runs the loop, the bounded channel out that it writes, and the     *)
(* caller that reads it.  ToolLoop and PlainChat are the two loops.        *)
(*                                                                         *)
(* out is represented by log, the history of every event sent on it, and   *)
(* nread, how many of them the caller has received.                        *)
(***************************************************************************)
EXTENDS ProviderStream

CONSTANT NoCall  \* the call field of events that concern no tool

ASSUME NoCallAssumption == NoCall \notin Calls

VARIABLES
  pc,         \* where the loop's goroutine is; "closed" after close(out)
  usage,      \* lastUsage, the sum reported on Done
  continued,  \* prevContent is not empty: a truncated answer was continued
  log,        \* history: every event sent on out
  nread,      \* how many events of log the caller has received
  reader      \* the caller: "reading"; "left" once it returned at an error or at
              \* the end; "gone" if it cancelled and stopped receiving

callerVars == <<nread, reader>>

\* The protocol the call implements; it also defines the events.
ES == INSTANCE EventStream WITH closed <- (pc = "closed"), cancelled <- ctxDone

CallInit ==
  /\ StreamInit
  /\ usage = 0
  /\ continued = FALSE
  /\ log = <<>>
  /\ nread = 0
  /\ reader = "reading"

HasRoom == Len(log) - nread < Cap

\* select { case out <- e: ...; case <-ctx.Done(): return }
SendOrQuit(e, next) ==
  \/ /\ HasRoom
     /\ log' = Append(log, e)
     /\ pc' = next
  \/ /\ ctxDone
     /\ pc' = "closed"
     /\ UNCHANGED log

\* out <- StreamEvent{Done: true, Usage: lastUsage}: not a select; the
\* deferred close(out) follows.
SendLast ==
  /\ pc = "done"
  /\ HasRoom
  /\ log' = Append(log, ES!DoneEvent(usage))
  /\ pc' = "closed"

-----------------------------------------------------------------------------
(* The caller receives from out and returns on an error event, cancelling   *)
(* its context as it does.  It may be cancelled at any time and still read  *)
(* to the end (print mode), or cancel and stop reading at once (the TUI's   *)
(* resetStreamState).                                                       *)

ReceiveEvent ==
  /\ reader = "reading"
  /\ nread < Len(log)
  /\ nread' = nread + 1
  /\ IF log[nread + 1].type = "error"
       THEN reader' = "left" /\ ctxDone' = TRUE
       ELSE UNCHANGED <<reader, ctxDone>>
  /\ UNCHANGED <<adapter, reqVars, billed, pc, usage, log>>

CancelCall ==
  /\ reader = "reading"
  /\ ~ctxDone
  /\ ctxDone' = TRUE
  /\ UNCHANGED <<adapter, reqVars, billed, pc, usage, log, callerVars>>

LeaveCall ==
  /\ reader = "reading"
  /\ reader' = "gone"
  /\ ctxDone' = TRUE
  /\ UNCHANGED <<adapter, reqVars, billed, pc, usage, log, nread>>

\* The range over out ends.
SeeClosed ==
  /\ reader = "reading"
  /\ pc = "closed"
  /\ nread = Len(log)
  /\ reader' = "left"
  /\ UNCHANGED <<streamVars, pc, usage, log, nread>>

CallTypeOK ==
  /\ StreamTypeOK
  /\ usage \in Nat
  /\ log \in Seq(ES!Events)
  /\ nread \in 0..Len(log)
  /\ reader \in {"reading", "left", "gone"}

-----------------------------------------------------------------------------
(* What either loop promises *)

\* Whatever the provider and the caller do, the events of a call obey the
\* protocol its callers are written against (types.go, StreamEvent): results
\* follow their starts, nothing but Done follows an error, Done ends the
\* stream, no tool runs once tools were disabled, and only a cancelled call
\* is closed without Done.  StreamChat forwards errors as they come, the
\* agent loop keeps them back.
ImplementsEventStream == ES!Spec

\* Done reports the usage of every request of the call, retries and
\* continuations included: "the usage on Done is the sum across rounds"
\* (toolloop.go), "A continuation is another billed request, so add it to the
\* total" (client.go).  Excepted is the last request if it fails, or is dropped,
\* after a frame has reported its usage: that is in no result, and in no event.
LostUsage == IF result = NoResult THEN metered ELSE 0
UsageIsTotal ==
  \A i \in 1..Len(log) : log[i].type = "done" => log[i].usage + LostUsage = billed

\* A provider that falls silent is reported (TestStreamChatReportsIdleProvider):
\* when the watchdog gave up on the last request, a caller that sees Done has
\* seen an error before it, unless it cancelled the call itself or the answer
\* was already complete.
StallIsReported ==
  log # <<>> /\ log[Len(log)].type = "done" /\ stalled /\ ~ctxDone =>
    result # NoResult \/ (Len(log) > 1 /\ log[Len(log) - 1].type = "error")

\* The goroutine of the call ends, however the provider and the caller behave:
\* a silent provider is given up on, a cancelled context is noticed.  It can
\* only be stuck at the send of Done to a caller that stopped reading.  The
\* request's goroutine ends too when it selects on the caller's context at
\* every send, as the OpenAI adapter does.
CallEnds ==
  <>[](/\ pc = "closed" \/ (pc = "done" /\ reader = "gone")
       /\ adapter = "openai" => rpc \in {"off", "closed"})
=============================================================================
