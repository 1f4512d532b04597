------------------------------- MODULE MCLoops -------------------------------
(***************************************************************************)
(* The two loops behind a chat call, in one run: a behaviour is a call of  *)
(* the agent loop or a plain one.  They share what ChatCall declares, so   *)
(* a property of the call speaks of both.                                  *)
(***************************************************************************)
EXTENDS ToolLoop

CONSTANTS MaxContinuations, PlainTokens

VARIABLES
  part,    \* the loop this behaviour is of
  attempt

Plain == INSTANCE PlainChat WITH MaxTokens <- PlainTokens, MaxCalls <- 1

agentOnly == <<hasTools, round, errKind, toolVars>>
callVars == <<pc, usage, log, continued, attempt, callerVars>>
Vars == <<part, attempt, vars>>

LoopsInit ==
  \/ part = "agent" /\ attempt = 0 /\ Init
  \/ /\ part = "plain" /\ Plain!PlainInit
     /\ hasTools = FALSE /\ round = 0 /\ errKind = "none"
     /\ todo = <<>> /\ seen = {} /\ executed = [c \in Calls |-> 0]

OfAgent(A) == part = "agent" /\ A /\ UNCHANGED <<part, attempt>>
OfPlain(A) == part = "plain" /\ A /\ UNCHANGED <<part, agentOnly>>

LoopsNext ==
  \/ /\ part = "agent" /\ Next
     /\ UNCHANGED <<part, attempt>>
  \/ /\ part = "plain" /\ Plain!PlainNext
     /\ UNCHANGED <<part, agentOnly>>

\* The fairness of the two, condition by condition.
OfRequest(A, P) == (OfAgent(A) \/ OfPlain(P)) /\ UNCHANGED callVars

LoopsFairness ==
  /\ WF_Vars(OfAgent(LoopStep) \/ OfPlain(Plain!PlainLoopStep))
  /\ WF_Vars(OfAgent(Receive) \/ OfPlain(Plain!PlainReceive))
  /\ WF_Vars(OfAgent(Finished) \/ OfPlain(Plain!PlainFinished))
  /\ WF_Vars(OfRequest((SendToken \/ ReportFailure) /\ UNCHANGED agentOnly,
                       Plain!SendToken \/ Plain!ReportFailure))
  /\ WF_Vars(OfRequest(WatchdogFires /\ UNCHANGED agentOnly, Plain!WatchdogFires))
  /\ WF_Vars(OfRequest((stalled \/ ctxDone) /\ ReadFails /\ UNCHANGED agentOnly,
                       (stalled \/ ctxDone) /\ Plain!ReadFails))
  /\ WF_Vars(OfRequest((ConnectFails \/ HeadersArrive) /\ UNCHANGED agentOnly,
                       Plain!ConnectFails \/ Plain!HeadersArrive))

LoopsSpec == LoopsInit /\ [][LoopsNext]_Vars /\ LoopsFairness
=============================================================================
