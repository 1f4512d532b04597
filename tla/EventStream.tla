----------------------------- MODULE EventStream -----------------------------
(***************************************************************************)
(* What a chat call promises its caller: the protocol of the channel of    *)
(* StreamEvents (internal/llm/types.go) that StreamChat and                *)
(* StreamChatWithTools return.  The callers (print mode, the TUI, the      *)
(* research pipeline, subagents, bench) are written against this protocol  *)
(* and not against the goroutines behind it; modules ToolLoop and          *)
(* PlainChat show that those goroutines implement it.                      *)
(***************************************************************************)
EXTENDS Naturals, Sequences

CONSTANTS
  Calls,   \* tool calls, identified by their toolCallKey
  NoCall   \* the call field of events that concern no tool

VARIABLES
  log,       \* the events sent so far
  closed,    \* the channel is closed
  cancelled  \* the caller's context is done

EventTypes == {"token", "error", "toolsDisabled", "replace", "start",
               "result", "done"}
Events == [type : EventTypes, call : Calls \cup {NoCall}, usage : Nat]

Event(t) == [type |-> t, call |-> NoCall, usage |-> 0]
CallEvent(t, c) == [type |-> t, call |-> c, usage |-> 0]
DoneEvent(u) == [type |-> "done", call |-> NoCall, usage |-> u]

LastType(s) == IF s = <<>> THEN "none" ELSE s[Len(s)].type
Disabled(s) == \E i \in 1..Len(s) : s[i].type = "toolsDisabled"

\* The events a caller must be ready to receive after s.
MayFollow(s, e) ==
  /\ LastType(s) # "done"
  /\ LastType(s) = "error" => e.type = "done"
  /\ LastType(s) = "start" => e = CallEvent("result", s[Len(s)].call)
  /\ e.type = "result" => LastType(s) = "start"
  /\ Disabled(s) => e.type \in {"token", "error", "done"}

Init == log = <<>> /\ closed = FALSE /\ cancelled = FALSE

Sent == log'[Len(log')]

\* An event is sent; Done and the closing of the channel are one step.
Emit ==
  /\ ~closed
  /\ Len(log') = Len(log) + 1
  /\ log' = Append(log, Sent)
  /\ Sent \in Events
  /\ MayFollow(log, Sent)
  /\ closed' = (Sent.type = "done")
  /\ cancelled' \in {cancelled, TRUE}

\* Only a cancelled call may be closed without Done.
Abandon == cancelled /\ ~closed /\ closed' = TRUE /\ UNCHANGED <<log, cancelled>>

Cancel == cancelled' = TRUE /\ UNCHANGED <<log, closed>>

Next == Emit \/ Abandon \/ Cancel

Spec == Init /\ [][Next]_<<log, closed, cancelled>>

-----------------------------------------------------------------------------
TypeOK ==
  /\ log \in Seq(Events)
  /\ closed \in BOOLEAN
  /\ cancelled \in BOOLEAN

\* A call that is not cancelled ends with exactly one Done event, sent last,
\* and a cancelled one with at most one.
DoneIsLast ==
  /\ \A i \in 1..Len(log) : log[i].type = "done" => i = Len(log) /\ closed
  /\ closed /\ ~cancelled => LastType(log) = "done"

\* Nothing but Done follows an error.
OnlyDoneAfterError ==
  \A i, j \in 1..Len(log) :
    i < j /\ log[i].type = "error" => log[j].type = "done"

\* Every tool result follows its own start directly, and a start is followed
\* by nothing else.
ResultFollowsStart ==
  \A i \in 1..Len(log) :
    /\ log[i].type = "result" =>
         i > 1 /\ log[i-1].type = "start" /\ log[i-1].call = log[i].call
    /\ log[i].type = "start" /\ i < Len(log) =>
         log[i+1].type = "result" /\ log[i+1].call = log[i].call

\* After tools were disabled no tool runs and no text is taken back.
NoToolsAfterDisable ==
  \A i, j \in 1..Len(log) :
    i < j /\ log[i].type = "toolsDisabled" =>
      log[j].type \in {"token", "error", "done"}
=============================================================================
