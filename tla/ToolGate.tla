------------------------------ MODULE ToolGate ------------------------------
(***************************************************************************)
(* What stands between a tool call of the model and its execution in the   *)
(* terminal UI: the executors startToolStream builds (internal/tui/chat.go,*)
(* metatools.go), the permission gate (gate.go) and the prompt.  A turn's  *)
(* loop runs its calls one after the other on a goroutine of its own; one  *)
(* that needs approval puts a request in confirmCh and waits for the       *)
(* answer on a channel made for it.  The UI takes requests out with        *)
(* waitForConfirm commands, shows one, and sends back the key pressed.     *)
(*                                                                         *)
(* A turn is normally over before the next begins; when search results     *)
(* begin a stream over it (ChatTurn!SearchDone) it goes on by itself.      *)
(***************************************************************************)
EXTENDS Naturals, Sequences, FiniteSets

CONSTANTS
  Turns,        \* the streams that run tools
  MaxCalls,     \* bound on the calls of a turn
  Permissions,  \* permission modes the program may run with
  Capable,      \* models with the meta-tools, TRUE or FALSE
  NoCall

ASSUME CallAssumption ==
  MaxCalls \in Nat /\ NoCall \notin Turns \X (1..MaxCalls)
ASSUME ModeAssumption ==
  Permissions \subseteq {"auto", "confirm", "suggest"} /\ Capable \in BOOLEAN

Calls == Turns \X (1..MaxCalls)

\* "native" are the destructive built-in tools and the MCP tools not known to be
\* read-only, which every executor treats alike; "meta" are the destructive
\* meta-tools (commit_changes, create_pr, run_tests, create_branch); "safe" are
\* the others, and "unknown" is a name no executor knows.
Destructive == {"native", "meta"}
Tools == Destructive \cup {"safe", "unknown"}
Modes == {"full", "readOnly"}
Steps == {"none", "loop", "ask", "wait", "run", "ended"}

VARIABLES
  permission,    \* permissionMode, fixed when the program starts
  mode,          \* how each turn may use tools, from modeRegistry
  pc, made,      \* where its goroutine is, and the calls it has made
  tool,          \* the tool of each call that was not refused at once
  cancelled,     \* turns whose context is cancelled
  current,       \* the turn whose stream the UI reads, or NoCall
  isStream,
  confirmCh, waiters,   \* requests, and waitForConfirm commands
  inbox,         \* requests in a ToolConfirmMsg
  shown,         \* confirmPending and pendingConfirm
  answer,        \* the response channel of each call, of capacity one
  approved, ran, \* ghosts: calls the user said yes to, destructive calls executed
  overtaken      \* ghost: a stream was begun over a turn

loopVars == <<pc, made, tool, ran>>
promptVars == <<confirmCh, waiters, inbox, shown, answer, approved>>
streamVars == <<mode, cancelled, current, isStream, overtaken>>
vars == <<permission, loopVars, promptVars, streamVars>>

Init ==
  /\ permission \in Permissions
  /\ mode = [t \in Turns |-> "full"]
  /\ pc = [t \in Turns |-> "none"]
  /\ made = [t \in Turns |-> 0]
  /\ tool = [c \in Calls |-> "safe"]
  /\ cancelled = {} /\ current = NoCall /\ isStream = FALSE
  /\ confirmCh = <<>> /\ waiters = 0 /\ inbox = {} /\ shown = NoCall
  /\ answer = [c \in Calls |-> "none"]
  /\ approved = {} /\ ran = {} /\ overtaken = FALSE

Call(t) == <<t, made[t]>>

-----------------------------------------------------------------------------
(* Streams *)

\* startToolStream, or handleInit.  The prompt swallows the keys while shown.
StartTurn(t, m) ==
  /\ pc[t] = "none" /\ ~isStream /\ shown = NoCall
  /\ pc' = [pc EXCEPT ![t] = "loop"]
  /\ mode' = [mode EXCEPT ![t] = m]
  /\ current' = t /\ isStream' = TRUE
  /\ waiters' = waiters + (IF m = "full" /\ permission = "confirm" THEN 1 ELSE 0)
  /\ UNCHANGED <<permission, made, tool, ran, cancelled, overtaken, confirmCh, inbox,
                 shown, answer, approved>>

\* The loop of a turn is done; resetStreamState when its Done is handled.
EndTurn(t) ==
  /\ pc[t] = "loop"
  /\ pc' = [pc EXCEPT ![t] = "ended"]
  /\ IF current = t
       THEN /\ current' = NoCall /\ isStream' = FALSE
            /\ cancelled' = cancelled \cup {t}
       ELSE UNCHANGED <<current, isStream, cancelled>>
  /\ UNCHANGED <<permission, mode, made, tool, ran, overtaken, promptVars>>

\* The results of a search begin a stream without tools over the turn.
Overtake ==
  /\ current # NoCall
  /\ current' = NoCall /\ overtaken' = TRUE
  /\ UNCHANGED <<permission, mode, cancelled, isStream, loopVars, promptVars>>

\* That stream ends, and as two listeners read it, perhaps once more later on.
OtherStreamEnds ==
  /\ overtaken /\ isStream
  /\ isStream' = FALSE /\ current' = NoCall
  /\ cancelled' = cancelled \cup ({current} \cap Turns)
  /\ UNCHANGED <<permission, mode, overtaken, loopVars, promptVars>>

-----------------------------------------------------------------------------
(* Tool calls *)

Gated_OnlyNative(t, k) == k = "native" /\ mode[t] = "full"

\* makeMetaToolExecutor comes before makePlanExecutor and makeExecutor, which
\* know nothing of the meta-tools.
Gated(t, k) ==
  \/ k = "meta" /\ Capable
  \/ k = "native" /\ mode[t] = "full"

\* Refused at once: a name nobody knows, a tool the mode does not allow, one
\* that only runs with approval in "suggest" mode.
Refused(t, k) ==
  \/ k = "unknown" \/ (k = "meta" /\ ~Capable)
  \/ k = "native" /\ mode[t] = "readOnly"
  \/ Gated(t, k) /\ permission = "suggest"

\* The pre_tool hook may also cancel a call, unless it is of a meta-tool.
Hooked(t, k) == mode[t] = "full" /\ k \notin {"unknown", "meta"}

CallTool(t, k) ==
  /\ pc[t] = "loop" /\ made[t] < MaxCalls
  /\ made' = [made EXCEPT ![t] = @ + 1]
  /\ \/ (Refused(t, k) \/ Hooked(t, k)) /\ UNCHANGED <<pc, tool>>
     \/ /\ ~Refused(t, k)
        /\ tool' = [tool EXCEPT ![<<t, made[t] + 1>>] = k]
        /\ pc' = [pc EXCEPT ![t] =
                    IF Gated(t, k) /\ permission = "confirm" THEN "ask" ELSE "run"]
  /\ UNCHANGED <<permission, ran, promptVars, streamVars>>

\* The request goes into the channel, which has room for one.
Ask(t) ==
  /\ pc[t] = "ask" /\ Len(confirmCh) < 1
  /\ confirmCh' = Append(confirmCh, Call(t))
  /\ pc' = [pc EXCEPT ![t] = "wait"]
  /\ UNCHANGED <<permission, made, tool, ran, waiters, inbox, shown, answer, approved,
                 streamVars>>

GiveUp_TimesOut(t) ==
  /\ t \in cancelled \/ pc[t] = "wait"
  /\ pc[t] \in {"ask", "wait"}
  /\ pc' = [pc EXCEPT ![t] = "loop"]
  /\ UNCHANGED <<permission, made, tool, ran, promptVars, streamVars>>

\* confirmGate looks at the context in both of its selects; executeDestructive
\* only while it waits for the answer.
GiveUp(t) ==
  /\ t \in cancelled
  /\ \/ pc[t] = "wait"
     \/ pc[t] = "ask" /\ tool[Call(t)] # "meta"
  /\ pc' = [pc EXCEPT ![t] = "loop"]
  /\ UNCHANGED <<permission, made, tool, ran, promptVars, streamVars>>

Answered(t) ==
  /\ pc[t] = "wait" /\ answer[Call(t)] # "none"
  /\ pc' = [pc EXCEPT ![t] = IF answer[Call(t)] = "yes" THEN "run" ELSE "loop"]
  /\ answer' = [answer EXCEPT ![Call(t)] = "none"]
  /\ UNCHANGED <<permission, made, tool, ran, confirmCh, waiters, inbox, shown, approved,
                 streamVars>>

Run(t) ==
  /\ pc[t] = "run"
  /\ ran' = ran \cup (IF tool[Call(t)] \in Destructive THEN {Call(t)} ELSE {})
  /\ pc' = [pc EXCEPT ![t] = "loop"]
  /\ UNCHANGED <<permission, made, tool, promptVars, streamVars>>

-----------------------------------------------------------------------------
(* The prompt *)

\* A waitForConfirm command returns with a request.
Deliver ==
  /\ waiters > 0 /\ confirmCh # <<>>
  /\ waiters' = waiters - 1
  /\ inbox' = inbox \cup {Head(confirmCh)}
  /\ confirmCh' = Tail(confirmCh)
  /\ UNCHANGED <<permission, loopVars, shown, answer, approved, streamVars>>

\* ToolConfirmMsg: whatever was shown is overwritten.
Show ==
  /\ \E c \in inbox : shown' = c /\ inbox' = inbox \ {c}
  /\ UNCHANGED <<permission, loopVars, confirmCh, waiters, answer, approved, streamVars>>

Press_KeepsPrompt(key) ==
  /\ shown # NoCall /\ answer[shown] = "none"
  /\ answer' = [answer EXCEPT ![shown] = key]
  /\ approved' = approved \cup (IF key = "yes" THEN {shown} ELSE {})
  /\ waiters' = waiters + 1
  /\ UNCHANGED <<permission, loopVars, confirmCh, inbox, shown, streamVars>>

Press_NoListener(key) ==
  /\ shown # NoCall /\ answer[shown] = "none"
  /\ answer' = [answer EXCEPT ![shown] = key]
  /\ approved' = approved \cup (IF key = "yes" THEN {shown} ELSE {})
  /\ shown' = NoCall
  /\ UNCHANGED <<permission, loopVars, confirmCh, inbox, waiters, streamVars>>

\* y or n.  With an answer already in the channel the UI would block.
Press(key) ==
  /\ shown # NoCall /\ answer[shown] = "none"
  /\ answer' = [answer EXCEPT ![shown] = key]
  /\ approved' = approved \cup (IF key = "yes" THEN {shown} ELSE {})
  /\ shown' = NoCall
  /\ waiters' = waiters + 1
  /\ UNCHANGED <<permission, loopVars, confirmCh, inbox, streamVars>>

-----------------------------------------------------------------------------
Loop(t) ==
  \/ \E k \in Tools : CallTool(t, k)
  \/ Ask(t) \/ GiveUp(t) \/ Answered(t) \/ Run(t) \/ EndTurn(t)

User ==
  \/ \E t \in Turns, m \in Modes : StartTurn(t, m)
  \/ \E key \in {"yes", "no"} : Press(key)

Next ==
  \/ User \/ Deliver \/ Show \/ Overtake \/ OtherStreamEnds
  \/ \E t \in Turns : Loop(t)

Spec == Init /\ [][Next]_vars

\* Goroutines and commands run on; the user owes no answer.
FairSpec ==
  /\ Spec /\ WF_vars(Deliver) /\ WF_vars(Show)
  /\ \A t \in Turns : WF_vars(Loop(t))

-----------------------------------------------------------------------------
TypeOK ==
  /\ permission \in Permissions
  /\ mode \in [Turns -> Modes] /\ pc \in [Turns -> Steps]
  /\ made \in [Turns -> 0..MaxCalls] /\ tool \in [Calls -> Tools]
  /\ cancelled \subseteq Turns /\ current \in Turns \cup {NoCall}
  /\ isStream \in BOOLEAN /\ overtaken \in BOOLEAN
  /\ confirmCh \in Seq(Calls) /\ Len(confirmCh) <= 1 /\ waiters \in Nat
  /\ inbox \subseteq Calls /\ shown \in Calls \cup {NoCall}
  /\ answer \in [Calls -> {"none", "yes", "no"}]
  /\ approved \subseteq Calls /\ ran \subseteq Calls

\* "confirm" asks before every destructive call, and "suggest" lets none run:
\* what ran was approved, by a key pressed while its own prompt was shown,
\* whatever other prompts overlapped it.
RunsApproved ==
  \A c \in ran :
    permission = "auto" \/ (permission = "confirm" /\ c \in approved)

\* The UI thread sends the answer without a select: the channel has room.
KeySendNeverBlocks == shown # NoCall => answer[shown] = "none"

\* What is on the screen, or on its way there, is what a goroutine waits for,
\* as long as no stream was begun over a turn.
PromptIsLive ==
  ~overtaken =>
    /\ Cardinality({c \in Calls : c = shown \/ c \in inbox \/ confirmCh = <<c>>}) <= 1
    /\ \A c \in Calls : c = shown \/ c \in inbox \/ confirmCh = <<c>> =>
         pc[c[1]] = "wait" /\ Call(c[1]) = c /\ answer[c] = "none"

\* A call of a turn that may use every tool gets its prompt.
RequestShown ==
  \A t \in Turns :
    pc[t] \in {"ask", "wait"} /\ mode[t] = "full"
      ~> (shown = Call(t) \/ pc[t] \notin {"ask", "wait"} \/ overtaken)

\* "Destructive tools are only available in non-read-only modes"
\* (README.md:258).
ReadOnlyRunsNothing ==
  \A c \in ran : mode[c[1]] = "full"
=============================================================================
