------------------------------- MODULE Launch -------------------------------
(***************************************************************************)
(* main.go from its flags to the exit of the process, with the project's   *)
(* trust (internal/config/trust.go), the worktree, the SSH tunnel, and the *)
(* headless mode (internal/cli/print.go), which listens to one stream of   *)
(* events and reports the outcome as an exit code, a JSON payload and the  *)
(* end of the task in the trace.                                           *)
(*                                                                         *)
(* main returns only from the terminal UI and from doctor: everywhere else *)
(* it calls os.Exit, which skips the deferred calls.  The UI is module     *)
(* Screens; that a stream ends, and how, is shown for ToolLoop.            *)
(***************************************************************************)
EXTENDS Naturals, Sequences

CONSTANTS
  None,
  Works,      \* what the agent or the user may leave behind in a worktree
  MaxCalls    \* bound on the tool calls of a headless run

ASSUME LaunchAssumption ==
  /\ Works \subseteq {"edited", "staged", "untracked", "committed"} /\ MaxCalls \in Nat
  /\ None \notin {0, 1, 2}    \* no exit code

VARIABLES
  pc,         \* where main is
  flags,      \* the command line
  trusted,    \* resolveProjectTrust; None before it
  wt,         \* the worktree: None, or its state and what work it holds
  tunnel,     \* whether the SSH tunnel's process runs
  servers,    \* whether the MCP servers' processes run
  task,       \* the headless run, or None
  code        \* the exit code, or None

launchVars == <<pc, flags, trusted, wt, tunnel, servers, task, code>>

Modes == {"inform", "doctor", "print", "interactive"}

LaunchInit ==
  /\ pc = "start"
  /\ flags \in [mode : Modes, worktree : BOOLEAN, json : BOOLEAN, tools : BOOLEAN]
  /\ flags.mode # "print" => ~flags.json /\ ~flags.tools
  /\ flags.mode \in {"inform", "doctor"} => ~flags.worktree
  /\ trusted = None /\ wt = None /\ tunnel = FALSE /\ servers = FALSE
  /\ task = None /\ code = None

Goto(l) == pc' = l
\* os.Exit: no deferred call is made.
ExitNow(c) == pc' = "exited" /\ code' = c

-----------------------------------------------------------------------------
(* Start-up *)

\* --version, --help, completion, plugins and export answer and exit.
Inform ==
  /\ pc = "start" /\ flags.mode = "inform"
  /\ \E c \in {0, 1} : ExitNow(c)
  /\ UNCHANGED <<flags, trusted, wt, tunnel, servers, task>>

Begin ==
  /\ pc = "start" /\ flags.mode # "inform"
  /\ Goto(IF flags.mode = "doctor" THEN "trust"
          ELSE IF flags.worktree THEN "worktree" ELSE "trust")
  /\ UNCHANGED <<flags, trusted, wt, tunnel, servers, task, code>>

\* worktree.Create, then the working directory becomes the worktree.
CreateWorktree ==
  /\ pc = "worktree"
  /\ \/ wt' = [state |-> "present", work |-> {}] /\ Goto("trust") /\ UNCHANGED code
     \/ wt' \in {None, [state |-> "present", work |-> {}]} /\ ExitNow(1)
  /\ UNCHANGED <<flags, trusted, tunnel, servers, task>>

\* --trust-project, a remembered decision, or the answer to the question, which
\* only an interactive start asks.
ResolveTrust ==
  /\ pc = "trust"
  /\ \E given, remembered, ships, answer \in BOOLEAN :
       trusted' = (given \/ remembered
                   \/ (ships /\ flags.mode = "interactive" /\ answer))
  /\ Goto("tunnel")
  /\ UNCHANGED <<flags, wt, tunnel, servers, task, code>>

\* startTunnel: none is configured, the port is open already, ssh runs and the
\* port opens, or the start fails and the process is killed.
StartTunnel ==
  /\ pc = "tunnel"
  /\ \/ tunnel' \in BOOLEAN
        /\ Goto(IF flags.mode = "doctor" THEN "diagnose" ELSE "checks") /\ UNCHANGED code
     \/ ExitNow(1) /\ UNCHANGED tunnel
  /\ UNCHANGED <<flags, trusted, wt, servers, task>>

\* doctor returns when all is well.
Diagnose ==
  /\ pc = "diagnose"
  /\ \/ Goto("return") /\ UNCHANGED code
     \/ ExitNow(1)
  /\ UNCHANGED <<flags, trusted, wt, tunnel, servers, task>>

\* The health checks pass, are skipped, or fail with something else to use.
CheckHealth ==
  /\ pc = "checks"
  /\ \/ Goto(flags.mode) /\ UNCHANGED code
     \/ ExitNow(1)
  /\ UNCHANGED <<flags, trusted, wt, tunnel, servers, task>>

-----------------------------------------------------------------------------
(* Headless *)

NewTask ==
  [ctx |-> "live", stream |-> "open", running |-> 0, calls |-> 0, pending |-> 0,
   recorded |-> <<>>, payloads |-> <<>>, ended |-> FALSE]

\* resolveModel, the MCP servers if tools are enabled, the strategy file, and
\* StartTask.
StartPrint ==
  /\ pc = "print"
  /\ servers' \in {FALSE, flags.tools}
  /\ \/ task' = NewTask /\ Goto("stream") /\ UNCHANGED code
     \/ ExitNow(2) /\ UNCHANGED task
  /\ UNCHANGED <<flags, trusted, wt, tunnel>>

Streaming == pc = "stream" /\ task.stream # "closed"

Still == UNCHANGED <<flags, trusted, tunnel, servers>>

\* --timeout, or an interrupt.
ContextEnds ==
  /\ pc = "stream" /\ task.ctx = "live"
  /\ \E why \in {"deadline", "interrupted"} : task' = [task EXCEPT !.ctx = why]
  /\ UNCHANGED <<pc, wt, code>> /\ Still

\* makeHeadlessExecutor: the loop runs one call at a time; one that --yolo would
\* be needed for, or that is unknown, is refused.
ToolStart ==
  /\ Streaming /\ flags.tools /\ task.stream = "open" /\ task.running = 0
  /\ task.calls < MaxCalls
  /\ task' = [task EXCEPT !.calls = @ + 1, !.running = task.calls + 1,
                          !.pending = task.calls + 1]
  /\ UNCHANGED <<pc, wt, code>> /\ Still

\* A result takes the arguments of the start before it.
ToolResult ==
  /\ Streaming /\ task.running # 0
  /\ task' = [task EXCEPT !.running = 0, !.pending = 0,
                          !.recorded = Append(@, [result |-> task.running,
                                                  args |-> task.pending])]
  /\ \E more \in SUBSET Works :
       wt' = IF wt = None THEN None ELSE [wt EXCEPT !.work = @ \cup more]
  /\ UNCHANGED <<pc, code>> /\ Still

\* The last event of an answer that is complete, which the listener ignores.
StreamDone ==
  /\ Streaming /\ task.stream = "open" /\ task.running = 0
  /\ task' = [task EXCEPT !.stream = "complete"]
  /\ UNCHANGED <<pc, wt, code>> /\ Still

\* An error event ends the run.  Only the plain text mode without tools records
\* the end of the task.
StreamError ==
  /\ Streaming /\ task.stream = "open" /\ task.running = 0
  /\ task' = [task EXCEPT !.stream = "failed", !.ended = ~flags.json /\ ~flags.tools,
                          !.payloads = IF flags.json THEN Append(@, 1) ELSE @]
  /\ ExitNow(1)
  /\ UNCHANGED wt /\ Still

exitForContext_DeadlineOnly == IF task.ctx = "deadline" THEN 1 ELSE 0

exitForContext == IF task.ctx = "live" THEN 0 ELSE 1

\* The channel is closed after the answer, or early once the context is done:
\* its last events may then have been dropped.  The context can still end
\* before exitForContext looks at it.
StreamClosed ==
  /\ Streaming
  /\ task.stream = "complete" \/ task.ctx # "live"
  /\ task' = [task EXCEPT !.ended = TRUE,
                          !.stream = IF @ = "complete" THEN @ ELSE "cut"]
  /\ Goto("finish")
  /\ UNCHANGED <<wt, code>> /\ Still

finishJSON_Zero ==
  /\ pc = "finish"
  /\ task' = [task EXCEPT !.payloads = IF flags.json THEN Append(@, 0) ELSE @]
  /\ ExitNow(exitForContext)
  /\ UNCHANGED wt /\ Still

finishJSON ==
  /\ pc = "finish"
  /\ task' = [task EXCEPT !.payloads = IF flags.json THEN Append(@, exitForContext) ELSE @]
  /\ ExitNow(exitForContext)
  /\ UNCHANGED wt /\ Still

-----------------------------------------------------------------------------
(* Interactive *)

\* A session that cannot be found or a model that cannot be resolved ends it.
UIFails ==
  /\ pc = "interactive"
  /\ ExitNow(1)
  /\ UNCHANGED <<flags, trusted, wt, tunnel, servers, task>>

\* What was decided at start-up is in the options of the UI.
OpenUI ==
  /\ pc = "interactive"
  /\ Goto("ui") /\ trusted' = None
  /\ UNCHANGED <<flags, wt, tunnel, servers, task, code>>

\* Tools, hooks, and whoever else works in the worktree.
Work ==
  /\ pc = "ui" /\ wt # None
  /\ \E w \in Works : wt' = [wt EXCEPT !.work = @ \cup {w}]
  /\ UNCHANGED <<pc, flags, trusted, tunnel, servers, task, code>>

\* p.Run returns, with an error or without.
CloseUI ==
  /\ pc = "ui"
  /\ \/ Goto("return") /\ UNCHANGED code
     \/ ExitNow(1)
  /\ UNCHANGED <<flags, trusted, wt, tunnel, servers, task>>

\* The deferred calls: the tunnel, then the worktree.
CloseTunnel ==
  /\ pc = "return"
  /\ tunnel' = FALSE
  /\ IF wt = None THEN ExitNow(0) ELSE Goto("leave") /\ UNCHANGED code
  /\ UNCHANGED <<flags, trusted, wt, servers, task>>

\* git diff and git diff --cached; a git that fails counts as changes.
HasChanges == wt.work \cap {"edited", "staged"} # {}

LeaveWorktree ==
  /\ pc = "leave"
  /\ \/ UNCHANGED wt
     \/ ~HasChanges /\ wt' = [wt EXCEPT !.state = "removed"]
  /\ ExitNow(0)
  /\ UNCHANGED <<flags, trusted, tunnel, servers, task>>

LaunchNext ==
  \/ Inform \/ Begin \/ CreateWorktree \/ ResolveTrust \/ StartTunnel \/ Diagnose
  \/ CheckHealth \/ StartPrint \/ ContextEnds \/ ToolStart \/ ToolResult \/ StreamDone
  \/ StreamError \/ StreamClosed \/ finishJSON \/ UIFails \/ Work
  \/ CloseTunnel \/ LeaveWorktree

-----------------------------------------------------------------------------
(* Properties *)

\* "A deadline or an interrupt must not look like success" (print.go:188): a
\* headless run that exits with 0 gave the whole answer, and its trace has the
\* end of the task.
SuccessIsReal ==
  code = 0 /\ task # None => task.stream = "complete" /\ task.ended

\* A JSON run prints one object, which carries the exit code of the process, and
\* in which every result stands by the arguments of its own call.
PayloadMatches ==
  code # None /\ flags.json /\ task # None =>
    /\ task.payloads = <<code>>
    /\ \A i \in 1..Len(task.recorded) :
         task.recorded[i].args = task.recorded[i].result /\ task.recorded[i].args = i

\* "If the worktree has uncommitted changes, the branch name is printed for
\* manual merging" (README.md:1383): a worktree that was removed held no work.
LosesNoWork ==
  wt # None /\ wt.state = "removed" => wt.work = {}
=============================================================================
