---------------------------- MODULE ProgramProofs ----------------------------
(***************************************************************************)
(* The safety of a run of the program.  ReportInv follows a headless run   *)
(* through its stream: what is known when the listener stops is what the   *)
(* exit code, the payload and the trace are made from.  ScreenInv does the *)
(* same for what the start of the terminal UI brings in, in whatever       *)
(* order, and PickerInv for the lists of its pickers.                      *)
(***************************************************************************)
EXTENDS Program, SequenceTheorems, WellFoundedInduction, TLAPS

TaskSet ==
  [ctx : {"live", "deadline", "interrupted"},
   stream : {"open", "complete", "failed", "cut"},
   running : Nat, calls : Nat, pending : Nat,
   recorded : Seq([result : Nat, args : Nat]), payloads : Seq(Nat), ended : BOOLEAN]

Reported == IF flags.json THEN <<code>> ELSE <<>>

\* There is a task from its start on.
HasTask == pc \in {"stream", "finish"} \/ task # None

FlagsOK == flags \in [mode : Modes, worktree : BOOLEAN, json : BOOLEAN, tools : BOOLEAN]
CodeOK == code # None => pc = "exited"
TaskOK == HasTask => task \in TaskSet /\ pc \in {"stream", "finish", "exited"}

\* Calls run one at a time, and each result is recorded with its own arguments.
RecordOK == HasTask =>
  /\ \A i \in 1..Len(task.recorded) : task.recorded[i] = [result |-> i, args |-> i]
  /\ task.running = 0 => Len(task.recorded) = task.calls
  /\ task.running # 0 => /\ task.running = task.calls /\ task.pending = task.calls
                         /\ task.calls = Len(task.recorded) + 1

\* What is reported when.
StageOK == HasTask =>
  /\ pc = "stream" => task.payloads = <<>> /\ task.stream \in {"open", "complete"}
  /\ pc = "finish" => /\ task.payloads = <<>> /\ task.ended
                      /\ task.stream = "complete" \/ task.ctx # "live"
  /\ pc = "exited" => /\ code # None /\ task.payloads = Reported
                      /\ code = 0 => task.stream = "complete" /\ task.ended

ReportInv == FlagsOK /\ CodeOK /\ TaskOK /\ RecordOK /\ StageOK

\* Nothing of the terminal UI exists outside it.
OutsideOK == pc # "ui" =>
  have = {} /\ cmds = {} /\ sources = 0 /\ ~sourcesDue /\ ~setupDue /\ chat = NoChat

\* The source index is built with the later of its two parts.
IndexOK ==
  /\ "repoMap" \in cmds => "index" \notin have
  /\ "rag" \in cmds => "rag" \notin have
  /\ "index" \in have /\ "rag" \notin have => sourcesDue
  /\ sourcesDue => "index" \in have

Parts == {"index", "rag", "mcp"}

ChatOK ==
  /\ have \subseteq Parts /\ setupDue \in BOOLEAN
  /\ chat # NoChat => chat \in [parts : SUBSET Parts, setup : BOOLEAN, busy : BOOLEAN,
                                missed : SUBSET (Parts \cup {"stream"})]

ScreenInv == OutsideOK /\ IndexOK /\ SourcesOnce /\ ChatOK /\ ChatHasAll

-----------------------------------------------------------------------------
\* Nothing is reported to begin with.
LEMMA ReportInit == Init => ReportInv
<1> SUFFICES ASSUME Init PROVE ReportInv
  OBVIOUS
<1>1. ~HasTask /\ CodeOK /\ FlagsOK
  BY DEF Init, LaunchInit, HasTask, CodeOK, FlagsOK
<1> QED BY <1>1 DEF ReportInv, TaskOK, RecordOK, StageOK

\* Until a stream is opened there is no task, and nothing to report.
LEMMA BeforeTask ==
  ASSUME ReportInv, UNCHANGED <<flags, task>>, pc \notin {"stream", "finish", "exited"},
         pc' \notin {"stream", "finish"}, code' # None => pc' = "exited"
  PROVE  ReportInv'
<1>1. task = None /\ FlagsOK
  BY DEF ReportInv, TaskOK, HasTask
<1>2. ~HasTask' /\ CodeOK' /\ FlagsOK'
  BY <1>1 DEF HasTask, CodeOK, FlagsOK
<1> QED BY <1>2 DEF ReportInv, TaskOK, RecordOK, StageOK

\* A headless run ends with what its stream and its context have come to.
LEMMA TaskStep ==
  ASSUME ReportInv,
         \/ StartPrint \/ ContextEnds \/ ToolStart \/ ToolResult \/ StreamDone
         \/ StreamError \/ StreamClosed \/ finishJSON
  PROVE  ReportInv'
<1>a. FlagsOK /\ CodeOK /\ TaskOK /\ RecordOK /\ StageOK
  BY DEF ReportInv
<1>b. flags' = flags /\ FlagsOK'
  BY <1>a DEF StartPrint, ContextEnds, ToolStart, ToolResult, StreamDone, StreamError,
              StreamClosed, finishJSON, Still, FlagsOK
<1>c. pc # "exited" => code = None
  BY <1>a DEF CodeOK
<1>d. ASSUME task' \in TaskSet, pc' \in {"stream", "finish"}, UNCHANGED code, pc # "exited",
             task'.payloads = <<>>, pc' = "stream" => task'.stream \in {"open", "complete"},
             pc' = "finish" => task'.ended /\ (task'.stream = "complete" \/ task'.ctx # "live"),
             RecordOK'
      PROVE  ReportInv'
  BY <1>b, <1>c, <1>d DEF ReportInv, CodeOK, TaskOK, StageOK
<1>e. ASSUME task' \in TaskSet, pc' = "exited", code' \in {0, 1},
             task'.payloads = IF flags.json THEN <<code'>> ELSE <<>>,
             code' = 0 => task'.stream = "complete" /\ task'.ended,
             RecordOK'
      PROVE  ReportInv'
  <2>1. code' # None
    BY <1>e, LaunchAssumption
  <2> QED BY <1>b, <1>e, <2>1 DEF ReportInv, CodeOK, TaskOK, StageOK, Reported
<1>1. CASE StartPrint
  <2>1. CASE task' = NewTask /\ pc' = "stream" /\ UNCHANGED code
    <3>1. task' \in TaskSet /\ task'.payloads = <<>> /\ task'.stream = "open"
      BY <2>1 DEF NewTask, TaskSet
    <3>2. RecordOK'
      BY <2>1 DEF NewTask, RecordOK
    <3>3. pc # "exited"
      BY <1>1 DEF StartPrint
    <3> QED BY <1>d, <2>1, <3>1, <3>2, <3>3
  <2>2. CASE pc' = "exited" /\ UNCHANGED task
    <3>1. pc \notin {"stream", "finish", "exited"}
      BY <1>1 DEF StartPrint
    <3> QED BY <1>b, <2>2, <3>1, BeforeTask
  <2> QED BY <1>1, <2>1, <2>2 DEF StartPrint, Goto, ExitNow
<1> SUFFICES ASSUME pc \in {"stream", "finish"},
                    \/ ContextEnds \/ ToolStart \/ ToolResult \/ StreamDone
                    \/ StreamError \/ StreamClosed \/ finishJSON
             PROVE  ReportInv'
  BY <1>1 DEF ContextEnds, ToolStart, ToolResult, StreamDone, StreamError, StreamClosed,
              finishJSON, Streaming
<1>f. HasTask /\ task \in TaskSet /\ pc # "exited"
  BY <1>a DEF HasTask, TaskOK
<1>g. /\ \A i \in 1..Len(task.recorded) : task.recorded[i] = [result |-> i, args |-> i]
      /\ task.running = 0 => Len(task.recorded) = task.calls
      /\ task.running # 0 => /\ task.running = task.calls /\ task.pending = task.calls
                             /\ task.calls = Len(task.recorded) + 1
  BY <1>a, <1>f DEF RecordOK
<1>h. /\ task.payloads = <<>>
      /\ pc = "stream" => task.stream \in {"open", "complete"}
      /\ pc = "finish" => task.ended /\ (task.stream = "complete" \/ task.ctx # "live")
  BY <1>a, <1>f DEF StageOK
<1>i. task.recorded \in Seq([result : Nat, args : Nat]) /\ Len(task.recorded) \in Nat
      /\ task.running \in Nat /\ task.calls \in Nat /\ task.pending \in Nat
  BY <1>f, LenProperties DEF TaskSet
<1>j. ASSUME task'.recorded = task.recorded, task'.running = task.running,
             task'.calls = task.calls, task'.pending = task.pending
      PROVE  RecordOK'
  BY <1>g, <1>j DEF RecordOK
<1>2. CASE ContextEnds
  <2>1. PICK why \in {"deadline", "interrupted"} : task' = [task EXCEPT !.ctx = why]
    BY <1>2 DEF ContextEnds
  <2>2. /\ task'.stream = task.stream /\ task'.payloads = task.payloads
        /\ task'.ended = task.ended /\ task'.ctx # "live"
        /\ task'.recorded = task.recorded /\ task'.running = task.running
        /\ task'.calls = task.calls /\ task'.pending = task.pending
    BY <1>f, <2>1 DEF TaskSet
  <2>3. task' \in TaskSet
    BY <1>f, <2>1 DEF TaskSet
  <2>4. RecordOK'
    BY <1>j, <2>2
  <2>5. pc = "stream" /\ pc' = pc /\ code' = code
    BY <1>2 DEF ContextEnds
  <2> QED BY <1>d, <1>f, <1>h, <2>2, <2>3, <2>4, <2>5
<1>3. CASE ToolStart
  <2>1. task' = [task EXCEPT !.calls = task.calls + 1, !.running = task.calls + 1,
                             !.pending = task.calls + 1]
        /\ task.running = 0 /\ pc = "stream" /\ UNCHANGED <<pc, code>>
    BY <1>3 DEF ToolStart, Streaming
  <2>2. /\ task'.calls = task.calls + 1 /\ task'.running = task.calls + 1
        /\ task'.pending = task.calls + 1 /\ task'.recorded = task.recorded
        /\ task'.stream = task.stream /\ task'.payloads = task.payloads
    BY <1>f, <2>1 DEF TaskSet
  <2>3. task' \in TaskSet
    <3> DEFINE n == task.calls + 1
    <3>1. n \in Nat
      BY <1>i
    <3>2. task' = [task EXCEPT !.calls = n, !.running = n, !.pending = n]
      BY <2>1
    <3> HIDE DEF n
    <3> QED BY <1>f, <3>1, <3>2 DEF TaskSet
  <2>4. RecordOK'
    BY <1>g, <1>i, <2>1, <2>2 DEF RecordOK
  <2> QED BY <1>d, <1>f, <1>h, <2>1, <2>2, <2>3, <2>4
<1>4. CASE ToolResult
  <2> DEFINE r == [result |-> task.running, args |-> task.pending]
  <2>1. task' = [task EXCEPT !.running = 0, !.pending = 0, !.recorded = Append(task.recorded, r)]
        /\ task.running # 0 /\ pc = "stream" /\ UNCHANGED <<pc, code>>
    BY <1>4 DEF ToolResult, Streaming
  <2>2. /\ task'.calls = task.calls /\ task'.running = 0 /\ task'.pending = 0
        /\ task'.recorded = Append(task.recorded, r)
        /\ task'.stream = task.stream /\ task'.payloads = task.payloads
    BY <1>f, <2>1 DEF TaskSet
  <2>3. r \in [result : Nat, args : Nat]
    BY <1>i
  <2>4. Append(task.recorded, r) \in Seq([result : Nat, args : Nat])
        /\ Len(Append(task.recorded, r)) = Len(task.recorded) + 1
        /\ \A i \in 1..Len(task.recorded) : Append(task.recorded, r)[i] = task.recorded[i]
        /\ Append(task.recorded, r)[Len(task.recorded) + 1] = r
    BY <1>i, <2>3, AppendProperties
  <2>5. task' \in TaskSet
    BY <1>f, <2>1, <2>4 DEF TaskSet
  <2>6. r = [result |-> Len(task.recorded) + 1, args |-> Len(task.recorded) + 1]
    BY <1>g, <2>1
  <2>7. RecordOK'
    <3> HIDE DEF r
    <3>1. \A i \in 1..Len(task'.recorded) : task'.recorded[i] = [result |-> i, args |-> i]
      <4> SUFFICES ASSUME NEW i \in 1..(Len(task.recorded) + 1)
                   PROVE  Append(task.recorded, r)[i] = [result |-> i, args |-> i]
        BY <2>2, <2>4
      <4>1. CASE i \in 1..Len(task.recorded)
        BY <1>g, <2>4, <4>1
      <4>2. CASE i = Len(task.recorded) + 1
        BY <2>4, <2>6, <4>2
      <4> QED BY <1>i, <4>1, <4>2, SMTT(30)
    <3> QED BY <1>g, <2>1, <2>2, <2>4, <3>1 DEF RecordOK
  <2> QED BY <1>d, <1>f, <1>h, <2>1, <2>2, <2>5, <2>7
<1>5. CASE StreamDone
  <2>1. task' = [task EXCEPT !.stream = "complete"] /\ pc = "stream" /\ UNCHANGED <<pc, code>>
    BY <1>5 DEF StreamDone, Streaming
  <2>2. /\ task'.stream = "complete" /\ task'.payloads = task.payloads
        /\ task'.recorded = task.recorded /\ task'.running = task.running
        /\ task'.calls = task.calls /\ task'.pending = task.pending
    BY <1>f, <2>1 DEF TaskSet
  <2>3. task' \in TaskSet
    BY <1>f, <2>1 DEF TaskSet
  <2>4. RecordOK'
    BY <1>j, <2>2
  <2> QED BY <1>d, <1>f, <1>h, <2>1, <2>2, <2>3, <2>4
<1>6. CASE StreamError
  <2>1. task' = [task EXCEPT !.stream = "failed", !.ended = ~flags.json /\ ~flags.tools,
                             !.payloads = IF flags.json THEN Append(task.payloads, 1)
                                                        ELSE task.payloads]
        /\ pc' = "exited" /\ code' = 1
    BY <1>6 DEF StreamError, ExitNow
  <2>2. task'.payloads = (IF flags.json THEN <<1>> ELSE <<>>) /\ RecordOK'
    BY <1>f, <1>h, <1>j, <2>1 DEF TaskSet
  <2>3. task' \in TaskSet
    <3> DEFINE p == IF flags.json THEN Append(task.payloads, 1) ELSE task.payloads
               e == ~flags.json /\ ~flags.tools
    <3>1. p \in Seq(Nat)
      BY <1>h
    <3>2. e \in BOOLEAN
      OBVIOUS
    <3>3. task' = [task EXCEPT !.stream = "failed", !.ended = e, !.payloads = p]
      BY <2>1
    <3> HIDE DEF p, e
    <3> QED BY <1>f, <3>1, <3>2, <3>3 DEF TaskSet
  <2> QED BY <1>e, <2>1, <2>2, <2>3
<1>7. CASE StreamClosed
  <2>1. task' = [task EXCEPT !.ended = TRUE,
                             !.stream = IF task.stream = "complete" THEN task.stream ELSE "cut"]
        /\ pc' = "finish" /\ UNCHANGED code /\ (task.stream = "complete" \/ task.ctx # "live")
    BY <1>7 DEF StreamClosed, Goto
  <2>2. /\ task'.payloads = task.payloads /\ task'.ended /\ task'.ctx = task.ctx
        /\ task.stream = "complete" => task'.stream = "complete"
        /\ task'.recorded = task.recorded /\ task'.running = task.running
        /\ task'.calls = task.calls /\ task'.pending = task.pending
    BY <1>f, <2>1 DEF TaskSet
  <2>3. task' \in TaskSet
    BY <1>f, <2>1 DEF TaskSet
  <2>4. RecordOK'
    BY <1>j, <2>2
  <2> QED BY <1>d, <1>f, <1>h, <2>1, <2>2, <2>3, <2>4
<1>8. CASE finishJSON
  <2>1. task' = [task EXCEPT !.payloads = IF flags.json THEN Append(task.payloads, exitForContext)
                                                        ELSE task.payloads]
        /\ pc' = "exited" /\ code' = exitForContext /\ pc = "finish"
    BY <1>8 DEF finishJSON, ExitNow
  <2>2. exitForContext \in {0, 1} /\ (exitForContext = 0 <=> task.ctx = "live")
    BY DEF exitForContext
  <2>3. task'.payloads = (IF flags.json THEN <<exitForContext>> ELSE <<>>)
        /\ task'.stream = task.stream /\ task'.ended = task.ended /\ RecordOK'
    BY <1>f, <1>h, <1>j, <2>1 DEF TaskSet
  <2>4. task' \in TaskSet
    <3> DEFINE p == IF flags.json THEN Append(task.payloads, exitForContext) ELSE task.payloads
    <3>1. p \in Seq(Nat)
      BY <1>h, <2>2
    <3>2. task' = [task EXCEPT !.payloads = p]
      BY <2>1
    <3> HIDE DEF p
    <3> QED BY <1>f, <3>1, <3>2 DEF TaskSet
  <2> QED BY <1>e, <1>h, <2>1, <2>2, <2>3, <2>4
<1> QED BY <1>2, <1>3, <1>4, <1>5, <1>6, <1>7, <1>8

\* Every step of the program reports what is so.
LEMMA ReportStep == ReportInv /\ [Next]_vars => ReportInv'
<1> SUFFICES ASSUME ReportInv, [Next]_vars PROVE ReportInv'
  OBVIOUS
<1>a. CodeOK /\ FlagsOK /\ (pc # "exited" => code = None)
  BY DEF ReportInv, CodeOK
<1>1. CASE UNCHANGED launchVars
  BY <1>1 DEF launchVars, ReportInv, FlagsOK, CodeOK, TaskOK, RecordOK, StageOK, Reported, HasTask
<1>2. CASE \/ Inform \/ Begin \/ CreateWorktree \/ ResolveTrust \/ StartTunnel \/ Diagnose
           \/ CheckHealth \/ UIFails \/ OpenUI \/ Work \/ CloseUI \/ CloseTunnel
           \/ LeaveWorktree
  <2>1. UNCHANGED <<flags, task>> /\ pc \notin {"stream", "finish", "exited"}
    BY <1>2 DEF Inform, Begin, CreateWorktree, ResolveTrust, StartTunnel, Diagnose, CheckHealth,
                UIFails, OpenUI, Work, CloseUI, CloseTunnel, LeaveWorktree
  <2>2. flags.mode \in Modes /\ "stream" \notin Modes /\ "finish" \notin Modes
    BY <1>a DEF FlagsOK, Modes
  <2>3. pc' \notin {"stream", "finish"} /\ (code' # None => pc' = "exited")
    BY <1>2, <1>a, <2>1, <2>2
       DEF Inform, Begin, CreateWorktree, ResolveTrust, StartTunnel, Diagnose, CheckHealth,
           UIFails, OpenUI, Work, CloseUI, CloseTunnel, LeaveWorktree, Goto, ExitNow
  <2> QED BY <2>1, <2>3, BeforeTask
<1>3. CASE LaunchNext
  BY <1>2, <1>3, TaskStep DEF LaunchNext
<1> QED BY <1>1, <1>2, <1>3 DEF Next, Quit, vars

\* The report of a headless run is made from what its stream has come to.
THEOREM Report == Spec => []ReportInv
BY ReportInit, ReportStep, PTL DEF Spec

\* A headless run that exits with 0 gave the whole answer, and its trace has the
\* end of the task (print.go, exitForContext).
THEOREM SuccessIsRealHolds == Spec => []SuccessIsReal
<1>1. ReportInv => SuccessIsReal
  <2> SUFFICES ASSUME ReportInv, code = 0, task # None
               PROVE  task.stream = "complete" /\ task.ended
    BY DEF SuccessIsReal
  <2>1. code # None
    BY LaunchAssumption
  <2> QED BY <2>1 DEF ReportInv, CodeOK, StageOK, HasTask
<1> QED BY <1>1, Report, PTL

\* A JSON run prints one object, with the exit code and with every result beside
\* the arguments of its own call (print.go, finishJSON).
THEOREM PayloadMatchesHolds == Spec => []PayloadMatches
<1>1. ReportInv => PayloadMatches
  <2> SUFFICES ASSUME ReportInv, code # None, flags.json, task # None
               PROVE  /\ task.payloads = <<code>>
                      /\ \A i \in 1..Len(task.recorded) :
                           task.recorded[i].args = task.recorded[i].result
                           /\ task.recorded[i].args = i
    BY DEF PayloadMatches
  <2>1. pc = "exited" /\ HasTask
    BY DEF ReportInv, CodeOK, HasTask
  <2>2. task.payloads = <<code>>
    BY <2>1 DEF ReportInv, StageOK, Reported
  <2>3. \A i \in 1..Len(task.recorded) : task.recorded[i] = [result |-> i, args |-> i]
    BY <2>1 DEF ReportInv, RecordOK
  <2>4. \A i \in 1..Len(task.recorded) :
          task.recorded[i].result = i /\ task.recorded[i].args = i
    <3> SUFFICES ASSUME NEW i \in 1..Len(task.recorded)
                 PROVE  task.recorded[i].result = i /\ task.recorded[i].args = i
      OBVIOUS
    <3>1. task.recorded[i] = [result |-> i, args |-> i]
      BY <2>3
    <3> QED BY <3>1
  <2> QED BY <2>2, <2>4
<1> QED BY <1>1, Report, PTL

-----------------------------------------------------------------------------
\* The parts of the source index, and what was made of them, stay in step.
LEMMA IndexStep == ScreenInv /\ ScreensNext => IndexOK' /\ SourcesOnce'
<1> SUFFICES ASSUME ScreenInv, ScreensNext PROVE IndexOK' /\ SourcesOnce'
  OBVIOUS
<1>a. IndexOK /\ SourcesOnce
  BY DEF ScreenInv
<1>1. CASE RepoMapReady
  <2>1. "repoMap" \in cmds /\ cmds' = cmds \ {"repoMap"}
    BY <1>1 DEF RepoMapReady, Took, Message
  <2>2. CASE have' = have \cup {"index"} /\ "rag" \in have /\ sources' = sources + 1
             /\ UNCHANGED sourcesDue
    BY <1>a, <2>1, <2>2 DEF IndexOK, SourcesOnce
  <2>3. CASE have' = have \cup {"index"} /\ "rag" \notin have /\ sourcesDue' = TRUE
             /\ UNCHANGED sources
    BY <1>a, <2>1, <2>3 DEF IndexOK, SourcesOnce
  <2>4. CASE sourcesDue' = FALSE /\ UNCHANGED <<have, sources>>
    BY <1>a, <2>1, <2>4 DEF IndexOK, SourcesOnce
  <2> QED BY <1>1, <2>2, <2>3, <2>4 DEF RepoMapReady
<1>2. CASE RAGReady
  <2>1. "rag" \in cmds /\ cmds' = cmds \ {"rag"} /\ UNCHANGED sourcesDue
    BY <1>2 DEF RAGReady, Took, Message
  <2>2. CASE have' = have \cup {"rag"} /\ sourcesDue /\ sources' = sources + 1
    BY <1>a, <2>1, <2>2 DEF IndexOK, SourcesOnce
  <2>3. CASE have' = have \cup {"rag"} /\ ~sourcesDue /\ UNCHANGED sources
    BY <1>a, <2>1, <2>3 DEF IndexOK, SourcesOnce
  <2>4. CASE UNCHANGED <<have, sources>>
    BY <1>a, <2>1, <2>4 DEF IndexOK, SourcesOnce
  <2> QED BY <1>2, <2>2, <2>3, <2>4 DEF RAGReady
<1>3. ASSUME UNCHANGED <<sources, sourcesDue>>, have' \in {have, have \cup {"mcp"}},
             "repoMap" \in cmds' => "repoMap" \in cmds, "rag" \in cmds' => "rag" \in cmds
      PROVE  IndexOK' /\ SourcesOnce'
  BY <1>a, <1>3 DEF IndexOK, SourcesOnce
<1>4. CASE \/ Setup \/ MCPReady \/ SessionLoaded \/ Cancelled \/ Browse \/ Choose \/ Escape
           \/ Talk \/ StreamEvent
  <2>1. UNCHANGED <<sources, sourcesDue>> /\ have' \in {have, have \cup {"mcp"}}
    BY <1>4 DEF Setup, MCPReady, SessionLoaded, Cancelled, Browse, Choose, Escape, Talk,
                StreamEvent
  <2>2. \A k \in {"repoMap", "rag"} : k \in cmds' => k \in cmds
    BY <1>4 DEF Setup, MCPReady, SessionLoaded, Cancelled, Browse, Choose, Escape, Talk,
                StreamEvent, Took
  <2> QED BY <1>3, <2>1, <2>2
<1>5. CASE \/ ShowModels \/ ShowSessions \/ HubTags \/ PullLine \/ PullDone
           \/ ModelsLoaded \/ ModelSelected \/ ModelPreloaded
  <2>1. UNCHANGED <<sources, sourcesDue, have>>
    BY <1>5 DEF ShowModels, ShowSessions, HubTags, PullLine, PullDone, ModelsLoaded,
                ModelSelected, ModelPreloaded
  <2>2. \A k \in {"repoMap", "rag"} : k \in cmds' => k \in cmds
    BY <1>5 DEF ShowModels, ShowSessions, HubTags, PullLine, PullDone, ModelsLoaded,
                ModelSelected, ModelPreloaded, NewModelBrowser, Load, Took
  <2> QED BY <1>3, <2>1, <2>2
<1> QED BY <1>1, <1>2, <1>4, <1>5 DEF ScreensNext

\* A chat is made with the parts there are, and is told of those that come later.
LEMMA ChatStep == ScreenInv /\ ScreensNext => ChatOK' /\ ChatHasAll'
<1> SUFFICES ASSUME ScreenInv, ScreensNext PROVE ChatOK' /\ ChatHasAll'
  OBVIOUS
<1>a. ChatOK /\ ChatHasAll
  BY DEF ScreenInv
<1>1. ASSUME UNCHANGED have, setupDue' \in BOOLEAN, NEW b \in BOOLEAN,
             chat' = [parts |-> have, missed |-> {}, setup |-> b, busy |-> FALSE]
      PROVE  ChatOK' /\ ChatHasAll'
  BY <1>a, <1>1 DEF ChatOK, ChatHasAll
<1>2. ASSUME UNCHANGED <<have, chat>>, setupDue' \in BOOLEAN,
             "stream" \in cmds => "stream" \in cmds'
      PROVE  ChatOK' /\ ChatHasAll'
  BY <1>a, <1>2 DEF ChatOK, ChatHasAll
<1>3. ASSUME NEW p \in Parts, have' = have \cup {p}, Inject(p), UNCHANGED setupDue,
             "stream" \in cmds => "stream" \in cmds'
      PROVE  ChatOK' /\ ChatHasAll'
  <2>1. have' \subseteq Parts /\ setupDue' \in BOOLEAN
    BY <1>a, <1>3 DEF ChatOK
  <2>2. CASE chat = NoChat
    BY <1>3, <2>1, <2>2 DEF Inject, ChatOK, ChatHasAll
  <2>3. CASE chat # NoChat
    <3>1. chat' \in {[chat EXCEPT !.parts = @ \cup {p}], [chat EXCEPT !.missed = @ \cup {p}]}
      BY <1>3, <2>3 DEF Inject
    <3>2. chat' \in [parts : SUBSET Parts, setup : BOOLEAN, busy : BOOLEAN,
                     missed : SUBSET (Parts \cup {"stream"})]
      BY <1>a, <1>3, <2>3, <3>1 DEF ChatOK
    <3>3. chat.parts \cup chat.missed \cup {p} \subseteq chat'.parts \cup chat'.missed
          /\ chat.missed \subseteq chat'.missed /\ chat'.busy = chat.busy
      BY <1>a, <2>3, <3>1 DEF ChatOK
    <3> QED BY <1>a, <1>3, <2>1, <2>3, <3>2, <3>3 DEF ChatOK, ChatHasAll
  <2> QED BY <2>2, <2>3
<1>b. setupDue \in BOOLEAN
  BY <1>a DEF ChatOK
<1>4. CASE RepoMapReady \/ RAGReady \/ MCPReady
  <2>1. UNCHANGED setupDue /\ ("stream" \in cmds => "stream" \in cmds')
    BY <1>4 DEF RepoMapReady, RAGReady, MCPReady, Took
  <2>2. (UNCHANGED <<have, chat>>)
        \/ \E p \in Parts : have' = have \cup {p} /\ Inject(p)
    BY <1>4 DEF RepoMapReady, RAGReady, MCPReady, Parts
  <2> QED BY <1>b, <1>2, <1>3, <2>1, <2>2
<1>5. CASE \/ SessionLoaded \/ ModelsLoaded \/ ModelSelected \/ ModelPreloaded
  <2>1. UNCHANGED have /\ ("stream" \in cmds => "stream" \in cmds')
    BY <1>5 DEF SessionLoaded, ModelsLoaded, ModelSelected, ModelPreloaded, NewModelBrowser,
                Load, Took
  <2>2. \/ UNCHANGED <<chat, setupDue>>
        \/ setupDue' \in {FALSE, setupDue} /\ \E b \in {FALSE, setupDue} :
              chat' = [parts |-> have, missed |-> {}, setup |-> b, busy |-> FALSE]
    BY <1>5 DEF SessionLoaded, ModelsLoaded, ModelSelected, ModelPreloaded, NewModelBrowser,
                Load, transitionToChat, NewChat
  <2> QED BY <1>b, <1>1, <1>2, <2>1, <2>2
<1>6. CASE \/ Cancelled \/ Browse \/ Choose \/ Escape \/ ShowModels \/ ShowSessions
           \/ HubTags \/ PullLine \/ PullDone
  <2>1. UNCHANGED <<have, chat, setupDue>>
    BY <1>6 DEF Cancelled, Browse, Choose, Escape, ShowModels, ShowSessions, HubTags, PullLine,
                PullDone
  <2>2. "stream" \in cmds => "stream" \in cmds'
    BY <1>6 DEF Cancelled, Browse, Choose, Escape, ShowModels, ShowSessions, HubTags, PullLine,
                PullDone, NewModelBrowser, Took
  <2> QED BY <1>b, <1>2, <2>1, <2>2
<1>7. CASE Setup
  <2>1. UNCHANGED have /\ ("stream" \in cmds => "stream" \in cmds') /\ setupDue' \in BOOLEAN
    BY <1>b, <1>7 DEF Setup, Took
  <2>2. CASE UNCHANGED chat
    BY <1>2, <2>1, <2>2
  <2>3. CASE chat # NoChat /\ chat' = [chat EXCEPT !.setup = TRUE]
    BY <1>a, <2>1, <2>3 DEF ChatOK, ChatHasAll
  <2> QED BY <1>7, <2>2, <2>3 DEF Setup
<1>8. CASE Talk
  <2>1. PICK k \in {"show", "sessions", "stream"} :
          cmds' = cmds \cup {k} /\ chat' = [chat EXCEPT !.busy = k = "stream"]
    BY <1>8 DEF Talk
  <2>2. UNCHANGED <<have, setupDue>> /\ chat # NoChat
    BY <1>8 DEF Talk
  <2>3. (k = "stream") \in BOOLEAN
    OBVIOUS
  <2>4. /\ chat'.parts = chat.parts /\ chat'.missed = chat.missed
        /\ chat'.busy = (k = "stream") /\ chat'.setup = chat.setup
    BY <1>a, <2>1, <2>2 DEF ChatOK
  <2> QED BY <1>a, <2>1, <2>2, <2>3, <2>4 DEF ChatOK, ChatHasAll
<1>9. CASE StreamEvent
  <2>1. UNCHANGED <<have, setupDue>>
    BY <1>9 DEF StreamEvent
  <2>2. CASE chat = NoChat
    BY <1>a, <1>9, <2>1, <2>2 DEF StreamEvent, ChatOK, ChatHasAll
  <2>3. CASE chat # NoChat /\ chat' = [chat EXCEPT !.missed = @ \cup {"stream"}]
    BY <1>a, <2>1, <2>3 DEF ChatOK, ChatHasAll
  <2>4. ASSUME NEW last \in BOOLEAN, chat # NoChat,
               chat' = [chat EXCEPT !.busy = @ /\ ~last],
               cmds' = IF ~last /\ chat.busy THEN cmds ELSE Took("stream")
        PROVE  ChatOK' /\ ChatHasAll'
    <3>1. /\ chat'.parts = chat.parts /\ chat'.missed = chat.missed
          /\ chat'.busy => ~last /\ chat.busy
      BY <1>a, <2>4 DEF ChatOK
    <3>2. chat' \in [parts : SUBSET Parts, setup : BOOLEAN, busy : BOOLEAN,
                     missed : SUBSET (Parts \cup {"stream"})]
      BY <1>a, <2>4 DEF ChatOK
    <3> QED BY <1>a, <2>1, <2>4, <3>1, <3>2 DEF ChatOK, ChatHasAll
  <2> QED BY <1>9, <2>2, <2>3, <2>4 DEF StreamEvent
<1> QED BY <1>4, <1>5, <1>6, <1>7, <1>8, <1>9 DEF ScreensNext

\* The screens agree from the start of the terminal UI to its end.
THEOREM Screened == Spec => []ScreenInv
<1>1. Init => ScreenInv
  BY DEF Init, LaunchInit, ScreensInit, ScreenInv, OutsideOK, IndexOK, SourcesOnce, ChatOK,
         ChatHasAll
<1>2. ScreenInv /\ [Next]_vars => ScreenInv'
  <2> SUFFICES ASSUME ScreenInv, [Next]_vars PROVE ScreenInv'
    OBVIOUS
  <2>1. CASE pc' = pc /\ UNCHANGED screenVars
    BY <2>1 DEF screenVars, ScreenInv, OutsideOK, IndexOK, SourcesOnce, ChatOK, ChatHasAll
  <2>2. CASE LaunchNext /\ UNCHANGED screenVars
    <3>1. pc = "ui" => pc' = pc
      BY <2>2 DEF LaunchNext, Inform, Begin, CreateWorktree, ResolveTrust, StartTunnel, Diagnose,
                  CheckHealth, StartPrint, ContextEnds, ToolStart, ToolResult, StreamDone,
                  StreamError, StreamClosed, finishJSON, UIFails, Work, CloseTunnel,
                  LeaveWorktree, Streaming
    <3> QED BY <2>2, <3>1
            DEF screenVars, ScreenInv, OutsideOK, IndexOK, SourcesOnce, ChatOK, ChatHasAll
  <2>3. ASSUME OpenUI, NEW how \in Starts, StartUI(how)
        PROVE  ScreenInv'
    <3>1. pc # "ui" /\ pc' = "ui" /\ UNCHANGED <<have, sources, sourcesDue, setupDue, chat>>
      BY <2>3 DEF OpenUI, Goto, StartUI
    <3> QED BY <3>1 DEF ScreenInv, OutsideOK, IndexOK, SourcesOnce, ChatOK, ChatHasAll
  <2>4. CASE pc = "ui" /\ ScreensNext /\ UNCHANGED launchVars
    BY <2>4, IndexStep, ChatStep DEF launchVars, ScreenInv, OutsideOK
  <2>5. CASE Quit
    BY <2>5 DEF Quit, ScreensGone, ScreenInv, OutsideOK, IndexOK, SourcesOnce, ChatOK, ChatHasAll
  <2> QED BY <2>1, <2>2, <2>3, <2>4, <2>5, StartAssumption DEF Next, vars, launchVars
<1> QED BY <1>1, <1>2, PTL DEF Spec

\* The source index is built once, when both its parts are there, whichever came
\* first (app.go, the handlers of the two messages).
THEOREM SourcesOnceHolds == Spec => []SourcesOnce
BY Screened, PTL DEF ScreenInv

\* The chat has every part that came in, but for those that came behind another
\* screen, and one that waits for its stream listens to it, with the same
\* exception (app.go, Update).
THEOREM ChatHasAllHolds == Spec => []ChatHasAll
BY Screened, PTL DEF ScreenInv

-----------------------------------------------------------------------------
(* Sequences that are put together one by one. *)

\* A set of numbers has a least one: the theorem of the library about the
\* relation <, for sets, which the provers can use.
LEMMA LeastNat ==
  ASSUME NEW S, S \subseteq Nat, S # {}
  PROVE  \E x \in S : \A y \in S : x <= y
<1> DEFINE R == {ss \in Nat \X Nat : ss[1] < ss[2]}
<1>1. IsWellFoundedOn(R, Nat)
  BY NatLessThanWellFounded DEF OpToRel
<1>2. \E x \in S : \A y \in S : <<y, x>> \notin R
  <2> HIDE DEF R
  <2> QED BY <1>1, WFMin
<1>3. ASSUME NEW x \in Nat, NEW y \in Nat, <<y, x>> \notin R PROVE x <= y
  BY <1>3
<1> QED BY <1>2, <1>3

\* Induction, as a fact about sets of numbers.
LEMMA NatInduct ==
  ASSUME NEW T, 0 \in T, \A n \in Nat : n \in T => n + 1 \in T
  PROVE  \A n \in Nat : n \in T
<1> DEFINE S == Nat \ T
<1>1. SUFFICES ASSUME S # {} PROVE FALSE
  OBVIOUS
<1>2. PICK x \in S : \A y \in S : x <= y
  <2> HIDE DEF S
  <2>1. S \subseteq Nat BY DEF S
  <2> QED BY <1>1, <2>1, LeastNat
<1>3. x # 0 OBVIOUS
<1>4. x - 1 \in Nat /\ x - 1 \notin S BY <1>2, <1>3
<1> QED BY <1>4

\* FlattenSeq, up to the n-th sequence.
Flat(s, f, n) == f = [i \in 1..n |-> IF i = 1 THEN s[i] ELSE f[i - 1] \o s[i]]

\* One step of the recursion.
LEMMA FlatAt ==
  ASSUME NEW s, NEW f, NEW n \in Nat, Flat(s, f, n), NEW i \in 1..n
  PROVE  f[i] = IF i = 1 THEN s[1] ELSE f[i - 1] \o s[i]
BY DEF Flat

\* There is a function that the recursion defines, for every n.
LEMMA FlatExists ==
  ASSUME NEW s
  PROVE  \A n \in Nat : \E f : Flat(s, f, n)
<1> DEFINE T == {n \in Nat : \E f : Flat(s, f, n)}
<1>1. 0 \in T
  <2>1. Flat(s, [i \in 1..0 |-> 0], 0)
    BY DEF Flat
  <2> QED BY <2>1
<1>2. ASSUME NEW n \in Nat, n \in T PROVE n + 1 \in T
  <2>1. PICK f : Flat(s, f, n) BY <1>2
  <2> DEFINE g == [i \in 1..n + 1 |-> IF i <= n THEN f[i] ELSE IF i = 1 THEN s[i] ELSE f[i - 1] \o s[i]]
  <2>2. g = [i \in 1..n + 1 |-> IF i = 1 THEN s[i] ELSE g[i - 1] \o s[i]]
    <3>1. ASSUME NEW i \in 1..n + 1 PROVE g[i] = IF i = 1 THEN s[i] ELSE g[i - 1] \o s[i]
      <4>1. CASE i <= n
        <5>1. i \in 1..n /\ (i # 1 => i - 1 <= n /\ i - 1 \in 1..n + 1)
          BY <4>1
        <5>2. i # 1 => g[i - 1] = f[i - 1]
          BY <5>1
        <5>3. g[i] = f[i]
          BY <4>1
        <5> HIDE DEF g
        <5> QED BY <2>1, <5>1, <5>2, <5>3, FlatAt
      <4>2. CASE i = n + 1
        <5>1. ~(i <= n) /\ (i # 1 => i - 1 <= n /\ i - 1 \in 1..n + 1)
          BY <4>2
        <5>2. i # 1 => g[i - 1] = f[i - 1]
          BY <5>1
        <5> QED BY <5>1, <5>2
      <4>3. i <= n \/ i = n + 1
        OBVIOUS
      <4> QED BY <4>1, <4>2, <4>3
    <3>2. g = [i \in 1..n + 1 |-> g[i]]
      OBVIOUS
    <3> HIDE DEF g
    <3> QED BY <3>1, <3>2, Zenon
  <2> HIDE DEF g
  <2>3. Flat(s, g, n + 1)
    BY <2>2 DEF Flat
  <2> QED BY <2>3
<1> HIDE DEF T
<1>3. \A n \in Nat : n \in T BY <1>1, <1>2, NatInduct
<1> QED BY <1>3 DEF T

\* Flattened sequences are a sequence, and not empty if none of them is.
LEMMA FlattenType ==
  ASSUME NEW X, NEW s \in Seq(Seq(X)), s # <<>>
  PROVE  /\ FlattenSeq(s) \in Seq(X)
         /\ (\A i \in 1..Len(s) : s[i] # <<>>) => FlattenSeq(s) # <<>>
<1>1. PICK f : Flat(s, f, Len(s)) BY FlatExists, LenProperties
<1>2. FlattenSeq(s) = (CHOOSE h : Flat(s, h, Len(s)))[Len(s)]
  BY DEF FlattenSeq, Flat
<1> DEFINE h == CHOOSE g : Flat(s, g, Len(s))
<1>3. Flat(s, h, Len(s)) BY <1>1
<1> HIDE DEF h
<1> DEFINE T == {n \in Nat : n + 1 \in 1..Len(s) => h[n + 1] \in Seq(X) /\ (s[n + 1] # <<>> => h[n + 1] # <<>>)}
<1>4. 0 \in T BY <1>3 DEF Flat
<1>5. ASSUME NEW n \in Nat, n \in T PROVE n + 1 \in T
  <2> SUFFICES ASSUME n + 2 \in 1..Len(s)
               PROVE  h[n + 2] \in Seq(X) /\ (s[n + 2] # <<>> => h[n + 2] # <<>>)
    OBVIOUS
  <2>1. h[n + 2] = h[n + 1] \o s[n + 2]
    <3>1. Len(s) \in Nat /\ n + 2 # 1 /\ (n + 2) - 1 = n + 1
      BY LenProperties
    <3>2. h[n + 2] = IF n + 2 = 1 THEN s[1] ELSE h[(n + 2) - 1] \o s[n + 2]
      BY <1>3, <3>1, FlatAt
    <3> QED BY <3>1, <3>2
  <2>2. h[n + 1] \in Seq(X) /\ s[n + 2] \in Seq(X) BY <1>5
  <2> HIDE DEF T
  <2> QED BY <2>1, <2>2, ConcatProperties, ConcatEqualIffEmpty
<1> HIDE DEF T
<1>6. \A n \in Nat : n \in T
  BY <1>4, <1>5, NatInduct
<1>7. Len(s) - 1 \in Nat BY LenProperties
<1>8. h[Len(s)] \in Seq(X) /\ (s[Len(s)] # <<>> => h[Len(s)] # <<>>) 
  <2>1. Len(s) - 1 \in T /\ (Len(s) - 1) + 1 = Len(s) /\ Len(s) \in 1..Len(s)
    BY <1>6, <1>7
  <2> QED BY <2>1 DEF T
<1>9. (\A i \in 1..Len(s) : s[i] # <<>>) => s[Len(s)] # <<>>
  BY <1>7
<1> QED BY <1>2, <1>8, <1>9 DEF h
-----------------------------------------------------------------------------
(* The pickers.  PickerInv is what is true of a list whatever keys, tags and  *)
(* window it has seen: it needs that the browser's tabs are those of its      *)
(* shelf, so that the tags, which come late, put no other tab in their place. *)

ItemKinds == {"other", "cloud", "session", "header", "pullable"}
Shelf == [local : Nat, cloud : Nat, hub : Seq(Nat)]
Lines == Seq(Seq(ItemKinds))

PickerType ==
  [kind : {"browser", "models", "sessions"}, shelf : Shelf, tabs : Lines, tab : Int,
   cursor : Int, offset : Int, height : Int, pulling : BOOLEAN]

IsPicker(l) == l \in PickerType /\ l.tab \in 1..Len(l.tabs)
CursorIn(l) == Items(l) # <<>> => l.cursor \in 0..(Len(Items(l)) - 1)
InView(l) == Items(l) # <<>> => l.cursor \in l.offset..(l.offset + Rows(l) - 1)
Fine(l) == IsPicker(l) /\ CursorIn(l) /\ InView(l)

PickerInv ==
  list # NoList =>
    /\ Fine(list)
    /\ screen = "modelBrowser" =>
         list.tabs \in {Lists(list.shelf, FALSE), Lists(list.shelf, TRUE)}

\* The items of a tab are a sequence.
LEMMA ItemsType ==
  ASSUME NEW l, IsPicker(l)
  PROVE  /\ Items(l) \in Seq(ItemKinds) /\ Len(Items(l)) \in Nat
         /\ Items(l) # <<>> <=> Len(Items(l)) > 0
<1>1. l.tabs \in Seq(Seq(ItemKinds)) /\ l.tab \in 1..Len(l.tabs)
  BY DEF IsPicker, PickerType, Lines
<1>2. Items(l) \in Seq(ItemKinds)
  BY <1>1, ElementOfSeq DEF Items
<1> QED BY <1>2, EmptySeq, LenProperties

\* A window shows three lines at least, however small it is (PageSize).
LEMMA RowsPositive ==
  ASSUME NEW l, IsPicker(l)
  PROVE  Rows(l) \in Int /\ Rows(l) >= 3
<1>1. l.height \in Int
  BY DEF IsPicker, PickerType
<1>2. /\ PageSize(l.height, 5, 5) \in Int /\ PageSize(l.height, 5, 5) >= 5
      /\ PageSize(l.height, 7, 3) \in Int /\ PageSize(l.height, 7, 3) >= 3
  BY <1>1 DEF PageSize
<1> QED BY <1>2 DEF Rows

\* skipHeader leaves the cursor in the list, wherever it was.
LEMMA SkipFine ==
  ASSUME NEW l, IsPicker(l), NEW dir \in {-1, 1}
  PROVE  /\ IsPicker(Skip(l, dir)) /\ CursorIn(Skip(l, dir))
         /\ Skip(l, dir).tabs = l.tabs /\ Skip(l, dir).shelf = l.shelf
         /\ Skip(l, dir).offset = l.offset /\ Rows(Skip(l, dir)) = Rows(l)
         /\ Items(Skip(l, dir)) = Items(l)
         /\ l.cursor = 0 /\ Items(l) # <<>> => Skip(l, dir).cursor <= 1
<1> DEFINE n == Len(Items(l))
           c == IF IsHeader(l, l.cursor) THEN l.cursor + dir ELSE l.cursor
           d == IF c >= n THEN n - 1 ELSE IF c < 0 THEN 0 ELSE c
           s == Skip(l, dir)
<1>1. l \in PickerType /\ l.tab \in 1..Len(l.tabs) /\ l.cursor \in Int
  BY DEF IsPicker, PickerType
<1>2. n \in Nat /\ c \in Int /\ d \in Int
  BY <1>1, ItemsType
<1>3. s = [l EXCEPT !.cursor = d]
  BY DEF Skip
<1>4. n > 0 => d \in 0..(n - 1)
  <2> HIDE DEF n, c
  <2> QED BY <1>2
<1>5. l.cursor = 0 /\ n > 0 => d <= 1
  <2>1. l.cursor = 0 => c <= 1
    OBVIOUS
  <2> HIDE DEF n, c
  <2> QED BY <1>2, <2>1
<1> HIDE DEF d, s
<1>6. /\ s \in PickerType /\ s.tab = l.tab /\ s.tabs = l.tabs /\ s.shelf = l.shelf /\ s.cursor = d
      /\ s.offset = l.offset /\ s.kind = l.kind /\ s.height = l.height
  BY <1>1, <1>2, <1>3 DEF PickerType
<1>7. Items(s) = Items(l) /\ Rows(s) = Rows(l) /\ IsPicker(s)
  BY <1>1, <1>6 DEF Items, Rows, IsPicker
<1>8. CursorIn(s)
  BY <1>4, <1>6, <1>7, ItemsType DEF CursorIn
<1> QED BY <1>5, <1>6, <1>7, <1>8, ItemsType DEF s

\* AdjustScroll brings a cursor that is in the list into view.
LEMMA ScrollFine ==
  ASSUME NEW l, IsPicker(l), CursorIn(l)
  PROVE  /\ Fine(AdjustScroll(l))
         /\ AdjustScroll(l).tabs = l.tabs /\ AdjustScroll(l).shelf = l.shelf
<1> DEFINE top == IF l.cursor < l.offset THEN l.cursor
                  ELSE IF l.cursor >= l.offset + Rows(l) THEN l.cursor - Rows(l) + 1
                  ELSE l.offset
           o == IF top < 0 THEN 0 ELSE top
           s == AdjustScroll(l)
<1>1. l \in PickerType /\ l.tab \in 1..Len(l.tabs) /\ l.cursor \in Int /\ l.offset \in Int
  BY DEF IsPicker, PickerType
<1>2. Rows(l) \in Int /\ Rows(l) >= 3
  BY RowsPositive
<1>3. o \in Int /\ (l.cursor >= 0 => l.cursor \in o..(o + Rows(l) - 1))
  BY <1>1, <1>2
<1>4. s = [l EXCEPT !.offset = o]
  BY DEF AdjustScroll
<1> HIDE DEF o, s
<1>5. /\ s \in PickerType /\ s.tab = l.tab /\ s.tabs = l.tabs /\ s.shelf = l.shelf
      /\ s.cursor = l.cursor /\ s.offset = o /\ s.kind = l.kind /\ s.height = l.height
  BY <1>1, <1>3, <1>4 DEF PickerType
<1>6. Items(s) = Items(l) /\ Rows(s) = Rows(l) /\ IsPicker(s)
  BY <1>1, <1>5 DEF Items, Rows, IsPicker
<1>7. CursorIn(s) /\ InView(s)
  BY <1>3, <1>5, <1>6, ItemsType DEF CursorIn, InView
<1> QED BY <1>5, <1>6, <1>7 DEF Fine, s

\* A cursor at the top of a list that is not scrolled is in view.
LEMMA TopFine ==
  ASSUME NEW l, IsPicker(l), l.offset = 0, Items(l) # <<>> => l.cursor \in {0, 1},
         CursorIn(l)
  PROVE  Fine(l)
BY RowsPositive DEF Fine, InView

\* The keys up, down, left and right.
LEMMA KeysFine ==
  ASSUME NEW l, Fine(l), NEW dir \in {-1, 1}
  PROVE  /\ Fine(Moved(l, dir)) /\ Moved(l, dir).tabs = l.tabs /\ Moved(l, dir).shelf = l.shelf
         /\ Fine(Turned(l, dir)) /\ Turned(l, dir).tabs = l.tabs /\ Turned(l, dir).shelf = l.shelf
<1>1. l \in PickerType /\ l.tab \in 1..Len(l.tabs) /\ IsPicker(l) /\ l.tab \in Int /\ l.cursor \in Int
  BY DEF Fine, IsPicker, PickerType
<1>2. Fine(Moved(l, dir)) /\ Moved(l, dir).tabs = l.tabs /\ Moved(l, dir).shelf = l.shelf
  <2>1. CASE l.cursor + dir \in 0..(Len(Items(l)) - 1)
    <3> DEFINE m == [l EXCEPT !.cursor = @ + dir]
    <3>1. m \in PickerType /\ m.tab = l.tab /\ m.tabs = l.tabs /\ m.shelf = l.shelf
      BY <1>1 DEF PickerType
    <3>2. IsPicker(m)
      BY <1>1, <3>1 DEF IsPicker
    <3>3. Moved(l, dir) = AdjustScroll(Skip(m, dir))
      BY <2>1 DEF Moved
    <3> HIDE DEF m
    <3>4. IsPicker(Skip(m, dir)) /\ CursorIn(Skip(m, dir)) /\ Skip(m, dir).tabs = l.tabs
          /\ Skip(m, dir).shelf = l.shelf
      BY <3>1, <3>2, SkipFine
    <3> QED BY <3>3, <3>4, ScrollFine
  <2>2. CASE l.cursor + dir \notin 0..(Len(Items(l)) - 1)
    BY <2>2 DEF Moved
  <2> QED BY <2>1, <2>2
<1>3. Fine(Turned(l, dir)) /\ Turned(l, dir).tabs = l.tabs /\ Turned(l, dir).shelf = l.shelf
  <2>1. CASE l.tab + dir \in 1..Len(l.tabs)
    <3> DEFINE m == [l EXCEPT !.tab = @ + dir, !.cursor = 0, !.offset = 0]
    <3>1. /\ m \in PickerType /\ m.tab = l.tab + dir /\ m.tabs = l.tabs /\ m.shelf = l.shelf
          /\ m.cursor = 0 /\ m.offset = 0
      <4> DEFINE t == l.tab + dir
      <4>1. t \in Int
        BY <1>1
      <4>2. m = [l EXCEPT !.tab = t, !.cursor = 0, !.offset = 0]
        OBVIOUS
      <4> HIDE DEF t, m
      <4>3. m \in PickerType
        <5>1. [l EXCEPT !.tab = t] \in PickerType
          BY <1>1, <4>1 DEF PickerType
        <5>2. \A r \in PickerType : [r EXCEPT !.cursor = 0] \in PickerType
          BY DEF PickerType
        <5>3. \A r \in PickerType : [r EXCEPT !.offset = 0] \in PickerType
          BY DEF PickerType
        <5>4. m = [[[l EXCEPT !.tab = t] EXCEPT !.cursor = 0] EXCEPT !.offset = 0]
          BY <1>1, <4>2 DEF PickerType
        <5> QED BY <5>1, <5>2, <5>3, <5>4
      <4>4. m.tab = t /\ m.tabs = l.tabs /\ m.shelf = l.shelf /\ m.cursor = 0 /\ m.offset = 0
        BY <1>1, <4>2 DEF PickerType
      <4> QED BY <4>3, <4>4 DEF t
    <3>2. IsPicker(m)
      BY <2>1, <3>1 DEF IsPicker
    <3>3. Turned(l, dir) = Skip(m, 1)
      BY <2>1 DEF Turned
    <3> HIDE DEF m
    <3>4. /\ IsPicker(Skip(m, 1)) /\ CursorIn(Skip(m, 1)) /\ Skip(m, 1).offset = 0
          /\ Items(Skip(m, 1)) = Items(m) /\ (Items(m) # <<>> => Skip(m, 1).cursor <= 1)
          /\ Skip(m, 1).tabs = l.tabs /\ Skip(m, 1).shelf = l.shelf
      BY <3>1, <3>2, SkipFine
    <3>5. Items(Skip(m, 1)) # <<>> => Skip(m, 1).cursor \in {0, 1}
      BY <3>2, <3>4, ItemsType DEF CursorIn
    <3> QED BY <3>3, <3>4, <3>5, TopFine
  <2>2. CASE l.tab + dir \notin 1..Len(l.tabs)
    BY <2>2 DEF Turned
  <2> QED BY <2>1, <2>2
<1> QED BY <1>2, <1>3

\* The tabs of a shelf: those the tags bring are as many as there were.
LEMMA ListsType ==
  ASSUME NEW shelf \in Shelf
  PROVE  /\ \A tags \in BOOLEAN : Lists(shelf, tags) \in Lines /\ 1 \in 1..Len(Lists(shelf, tags))
         /\ Len(Lists(shelf, TRUE)) = Len(Lists(shelf, FALSE))
<1>1. shelf.hub \in Seq(Nat) /\ shelf.local \in Nat /\ shelf.cloud \in Nat /\ Len(shelf.hub) \in Nat
  BY LenProperties DEF Shelf
<1>2. ASSUME NEW tags \in BOOLEAN
      PROVE  /\ HubItems(shelf, tags) \in Seq(ItemKinds)
             /\ HubItems(shelf, tags) = <<>> <=> shelf.hub = <<>>
  <2> DEFINE family(f) == IF tags /\ shelf.hub[f] > 0
                          THEN <<"header">> \o [t \in 1..shelf.hub[f] |-> "pullable"]
                          ELSE <<"pullable">>
             families == [f \in 1..Len(shelf.hub) |-> family(f)]
  <2>1. HubItems(shelf, tags) = FlattenSeq(families)
    BY DEF HubItems
  <2>2. ASSUME NEW f \in 1..Len(shelf.hub) PROVE family(f) \in Seq(ItemKinds) /\ family(f) # <<>>
    <3>1. shelf.hub[f] \in Nat
      BY <1>1, ElementOfSeq
    <3>2. [t \in 1..shelf.hub[f] |-> "pullable"] \in Seq(ItemKinds)
      BY <3>1, IsASeq DEF ItemKinds
    <3>3. <<"header">> \in Seq(ItemKinds) /\ <<"pullable">> \in Seq(ItemKinds)
          /\ <<"header">> # <<>> /\ <<"pullable">> # <<>>
      BY DEF ItemKinds
    <3> QED BY <3>2, <3>3, ConcatProperties, ConcatEqualIffEmpty
  <2> HIDE DEF family
  <2>3. families \in Seq(Seq(ItemKinds)) /\ Len(families) = Len(shelf.hub)
    BY <1>1, <2>2, IsASeq
  <2>4. families = <<>> <=> shelf.hub = <<>>
    BY <1>1, <2>3, EmptySeq
  <2>5. families[1] = families[1] /\ \A i \in 1..Len(families) : families[i] # <<>>
    BY <2>2, <2>3
  <2> HIDE DEF families
  <2>6. CASE families = <<>>
    BY <2>1, <2>4, <2>6 DEF FlattenSeq
  <2>7. CASE families # <<>>
    BY <2>1, <2>3, <2>4, <2>5, <2>7, FlattenType
  <2> QED BY <2>6, <2>7
<1>3. ASSUME NEW t \in Seq(ItemKinds)
      PROVE  Filled(t) \in Lines /\ Len(Filled(t)) = IF t = <<>> THEN 0 ELSE 1
  BY <1>3 DEF Filled, Lines
<1> DEFINE rows(kind, n) == [i \in 1..n |-> kind]
<1>4. rows("other", shelf.local) \in Seq(ItemKinds) /\ rows("cloud", shelf.cloud) \in Seq(ItemKinds)
  BY <1>1, IsASeq DEF ItemKinds
<1> DEFINE own == Filled(rows("other", shelf.local)) \o Filled(rows("cloud", shelf.cloud))
<1>5. own \in Lines /\ Len(own) \in Nat
  <2> HIDE DEF rows
  <2> QED BY <1>3, <1>4, ConcatProperties, LenProperties DEF Lines
<1>6. ASSUME NEW tags \in BOOLEAN
      PROVE  LET full == own \o Filled(HubItems(shelf, tags))
             IN  /\ Lists(shelf, tags) = IF full = <<>> THEN <<full>> ELSE full
                 /\ full \in Lines /\ Len(full) = Len(own) + (IF shelf.hub = <<>> THEN 0 ELSE 1)
  <2> HIDE DEF own
  <2>1. own \o Filled(HubItems(shelf, tags)) \in Lines
    BY <1>2, <1>3, <1>5, ConcatProperties DEF Lines
  <2>2. Len(own \o Filled(HubItems(shelf, tags))) = Len(own) + (IF shelf.hub = <<>> THEN 0 ELSE 1)
    <3>1. Filled(HubItems(shelf, tags)) \in Lines
          /\ Len(Filled(HubItems(shelf, tags))) = IF shelf.hub = <<>> THEN 0 ELSE 1
      BY <1>2, <1>3
    <3>2. Len(own \o Filled(HubItems(shelf, tags))) = Len(own) + Len(Filled(HubItems(shelf, tags)))
      BY <1>5, <3>1, ConcatProperties DEF Lines
    <3> QED BY <3>1, <3>2
  <2> USE DEF own
  <2>3. Lists(shelf, tags) = LET full == own \o Filled(HubItems(shelf, tags))
                             IN  IF full = <<>> THEN <<full>> ELSE full
    BY DEF Lists
  <2> HIDE DEF own
  <2> QED BY <2>1, <2>2, <2>3
<1>7. ASSUME NEW tags \in BOOLEAN
      PROVE  /\ Lists(shelf, tags) \in Lines
             /\ Len(Lists(shelf, tags)) = IF Len(own) = 0 /\ shelf.hub = <<>> THEN 1
                                          ELSE Len(own) + (IF shelf.hub = <<>> THEN 0 ELSE 1)
  <2> DEFINE full == own \o Filled(HubItems(shelf, tags))
  <2>1. /\ Lists(shelf, tags) = IF full = <<>> THEN <<full>> ELSE full
        /\ full \in Lines /\ Len(full) = Len(own) + (IF shelf.hub = <<>> THEN 0 ELSE 1)
    BY <1>6
  <2> HIDE DEF own, full
  <2>2. full = <<>> <=> Len(full) = 0
    BY <2>1, EmptySeq DEF Lines
  <2>3. <<>> \in Seq(ItemKinds) /\ << <<>> >> \in Lines /\ Len(<< <<>> >>) = 1
    BY DEF Lines
  <2> QED BY <1>5, <2>1, <2>2, <2>3
<1> HIDE DEF own
<1>8. ASSUME NEW tags \in BOOLEAN PROVE 1 \in 1..Len(Lists(shelf, tags))
  <2>1. Len(Lists(shelf, tags)) \in Nat /\ Len(Lists(shelf, tags)) >= 1
    BY <1>5, <1>7
  <2> QED BY <2>1
<1> DEFINE k == IF Len(own) = 0 /\ shelf.hub = <<>> THEN 1
                ELSE Len(own) + (IF shelf.hub = <<>> THEN 0 ELSE 1)
<1>9. \A tags \in BOOLEAN : Len(Lists(shelf, tags)) = k
  BY <1>7
<1> HIDE DEF k
<1>10. Len(Lists(shelf, TRUE)) = Len(Lists(shelf, FALSE))
  BY <1>9, Zenon
<1>11. \A tags \in BOOLEAN : Lists(shelf, tags) \in Lines /\ 1 \in 1..Len(Lists(shelf, tags))
  BY <1>7, <1>8, Zenon
<1> QED BY <1>10, <1>11, Zenon

\* A picker that opens shows the top of its first tab.
LEMMA PickerOpens ==
  ASSUME NEW kind \in {"browser", "models", "sessions"}, NEW shelf \in Shelf, NEW tabs \in Lines,
         1 \in 1..Len(tabs)
  PROVE  Fine(Picker(kind, shelf, tabs)) /\ Picker(kind, shelf, tabs).tabs = tabs
         /\ Picker(kind, shelf, tabs).shelf = shelf
<1> DEFINE l == Picker(kind, shelf, tabs)
<1>1. /\ l \in PickerType /\ l.tab = 1 /\ l.tabs = tabs /\ l.cursor = 0 /\ l.offset = 0
      /\ l.shelf = shelf
  BY DEF Picker, PickerType
<1> HIDE DEF l
<1>2. IsPicker(l)
  BY <1>1 DEF IsPicker
<1>3. CursorIn(l)
  BY <1>1, <1>2, ItemsType DEF CursorIn
<1> QED BY <1>1, <1>2, <1>3, TopFine DEF l

\* The steps that change a list or the screen, one by one.
LEMMA PickerStep == PickerInv /\ ScreensNext => PickerInv'
<1> SUFFICES ASSUME PickerInv, ScreensNext PROVE PickerInv'
  OBVIOUS
<1>a. ASSUME UNCHANGED list, screen' = "modelBrowser" => screen = "modelBrowser" \/ list = NoList
      PROVE  PickerInv'
  <2>1. Fine(list)' = Fine(list)
    BY <1>a DEF Fine, IsPicker, CursorIn, InView, Items, Rows, PageSize
  <2> QED BY <1>a, <2>1 DEF PickerInv
<1>b. ASSUME list' = NoList PROVE PickerInv'
  BY <1>b DEF PickerInv
<1>c. ASSUME NEW l, list' = l, Fine(l),
             screen' = "modelBrowser" => l.tabs \in {Lists(l.shelf, FALSE), Lists(l.shelf, TRUE)}
      PROVE  PickerInv'
  <2>1. Fine(list)' = Fine(list')
    BY DEF Fine, IsPicker, CursorIn, InView, Items, Rows, PageSize
  <2> QED BY <1>c, <2>1 DEF PickerInv
<1>d. ASSUME NEW started, NewModelBrowser(started) PROVE PickerInv'
  <2>1. PICK shelf \in Shelves : list' = Picker("browser", shelf, Lists(shelf, FALSE))
    BY <1>d DEF NewModelBrowser
  <2>2. shelf \in Shelf
    BY ScreensAssumption DEF Shelf
  <2>3. Lists(shelf, FALSE) \in Lines /\ 1 \in 1..Len(Lists(shelf, FALSE))
    BY <2>2, ListsType, Zenon
  <2> QED BY <1>c, <2>1, <2>2, <2>3, PickerOpens
<1>e. ASSUME NEW k, NEW rest, Load(k, rest) PROVE PickerInv'
  BY <1>b, <1>e DEF Load, transitionToChat, NewChat
<1>1. CASE Setup \/ MCPReady \/ RepoMapReady \/ RAGReady \/ Escape \/ PullLine \/ Talk \/ StreamEvent
  BY <1>1, <1>a DEF Setup, MCPReady, RepoMapReady, RAGReady, Escape, PullLine, Talk, StreamEvent
<1>2. CASE SessionLoaded \/ Cancelled \/ ModelPreloaded
  BY <1>2, <1>a, <1>b DEF SessionLoaded, Cancelled, ModelPreloaded, NewChat, transitionToChat
<1>3. CASE Browse
  <2>1. list # NoList /\ Fine(list) /\ UNCHANGED screen
    BY <1>3 DEF Browse, OnPicker, PickerInv
  <2>2. CASE list' \in {Moved(list, 1), Moved(list, -1), Turned(list, 1), Turned(list, -1)}
    <3>1. PICK dir \in {-1, 1} : list' \in {Moved(list, dir), Turned(list, dir)}
      BY <2>2
    <3> QED BY <1>c, <2>1, <3>1, KeysFine DEF PickerInv
  <2>3. ASSUME NEW h \in Heights, list' = AdjustScroll([list EXCEPT !.height = h])
        PROVE  PickerInv'
    <3> DEFINE m == [list EXCEPT !.height = h]
    <3>1. list \in PickerType /\ list.tab \in 1..Len(list.tabs) /\ CursorIn(list)
      BY <2>1 DEF Fine, IsPicker
    <3>2. /\ m \in PickerType /\ m.tab = list.tab /\ m.tabs = list.tabs /\ m.cursor = list.cursor
          /\ m.shelf = list.shelf
      BY <3>1, ScreensAssumption DEF PickerType
    <3> HIDE DEF m
    <3>3. IsPicker(m) /\ CursorIn(m)
      BY <3>1, <3>2 DEF IsPicker, CursorIn, Items
    <3>4. list' = AdjustScroll(m)
      BY <2>3 DEF m
    <3> QED BY <1>c, <2>1, <3>2, <3>3, <3>4, ScrollFine DEF PickerInv
  <2> QED BY <1>3, <2>2, <2>3 DEF Browse
<1>4. ASSUME OnPicker, NEW p \in BOOLEAN, list' = [list EXCEPT !.pulling = p], UNCHANGED screen
      PROVE  PickerInv'
  <2> DEFINE m == [list EXCEPT !.pulling = p]
  <2>1. Fine(list) /\ list \in PickerType
    BY <1>4 DEF OnPicker, PickerInv, Fine, IsPicker
  <2>2. /\ m \in PickerType /\ m.tab = list.tab /\ m.tabs = list.tabs /\ m.cursor = list.cursor
        /\ m.shelf = list.shelf /\ m.offset = list.offset /\ m.kind = list.kind
        /\ m.height = list.height
    BY <2>1 DEF PickerType
  <2> HIDE DEF m
  <2>3. Fine(m)
    BY <2>1, <2>2 DEF Fine, IsPicker, CursorIn, InView, Items, Rows
  <2>4. list' = m /\ list # NoList
    BY <1>4 DEF m, OnPicker
  <2> QED BY <1>4, <1>c, <2>2, <2>3, <2>4 DEF PickerInv
<1>5. CASE Choose
  <2>1. OnPicker /\ UNCHANGED screen
    BY <1>5 DEF Choose
  <2>2. list' = [list EXCEPT !.pulling = TRUE] \/ UNCHANGED list
    BY <1>5 DEF Choose
  <2> QED BY <1>4, <1>a, <2>1, <2>2
<1>6. CASE PullDone
  <2>1. OnPicker /\ UNCHANGED screen /\ list' = [list EXCEPT !.pulling = FALSE]
    BY <1>6 DEF PullDone, OnPicker
  <2> QED BY <1>4, <2>1
<1>7. CASE ShowModels
  <2>1. NewModelBrowser(Took("show")) \/ UNCHANGED <<screen, list>>
    BY <1>7 DEF ShowModels
  <2> QED BY <1>a, <1>d, <2>1
<1>8. CASE ShowSessions
  <2> DEFINE shelf == [local |-> 0, cloud |-> 0, hub |-> <<>>]
             rows == [i \in 1..SavedSessions |-> "session"]
  <2>1. shelf \in Shelf
    BY DEF Shelf
  <2>2. rows \in Seq(ItemKinds)
    BY ScreensAssumption, IsASeq DEF ItemKinds
  <2>3. list' = Picker("sessions", shelf, <<rows>>) /\ screen' = "sessionSelect"
    BY <1>8 DEF ShowSessions
  <2> HIDE DEF shelf, rows
  <2>4. <<rows>> \in Lines /\ 1 \in 1..Len(<<rows>>)
    BY <2>2 DEF Lines
  <2> QED BY <1>c, <2>1, <2>3, <2>4, PickerOpens
<1>9. CASE HubTags
  <2>1. CASE screen # "modelBrowser" \/ list = NoList
    BY <1>9, <1>a, <2>1 DEF HubTags
  <2>2. CASE screen = "modelBrowser" /\ list # NoList
    <3> DEFINE m == [list EXCEPT !.tabs = Lists(list.shelf, TRUE)]
    <3>1. /\ list \in PickerType /\ list.tab \in 1..Len(list.tabs) /\ list.shelf \in Shelf
          /\ list.tabs \in {Lists(list.shelf, FALSE), Lists(list.shelf, TRUE)}
      BY <2>2 DEF PickerInv, Fine, IsPicker, PickerType
    <3>2. Lists(list.shelf, TRUE) \in Lines /\ Len(Lists(list.shelf, TRUE)) = Len(Lists(list.shelf, FALSE))
      BY <3>1, ListsType, Zenon
    <3>3. m \in PickerType /\ m.tab = list.tab /\ m.tabs = Lists(list.shelf, TRUE) /\ m.shelf = list.shelf
      BY <3>1, <3>2 DEF PickerType
    <3>4. IsPicker(m)
      <4>1. Len(list.tabs) = Len(m.tabs)
        BY <3>1, <3>2, <3>3
      <4> HIDE DEF m
      <4> QED BY <3>1, <3>3, <4>1 DEF IsPicker
    <3>5. list' = AdjustScroll(Skip(m, 1)) /\ UNCHANGED screen
      BY <1>9, <2>2 DEF HubTags
    <3> HIDE DEF m
    <3> QED BY <1>c, <3>3, <3>4, <3>5, SkipFine, ScrollFine
  <2> QED BY <2>1, <2>2
<1>10. CASE ModelsLoaded
  <2>1. CASE Load("other", Took("models"))
    BY <1>e, <2>1
  <2>2. CASE NewModelBrowser(Took("models"))
    BY <1>d, <2>2
  <2>3. ASSUME NEW shelf \in Shelves, screen' = "modelSelect",
               list' = Picker("models", shelf, Lists([shelf EXCEPT !.hub = <<>>], FALSE))
        PROVE  PickerInv'
    <3> DEFINE own == [shelf EXCEPT !.hub = <<>>]
    <3>1. shelf \in Shelf
      BY ScreensAssumption DEF Shelf
    <3>2. <<>> \in Seq(Nat)
      OBVIOUS
    <3>3. own \in Shelf
      BY <3>1, <3>2 DEF Shelf
    <3> HIDE DEF own
    <3>4. Lists(own, FALSE) \in Lines /\ 1 \in 1..Len(Lists(own, FALSE))
      BY <3>3, ListsType, Zenon
    <3>5. list' = Picker("models", shelf, Lists(own, FALSE))
      BY <2>3 DEF own
    <3> QED BY <1>c, <2>3, <3>1, <3>4, <3>5, PickerOpens
  <2>4. CASE UNCHANGED <<screen, list>>
    BY <1>a, <2>4
  <2> QED BY <1>10, <2>1, <2>2, <2>3, <2>4 DEF ModelsLoaded
<1>11. CASE ModelSelected
  <2>1. \/ \E k \in {"cloud", "other"} : Load(k, Took(k))
        \/ UNCHANGED <<screen, list>>
    BY <1>11 DEF ModelSelected
  <2> QED BY <1>a, <1>e, <2>1
<1> QED BY <1>1, <1>2, <1>3, <1>5, <1>6, <1>7, <1>8, <1>9, <1>10, <1>11 DEF ScreensNext

\* What holds of a picker holds from its opening to its end.
THEOREM Picked == Spec => []PickerInv
<1>1. Init => PickerInv
  BY DEF Init, ScreensInit, PickerInv
<1>2. PickerInv /\ [Next]_vars => PickerInv'
  <2> SUFFICES ASSUME PickerInv, [Next]_vars PROVE PickerInv'
    OBVIOUS
  <2>1. CASE UNCHANGED <<screen, list>>
    <3>1. Fine(list)' = Fine(list)
      BY <2>1 DEF Fine, IsPicker, CursorIn, InView, Items, Rows, PageSize
    <3> QED BY <2>1, <3>1 DEF PickerInv
  <2>2. CASE ScreensNext
    BY <2>2, PickerStep
  <2>3. CASE Quit
    BY <2>3 DEF Quit, ScreensGone, PickerInv
  <2> QED BY <2>1, <2>2, <2>3 DEF Next, vars, screenVars, StartUI
<1> QED BY <1>1, <1>2, PTL DEF Spec

\* What enter would take is a line that is on the screen, after any keys, tags
\* that come late and changes of the window, whatever can be listed (tabs.go
\* AdjustScroll, modelbrowser.go skipHeader and buildTabs).
THEOREM CursorShownHolds == Spec => []CursorShown
<1>1. PickerInv => CursorShown
  <2> SUFFICES ASSUME PickerInv, OnPicker, Items(list) # <<>>
               PROVE  list.cursor \in 0..(Len(Items(list)) - 1)
                      /\ list.cursor \in list.offset..(list.offset + Rows(list) - 1)
    BY DEF CursorShown
  <2>1. Fine(list)
    BY DEF PickerInv, OnPicker
  <2> QED BY <2>1 DEF Fine, CursorIn, InView
<1> QED BY <1>1, Picked, PTL

\* Messages and keys in any order leave the screens in step with one another
\* (app.go, Update).
THEOREM ScreensAgreeHolds == Spec => []ScreensAgree
BY CursorShownHolds, SourcesOnceHolds, ChatHasAllHolds, PTL DEF ScreensAgree
=============================================================================
