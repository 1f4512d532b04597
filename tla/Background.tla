----------------------------- MODULE Background -----------------------------
(***************************************************************************)
(* Work that a chat leaves to goroutines: the tasks of /task and /bg, which *)
(* subagents do (internal/tui/subagent.go), research in rounds             *)
(* (internal/search/research.go), and the searches for the knowledge gaps  *)
(* of a strategy.  They report with messages, which are lost while another *)
(* screen covers the chat and reach whatever chat is then open.            *)
(*                                                                         *)
(* A result is the task or the rounds that it has; texts are left out.     *)
(***************************************************************************)
EXTENDS Integers, Sequences, FiniteSets

CONSTANTS
  MaxActive,  \* how many tasks a chat may have under way (3 in the code)
  Depths,     \* of research, in rounds (1, 3 and 5 in the code)
  Gaps,       \* how many gaps a strategy may list (up to 5 in the code)
  Queue,      \* capacity of a channel of progress messages (10 in the code)
  MaxTasks, MaxChats,  \* bounds
  Nobody

\* A chat may have a task under way, research has a round, and the searches for
\* gaps, of which extractSearchQueries returns 5 at most, fit into their channel.
ASSUME BackgroundAssumption ==
  /\ MaxActive \in Nat /\ Queue \in Nat \ {0}
  /\ Depths \subseteq Nat \ {0} /\ Gaps \subseteq 1..Queue

VARIABLES
  chat,       \* the chat that was opened last
  covered,    \* another screen is open
  tasks,      \* m.subagents
  subagents,  \* the goroutines of the tasks of all chats: chat and number
  lost,       \* ghost: those whose result no chat got
  inherited,  \* ghost: numbers of tasks that ran when this chat was opened
  inquiry     \* research, or the searches for gaps

backgroundVars == <<chat, covered, tasks, subagents, lost, inherited, inquiry>>

NoInquiry ==
  [kind |-> "none", of |-> 0, depth |-> 0, pc |-> "idle", round |-> 1, queued |-> 0, heard |-> TRUE,
   stopped |-> FALSE, found |-> {}, cited |-> {}, completed |-> 0, outcome |-> "none"]

BackgroundInit ==
  /\ chat = 1 /\ covered = FALSE
  /\ tasks = <<>> /\ subagents = {} /\ lost = {} /\ inherited = {}
  /\ inquiry = NoInquiry

-----------------------------------------------------------------------------
(* The screen *)

Cover == covered' = ~covered /\ UNCHANGED <<chat, tasks, subagents, lost, inherited, inquiry>>

\* A session or a model was picked: a new chat, and what runs goes on running.
OpenChat ==
  /\ chat < MaxChats /\ chat' = chat + 1
  /\ covered' = FALSE /\ tasks' = <<>>
  /\ inherited' = {t[2] : t \in subagents}
  /\ UNCHANGED <<subagents, lost, inquiry>>

-----------------------------------------------------------------------------
(* Tasks *)

Active == {k \in DOMAIN tasks : tasks[k].status = "running"}

StartTask_CountsActive ==
  /\ inquiry = NoInquiry /\ ~covered /\ Len(tasks) < MaxTasks /\ Cardinality(Active) < MaxActive
  /\ tasks' = Append(tasks, [status |-> "running", result |-> Nobody])
  /\ subagents' = subagents \cup {<<chat, Cardinality(Active) + 1>>}
  /\ UNCHANGED <<chat, covered, lost, inherited, inquiry>>

\* Bound: what shares only the screen, tasks and an inquiry, is not mixed.
\* Tasks are numbered in each chat, as they are started.
StartTask ==
  /\ inquiry = NoInquiry /\ ~covered /\ Len(tasks) < MaxTasks /\ Cardinality(Active) < MaxActive
  /\ tasks' = Append(tasks, [status |-> "running", result |-> Nobody])
  /\ subagents' = subagents \cup {<<chat, Len(tasks) + 1>>}
  /\ UNCHANGED <<chat, covered, lost, inherited, inquiry>>

\* SubagentDoneMsg: the task of the open chat with this number has the result.
SubagentDone ==
  \E t \in subagents, status \in {"completed", "failed"} :
    /\ subagents' = subagents \ {t}
    /\ IF covered THEN lost' = lost \cup {t} /\ UNCHANGED tasks
       ELSE /\ tasks' = [k \in DOMAIN tasks |->
                          IF k = t[2] THEN [status |-> status, result |-> t] ELSE tasks[k]]
            /\ UNCHANGED lost
    /\ UNCHANGED <<chat, covered, inherited, inquiry>>

-----------------------------------------------------------------------------
(* Inquiries.  pc names what the goroutine does next: "round" begins one,    *)
(* "tell..." is about to send a progress message, "gap" too, "over" ends.   *)

\* /research and the searches for gaps belong to the chat; the tool
\* deep_research to a turn, with no channel but a context that may end.
StartInquiry(kind) ==
  /\ inquiry = NoInquiry /\ tasks = <<>> /\ subagents = {}
  /\ kind # "tool" => ~covered
  /\ \E n \in IF kind = "gaps" THEN Gaps ELSE Depths :
       inquiry' = [NoInquiry EXCEPT !.kind = kind, !.of = chat, !.depth = n,
                                    !.pc = IF kind = "gaps" THEN "gap" ELSE "round"]
  /\ UNCHANGED <<chat, covered, tasks, subagents, lost, inherited>>

Goes(i) == inquiry' = i /\ UNCHANGED <<chat, covered, tasks, subagents, lost, inherited>>
To(pc) == [inquiry EXCEPT !.pc = pc]

\* sendProgress: without a channel nothing is sent.
Sends == [searches |-> "tellSearching", reads |-> "tellReading", analyses |-> "tellAnalysing",
          stops |-> "tellTimeout", breaks |-> "tellBreak", seeks |-> "gap"]

Tell ==
  \E next \in DOMAIN Sends :
    /\ inquiry.pc = Sends[next]
    /\ inquiry.kind = "tool" \/ inquiry.queued < Queue
    /\ Goes([To(next) EXCEPT !.queued = IF inquiry.kind = "tool" THEN 0 ELSE @ + 1])

\* The turn is cancelled or runs out of time.
Stop ==
  /\ inquiry.kind = "tool" /\ inquiry.pc # "told" /\ ~inquiry.stopped
  /\ Goes([inquiry EXCEPT !.stopped = TRUE])

Result(outcome) == [To("over") EXCEPT !.outcome = outcome]

BeginRound ==
  /\ inquiry.pc = "round"
  /\ Goes(IF inquiry.round > inquiry.depth THEN To("stops")
          ELSE IF ~inquiry.stopped THEN To("tellSearching")
          ELSE IF inquiry.found # {} THEN To("tellTimeout")
          ELSE Result("error"))

\* No result is fatal in the first round; a later one is left out.
QueryResults ==
  /\ inquiry.pc = "searches"
  /\ \/ Goes(To("tellReading"))
     \/ Goes(IF inquiry.round = 1 THEN Result("error")
             ELSE [To("round") EXCEPT !.round = @ + 1])

FetchContent ==
  /\ inquiry.pc = "reads"
  /\ \E pages \in {{}, {inquiry.round}} :
       Goes([To("tellAnalysing") EXCEPT !.cited = @ \cup pages])

\* The model's summary, or what was read if the model fails; the budget may be
\* used up.
Analyse ==
  LET i == [inquiry EXCEPT !.found = @ \cup {inquiry.round}, !.completed = inquiry.round] IN
    /\ inquiry.pc = "analyses"
    /\ \/ Goes([i EXCEPT !.pc = "round", !.round = @ + 1])
       \/ Goes([i EXCEPT !.pc = "stops"])
       \/ inquiry.stopped /\ Goes([i EXCEPT !.pc = "tellBreak"])

EndResearch ==
  /\ inquiry.pc \in {"stops", "breaks"}
  /\ Goes(Result(IF inquiry.found = {} THEN "error" ELSE "found"))

\* One search for each gap; the first that fails loses what was found.
SearchGap ==
  /\ inquiry.pc = "seeks"
  /\ LET i == [inquiry EXCEPT !.found = @ \cup {inquiry.round}, !.round = @ + 1] IN
       \/ Goes(IF inquiry.round = inquiry.depth
               THEN [i EXCEPT !.pc = "over", !.outcome = "found"]
               ELSE [i EXCEPT !.pc = "gap"])
       \/ Goes([Result("error") EXCEPT !.found = {}])

\* A progress message is shown and the next one waited for: not on another
\* screen, and not by another chat, which has no channel.
ShowProgress ==
  /\ inquiry.heard /\ inquiry.queued > 0
  /\ Goes([inquiry EXCEPT !.queued = @ - 1, !.heard = ~covered /\ inquiry.of = chat])

\* ResearchDoneMsg, StrategySearchDoneMsg, or the result of the tool.
Told ==
  /\ inquiry.pc = "over"
  /\ Goes([To("told") EXCEPT !.outcome = IF inquiry.kind # "tool" /\ covered THEN "lost" ELSE @])

BackgroundNext ==
  \/ Cover \/ OpenChat \/ StartTask \/ SubagentDone
  \/ StartInquiry("report") \/ StartInquiry("tool") \/ StartInquiry("gaps")
  \/ Tell \/ Stop \/ BeginRound \/ QueryResults \/ FetchContent \/ Analyse \/ EndResearch
  \/ SearchGap \/ ShowProgress \/ Told

-----------------------------------------------------------------------------
(* Properties *)

\* A task of this chat is shown as running while its subagent works, and with
\* that subagent's result once it has ended, and no more than MaxActive work:
\* but for results that came while another screen was open, and for numbers
\* that a task of an earlier chat had.
TasksAreOwn ==
  /\ \A k \in DOMAIN tasks \ inherited :
       /\ tasks[k].status = "running" <=> <<chat, k>> \in subagents \cup lost
       /\ tasks[k].result \in {Nobody, <<chat, k>>}
  /\ inherited = {} => Cardinality({t \in subagents : t[1] = chat}) <= MaxActive

Stuck == inquiry.queued = Queue /\ \E next \in DOMAIN Sends : inquiry.pc = Sends[next]

\* Research succeeds exactly if it found something, cites only what it analysed,
\* and counts up to its last round; a strategy gets all of its searches or none.
\* If the chat does not listen any more, only research that has more to tell than
\* the channel holds waits for it: "deep" research does, for ever.
InquiryIsWhole ==
  /\ inquiry.outcome = "found" =>
       /\ inquiry.found # {} /\ inquiry.cited \subseteq inquiry.found
       /\ inquiry.kind = "gaps" => inquiry.found = 1..inquiry.depth
       /\ inquiry.kind # "gaps" =>
            inquiry.completed \in inquiry.found /\ \A r \in inquiry.found : r <= inquiry.completed
  /\ inquiry.outcome = "error" => inquiry.found = {}
  /\ Stuck /\ ~inquiry.heard => inquiry.kind = "report" /\ 3 * inquiry.depth > Queue

BackgroundHolds == TasksAreOwn /\ InquiryIsWhole
=============================================================================
