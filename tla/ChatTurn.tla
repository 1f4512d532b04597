------------------------------- MODULE ChatTurn -------------------------------
(***************************************************************************)
(* The conversation of the terminal UI (internal/tui/chat.go).  Update     *)
(* handles one message at a time; everything slow runs in a command that   *)
(* reports back with a message of its own: one listener per stream event,  *)
(* a search, a fetch, a subagent, the research pipeline.  While isStream   *)
(* holds the user cannot send anything, but the results of what was        *)
(* started before still come in, in any order and whatever the state.      *)
(*                                                                         *)
(* A message is its kind; a stream is the channel StreamChat returned, of  *)
(* which modules ToolLoop and PlainChat show that it ends.  The permission *)
(* dialogue, the task trace and the screens are not part of this module.   *)
(***************************************************************************)
EXTENDS Naturals, Sequences, SequencesExt, FiniteSets

CONSTANTS
  Streams,      \* the streams that can exist at one time
  NoStream,     \* no channel, or no cancel function
  Pipeline,     \* the cancel function of the research pipeline
  Commands,     \* what the user does in an instance
  MaxCommands,  \* bound on how often
  MaxGaps,      \* bound on how often the searches of an analysis are made
  Suggestions,  \* what an answer may suggest: "search", "research"
  KeepTail,         \* messages a compaction keeps (8 in the code)
  Resumed       \* conversations the program may start with

ASSUME BoundAssumption ==
  MaxCommands \in Nat /\ MaxGaps \in Nat /\ KeepTail \in Nat \ {0}
ASSUME StreamAssumption == NoStream \notin Streams /\ Pipeline \notin Streams

\* "text" is what the user asked and "reply" an answer of the model.  Whatever
\* else the program puts in is a "note" in the user's name (an attached file,
\* a fetched page, search results, a one-shot prompt, a summary, what is left
\* of a shortened message) or an "ack" in the assistant's or the system's.
UserKinds == {"text", "note"}
Kinds == UserKinds \cup {"reply", "ack"}
Trims == {"search", "research", "strategy"}
Purposes == {"init", "commit", "compact", "search", "research", "strategy"}
Jobs == {"rewrite", "search", "fetch", "task", "research", "strategy", "gaps"}
EventTypes == {"event", "done", "error"}

ASSUME ResumedAssumption == Resumed \subseteq Seq(Kinds)

VARIABLES
  messages,              \* the conversation; the session file holds it
  archived,                     \* ghost: texts and replies in the archive
  isStream, eventCh, cancelFunc,
  text,                         \* the streams whose text is in streaming or turnContent
  pending,                      \* the flags initPending, commitPending, ...
  compactAt, compactKeep,       \* where to trim, what to summarize
  fallbackUsed, phase, gaps,    \* gaps: strategyContext asks for searches
  checkpoint, baryoMd, commits,
  origin, live, ended,          \* streams: what for, not cancelled, at their end
  listeners, inbox,             \* waitForEvent commands, and the messages they returned
  jobs,                         \* other commands under way
  commands, gapRounds,          \* ghosts: the bounds
  overlapped, orphaned          \* ghosts: see Properties

convVars == <<messages, archived>>
flagVars == <<pending, compactAt, compactKeep, fallbackUsed, phase, gaps, gapRounds>>
streamVars == <<isStream, eventCh, cancelFunc, text, origin, live, ended, listeners>>
sideVars == <<checkpoint, baryoMd, commits>>
vars == <<convVars, flagVars, streamVars, sideVars, inbox, jobs, commands,
          overlapped, orphaned>>

Init ==
  /\ messages \in Resumed /\ archived = 0
  /\ isStream = FALSE /\ eventCh = NoStream /\ cancelFunc = NoStream /\ text = {}
  /\ pending = {} /\ compactAt = [j \in Trims |-> 0] /\ compactKeep = 0
  /\ fallbackUsed = FALSE /\ phase = "idle" /\ gaps = FALSE /\ gapRounds = 0
  /\ checkpoint = <<>> /\ baryoMd = FALSE /\ commits = 0
  /\ origin = [s \in Streams |-> "turn"] /\ live = {} /\ ended = {}
  /\ listeners = [s \in Streams |-> 0]
  /\ inbox = [s \in Streams |-> [t \in EventTypes |-> 0]]
  /\ jobs = [j \in Jobs |-> 0] /\ commands = 0
  /\ overlapped = FALSE /\ orphaned = FALSE

Held(ms) == Cardinality({i \in 1..Len(ms) : ms[i] \in {"text", "reply"}})

-----------------------------------------------------------------------------
(* The life of a stream *)

Free(s) ==
  /\ s \notin live /\ s # eventCh /\ listeners[s] = 0
  /\ \A t \in EventTypes : inbox[s][t] = 0

Fresh == CHOOSE s \in Streams : Free(s)

\* The code every handler that asks the model repeats.  kept are the streams
\* not cancelled before it; cancelFunc and eventCh are overwritten.  That a
\* stream is free is a bound.
Begin(purpose, kept) ==
  /\ \E s \in Streams : Free(s)
  /\ isStream' = TRUE /\ text' = {}
  /\ eventCh' = Fresh /\ cancelFunc' = Fresh
  /\ origin' = [origin EXCEPT ![Fresh] = purpose]
  /\ live' = kept \cup {Fresh}
  /\ ended' = ended \ {Fresh}
  /\ listeners' = [listeners EXCEPT ![Fresh] = 1]

\* resetStreamState; the flags it clears are compactPending and compactKeep.
Cancelled == live \ {cancelFunc}

Reset_NoCancel ==
  /\ isStream' = FALSE /\ text' = {}
  /\ eventCh' = NoStream
  /\ cancelFunc' = NoStream /\ live' = live
  /\ UNCHANGED <<origin, ended, listeners>>

Reset ==
  /\ isStream' = FALSE /\ text' = {}
  /\ eventCh' = NoStream
  /\ cancelFunc' = NoStream /\ live' = Cancelled
  /\ UNCHANGED <<origin, ended, listeners>>

\* waitForEvent(m.eventCh): a nil channel blocks its listener for ever.
Listen == listeners' = IF eventCh = NoStream THEN listeners
                       ELSE [listeners EXCEPT ![eventCh] = @ + 1]

\* A listener takes an event; from a closed channel it makes up a Done.
Receive(s, t) ==
  /\ listeners[s] > 0
  /\ s \in ended => t = "done"
  /\ listeners' = [listeners EXCEPT ![s] = @ - 1]
  /\ inbox' = [inbox EXCEPT ![s][t] = @ + 1]
  /\ ended' = IF t = "event" THEN ended ELSE ended \cup {s}
  /\ UNCHANGED <<convVars, flagVars, sideVars, isStream, eventCh, cancelFunc, text,
                 origin, live, jobs, commands, overlapped, orphaned>>

ReceiveEnd(s) == \E t \in {"done", "error"} : Receive(s, t)

Take(s, t) ==
  /\ inbox[s][t] > 0
  /\ inbox' = [inbox EXCEPT ![s][t] = @ - 1]

HandleEvent_Forgets(s) ==
  /\ Take(s, "event")
  /\ text' \in {text, text \cup {s}}
  /\ IF s \in text THEN UNCHANGED listeners ELSE Listen
  /\ UNCHANGED <<convVars, flagVars, sideVars, isStream, eventCh, cancelFunc,
                 origin, live, ended, jobs, commands, overlapped, orphaned>>

HandleEvent_ListensTwice(s) ==
  /\ Take(s, "event")
  /\ text' \in {text, text \cup {s}}
  /\ listeners' = IF eventCh = NoStream THEN listeners
                  ELSE [listeners EXCEPT ![eventCh] = @ + 2]
  /\ UNCHANGED <<convVars, flagVars, sideVars, isStream, eventCh, cancelFunc,
                 origin, live, ended, jobs, commands, overlapped, orphaned>>

\* Text, a thought, a tool's start or result: nothing says which stream sent it.
HandleEvent(s) ==
  /\ Take(s, "event")
  /\ text' \in {text, text \cup {s}}
  /\ Listen
  /\ UNCHANGED <<convVars, flagVars, sideVars, isStream, eventCh, cancelFunc,
                 origin, live, ended, jobs, commands, overlapped, orphaned>>

IsUser(ms, i) == i \in 1..Len(ms) /\ ms[i] \in UserKinds

HandleError_KeepsFlag(s) ==
  /\ Take(s, "error")
  /\ Reset
  /\ UNCHANGED <<pending, compactKeep>>
  /\ messages' = IF "compact" \in pending \/ ~IsUser(messages, Len(messages))
                   THEN messages ELSE Front(messages)
  /\ orphaned' = (orphaned \/ ("compact" \notin pending /\ pending # {}))
  /\ UNCHANGED <<archived, sideVars, compactAt, fallbackUsed, phase, gaps, gapRounds,
                 jobs, commands, overlapped>>

\* An error while compacting leaves the conversation alone; any other one
\* takes the last user message back.  No other flag is cleared.
HandleError(s) ==
  /\ Take(s, "error")
  /\ Reset
  /\ pending' = pending \ {"compact"} /\ compactKeep' = 0
  /\ IF "compact" \in pending \/ ~IsUser(messages, Len(messages))
       THEN UNCHANGED messages
       ELSE messages' = Front(messages)
  /\ orphaned' = (orphaned \/ ("compact" \notin pending /\ pending # {}))
  /\ UNCHANGED <<archived, sideVars, compactAt, fallbackUsed, phase, gaps, gapRounds,
                 jobs, commands, overlapped>>

-----------------------------------------------------------------------------
(* The end of a stream *)

Without(ms, i) == SubSeq(ms, 1, i - 1) \o SubSeq(ms, i + 1, Len(ms))

Trim_AnyRole(c, job, long) ==
  LET i == compactAt[job] + 1
      cut == job \in pending /\ long /\ IsUser(c.ms, i)
      ms == IF cut THEN [c.ms EXCEPT ![i] = "note"] ELSE c.ms
  IN  [ms |-> IF job \in pending /\ i < Len(ms) THEN Without(ms, i + 1) ELSE ms,
       kept |-> c.kept + IF cut THEN Held(<<c.ms[i]>>) ELSE 0]

\* After the answer to a search, a research or a strategy: shorten the message
\* at compactAt if it is long, archiving it, and remove the one after it.
\* compactAt is an index from 0.
Trim(c, job, long) ==
  LET i == compactAt[job] + 1
      cut == job \in pending /\ long /\ IsUser(c.ms, i)
      ms == IF cut THEN [c.ms EXCEPT ![i] = "note"] ELSE c.ms
  IN  [ms |-> IF job \in pending /\ IsUser(ms, i + 1) THEN Without(ms, i + 1) ELSE ms,
       kept |-> c.kept + IF cut THEN Held(<<c.ms[i]>>) ELSE 0]

\* The turn's text becomes one assistant message, then the three trims in turn.
Answered(full, long) ==
  LET c == [ms |-> IF full THEN Append(messages, "reply") ELSE messages, kept |-> archived]
  IN  Trim(Trim(Trim(c, "search", long), "research", long), "strategy", long)

Summarize_Unarchived(summary) ==
  /\ messages' = IF summary
                   THEN <<"note", "ack">> \o SubSeq(messages, compactKeep + 1, Len(messages))
                   ELSE messages
  /\ archived' = archived

\* The summary replaces the first compactKeep messages, which are archived.
Summarize(summary) ==
  /\ messages' = IF summary
                   THEN <<"note", "ack">> \o SubSeq(messages, compactKeep + 1, Len(messages))
                   ELSE messages
  /\ archived' = archived + IF summary THEN Held(SubSeq(messages, 1, compactKeep)) ELSE 0

\* In a conversation that has become shorter the program would panic here.
DoneCompacting(s) ==
  /\ Take(s, "done") /\ "compact" \in pending /\ compactKeep <= Len(messages)
  /\ Summarize(text # {})
  /\ Reset
  /\ pending' = pending \ {"compact"} /\ compactKeep' = 0
  /\ UNCHANGED <<sideVars, compactAt, fallbackUsed, phase, gaps, gapRounds, jobs,
                 commands, overlapped, orphaned>>

\* What an answer settles: /init and /commit need some text, a trim does not.
Settled_CommitStays(full) ==
  IF full THEN pending \cap {"commit"} ELSE pending \cap {"init", "commit"}

Settled(full) == IF full THEN {} ELSE pending \cap {"init", "commit"}

\* The strategy part: an analysis ends the gathering, and may ask for searches.
Analysed(full) ==
  /\ phase' \in (IF full /\ phase = "gathering" THEN {phase, "done"} ELSE {phase})
  /\ IF full /\ (phase' # phase \/ "strategy" \in pending)
       THEN gaps' \in BOOLEAN
       ELSE gaps' = gaps

\* The part of every Done that is not a compaction.
Answer(s, full, left) ==
  /\ Take(s, "done") /\ "compact" \notin pending
  /\ full => text # {}
  /\ \E long \in BOOLEAN :
       messages' = Answered(full, long).ms /\ archived' = Answered(full, long).kept
  /\ baryoMd' = (baryoMd \/ (full /\ "init" \in pending))
  /\ commits' = commits + (IF full /\ "commit" \in pending THEN 1 ELSE 0)
  /\ orphaned' = (orphaned \/ left # {})
  /\ Analysed(full)
  /\ UNCHANGED <<compactAt, checkpoint, commands>>

\* The model could not search, or says that one should: the search is started
\* for it, once a question.
DoneSearches(s) ==
  /\ "search" \in Suggestions /\ ~fallbackUsed
  /\ Answer(s, TRUE, {})
  /\ fallbackUsed' = TRUE
  /\ Reset /\ pending' = {} /\ compactKeep' = 0
  /\ jobs' = [jobs EXCEPT !["search"] = @ + 1]
  /\ UNCHANGED <<gapRounds, overlapped>>

DoneResearches(s) ==
  /\ "research" \in Suggestions /\ ~fallbackUsed
  /\ Answer(s, TRUE, {})
  /\ fallbackUsed' = TRUE
  /\ isStream' = TRUE /\ text' = {} /\ eventCh' = NoStream
  /\ cancelFunc' = Pipeline /\ live' = Cancelled
  /\ pending' = {"research"} /\ compactKeep' = 0
  /\ jobs' = [jobs EXCEPT !["research"] = @ + 1]
  /\ UNCHANGED <<origin, ended, listeners, gapRounds, overlapped>>

\* saveSession, then what follows by itself: the searches an analysis asked
\* for, or a compaction when the context is nearly full.
DoneTurn(s) ==
  \E full \in BOOLEAN :
    LET left == Settled(full)
    IN  /\ Answer(s, full, IF full THEN {} ELSE left)
        /\ fallbackUsed' = FALSE
        /\ \/ /\ phase' = "done" /\ gaps' /\ jobs["gaps"] = 0 /\ gapRounds < MaxGaps
              /\ isStream' = TRUE /\ text' = {} /\ eventCh' = NoStream
              /\ cancelFunc' = NoStream /\ live' = Cancelled
              /\ jobs' = [jobs EXCEPT !["gaps"] = @ + 1]
              /\ gapRounds' = gapRounds + 1
              /\ pending' = left /\ compactKeep' = 0
              /\ UNCHANGED <<origin, ended, listeners>>
           \/ /\ ~(phase' = "done" /\ gaps' /\ jobs["gaps"] = 0)
              /\ Reset
              /\ pending' = left /\ compactKeep' = 0
              /\ UNCHANGED <<jobs, gapRounds>>
           \/ /\ ~(phase' = "done" /\ gaps' /\ jobs["gaps"] = 0)
              /\ Len(messages') > KeepTail
              /\ Begin("compact", Cancelled)
              /\ pending' = left \cup {"compact"} /\ compactKeep' = Len(messages') - KeepTail
              /\ UNCHANGED <<jobs, gapRounds>>
        /\ UNCHANGED overlapped

-----------------------------------------------------------------------------
(* What the user types *)

\* The prompt takes input: no stream, as far as isStream knows.
Command(c) ==
  /\ ~isStream /\ c \in Commands /\ commands < MaxCommands
  /\ commands' = commands + 1
  /\ UNCHANGED <<inbox, overlapped, orphaned>>

\* Enter.  A mentioned file or an activated skill goes in front; a short
\* message to a remote model is rewritten first.
Enter ==
  /\ Command("enter")
  /\ \E before \in {<<>>, <<"note">>, <<"note", "ack">>} :
       messages' = messages \o before \o <<"text">>
  /\ \/ Begin("turn", live) /\ UNCHANGED jobs
     \/ /\ isStream' = TRUE
        /\ jobs' = [jobs EXCEPT !["rewrite"] = @ + 1]
        /\ UNCHANGED <<eventCh, cancelFunc, text, origin, live, ended, listeners>>
  /\ UNCHANGED <<archived, flagVars, sideVars>>

\* /ask, /review, /issue, /plan ... put their own question.
Ask ==
  /\ Command("ask")
  /\ messages' = Append(messages, "text")
  /\ Begin("turn", live)
  /\ UNCHANGED <<archived, flagVars, sideVars, jobs>>

Commit ==
  /\ Command("commit")
  /\ messages' = Append(messages, "text")
  /\ pending' = pending \cup {"commit"}
  /\ Begin("commit", live)
  /\ UNCHANGED <<archived, compactAt, compactKeep, fallbackUsed, phase, gaps, gapRounds,
                 sideVars, jobs>>

InitCommand ==
  /\ Command("init") /\ ~baryoMd
  /\ messages' = Append(messages, "text")
  /\ pending' = pending \cup {"init"}
  /\ Begin("init", live)
  /\ UNCHANGED <<archived, compactAt, compactKeep, fallbackUsed, phase, gaps, gapRounds,
                 sideVars, jobs>>

\* /search, /fetch, /task and /strategy <file> leave the prompt free.
Launch(c) ==
  /\ Command(c) /\ c \in {"search", "fetch", "task", "strategy"}
  /\ jobs' = [jobs EXCEPT ![c] = @ + 1]
  /\ UNCHANGED <<convVars, flagVars, streamVars, sideVars>>

Research ==
  /\ Command("research")
  /\ pending' = pending \cup {"research"}
  /\ isStream' = TRUE /\ cancelFunc' = Pipeline
  /\ jobs' = [jobs EXCEPT !["research"] = @ + 1]
  /\ UNCHANGED <<convVars, compactAt, compactKeep, fallbackUsed, phase, gaps, gapRounds,
                 eventCh, text, origin, live, ended, listeners, sideVars>>

\* /strategy makes room for its prompt by dropping the oldest pairs.
Gather ==
  /\ Command("gather") /\ phase # "gathering"
  /\ \E n \in 0..Len(messages) :
       /\ n > 0 => Len(messages) - 2 * (n - 1) > 2
       /\ messages' = Append(SubSeq(messages, 2 * n + 1, Len(messages)), "note")
  /\ phase' = "gathering"
  /\ Begin("turn", live)
  /\ UNCHANGED <<archived, pending, compactAt, compactKeep, fallbackUsed, gaps, gapRounds,
                 sideVars, jobs>>

GatherDone ==
  /\ Command("gatherDone") /\ phase # "idle"
  /\ phase' = "idle" /\ gaps' = FALSE
  /\ UNCHANGED <<convVars, pending, compactAt, compactKeep, fallbackUsed, gapRounds,
                 streamVars, sideVars, jobs>>

Compact ==
  /\ Command("compact") /\ Len(messages) > KeepTail
  /\ pending' = pending \cup {"compact"} /\ compactKeep' = Len(messages) - KeepTail
  /\ Begin("compact", live)
  /\ UNCHANGED <<convVars, compactAt, fallbackUsed, phase, gaps, gapRounds, sideVars, jobs>>

Clear ==
  /\ Command("clear")
  /\ archived' = archived + Held(messages)
  /\ messages' = <<>>
  /\ phase' = "idle" /\ gaps' = FALSE
  /\ UNCHANGED <<pending, compactAt, compactKeep, fallbackUsed, gapRounds, streamVars,
                 sideVars, jobs>>

Checkpoint ==
  /\ Command("checkpoint")
  /\ checkpoint' = <<messages>>
  /\ UNCHANGED <<convVars, flagVars, streamVars, baryoMd, commits, jobs>>

Rewind ==
  /\ Command("rewind") /\ checkpoint # <<>>
  /\ messages' = checkpoint[1]
  /\ UNCHANGED <<archived, flagVars, streamVars, sideVars, jobs>>

Mode ==
  /\ Command("mode")
  /\ messages' = Append(messages, "ack")
  /\ UNCHANGED <<archived, flagVars, streamVars, sideVars, jobs>>

Skill ==
  /\ Command("skill")
  /\ messages' = messages \o <<"note", "ack">>
  /\ UNCHANGED <<archived, flagVars, streamVars, sideVars, jobs>>

-----------------------------------------------------------------------------
(* What commands report.  None of the handlers looks at isStream. *)

Report(j) ==
  /\ jobs[j] > 0
  /\ jobs' = [jobs EXCEPT ![j] = @ - 1]
  /\ UNCHANGED <<inbox, sideVars, commands, orphaned>>

\* The bulky material and the instruction that goes with it are put at the end
\* and a stream is begun, over whatever stream there is.
Discuss(purpose) ==
  /\ messages' = messages \o <<"note", "note">>
  /\ compactAt' = [compactAt EXCEPT ![purpose] = Len(messages)]
  /\ pending' = pending \cup {purpose}
  /\ Begin(purpose, live)
  /\ UNCHANGED <<archived, compactKeep, fallbackUsed, gapRounds>>

LastUser == CHOOSE i \in 0..Len(messages) :
  /\ i = 0 \/ IsUser(messages, i)
  /\ \A k \in (i + 1)..Len(messages) : ~IsUser(messages, k)

\* The rewritten text takes the place of the last user message, if it differs.
RewriteDone ==
  /\ Report("rewrite")
  /\ messages' \in {messages} \cup
       (IF LastUser = 0 THEN {} ELSE {[messages EXCEPT ![LastUser] = "text"]})
  /\ Begin("turn", live)
  /\ UNCHANGED <<archived, flagVars, overlapped>>

\* The results of a search; with an error nothing changes but the history.
SearchDone ==
  /\ Report("search")
  /\ Discuss("search")
  /\ overlapped' = (overlapped \/ isStream)
  /\ UNCHANGED <<phase, gaps>>

SearchFailed ==
  /\ \E j \in {"search", "fetch", "strategy"} : Report(j)
  /\ UNCHANGED <<convVars, flagVars, streamVars, overlapped>>

Note(j) ==
  /\ Report(j)
  /\ messages' = Append(messages, "note")
  /\ UNCHANGED <<archived, flagVars, streamVars, overlapped>>

FetchDone == Note("fetch")
TaskDone == Note("task")

TaskFailed ==
  /\ Report("task")
  /\ UNCHANGED <<messages, archived, flagVars, streamVars, overlapped>>

ResearchDone ==
  /\ Report("research")
  /\ Discuss("research")
  /\ UNCHANGED <<phase, gaps, overlapped>>

ResearchFailed ==
  /\ Report("research")
  /\ pending' = pending \ {"research"} /\ isStream' = FALSE
  /\ UNCHANGED <<convVars, compactAt, compactKeep, fallbackUsed, phase, gaps, gapRounds,
                 eventCh, cancelFunc, text, origin, live, ended, listeners, overlapped>>

StrategyLoaded ==
  /\ Report("strategy")
  /\ Discuss("strategy")
  /\ phase' = "done"
  /\ overlapped' = (overlapped \/ isStream)
  /\ UNCHANGED gaps

GapsDone ==
  /\ Report("gaps")
  /\ Discuss("strategy")
  /\ UNCHANGED <<phase, gaps, overlapped>>

GapsFailed ==
  /\ Report("gaps")
  /\ isStream' = FALSE
  /\ UNCHANGED <<convVars, flagVars, eventCh, cancelFunc, text, origin, live, ended,
                 listeners, overlapped>>

-----------------------------------------------------------------------------
User ==
  \/ Enter \/ Ask \/ Commit \/ InitCommand \/ Research \/ Gather \/ GatherDone
  \/ Compact \/ Clear \/ Checkpoint \/ Rewind \/ Mode \/ Skill
  \/ \E c \in Commands : Launch(c)

Reports ==
  \/ RewriteDone \/ SearchDone \/ SearchFailed \/ FetchDone \/ TaskDone \/ TaskFailed
  \/ ResearchDone \/ ResearchFailed \/ StrategyLoaded \/ GapsDone \/ GapsFailed

HandleDone(s) == DoneCompacting(s) \/ DoneSearches(s) \/ DoneResearches(s) \/ DoneTurn(s)

Handle(s) == HandleEvent(s) \/ HandleError(s) \/ HandleDone(s)

Next ==
  \/ User \/ Reports
  \/ \E s \in Streams : Receive(s, "event") \/ ReceiveEnd(s) \/ Handle(s)

Spec == Init /\ [][Next]_vars

\* Commands run on goroutines of their own, and a message they return is
\* handled; searches, pages, subagents and rewrites have time limits; a stream
\* ends (ChatCall!CallEnds).  The user owes nothing.
FairSpec ==
  /\ Spec
  /\ WF_vars(Reports)
  /\ \A s \in Streams : SF_vars(ReceiveEnd(s)) /\ WF_vars(Handle(s))

-----------------------------------------------------------------------------
(* Properties.  overlapped: a search or strategy result began a stream while *)
(* another was in use; orphaned: an error, or an answer without text, ended  *)
(* a turn whose flag stays set.  After either the properties below that      *)
(* name them do not hold.                                                    *)

TypeOK ==
  /\ messages \in Seq(Kinds) /\ archived \in Nat
  /\ isStream \in BOOLEAN
  /\ eventCh \in Streams \cup {NoStream}
  /\ cancelFunc \in Streams \cup {NoStream, Pipeline}
  /\ text \subseteq Streams /\ live \subseteq Streams /\ ended \subseteq Streams
  /\ pending \subseteq Purposes
  /\ compactAt \in [Trims -> Nat] /\ compactKeep \in Nat
  /\ fallbackUsed \in BOOLEAN /\ phase \in {"idle", "gathering", "done"}
  /\ gaps \in BOOLEAN /\ gapRounds \in 0..MaxGaps
  /\ checkpoint \in Seq(Seq(Kinds))
  /\ baryoMd \in BOOLEAN /\ commits \in 0..MaxCommands
  /\ origin \in [Streams -> Purposes \cup {"turn"}]
  /\ listeners \in [Streams -> Nat]
  /\ inbox \in [Streams -> [EventTypes -> Nat]]
  /\ jobs \in [Jobs -> Nat] /\ commands \in 0..MaxCommands
  /\ overlapped \in BOOLEAN /\ orphaned \in BOOLEAN

\* One listener at a time: a second one "would double-deliver the stream's
\* Done event" (chat.go:645), and the second Done would end the next turn.
SingleListener ==
  LET waiting == [s \in Streams |-> listeners[s] + inbox[s]["event"]
                                     + inbox[s]["done"] + inbox[s]["error"]]
  IN  ~overlapped =>
        /\ \A s \in Streams : waiting[s] <= 1
        /\ Cardinality({s \in Streams : waiting[s] > 0}) <= 1

\* ctrl+c reaches the stream under way: none is left running out of its reach.
Cancellable == ~overlapped => live \subseteq {cancelFunc}

\* When the summary comes in, the messages it stands for are still there: a
\* shorter conversation would make messages[:keep] panic.
SummaryFits ==
  "compact" \in pending /\ ~overlapped => compactKeep <= Len(messages)

\* The conversation keeps its shape, also for the summary that is on its way.
ConversationIsSound == TypeOK /\ SummaryFits

\* What the user asked and what the model answered stays in the conversation
\* or goes to the archive.  /rewind means to forget, /strategy drops what its
\* prompt has no room for, and a failed turn takes one question back to be
\* retried: only a turn the user asked for, not the answer to a search.
KeepsMessages ==
  [][\/ overlapped \/ orphaned \/ Gather \/ Rewind
     \/ \E s \in Streams : HandleError(s) /\ origin[s] \in {"turn", "init", "commit"}
     \/ Held(messages') + archived' >= Held(messages) + archived]_vars

\* The message of a git commit is the answer to /commit.
CommitIsAnswer == [][commits' # commits => \A s \in text : origin[s] = "commit"]_vars

CommitIsOwn ==
  [][commits' # commits /\ ~overlapped /\ ~orphaned =>
       \A s \in text : origin[s] = "commit"]_vars

\* The prompt comes back, whatever fails and whatever comes in meanwhile.
\* An analysis that keeps asking for searches may keep it for ever.
PromptReturns == isStream ~> (~isStream \/ gapRounds = MaxGaps)
=============================================================================
