# A TLA+ model of Baryo.CLI

Baryo.CLI is a coding agent for the terminal, written in Go. A user talks to a model; the
model's answer streams in; it may call tools that read and change files, run commands, search
the web or reach MCP servers; a permission gate stands between its calls and their execution.
This directory models the parts of it in which goroutines, commands, processes and files meet,
checks them with TLC on small instances, and proves the central invariants with TLAPS for every
value of the parameters. Paths below are relative to `src/`.

1. [The system](#1-the-system) – components, state, interactions, what is hard
2. [The modules](#2-the-modules) – what models what
3. [The runs](#3-the-runs) – what each checks, its bounds and fairness
4. [The proofs](#4-the-proofs)
5. [What the models found](#5-what-the-models-found)
6. [What is not modelled](#6-what-is-not-modelled)
7. [The plan](#7-the-plan)

## 1. The system

| Component | Source | State | Operations | What makes it correct |
|---|---|---|---|---|
| Provider request | `internal/llm/client.go`, `anthropic.go`, `bedrock.go`, `idle.go` | goroutine, event channel (64), one-slot result channel, idle watchdog | connect, read a frame, send a token, report a failure, close | it ends; a silent provider is reported; one result at most |
| Agent loop | `internal/llm/toolloop.go` | round, seen calls, buffered error, summed usage | start a round, forward, retry without tools, run a call, continue a truncated answer, Done | the caller's protocol; a call runs once; usage is complete; the goroutine ends |
| Plain chat | `internal/llm/client.go` `StreamChat` | attempt, summed usage | forward, continue, Done | the same protocol |
| Messages of a request | `chat.go` `buildMessages`, the adapters' conversions | the conversation, the loop's list | build, add a round, convert | all that was said is asked, once and in order |
| MCP client and manager | `internal/mcp` | pending table, stdin mutex, `closed`, `dead`; clients by name, tools by qualified name | handshake, call, readLoop, Close; Start, CallTool | a caller gets its own answer or an error; a call reaches its tool |
| Conversation | `internal/tui/chat.go`, `strategy.go` | messages, stream, pending flags, indices, archive | about twenty user commands, stream events, reports | nothing said is lost; a flag acts on its own turn; the prompt comes back |
| Permission gate | `internal/tui/gate.go`, `metatools.go`, `chat.go` `makeExecutor` | mode, confirmation channel, prompt | call, ask, show, press, cancel, run | nothing destructive runs without its own approval; nobody hangs |
| Background work | `internal/tui/subagent.go`, `internal/search/research.go` | tasks, rounds, progress channel | start, progress, report | what is reported belongs to what was started; nobody waits for ever |
| Screens | `internal/tui/app.go`, pickers, `internal/llm/pull.go` | open screen, parts of the chat, lists, pull | route a message, key, window size | the chat gets its parts, the cursor its line |
| Mentions | `internal/tui/mention.go` | text, cursor, list, searches | key, search result, choose, send | what is chosen is what is attached |
| Start and exit | `main.go`, `internal/worktree`, `internal/tunnel` | flags, worktree, tunnel, deferred calls | each step of main | what was worked on outlives the exit |
| Headless run | `internal/cli/print.go`, `internal/trace` | one turn, payload, trace | run, print, exit code | success means a whole answer |
| Sessions | `internal/session`, `internal/fsutil` | session file, archive, trace of each session | save, archive, load, list, search, clean | a crash leaves whole files; history survives |
| Settings | `internal/config`, `main.go` | layers, trust | load, merge, ask | the strongest layer, and no untrusted one |
| Skills, starters, facts | `internal/config/skill.go`, `memory.go`, `internal/setup` | index, active skills; files with checksums; facts | match, inject, run; download; add, remove | once, whole; the user's edits stay |
| Tools that edit | `internal/tools` | a file | read, write, delete, edit, apply a diff | exactly the change asked for |
| Calls in text | `internal/llm/textparse.go` | none | parse, strip | each call once |
| Indexes | `internal/index`, `internal/rag`, `internal/ignore` | symbols, chunks, rules | build, update, query, fit | as current as it can know; nothing lost; within budget |
| Plugins, export | `internal/plugin`, `internal/export` | manifests | discover, choose, run, write | the whole history; only a plugin that may run |
| Benchmark | `internal/bench`, `cmd/baryo-runner` | results file, traces | run, record, resume, score | a score is of its own run |

How they interact:

- The UI (`AppModel.Update`, and below it `ChatModel.Update`) handles one message at a time.
  Anything slow is a *command*: a function on a goroutine of its own whose return value is a
  message. A stream is read by a chain of `waitForEvent` commands, each queued while the event
  before it is handled. A message does not name the stream, the chat or the word it is for.
- A chat call returns a channel. Behind it is the loop's goroutine, and behind that, one after
  the other, the goroutines of the provider requests. Cancellation is a context.
- The loop calls the executor of the turn on its own goroutine. The executor may put a request
  into `confirmCh` and wait; the UI takes it with a `waitForConfirm` command and answers on a
  channel made for the request.
- MCP calls are made by the same goroutines, over one connection per server.
- Processes of the program share files below `~/.baryo` and the project, with no lock.

What is hard, and so what the properties are about: channels of bounded capacity with sends
that are selects and sends that are not; cancellation at any point; a watchdog that races its
reader; reports that come in any order, over whatever is going on; flags, indices and positions
kept from one message to a later one; replies that are late, duplicated or missing; a process
killed between two system calls; two processes at one file; names that collide.
`PROJECT.json` lists these hazards at their lines, with the properties about each.

## 2. The modules

    EventStream                       the protocol of a chat call (abstract)
      ^ implemented by
    ToolLoop   PlainChat              the two loops
        \       /
        ChatCall                      the out channel and its caller
           |
      ProviderStream                  one request and its watchdog

    McpClient                         one MCP connection
    ChatTurn                          the conversation; a stream is one event source that ends
    ToolGate                          executors, confirmation channel, prompt
    Sessions                          processes at the session files
    Program = Launch + Screens        main, headless run, terminal UI
    Beside                            the parts beside the conversation, one in each behaviour:
      Bench  Background  Starters  Memories  Settings  Mentions  RepoIndex  Exports
      McpManager  Requests  Skills  Edits  TextCalls  Retrieval

**ProviderStream** – `streamChatRaw` and its Anthropic and Bedrock adapters. `rpc` is where the
goroutine is; `ch` and `result` are its two channels. An error is put on `ch` without a select
where the code has none (`failNoSelect`), tokens with a select on the context only in the
adapter that has one (the OpenAI one). Usage comes in a frame of its own (`UsageArrives`): from then
on it is `billed`, but only a response that ends well puts what was `metered` into its result. The idle watchdog (`WatchdogFires`) cancels the request
context; what a reader sees then is a failed read, reported as an idle error.

**ChatCall** – `out` is the history `log` of all events sent and the number `nread` received,
so that properties speak of the whole stream while the capacity is still `Len(log) - nread < Cap`.
The caller reads on, returns at an error (cancelling), is cancelled and reads on (print mode),
or cancels and stops reading (`resetStreamState`).

**ToolLoop** – `StreamChatWithToolsN`, one action per step of its goroutine. `executed`
counts executor calls and `seen` is `seenToolCalls`. **PlainChat** – `StreamChat`: forwards errors
as they come and continues a truncated answer. **EventStream** is the abstract specification: a
log of events in which each may follow what came before (`MayFollow`), a close that needs Done or
a cancelled caller; the loops instantiate it with `closed <- (pc = "closed")`,
`cancelled <- ctxDone`.

**McpClient** – the handshake of `NewClient` by `Boot`, then calls of `Users`. The steps of
`call` are those another goroutine can come between. `readLoop` reads a line, delivers,
and at the end of the pipe marks the connection dead and empties the table. The server reads,
answers any request it has read, in any order and more than once, writes a line longer than the
scanner takes, or dies. Both pipes are bounded. **McpManager** connects the configured servers in
any order, names their tools, and routes calls; a name is a sequence of the parts that `__`
separates.

**ChatTurn** – `ChatModel` with one action per message it handles and per command. The
conversation is a sequence of kinds: `text` (what the user asked), `reply`, `note` (what the
program says in the user's name) and `ack`. A stream produces events, then Done or an error, and is
read through `listeners` and `inbox`, so that two listeners on one channel and a report between two
events are behaviours of the model. `jobs` counts searches, pages, subagents, research and
knowledge-gap rounds under way. The actions of Done are split as the code branches:
`DoneCompacting`, `DoneSearches` and `DoneResearches` (the answer asked for a search), `DoneTurn`
(init, commit, the three trims). Ghosts: `origin`, what a stream was begun for; `overlapped` and
`orphaned`, that one of two things happened which the code does not guard against (section 5).

**ToolGate** – a goroutine per turn makes calls of four kinds: `native` (destructive built-in
and MCP tools), `meta` (destructive meta-tools), `safe`, and `unknown`. Which executor answers is
`Gated` and `Refused`; the two gates differ in `GiveUp`: `confirmGate` selects on the context while
it sends its request, `executeDestructive` does not. A request is in `confirmCh`, in a
`ToolConfirmMsg` (`inbox`) or on the screen (`shown`). A turn normally ends before the next begins;
`Overtake` is the case in which search results begin another stream over it.

**Sessions** – each process is a program counter over the system calls of
`WriteFileAtomic`, `Archive`, `CleanOld` and the resume paths; any call may fail, the two removals of `CleanOld` whose
error is ignored included, and the process may die between any two (`Crash`), or in an append, which then leaves half a line. A line of the
archive is whole, cut, glued to the next, or of the version before the envelope; `archiveCount`
numbers records by counting lines with a scanner that fails on a long one.

**Launch** – `main` step by step, with `os.Exit` skipping the deferred calls and a return making
them; the headless run listens to one stream and is cut by a deadline or an interrupt between any
two events. **Screens** – `AppModel.Update`: the few messages handled on every screen, the others
given to the open one, which drops what it does not know; the pickers with tabs, headers, cursor
and scrolling; a pull and its channel of lines. **Program** composes the two: the screens live while
`p.Run` lasts.

**Requests** – `buildMessages`, the messages the loops add, and what each adapter makes of the
list. **Background** – tasks, research rounds and gap searches with their progress channels,
beside a chat that another screen covers or another chat replaces. **Mentions** – the completion
of names after an @: preview after each key, searches that end in any order, and the edit of the
text.

**Bench** – a runner, killed and started again, over one results file. **Edits** – the file tools
as functions from a text to a text, with the user saving between read and write; a diff is parsed as
the code splits it, with the empty context line that follows a final newline. **TextCalls** – the
four patterns over pieces of text. **RepoIndex** – updates that overlap, one `stat` or read a step,
each of which may fail and leave the old entry; chunks are cut off at `MaxSymbol` lines.
**Retrieval** – chunking, ranking and fitting, as functions of sizes. **Settings** – layers as partial
functions.

**Starters** – a download between the user's edits: a file or a checksum may not be readable, either
write may fail or be cut, and `setup.from` keeps what was published when it began. **Memories** – two
files of facts, each read and then replaced; one that cannot be read or parsed (`garbled`) is read as
empty. **Skills** – the index, what a message activates, and the resources, which have a size as the
folder lists them and another as they are read. **Exports** – plugins; and the built-in export beside a
chat that speaks, is compacted, trims what a search found, saves, is cleared and resumed, and dies,
with an archive that may refuse or cut what it is given. The chat is followed until the export has read
its file. The ghosts `moving`, `again`, `early` and `dropped` say what became of a message on its way
into the archive. **Beside** puts these fourteen side
by side: it extends the state machines, and instantiates `Edits`, `TextCalls` and `Retrieval`,
which compute on texts and have a step or two each.

The modules named `...Proofs` hold the theorems (`LoopsProofs`, `ToolGateProofs`,
`McpClientProofs`, `ChatTurnProofs`, `ProgramProofs`, `SessionsProofs`, and `PartsProofs` and
`BesideProofs` for the parts beside the conversation), and the `MC...` modules the values the
configurations need. An operator with a suffix (`StartRound_OffByOne`) is a slip of the
code that a run is shown to catch; it belongs to no specification.

## 3. The runs

| Run | What it asks |
|---|---|
| `chat_calls` | of both loops: the event protocol; a call runs once; results are real; the usage of all requests is summed; a stalled provider is reported; Done never meets the full channel of a caller that returned; the call ends |
| `mcp` | own answers; nobody left waiting once the connection is lost; no registration left behind; who waits returns; Close releases everyone |
| `chat_turns` | one listener, cancellable streams, no panic on a compaction, nothing said is lost, a commit message is the answer to `/commit` |
| `chat_prompt` | the prompt comes back |
| `chat_stale_commit` | (violated) a commit message is the answer to `/commit`, in every case |
| `tool_gate` | nothing destructive without its own approval, the UI thread not blocked, live prompts, a request gets its prompt |
| `tool_read_only` | (violated) read-only modes run nothing destructive |
| `sessions` | files are whole, history can be found, numbers increase, retention leaves nothing unless it is cut or refused |
| `session_image` | (violated) what was saved can be resumed |
| `program` | exit code 0 is a whole answer with its task ended; the JSON payload pairs calls and results; parts, source index and cursor |
| `worktree_loss` | (violated) a worktree that is removed held no work |
| `beside` | of the fourteen modules beside the conversation: scores are of their own run, texts are cut, edited and parsed exactly, an index and a route lead where they should, settings, skills, facts, starters and exports hold what they were given, requests are whole, reports belong to their task, a mention is the file chosen |

`beside` puts independent modules into one state space: the initial state chooses a part, the
variables of the others stay as they are, and a property of one part holds trivially in the
behaviours of another, so that the run says of each what a run of its own would. `MCSpec` is
`Spec` from fewer initial states: a part that does not act is in one of its initial states instead
of all. `TextsAreExact` joins the three properties of texts (`EditsAreExact`, `TextCallsRunOnce`,
`ContextIsWhole`), and `HomeFilesHold` the two about files below `~/.baryo` (`StartersHold`,
`FactsKept`).

### Bounds

- *Channels hold one event instead of 64.* Every send can find its channel full; a larger
  capacity only lets a sender run further ahead. The proofs hold for any capacity.
- *One tool called twice in each of two rounds.* A call can be repeated within a response
  and in a later round, which is what `seenToolCalls` is for, and the last round can be
  reached with calls left. Two tokens per response in the agent loop, three in the plain call,
  so that the watchdog can fire between tokens and with the channel full. One continuation: the
  answer is continued, or given up on.
- *Two MCP callers and four calls*, two of which the handshake takes. A second answer to an old id
  meets a later call; one caller holds the mutex while the other registers and the server dies.
  Pipes hold one line.
- *Two user commands of any kind* in `chat_turns`, from a conversation of two questions and two
  answers, with what the answers suggest (a search, research) as a choice: a report of the first
  can come in at any step of the second; a flag left by the first is found by the second. A
  compaction keeps two messages instead of eight. Streams are names, used again once
nothing refers to them; one begins when a name is free, and of the six one always is. `chat_prompt` has the
  commands that start slow work and one round of knowledge gaps (`MaxGaps`); a round repeats
  as long as the analysis lists gaps, so `PromptReturns` excepts the runs that reach the bound.
- *Two turns of two calls* at the gate: a request of one turn can be in the channel while the
  prompt of the other is shown and a third is on its way.
- *Two processes, two sessions, two messages, one of them longer than an archive line, two starts,
  one fault* in `sessions`; one of the sessions may have lines of the older version. The
  processes are symmetric.
- *Two calls in a headless run; two sessions, two things opened, one shelf of a local model and a
  family of three tags, in a window of 22 rows* (two lines of list) in `program`. `worktree_loss`
  has every kind of work and no pickers.
- *`beside`*: each bound is named in `MCBeside` and is the least at which the two of something meet:
  two arms and runners; files of three lines, two hunks; three sets of colliding servers; two
  pieces of text; two changes of a file, of five lines with two symbols or of one, under two updates; two starts over five user and six
  project files; two versions of two starters; three saves of two facts by two users; three
  messages, three in the archive and one failure or crash, and three sets of plugins; three skills, with a
  link and a file that cannot be read among their resources; three requests of a conversation that counts as long at two messages;
  tasks limited to two of three; research of three rounds over a channel of three lines; a text of
  four characters under two searches. Adapters are `openai` and `anthropic`; `bedrock` converts as
  `anthropic` does.

`CHECK_DEADLOCK FALSE` stands where the system may stop: a call that has ended, a user who does
nothing more. `McpClient` keeps the check on; its `Finished` is the only way to stop.

### Fairness

- *Loops* (`LoopsFairness`, condition by condition that of `ToolLoop` and `PlainChat`): goroutines
  that can run do, a caller that is reading reads, tool calls return, and the timers fire – dial and
  response-header timeouts (`client.go:20-50`), the idle watchdog (`idle.go`), the read that fails
  once its context is cancelled. Nothing is assumed of the provider: it may stall for ever after
  any frame.
- *MCP* (`FairSpec`): goroutines run; a deadline ends every wait for a reply (`client.go:249`);
  `Lock` is strongly fair because Go's mutex hands itself to a starving waiter. Nothing is assumed
  of the server, nor that anyone calls `Close`.
- *Conversation*: a command returns and its message is handled. Strong fairness of `ReceiveEnd`
  is the end of a stream, which the two loops show; it must be strong because a listener is
  queued anew for every event. The jobs are one fairness condition, because they are all under
  time limits. The user owes nothing.
- *Gate*: goroutines and commands run. The user may never answer; a request is
  then shown for ever, which is why `RequestShown` says that it is *shown*, not answered.
- The other runs state no fairness and check safety alone.

Every checked property has a plausible slip in the code that makes it fail on the same instance
(`PROJECT.json`, "mutants"): a second registration check left out, a flag not cleared, a select
that became a send, a listener queued twice, a rename before the write.

## 4. The proofs

**The agent loop** (`LoopsProofs`), for any sets of adapters and calls,
any numbers of tokens, calls and rounds and any capacity of at least one. None of the safety
properties is inductive alone. `IInv` is their conjunction with: what a request may hold
(`RequestInv`: an error is the last thing on `ch` and leaves no result), where the error of a
failed request is (`FailureInv`), what the log looks like at each place of the loop (`LogInv`:
between `exec` and `report` the last event is the start of the call at the head of `todo`), how
far the usage is summed (`MeterInv` and `UsageInv`: what was billed is what was summed and what the
request under way, or the last one if it failed, has `metered`), what
`seen` says of `executed` (`RunsInv`), and that a caller which returned at an error has read
everything (`ReaderInv`). From it follow `TypeOK`, `RunsOnce`, `ResultsAreReal`, `UsageIsTotal`,
`StallIsReported` and `DoneNeverBlocked`; and `Implements`: an initial state is one of
`EventStream`, and each step is a step of it or a stutter, as `MayFollow` is implied by `LogInv`
at every send.

**The plain call** (`LoopsProofs`), for any number of continuations. It forwards errors as they
come, so its invariant is about where an error is: last in `ch` (`RequestInv`), last in the log
with nothing more to come (`LogInv`), and, of a request that ended without a result and without a
cancelled caller, in one of these two (`FailureInv`). From it follow `StallIsReported`,
`UsageIsTotal`, that Done finds room when the caller returned at an error, and `Implements`.

**The protocol** (`LoopsProofs`, which begins with the lemmas that the two loops share). What a
caller may rely on follows from the abstract specification alone: Done is last, only Done follows
an error, a result follows its start, no tool starts once tools are disabled. With the two theorems
`Implements` these hold of either loop.

**The permission gate** (`ToolGateProofs`), for any number of turns and calls.
`ApprovalInv` says that a goroutine past the gate with a destructive call is in `auto` mode or
has its yes, and that a yes in a response channel stands for a key pressed at that prompt. It is
inductive with `TypeOK` and gives `RunsApproved`. `RequestInv` says that a request is in exactly one
of the channel, a message and the screen, after its goroutine sent it and before it has an
answer; it gives `KeySendNeverBlocks`. Neither assumes that turns do not overlap. `PromptIsLive`
does: while they do not (`SoleInv`), only the turn that the listener serves is under way, and the
goroutine of a request that is out waits for its answer; both together leave room for one
request.

**The MCP client** (`McpClientProofs`), for any callers, number of calls and capacity of the
pipes. Each of the four parts of `Connection` leans on the one before. `CallerInv` is what a
caller holds at each place of `call`: ids are positive, given once, and registered only by their
holder; the ids given out so far and the calls without one are no more than the calls begun
(`CountOK`, which is why a cardinality and its theorems come in). `WireInv`: whatever is on its
way to the server and back, at whichever of its six places, belongs to the call its id was given
to. `ChannelInv`: an id has left the table as soon as its answer exists, so that `readLoop` finds
its channel empty. `LostInv`: once `dead` is set, whoever passed the second check and is in the
table is among the ids that the drain has still to visit. They give `OwnAnswer`,
`PendingIsSound` and `LostIsReported`.

**The conversation** (`ChatTurnProofs`), for any streams, commands, gaps and kept messages. The
state is large and nearly every handler touches it, so the proof goes through `Shape`: a step
keeps the streams as they are, begins one, or ends the one in use, and which of these it does is
shown once per handler. `SingleInv` says that, as long as no result began a stream over
another, the prompt is held by one stream with one listener or message, or by one command that will
begin a stream; with it `SingleListener` and `Cancellable`. `FlagsInv` says that the flag that is
set is that of the stream under way (its `origin`), and that what a search is going to cut was put
in by the program; with it `ConversationIsSound` and `CommitIsOwn`. `KeepsMessages` is an
action property: a handler appends, replaces the last message of a failed turn, or moves to
the archive what it cuts, and the trims cut notes and acknowledgements alone because of `TrimsOK`.

**The program** (`ProgramProofs`). `ReportInv` follows a headless run: calls run one at a time, so
that a result is recorded beside its own arguments; a listener that stops either has the whole
answer or knows why not; the exit code and the payload are made from nothing else. It gives
`SuccessIsReal` and `PayloadMatches`. `ScreenInv` follows what the start of the terminal UI brings
in: the source index is due from when the index is there and the retrieval is not yet (`IndexOK`),
and the chat has what came while it was open. `PickerInv` is about the
pickers, whatever keys, tags and window they have seen: a list that has lines has its cursor on one
of them and inside the window, and the tabs of the model browser are those of its shelf, so that
tags that come late put no other tab in their place. It rests on inductions over what a list is
flattened from: its lines are a sequence, which is not empty as long as a part of it is not.
Together they give `ScreensAgree`.

**The sessions** (`SessionsProofs`), for any processes, sessions, messages, faults and crashes.
`FilesAreWhole` needs little: a file is only ever the target of a rename of a complete temporary
file (`PlaceOK`). The other three hold as long as one process at a time uses a session, which
`OneUser` makes exact: two meet there only if one has yet to remove it. `Removal` says that a
session with something stored has its file while it is used, and that a removed one has an archive
or a trace only while its remover is under way, or was cut, or a removal was refused; `Numbered`, that an archive no append
was cut in has the number of each record at its place; with these `RetentionCovers` and
`SeqIncreases`. `StaysSearchable` needs an account (`Findable`): the messages of a session that
are neither in its file, nor in its archive, nor reported as failed (`Lost`), and one more if the
archive ends in half a line (`Owing`), are at most as many as its torn appends. The one more is
the record that will be glued to that half line; `Spare` says that the half line itself, if it can
still be read, is of a message that the conversation keeps. The account is kept of what the
process has in memory as well as of the file, since a save makes one of them the other, and
`Conversing` says what they share. Steps are classed first here too (`Moves`: a process rests,
saves, drops, opens, archives, tears).

**The parts beside the conversation** (`PartsProofs` has an invariant for each part,
`BesideProofs` the theorems). A step of `Beside` is a step of one part or leaves its variables
alone (the lemmas `...Acts`), so that the invariant of a part, inductive for its own next-state
relation, is one of `Beside`. Each theorem is for any tasks, servers, files, skills and users, and
any bounds.

- *Bench*: no key is scored twice in the results file (`RowsInv`); the runner is at a pair that it
  has not skipped, with the trace removed before the run that writes it (`RunnerInv`); it skips all
  that has a score and what it has run itself (`SkipsInv`). They give `ScoresAreFair`.
- *Background*: tasks are numbered by chat, and those of an earlier chat pass their numbers on as
  long as they run (`TasksInv`, with `TasksAreOwn`). Of an inquiry, `InquiryOK` says where each kind
  may be, what it has gathered by its round, and how many of its messages may be waiting, from which
  it follows when its channel can be full. They give `BackgroundHolds`.
- *Starters and Memories*: a download is at one file of the manifest and writes what it got
  (`DownloadInv`); a file that the user has left alone and no failure has cut is as its checksum
  says and, once the download has passed it, no older than what was served as this began, but for the one
  whose checksum comes next (`FilesInv`); none is under way while another
  could be begun (`OneSetup`). What is read of a file of facts is its facts or nothing (`LoadedIs`). A process has read a file that was not too long, and what it is about
  to remove has the text that was asked for (`WorkOK`, `MemoriesInv`). They give the action properties and
  the invariant of `HomeFilesHold`.
- *Settings*: nobody is trusted but by the flag or by consent, whose marker is left only by it, and
  a process that runs does so with the settings of its layers (`SettingsInv`): what the load
  computes by merging is, key by key, what the strongest layer says (`ConfigIs`). It gives
  `SettingsHold`.
- *Mentions*: what the preview waits for is being searched for (`SearchRuns`); a list that is shown
  has a choice to make, of the word at the cursor unless it strayed (`ListShown`). With the two parts
  of `MentionIsOwn` (`ListComes`, `ChoiceIsAttached`) they are inductive.
- *RepoIndex*: no time is later than the last change, and one time is one text of a file, but for
  a file that was saved behind an update's back (`TimesHold`, `RulesHold`); of the updates that will
  settle the index, what one has not come to is still ahead of it (`UpdatesHold`). For the source
  build, a file that nobody saved or removed is everywhere of its first text (`Untouched`), before
  any change the chunks of a file are what its symbols cut (`Undisturbed`, with `Cut`), and a panic is of a file that
  moved (`PanicIsMoved`). They give `IndexIsCurrent`.
- *Exports*: the archive is in order and comes before the chat and its file (`ArchiveAhead`), and each
  message that was saved is in the archive, in the file, or `dropped` (`NothingLost`), through every
  compaction, trim, crash and append that fails. What the export has read of the archive keeps that
  place before whatever the file becomes, and lacks only what has `moved` since (`Reading`). The plugins
  found are of one name once, and of the project only if it is trusted (`FoundOK`). They give
  `ExportsHold`.
- *McpManager*: for configurations with distinct names, each server has its own trust, the servers
  that answered are the clients, their tools are those that have a route, and what was shown or
  called is a tool of one that is up (`ManagerInv`). It gives `RouteIsOwn`.
- *Requests*: the messages of the request under way are those it began with, then what its loop added
  (`RequestInv`). What is said in a list is a homomorphism over concatenation (by induction on the
  list), so that the reminder may stand anywhere. They give `RequestsAreWhole`.
- *Skills*: the index is that of the start while no name has changed; an entry of the conversation
  is a skill of the index, the one that was wanted but for case, and it is there once, but for twins and
  for names that changed (`SkillsInv`). What is loaded of a skill stays within its budget by the sizes
  that are listed, up to the last resource, each once: inductions over the folders and over the files of a folder. They give `SkillsHold`.

*Induction.* The induction theorems of the library take an operator as a parameter, which the
provers cannot instantiate. Where an argument needs induction it goes through least elements: a set
of naturals that is not empty has a least member (from `NatLessThanWellFounded` and `WFMin`), and
the least number that refutes a claim is neither 0 nor a successor. A recursive function on
0..n is first shown to exist, from the functions on its parts 0..m (`Recursion`), and then has
its defining equation.

*Assumptions.* Of the constants the proofs use only what the modules state and TLC evaluates in
every run: numbers are naturals, capacities are positive, sentinels are members of nothing
else (`CapAssumption`, `BoundsAssumption`, `AdapterAssumption`, `NoCallAssumption`,
`RoundsAssumption`, `CallAssumption`, `ModeAssumption`, `ProcAssumption`, `StreamAssumption`,
`LaunchAssumption`, `StartAssumption`, `SetAssumption`, the `BoundAssumption` of three modules, and
of the parts beside the conversation and the screens one each, named after its module);
`ResumedAssumption` says that a resumed conversation is a sequence of messages, and
`StartersAssumption` that the starters are listed by names.

*Only model-checked.*
- Every liveness property: fairness and `ENABLED` are out of the prover's reach.
  These are `CallEnds`, `WaitEnds`, `CloseReleases`, `PromptReturns` and `RequestShown`.
- `TextsAreExact`. What the file tools, the parser of calls in text and the retrieval compute is
  defined with selections, folds and sorted sequences of texts (`SelectSeq`, `FoldLeft`,
  `SetToSortSeq`), which the provers do not expand; TLC compares the results with reference
  definitions over the inputs of section 3.

## 5. What the models found

Four runs are expected to fail; each counterexample is a short sequence of ordinary use.

- `chat_stale_commit`: `/commit` sets `commitPending`; a stream that fails or brings no text
  leaves it set; the answer to the next question, whatever it is, becomes a commit message.
- `tool_read_only`: the meta-tool executor stands before the one that knows the mode, so a
  destructive meta-tool named by a model in a read-only mode is executed.
- `worktree_loss`: `HasChanges` sees neither untracked files nor commits, so that a worktree with
  nothing else is removed on exit, with its branch.
- `session_image`: a message with an image is saved in a form nothing decodes, and with it
  the whole session.

The properties of the passing runs except, by name, the behaviours in which the code does not do
what they say. They are the following; each was a counterexample before it was excepted.

*Conversation.* A search result or a strategy that reports during a stream begins another one over
it, which is neither stopped nor told apart (`overlapped`, `chat.go:1492`). An error, or an answer without
text, leaves the flags of its turn set (`orphaned`). `SingleListener`, `Cancellable`,
`SummaryFits`, `KeepsMessages`, `CommitIsOwn` hold but for these; `PromptIsLive` and
`RequestShown` but for turns that overlap; `RunsApproved` and `KeySendNeverBlocks` always.
In a read-only mode no `waitForConfirm` is queued (`chat.go:3197`), so a destructive meta-tool that
the gate does ask for waits for the listener of another turn.

*Calls.* What a request has reported of its usage before it fails is in no result and no event: Done
omits it (`client.go:202` and 247, `anthropic.go:303` and 359). A caller that cancels and stops reading
leaves the loop at its last send.

*MCP.* A request is written under a mutex with no deadline: a server that does not read
blocks its caller and all later ones, so `WaitEnds` is about those that have written. Of two
configurations with one name the first process is never closed.

*Requests.* The Anthropic and Bedrock conversions keep the last system message only, so
that the reminder of a long conversation, or a change of mode, takes the place of the prompt; and
they drop images.

*Screens.* A part of the chat, or an event of its stream, that comes while a picker covers the chat is
lost; of the stream nothing more is heard then. A cancelled pull may look like one that is done. A result of a task
that comes then is lost as well, and in a new chat it goes to the task that has its number; deep
research started by a chat that does not listen any more fills its channel of ten and waits for
ever, under a context nobody cancels.

*Mentions.* A list of files is taken if its letters are those of the word at the cursor, so that of
two words `@a` one may be completed at the place of the other, or, after the history replaced
the text, past its end, which panics (`mention.go:273`). A bare `@` never lists, although
`README.md:815` says "Type @ then Tab", since `pending` is empty at first and equals its letters; and
`case "escape"` (`chat.go:790`) is no key bubbletea names, so the list cannot be dismissed.

*Sessions.* An archive with a line longer than the scanner takes refuses everything after it, and
the conversation goes on without what was to be archived. A cut append also loses the message
glued to it. A removal that is cut, or the removal of an archive or a trace that is refused
(`session.go:499`), leaves a file no later run looks for. Retention runs before
the session to be resumed is loaded, and may remove it. Two processes at one session (`shared`)
overwrite each other's messages; its file stays whole.

*Headless.* An error event returns before the end of the task is recorded in the trace.

*Facts and starters.* Two processes that save facts lose one of them. A file of facts that cannot be
read or parsed counts as empty (`memory.go:48-55`), so that the next fact replaces all of it. A starter
edited while its new version is downloaded is overwritten, and so is an edit that could not be read. A
setup is done although a checksum was not written (`setup.go:187`); such a file, and one whose write was
cut, counts as edited and is passed by from then on.

*Indexes.* A file saved between the read and the stat of an index update keeps its old symbols, and so
does one that could not be read or parsed. The lines of a symbol beyond a limit are in no chunk
(`source.go:207`).

*Edits.* A file saved between a tool's read and its write is overwritten. A diff that ends in a newline
has an empty context line after its last hunk (`applydiff.go:127`, 150), so that it is refused
unless a blank line follows there; the line `\ No newline at end of file` is taken for context as well
(`applydiff.go:163`). A hunk that only adds goes in above the line it should follow
(`applydiff.go:229`), and a line that begins like a file header is dropped (`applydiff.go:130`).
`EditsAreExact` says when a diff with a final newline is refused; the other three are excepted by
`Standard`.

*Exports.* What leaves the session for the archive between the two reads is missed. What the archive
refused or cut is missed for good, as the conversation goes on without it; what a process died with
between the append and the save is there twice, and so is a conversation that was cleared and is still
in its file (`chat.go:1974`). The results of a search are archived before what was said earlier, so that
"Archive first is the real order" (`export.go:163`) does not hold of them.

*Skills.* Skills that differ in case, or were renamed since the index was made, may enter a conversation
twice. A resource that is a link is measured by the link (`skill.go:413`), and passes both limits.

*Benchmark.* A run that an interrupt ended before it was verified is recorded as an ordinary result
(`bench.go:457`, 488) and scored; `ScoresAreFair` says nothing of the verdict in a row.

## 6. What is not modelled

- Network and child processes: search engines, pages, git, gh, docker, ssh; a step of the model
  may fail where such a call may.
- Data: JSON and SSE, prompts, token counts, the tables of providers and models
  (`provider.go`, `model_hints.go`, `fit.go`, `hardware.go`), the extraction of symbols from each
  language (`extract.go`), the matching of one ignore pattern, scores (`bm25.go`). `ChatTurn`
  decides whether a conversation is long by a choice.
- Rendering, key editing, completion scripts, usage texts, log and doctor output.
- Heuristics over the user's words (`automode.go`, `intent.go`, `router.go`) and the commands run
  after an edit (`autofix.go`, `hooks.go`): one call each, whose outcome is a line of history.
- Listing, globbing and grep tools: they format what a walk of a directory finds.
- The approximations in the models: the wait of a request before headers is one step; deadlines
  may expire at any moment they are allowed to; a request reports one unit of usage at most, at
  any time before it ends.

## 7. The plan

Done: streams and loops with the abstract protocol and its proofs; the MCP client and manager; the
conversation; the gate and its proofs; sessions with crashes; the program from flags to exit with
its screens; the fourteen modules beside the conversation.

Theorems proved: those of section 4, for the two loops and their protocol, the gate, the client, the
conversation, the program, the sessions, and the state machines beside the conversation: every
safety and action property of a passing run but one.

Theorems to come: `TextsAreExact`, by giving `Edits`, `TextCalls` and `Retrieval` the recursive
functions that `Skills` and `Screens` have.

Still worth composing: `ChatTurn` with `Screens` (a chat that is covered in the middle of a
compaction), and `ChatTurn` with `Sessions` (which turn a save belongs to).
