------------------------------- MODULE Screens -------------------------------
(***************************************************************************)
(* The screens of the terminal UI: internal/tui/app.go, the pickers of     *)
(* models and sessions, and the pull of a model (internal/llm/pull.go).    *)
(*                                                                         *)
(* Update handles one message at a time.  Commands run meanwhile and       *)
(* report in any order: the model list, the indexes, the MCP servers, a    *)
(* model being loaded, a stream, a pull.  A few messages are handled on    *)
(* every screen; the others go to the one that is open, which drops what   *)
(* it does not know.  A command is the kind of its message.                *)
(***************************************************************************)
EXTENDS Integers, Sequences, SequencesExt

CONSTANTS
  Heights,      \* of the window
  Shelves,      \* what can be listed: see Lists
  SavedSessions,\* how many sessions there are to pick from
  MaxOpens,     \* bound on what the user opens or says in the chat
  NoChat, NoModel, NoList

ASSUME ScreensAssumption ==
  /\ Heights \subseteq Int /\ SavedSessions \in Nat
  /\ \A s \in Shelves : s \in [local : Nat, cloud : Nat, hub : Seq(Nat)]

VARIABLES
  screen,
  remote,        \* whether the models are on a remote server
  have,          \* mcpManager, repoIndex, ragPipeline: those that are set
  cmds,          \* the commands under way
  sourcesDue,    \* pendingSourceIdx
  sources,       \* how often startSourceIndex was called
  setupDue,      \* pendingSetupPrompt
  pendingModel,  \* the model being loaded
  chat,          \* the chat, and what was put into it
  list,          \* the open picker
  pull,          \* the process of docker model pull
  opens          \* the bound's counter

screenVars == <<screen, remote, have, cmds, sourcesDue, sources, setupDue, pendingModel,
                chat, list, pull, opens>>

Kinds == {"models", "setup", "repoMap", "rag", "mcp", "session", "sessions",
          "show", "preload", "cloud", "other", "leaveModels", "leaveSessions", "tags",
          "pullLine", "stream"}

\* The commands once one has reported, and whether one more may be started:
\* that no two of a kind are under way is a bound.
Took(k) == cmds \ {k}
Room(k) == k \notin cmds

Message(k) == k \in cmds

\* Before p.Run.
ScreensInit ==
  /\ screen = "loading" /\ remote \in BOOLEAN
  /\ have = {} /\ cmds = {}
  /\ sourcesDue = FALSE /\ sources = 0 /\ setupDue = FALSE
  /\ pendingModel = NoModel /\ chat = NoChat /\ list = NoList
  /\ pull = "none" /\ opens = 0

ScreensGone ==
  /\ screen' = "loading" /\ have' = {} /\ cmds' = {}
  /\ sourcesDue' = FALSE /\ sources' = 0 /\ setupDue' = FALSE
  /\ pendingModel' = NoModel /\ chat' = NoChat /\ list' = NoList
  /\ pull' = "none" /\ opens' = 0

\* AppModel.Init: a session or the picker skips everything else.  With no MCP
\* server configured the message "mcp" never comes; that the source index is
\* done is ignored.
Starts == {"session", "sessions", "fresh"}

StartUI(how) ==
  /\ cmds' = IF how = "fresh" THEN {"models", "setup", "repoMap", "rag", "mcp"} ELSE {how}
  /\ UNCHANGED <<screen, remote, have, sourcesDue, sources, setupDue, pendingModel, chat,
                 list, pull, opens>>

-----------------------------------------------------------------------------
(* The chat, of which only what the app puts in it is here *)

NewChat(setup) ==
  /\ screen' = "chat" /\ list' = NoList
  /\ chat' = [parts |-> have, missed |-> {}, setup |-> setup, busy |-> FALSE]

transitionToChat_Bare ==
  /\ screen' = "chat" /\ list' = NoList
  /\ chat' = [parts |-> have \cap {"mcp"}, missed |-> {}, setup |-> setupDue, busy |-> FALSE]
  /\ setupDue' = FALSE

transitionToChat ==
  /\ NewChat(setupDue) /\ setupDue' = FALSE

\* On the chat's screen a part goes into the chat; behind another one the chat
\* that exists does without it.
Inject(part) ==
  chat' = IF chat = NoChat THEN chat
          ELSE IF screen = "chat" THEN [chat EXCEPT !.parts = @ \cup {part}]
          ELSE [chat EXCEPT !.missed = @ \cup {part}]

-----------------------------------------------------------------------------
(* Messages handled on every screen *)

Setup ==
  /\ Message("setup") /\ cmds' = Took("setup")
  /\ \E needed \in BOOLEAN :
       IF needed /\ screen = "chat"
       THEN /\ chat' = IF chat = NoChat THEN chat ELSE [chat EXCEPT !.setup = TRUE]
            /\ UNCHANGED setupDue
       ELSE setupDue' = (setupDue \/ needed) /\ UNCHANGED chat
  /\ UNCHANGED <<screen, remote, have, sourcesDue, sources, pendingModel, list, pull, opens>>

MCPReady ==
  /\ Message("mcp") /\ cmds' = Took("mcp")
  /\ have' = have \cup {"mcp"} /\ Inject("mcp")
  /\ UNCHANGED <<screen, remote, sourcesDue, sources, setupDue, pendingModel, list, pull,
                 opens>>

\* An index that could not be built arrives as nil.
RepoMapReady ==
  /\ Message("repoMap")
  /\ \/ /\ have' = have \cup {"index"} /\ Inject("index")
        /\ IF "rag" \in have
           THEN cmds' = Took("repoMap") /\ sources' = sources + 1
                /\ UNCHANGED sourcesDue
           ELSE cmds' = Took("repoMap") /\ sourcesDue' = TRUE /\ UNCHANGED sources
     \/ /\ cmds' = Took("repoMap") /\ sourcesDue' = FALSE
        /\ UNCHANGED <<have, chat, sources>>
  /\ UNCHANGED <<screen, remote, setupDue, pendingModel, list, pull, opens>>

RAGReady ==
  /\ Message("rag")
  /\ \/ /\ have' = have \cup {"rag"} /\ Inject("rag")
        /\ IF sourcesDue
           THEN cmds' = Took("rag") /\ sources' = sources + 1
           ELSE cmds' = Took("rag") /\ UNCHANGED sources
     \/ cmds' = Took("rag") /\ UNCHANGED <<have, chat, sources>>
  /\ UNCHANGED <<screen, remote, sourcesDue, setupDue, pendingModel, list, pull, opens>>

\* A session that cannot be loaded leaves the screen as it is.
SessionLoaded ==
  /\ Message("session") /\ cmds' = Took("session")
  /\ \/ NewChat(FALSE)
     \/ UNCHANGED <<screen, chat, list>>
  /\ UNCHANGED <<remote, have, sourcesDue, sources, setupDue, pendingModel, pull, opens>>

\* esc on a picker, also one that no chat is behind.
Cancelled ==
  /\ \E k \in {"leaveModels", "leaveSessions"} : Message(k) /\ cmds' = Took(k)
  /\ screen' = "chat" /\ list' = NoList
  /\ UNCHANGED <<remote, have, sourcesDue, sources, setupDue, pendingModel, chat, pull, opens>>

-----------------------------------------------------------------------------
(* Pickers: a cursor, counted from 0, in one of several tabs *)

\* A shelf: how many models are local and in the cloud, and for each family on
\* Docker Hub the number of its tags, known once the batch has arrived.
HubItems(shelf, tags) ==
  FlattenSeq([f \in 1..Len(shelf.hub) |->
    IF tags /\ shelf.hub[f] > 0
    THEN <<"header">> \o [t \in 1..shelf.hub[f] |-> "pullable"]
    ELSE <<"pullable">>])

\* Only tabs that have an item, or one that has none.
Filled(tab) == IF tab = <<>> THEN <<>> ELSE <<tab>>
Lists(shelf, tags) ==
  LET full == Filled([i \in 1..shelf.local |-> "other"])
              \o Filled([i \in 1..shelf.cloud |-> "cloud"]) \o Filled(HubItems(shelf, tags))
  IN  IF full = <<>> THEN <<full>> ELSE full

Picker(kind, shelf, tabs) ==
  [kind |-> kind, shelf |-> shelf, tabs |-> tabs, tab |-> 1, cursor |-> 0, offset |-> 0,
   height |-> 0, pulling |-> FALSE]

Items(l) == l.tabs[l.tab]

\* Integer division in Go rounds to zero, and the minimum hides the difference.
PageSize(height, overhead, minimum) ==
  LET n == (height - overhead) \div 3 IN IF n < minimum THEN minimum ELSE n

Rows(l) == IF l.kind = "sessions" THEN PageSize(l.height, 5, 5) ELSE PageSize(l.height, 7, 3)

AdjustScroll(l) ==
  LET top == IF l.cursor < l.offset THEN l.cursor
             ELSE IF l.cursor >= l.offset + Rows(l) THEN l.cursor - Rows(l) + 1
             ELSE l.offset
  IN  [l EXCEPT !.offset = IF top < 0 THEN 0 ELSE top]

IsHeader(l, c) == c \in 0..(Len(Items(l)) - 1) /\ Items(l)[c + 1] = "header"

\* skipHeader: past the headers in one direction, then back into the list.  No
\* two headers are neighbours.
Skip(l, dir) ==
  LET c == IF IsHeader(l, l.cursor) THEN l.cursor + dir ELSE l.cursor
      n == Len(Items(l))
  IN  [l EXCEPT !.cursor = IF c >= n THEN n - 1 ELSE IF c < 0 THEN 0 ELSE c]

Moved(l, dir) ==
  IF l.cursor + dir \in 0..(Len(Items(l)) - 1)
  THEN AdjustScroll(Skip([l EXCEPT !.cursor = @ + dir], dir))
  ELSE l

Turned(l, dir) ==
  IF l.tab + dir \in 1..Len(l.tabs)
  THEN Skip([l EXCEPT !.tab = @ + dir, !.cursor = 0, !.offset = 0], 1)
  ELSE l

OnPicker == screen \in {"modelSelect", "modelBrowser", "sessionSelect"} /\ list # NoList

Browse ==
  /\ OnPicker
  /\ \/ /\ ~list.pulling
        /\ list' \in {Moved(list, 1), Moved(list, -1), Turned(list, 1), Turned(list, -1)}
     \/ \E h \in Heights : list' = AdjustScroll([list EXCEPT !.height = h])
  /\ UNCHANGED <<screen, remote, have, cmds, sourcesDue, sources, setupDue, pendingModel,
                 chat, pull, opens>>

\* enter: the choice is reported by a command, or a pull is started.
Choose ==
  /\ OnPicker /\ ~list.pulling /\ Items(list) # <<>>
  /\ ~IsHeader(list, list.cursor)
  /\ LET item == Items(list)[list.cursor + 1] IN
       \/ /\ item = "pullable" /\ pull = "none" /\ Room("pullLine")
          /\ opens < MaxOpens /\ opens' = opens + 1
          /\ cmds' = cmds \cup {"pullLine"} /\ pull' = "running"
          /\ list' = [list EXCEPT !.pulling = TRUE]
       \/ /\ item \in {"cloud", "other", "session"} /\ Room(item)
          /\ cmds' = cmds \cup {item} /\ UNCHANGED <<list, pull, opens>>
  /\ UNCHANGED <<screen, remote, have, sourcesDue, sources, setupDue, pendingModel, chat>>

\* esc cancels a pull, which then ends like any other, or leaves; the model
\* picker has none.
Escape ==
  /\ OnPicker /\ screen # "modelSelect"
  /\ LET k == IF screen = "modelBrowser" THEN "leaveModels" ELSE "leaveSessions" IN
       /\ Room(k)
       /\ cmds' = IF list.pulling THEN cmds ELSE cmds \cup {k}
  /\ UNCHANGED <<screen, remote, have, sourcesDue, sources, setupDue, pendingModel, chat,
                 list, pull, opens>>

NewModelBrowser(started) ==
  \E shelf \in Shelves :
    /\ screen' = "modelBrowser"
    /\ list' = Picker("browser", shelf, Lists(shelf, FALSE))
    /\ cmds' = started \cup {k \in {"tags"} : shelf.hub # <<>>}

ShowModels ==
  /\ Message("show") /\ Room("tags")
  /\ \/ NewModelBrowser(Took("show"))
     \/ cmds' = Took("show") /\ UNCHANGED <<screen, list>>
  /\ UNCHANGED <<remote, have, sourcesDue, sources, setupDue, pendingModel, chat, pull, opens>>

ShowSessions ==
  /\ Message("sessions") /\ cmds' = Took("sessions")
  /\ screen' = "sessionSelect"
  /\ list' = Picker("sessions", [local |-> 0, cloud |-> 0, hub |-> <<>>],
                    <<[i \in 1..SavedSessions |-> "session"]>>)
  /\ UNCHANGED <<remote, have, sourcesDue, sources, setupDue, pendingModel, chat, pull, opens>>

\* The tabs are built again: the cursor stays where it was, or after a header.
\* Only the last tab changes, and never gets shorter.
HubTags ==
  /\ Message("tags") /\ cmds' = Took("tags")
  /\ list' = IF screen # "modelBrowser" \/ list = NoList THEN list
             ELSE LET l == [list EXCEPT !.tabs = Lists(list.shelf, TRUE)]
                  IN  AdjustScroll(Skip(l, 1))
  /\ UNCHANGED <<screen, remote, have, sourcesDue, sources, setupDue, pendingModel, chat,
                 pull, opens>>

\* StreamPull writes its lines to a channel, and the last may be an error.  A
\* browser built since has no channel to listen to, and another screen drops
\* the line: then nobody hears of the pull any more.
PullLine ==
  /\ Message("pullLine") /\ pull = "running"
  /\ IF screen = "modelBrowser" /\ list # NoList /\ list.pulling
     THEN UNCHANGED <<cmds, pull>>
     ELSE cmds' = Took("pullLine") /\ pull' = "none"
  /\ UNCHANGED <<screen, remote, have, sourcesDue, sources, setupDue, pendingModel, chat,
                 list, opens>>

\* The channel was closed.  Of a cancelled pull the error may be missing, and it
\* then looks like one that is done, after which the lists are refreshed.
PullDone ==
  /\ Message("pullLine") /\ screen = "modelBrowser" /\ list # NoList /\ Room("show")
  /\ list' = [list EXCEPT !.pulling = FALSE]
  /\ \E error \in {FALSE, list.pulling} :
       cmds' = Took("pullLine") \cup {k \in {"show"} : ~error}
  /\ pull' = "none"
  /\ UNCHANGED <<screen, remote, have, sourcesDue, sources, setupDue, pendingModel, chat, opens>>

-----------------------------------------------------------------------------
(* Models *)

\* startModelLoading: only a model on a remote server is loaded first.
Load(k, rest) ==
  IF remote /\ k # "cloud"
  THEN /\ screen' = "modelLoading" /\ pendingModel' = k /\ list' = NoList
       /\ cmds' = rest \cup {"preload"}
       /\ UNCHANGED <<chat, setupDue>>
  ELSE transitionToChat /\ cmds' = rest /\ UNCHANGED pendingModel

ModelsLoaded ==
  /\ Message("models")
  /\ \/ screen = "loading" /\ Load("other", Took("models"))
     \/ screen = "loading" /\ NewModelBrowser(Took("models"))
        /\ UNCHANGED <<chat, setupDue, pendingModel>>
     \/ /\ screen = "loading" /\ screen' = "modelSelect" /\ cmds' = Took("models")
        /\ \E shelf \in Shelves :
             list' = Picker("models", shelf, Lists([shelf EXCEPT !.hub = <<>>], FALSE))
        /\ UNCHANGED <<chat, setupDue, pendingModel>>
     \/ cmds' = Took("models")
        /\ UNCHANGED <<screen, list, chat, setupDue, pendingModel>>
  /\ UNCHANGED <<remote, have, sourcesDue, sources, pull, opens>>

ModelSelected ==
  /\ \E k \in {"cloud", "other"} :
       /\ Message(k) /\ Room("preload")
       /\ IF screen \in {"modelSelect", "modelBrowser"}
          THEN Load(k, Took(k))
          ELSE cmds' = Took(k) /\ UNCHANGED <<screen, list, chat, setupDue, pendingModel>>
  /\ UNCHANGED <<remote, have, sourcesDue, sources, pull, opens>>

\* Whether the model could be loaded or not.
ModelPreloaded ==
  /\ Message("preload") /\ cmds' = Took("preload")
  /\ IF screen = "modelLoading"
     THEN transitionToChat /\ pendingModel' = NoModel
     ELSE UNCHANGED <<screen, list, chat, setupDue, pendingModel>>
  /\ UNCHANGED <<remote, have, sourcesDue, sources, pull, opens>>

-----------------------------------------------------------------------------
(* In the chat *)

\* /models, /sessions, or a question.
Talk ==
  /\ screen = "chat" /\ chat # NoChat /\ ~chat.busy /\ opens < MaxOpens
  /\ opens' = opens + 1
  /\ \E k \in {"show", "sessions", "stream"} :
       /\ Room(k)
       /\ cmds' = cmds \cup {k}
       /\ chat' = [chat EXCEPT !.busy = k = "stream"]
  /\ UNCHANGED <<screen, remote, have, sourcesDue, sources, setupDue, pendingModel, list, pull>>

\* An event of a stream, whose handler listens for the next one.  On another
\* screen nobody does, and the chat behind it hears no more of its stream.
StreamEvent ==
  /\ Message("stream")
  /\ IF screen # "chat" \/ chat = NoChat
     THEN /\ cmds' = Took("stream")
          /\ chat' = IF chat = NoChat THEN chat
                     ELSE [chat EXCEPT !.missed = @ \cup {"stream"}]
     ELSE \E last \in BOOLEAN :
            /\ chat' = [chat EXCEPT !.busy = @ /\ ~last]
            /\ cmds' = IF ~last /\ chat.busy THEN cmds ELSE Took("stream")
  /\ UNCHANGED <<screen, remote, have, sourcesDue, sources, setupDue, pendingModel, list,
                 pull, opens>>

ScreensNext ==
  \/ Setup \/ MCPReady \/ RepoMapReady \/ RAGReady
  \/ SessionLoaded \/ Cancelled \/ Browse \/ Choose \/ Escape
  \/ ShowModels \/ ShowSessions \/ HubTags \/ PullLine \/ PullDone
  \/ ModelsLoaded \/ ModelSelected \/ ModelPreloaded \/ Talk \/ StreamEvent

-----------------------------------------------------------------------------
(* Properties *)

\* "Global message handlers (can arrive from any screen)" (app.go:353): in
\* whatever order the servers, the indexes and the models come in, the chat has
\* all of them but those that came while another screen covered it, and a chat
\* that waits for its stream is listening to one, with the same exception.
ChatHasAll ==
  chat # NoChat =>
    /\ have \subseteq chat.parts \cup chat.missed
    /\ chat.busy => "stream" \in cmds \/ "stream" \in chat.missed

\* The source index needs the repository index and the retrieval index; it is
\* built once, whichever comes first, and not at all if one of them failed.
SourcesOnce ==
  sources = IF {"index", "rag"} \subseteq have THEN 1 ELSE 0

\* What enter would take is a line that is on the screen, after any keys, tags
\* that arrive late, and changes of the window.
CursorShown ==
  OnPicker /\ Items(list) # <<>> =>
    /\ list.cursor \in 0..(Len(Items(list)) - 1)
    /\ list.cursor \in list.offset..(list.offset + Rows(list) - 1)

\* Messages and keys in any order leave the screens in step with one another.
ScreensAgree == ChatHasAll /\ SourcesOnce /\ CursorShown
=============================================================================
