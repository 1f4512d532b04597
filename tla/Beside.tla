------------------------------- MODULE Beside -------------------------------
(***************************************************************************)
(* The parts of baryo that work beside the conversation: each behaviour is *)
(* one of a single part, chosen at its start, since they share no state.   *)
(***************************************************************************)
EXTENDS Bench, Background, Starters, Memories, Settings, Mentions, RepoIndex, Exports,
        McpManager, Requests, Skills

CONSTANTS
  \* Edits
  Texts, Saves, EditCalls, MaxRewrite, Failed,
  \* TextCalls
  Pieces, MaxPieces, ValidNames, Suffixed,
  \* Retrieval
  Documents, Conversations, Sources, Rankings, Budgets, Maps,
  MaxChunk, Overlap, MinExchange, TopK, Reserve

VARIABLES
  part,  \* the part of baryo that this behaviour is of
  file, call, snapshot, pc, answer,
  reply, found,
  job

editState == <<file, call, snapshot, pc, answer>>
textState == <<reply, found>>

Edit == INSTANCE Edits WITH Calls <- EditCalls
TextForm == INSTANCE TextCalls
Rag == INSTANCE Retrieval

Init ==
  /\ part \in {"bench", "edit", "servers", "texts", "index", "retrieval", "settings", "starters",
              "skills", "memories", "exports", "requests", "background", "mentions"}
  /\ BenchInit
  /\ Edit!EditInit
  /\ ManagerInit
  /\ TextForm!TextInit
  /\ IndexInit
  /\ Rag!RetrievalInit
  /\ SettingsInit
  /\ StartersInit
  /\ SkillsInit
  /\ MemoriesInit
  /\ ExportsInit
  /\ RequestsInit
  /\ BackgroundInit
  /\ MentionsInit

Next ==
  \/ /\ part = "bench" /\ BenchNext
     /\ UNCHANGED <<part, editState, managerVars, textState, indexVars, job, settingVars,
                    starterVars, skillVars, memoryVars, exportVars, requestVars, backgroundVars, mentionVars>>
  \/ /\ part = "edit" /\ Edit!EditNext
     /\ UNCHANGED <<part, benchVars, managerVars, textState, indexVars, job, settingVars,
                    starterVars, skillVars, memoryVars, exportVars, requestVars, backgroundVars, mentionVars>>
  \/ /\ part = "servers" /\ ManagerNext
     /\ UNCHANGED <<part, benchVars, editState, textState, indexVars, job, settingVars,
                    starterVars, skillVars, memoryVars, exportVars, requestVars, backgroundVars, mentionVars>>
  \/ /\ part = "texts" /\ TextForm!TextNext
     /\ UNCHANGED <<part, benchVars, editState, managerVars, indexVars, job, settingVars,
                    starterVars, skillVars, memoryVars, exportVars, requestVars, backgroundVars, mentionVars>>
  \/ /\ part = "index" /\ IndexNext
     /\ UNCHANGED <<part, benchVars, editState, managerVars, textState, job, settingVars,
                    starterVars, skillVars, memoryVars, exportVars, requestVars, backgroundVars, mentionVars>>
  \/ /\ part = "retrieval" /\ Rag!RetrievalNext
     /\ UNCHANGED <<part, benchVars, editState, managerVars, textState, indexVars, settingVars,
                    starterVars, skillVars, memoryVars, exportVars, requestVars, backgroundVars, mentionVars>>
  \/ /\ part = "settings" /\ SettingsNext
     /\ UNCHANGED <<part, benchVars, editState, managerVars, textState, indexVars, job,
                    starterVars, skillVars, memoryVars, exportVars, requestVars, backgroundVars, mentionVars>>
  \/ /\ part = "starters" /\ StartersNext
     /\ UNCHANGED <<part, benchVars, editState, managerVars, textState, indexVars, job,
                    settingVars, skillVars, memoryVars, exportVars, requestVars, backgroundVars, mentionVars>>
  \/ /\ part = "skills" /\ SkillsNext
     /\ UNCHANGED <<part, benchVars, editState, managerVars, textState, indexVars, job,
                    settingVars, starterVars, memoryVars, exportVars, requestVars, backgroundVars, mentionVars>>
  \/ /\ part = "memories" /\ MemoriesNext
     /\ UNCHANGED <<part, benchVars, editState, managerVars, textState, indexVars, job,
                    settingVars, starterVars, skillVars, exportVars, requestVars, backgroundVars, mentionVars>>
  \/ /\ part = "exports" /\ ExportsNext
     /\ UNCHANGED <<part, benchVars, editState, managerVars, textState, indexVars, job,
                    settingVars, starterVars, skillVars, memoryVars, requestVars, backgroundVars, mentionVars>>
  \/ /\ part = "requests" /\ RequestsNext
     /\ UNCHANGED <<part, benchVars, editState, managerVars, textState, indexVars, job,
                    settingVars, starterVars, skillVars, memoryVars, exportVars, backgroundVars, mentionVars>>
  \/ /\ part = "background" /\ BackgroundNext
     /\ UNCHANGED <<part, benchVars, editState, managerVars, textState, indexVars, job,
                    settingVars, starterVars, skillVars, memoryVars, exportVars, requestVars, mentionVars>>
  \/ /\ part = "mentions" /\ MentionsNext
     /\ UNCHANGED <<part, benchVars, editState, managerVars, textState, indexVars, job,
                    settingVars, starterVars, skillVars, memoryVars, exportVars, requestVars, backgroundVars>>
Vars == <<part, benchVars, editState, managerVars, textState, indexVars, job, settingVars,
          starterVars, skillVars, memoryVars, exportVars, requestVars, backgroundVars, mentionVars>>
Spec == Init /\ [][Next]_Vars

\* What is worked out of a text is exact: edit_file changes the text it was
\* given, apply_diff the lines its hunks name, read_file numbers the lines as
\* apply_diff does; a call written in a reply as text runs once; and the chunks
\* and exchanges that are retrieved are whole, within their budget.
TextsAreExact == Edit!EditsAreExact /\ TextForm!TextCallsRunOnce /\ Rag!ContextIsWhole

\* The files below the home directory that several writers share keep what the
\* user put there: edited starters, and facts nobody asked to forget.
HomeFilesHold == StartersHold /\ FactsKept
=============================================================================
