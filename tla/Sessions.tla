------------------------------ MODULE Sessions ------------------------------
(***************************************************************************)
(* The sessions on disk (internal/session, internal/fsutil) and the        *)
(* processes that use them.  A process removes the sessions past their     *)
(* retention, starts or resumes one, and then rewrites its file after each *)
(* turn; what leaves the conversation is first appended to an archive.     *)
(* Every system call is a step of its own, between any two of which the    *)
(* process may die, and each may fail; an append may stop half way (a full *)
(* disk, a power cut).                                                     *)
(*                                                                         *)
(* Messages are numbers, 0 stands for a summary or a placeholder.          *)
(***************************************************************************)
EXTENDS Naturals, Sequences, FiniteSets, SequencesExt

CONSTANTS
  Procs,        \* running instances of the program
  IDs,          \* session ids
  Huge,         \* the messages longer than maxArchiveLine
  Images,       \* the messages with an image attached
  KeepRecent,   \* the messages a compaction keeps
  Retention,    \* whether session_retention_days is set
  MaxMessages, MaxLines, MaxStarts, MaxFaults,   \* bounds
  Gone, None,   \* no file, no session
  Partial       \* half a file, which does not parse

ASSUME SetAssumption ==
  /\ Huge \subseteq Nat /\ Images \subseteq Nat \ {0}    \* a summary has no image
  /\ IDs # {} /\ None \notin IDs
  /\ Gone \notin [msgs : Seq(Nat), old : BOOLEAN] /\ Partial \notin Seq(Nat)
ASSUME BoundAssumption ==
  /\ KeepRecent \in Nat /\ Retention \in BOOLEAN
  /\ MaxMessages \in Nat /\ MaxLines \in Nat /\ MaxStarts \in Nat
  /\ MaxFaults \in Nat

VARIABLES
  file,     \* <id>.json: a conversation, and whether it is past its retention
  archive,  \* the lines of <id>.archive.jsonl
  trace,    \* the ids with a <id>.trace.jsonl
  proc,     \* what each process is doing
  used,     \* ghost: the ids taken so far
  spoken, starts,   \* the messages and the processes so far
  stored,   \* ghost: the messages each session file has ever held
  failed,   \* ghost: messages whose archiving was reported as failed
  faults,   \* the errors and crashes so far
  tears,    \* ghost: the appends to each archive that stopped half way
  left,     \* ghost: sessions of which a removal may have left something
  shared    \* ghost: sessions used by two processes at a time

disk == <<file, archive, trace>>
ghosts == <<used, spoken, starts, stored, failed, tears, left, shared>>
vars == <<disk, proc, ghosts, faults>>

Messages == 0..MaxMessages
Conversations == Seq(Messages)

\* A line is whole, has lost its end, or only its newline; a line of an older
\* version has no envelope; "bad" is what no reader can decode.
LineStates == {"whole", "cut", "unended", "legacy", "bad"}
Lines == [seq : Nat, msg : Messages, state : LineStates, huge : BOOLEAN]

Idle == [pc |-> "off", cur |-> None, msgs |-> <<>>, job |-> None, seq |-> 0,
         temp |-> Gone, visit |-> {}]

LegacyLine == [seq |-> 0, msg |-> 0, state |-> "legacy", huge |-> FALSE]

Init ==
  /\ \E old \in {{}, {CHOOSE s \in IDs : TRUE}}, age \in BOOLEAN :
       /\ file = [s \in IDs |-> IF s \in old THEN [msgs |-> <<0>>, old |-> age] ELSE Gone]
       /\ archive = [s \in IDs |-> IF s \in old THEN <<LegacyLine>> ELSE <<>>]
       /\ used = old
  /\ trace = {}
  /\ proc = [p \in Procs |-> Idle]
  /\ spoken = 0 /\ starts = 0 /\ stored = [s \in IDs |-> {}] /\ failed = {}
  /\ faults = 0 /\ tears = [s \in IDs |-> 0] /\ left = {} /\ shared = {}

\* randomID: an id nobody has ever used.
Unused == IDs \ used
Others(p, s) == {q \in Procs \ {p} : proc[q].cur = s}

Goto(p, pc) == proc' = [proc EXCEPT ![p].pc = pc]

-----------------------------------------------------------------------------
(* CleanOld: one file is read, and removed if old; then what lies beside it *)

\* MarshalJSON writes a message with an image as a list of parts, which no
\* reader of the file takes for the content of a message (llm/types.go).
Decodes(s) ==
  /\ file[s] # Gone /\ file[s].msgs # Partial
  /\ ToSet(file[s].msgs) \cap Images = {}

StartProcess(p) ==
  /\ proc[p].pc = "off" /\ starts < MaxStarts
  /\ proc' = [proc EXCEPT ![p].pc = IF Retention THEN "clean" ELSE "pick",
                          ![p].visit = {s \in IDs : file[s] # Gone}]
  /\ starts' = starts + 1
  /\ UNCHANGED <<disk, used, spoken, stored, failed, tears, left, shared, faults>>

Inspect(p) ==
  /\ proc[p].pc = "clean"
  /\ \E s \in proc[p].visit :
       IF Decodes(s) /\ file[s].old
       THEN proc' = [proc EXCEPT ![p].pc = "remove", ![p].cur = s, ![p].visit = @ \ {s}]
       ELSE proc' = [proc EXCEPT ![p].visit = @ \ {s}]
  /\ UNCHANGED <<disk, ghosts, faults>>

\* Whoever finds the file gone, or cannot remove it, leaves the rest alone.
RemoveFile(p) ==
  /\ proc[p].pc = "remove"
  /\ LET s == proc[p].cur IN
       \/ /\ file[s] # Gone
          /\ file' = [file EXCEPT ![s] = Gone]
          /\ Goto(p, "removeArchive")
          /\ shared' = shared \cup {t \in {s} : Others(p, s) # {}}
          /\ faults' = faults
       \/ /\ file[s] = Gone \/ faults < MaxFaults
          /\ faults' = IF file[s] = Gone THEN faults ELSE faults + 1
          /\ proc' = [proc EXCEPT ![p].pc = "clean", ![p].cur = None]
          /\ UNCHANGED <<file, shared>>
  /\ UNCHANGED <<archive, trace, used, spoken, starts, stored, failed, tears, left>>

\* os.Remove fails on a file that is there: it stays, and nobody looks for it again.
RemoveError(s) ==
  /\ faults < MaxFaults
  /\ faults' = faults + 1
  /\ left' = left \cup {s}

\* "best-effort; may not exist" (session.go:499-500): the errors are ignored.
RemoveArchive(p) ==
  /\ proc[p].pc = "removeArchive"
  /\ Goto(p, "removeTrace")
  /\ \/ archive' = [archive EXCEPT ![proc[p].cur] = <<>>] /\ UNCHANGED <<left, faults>>
     \/ archive[proc[p].cur] # <<>> /\ RemoveError(proc[p].cur) /\ archive' = archive
  /\ UNCHANGED <<file, trace, used, spoken, starts, stored, failed, tears, shared>>

RemoveTrace_Skipped(p) ==
  /\ proc[p].pc = "removeTrace"
  /\ proc' = [proc EXCEPT ![p].pc = "clean", ![p].cur = None]
  /\ UNCHANGED <<disk, ghosts, faults>>

RemoveTrace(p) ==
  /\ proc[p].pc = "removeTrace"
  /\ proc' = [proc EXCEPT ![p].pc = "clean", ![p].cur = None]
  /\ \/ trace' = trace \ {proc[p].cur} /\ UNCHANGED <<left, faults>>
     \/ proc[p].cur \in trace /\ RemoveError(proc[p].cur) /\ trace' = trace
  /\ UNCHANGED <<file, archive, used, spoken, starts, stored, failed, tears, shared>>

Cleaned(p) ==
  /\ proc[p].pc = "clean" /\ proc[p].visit = {}
  /\ Goto(p, "pick")
  /\ UNCHANGED <<disk, ghosts, faults>>

-----------------------------------------------------------------------------
(* A new session, or one of those there are                                 *)

\* Opening the recorder creates the trace, before anything has been said.
Open(p, s, msgs) ==
  /\ proc' = [proc EXCEPT ![p].pc = "idle", ![p].cur = s, ![p].msgs = msgs, ![p].job = None]
  /\ trace' = trace \cup {s}
  /\ used' = used \cup {s}

NewSession(p) ==
  /\ proc[p].pc = "pick"
  /\ \E s \in Unused : Open(p, s, <<>>)
  /\ UNCHANGED <<file, archive, spoken, starts, stored, failed, tears, left, shared,
                 faults>>

\* Load by id, LatestForDir, or the choice from List.
Resume(p) ==
  /\ proc[p].pc = "pick"
  /\ \E s \in IDs :
       /\ Decodes(s)
       /\ Open(p, s, file[s].msgs)
       /\ shared' = shared \cup {t \in {s} : Others(p, s) # {}}
  /\ UNCHANGED <<file, archive, spoken, starts, stored, failed, tears, left, faults>>

\* There is no such session, or it is corrupt: the program exits.
NotFound(p) ==
  /\ proc[p].pc = "pick"
  /\ \E s \in IDs : ~Decodes(s)
  /\ proc' = [proc EXCEPT ![p] = Idle]
  /\ UNCHANGED <<disk, ghosts, faults>>

-----------------------------------------------------------------------------
(* saveSession: WriteFileAtomic, whose errors are ignored                    *)

\* A turn, after which the session is saved; the turn that falls back to a
\* search returns before it.
Speak(p) ==
  /\ proc[p].pc = "idle" /\ spoken < MaxMessages
  /\ spoken' = spoken + 1
  /\ \E next \in {"write", "idle"} :
       proc' = [proc EXCEPT ![p].msgs = Append(@, spoken + 1), ![p].pc = next]
  /\ UNCHANGED <<disk, used, starts, stored, failed, tears, left, shared, faults>>

WriteTemp_InPlace(p) ==
  /\ proc[p].pc = "write"
  /\ file' = [file EXCEPT ![proc[p].cur] = [msgs |-> Partial, old |-> FALSE]]
  /\ proc' = [proc EXCEPT ![p].pc = "rename",
                          ![p].temp = [msgs |-> proc[p].msgs, old |-> FALSE]]
  /\ UNCHANGED <<archive, trace, ghosts, faults>>

\* The temporary file has a name of its own, under which nobody reads it.
WriteTemp(p) ==
  /\ proc[p].pc = "write"
  /\ proc' = [proc EXCEPT ![p].pc = "rename",
                          ![p].temp = [msgs |-> proc[p].msgs, old |-> FALSE]]
  /\ UNCHANGED <<disk, ghosts, faults>>

Rename(p) ==
  /\ proc[p].pc = "rename"
  /\ LET s == proc[p].cur IN
       /\ file' = [file EXCEPT ![s] = proc[p].temp]
       /\ stored' = [stored EXCEPT ![s] = @ \cup (ToSet(proc[p].temp.msgs) \ {0})]
  /\ proc' = [proc EXCEPT ![p].pc = "idle", ![p].temp = Gone]
  /\ UNCHANGED <<archive, trace, used, spoken, starts, failed, tears, left, shared,
                 faults>>

\* Creating, writing or renaming fails; the deferred call removes the file.
SaveFails(p) ==
  /\ proc[p].pc \in {"write", "rename"} /\ faults < MaxFaults
  /\ proc' = [proc EXCEPT ![p].pc = "idle", ![p].temp = Gone]
  /\ faults' = faults + 1
  /\ UNCHANGED <<disk, ghosts>>

-----------------------------------------------------------------------------
(* Archive, and what is then done whether it succeeded or not                *)

Jobs(p) ==
  LET n == Len(proc[p].msgs)
  IN  {[then |-> "compact", first |-> 1, last |-> n - k] : k \in {KeepRecent} \cap 0..(n - 1)}
      \cup {[then |-> "shrink", first |-> i, last |-> i] :
              i \in {i \in 1..n : proc[p].msgs[i] # 0}}
      \cup {[then |-> "clear", first |-> 1, last |-> k] : k \in {n} \ {0}}

Batch_OffByOne(p, job) == SubSeq(proc[p].msgs, job.first, job.last - 1)

Batch(p, job) == SubSeq(proc[p].msgs, job.first, job.last)

\* A compaction puts a summary in the place of all but the recent messages, the
\* answer to a search one in the place of what was found, and /clear goes on in
\* a session of its own and leaves the old one its file.
Finish(p, job) ==
  LET msgs == proc[p].msgs IN
    \/ /\ job.then = "compact"
       /\ proc' = [proc EXCEPT ![p].pc = "write", ![p].job = None,
                               ![p].msgs = <<0>> \o SubSeq(msgs, job.last + 1, Len(msgs))]
       /\ UNCHANGED <<trace, used>>
    \/ /\ job.then = "shrink"
       /\ proc' = [proc EXCEPT ![p].pc = "write", ![p].job = None, ![p].msgs[job.first] = 0]
       /\ UNCHANGED <<trace, used>>
    \/ /\ job.then = "clear"
       /\ \E s \in Unused : Open(p, s, <<>>)

\* archiveCount numbers the records; its scanner fails on a line that is too
\* long, and then nothing is archived.
BeginArchive(p) ==
  /\ proc[p].pc = "idle"
  /\ LET lines == archive[proc[p].cur] IN
       \E job \in Jobs(p) :
         /\ Len(lines) + job.last - job.first < MaxLines
         /\ IF \E i \in 1..Len(lines) : lines[i].huge
            THEN Finish(p, job) /\ failed' = failed \cup ToSet(Batch(p, job))
            ELSE /\ proc' = [proc EXCEPT ![p].pc = "append", ![p].job = job,
                                         ![p].seq = Len(lines)]
                 /\ UNCHANGED <<trace, used, failed>>
  /\ UNCHANGED <<file, archive, spoken, starts, stored, tears, left, shared, faults>>

Records_FromZero(p) ==
  LET new == Batch(p, proc[p].job)
  IN  [i \in 1..Len(new) |->
         [seq |-> i - 1, msg |-> new[i], state |-> "whole", huge |-> new[i] \in Huge]]

Records(p) ==
  LET new == Batch(p, proc[p].job)
  IN  [i \in 1..Len(new) |->
         [seq |-> proc[p].seq + i - 1, msg |-> new[i], state |-> "whole",
          huge |-> new[i] \in Huge]]

\* What is written after a line that has no newline becomes part of it.
Glued(lines, new) ==
  IF lines = <<>> \/ new = <<>> \/ Last(lines).state \notin {"cut", "unended"}
  THEN lines \o new
  ELSE Front(lines)
       \o <<[Last(lines) EXCEPT !.state = IF new[1].state = "whole" THEN "bad" ELSE "cut",
                                !.huge = @ \/ new[1].huge]>>
       \o Tail(new)

\* The first records, and possibly a part of the next.
Parts(record) ==
  {[record EXCEPT !.state = st, !.huge = h] :
     st \in {"cut", "unended"}, h \in {FALSE, record.huge}}

Torn(records) ==
  UNION {{SubSeq(records, 1, k)}
         \cup {Append(SubSeq(records, 1, k), r) : r \in Parts(records[k + 1])} :
         k \in 0..(Len(records) - 1)}

Write(p, new) == archive' = [archive EXCEPT ![proc[p].cur] = Glued(@, new)]

AppendArchive(p) ==
  /\ proc[p].pc = "append"
  /\ Write(p, Records(p))
  /\ Finish(p, proc[p].job)
  /\ UNCHANGED <<file, spoken, starts, stored, failed, tears, left, shared, faults>>

\* The error is logged, and the messages are replaced all the same.
AppendFails(p) ==
  /\ proc[p].pc = "append" /\ faults < MaxFaults
  /\ \E new \in Torn(Records(p)) : Write(p, new)
  /\ failed' = failed \cup ToSet(Batch(p, proc[p].job))
  /\ tears' = [tears EXCEPT ![proc[p].cur] = @ + 1]
  /\ faults' = faults + 1
  /\ Finish(p, proc[p].job)
  /\ UNCHANGED <<file, spoken, starts, stored, left, shared>>

-----------------------------------------------------------------------------
(* The environment                                                           *)

Exit(p) ==
  /\ proc[p].pc = "idle"
  /\ proc' = [proc EXCEPT ![p] = Idle]
  /\ UNCHANGED <<disk, ghosts, faults>>

\* The temporary file stays, under a name that nobody reads.
Crash(p) ==
  /\ proc[p].pc # "off" /\ faults < MaxFaults
  /\ faults' = faults + 1
  /\ proc' = [proc EXCEPT ![p] = Idle]
  /\ left' = left \cup {s \in {proc[p].cur} : proc[p].pc \in {"removeArchive", "removeTrace"}}
  /\ IF proc[p].pc = "append"
     THEN /\ \E new \in Torn(Records(p)) : Write(p, new)
          /\ tears' = [tears EXCEPT ![proc[p].cur] = @ + 1]
     ELSE UNCHANGED <<archive, tears>>
  /\ UNCHANGED <<file, trace, used, spoken, starts, stored, failed, shared>>

\* session_retention_days pass with no save.
Age(s) ==
  /\ file[s] # Gone /\ ~file[s].old
  /\ file' = [file EXCEPT ![s].old = TRUE]
  /\ UNCHANGED <<archive, trace, proc, ghosts, faults>>

Next ==
  \/ \E s \in IDs : Age(s)
  \/ \E p \in Procs :
       \/ StartProcess(p) \/ Inspect(p) \/ RemoveFile(p) \/ RemoveArchive(p) \/ RemoveTrace(p)
       \/ Cleaned(p) \/ NewSession(p) \/ Resume(p) \/ NotFound(p)
       \/ Speak(p) \/ WriteTemp(p) \/ Rename(p) \/ SaveFails(p) \/ BeginArchive(p)
       \/ AppendArchive(p) \/ AppendFails(p) \/ Exit(p) \/ Crash(p)

Spec == Init /\ [][Next]_vars

-----------------------------------------------------------------------------
(* What the readers make of the files                                        *)

\* LoadArchiveRecords: a line that cannot be decoded is skipped, one that is
\* too long ends the reading.
Readable(lines) ==
  {i \in 1..Len(lines) :
     /\ lines[i].state \in {"whole", "unended", "legacy"}
     /\ lines[i].msg \notin Images
     /\ \A j \in 1..i : ~lines[j].huge}

\* Search: the sessions whose file, or else whose archive, holds the message.
Search(m) ==
  {s \in IDs :
     /\ Decodes(s)
     /\ \/ m \in ToSet(file[s].msgs)
        \/ \E i \in Readable(archive[s]) : archive[s][i].msg = m}

-----------------------------------------------------------------------------
(* Properties *)

Positions == {"off", "clean", "remove", "removeArchive", "removeTrace", "pick", "idle",
              "write", "rename", "append"}

\* A session file is there as a whole or not at all, whatever was interrupted
\* and however many processes write it (WriteFileAtomic: "an interrupted write
\* never truncates or corrupts an existing file").
FilesAreWhole ==
  \A s \in IDs : file[s] # Gone => file[s].msgs \in Conversations

\* "so the full history survives" (session.go:153): of what a session has
\* saved, /sessions search finds everything in the conversation or in its
\* archive, except what the archive refused with an error, one message for each
\* append that stopped half way, and the sessions with an image.
StaysSearchable ==
  \A s \in IDs \ shared :
    /\ file[s] # Gone /\ stored[s] \cap Images = {}
    /\ \A i \in 1..Len(archive[s]) : ~archive[s][i].huge
    => Cardinality({m \in stored[s] \ failed : s \notin Search(m)}) <= tears[s]

\* "numbering stays monotonic" (session.go:198) for a session resumed by other
\* processes, and one that has lines of an older version.
SeqIncreases ==
  \A s \in IDs \ shared : tears[s] = 0 =>
    \A i, j \in 1..Len(archive[s]) :
      i < j /\ archive[s][j].state = "whole" => archive[s][i].seq < archive[s][j].seq
                                                \/ archive[s][i].state = "legacy"

\* "retention cleanup covers it" (session.go:113): nothing stays beside a
\* session that was removed, if it was ever saved and its removal was neither
\* interrupted nor refused for one of the other two files.
RetentionCovers ==
  \A s \in IDs \ (shared \cup left) :
    file[s] = Gone /\ stored[s] # {} /\ (archive[s] # <<>> \/ s \in trace) =>
      \E p \in Procs : proc[p].cur = s /\ proc[p].pc \in {"removeArchive", "removeTrace"}

\* "list and pick a saved session to resume" (README.md:193): what was saved
\* can be read back.
SavedCanResume == \A s \in IDs : file[s] # Gone => Decodes(s)
=============================================================================
