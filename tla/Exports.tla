------------------------------ MODULE Exports -------------------------------
(***************************************************************************)
(* `baryo export` and `baryo plugins` (internal/cli/plugins.go,            *)
(* internal/plugin, internal/export): the plugins found in the user's and  *)
(* in the project's directory, the one that writes a format, and the       *)
(* built-in format, written from the files of a session that a chat may be *)
(* using meanwhile.                                                        *)
(***************************************************************************)
EXTENDS Integers, Sequences, FiniteSets, SequencesExt, FiniteSetsExt

CONSTANTS
  Installs,     \* sets of plugin folders: [place, dir, name, ids, command], names
                \* numbered in their order, ids the sequence of its formats
  Formats,      \* what --format may ask for
  BuiltinFormat,
  MaxMessages,  \* bound: messages of the conversation
  MaxArchived,  \* bound: messages in the archive
  MaxTroubles,  \* bound: appends that fail and processes that die
  NoPlugin

\* A directory holds one folder of a name.
ASSUME ExportsAssumption ==
  \A folders \in Installs :
    /\ \A p \in folders :
         /\ p = [place |-> p.place, dir |-> p.dir, name |-> p.name, ids |-> p.ids, command |-> p.command]
         /\ p.place \in {"home", "project"} /\ p.dir \in Nat /\ p.name \in Nat
    /\ \A p, q \in folders : p.place = q.place /\ p.dir = q.dir => p = q

VARIABLES
  installed,  \* the plugin folders on the disk
  talk,       \* messages in the chat, Summary in place of those that left it
  live,       \* the same as it was last saved in the session's file
  archive,    \* messages in the archive of the session
  tail,       \* how the archive ends: "ended", or "cut" or "unended" by a failed append
  said,       \* messages so far, numbered from 1
  saved,      \* messages when the file was last saved
  \* What became of messages on their way into the archive:
  moving,     \* were to be archived, and the file is not saved without them yet
  again,      \* are in the file for good all the same, and come again
  early,      \* were archived before others that had been said before them
  dropped,    \* the archive refused or cut them, or a process died with them
  troubles,   \* appends that failed and processes that died
  cmd         \* the export: what it has found, read and written
conversation == <<talk, live, archive, tail, said, saved, moving, again, early, dropped, troubles>>
exportVars == <<installed, conversation, cmd>>

Summary == 0
Spoken(messages) == Range(messages) \ {Summary}

\* LoadManifest, validate and resolveCommand: a plugin that names itself after
\* its folder, provides formats, each once, with a command inside the folder.
CommandRuns(p) == p.command = "inside"
ManifestLoads(p) ==
  p.ids /= <<>> /\ IsInjective(p.ids) /\ CommandRuns(p) /\ p.name = p.dir

\* A project's plugin takes the place of the user's of its name.
Discover_Shadows(trusted) ==
  LET loaded == {p \in installed : ManifestLoads(p)}
      near == {p \in loaded : p.place = "project" /\ trusted}
  IN near \cup {p \in loaded : p.place = "home" /\ \A q \in near : q.name /= p.name}

\* Discover: the user's, and a trusted project's but for names that are taken.
Discover(trusted) ==
  LET loaded == {p \in installed : ManifestLoads(p)}
      home == {p \in loaded : p.place = "home"}
      free == {p \in loaded : p.place = "project" /\ \A q \in home : q.name /= p.name}
  IN home \cup (IF trusted THEN free ELSE {})

\* FindExporter: the first in the order of the names.
FindExporter(found, id) ==
  LET able == {p \in found : Contains(p.ids, id)}
  IN IF able = {} THEN NoPlugin ELSE CHOOSE p \in able : \A q \in able : p.name <= q.name

----------------------------------------------------------------------------
NoExport == [at |-> "none", trusted |-> FALSE, format |-> BuiltinFormat, plugin |-> NoPlugin,
             found |-> {}, before |-> 0, moved |-> {}, doubled |-> {}, out |-> <<>>,
             ran |-> FALSE, ended |-> "none", answer |-> "none", exit |-> 0, why |-> "none"]

\* An export in the built-in format, beside a chat, or in a plugin's.
ExportsInit ==
  /\ talk = <<>> /\ live = <<>> /\ archive = <<>> /\ tail = "ended" /\ said = 0 /\ saved = 0
  /\ moving = {} /\ again = {} /\ early = {} /\ dropped = {} /\ troubles = 0
  /\ \/ installed = {} /\ cmd = NoExport
     \/ /\ installed \in Installs
        /\ \E trusted \in BOOLEAN, format \in Formats \ {BuiltinFormat} :
             cmd = [NoExport EXCEPT !.at = "asked", !.trusted = trusted, !.format = format]

\* The chat is followed until the export has what it reads.
InTime == cmd.at \in {"none", "archive", "events"}
Chatting == InTime /\ UNCHANGED <<installed, cmd>>

Say ==
  /\ said < MaxMessages
  /\ said' = said + 1 /\ talk' = Append(talk, said + 1)
  /\ Chatting /\ UNCHANGED <<live, archive, tail, saved, moving, again, early, dropped, troubles>>

\* Session.Archive appends to the archive.  What is written after a line that
\* was left without its end is lost with that line.
Archive(batch) ==
  LET kept == IF tail = "unended" THEN Front(archive) ELSE archive
      rest == IF tail = "ended" THEN batch ELSE Tail(batch)
  IN /\ Len(archive) + Len(batch) <= MaxArchived
     /\ archive' = kept \o rest
     /\ tail' = "ended" /\ troubles' = troubles
     /\ dropped' = IF tail = "ended" THEN dropped ELSE dropped \cup Spoken(<<Head(batch)>>)

\* It is refused before anything is written, or stops on its way; the error is
\* logged and the messages leave the chat all the same.
ArchiveFails(batch) ==
  LET kept == IF tail = "unended" THEN Front(archive) ELSE archive
      rest == IF tail = "ended" THEN batch ELSE Tail(batch)
  IN /\ Len(archive) + Len(batch) <= MaxArchived
     /\ troubles < MaxTroubles /\ troubles' = troubles + 1
     /\ \/ UNCHANGED <<archive, tail>>
        \/ \E n \in 0..Len(rest) :
             /\ archive' = kept \o SubSeq(rest, 1, n)
             /\ tail' \in {"ended", "cut"} \cup (IF n > 0 THEN {"unended"} ELSE {})
     /\ dropped' = dropped \cup Spoken(batch)

\* A compaction archives all but the recent messages; the answer to a search
\* takes the place of what was found.
CompactTalk ==
  /\ Len(talk) > 2
  /\ Archive(Front(talk)) \/ ArchiveFails(Front(talk))
  /\ talk' = <<Summary, Last(talk)>>
  /\ moving' = moving \cup Spoken(Front(talk))
  /\ Chatting /\ UNCHANGED <<live, said, saved, again, early>>
ShrinkTalk ==
  /\ \E i \in DOMAIN talk :
       /\ talk[i] # Summary
       /\ Archive(<<talk[i]>>) \/ ArchiveFails(<<talk[i]>>)
       /\ talk' = [talk EXCEPT ![i] = Summary]
       /\ moving' = moving \cup {talk[i]} /\ early' = early \cup {talk[i]}
  /\ Chatting /\ UNCHANGED <<live, said, saved, again>>

\* After each of these and after each turn, in one handler; when it fails the
\* file stays, and the chat goes on.
SaveSession ==
  /\ InTime
  /\ live' = talk /\ saved' = said /\ moving' = {}
  /\ cmd' = IF cmd.at = "events" THEN [cmd EXCEPT !.moved = @ \cup moving] ELSE cmd
  /\ UNCHANGED <<installed, talk, archive, tail, said, again, early, dropped, troubles>>

\* The session is left as it is in its file, and may be resumed from there: by
\* /clear, which archives all of it, or by the end of the process.
ClearTalk ==
  /\ talk # <<>>
  /\ Archive(talk) \/ ArchiveFails(talk)
  /\ talk' = live /\ moving' = {} /\ again' = again \cup moving \cup Spoken(talk)
  /\ Chatting /\ UNCHANGED <<live, said, saved, early>>
Die ==
  /\ troubles < MaxTroubles /\ troubles' = troubles + 1
  /\ talk' = live /\ moving' = {} /\ again' = again \cup moving
  /\ dropped' = dropped \cup (saved + 1)..said
  /\ Chatting /\ UNCHANGED <<live, archive, tail, said, saved, early>>

\* RunExport up to the choice of who writes; without a session it is done.
RunExport ==
  /\ cmd.at = "none"
  /\ cmd' = IF saved = 0 THEN [cmd EXCEPT !.at = "done", !.why = "nothing"]
            ELSE [cmd EXCEPT !.at = "archive", !.before = saved]
  /\ UNCHANGED <<installed, conversation>>
FindPlugin ==
  /\ cmd.at = "asked"
  /\ LET found == Discover(cmd.trusted)
         plugin == FindExporter(found, cmd.format)
     IN cmd' \in {[cmd EXCEPT !.at = "done", !.found = found, !.why = "nothing"],
                  IF plugin = NoPlugin
                  THEN [cmd EXCEPT !.at = "done", !.found = found, !.why = "unknown", !.exit = 2]
                  ELSE [cmd EXCEPT !.at = "plugin", !.found = found, !.plugin = plugin]}
  /\ UNCHANGED <<installed, conversation>>

\* Builtin and writeEvents: the archive is read, then the session; an archive
\* that cannot be read or a write that fails ends the export, a session that is
\* gone by then does not.
LoadArchiveRecords ==
  /\ cmd.at = "archive"
  /\ \/ cmd' = [cmd EXCEPT !.at = "events", !.out = archive]
     \/ cmd' = [NoExport EXCEPT !.at = "done", !.why = "disk", !.exit = 1]
  /\ UNCHANGED <<installed, conversation>>
WriteEvents ==
  /\ cmd.at = "events"
  /\ \/ cmd' = [cmd EXCEPT !.at = "done", !.out = @ \o live, !.why = "written", !.doubled = moving]
     \/ cmd' = [NoExport EXCEPT !.at = "done", !.why = "gone"]
     \/ cmd' = [NoExport EXCEPT !.at = "done", !.why = "disk", !.exit = 1]
  /\ UNCHANGED <<installed, conversation>>

\* RunExporter: the command is looked up again, and what the process has
\* written on stdout is read whether or not it ended well.
RunExporter ==
  /\ cmd.at = "plugin"
  /\ \E ended \in {"zero", "nonzero", "timeout"}, answer \in {"ok", "not ok", "unusable"} :
       LET runs == cmd.plugin \in installed
           good == runs /\ ended = "zero" /\ answer = "ok"
       IN cmd' = [cmd EXCEPT !.at = "done", !.ran = runs, !.ended = ended, !.answer = answer,
                             !.exit = IF good THEN 0 ELSE 1,
                             !.why = IF ~runs THEN "could not run" ELSE IF ended = "timeout" THEN "timed out"
                                     ELSE IF ended = "nonzero" THEN "failed"
                                     ELSE IF answer = "unusable" THEN "no answer" ELSE "reported"]
  /\ UNCHANGED <<installed, conversation>>

\* A plugin is replaced on the disk by one whose command leads elsewhere.
ReplacePlugin ==
  /\ cmd.at = "plugin"
  /\ \E p \in installed :
       /\ p.command = "inside"
       /\ installed' = (installed \ {p}) \cup {[p EXCEPT !.command = "outside"]}
  /\ UNCHANGED <<conversation, cmd>>

ExportsNext ==
  \/ Say \/ CompactTalk \/ ShrinkTalk \/ SaveSession \/ ClearTalk \/ Die
  \/ RunExport \/ FindPlugin \/ LoadArchiveRecords \/ WriteEvents \/ RunExporter \/ ReplacePlugin

----------------------------------------------------------------------------
Ended == cmd.at = "done"

\* However turns, compactions, searches, failed saves and appends, /clear and
\* crashes overlap with it, an export that was written has every message that
\* was saved before it, once and in order, and nothing else.  Excepted, by what
\* became of them: messages that leave the file for the archive between the two
\* reads are missed (moved), and so are those the archive did not take or a
\* process died with (dropped); those still in the file when it is read come
\* twice (doubled), and so do those of a session that was left with them in both
\* (again); and a search result comes before what was said before it (early).
HistoryIsWhole ==
  Ended /\ cmd.why = "written" =>
    /\ 1..cmd.before \subseteq Spoken(cmd.out) \cup cmd.moved \cup dropped
    /\ Spoken(cmd.out) \subseteq 1..said
    /\ \A i, j \in DOMAIN cmd.out :
         i < j /\ cmd.out[i] # Summary /\ cmd.out[j] # Summary =>
           cmd.out[i] < cmd.out[j] \/ cmd.out[j] \in again \cup cmd.doubled \/ cmd.out[i] \in early

\* Success is the plugin's own word for it, from a process that ended well.
PluginSucceeds ==
  Ended /\ cmd.exit = 0 => cmd.why \in {"nothing", "written", "gone"}
                           \/ (cmd.ended = "zero" /\ cmd.answer = "ok")

\* What runs is a plugin of the user's or of a trusted project, whose command is
\* still its own; and no project's plugin has the name of one of the user's.
PluginIsOwn ==
  /\ Ended /\ cmd.ran =>
       cmd.plugin.command = "inside" /\ (cmd.plugin.place = "project" => cmd.trusted)
  /\ \A p, q \in cmd.found : p.name = q.name => p = q
  /\ \A p \in cmd.found : p.place = "project" =>
       ~\E q \in installed : q.place = "home" /\ q.name = p.name /\ ManifestLoads(q)

\* An export that says it succeeded did, with a plugin that was allowed to run.
ExportsHold == HistoryIsWhole /\ PluginSucceeds /\ PluginIsOwn
=============================================================================
