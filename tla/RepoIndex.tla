------------------------------ MODULE RepoIndex ------------------------------
(***************************************************************************)
(* The index of the project's symbols (internal/index), the chunks cut     *)
(* from its files along them (internal/rag/source.go), and the rules that  *)
(* keep files out (internal/ignore).  The index is built once; after every *)
(* turn an update runs beside the chat, and nothing keeps two of them      *)
(* apart.  The user saves, removes and ignores files all the while.        *)
(*                                                                         *)
(* A file is a sequence of lines: "sym" where a symbol begins, or "text".  *)
(***************************************************************************)
EXTENDS Integers, Sequences, FiniteSets, FiniteSetsExt

CONSTANTS
  RepoFiles,   \* source files of the project
  FileTexts,   \* what the user may save in them
  RuleLists,   \* contents of .baryoignore: sequences of [matches, negate, dirOnly]
  BuiltinRules, \* files that match a built-in pattern
  Updaters,    \* updates that may run at a time
  MaxChanges,  \* bound: saves, removals and edits of .baryoignore
  MaxSymbol,   \* lines that a chunk keeps of a symbol (2 * maxSourceChunk)
  NoFile       \* a file, an entry or a .baryoignore that is not there

\* What is not there is neither a file nor an entry, and a file is its lines.
ASSUME RepoIndexAssumption ==
  /\ NoFile \notin [text : FileTexts, mtime : Int] /\ NoFile \notin [rules : RuleLists, mtime : Int]
  /\ FileTexts \subseteq Seq({"sym", "text"})
  /\ MaxSymbol \in Nat \ {0}

VARIABLES
  disk,      \* RepoFiles -> [text, mtime], or NoFile
  ignoreFile, \* .baryoignore: [rules, mtime], or NoFile
  cached,    \* cachedRules and cachedMtime: [rules, mtime]
  index,     \* RepoFiles -> [text, mtime] it was parsed from, or NoFile
  ready,     \* Index.ready
  up,        \* Updaters -> [pc, todo, file, text]; "build" builds the index
  src,       \* the source build: [pc, todo, file, text, chunks]
  changes,   \* changes so far; also the clock of the modification times
  upToDate,  \* updates begun after the last change, with no older one beside them
  settled,   \* one of them has ended, and nothing changed since
  raced,     \* files saved between an update's read and its stat
  skipped,   \* files that the last worker to take them could not read or parse
  moved      \* files saved or removed since the program started

indexVars == <<disk, ignoreFile, cached, index, ready, up, src, changes,
               upToDate, settled, raced, skipped, moved>>

Idle == [pc |-> "idle", todo |-> {}, file |-> NoFile, text |-> <<>>]
Workers == Updaters \cup {"build"}

\* matchRules: the last rule that matches decides; one for directories never
\* matches a file.
MatchRules(rules, f) ==
  LET hits == {i \in 1..Len(rules) : f \in rules[i].matches /\ ~rules[i].dirOnly}
  IN hits # {} /\ ~rules[Max(hits)].negate

\* loadRules: none without the file; parsed again when its time has changed.
LoadRules ==
  IF ignoreFile = NoFile THEN <<>>
  ELSE IF cached.mtime = ignoreFile.mtime THEN cached.rules ELSE ignoreFile.rules
LoadCache == IF ignoreFile = NoFile THEN cached ELSE [rules |-> LoadRules, mtime |-> ignoreFile.mtime]

\* Filter, DiscoverFiles: the files that are there, not empty and not excluded.
Filter(rules) == {f \in RepoFiles : f \in BuiltinRules \/ MatchRules(rules, f)}
DiscoverFiles(rules) == {f \in RepoFiles : disk[f] # NoFile /\ disk[f].text # <<>>} \ Filter(rules)

IndexInit ==
  /\ disk \in [RepoFiles -> {[text |-> t, mtime |-> 0] : t \in FileTexts}]
  /\ ignoreFile = NoFile /\ cached = [rules |-> <<>>, mtime |-> -1]
  /\ index = [f \in RepoFiles |-> NoFile] /\ ready = FALSE
  /\ up = [u \in Workers |-> Idle]
  /\ src = [pc |-> "waiting", todo |-> {}, file |-> NoFile, text |-> <<>>, chunks |-> {}]
  /\ changes = 0 /\ upToDate = {} /\ settled = FALSE /\ raced = {} /\ skipped = {} /\ moved = {}

-----------------------------------------------------------------------------
Changed == changes < MaxChanges /\ changes' = changes + 1 /\ upToDate' = {} /\ settled' = FALSE
Racing(f) == \E u \in Workers : up[u].pc = "stat" /\ up[u].file = f

Save(f) ==
  /\ Changed
  /\ \E t \in FileTexts : disk' = [disk EXCEPT ![f] = [text |-> t, mtime |-> changes + 1]]
  /\ raced' = IF Racing(f) THEN raced \cup {f} ELSE raced \ {f}
  /\ skipped' = skipped \ {f} /\ moved' = moved \cup {f}
  /\ UNCHANGED <<ignoreFile, cached, index, ready, up, src>>

Delete(f) ==
  /\ Changed
  /\ disk[f] # NoFile /\ disk' = [disk EXCEPT ![f] = NoFile]
  /\ raced' = raced \ {f} /\ skipped' = skipped \ {f} /\ moved' = moved \cup {f}
  /\ UNCHANGED <<ignoreFile, cached, index, ready, up, src>>

EditIgnore ==
  /\ Changed
  /\ ignoreFile' \in {NoFile} \cup {[rules |-> r, mtime |-> changes + 1] : r \in RuleLists}
  /\ UNCHANGED <<disk, cached, index, ready, up, src, raced, skipped, moved>>

\* The first half of Build, when the program starts, and of Update, after a
\* turn: what is no longer there leaves the index.
BeginUpdate(u) ==
  /\ up[u].pc = "idle" /\ (u = "build") = ~ready
  /\ up' = [up EXCEPT ![u] = [Idle EXCEPT !.pc = "files", !.todo = DiscoverFiles(LoadRules)]]
  /\ cached' = LoadCache
  /\ index' = [f \in RepoFiles |-> IF f \in DiscoverFiles(LoadRules) THEN index[f] ELSE NoFile]
  /\ upToDate' = IF \A v \in Workers \ upToDate : up[v].pc = "idle" THEN upToDate \cup {u} ELSE upToDate
  /\ UNCHANGED <<disk, ignoreFile, ready, src, changes, settled, raced, skipped, moved>>

\* A file that has an entry is not looked at again.
Next1_IgnoresTime(u, f) ==
  /\ up[u].pc = "files" /\ f \in up[u].todo
  /\ LET rest == [up[u] EXCEPT !.todo = @ \ {f}]
     IN up' = [up EXCEPT ![u] = IF disk[f] = NoFile \/ index[f] # NoFile THEN rest
                                ELSE [rest EXCEPT !.pc = "read", !.file = f]]
  /\ UNCHANGED <<disk, ignoreFile, cached, index, ready, src, changes, upToDate, settled, raced, skipped, moved>>

\* The next file, unless its time is that of its entry.  Build has no entries
\* yet: it publishes those it collects at its end, and no one reads them before.
Next1(u, f) ==
  /\ up[u].pc = "files" /\ f \in up[u].todo
  /\ LET same == index[f] # NoFile /\ disk[f] # NoFile /\ index[f].mtime = disk[f].mtime
         rest == [up[u] EXCEPT !.todo = @ \ {f}]
     IN up' = [up EXCEPT ![u] = IF disk[f] = NoFile \/ same THEN rest
                                ELSE [rest EXCEPT !.pc = "read", !.file = f]]
  /\ UNCHANGED <<disk, ignoreFile, cached, index, ready, src, changes, upToDate, settled, raced, skipped, moved>>

\* parseOne reads the file, ParseFile takes its time only after parsing.  When
\* either fails the entry stays what it was.
ReadOne(u) ==
  /\ up[u].pc = "read"
  /\ \/ /\ disk[up[u].file] # NoFile
        /\ up' = [up EXCEPT ![u].pc = "stat", ![u].text = disk[up[u].file].text]
        /\ UNCHANGED skipped
     \/ /\ up' = [up EXCEPT ![u].pc = "files"]
        /\ skipped' = skipped \cup {up[u].file}
  /\ UNCHANGED <<disk, ignoreFile, cached, index, ready, src, changes, upToDate, settled, raced, moved>>

StatAndStore(u) ==
  /\ up[u].pc = "stat"
  /\ LET f == up[u].file
         time == IF disk[f] = NoFile THEN -1 ELSE disk[f].mtime
     IN index' = [index EXCEPT ![f] = [text |-> up[u].text, mtime |-> time]]
  /\ up' = [up EXCEPT ![u].pc = "files", ![u].file = NoFile, ![u].text = <<>>]
  /\ skipped' = skipped \ {up[u].file}
  /\ UNCHANGED <<disk, ignoreFile, cached, ready, src, changes, upToDate, settled, raced, moved>>

Finish(u) ==
  /\ up[u].pc = "files" /\ up[u].todo = {}
  /\ up' = [up EXCEPT ![u] = Idle]
  /\ ready' = TRUE
  /\ settled' = IF u \in upToDate /\ \A v \in Workers \ upToDate : up[v].pc = "idle"
                THEN TRUE ELSE settled
  /\ upToDate' = upToDate \ {u}
  /\ UNCHANGED <<disk, ignoreFile, cached, index, src, changes, raced, skipped, moved>>

-----------------------------------------------------------------------------
\* Index.FileSymbolsFor: the lines where the symbols of a file begin.
SymbolLines(text) == {i \in 1..Len(text) : text[i] = "sym"}
SymbolsFor(f) == IF index[f] = NoFile THEN {} ELSE SymbolLines(index[f].text)

\* SourceStore.chunkBySymbols: from each symbol to the next, cut off when that
\* is too long; lines[start:end] panics when the symbol is beyond the end of the
\* text.
EndOf(syms, s, text) == Min({Len(text)} \cup {t - 1 : t \in {u \in syms : u > s}})
OutOfRange(syms, text) == \E s \in syms : s - 1 > EndOf(syms, s, text)
CutOff(syms, s, text) == Min({EndOf(syms, s, text), s + MaxSymbol - 1})
ChunkBySymbols(f, syms, text) ==
  {<<f, s, CutOff(syms, s, text)>> : s \in {t \in syms : t <= EndOf(syms, t, text)}}

\* SourceStore.Build, once, after the index and the other stores are built.
StartSources ==
  /\ ready /\ src.pc = "waiting"
  /\ src' = [src EXCEPT !.pc = "files", !.todo = DiscoverFiles(LoadRules)]
  /\ cached' = LoadCache
  /\ UNCHANGED <<disk, ignoreFile, index, ready, up, changes, upToDate, settled, raced, skipped, moved>>

\* A file that cannot be read is left out.
ReadSource(f) ==
  /\ src.pc = "files" /\ f \in src.todo
  /\ \/ src' = [src EXCEPT !.todo = @ \ {f}]
     \/ /\ disk[f] # NoFile
        /\ src' = [src EXCEPT !.todo = @ \ {f}, !.pc = "chunk", !.file = f, !.text = disk[f].text]
  /\ UNCHANGED <<disk, ignoreFile, cached, index, ready, up, changes, upToDate, settled, raced, skipped, moved>>

\* Without symbols the file is cut by lines, see Retrieval.
ChunkSource ==
  /\ src.pc = "chunk"
  /\ LET syms == SymbolsFor(src.file) IN
     src' = IF OutOfRange(syms, src.text) THEN [src EXCEPT !.pc = "panicked"]
            ELSE [src EXCEPT !.pc = "files",
                             !.chunks = @ \cup (IF syms = {} THEN {<<src.file, 1, Len(src.text)>>}
                                                ELSE ChunkBySymbols(src.file, syms, src.text))]
  /\ UNCHANGED <<disk, ignoreFile, cached, index, ready, up, changes, upToDate, settled, raced, skipped, moved>>

IndexNext ==
  \/ \E f \in RepoFiles : Save(f) \/ Delete(f) \/ ReadSource(f)
  \/ EditIgnore \/ StartSources \/ ChunkSource
  \/ \E u \in Workers : \/ BeginUpdate(u) \/ ReadOne(u) \/ StatAndStore(u) \/ Finish(u)
                        \/ \E f \in RepoFiles : Next1(u, f)

-----------------------------------------------------------------------------
\* However updates, saves and edits of .baryoignore overlap: when an update that
\* began after the last of them has ended, the index has the symbols of every
\* file as it is, and nothing of a file that is gone or ignored.  Excepted are a
\* file saved between the read and the stat of an update, whose new time is
\* recorded with its old symbols so that no later update looks at it, and a file
\* that could not be read or parsed, which keeps its old entry.
IndexCatchesUp ==
  settled =>
    \A f \in RepoFiles \ (raced \cup skipped) :
      LET rules == IF ignoreFile = NoFile THEN <<>> ELSE ignoreFile.rules
      IN IF f \in DiscoverFiles(rules) THEN index[f] # NoFile /\ index[f].text = disk[f].text
         ELSE index[f] = NoFile

\* The source build leaves the bounds of a file only when the file was saved
\* while the program ran.  As long as no one touches a file, it is cut by lines
\* (when no symbol of it is known), or every line from its first symbol on is in
\* exactly one chunk: but those too far below their symbol, which are in none.
TooFar(syms, line) == line >= Max({s \in syms : s <= line}) + MaxSymbol
ChunksWith(chunks, line) == {d \in chunks : d[2] <= line /\ line <= d[3]}

SourcesFollowIndex ==
  /\ src.pc = "panicked" => src.file \in moved
  /\ changes = 0 => \A c \in src.chunks :
       LET text == disk[c[1]].text
           mine == {d \in src.chunks : d[1] = c[1]}
       IN \/ mine = {<<c[1], 1, Len(text)>>}
          \/ \A line \in Min(SymbolLines(text))..Len(text) :
               Cardinality(ChunksWith(mine, line)) = IF TooFar(SymbolLines(text), line) THEN 0 ELSE 1

IndexIsCurrent == IndexCatchesUp /\ SourcesFollowIndex
=============================================================================
