-------------------------------- MODULE Edits --------------------------------
(***************************************************************************)
(* The tools that read and change one file of the project (internal/tools: *)
(* read_file, write_file, delete_file, edit_file, apply_diff): a call      *)
(* reads the file, works out its new text, and replaces it; between the    *)
(* two the user may save the file from an editor.                          *)
(*                                                                         *)
(* A text is a sequence of tokens: letters, "s" a space, "n" a newline,    *)
(* "--" and "++" a doubled sign.                                           *)
(***************************************************************************)
EXTENDS Integers, Sequences, FiniteSets, SequencesExt, FiniteSetsExt

CONSTANTS
  Texts,        \* texts the file may have when the tool is called
  Saves,        \* texts the user may save while the tool runs
  Calls,        \* calls the model may make, see Call
  MaxRewrite,   \* lines up to which an empty old_string rewrites the file (100)
  NoFile,       \* the file does not exist
  Failed        \* the call reports an error

VARIABLES
  file,       \* text of the file, or NoFile
  call,       \* the call being answered: [tool, path, ...]
  snapshot,   \* the file as the call read it
  pc,         \* "idle", "read", "write", "answered"
  answer      \* what the call reported: Failed, or the text it left or showed

editVars == <<file, call, snapshot, pc, answer>>

\* strings.Split and Join on a separator.
Split(t, sep) ==
  LET at == SetToSortSeq({i \in 1..Len(t) : t[i] = sep} \cup {Len(t) + 1}, <)
  IN [k \in 1..Len(at) |-> SubSeq(t, IF k = 1 THEN 1 ELSE at[k - 1] + 1, at[k] - 1)]
Lines(t) == Split(t, "n")
Text(lines) == FlattenSeq([k \in 1..Len(lines) |-> IF k = 1 THEN lines[k] ELSE <<"n">> \o lines[k]])

\* strings.Fields, and strings.TrimRight.
Fields(line) == SelectSeq(Split(line, "s"), LAMBDA w : w # <<>>)
TrimRight(line) == SubSeq(line, 1, Max({0} \cup {i \in 1..Len(line) : line[i] # "s"}))

Occurrences(t, old) == {i \in 1..(Len(t) - Len(old) + 1) : SubSeq(t, i, i + Len(old) - 1) = old}
Splice(s, i, n, new) == SubSeq(s, 1, i - 1) \o new \o SubSeq(s, i + n, Len(s))
ReplaceFirstText(t, old, new) == Splice(t, Min(Occurrences(t, old)), Len(old), new)

\* resolveWithinProject and ignore.IsIgnored: a path out of the project, or one
\* that a symbolic link leads out of it, is refused; so is an ignored one.
Reachable(path) == path = "file"
ReachableToRead(path) == path \in {"file", "link"}

\* fuzzyFind: the places where the lines of old are found, spacing aside.
Windows(t, old) ==
  LET c == Lines(t)  o == Lines(old)
  IN {i \in 1..(Len(c) - Len(o) + 1) : \A j \in 1..Len(o) : Fields(c[i + j - 1]) = Fields(o[j])}
FuzzyFind(t, old) ==
  LET i == CHOOSE i \in Windows(t, old) : TRUE
  IN Text(SubSeq(Lines(t), i, i + Len(Lines(old)) - 1))

EditFile(t, old, new) ==
  LET found == Occurrences(t, old) IN
  CASE old = new /\ old # <<>> -> Failed
    [] old = <<>> -> IF t = NoFile THEN new ELSE IF Len(Lines(t)) <= MaxRewrite THEN new ELSE Failed
    [] old # new /\ old # <<>> ->
         IF t = NoFile THEN Failed
         ELSE IF found # {}
         THEN IF \E i \in found : i >= Min(found) + Len(old)
              THEN Failed ELSE ReplaceFirstText(t, old, new)
         ELSE IF Cardinality(Windows(t, old)) # 1 THEN Failed
              ELSE ReplaceFirstText(t, FuzzyFind(t, old), new)

\* parseUnifiedDiff: a line that starts like a file header is no part of a hunk,
\* one with none of the three signs ("\\ No newline at end of file") is taken for
\* context, and so is the empty piece that Split gives after a final newline.
FileHeader(l) == l.text # <<>> /\ <<l.op, l.text[1]>> \in {<<"-", "--">>, <<"+", "++">>}
Context(text) == [op |-> " ", text |-> text]
DiffLine(l) == IF l.op \in {"+", "-", " "} THEN l ELSE Context(<<l.op>> \o l.text)
ParseUnifiedDiff(hunks, newline) ==
  LET body(h) == SelectSeq(h.lines, LAMBDA l : ~FileHeader(l))
      rest(k) == IF newline /\ k = Len(hunks) THEN <<Context(<<>>)>> ELSE <<>>
  IN [k \in 1..Len(hunks) |->
       [hunks[k] EXCEPT !.lines = [j \in DOMAIN body(hunks[k]) |-> DiffLine(body(hunks[k])[j])] \o rest(k)]]
\* parseHunkHeader.
ParseHunkHeader(h) == h.start # -1

\* applyHunk: its context and removed lines, from its position on, must be those
\* of the file, but for the spaces at their ends.
OldSide(h) == SelectSeq(h.lines, LAMBDA l : l.op # "+")
Position(h) == Max({h.start - 1, 0})
Matches(lines, h) ==
  LET old == OldSide(h) IN
  /\ Position(h) + Len(old) <= Len(lines)
  /\ \A j \in 1..Len(old) : TrimRight(lines[Position(h) + j]) = TrimRight(old[j].text)
NewLines(lines, h) ==
  LET at(k) == Position(h) + Cardinality({j \in 1..k : h.lines[j].op # "+"})
  IN FlattenSeq([k \in 1..Len(h.lines) |->
       CASE h.lines[k].op = "+" -> <<h.lines[k].text>>
         [] h.lines[k].op = " " -> <<lines[at(k)]>>
         [] h.lines[k].op = "-" -> <<>>])
ApplyHunk(lines, h) ==
  IF Matches(lines, h) THEN Splice(lines, Position(h) + 1, Len(OldSide(h)), NewLines(lines, h))
  ELSE Failed

\* From the top, where each hunk moves the lines of those below it.
ApplyHunks_TopDown(lines, hunks) ==
  FoldLeft(LAMBDA ls, h : IF ls = Failed THEN Failed ELSE ApplyHunk(ls, h), lines, hunks)

\* applyHunks: the last one first, so that the numbers of the others still hold.
ApplyHunks(lines, hunks) ==
  FoldRight(LAMBDA h, ls : IF ls = Failed THEN Failed ELSE ApplyHunk(ls, h), hunks, lines)

ApplyDiff(t, hunks, newline) ==
  IF t = NoFile \/ hunks = <<>> \/ \E k \in 1..Len(hunks) : ~ParseHunkHeader(hunks[k])
  THEN Failed
  ELSE LET ls == ApplyHunks(Lines(t), ParseUnifiedDiff(hunks, newline))
       IN IF ls = Failed THEN Failed ELSE Text(ls)

\* executeReadFile: the lines of the range, each with its number.
ReadFile(t, first, last) ==
  IF t = NoFile THEN Failed
  ELSE LET n == Len(Lines(t))  end == Min({last, n})
       IN IF first < 1 \/ first > n \/ last < 1 \/ first > end THEN Failed
          ELSE [k \in 1..(end - first + 1) |-> <<first + k - 1, Lines(t)[first + k - 1]>>]

-----------------------------------------------------------------------------
EditInit == file = NoFile /\ call = Failed /\ snapshot = NoFile /\ pc = "idle" /\ answer = Failed

\* The model calls a tool on a file the user has left there; a path that is
\* outside or ignored is answered with an error before anything is read.
CallTool ==
  /\ pc = "idle"
  /\ call' \in Calls /\ file' \in Texts \cup {NoFile}
  /\ pc' = IF IF call'.tool = "read_file" THEN ReachableToRead(call'.path) ELSE Reachable(call'.path)
           THEN "read" ELSE "answered"
  /\ UNCHANGED <<snapshot, answer>>

ReadTheFile ==
  /\ pc = "read"
  /\ snapshot' = file /\ pc' = "write"
  /\ UNCHANGED <<file, call, answer>>

\* A save between the read and the write: the write replaces it.
UserSaves ==
  /\ pc = "write" /\ file = snapshot
  /\ file' \in Saves
  /\ UNCHANGED <<call, snapshot, pc, answer>>

Written(c, t) ==
  CASE c.tool = "edit_file" -> EditFile(t, c.old, c.new)
    [] c.tool = "apply_diff" -> ApplyDiff(t, c.hunks, c.newline)
    [] c.tool = "write_file" -> c.new

\* fsutil.WriteFileAtomic replaces the whole file, or an error leaves it alone.
WriteTheFile ==
  /\ pc = "write" /\ call.tool \in {"edit_file", "apply_diff", "write_file"}
  /\ answer' \in {Written(call, snapshot), Failed}
  /\ file' = IF answer' = Failed THEN file ELSE answer'
  /\ pc' = "answered"
  /\ UNCHANGED <<call, snapshot>>

ShowTheFile ==
  /\ pc = "write" /\ call.tool = "read_file"
  /\ answer' = ReadFile(snapshot, call.first, call.last)
  /\ pc' = "answered"
  /\ UNCHANGED <<file, call, snapshot>>

DeleteTheFile ==
  /\ pc = "write" /\ call.tool = "delete_file"
  /\ IF file = NoFile THEN answer' = Failed /\ UNCHANGED file
     ELSE answer' = <<>> /\ file' = NoFile
  /\ pc' = "answered"
  /\ UNCHANGED <<call, snapshot>>

EditNext ==
  CallTool \/ ReadTheFile \/ UserSaves \/ WriteTheFile \/ ShowTheFile \/ DeleteTheFile

-----------------------------------------------------------------------------
\* An edit is the edit of one place: the place where old_string is, letter for
\* letter or line for line.  Of a match line for line, the text is looked for
\* again, and an earlier line that contains it is edited in its stead.
Shadowed(t, match) ==
  \E i \in Occurrences(t, match) :
    \/ i # 1 /\ t[i - 1] # "n"
    \/ i + Len(match) <= Len(t) /\ t[i + Len(match)] # "n"
EditedInPlace(t, old, new) ==
  IF Occurrences(t, old) # {}
  THEN \E i \in Occurrences(t, old) :
         /\ answer = Splice(t, i, Len(old), new)
         /\ \A j \in Occurrences(t, old) : j < i + Len(old) /\ i < j + Len(old)
  ELSE /\ Cardinality(Windows(t, old)) = 1
       /\ Shadowed(t, FuzzyFind(t, old)) \/
          \E i \in Windows(t, old) :
            answer = Text(Splice(Lines(t), i, Len(Lines(old)), Lines(new)))

\* What a unified diff says: the hunks, in the order of the file, each take the
\* place of their old side, and everything between them is kept.
Described(lines, hunks) ==
  LET step(acc, h) ==
        [out |-> acc.out \o SubSeq(lines, acc.next, Position(h)) \o NewLines(lines, h),
         next |-> Position(h) + Len(OldSide(h)) + 1]
      all == FoldLeft(step, [out |-> <<>>, next |-> 1], hunks)
  IN all.out \o SubSeq(lines, all.next, Len(lines))

\* A diff of hunks that do not overlap, each with an old side: lines that are
\* only added go in above the line they should follow.  A removed "--" or an
\* added "++" at the start of a line is taken for a header of the file, and a
\* line with no sign for one of the file.
Standard(hunks) ==
  /\ \A k \in 1..Len(hunks) :
       /\ hunks[k].start >= 1 /\ OldSide(hunks[k]) # <<>>
       /\ \A j \in 1..Len(hunks[k].lines) :
            hunks[k].lines[j].op \in {"+", "-", " "} /\ ~FileHeader(hunks[k].lines[j])
  /\ \A k \in 1..(Len(hunks) - 1) :
       Position(hunks[k]) + Len(OldSide(hunks[k])) <= Position(hunks[k + 1])

\* A diff with a newline at its end is refused ("context mismatch") unless a
\* blank line follows what its last hunk replaces.
BlankFollows(lines, hunks) ==
  LET after == Position(Last(hunks)) + Len(OldSide(Last(hunks))) + 1
  IN after <= Len(lines) /\ TrimRight(lines[after]) = <<>>

\* A tool that reports success has made exactly the change it was asked for, on
\* the text it read: edit_file in the one place that old_string names, apply_diff
\* at the line numbers of the file, which are the numbers read_file shows; and a
\* diff whose old sides are in the file at its numbers can be applied, but for
\* one that ends in a newline where no blank line follows its last hunk.
EditsAreExact ==
  pc = "answered" /\ snapshot # NoFile =>
    CASE call.tool = "edit_file" /\ call.old # <<>> /\ answer # Failed ->
           EditedInPlace(snapshot, call.old, call.new)
      [] call.tool = "apply_diff" /\ Standard(call.hunks) ->
           LET old == Lines(snapshot)
               applies == \A k \in 1..Len(call.hunks) : Matches(old, call.hunks[k])
               taken == applies /\ (call.newline => BlankFollows(old, call.hunks))
           IN /\ answer # Failed => applies /\ answer = Text(Described(old, call.hunks))
              /\ (ApplyDiff(snapshot, call.hunks, call.newline) = Failed) = ~taken
      [] call.tool = "read_file" /\ answer # Failed ->
           \A k \in 1..Len(answer) :
             ApplyDiff(snapshot, <<[start |-> answer[k][1], lines |-> <<Context(answer[k][2])>>]>>, FALSE)
               = snapshot
      [] OTHER -> TRUE
=============================================================================
