------------------------------ MODULE Mentions ------------------------------
(***************************************************************************)
(* Completion of file names after an @ in the chat's input: the preview    *)
(* that follows each key, the search for files that runs beside it, and    *)
(* what enter puts into the text (internal/tui/mention.go).                *)
(*                                                                         *)
(* The text is a sequence of characters and the cursor the number of them  *)
(* in front of it; positions are counted from 1, and 0 is none.  Files do  *)
(* not change; quoted paths are left out.                                  *)
(***************************************************************************)
EXTENDS Integers, Sequences, FiniteSets, SequencesExt

CONSTANTS
  Names,     \* of files, and of directories, which end in "/"
  Recalled,  \* what the history of the input has
  MaxText, MaxGlobs,  \* bounds
  NoName, Panic

ASSUME MentionsAssumption ==
  /\ IsFiniteSet(Names) /\ Names \subseteq Seq(STRING) \ {<<>>} /\ Recalled \subseteq Seq(STRING)
  /\ NoName \notin Names /\ Panic \notin Names /\ NoName /= Panic

VARIABLES
  text, cursor,
  mention,  \* the list that is shown
  globs,    \* the searches under way
  keyed,    \* ghost: the text is as a key left it that the preview has seen
  chosen,   \* ghost: what the last key chose
  strayed   \* ghost: the list is of another @ than the cursor's

AtSign == "@"
Space == " "
Slash == "/"
Stops == {".", ","}

mentionVars == <<text, cursor, mention, globs, keyed, chosen, strayed>>

NoMention == [active |-> FALSE, prefix |-> <<>>, index |-> 1, start |-> 0, pending |-> <<>>]

MentionsInit ==
  text = <<>> /\ cursor = 0 /\ mention = NoMention /\ globs = <<>>
  /\ keyed = TRUE /\ chosen = NoName /\ strayed = FALSE

Begins(t) == {k \in DOMAIN t : t[k] = AtSign /\ (k = 1 \/ t[k - 1] = Space)}

\* The @ of the word in front of the cursor.
findMentionAtCursor(t, c) ==
  LET marks == {k \in 1..c : t[k] \in {AtSign, Space}}
      last == Max(marks \cup {0})
  IN  IF last \in Begins(t) THEN last ELSE 0

Partial(t, c) == SubSeq(t, findMentionAtCursor(t, c) + 1, c)

\* In one directory, or in all of them if none is named.
globCompletions(partial) ==
  LET in(n, k) == IsPrefix(partial, SubSeq(n, k, Len(n)))
      deep(n) == {k \in 2..Len(n) : n[k - 1] = Slash}
  IN  SetToSeq({n \in Names :
        \/ in(n, 1) /\ \A k \in Len(partial) + 1..Len(n) - 1 : n[k] # Slash
        \/ partial # <<>> /\ ~Contains(partial, Slash) /\ \E k \in deep(n) : in(n, k)})

\* updateMentionPreview, after a key that the text area has handled.
Preview ==
  LET start == findMentionAtCursor(text', cursor')
      partial == Partial(text', cursor')
      same == mention.active /\ mention.prefix = partial
  IN  IF start = 0
      THEN mention' = NoMention /\ strayed' = FALSE /\ UNCHANGED globs
      ELSE IF same \/ mention.pending = partial
      THEN strayed' = (mention.active /\ start # mention.start) /\ UNCHANGED <<mention, globs>>
      ELSE /\ mention' = [mention EXCEPT !.pending = partial]
           /\ globs' = Append(globs, [prefix |-> partial, start |-> start])
           /\ strayed' = (mention.active /\ start # mention.start)
           /\ Len(globs) < MaxGlobs

\* A key, or a blink of the cursor, which leaves all as it is.  The letters of a
\* directory that was chosen stay (a bound).
Key ==
  /\ chosen # Panic /\ chosen' = NoName /\ keyed' = TRUE
  /\ Len(text) <= MaxText
  /\ \/ /\ Len(text) < MaxText /\ cursor' = cursor + 1
        /\ \E c \in {AtSign, "a", Space} : text' = InsertAt(text, cursor + 1, c)
     \/ cursor > 0 /\ ~Contains(text, Slash) /\ text' = RemoveAt(text, cursor) /\ cursor' = cursor - 1
     \/ cursor' \in 0..Len(text) /\ ~Contains(text, Slash) /\ UNCHANGED text
  /\ Preview

\* ctrl+p and ctrl+n, which return before the preview.
Recall ==
  /\ chosen # Panic /\ chosen' = NoName /\ keyed' = FALSE
  /\ \E t \in Recalled : text' = t /\ cursor' = Len(t)
  /\ strayed' = (mention.active /\ findMentionAtCursor(text', cursor') # mention.start)
  /\ UNCHANGED <<mention, globs>>

Listed == mention.active /\ chosen # Panic

Tab ==
  /\ Listed
  /\ LET n == Len(globCompletions(mention.prefix)) IN
       \E step \in {1, n - 1} : mention' = [mention EXCEPT !.index = ((@ - 1 + step) % n) + 1]
  /\ chosen' = NoName /\ UNCHANGED <<text, cursor, globs, keyed, strayed>>

\* enter on a list.  The cursor ends up behind the whole text.
Select ==
  /\ Listed /\ Len(text) <= MaxText
  /\ LET name == globCompletions(mention.prefix)[mention.index] IN
       IF mention.start - 1 > Len(text)
       THEN chosen' = Panic /\ UNCHANGED <<text, cursor, strayed>>
       ELSE /\ text' = SubSeq(text, 1, mention.start - 1) \o <<AtSign>> \o name
                       \o (IF Last(name) = Slash THEN <<>> ELSE <<Space>>)
                       \o SubSeq(text, cursor + 1, Len(text))
            /\ cursor' = Len(text')
            /\ chosen' = (IF strayed THEN NoName ELSE name) /\ strayed' = FALSE
  /\ mention' = NoMention /\ keyed' = FALSE /\ UNCHANGED globs

\* enter with no list.
Send ==
  /\ chosen # Panic /\ ~mention.active /\ \E k \in DOMAIN text : text[k] # Space
  /\ text' = <<>> /\ cursor' = 0 /\ chosen' = NoName /\ keyed' = TRUE
  /\ UNCHANGED <<mention, globs, strayed>>

handleMentionCandidates_KeepsPending(g) ==
  LET start == findMentionAtCursor(text, cursor)
  IN  IF start = 0 \/ Partial(text, cursor) # g.prefix
      THEN UNCHANGED <<mention, strayed>>
      ELSE IF globCompletions(g.prefix) = <<>>
      THEN mention' = NoMention /\ strayed' = FALSE
      ELSE /\ mention' = [active |-> TRUE, prefix |-> g.prefix, index |-> 1, start |-> g.start,
                          pending |-> <<>>]
           /\ strayed' = (g.start # start)

\* A result is taken if the cursor's word has the same letters after its @.
handleMentionCandidates(g) ==
  LET start == findMentionAtCursor(text, cursor)
  IN  IF start = 0 \/ Partial(text, cursor) # g.prefix
      THEN mention' = [mention EXCEPT !.pending = <<>>] /\ UNCHANGED strayed
      ELSE IF globCompletions(g.prefix) = <<>>
      THEN mention' = NoMention /\ strayed' = FALSE
      ELSE /\ mention' = [active |-> TRUE, prefix |-> g.prefix, index |-> 1, start |-> g.start,
                          pending |-> <<>>]
           /\ strayed' = (g.start # start)

\* The searches end in any order.
MentionCandidates ==
  /\ chosen # Panic
  /\ \E k \in DOMAIN globs :
       handleMentionCandidates(globs[k]) /\ globs' = RemoveAt(globs, k)
  /\ chosen' = NoName /\ UNCHANGED <<text, cursor, keyed>>

MentionsNext == Key \/ Recall \/ Tab \/ Select \/ Send \/ MentionCandidates

-----------------------------------------------------------------------------
\* The paths that are attached when the text is sent.
extractMentions(t) ==
  LET field(k) == SubSeq(t, k + 1, Min({j \in k..Len(t) + 1 : j = Len(t) + 1 \/ t[j] = Space}) - 1)
      trim(s) == SubSeq(s, 1, Max({0} \cup {j \in DOMAIN s : s[j] \notin Stops}))
  IN  {trim(field(k)) : k \in Begins(t)} \ {<<>>}

\* "As you type after @, matching files appear" (README.md:840): a word that
\* begins with @ and goes on has the list of its files, or a search for them is
\* under way, until a choice or the history replaces the text.
ListComes ==
  LET partial == Partial(text, cursor) IN
    keyed /\ findMentionAtCursor(text, cursor) > 0 /\ partial # <<>> /\ globCompletions(partial) # <<>> =>
      \/ mention.active /\ mention.prefix = partial
      \/ \E k \in DOMAIN globs : globs[k].prefix = partial

\* A file that enter puts into the text is attached when the text is sent,
\* unless its name cannot be written without quotes, and enter finds its place:
\* both but for a list that is of another word than the cursor's.
ChoiceIsAttached ==
  /\ chosen \in Names /\ Last(chosen) \notin {Slash} \cup Stops /\ ~Contains(chosen, Space)
       => chosen \in extractMentions(text)
  /\ chosen = Panic => strayed

MentionIsOwn == ListComes /\ ChoiceIsAttached
=============================================================================
