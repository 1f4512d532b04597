------------------------------ MODULE TextCalls ------------------------------
(***************************************************************************)
(* Tool calls a model writes as text (internal/llm/textparse.go): a reply  *)
(* without a native call is searched with four patterns, one after the     *)
(* other, the calls found are run and their text is taken out.             *)
(*                                                                         *)
(* A reply is a sequence of pieces [form, name, args, inner, wrapped]:     *)
(* form "prose" or the pattern the piece is written for; args is what its  *)
(* arguments are; inner is a name whose call "name({})" the arguments only *)
(* mention; wrapped says that a tag of another name is around the piece.   *)
(***************************************************************************)
EXTENDS Integers, Sequences, FiniteSets, SequencesExt

CONSTANTS
  Pieces,       \* pieces a reply is made of
  MaxPieces,    \* bound: pieces of a reply
  ValidNames,   \* buildValidToolNames: the tools offered in the request
  Suffixed,     \* names with "_call" or "_tool" behind them -> the name before
  NoName

VARIABLES reply, found   \* the reply, and [calls, rest] once it was searched, or NoName

textVars == <<reply, found>>

NormalizeToolName(n) == IF n \in DOMAIN Suffixed THEN Suffixed[n] ELSE n

\* sanitizeJSONStrings: raw line breaks inside strings are mended.
Mended(args) == IF args = "newline" THEN "object" ELSE args

\* parseFlexibleArgs: nothing, an object, or what becomes one in braces.
ParseFlexibleArgs(args) == IF args \in {"none", "object", "pairs"} THEN "object" ELSE "broken"

\* What each pattern finds in one piece that no earlier pattern has taken.
XmlCall(p) ==
  IF p.form = "xml" /\ p.name \in ValidNames /\ Mended(p.args) \in {"object", "none"}
  THEN p.name ELSE NoName
TagCall(p) ==
  IF /\ p.form = "tag" /\ ~p.wrapped /\ NormalizeToolName(p.name) \in ValidNames
     /\ ParseFlexibleArgs(p.args) = "object"
  THEN NormalizeToolName(p.name) ELSE NoName
\* The first "})" ends the match, also one inside the arguments.
FuncCall(p) ==
  CASE p.form = "func" -> IF p.name \in ValidNames /\ p.args = "object" /\ p.inner = NoName
                          THEN p.name ELSE NoName
    [] p.form # "func" -> IF p.inner \in ValidNames THEN p.inner ELSE NoName
\* In this pattern and the one before "." is no line break.
BareCall(p) ==
  IF p.form = "bare" /\ p.name \in ValidNames /\ p.args = "object" THEN p.name ELSE NoName

Pattern(k, p) ==
  CASE k = 1 -> XmlCall(p) [] k = 2 -> TagCall(p) [] k = 3 -> FuncCall(p) [] k = 4 -> BareCall(p)

\* parseTextToolCalls: the patterns in their order, each over the whole reply.
Scan(k, calls) ==
  LET taken == {calls[j].at : j \in 1..Len(calls)}
      hits == SelectSeq([i \in 1..Len(reply) |-> i],
                        LAMBDA i : i \notin taken /\ Pattern(k, reply[i]) # NoName)
  IN calls \o [j \in 1..Len(hits) |-> [at |-> hits[j], name |-> Pattern(k, reply[hits[j]]), by |-> k]]
ParseTextToolCalls == Scan(4, Scan(3, Scan(2, Scan(1, <<>>))))

\* stripToolCallText: each call takes out the first text that reads like it.
Strip(text, c) ==
  IF c.by = 3 /\ reply[c.at].form # "func"
  THEN [text EXCEPT ![CHOOSE i \in 1..Len(text) : text[i] = reply[c.at]].inner = NoName]
  ELSE LET i == CHOOSE i \in 1..Len(text) :
                  text[i] = reply[c.at] /\ \A j \in 1..(i - 1) : text[j] # reply[c.at]
       IN RemoveAt(text, i)
StripToolCallText(calls) == FoldLeft(Strip, reply, calls)

-----------------------------------------------------------------------------
TextInit == reply = <<>> /\ found = NoName

Answer ==
  /\ found = NoName /\ Len(reply) < MaxPieces
  /\ \E p \in Pieces : reply' = Append(reply, p)
  /\ UNCHANGED found

Search ==
  /\ found = NoName /\ reply # <<>>
  /\ found' = [calls |-> ParseTextToolCalls, rest |-> StripToolCallText(ParseTextToolCalls)]
  /\ UNCHANGED reply

TextNext == Answer \/ Search

-----------------------------------------------------------------------------
\* A call as the model means it, in whichever form it wrote it.
Meant(p) ==
  /\ p.form # "prose" /\ NormalizeToolName(p.name) \in ValidNames
  /\ p.args \in {"object", "newline", "none", "pairs"}

\* Forms that are known not to be read as they are meant: arguments that one
\* pattern mends and another does not, a tag inside another tag, a suffixed name
\* outside a tag, and a mention of a call in arguments that no earlier pattern took.
Unclear(p) ==
  \/ p.args = "newline" /\ p.form # "xml"
  \/ p.args = "pairs" /\ p.form # "tag"
  \/ p.args = "none" /\ p.form \in {"func", "bare"}
  \/ p.form = "tag" /\ p.wrapped
  \/ p.form # "tag" /\ p.name \in DOMAIN Suffixed
  \/ p.inner # NoName /\ (p.form \in {"func", "bare", "prose"} \/ ~Meant(p))

\* Every call the model wrote is run once, a call that its arguments only mention
\* is not run, a reply that keeps to one form has its calls run in its own order,
\* and what is left of the text is everything but the calls.
TextCallsRunOnce ==
  found # NoName /\ (\A i \in 1..Len(reply) : ~Unclear(reply[i])) =>
    LET at == [j \in 1..Len(found.calls) |-> found.calls[j].at]
    IN /\ \A i \in 1..Len(reply) :
            Cardinality({j \in 1..Len(at) : at[j] = i}) = IF Meant(reply[i]) THEN 1 ELSE 0
       /\ \A j \in 1..Len(at) : found.calls[j].name = NormalizeToolName(reply[at[j]].name)
       /\ \A j, k \in 1..Len(at) :
            j < k /\ reply[at[j]].form = reply[at[k]].form => at[j] < at[k]
       /\ found.rest = SelectSeq(reply, LAMBDA p : ~Meant(p))
=============================================================================
