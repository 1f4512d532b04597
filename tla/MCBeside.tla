------------------------------ MODULE MCBeside ------------------------------
(***************************************************************************)
(* Small instances of the parts beside the conversation, in one run.  The  *)
(* parts that do not act are in the first of their initial states.         *)
(***************************************************************************)
EXTENDS Beside, SequencesExt, TLC

\* The benchmark: two lines of a task file with one id, as LoadTasks allows.
TwoTasks ==
  LET task(recipe) == [id |-> "t1", repeat |-> TRUE, verifies |-> TRUE, recipe |-> recipe]
  IN <<task(TRUE), task(FALSE)>>
TwoArms == <<"A", "B">>

----------------------------------------------------------------------------
\* Files of up to three lines: a line is a sequence of tokens, "s" a space and
\* "n" the end of a line.
LineSet == {<<>>, <<"a">>, <<"s", "a">>, <<"s", "a", "b">>, <<"--", "a">>}
LineLists == UNION {[1..n -> LineSet] : n \in 1..3}
MCSaves == {<<"b">>}
Olds == {<<>>, <<"a">>, <<"a", "s">>, <<"s", "s", "a">>, <<"a", "n", "a">>, <<"b">>}
News == {<<>>, <<"b">>, <<"b", "n", "b">>}
Op(op, line) == [op |-> op, text |-> line]
Bodies == {<<Op("-", <<"a">>), Op("+", <<"b">>)>>, <<Op(" ", <<"s", "a", "s">>), Op("+", <<"b">>)>>,
           <<Op("-", <<>>)>>, <<Op("+", <<"b">>)>>, <<Op("-", <<"--", "a">>), Op("+", <<"b">>)>>}
Unended == <<Op("-", <<"a">>), Op("\\", <<"s", "b">>)>>
HunkSet == [start : -1..3, lines : Bodies]
PlacedHunks == {h \in HunkSet : h.start > 0}
MCEditCalls ==
  [tool : {"edit_file"}, path : {"file"}, old : Olds, new : News]
  \cup [tool : {"apply_diff"}, path : {"file"}, newline : BOOLEAN,
         hunks : {<<h>> : h \in HunkSet \cup [start : {1}, lines : {Unended}]} \cup (PlacedHunks \X PlacedHunks)]
  \cup [tool : {"read_file"}, path : {"file"}, first : 0..4, last : {0, 2, 3}]
  \cup [tool : {"write_file"}, path : {"file", "outside", "link"}, new : {<<"b">>}]
  \cup [tool : {"delete_file"}, path : {"file", "ignored"}]

MCTexts == {FlattenSeq([k \in DOMAIN ls |-> IF k = 1 THEN ls[k] ELSE <<"n">> \o ls[k]]) : ls \in LineLists}

----------------------------------------------------------------------------
\* Servers with a tool that has the name of a built-in one, whose names and
\* tools give one qualified name, and two with one name.
McpTool(name, hint) == [name |-> name, hint |-> hint]
McpServer(name, readOnly, tools) == [name |-> name, readOnly |-> readOnly, tools |-> tools]
MCConfigLists == {
  <<McpServer(<<"a">>, TRUE, <<McpTool(<<"x">>, FALSE), McpTool(<<"native">>, FALSE)>>),
    McpServer(<<"git">>, FALSE, <<McpTool(<<"x">>, FALSE), McpTool(<<"b", "y">>, TRUE)>>)>>,
  <<McpServer(<<"a">>, FALSE, <<McpTool(<<"b", "y">>, TRUE)>>),
    McpServer(<<"a", "b">>, FALSE, <<McpTool(<<"y">>, FALSE), McpTool(<<"z">>, TRUE)>>)>>,
  <<McpServer(<<"a">>, FALSE, <<McpTool(<<"x">>, FALSE)>>),
    McpServer(<<"a">>, TRUE, <<McpTool(<<"z">>, FALSE)>>)>>}
MCNative == {<<"native">>}
MCRedundant == {<<"git">>}

\* Texts of a reply: every form of a call, with arguments of every kind.
Piece(form, name, args, inner, wrapped) ==
  [form |-> form, name |-> name, args |-> args, inner |-> inner, wrapped |-> wrapped]
MCPieces ==
  {Piece("prose", NoName, "none", NoName, FALSE)}
  \cup {Piece(f, "read", a, i, FALSE) : f \in {"xml", "tag", "func", "bare"}, a \in {"object", "newline"}, i \in {NoName, "read"}}
  \cup {Piece("tag", n, a, i, w) : n \in {"read", "read_call"}, a \in {"none", "pairs", "broken"}, i \in {NoName, "shell"}, w \in BOOLEAN}
  \cup {Piece(f, "other", "object", "read", FALSE) : f \in {"xml", "tag", "bare"}}
MCValidNames == {"read", "shell"}
MCSuffixed == "read_call" :> "read"

----------------------------------------------------------------------------
Rule(matches, negate) == [matches |-> matches, negate |-> negate, dirOnly |-> FALSE]
MCRuleLists == {<<Rule({"f"}, FALSE)>>, <<Rule({"f"}, FALSE), Rule({"f"}, TRUE)>>}
MCRepoFiles == {"f"}
MCFileTexts == {<<"text", "sym", "text", "text", "sym">>, <<"sym">>}
MCUpdaters == {"u1", "u2"}

Upto(S, n) == UNION {[1..k -> S] : k \in 0..n}
MCDocuments == Upto(Upto({1, 3, 6}, 2), 3)
MCConversations == Upto([role : {"user", "assistant", "tool"}, size : {1, 9}], 4)
MCSources == Upto({0, 1, 3, 7}, 5)
Ranked(size, score) == [size |-> size, score |-> score]
MCRankings == Upto({Ranked(3, 0), Ranked(3, 1), Ranked(3, 2), Ranked(9, 2)}, 3)
MCBudgets == {0, 1, 5, 10}
MCMaps == Upto({<<9, 7, 5, 3>>, <<30, 12, 6, 4>>}, 3)

----------------------------------------------------------------------------
\* Layers: what one has of each key, and who it is in the texts.
Silent == [k \in SettingKeys |-> Unset]
Layer(who, more) == more @@ [k \in SettingKeys |-> IF k \in {"model", "groq"} THEN who ELSE Unset]
FilesOf(who) == {
  Unset, Malformed,
  Layer(who, [tokens |-> 1, rewrite |-> TRUE, servers |-> who, idle |-> 0, days |-> 7, mode |-> "suggest", legacy |-> who]),
  Layer(who, [rewrite |-> FALSE, idle |-> Junk, days |-> 0, mode |-> "auto", gemini |-> who]),
  [Silent EXCEPT !.tokens = 2, !.mode = "bad", !.idle = 9, !.legacy = who, !.gemini = who]}
MCUserFiles == FilesOf("user")
MCProjectFiles == FilesOf("project") \cup {Silent}
MCEnvironments == {
  Silent,
  Layer("env", [tokens |-> Junk, rewrite |-> "on", days |-> 0, mode |-> "suggest", legacy |-> "env"]),
  [Silent EXCEPT !.tokens = 3, !.rewrite = "yes", !.days = Junk, !.mode = "bad"]}
MCCommandLines ==
  {[kind |-> "chat", trust |-> t, yolo |-> y, terminal |-> ~t,
    set |-> IF y THEN <<>> ELSE [model |-> "line", tokens |-> 4]] : t \in BOOLEAN, y \in BOOLEAN}
  \cup {[kind |-> "report", trust |-> FALSE, yolo |-> FALSE, terminal |-> TRUE, set |-> <<>>]}

\* Shelves with a name that is there twice, with two that differ in case, with
\* links, with more resources than fit, and with one that cannot be read.
Plain(n) == [listed |-> n, size |-> n, opens |-> TRUE]
LinkTo(n) == [listed |-> 1, size |-> n, opens |-> TRUE]
Closed(n) == [listed |-> n, size |-> n, opens |-> FALSE]
MCFold(name) == IF name = "PDF" THEN "pdf" ELSE name
SkillAt(place, name, score, scripts, files, linked) ==
  [place |-> place, name |-> name, score |-> score, scripts |-> scripts, files |-> files, linked |-> linked]
MCShelves == {
  <<SkillAt("home", "pdf", 5, TRUE, <<<<Plain(3), Plain(9), Plain(2)>>, <<Plain(4)>>, <<Plain(1)>>>>, FALSE),
    SkillAt("project", "pdf", 6, TRUE, <<<<Plain(5), Closed(2)>>, <<Plain(4), Plain(1)>>, <<Plain(1)>>>>, TRUE),
    SkillAt("project", "fix", 7, TRUE, <<<<Plain(2), LinkTo(12), Plain(0)>>, <<Plain(1)>>>>, FALSE)>>,
  <<SkillAt("home", "PDF", 5, FALSE, <<>>, FALSE), SkillAt("home", "pdf", 5, FALSE, <<>>, FALSE),
    SkillAt("home", "faq", 4, FALSE, <<<<Plain(8)>>>>, FALSE)>>}

MCStarterFiles == <<"a", "b">>

MCUsers == {"u1", "u2"}
MCFacts == {"tabs", "tabs and tea"}
MCHasText(fact, words) == fact = words \/ (fact = "tabs and tea" /\ words = "tabs")

PluginAt(place, dir, name, ids, command) ==
  [place |-> place, dir |-> dir, name |-> name, ids |-> ids, command |-> command]
MCInstalls == {
  {PluginAt("home", 2, 2, <<"ctx">>, "inside"), PluginAt("project", 2, 2, <<"ctx">>, "inside"),
   PluginAt("project", 1, 1, <<"ctx", "md">>, "inside")},
  {PluginAt("home", 1, 1, <<"ctx", "ctx">>, "inside"), PluginAt("project", 2, 1, <<"ctx">>, "inside"),
   PluginAt("project", 3, 3, <<"md">>, "outside")},
  {PluginAt("home", 1, 1, <<>>, "inside"), PluginAt("project", 1, 1, <<"md">>, "inside")}}
MCFormats == {"baryo-jsonl", "ctx", "md"}

----------------------------------------------------------------------------
MCAdapters == {"openai", "anthropic"}

\* Deep research has more to tell than the channel holds, as in the code.
MCDepths == {1, 3}
MCGaps == 1..2

\* Below a directory, with a space, and none of these.
MCNames == {<<"a">>, <<"a", " ", "a">>, <<"d", "/">>, <<"d", "/", "a">>}
MCRecalled == {<<"@", "a">>}

----------------------------------------------------------------------------
\* One behaviour of each part: those that do not act start in one state.
MCInit ==
  /\ Init
  /\ part = "index" \/ disk = CHOOSE d \in [RepoFiles -> [text : FileTexts, mtime : {0}]] : TRUE
  /\ part = "settings" \/ project = Unset
  /\ part = "skills" \/ (projectTrusted /\ \A f \in DOMAIN shelf : shelf[f].name /= "PDF")
  /\ part = "memories" \/ local
  /\ part = "exports" \/ cmd = NoExport
MCSpec == MCInit /\ [][Next]_Vars
=============================================================================
