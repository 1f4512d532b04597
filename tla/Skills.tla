------------------------------- MODULE Skills -------------------------------
(***************************************************************************)
(* Skills (internal/config/skill.go, internal/tui/chat.go 4835-5020,       *)
(* internal/tools/script.go): the index made of the folders that hold one, *)
(* the skill a message matches, its text put into the conversation, and    *)
(* the scripts it lists, which the model may then run.                     *)
(***************************************************************************)
EXTENDS Integers, Sequences, FiniteSets, SequencesExt

CONSTANTS
  Shelves,       \* what the disk may hold: sequences of
                 \* [place, name, score, scripts, files, linked], in reading
                 \* order; linked: its scripts are links that lead elsewhere
  Fold(_),       \* the name in lower case
  OtherName,     \* the name a SKILL.md may be given later
  MaxFile,       \* maxResourceFileSize
  MaxResources,  \* maxTotalResources
  Threshold,     \* the score a match must have
  MaxActivated   \* skills put into one conversation

\* A file of resources: its size as the folder lists it, which of a link is the
\* link's own, the size of what is read, and whether it can be read.
ResourceFiles == [listed : Nat, size : Nat, opens : BOOLEAN]
ASSUME SkillsAssumption ==
  /\ MaxFile \in Nat /\ MaxResources \in Nat
  /\ \A s \in Shelves :
       Len(s) \in Nat /\ \A f \in 1..Len(s) : s[f].score \in Nat /\ s[f].files \in Seq(Seq(ResourceFiles))

VARIABLES
  shelf,           \* the folders
  renamed,         \* those whose SKILL.md has another name now
  projectTrusted,  \* ProjectTrusted
  skillIndex,      \* folders, in order
  activeSkills,    \* names
  inlined,         \* the skills whose text is in the conversation: [folder, wanted, resources]
  lastScript       \* the script the model asked for last: [folder, ok]
skillVars == <<shelf, renamed, projectTrusted, skillIndex, activeSkills, inlined, lastScript>>

NoRun == [folder |-> 0, ok |-> FALSE]
Folders == 1..Len(shelf)
IndexedName(f) == shelf[f].name
NameNow(f) == IF f \in renamed THEN OtherName ELSE IndexedName(f)
Readable(f) == projectTrusted \/ shelf[f].place = "home"

\* SkillIndex: a folder takes the place of an earlier one with its name.
SkillIndex ==
  LET with(skills, f) ==
        LET same == SelectInSeq(skills, LAMBDA s : NameNow(s) = NameNow(f))
        IN IF same > 0 THEN [skills EXCEPT ![same] = f] ELSE Append(skills, f)
      upTo[f \in 0..Len(shelf)] ==
        IF f = 0 THEN <<>> ELSE IF Readable(f) THEN with(upTo[f - 1], f) ELSE upTo[f - 1]
  IN upTo[Len(shelf)]

\* MatchSkill: the first of the best that are not active, by the names and the
\* words the index was made with; 0 when none is good enough.
MatchSkill ==
  LET better(i, b) == /\ IndexedName(skillIndex[i]) \notin activeSkills
                      /\ shelf[skillIndex[i]].score > (IF b = 0 THEN 0 ELSE shelf[b].score)
      best[i \in 0..Len(skillIndex)] ==
        IF i = 0 THEN 0 ELSE IF better(i, best[i - 1]) THEN skillIndex[i] ELSE best[i - 1]
      found == best[Len(skillIndex)]
  IN IF found = 0 THEN 0 ELSE IF shelf[found].score < Threshold THEN 0 ELSE found

\* LoadSkill: the first in the index whose name is the same but for case.
LoadSkill(name) ==
  LET at == SelectInSeq(skillIndex, LAMBDA f : Fold(IndexedName(f)) = Fold(name))
  IN IF at = 0 THEN 0 ELSE skillIndex[at]

\* What is inlined so far: the files, how large they are together, and the
\* folders that were left at a file that would not fit.
NoResources == [total |-> 0, got |-> <<>>, full |-> {}]
Taken(r, d, j, file) == [r EXCEPT !.total = @ + file.size, !.got = Append(@, <<d, j>>)]

\* The total is looked at before the file is added to it.
AddResource_OneOver(r, d, j, file) ==
  IF file.listed > MaxFile \/ ~file.opens \/ r.total > MaxResources THEN r ELSE Taken(r, d, j, file)

\* A small file that can be read is inlined.  One that would pass the total, by
\* the size it is listed with, ends its folder and not those after it.
AddResource(r, d, j, file) ==
  IF file.listed > MaxFile \/ d \in r.full THEN r
  ELSE IF r.total + file.listed > MaxResources THEN [r EXCEPT !.full = @ \cup {d}]
  ELSE IF file.opens THEN Taken(r, d, j, file) ELSE r

\* loadResources: the folders in their order, and the files of each.
AddFolder(r, d, files) ==
  LET upTo[j \in 0..Len(files)] == IF j = 0 THEN r ELSE AddResource(upTo[j - 1], d, j, files[j])
  IN upTo[Len(files)]
LoadResources(dirs) ==
  LET upTo[d \in 0..Len(dirs)] == IF d = 0 THEN NoResources ELSE AddFolder(upTo[d - 1], d, dirs[d])
  IN upTo[Len(dirs)]

----------------------------------------------------------------------------
SkillsInit ==
  /\ shelf \in Shelves /\ renamed = {}
  /\ projectTrusted \in BOOLEAN
  /\ skillIndex = SkillIndex
  /\ activeSkills = {} /\ inlined = <<>> /\ lastScript = NoRun

\* Both ways of activating put the text into the conversation, and note the
\* name that the file has now.
Inject(f, wanted) ==
  /\ Len(inlined) < MaxActivated
  /\ inlined' = Append(inlined, [folder |-> f, wanted |-> wanted,
                                 resources |-> LoadResources(shelf[f].files).got])
  /\ activeSkills' = activeSkills \cup {NameNow(f)}
  /\ UNCHANGED <<shelf, renamed, projectTrusted, skillIndex, lastScript>>
AutoActivateSkill ==
  /\ MatchSkill # 0
  /\ Inject(LoadSkill(IndexedName(MatchSkill)), MatchSkill)
HandleSkillActivate ==
  \E i \in DOMAIN skillIndex :
    LET f == LoadSkill(IndexedName(skillIndex[i]))
    IN NameNow(f) \notin activeSkills /\ Inject(f, skillIndex[i])

\* The index is made again when a setup has ended; /clear forgets the
\* conversation, and what is active stays so.
Reindex ==
  /\ renamed = {}   \* the names of the new index are those of shelf
  /\ skillIndex' = SkillIndex
  /\ UNCHANGED <<shelf, renamed, projectTrusted, activeSkills, inlined, lastScript>>
Clear ==
  /\ inlined # <<>> /\ inlined' = <<>>
  /\ UNCHANGED <<shelf, renamed, projectTrusted, skillIndex, activeSkills, lastScript>>
RenameSkill ==
  \E f \in Folders \ renamed :
    /\ renamed' = renamed \cup {f}
    /\ UNCHANGED <<shelf, projectTrusted, skillIndex, activeSkills, inlined, lastScript>>

\* run_script: only what resolves to a place inside a folder of skills runs.
IsInsideSkillDir(f) == ~shelf[f].linked /\ Readable(f)
RunScript ==
  \E f \in Folders :
    /\ shelf[f].scripts
    /\ lastScript' = [folder |-> f, ok |-> IsInsideSkillDir(f)]
    /\ UNCHANGED <<shelf, renamed, projectTrusted, skillIndex, activeSkills, inlined>>

SkillsNext ==
  \/ AutoActivateSkill \/ HandleSkillActivate \/ Reindex \/ Clear
  \/ RenameSkill \/ RunScript

----------------------------------------------------------------------------
\* Of the skills with one name the last counts, the project's before the user's,
\* and an untrusted project's not at all (README.md 1297).
LastCounts ==
  \A f \in Folders :
    (\E i \in DOMAIN skillIndex : skillIndex[i] = f) <=>
      /\ Readable(f)
      /\ \A g \in Folders : g > f /\ Readable(g) => IndexedName(g) # IndexedName(f)

\* Two skills whose names only differ in case are not told apart.
Twin(f) == \E i \in DOMAIN skillIndex : skillIndex[i] # f /\ Fold(IndexedName(skillIndex[i])) = Fold(IndexedName(f))

\* The text of a skill enters a conversation once, and it is the skill that was
\* matched or asked for; but for twins, and for a skill whose name has changed
\* since the index was made, which is loaded at every message that matches.
InjectedOnce ==
  \A i, j \in DOMAIN inlined :
    /\ ~Twin(inlined[i].wanted) => inlined[i].folder = inlined[i].wanted
    /\ i # j /\ inlined[i].folder = inlined[j].folder =>
         inlined[i].folder \in renamed \/ Twin(inlined[i].folder)

\* How large the files of a list are together.
TotalSize(dirs, got) ==
  LET upTo[k \in 0..Len(got)] == IF k = 0 THEN 0 ELSE upTo[k - 1] + dirs[got[k][1]][got[k][2]].size
  IN upTo[Len(got)]

\* What is inlined of a skill are files that are listed as small and fit
\* together, none twice: only the last of them may pass the total, if it is
\* larger than it is listed, as a link is.  A file is left out only when it is
\* listed as large or cannot be read, or an earlier one of its folder, or
\* itself, did not fit.
ResourcesFit ==
  \A i \in DOMAIN inlined :
    LET dirs == shelf[inlined[i].folder].files
        got == inlined[i].resources
        file(k) == dirs[got[k][1]][got[k][2]]
        total == TotalSize(dirs, got)
    IN /\ \/ total <= MaxResources
          \/ got # <<>> /\ file(Len(got)).size > file(Len(got)).listed
       /\ \A k \in DOMAIN got : file(k).listed <= MaxFile
       /\ \A k, l \in DOMAIN got : got[k] = got[l] => k = l
       /\ \A d \in 1..Len(dirs) : \A j \in 1..Len(dirs[d]) :
            \/ dirs[d][j].listed > MaxFile
            \/ ~dirs[d][j].opens
            \/ <<d, j>> \in ToSet(got)
            \/ \E k \in 1..j : dirs[d][k].listed <= MaxFile /\ total + dirs[d][k].listed > MaxResources

\* The model can run what the text of a skill lists, unless those are links that
\* lead elsewhere, and nothing of a project that is not projectTrusted.
ListedScriptsRun ==
  lastScript # NoRun =>
    /\ (\E i \in DOMAIN inlined : inlined[i].folder = lastScript.folder) /\ ~shelf[lastScript.folder].linked
         => lastScript.ok
    /\ lastScript.ok => projectTrusted \/ shelf[lastScript.folder].place = "home"

\* A conversation gets the skills it asked for, whole, once, and can use them.
SkillsHold == LastCounts /\ InjectedOnce /\ ResourcesFit /\ ListedScriptsRun
=============================================================================
