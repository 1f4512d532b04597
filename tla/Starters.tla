------------------------------ MODULE Starters ------------------------------
(***************************************************************************)
(* The starter skills that /setup downloads into ~/.baryo/skills           *)
(* (internal/setup, and the setup handlers of internal/tui/chat.go): files *)
(* that are rewritten at every download unless the user has changed them.  *)
(***************************************************************************)
EXTENDS Integers, Sequences, FiniteSets, SequencesExt

CONSTANTS
  StarterFiles, \* a sequence: the files of the manifest
  MaxVersion,   \* versions of the starter skills that are published
  MaxEdits,     \* changes the user makes to the files
  MaxCrashes    \* times the process is killed

ASSUME StartersAssumption == StarterFiles \in Seq(STRING)

VARIABLES
  starterFile,   \* what each file holds: <<"starter", n>>, <<"edit", n>>, Torn or None
  sum,           \* what the checksum beside it was computed from
  stamp,         \* .setup-stamp is there
  folder,        \* a skill has a folder there
  served,        \* the version the server has
  setup,         \* the download: [at, i, got, seen, from], the version served as it began
  setupRunning,  \* setupRunning of the chat
  prompted,      \* setupPromptPending
  edited,        \* files the user has changed (history)
  cut,           \* files a crash or a failure has left half written or without
                 \* their checksum, or whose checksum was not read (history)
  crashes
starterVars == <<starterFile, sum, stamp, folder, served, setup, setupRunning, prompted, edited, cut, crashes>>

None == <<"none", 0>>
Torn == <<"torn", 0>>
Half == <<"half", 0>>   \* a checksum of which a part was written
Index == 1..Len(StarterFiles)
IsEdit(content) == content[1] = "edit"

NeedsSetup == ~stamp /\ ~folder
\* As if a file without a checksum were one that baryo wrote.
IsUserModified_NeedsChecksum(file, stored) == file /= None /\ stored /= None /\ file /= stored

\* By the file and the checksum as they were read; one that cannot be read is
\* as good as not there.
IsUserModified(file, stored) == file /= None /\ file /= stored

NoSetup == [at |-> "idle", i |-> 1, got |-> None, seen |-> [i \in Index |-> None], from |-> 0]
StartersInit ==
  /\ starterFile = [i \in Index |-> None] /\ sum = [i \in Index |-> None]
  /\ stamp = FALSE /\ folder = FALSE /\ served = 1 /\ setup = NoSetup
  /\ setupRunning = FALSE /\ prompted = NeedsSetup
  /\ edited = {} /\ cut = {} /\ crashes = 0

\* /setup, or y to the question of the first start; n only leaves the stamp,
\* whose writing may fail without a word.
HandleSetup ==
  /\ ~prompted /\ ~setupRunning
  /\ setupRunning' = TRUE /\ setup' = [NoSetup EXCEPT !.at = "manifest", !.from = served]
  /\ UNCHANGED <<starterFile, sum, stamp, folder, served, prompted, edited, cut, crashes>>
AnswerSetup ==
  /\ prompted /\ prompted' = FALSE
  /\ \/ setupRunning' = TRUE /\ setup' = [NoSetup EXCEPT !.at = "manifest", !.from = served] /\ UNCHANGED stamp
     \/ stamp' \in {TRUE, stamp} /\ UNCHANGED <<setupRunning, setup>>
  /\ UNCHANGED <<starterFile, sum, folder, served, edited, cut, crashes>>

Ends == setup' = NoSetup /\ setupRunning' = FALSE

\* A request that fails ends the download where it is.
FetchManifest ==
  /\ setup.at = "manifest"
  /\ \/ setup' = [setup EXCEPT !.at = "check"] /\ UNCHANGED setupRunning
     \/ Ends
  /\ UNCHANGED <<starterFile, sum, stamp, folder, served, prompted, edited, cut, crashes>>
CheckFile ==
  /\ setup.at = "check" /\ setup.i \in Index
  /\ \/ /\ folder' = TRUE /\ UNCHANGED setupRunning
        /\ \E file \in {starterFile[setup.i], None}, stored \in {sum[setup.i], None} :
             /\ setup' = IF IsUserModified(file, stored) THEN [setup EXCEPT !.i = @ + 1]
                         ELSE [setup EXCEPT !.at = "fetch", !.seen[setup.i] = file]
             /\ cut' = IF stored = sum[setup.i] THEN cut ELSE cut \cup {setup.i}
     \/ Ends /\ UNCHANGED <<folder, cut>>
  /\ UNCHANGED <<starterFile, sum, stamp, served, prompted, edited, crashes>>
FetchFile ==
  /\ setup.at = "fetch"
  /\ \/ setup' = [setup EXCEPT !.at = "write", !.got = <<"starter", served>>] /\ UNCHANGED setupRunning
     \/ Ends
  /\ UNCHANGED <<starterFile, sum, stamp, folder, served, prompted, edited, cut, crashes>>

\* os.WriteFile, which truncates first and may fail after that, and then the
\* checksum of what was got, whose writing may fail and nobody is told.
WriteFile ==
  /\ setup.at = "write"
  /\ \/ /\ starterFile' = [starterFile EXCEPT ![setup.i] = setup.got]
        /\ setup' = [setup EXCEPT !.at = "sum"]
        /\ UNCHANGED <<setupRunning, cut>>
     \/ starterFile' = [starterFile EXCEPT ![setup.i] = Torn] /\ cut' = cut \cup {setup.i} /\ Ends
  /\ UNCHANGED <<sum, stamp, folder, served, prompted, edited, crashes>>
WriteChecksum ==
  /\ setup.at = "sum"
  /\ \/ sum' = [sum EXCEPT ![setup.i] = setup.got] /\ UNCHANGED cut
     \/ /\ \E left \in {sum[setup.i], Half} : sum' = [sum EXCEPT ![setup.i] = left]
        /\ cut' = cut \cup {setup.i}
  /\ setup' = [setup EXCEPT !.at = "check", !.i = @ + 1]
  /\ UNCHANGED <<starterFile, stamp, folder, served, setupRunning, prompted, edited, crashes>>
FinishSetup ==
  /\ setup.at = "check" /\ setup.i > Len(StarterFiles)
  /\ stamp' \in {TRUE, stamp}
  /\ setup' = [setup EXCEPT !.at = "done"] /\ setupRunning' = FALSE
  /\ UNCHANGED <<starterFile, sum, folder, served, prompted, edited, cut, crashes>>
ShowDone ==
  /\ setup.at = "done" /\ setup' = NoSetup
  /\ UNCHANGED <<starterFile, sum, stamp, folder, served, setupRunning, prompted, edited, cut, crashes>>

\* The process dies and is started again; a write it was in leaves half a file.
CrashSetup ==
  /\ crashes < MaxCrashes /\ crashes' = crashes + 1
  /\ \/ setup.at = "write" /\ starterFile' = [starterFile EXCEPT ![setup.i] = Torn] /\ UNCHANGED sum
     \/ setup.at = "sum" /\ sum' = [sum EXCEPT ![setup.i] = Half] /\ UNCHANGED starterFile
     \/ UNCHANGED <<starterFile, sum>>
  /\ cut' = cut \cup (IF setup.at \in {"write", "sum"} THEN {setup.i} ELSE {})
  /\ setup' = NoSetup /\ setupRunning' = FALSE
  /\ prompted' = NeedsSetup
  /\ UNCHANGED <<stamp, folder, served, edited>>

Publish ==
  /\ served < MaxVersion /\ served' = served + 1
  /\ UNCHANGED <<starterFile, sum, stamp, folder, setup, setupRunning, prompted, edited, cut, crashes>>
EditFile ==
  /\ Cardinality(edited) < MaxEdits
  /\ \E i \in Index \ edited :
       /\ starterFile' = [starterFile EXCEPT ![i] = <<"edit", i>>]
       /\ folder' = TRUE
       /\ edited' = edited \cup {i}
  /\ UNCHANGED <<sum, stamp, served, setup, setupRunning, prompted, cut, crashes>>

StartersNext ==
  \/ HandleSetup \/ AnswerSetup \/ FetchManifest \/ CheckFile \/ FetchFile
  \/ WriteFile \/ WriteChecksum \/ FinishSetup \/ ShowDone
  \/ CrashSetup \/ Publish \/ EditFile

\* When the setup says it is done every starter the user has left alone is as
\* its checksum says, and no older than what was published when the download
\* began: it did get its new version.  Not so a file whose writing was cut, or
\* whose checksum could not be written or read: the setup is done without it, and
\* later ones pass it by.
StartersFresh ==
  setup.at = "done" =>
    \A i \in Index \ (edited \cup cut) :
      /\ starterFile[i][1] = "starter" /\ starterFile[i][2] >= setup.from
      /\ starterFile[i] = sum[i]

\* "/setup ... skips any skills you've customized, so your edits are never
\* overwritten" (README.md 1224): true of what the download had read when it
\* looked at the file, not of a change made while its new version was on its
\* way, nor of one that it could not read.
StartersHold ==
  /\ [][\A i \in Index :
         IsEdit(starterFile[i]) /\ ~IsEdit(starterFile'[i]) => setup.seen[i] /= starterFile[i]]_starterVars
  /\ []StartersFresh
=============================================================================
