------------------------------ MODULE Memories ------------------------------
(***************************************************************************)
(* The facts saved by /remember and the remember tool and removed by       *)
(* /forget (internal/config/memory.go, chat.go 5022-5127): two files, of   *)
(* the user and of the project, each read and then replaced as a whole, by *)
(* any of several processes of baryo.                                      *)
(***************************************************************************)
EXTENDS Integers, Sequences, FiniteSets, SequencesExt

CONSTANTS
  Users,        \* processes
  Facts,
  HasText(_, _), \* the fact has the text in it, in any case
  MaxMemories,  \* maxMemoriesPerScope
  MaxSaves

ASSUME MemoriesAssumption == MaxMemories \in Nat

VARIABLES
  stores,   \* scope -> the facts in its file
  garbled,  \* files that a hand has left in a form that does not parse
  local,    \* .baryo is there, so facts are saved to the project
  work,     \* what a process is doing: [op, scope, fact, read], and what was there at its read
  saves
memoryVars == <<stores, garbled, local, work, saves>>

Scopes == {"project", "global"}
Resting == [op |-> "none"]

MemoriesInit ==
  /\ stores = [s \in Scopes |-> <<>>] /\ garbled = {} /\ local \in BOOLEAN
  /\ work = [u \in Users |-> Resting]
  /\ saves = 0

\* loadMemoryFile: a file that cannot be read, or does not parse, has no facts.
LoadMemoryFile(s) == IF s \in garbled THEN {<<>>} ELSE {stores[s], <<>>}

\* AddMemory up to its read; a file that is full refuses.
AddMemory(u) ==
  /\ work[u] = Resting /\ saves < MaxSaves
  /\ LET scope == IF local THEN "project" ELSE "global" IN
     \E fact \in Facts, read \in LoadMemoryFile(scope) :
       /\ Len(read) < MaxMemories
       /\ work' = [work EXCEPT ![u] = [op |-> "add", scope |-> scope, fact |-> fact,
                                       read |-> read, there |-> stores[scope]]]
  /\ saves' = saves + 1
  /\ UNCHANGED <<stores, garbled, local>>

\* RemoveMemory up to its read: the first match, the project's file first.
RemoveMemory(u) ==
  /\ work[u] = Resting
  /\ \E text \in Facts, mine \in LoadMemoryFile("project"), all \in LoadMemoryFile("global") :
       LET read == [s \in Scopes |-> IF s = "project" THEN mine ELSE all]
           at == [s \in Scopes |-> SelectInSeq(read[s], LAMBDA m : HasText(m, text))]
           scope == IF at["project"] > 0 THEN "project" ELSE "global"
       IN /\ at[scope] > 0
          /\ work' = [work EXCEPT ![u] = [op |-> "remove", scope |-> scope, at |-> at[scope], text |-> text,
                                          read |-> read[scope], there |-> stores[scope]]]
  /\ UNCHANGED <<stores, garbled, local, saves>>

\* saveMemoryFile: the file becomes what was read with the change made to it, or
\* stays as it is when that fails.
Rewritten(w) == IF w.op = "add" THEN Append(w.read, w.fact) ELSE RemoveAt(w.read, w.at)
SaveMemoryFile(u) ==
  /\ work[u] /= Resting
  /\ \/ /\ stores' = [stores EXCEPT ![work[u].scope] = Rewritten(work[u])]
        /\ garbled' = garbled \ {work[u].scope}
     \/ UNCHANGED <<stores, garbled>>
  /\ work' = [work EXCEPT ![u] = Resting]
  /\ UNCHANGED <<local, saves>>

MakeProjectDir == local' = TRUE /\ ~local /\ UNCHANGED <<stores, garbled, work, saves>>

\* The user edits a file and leaves a mistake in it, or mends it.
EditByHand ==
  /\ \E s \in Scopes :
       stores[s] /= <<>> /\ garbled' = IF s \in garbled THEN garbled \ {s} ELSE garbled \cup {s}
  /\ UNCHANGED <<stores, local, work, saves>>

MemoriesNext ==
  \/ \E u \in Users : AddMemory(u) \/ RemoveMemory(u) \/ SaveMemoryFile(u)
  \/ MakeProjectDir \/ EditByHand

\* The process was to write over a file that it had read as empty and was not.
Misread(w) == w.read = <<>> /\ w.there /= <<>>

\* A fact goes from a file only when a process removes it, the one it had found
\* by the text it was asked for.  Two things are lost otherwise, which nothing
\* prevents: what another process has written since the file was read, and all
\* of a file that could not be read or parsed, which is as good as empty to the
\* process that then writes it.
FactsKept ==
  [][\A s \in Scopes :
       /\ Len(stores[s]) <= MaxMemories
       /\ \A m \in ToSet(stores[s]) \ ToSet(stores'[s]) :
            \E u \in Users :
              /\ work[u] /= Resting /\ work'[u] = Resting /\ work[u].scope = s
              /\ \/ work[u].op = "remove" /\ m = work[u].read[work[u].at] /\ HasText(m, work[u].text)
                 \/ m \notin ToSet(work[u].there)
                 \/ Misread(work[u])]_memoryVars
=============================================================================
