--------------------------- MODULE SessionsProofs ---------------------------
(***************************************************************************)
(* The safety of the sessions on disk.  Most of what a file or an archive  *)
(* promises holds as long as one process at a time uses the session, so    *)
(* the invariant first says who may (OneUser), then what is on disk for    *)
(* him: the removal of a session (Removal), the numbers of an archive      *)
(* (Numbered), and where each message that was saved can still be found    *)
(* (Findable), where an append that stopped half way may cost the record   *)
(* that is written next.                                                   *)
(***************************************************************************)
EXTENDS Sessions, SequenceTheorems, FiniteSetTheorems, TLAPS

\* The places of a process that has a session open, and of one that removes it.
Using == {"idle", "write", "rename", "append"}
Removing == {"removeArchive", "removeTrace"}

Uses(p, s) == proc[p].cur = s /\ proc[p].pc \in Using

Files == [msgs : Conversations, old : BOOLEAN]
JobSet == [then : {"compact", "shrink", "clear"}, first : Nat, last : Nat]
Places == [pc : Positions, cur : IDs \cup {None}, msgs : Conversations, job : JobSet \cup {None},
           seq : Nat, temp : Files \cup {Gone}, visit : SUBSET IDs]

TypeOK ==
  /\ file \in [IDs -> Files \cup {Gone}]
  /\ archive \in [IDs -> Seq(Lines)]
  /\ trace \subseteq IDs /\ used \subseteq IDs /\ left \subseteq IDs /\ shared \subseteq IDs
  /\ proc \in [Procs -> Places]
  /\ spoken \in Messages /\ stored \in [IDs -> SUBSET (1..spoken)] /\ failed \subseteq Messages
  /\ tears \in [IDs -> Nat]

\* Where a process stands, and what it holds there.
PlaceOK == \A p \in Procs :
  /\ proc[p].pc \in {"off", "clean", "pick"} <=> proc[p].cur = None
  /\ proc[p].pc = "rename" => proc[p].temp = [msgs |-> proc[p].msgs, old |-> FALSE]
  /\ proc[p].pc = "append" => proc[p].job \in Jobs(p)

FormInv == TypeOK /\ PlaceOK

\* What is in a conversation has been said.
HeardOK ==
  /\ \A p \in Procs : proc[p].pc \in Using => ToSet(proc[p].msgs) \subseteq 0..spoken
  /\ \A s \in IDs : file[s] # Gone => ToSet(file[s].msgs) \subseteq 0..spoken

\* Nothing is known of a session id before it is taken.
UsedOK ==
  /\ \A p \in Procs : proc[p].cur \in used \cup {None}
  /\ \A s \in IDs \ used : file[s] = Gone /\ archive[s] = <<>> /\ stored[s] = {}
  /\ trace \subseteq used

\* Two processes meet in a session only if one of them has yet to remove it.
OneUser ==
  \A s \in IDs \ shared : \A p, q \in Procs :
    p # q /\ proc[p].cur = s /\ proc[q].cur = s => "remove" \in {proc[p].pc, proc[q].pc}

\* What is saved stays while it is used, and goes with the file.
Removal ==
  \A s \in IDs \ shared :
    /\ \A p \in Procs :
         /\ Uses(p, s) /\ stored[s] # {} => file[s] # Gone
         /\ proc[p].cur = s /\ proc[p].pc \in Removing => file[s] = Gone
         /\ proc[p].cur = s /\ proc[p].pc = "removeTrace" => s \in left \/ archive[s] = <<>>
    /\ s \notin left /\ file[s] = Gone /\ stored[s] # {} =>
         \/ archive[s] = <<>> /\ s \notin trace
         \/ \E p \in Procs : proc[p].cur = s /\ proc[p].pc \in Removing

\* A record's number is its place, counted from 0.
Numbered ==
  \A s \in IDs \ shared :
    /\ tears[s] = 0 => \A i \in 1..Len(archive[s]) :
         \/ archive[s][i].state = "whole" /\ archive[s][i].seq = i - 1
         \/ archive[s][i].state = "legacy"
    /\ \A p \in Procs : Uses(p, s) /\ proc[p].pc = "append" => proc[p].seq = Len(archive[s])

\* The file holds what was saved last, and the conversation adds what is new.
Conversing ==
  \A s \in IDs \ shared : file[s] # Gone =>
    /\ ToSet(file[s].msgs) \subseteq stored[s] \cup {0}
    /\ \A p \in Procs :
         Uses(p, s) => ToSet(proc[p].msgs) \cap stored[s] \subseteq ToSet(file[s].msgs)

NoHuge(lines) == \A i \in 1..Len(lines) : ~lines[i].huge
Legible(lines) == {i \in 1..Len(lines) : lines[i].state \in {"whole", "unended", "legacy"}}
Archived(lines) == {lines[i].msg : i \in Legible(lines)}

\* Whether the next record will be glued to the last line.
TornEnd(lines) == lines # <<>> /\ Last(lines).state \in {"cut", "unended"}
EndsAs(lines, new) == Last(lines).state = "unended" => Last(lines) = Last(new)
Owing(lines) == IF TornEnd(lines) THEN 1 ELSE 0

\* Of the messages here, those that are neither in the archive nor among msgs,
\* and were not reported as failed.
Lost(here, fails, lines, msgs) == here \ (fails \cup Archived(lines) \cup ToSet(msgs))

\* A line that may be glued has a message that need not be found in it.
Spare(here, fails, lines, msgs) ==
  lines # <<>> /\ Last(lines).state = "unended" /\ Last(lines).msg \in here =>
    Last(lines).msg \in fails \cup ToSet(msgs)

Covered(here, fails, lines, torn, msgs) ==
  /\ Cardinality(Lost(here, fails, lines, msgs)) + Owing(lines) <= torn
  /\ Spare(here, fails, lines, msgs)

\* An append that stopped half way costs one message, the first to be written
\* after it, and until then none.
Findable ==
  \A s \in IDs \ shared : NoHuge(archive[s]) =>
    /\ file[s] # Gone => Covered(stored[s], failed, archive[s], tears[s], file[s].msgs)
    /\ \A p \in Procs : Uses(p, s) => Covered(stored[s], failed, archive[s], tears[s], proc[p].msgs)

OwnInv == UsedOK /\ OneUser /\ Removal

-----------------------------------------------------------------------------
(* Sequences, and the records an archive gets *)

\* The set of a sequence of messages.
LEMMA SetOf ==
  ASSUME NEW S, NEW t \in Seq(S)
  PROVE  /\ Len(t) \in Nat
         /\ \A i \in 1..Len(t) : t[i] \in S /\ t[i] \in ToSet(t)
         /\ \A x \in ToSet(t) : \E i \in 1..Len(t) : t[i] = x
         /\ ToSet(t) \subseteq S
BY LenProperties DEF ToSet

\* A conversation that goes on has one message more.
LEMMA SetOfAppend ==
  ASSUME NEW S, NEW t \in Seq(S), NEW x \in S
  PROVE  Append(t, x) \in Seq(S) /\ ToSet(Append(t, x)) = ToSet(t) \cup {x}
<1>1. /\ Append(t, x) \in Seq(S) /\ Len(Append(t, x)) = Len(t) + 1 /\ Len(t) \in Nat
      /\ \A i \in 1..Len(t) : Append(t, x)[i] = t[i]
      /\ Append(t, x)[Len(t) + 1] = x
  BY AppendProperties, LenProperties
<1>2. \A y : y \in ToSet(t) <=> \E i \in 1..Len(t) : t[i] = y
  BY SetOf
<1>3. \A y : y \in ToSet(Append(t, x)) <=> \E i \in 1..(Len(t) + 1) : Append(t, x)[i] = y
  <2> DEFINE u == Append(t, x)
  <2>1. u \in Seq(S) /\ Len(u) = Len(t) + 1
    BY <1>1
  <2> HIDE DEF u
  <2>2. \A y : y \in ToSet(u) <=> \E i \in 1..Len(u) : u[i] = y
    BY <2>1, SetOf
  <2> QED BY <2>1, <2>2 DEF u
<1>4. \A i \in 1..(Len(t) + 1) : i \in 1..Len(t) \/ i = Len(t) + 1
  BY <1>1
<1>5. \A i \in 1..Len(t) : i \in 1..(Len(t) + 1)
  BY <1>1
<1>6. Len(t) + 1 \in 1..(Len(t) + 1)
  BY <1>1
<1>7. ToSet(Append(t, x)) \subseteq ToSet(t) \cup {x}
  BY <1>1, <1>2, <1>3, <1>4
<1>8. ToSet(t) \cup {x} \subseteq ToSet(Append(t, x))
  BY <1>1, <1>2, <1>3, <1>5, <1>6
<1> QED BY <1>1, <1>7, <1>8

\* What a process may archive is a part of its conversation.
LEMMA JobShape ==
  ASSUME TypeOK, NEW p \in Procs, NEW job \in Jobs(p)
  PROVE  /\ job \in JobSet /\ Len(proc[p].msgs) \in Nat
         /\ job.first \in 1..job.last /\ job.last \in 1..Len(proc[p].msgs)
         /\ Batch(p, job) \in Seq(Messages) /\ Len(Batch(p, job)) = job.last - job.first + 1
         /\ \A i \in 1..(job.last - job.first + 1) :
              Batch(p, job)[i] = proc[p].msgs[job.first + i - 1]
         /\ ToSet(Batch(p, job)) \subseteq ToSet(proc[p].msgs)
<1> DEFINE n == Len(proc[p].msgs)
<1>1. proc[p].msgs \in Seq(Messages) /\ n \in Nat
  BY SetOf DEF TypeOK, Places, Conversations
<1>2. job \in JobSet /\ job.first \in 1..job.last /\ job.last \in 1..n
  <2> HIDE DEF n
  <2>1. CASE \E k \in {KeepRecent} \cap 0..(n - 1) :
               job = [then |-> "compact", first |-> 1, last |-> n - k]
    BY <1>1, <2>1 DEF JobSet
  <2>2. CASE \E i \in 1..n : job = [then |-> "shrink", first |-> i, last |-> i]
    BY <1>1, <2>2 DEF JobSet
  <2>3. CASE \E k \in {n} \ {0} : job = [then |-> "clear", first |-> 1, last |-> k]
    BY <1>1, <2>3 DEF JobSet
  <2> QED BY <2>1, <2>2, <2>3 DEF Jobs, n
<1>3. job.first \in Nat \ {0} /\ job.last \in Nat
  BY <1>1, <1>2
<1>4. \A i \in job.first..job.last : proc[p].msgs[i] \in Messages
  BY <1>1, <1>2, <1>3, SetOf
<1>5. /\ Batch(p, job) \in Seq(Messages) /\ Len(Batch(p, job)) = job.last - job.first + 1
      /\ \A i \in 1..(job.last - job.first + 1) :
           Batch(p, job)[i] = proc[p].msgs[job.first + i - 1]
  <2> DEFINE f == job.first
             l == job.last
             m == proc[p].msgs
             t == Batch(p, job)
  <2>1. f \in Int /\ l \in Int /\ f <= l /\ \A i \in f..l : m[i] \in Messages
    BY <1>2, <1>3, <1>4
  <2>2. t = SubSeq(m, f, l)
    BY DEF Batch
  <2> HIDE DEF f, l, m
  <2>3. /\ SubSeq(m, f, l) \in Seq(Messages)
        /\ Len(SubSeq(m, f, l)) = IF f <= l THEN l - f + 1 ELSE 0
        /\ \A i \in 1..(l - f + 1) : SubSeq(m, f, l)[i] = m[f + i - 1]
    BY <2>1, SubSeqProperties
  <2> HIDE DEF t
  <2>4. t \in Seq(Messages) /\ Len(t) = l - f + 1 /\ \A i \in 1..(l - f + 1) : t[i] = m[f + i - 1]
    BY <2>1, <2>2, <2>3
  <2> QED BY <2>4 DEF f, l, m, t
<1>6. \A i \in 1..(job.last - job.first + 1) : job.first + i - 1 \in 1..n
  BY <1>1, <1>2, <1>3, SMTT(30)
<1>7. ToSet(Batch(p, job)) \subseteq ToSet(proc[p].msgs)
  <2> SUFFICES ASSUME NEW x \in ToSet(Batch(p, job)) PROVE x \in ToSet(proc[p].msgs)
    OBVIOUS
  <2>1. PICK i \in 1..(job.last - job.first + 1) : Batch(p, job)[i] = x
    BY <1>5, SetOf
  <2>2. proc[p].msgs[job.first + i - 1] \in ToSet(proc[p].msgs)
    BY <1>1, <1>6, SetOf
  <2>3. x = proc[p].msgs[job.first + i - 1]
    BY <1>5, <2>1
  <2> QED BY <2>2, <2>3
<1> QED BY <1>1, <1>2, <1>5, <1>7

\* There is a record for each message of the batch, in its order.
LEMMA RecordsShape ==
  ASSUME TypeOK, NEW p \in Procs, proc[p].job \in Jobs(p)
  PROVE  /\ Records(p) \in Seq(Lines) /\ Records(p) # <<>>
         /\ Len(Records(p)) = Len(Batch(p, proc[p].job)) /\ Len(Records(p)) \in Nat \ {0}
         /\ \A i \in 1..Len(Records(p)) :
              /\ Records(p)[i].msg = Batch(p, proc[p].job)[i]
              /\ Records(p)[i].state = "whole" /\ Records(p)[i].seq = proc[p].seq + i - 1
<1> DEFINE new == Batch(p, proc[p].job)
           rec(i) == [seq |-> proc[p].seq + i - 1, msg |-> new[i], state |-> "whole",
                      huge |-> new[i] \in Huge]
<1>1. new \in Seq(Messages) /\ Len(new) \in Nat \ {0} /\ \A i \in 1..Len(new) : new[i] \in Messages
  <2>1. new \in Seq(Messages) /\ Len(new) = proc[p].job.last - proc[p].job.first + 1
        /\ proc[p].job.first \in 1..proc[p].job.last /\ proc[p].job \in JobSet
    BY JobShape
  <2>2. Len(new) \in Nat \ {0}
    BY <2>1 DEF JobSet
  <2> QED BY <2>1, <2>2, SetOf
<1>2. proc[p].seq \in Nat
  BY DEF TypeOK, Places
<1>3. Records(p) = [i \in 1..Len(new) |-> rec(i)]
  BY DEF Records
<1> HIDE DEF new
<1>4. \A i \in 1..Len(new) : rec(i) \in Lines
  BY <1>1, <1>2 DEF Lines, LineStates
<1>5. Records(p) \in Seq(Lines) /\ Len(Records(p)) = Len(new)
  <2> HIDE DEF rec
  <2> QED BY <1>1, <1>3, <1>4
<1>6. \A i \in 1..Len(new) : Records(p)[i] = rec(i)
  BY <1>3
<1>7. Records(p) # <<>>
  BY <1>1, <1>5, EmptySeq
<1>8. \A i \in 1..Len(Records(p)) :
         Records(p)[i].msg = new[i] /\ Records(p)[i].state = "whole"
         /\ Records(p)[i].seq = proc[p].seq + i - 1
  <2> SUFFICES ASSUME NEW i \in 1..Len(new)
               PROVE  /\ Records(p)[i].msg = new[i] /\ Records(p)[i].state = "whole"
                      /\ Records(p)[i].seq = proc[p].seq + i - 1
    BY <1>5
  <2>1. Records(p)[i] = rec(i)
    BY <1>6
  <2> QED BY <2>1
<1> QED BY <1>1, <1>5, <1>7, <1>8 DEF new

\* Of an append that stopped half way there are the first records, and possibly
\* a part of the next one.
LEMMA TornShape ==
  ASSUME NEW records \in Seq(Lines), records # <<>>,
         \A i \in 1..Len(records) : records[i].state = "whole",
         NEW new \in Torn(records)
  PROVE  /\ new \in Seq(Lines) /\ Len(new) \in 0..Len(records)
         /\ \A i \in 1..Len(new) : new[i].msg = records[i].msg
<1>1. Len(records) \in Nat /\ \A i \in 1..Len(records) : records[i] \in Lines
  BY LenProperties
<1>2. PICK k \in 0..(Len(records) - 1) :
        \/ new = SubSeq(records, 1, k)
        \/ \E r \in Parts(records[k + 1]) : new = Append(SubSeq(records, 1, k), r)
  BY DEF Torn
<1> DEFINE t == SubSeq(records, 1, k)
<1>3. k \in Nat /\ k \in Int /\ k + 1 \in 1..Len(records) /\ \A i \in 1..k : i \in 1..Len(records)
  BY <1>1, <1>2
<1>4. \A i \in 1..k : records[i] \in Lines
  BY <1>1, <1>3
<1>5. t \in Seq(Lines) /\ Len(t) = k /\ \A i \in 1..k : t[i] = records[i]
  <2>1. /\ t \in Seq(Lines) /\ Len(t) = IF 1 <= k THEN k - 1 + 1 ELSE 0
        /\ \A i \in 1..(k - 1 + 1) : t[i] = records[1 + i - 1]
    BY <1>3, <1>4, SubSeqProperties
  <2> QED BY <1>3, <2>1
<1> HIDE DEF t
<1>6. CASE new = t
  BY <1>1, <1>3, <1>5, <1>6
<1>7. ASSUME NEW r \in Parts(records[k + 1]), new = Append(t, r)
      PROVE  /\ new \in Seq(Lines) /\ Len(new) \in 0..Len(records)
             /\ \A i \in 1..Len(new) : new[i].msg = records[i].msg
  <2>1. records[k + 1] \in Lines
    BY <1>1, <1>3
  <2>2. r \in Lines /\ r.msg = records[k + 1].msg
    <3>1. PICK st \in {"cut", "unended"}, h \in {FALSE, records[k + 1].huge} :
            r = [records[k + 1] EXCEPT !.state = st, !.huge = h]
      BY DEF Parts
    <3>2. h \in BOOLEAN /\ st \in LineStates
      BY <2>1 DEF Lines, LineStates
    <3> QED BY <2>1, <3>1, <3>2 DEF Lines
  <2>3. /\ new \in Seq(Lines) /\ Len(new) = k + 1
        /\ \A i \in 1..k : new[i] = t[i]
        /\ new[k + 1] = r
    BY <1>5, <1>7, <2>2, AppendProperties
  <2>4. ASSUME NEW i \in 1..(k + 1) PROVE new[i].msg = records[i].msg
    <3>1. CASE i \in 1..k
      BY <1>5, <2>3, <3>1
    <3>2. CASE i = k + 1
      BY <2>2, <2>3, <3>2
    <3> QED BY <1>3, <3>1, <3>2
  <2> QED BY <1>1, <1>3, <2>3, <2>4
<1> QED BY <1>2, <1>6, <1>7 DEF t

\* What becomes of an archive that something is appended to.
LEMMA GlueShape ==
  ASSUME NEW lines \in Seq(Lines), NEW new \in Seq(Lines),
         NEW g, g = Glued(lines, new)
  PROVE  /\ g \in Seq(Lines)
         /\ NoHuge(g) => NoHuge(lines)
         /\ Archived(lines) \subseteq
              Archived(g) \cup {m \in {Last(lines).msg} :
                             lines # <<>> /\ Last(lines).state = "unended"}
         /\ \A i \in 1..Len(new) :
              new[i].state = "whole" /\ (i > 1 \/ ~TornEnd(lines)) => new[i].msg \in Archived(g)
         /\ new = <<>> => g = lines
         /\ ~TornEnd(lines) => g = lines \o new
         /\ new # <<>> /\ Last(new).state = "whole" => ~TornEnd(g)
         /\ new # <<>> => EndsAs(g, new)
<1> DEFINE n == Len(lines)
           k == Len(new)
<1>1. n \in Nat /\ k \in Nat /\ (lines = <<>> <=> n = 0) /\ (new = <<>> <=> k = 0)
      /\ (\A i \in 1..n : lines[i] \in Lines) /\ (\A i \in 1..k : new[i] \in Lines)
  BY LenProperties, EmptySeq
<1>2. ASSUME g = lines \o new
      PROVE  /\ g \in Seq(Lines) /\ Len(g) = n + k
             /\ \A i \in 1..n : g[i] = lines[i]
             /\ \A i \in 1..k : g[n + i] = new[i]
  BY <1>1, <1>2, ConcatProperties
<1>3. CASE ~TornEnd(lines) \/ new = <<>>
  <2>1. g = lines \o new
    BY <1>3 DEF Glued, TornEnd
  <2>2. /\ g \in Seq(Lines) /\ Len(g) = n + k
        /\ \A i \in 1..n : g[i] = lines[i]
        /\ \A i \in 1..k : g[n + i] = new[i]
    BY <1>2, <2>1
  <2> HIDE DEF n, k
  <2>3. (\A i \in 1..n : i \in 1..(n + k)) /\ (\A i \in 1..k : n + i \in 1..(n + k))
    BY <1>1
  <2>4. NoHuge(g) => NoHuge(lines)
    BY <2>2, <2>3 DEF NoHuge, n
  <2>5. Archived(lines) \subseteq Archived(g)
    <3> SUFFICES ASSUME NEW i \in Legible(lines) PROVE lines[i].msg \in Archived(g)
      BY DEF Archived
    <3>1. i \in 1..n /\ lines[i].state \in {"whole", "unended", "legacy"}
      BY DEF Legible, n
    <3> QED BY <2>2, <2>3, <3>1 DEF Archived, Legible
  <2>6. ASSUME NEW i \in 1..k, new[i].state = "whole" PROVE new[i].msg \in Archived(g)
    <3>1. n + i \in 1..Len(g) /\ g[n + i] = new[i]
      BY <2>2, <2>3
    <3> QED BY <2>6, <3>1 DEF Archived, Legible
  <2>7. new = <<>> => g = lines
    BY <2>1, ConcatEmptySeq
  <2>8. new # <<>> => Last(g) = Last(new)
    BY <1>1, <2>2 DEF Last, k
  <2>9. new # <<>> /\ Last(new).state = "whole" => ~TornEnd(g)
    BY <2>8 DEF TornEnd
  <2> QED BY <2>1, <2>2, <2>4, <2>5, <2>6, <2>7, <2>8, <2>9 DEF EndsAs, k
<1>4. CASE TornEnd(lines) /\ new # <<>>
  <2> DEFINE l == Last(lines)
             x == [l EXCEPT !.state = IF new[1].state = "whole" THEN "bad" ELSE "cut",
                            !.huge = l.huge \/ new[1].huge]
  <2>1. n > 0 /\ k > 0 /\ l = lines[n] /\ l \in Lines /\ l.state \in {"cut", "unended"}
    BY <1>1, <1>4 DEF TornEnd, Last
  <2>2. g = (Front(lines) \o <<x>>) \o Tail(new)
    BY <1>4 DEF Glued, TornEnd
  <2>3. new[1] \in Lines
    BY <1>1, <2>1
  <2>4. x \in Lines /\ x.state = (IF new[1].state = "whole" THEN "bad" ELSE "cut")
        /\ (l.huge => x.huge)
    <3> HIDE DEF l
    <3> QED BY <2>1, <2>3 DEF Lines, LineStates
  <2> HIDE DEF x, l
  <2>5. <<x>> \in Seq(Lines) /\ Len(<<x>>) = 1 /\ <<x>>[1] = x
    BY <2>4
  <2>6. /\ Front(lines) \in Seq(Lines) /\ Len(Front(lines)) = n - 1
        /\ \A i \in 1..(n - 1) : Front(lines)[i] = lines[i]
    <3> DEFINE e == n - 1
    <3>1. e \in Int /\ e >= 0 /\ \A i \in 1..e : lines[i] \in Lines
      BY <1>1, <2>1
    <3>2. Front(lines) = SubSeq(lines, 1, e)
      BY DEF Front
    <3> HIDE DEF e
    <3>3. /\ SubSeq(lines, 1, e) \in Seq(Lines)
          /\ Len(SubSeq(lines, 1, e)) = IF 1 <= e THEN e - 1 + 1 ELSE 0
          /\ \A i \in 1..(e - 1 + 1) : SubSeq(lines, 1, e)[i] = lines[1 + i - 1]
      BY <3>1, SubSeqProperties
    <3>4. Front(lines) \in Seq(Lines) /\ Len(Front(lines)) = e
          /\ \A i \in 1..e : Front(lines)[i] = lines[i]
      BY <3>1, <3>2, <3>3
    <3> QED BY <3>4 DEF e
  <2>7. /\ Tail(new) \in Seq(Lines) /\ Len(Tail(new)) = k - 1
        /\ \A i \in 1..(k - 1) : Tail(new)[i] = new[i + 1]
    BY <1>4, HeadTailProperties
  <2>8. /\ Front(lines) \o <<x>> \in Seq(Lines) /\ Len(Front(lines) \o <<x>>) = n
        /\ \A i \in 1..(n - 1) : (Front(lines) \o <<x>>)[i] = lines[i]
        /\ (Front(lines) \o <<x>>)[n] = x
    <3> HIDE DEF n, k
    <3>1. /\ Front(lines) \o <<x>> \in Seq(Lines) /\ Len(Front(lines) \o <<x>>) = n - 1 + 1
          /\ \A i \in 1..(n - 1 + 1) : (Front(lines) \o <<x>>)[i] =
               IF i <= n - 1 THEN Front(lines)[i] ELSE <<x>>[i - (n - 1)]
      BY <2>5, <2>6, ConcatProperties
    <3> QED BY <1>1, <2>1, <2>5, <2>6, <3>1
  <2>9. /\ g \in Seq(Lines) /\ Len(g) = n + (k - 1)
        /\ \A i \in 1..(n - 1) : g[i] = lines[i]
        /\ g[n] = x
        /\ \A i \in 2..k : g[n + i - 1] = new[i]
    <3> DEFINE f == Front(lines) \o <<x>>
    <3>1. f \in Seq(Lines) /\ Len(f) = n /\ (\A i \in 1..(n - 1) : f[i] = lines[i]) /\ f[n] = x
      BY <2>8
    <3>2. g = f \o Tail(new)
      BY <2>2
    <3> HIDE DEF f, n, k
    <3>3. /\ g \in Seq(Lines) /\ Len(g) = n + (k - 1)
          /\ \A i \in 1..(n + (k - 1)) : g[i] = IF i <= n THEN f[i] ELSE Tail(new)[i - n]
      BY <2>7, <3>1, <3>2, ConcatProperties, SMTT(30)
    <3>4. ASSUME NEW i \in 1..n PROVE g[i] = f[i]
      <4>1. i \in 1..(n + (k - 1)) /\ i <= n
        BY <1>1, <2>1
      <4> QED BY <3>3, <4>1
    <3>5. ASSUME NEW i \in 2..k PROVE g[n + i - 1] = new[i]
      <4> DEFINE j == n + i - 1
      <4>1. j \in 1..(n + (k - 1)) /\ ~(j <= n) /\ j - n = i - 1
        BY <1>1, <2>1
      <4>2. i - 1 \in 1..(k - 1) /\ (i - 1) + 1 = i
        BY <1>1, <2>1
      <4> HIDE DEF j
      <4>3. g[j] = Tail(new)[j - n]
        BY <3>3, <4>1
      <4>4. Tail(new)[i - 1] = new[(i - 1) + 1]
        BY <2>7, <4>2
      <4> QED BY <4>1, <4>2, <4>3, <4>4 DEF j
    <3>6. n \in 1..n /\ \A i \in 1..(n - 1) : i \in 1..n
      BY <1>1, <2>1
    <3> QED BY <3>1, <3>3, <3>4, <3>5, <3>6
  <2>10. TornEnd(lines) /\ Last(lines) = l
    BY <1>4 DEF l
  <2> HIDE DEF n, k
  <2>11. /\ \A i \in 1..n : i \in 1..(n + (k - 1)) /\ (i = n \/ i \in 1..(n - 1))
         /\ \A i \in 2..k : n + i - 1 \in 1..(n + (k - 1))
         /\ n \in 1..n
    BY <1>1, <2>1
  <2>12. NoHuge(g) => NoHuge(lines)
    <3> SUFFICES ASSUME NoHuge(g), NEW i \in 1..n PROVE ~lines[i].huge
      BY DEF NoHuge, n
    <3>1. ~g[i].huge
      BY <2>9, <2>11 DEF NoHuge
    <3> QED BY <2>1, <2>4, <2>9, <2>11, <3>1
  <2>13. ASSUME NEW m \in Archived(lines)
         PROVE  m \in Archived(g) \cup {a \in {l.msg} : l.state = "unended"}
    <3>1. PICK i \in 1..n : lines[i].msg = m /\ lines[i].state \in {"whole", "unended", "legacy"}
      BY DEF Archived, Legible, n
    <3>2. CASE i = n
      BY <2>1, <3>1, <3>2
    <3>3. CASE i \in 1..(n - 1)
      <4>1. i \in 1..Len(g) /\ g[i] = lines[i]
        BY <2>9, <2>11, <3>3
      <4> QED BY <3>1, <4>1 DEF Archived, Legible
    <3> QED BY <2>11, <3>2, <3>3
  <2>14. ASSUME NEW i \in 1..k, new[i].state = "whole", i > 1 PROVE new[i].msg \in Archived(g)
    <3>1. i \in 2..k
      BY <2>14, <1>1
    <3>2. n + i - 1 \in 1..Len(g) /\ g[n + i - 1] = new[i]
      BY <2>9, <2>11, <3>1
    <3> QED BY <2>14, <3>2 DEF Archived, Legible
  <2>15. Last(g).state \in {"bad", "cut"} \/ Last(g) = Last(new)
    <3>1. CASE k = 1
      BY <1>1, <2>1, <2>4, <2>9, <3>1 DEF Last
    <3>2. CASE k > 1
      <4>1. k \in 2..k /\ n + k - 1 = n + (k - 1)
        BY <1>1, <3>2
      <4>2. g[n + k - 1] = new[k]
        BY <2>9, <4>1
      <4> QED BY <2>9, <4>1, <4>2 DEF Last, k
    <3> QED BY <1>1, <2>1, <3>1, <3>2
  <2>16. Last(new).state = "whole" => ~(Last(g).state \in {"cut", "unended"})
    <3>1. CASE k = 1
      <4>1. Last(new) = new[1] /\ Last(g) = x
        BY <1>1, <2>1, <2>9, <3>1 DEF Last, k
      <4> QED BY <2>4, <4>1
    <3>2. CASE k > 1
      <4>1. k \in 2..k /\ n + k - 1 = n + (k - 1)
        BY <1>1, <3>2
      <4>2. g[n + k - 1] = new[k]
        BY <2>9, <4>1
      <4>3. Last(g) = Last(new)
        BY <2>9, <4>1, <4>2 DEF Last, k
      <4> QED BY <4>3
    <3> QED BY <1>1, <2>1, <3>1, <3>2
  <2> QED BY <1>4, <2>9, <2>10, <2>12, <2>13, <2>14, <2>15, <2>16 DEF TornEnd, EndsAs, k
<1> QED BY <1>3, <1>4

-----------------------------------------------------------------------------
(* What a step does *)

Only(p) == \A q \in Procs \ {p} : proc'[q] = proc[q]

\* The session of a process, and that it goes on in it.
At(p) == proc[p].cur
Stays(p) == proc[p].pc \in Using /\ proc'[p].pc \in Using /\ proc'[p].cur = proc[p].cur

\* Nothing on disk changes: a process leaves its session, finds one to remove,
\* or goes on with no message less.
Rests(p) ==
  /\ Only(p) /\ UNCHANGED <<file, archive, trace, used, stored, failed, tears, shared>>
  /\ \/ proc'[p].cur = None /\ left' = left \cup {s \in {At(p)} : proc[p].pc \in Removing}
     \/ /\ At(p) = None /\ proc'[p].pc = "remove" /\ proc'[p].cur \in IDs
        /\ file[proc'[p].cur] # Gone /\ UNCHANGED left
     \/ /\ Stays(p) /\ UNCHANGED left
        /\ ToSet(proc[p].msgs) \subseteq ToSet(proc'[p].msgs)
        /\ ToSet(proc'[p].msgs) \subseteq ToSet(proc[p].msgs) \cup ({spoken'} \ 0..spoken)
        /\ proc'[p].pc = "append" => proc'[p].seq = Len(archive[At(p)])

Saves(p) ==
  /\ Only(p) /\ Stays(p) /\ proc'[p].msgs = proc[p].msgs /\ proc'[p].pc # "append"
  /\ file' = [file EXCEPT ![At(p)] = [msgs |-> proc[p].msgs, old |-> FALSE]]
  /\ stored' = [stored EXCEPT ![At(p)] = @ \cup (ToSet(proc[p].msgs) \ {0})]
  /\ UNCHANGED <<archive, trace, used, failed, tears, left, shared>>

Drops(p) ==
  /\ Only(p) /\ proc[p].pc = "remove" /\ proc'[p].pc = "removeArchive" /\ proc'[p].cur = At(p)
  /\ file' = [file EXCEPT ![At(p)] = Gone]
  /\ shared' = shared \cup {t \in {At(p)} : Others(p, At(p)) # {}}
  /\ UNCHANGED <<archive, trace, used, stored, failed, tears, left>>

DropsArchive(p) ==
  /\ Only(p) /\ proc[p].pc = "removeArchive" /\ proc'[p].pc = "removeTrace"
  /\ proc'[p].cur = At(p)
  /\ \/ archive' = [archive EXCEPT ![At(p)] = <<>>] /\ left' = left
     \/ archive' = archive /\ left' = left \cup {At(p)}
  /\ UNCHANGED <<file, trace, used, stored, failed, tears, shared>>

DropsTrace(p) ==
  /\ Only(p) /\ proc[p].pc = "removeTrace" /\ proc'[p].cur = None
  /\ \/ trace' = trace \ {At(p)} /\ left' = left
     \/ trace' = trace /\ left' = left \cup {At(p)}
  /\ UNCHANGED <<file, archive, used, stored, failed, tears, shared>>

\* A process enters a session.
Enters(p) ==
  /\ Only(p) /\ proc'[p].pc = "idle" /\ proc'[p].cur \in IDs
  /\ trace' = trace \cup {proc'[p].cur} /\ used' = used \cup {proc'[p].cur}

Opens(p) ==
  /\ Enters(p) /\ At(p) = None /\ proc'[p].cur \in Unused /\ proc'[p].msgs = <<>>
  /\ UNCHANGED <<file, archive, stored, failed, tears, left, shared>>

Resumes(p) ==
  /\ Enters(p) /\ At(p) = None
  /\ file[proc'[p].cur] # Gone /\ proc'[p].msgs = file[proc'[p].cur].msgs
  /\ shared' = shared \cup {t \in {proc'[p].cur} : Others(p, proc'[p].cur) # {}}
  /\ UNCHANGED <<file, archive, stored, failed, tears, left>>

\* Messages have left the conversation, or the process has left them behind in
\* a session that is closed.
Replaces(p, batch) ==
  \/ /\ Only(p) /\ Stays(p) /\ proc'[p].pc # "append" /\ UNCHANGED <<trace, used>>
     /\ ToSet(proc[p].msgs) \subseteq ToSet(proc'[p].msgs) \cup ToSet(batch)
     /\ ToSet(proc'[p].msgs) \subseteq ToSet(proc[p].msgs) \cup {0}
  \/ Enters(p) /\ proc'[p].cur \in Unused /\ proc'[p].msgs = <<>>

\* Nothing can be archived.
Refuses(p) ==
  /\ proc[p].pc \in Using /\ ~NoHuge(archive[At(p)])
  /\ \E batch \in Conversations : Replaces(p, batch)
  /\ failed \subseteq failed'
  /\ UNCHANGED <<file, archive, stored, tears, left, shared>>

Archives(p) ==
  /\ proc[p].pc = "append" /\ Write(p, Records(p)) /\ Replaces(p, Batch(p, proc[p].job))
  /\ UNCHANGED <<file, stored, failed, tears, left, shared>>

\* An append stops half way, and its messages are in the file or counted as failed.
Tears(p) ==
  /\ proc[p].pc = "append" /\ \E new \in Torn(Records(p)) : Write(p, new)
  /\ tears' = [tears EXCEPT ![At(p)] = @ + 1]
  /\ \/ /\ Replaces(p, Batch(p, proc[p].job))
        /\ failed' = failed \cup ToSet(Batch(p, proc[p].job))
     \/ Only(p) /\ proc'[p].cur = None /\ UNCHANGED <<trace, used, failed>>
  /\ UNCHANGED <<file, stored, left, shared>>

Ages(s) ==
  /\ file[s] # Gone /\ file' = [file EXCEPT ![s].old = TRUE]
  /\ UNCHANGED <<archive, trace, proc, used, stored, failed, tears, left, shared>>

Moves(p) ==
  /\ spoken' \in {spoken, spoken + 1}
  /\ \/ Rests(p) \/ Saves(p) \/ Drops(p) \/ DropsArchive(p) \/ DropsTrace(p) \/ Opens(p)
     \/ Resumes(p) \/ Refuses(p) \/ Archives(p) \/ Tears(p)

\* The initial sessions are an old one, or none.
LEMMA FormInit == Init => FormInv
<1> SUFFICES ASSUME Init PROVE FormInv
  OBVIOUS
<1>1. PICK old \in {{}, {CHOOSE s \in IDs : TRUE}}, age \in BOOLEAN :
        /\ file = [s \in IDs |-> IF s \in old THEN [msgs |-> <<0>>, old |-> age] ELSE Gone]
        /\ archive = [s \in IDs |-> IF s \in old THEN <<LegacyLine>> ELSE <<>>]
        /\ used = old
  BY DEF Init
<1>2. 0 \in Messages /\ <<0>> \in Conversations /\ <<>> \in Conversations
  BY BoundAssumption DEF Messages, Conversations
<1>3. LegacyLine \in Lines /\ <<LegacyLine>> \in Seq(Lines) /\ <<>> \in Seq(Lines)
  BY <1>2 DEF LegacyLine, Lines, LineStates
<1>4. file \in [IDs -> Files \cup {Gone}] /\ archive \in [IDs -> Seq(Lines)]
  <2> HIDE DEF LegacyLine
  <2> QED BY <1>1, <1>2, <1>3 DEF Files
<1>5. Idle \in Places /\ Idle.pc = "off" /\ Idle.cur = None
  BY <1>2 DEF Idle, Places, Positions
<1>6. used \subseteq IDs
  BY <1>1, SetAssumption
<1>7. /\ proc = [p \in Procs |-> Idle] /\ trace = {} /\ left = {} /\ shared = {} /\ spoken = 0
      /\ stored = [s \in IDs |-> {}] /\ failed = {} /\ tears = [s \in IDs |-> 0]
  BY DEF Init
<1>8. TypeOK
  <2> HIDE DEF Idle
  <2> QED BY <1>2, <1>4, <1>5, <1>6, <1>7 DEF TypeOK
<1>9. PlaceOK
  BY <1>5, <1>7 DEF PlaceOK
<1> QED BY <1>8, <1>9 DEF FormInv

\* A step of one process.
LEMMA OneStep ==
  ASSUME TypeOK, NEW p \in Procs, NEW r \in Places, proc' = [proc EXCEPT ![p] = r]
  PROVE  Only(p) /\ proc'[p] = r /\ proc' \in [Procs -> Places]
BY DEF TypeOK, Only

\* What goes on after an archiving, with its error or without.
LEMMA FinishShape ==
  ASSUME FormInv, NEW p \in Procs, proc[p].pc \in Using, NEW job \in Jobs(p), Finish(p, job)
  PROVE  /\ Replaces(p, Batch(p, job)) /\ proc' \in [Procs -> Places]
         /\ trace' \subseteq IDs /\ used' \subseteq IDs
         /\ proc'[p].pc \in {"write", "idle"} /\ proc'[p].cur \in IDs
<1> DEFINE msgs == proc[p].msgs
<1>a. proc[p] \in Places /\ msgs \in Seq(Messages) /\ trace \subseteq IDs /\ used \subseteq IDs
  BY DEF FormInv, TypeOK, Places, Conversations
<1>b. proc[p].cur \in IDs
  BY <1>a DEF FormInv, PlaceOK, Places, Using
<1>c. 0 \in Messages /\ <<>> \in Conversations
  BY BoundAssumption DEF Messages, Conversations
<1>j. /\ job \in JobSet /\ Len(msgs) \in Nat
      /\ job.first \in 1..job.last /\ job.last \in 1..Len(msgs)
      /\ Batch(p, job) \in Seq(Messages) /\ Len(Batch(p, job)) = job.last - job.first + 1
      /\ \A i \in 1..(job.last - job.first + 1) : Batch(p, job)[i] = msgs[job.first + i - 1]
  BY JobShape DEF FormInv
<1>k. job.first \in Nat /\ job.last \in Nat /\ 1 <= job.last /\ job.last <= Len(msgs)
  BY <1>j DEF JobSet
<1>1. CASE job.then = "compact"
  <2> DEFINE rest == SubSeq(msgs, job.last + 1, Len(msgs))
             new == <<0>> \o rest
             r == [proc[p] EXCEPT !.pc = "write", !.job = None, !.msgs = new]
  <2>1. job.first = 1
    BY <1>1 DEF Jobs
  <2>2. proc' = [proc EXCEPT ![p].pc = "write", ![p].job = None, ![p].msgs = new]
        /\ UNCHANGED <<trace, used>>
    BY <1>1 DEF Finish
  <2>3. /\ rest \in Seq(Messages) /\ Len(rest) = Len(msgs) - job.last
        /\ \A i \in 1..(Len(msgs) - job.last) : rest[i] = msgs[job.last + i]
    <3> DEFINE n == Len(msgs)
               f == job.last + 1
    <3>1. f \in Int /\ n \in Int /\ \A i \in f..n : msgs[i] \in Messages
      BY <1>a, <1>j, SetOf
    <3>2. n - f + 1 = n - job.last /\ (f <= n \/ n - job.last = 0)
      BY <1>j DEF JobSet
    <3>3. rest = SubSeq(msgs, f, n)
      OBVIOUS
    <3> HIDE DEF f, rest
    <3>4. /\ rest \in Seq(Messages) /\ Len(rest) = IF f <= n THEN n - f + 1 ELSE 0
          /\ \A i \in 1..(n - f + 1) : rest[i] = msgs[f + i - 1]
      <4> HIDE DEF n
      <4> QED BY <3>1, <3>3, SubSeqProperties
    <3>5. \A i \in 1..(n - job.last) : f + i - 1 = job.last + i
      BY <1>j DEF f, JobSet
    <3> QED BY <3>2, <3>4, <3>5
  <2>4. /\ new \in Seq(Messages) /\ Len(new) = 1 + (Len(msgs) - job.last)
        /\ new[1] = 0
        /\ \A i \in 1..(Len(msgs) - job.last) : new[i + 1] = msgs[job.last + i]
    <3> HIDE DEF rest
    <3>1. <<0>> \in Seq(Messages) /\ Len(<<0>>) = 1 /\ <<0>>[1] = 0
      BY <1>c
    <3>2. /\ new \in Seq(Messages) /\ Len(new) = 1 + Len(rest)
          /\ \A i \in 1..(1 + Len(rest)) : new[i] = IF i <= 1 THEN <<0>>[i] ELSE rest[i - 1]
      BY <2>3, <3>1, ConcatProperties
    <3>3. 1 \in 1..(1 + Len(rest)) /\ Len(rest) \in Nat
      BY <1>j, <2>3
    <3>4. new[1] = 0
      BY <3>1, <3>2, <3>3
    <3>5. ASSUME NEW i \in 1..(Len(msgs) - job.last) PROVE new[i + 1] = msgs[job.last + i]
      <4> DEFINE j == i + 1
      <4>1. j \in 1..(1 + Len(rest)) /\ ~(j <= 1) /\ j - 1 = i
        BY <1>j, <2>3
      <4> HIDE DEF j
      <4>2. new[j] = rest[j - 1]
        BY <3>2, <4>1
      <4> QED BY <2>3, <4>1, <4>2 DEF j
    <3> QED BY <2>3, <3>2, <3>4, <3>5
  <2> HIDE DEF new
  <2>5. r \in Places
    BY <1>a, <2>4 DEF Places, Positions, Conversations
  <2>6. proc' = [proc EXCEPT ![p] = r]
    BY <1>a, <2>2 DEF FormInv, TypeOK
  <2>7. Only(p) /\ proc'[p] = r /\ proc' \in [Procs -> Places]
    <3> HIDE DEF r
    <3> QED BY <2>5, <2>6, OneStep DEF FormInv
  <2>8. r.pc = "write" /\ r.cur = proc[p].cur /\ r.msgs = new
    BY <1>a DEF Places
  <2>9. ToSet(msgs) \subseteq ToSet(new) \cup ToSet(Batch(p, job))
    <3> SUFFICES ASSUME NEW x \in ToSet(msgs) PROVE x \in ToSet(new) \cup ToSet(Batch(p, job))
      OBVIOUS
    <3>1. PICK i \in 1..Len(msgs) : msgs[i] = x
      BY <1>a, SetOf
    <3>2. CASE i \in 1..job.last
      <4>1. i \in 1..Len(Batch(p, job)) /\ Batch(p, job)[i] = msgs[i]
        BY <1>j, <2>1, <3>2
      <4> QED BY <1>j, <3>1, <4>1, SetOf
    <3>3. CASE i \in (job.last + 1)..Len(msgs)
      <4> DEFINE k == i - job.last
      <4>0. i \in Nat /\ job.last < i /\ i <= Len(msgs) /\ Len(new) = 1 + (Len(msgs) - job.last)
        BY <1>j, <1>k, <2>4, <3>3
      <4>1. k \in 1..(Len(msgs) - job.last) /\ job.last + k = i /\ k + 1 \in 1..Len(new)
        <5> HIDE DEF msgs
        <5> QED BY <1>j, <1>k, <4>0, SMTT(30)
      <4>2. new[k + 1] = x
        BY <2>4, <3>1, <4>1
      <4> QED BY <2>4, <4>1, <4>2, SetOf
    <3> QED BY <1>j, <3>1, <3>2, <3>3
  <2>10. ToSet(new) \subseteq ToSet(msgs) \cup {0}
    <3> SUFFICES ASSUME NEW x \in ToSet(new), x # 0 PROVE x \in ToSet(msgs)
      OBVIOUS
    <3>1. PICK i \in 1..(1 + (Len(msgs) - job.last)) : new[i] = x
      BY <2>4, SetOf
    <3>2. i # 1
      BY <2>4, <3>1
    <3> DEFINE k == i - 1
    <3>3. k \in 1..(Len(msgs) - job.last) /\ k + 1 = i /\ job.last + k \in 1..Len(msgs)
      <4> HIDE DEF msgs
      <4> QED BY <1>j, <1>k, <3>1, <3>2
    <3>4. x = msgs[job.last + k]
      BY <2>4, <3>1, <3>3
    <3> QED BY <1>a, <3>3, <3>4, SetOf
  <2> HIDE DEF r
  <2> QED BY <1>a, <1>b, <2>2, <2>7, <2>8, <2>9, <2>10 DEF Replaces, Stays, Using
<1>2. CASE job.then = "shrink"
  <2> DEFINE new == [msgs EXCEPT ![job.first] = 0]
             r == [proc[p] EXCEPT !.pc = "write", !.job = None, !.msgs = new]
  <2>1. job.first = job.last /\ job.first \in 1..Len(msgs)
    BY <1>2, <1>j DEF Jobs
  <2>2. proc' = [proc EXCEPT ![p].pc = "write", ![p].job = None, ![p].msgs[job.first] = 0]
        /\ UNCHANGED <<trace, used>>
    BY <1>2 DEF Finish
  <2>3. /\ new \in Seq(Messages) /\ Len(new) = Len(msgs)
        /\ \A i \in 1..Len(msgs) : new[i] = IF i = job.first THEN 0 ELSE msgs[i]
    BY <1>a, <1>c, <2>1, ExceptSeq
  <2>4. r \in Places
    <3> HIDE DEF new
    <3> QED BY <1>a, <2>3 DEF Places, Positions, Conversations
  <2>5. proc' = [proc EXCEPT ![p] = r]
    BY <1>a, <2>2 DEF FormInv, TypeOK, Places
  <2> HIDE DEF new
  <2>6. Only(p) /\ proc'[p] = r /\ proc' \in [Procs -> Places]
    <3> HIDE DEF r
    <3> QED BY <2>4, <2>5, OneStep DEF FormInv
  <2>7. r.pc = "write" /\ r.cur = proc[p].cur /\ r.msgs = new
    BY <1>a DEF Places
  <2>8. ToSet(msgs) \subseteq ToSet(new) \cup ToSet(Batch(p, job))
    <3> SUFFICES ASSUME NEW x \in ToSet(msgs) PROVE x \in ToSet(new) \cup ToSet(Batch(p, job))
      OBVIOUS
    <3>1. PICK i \in 1..Len(msgs) : msgs[i] = x
      BY <1>a, SetOf
    <3>2. CASE i = job.first
      <4>0. job.last - job.first + 1 = 1 /\ job.first + 1 - 1 = job.first
        BY <1>k, <2>1
      <4>1. Len(Batch(p, job)) = 1 /\ 1 \in 1..(job.last - job.first + 1)
        BY <1>j, <4>0
      <4>2. Batch(p, job)[1] = msgs[job.first + 1 - 1]
        <5> HIDE DEF msgs
        <5> QED BY <1>j, <4>1
      <4>3. Batch(p, job)[1] = x
        BY <3>1, <3>2, <4>0, <4>2
      <4> QED BY <1>j, <4>1, <4>3, SetOf
    <3>3. CASE i # job.first
      BY <2>3, <3>1, <3>3, SetOf
    <3> QED BY <3>2, <3>3
  <2>9. ToSet(new) \subseteq ToSet(msgs) \cup {0}
    <3> SUFFICES ASSUME NEW x \in ToSet(new), x # 0 PROVE x \in ToSet(msgs)
      OBVIOUS
    <3>1. PICK i \in 1..Len(msgs) : new[i] = x
      BY <2>3, SetOf
    <3>2. msgs[i] = x
      BY <2>3, <3>1
    <3> QED BY <1>a, <3>2, SetOf
  <2> HIDE DEF r
  <2> QED BY <1>a, <1>b, <2>2, <2>6, <2>7, <2>8, <2>9 DEF Replaces, Stays, Using
<1>3. CASE job.then = "clear" /\ \E s \in Unused : Open(p, s, <<>>)
  <2>1. PICK s \in Unused : Open(p, s, <<>>)
    BY <1>3
  <2> DEFINE r == [proc[p] EXCEPT !.pc = "idle", !.cur = s, !.msgs = <<>>, !.job = None]
  <2>2. s \in IDs
    BY DEF Unused
  <2>3. r \in Places
    BY <1>a, <1>c, <2>2 DEF Places, Positions
  <2>4. proc' = [proc EXCEPT ![p] = r] /\ trace' = trace \cup {s} /\ used' = used \cup {s}
    BY <1>a, <2>1 DEF FormInv, TypeOK, Open
  <2>5. Only(p) /\ proc'[p] = r /\ proc' \in [Procs -> Places]
    <3> HIDE DEF r
    <3> QED BY <2>3, <2>4, OneStep DEF FormInv
  <2>6. r.pc = "idle" /\ r.cur = s /\ r.msgs = <<>>
    BY <1>a DEF Places
  <2> HIDE DEF r
  <2> QED BY <1>a, <2>2, <2>4, <2>5, <2>6 DEF Replaces, Enters
<1> QED BY <1>1, <1>2, <1>3 DEF Finish

\* Where the process of a step is after it.
LEMMA PlaceStep ==
  ASSUME FormInv, NEW p \in Procs, Only(p), proc' \in [Procs -> Places],
         proc'[p].pc \in {"off", "clean", "pick"} <=> proc'[p].cur = None,
         proc'[p].pc = "rename" => proc'[p].temp = [msgs |-> proc'[p].msgs, old |-> FALSE],
         proc'[p].pc = "append" => /\ proc'[p].msgs = proc[p].msgs
                                   /\ proc'[p].job \in Jobs(p)
  PROVE  PlaceOK'
<1>1. ASSUME NEW q \in Procs, proc'[q].msgs = proc[q].msgs PROVE Jobs(q)' = Jobs(q)
  BY <1>1 DEF Jobs
<1>2. ASSUME NEW q \in Procs, q # p
      PROVE  /\ proc'[q].pc \in {"off", "clean", "pick"} <=> proc'[q].cur = None
             /\ proc'[q].pc = "rename" => proc'[q].temp = [msgs |-> proc'[q].msgs, old |-> FALSE]
             /\ proc'[q].pc = "append" => proc'[q].job \in Jobs(q)'
  <2>1. proc'[q] = proc[q]
    BY <1>2 DEF Only
  <2> QED BY <1>1, <2>1 DEF FormInv, PlaceOK
<1>3. proc'[p].pc = "append" => proc'[p].job \in Jobs(p)'
  BY <1>1
<1> QED BY <1>2, <1>3 DEF PlaceOK

\* The sets a step leaves alone are still of their types.
LEMMA TypeStep ==
  ASSUME TypeOK, proc' \in [Procs -> Places],
         (UNCHANGED file) \/ file' \in [IDs -> Files \cup {Gone}],
         (UNCHANGED archive) \/ archive' \in [IDs -> Seq(Lines)],
         trace' \subseteq IDs, used' \subseteq IDs, left' \subseteq IDs, shared' \subseteq IDs,
         (UNCHANGED <<spoken, stored>>)
           \/ (spoken' \in Messages /\ stored' \in [IDs -> SUBSET (1..spoken')]),
         failed' \subseteq Messages, (UNCHANGED tears) \/ tears' \in [IDs -> Nat]
  PROVE  TypeOK'
BY DEF TypeOK

\* What is written at the end of an archive.
LEMMA WriteShape ==
  ASSUME TypeOK, NEW p \in Procs, At(p) \in IDs, NEW new \in Seq(Lines), Write(p, new)
  PROVE  /\ archive' \in [IDs -> Seq(Lines)]
         /\ archive' = [archive EXCEPT ![At(p)] = Glued(archive[At(p)], new)]
         /\ archive'[At(p)] = Glued(archive[At(p)], new)
         /\ \A s \in IDs \ {At(p)} : archive'[s] = archive[s]
<1> DEFINE g == Glued(archive[At(p)], new)
<1>1. archive \in [IDs -> Seq(Lines)] /\ archive[At(p)] \in Seq(Lines)
  BY DEF TypeOK
<1>2. g \in Seq(Lines)
  BY <1>1, GlueShape
<1>3. archive' = [archive EXCEPT ![At(p)] = g]
  BY <1>1 DEF Write, At
<1> HIDE DEF g
<1>4. /\ archive' \in [IDs -> Seq(Lines)] /\ archive'[At(p)] = g
      /\ \A s \in IDs \ {At(p)} : archive'[s] = archive[s]
  BY <1>1, <1>2, <1>3
<1> QED BY <1>3, <1>4 DEF g

\* The records of a batch, or what there is of them.
LEMMA BatchLines ==
  ASSUME FormInv, NEW p \in Procs, proc[p].pc = "append"
  PROVE  /\ proc[p].job \in Jobs(p) /\ Records(p) \in Seq(Lines)
         /\ \A new \in Torn(Records(p)) : new \in Seq(Lines)
         /\ ToSet(Batch(p, proc[p].job)) \subseteq Messages
<1>1. proc[p].job \in Jobs(p)
  BY DEF FormInv, PlaceOK
<1>2. /\ Records(p) \in Seq(Lines) /\ Records(p) # <<>>
      /\ \A i \in 1..Len(Records(p)) : Records(p)[i].state = "whole"
  BY <1>1, RecordsShape DEF FormInv
<1>3. \A new \in Torn(Records(p)) : new \in Seq(Lines)
  BY <1>2, TornShape
<1>4. ToSet(Batch(p, proc[p].job)) \subseteq Messages
  BY <1>1, JobShape, SetOf DEF FormInv
<1> QED BY <1>1, <1>2, <1>3, <1>4

\* Every step of a process is one of the moves.
LEMMA StepShape ==
  ASSUME FormInv, HeardOK, NEW p \in Procs,
         \/ StartProcess(p) \/ Inspect(p) \/ RemoveFile(p) \/ RemoveArchive(p) \/ RemoveTrace(p)
         \/ Cleaned(p) \/ NewSession(p) \/ Resume(p) \/ NotFound(p)
         \/ Speak(p) \/ WriteTemp(p) \/ Rename(p) \/ SaveFails(p) \/ BeginArchive(p)
         \/ AppendArchive(p) \/ AppendFails(p) \/ Exit(p) \/ Crash(p)
  PROVE  FormInv' /\ Moves(p)
<1>a. TypeOK /\ PlaceOK
  BY DEF FormInv
<1>b. /\ proc \in [Procs -> Places] /\ proc[p] \in Places
      /\ trace \subseteq IDs /\ used \subseteq IDs /\ left \subseteq IDs /\ shared \subseteq IDs
      /\ failed \subseteq Messages
  BY <1>a DEF TypeOK
<1>c. /\ proc[p].pc \in {"off", "clean", "pick"} <=> At(p) = None
      /\ At(p) # None => At(p) \in IDs
  BY <1>a, <1>b DEF PlaceOK, At, Places
<1>d. None \notin IDs
  BY SetAssumption
\* A change of places, in which nothing of the disk is touched.
<1>e. ASSUME NEW r \in Places, proc' = [proc EXCEPT ![p] = r]
      PROVE  Only(p) /\ proc'[p] = r /\ proc' \in [Procs -> Places]
  BY <1>a, <1>e, OneStep
<1>f. ASSUME UNCHANGED <<disk, used, spoken, stored, failed, tears, shared>>,
             left' \subseteq IDs, proc' \in [Procs -> Places], PlaceOK'
      PROVE  FormInv'
  BY <1>a, <1>b, <1>f, TypeStep DEF FormInv, disk
<1>n. ASSUME UNCHANGED spoken,
             \/ Rests(p) \/ Saves(p) \/ Drops(p) \/ DropsArchive(p) \/ DropsTrace(p) \/ Opens(p)
             \/ Resumes(p) \/ Refuses(p) \/ Archives(p) \/ Tears(p)
      PROVE  Moves(p)
  BY <1>n DEF Moves
<1>i. Idle \in Places /\ Idle.pc = "off" /\ Idle.cur = None
  BY DEF Idle, Places, Positions, Conversations
<1>1. CASE StartProcess(p)
  <2> DEFINE c == IF Retention THEN "clean" ELSE "pick"
             v == {s \in IDs : file[s] # Gone}
             r == [proc[p] EXCEPT !.pc = c, !.visit = v]
  <2>1. c \in {"clean", "pick"} /\ v \in SUBSET IDs
    OBVIOUS
  <2>2. proc[p].pc = "off" /\ proc' = [proc EXCEPT ![p].pc = c, ![p].visit = v]
    BY <1>1 DEF StartProcess
  <2>3. UNCHANGED <<disk, used, spoken, stored, failed, tears, left, shared>>
    BY <1>1 DEF StartProcess
  <2> HIDE DEF c, v
  <2>4. r \in Places /\ r.pc = c /\ r.cur = At(p) /\ proc' = [proc EXCEPT ![p] = r]
    BY <1>b, <2>1, <2>2 DEF Places, Positions, At
  <2> HIDE DEF r
  <2>5. Only(p) /\ proc'[p] = r /\ proc' \in [Procs -> Places] /\ At(p) = None
    BY <1>c, <1>e, <2>2, <2>4
  <2>6. PlaceOK'
    BY <2>1, <2>4, <2>5, PlaceStep
  <2>7. Rests(p)
    BY <1>d, <2>2, <2>3, <2>4, <2>5 DEF Rests, disk, Removing
  <2> QED BY <1>b, <1>f, <2>3, <2>5, <2>6, <2>7, <1>n
<1>2. CASE Inspect(p)
  <2>1. UNCHANGED <<disk, used, spoken, stored, failed, tears, left, shared>> /\ At(p) = None
    BY <1>2, <1>c DEF Inspect, ghosts
  <2>2. PICK s \in proc[p].visit :
          IF Decodes(s) /\ file[s].old
          THEN proc' = [proc EXCEPT ![p].pc = "remove", ![p].cur = s, ![p].visit = @ \ {s}]
          ELSE proc' = [proc EXCEPT ![p].visit = @ \ {s}]
    BY <1>2 DEF Inspect
  <2>3. s \in IDs /\ proc[p].pc = "clean"
    BY <1>2, <1>b DEF Inspect, Places
  <2>4. CASE Decodes(s) /\ file[s].old
    <3> DEFINE r == [proc[p] EXCEPT !.pc = "remove", !.cur = s, !.visit = @ \ {s}]
    <3>1. r \in Places /\ r.pc = "remove" /\ r.cur = s /\ proc' = [proc EXCEPT ![p] = r]
      BY <1>b, <2>2, <2>3, <2>4 DEF Places, Positions
    <3> HIDE DEF r
    <3>2. Only(p) /\ proc'[p] = r /\ proc' \in [Procs -> Places]
      BY <1>e, <3>1
    <3>3. PlaceOK'
      BY <1>d, <2>3, <3>1, <3>2, PlaceStep
    <3>4. Rests(p)
      BY <2>1, <2>3, <2>4, <3>1, <3>2 DEF Rests, Decodes, disk
    <3> QED BY <1>b, <1>f, <2>1, <3>2, <3>3, <3>4, <1>n
  <2>5. CASE ~(Decodes(s) /\ file[s].old)
    <3> DEFINE r == [proc[p] EXCEPT !.visit = @ \ {s}]
    <3>1. r \in Places /\ r.pc = "clean" /\ r.cur = At(p) /\ proc' = [proc EXCEPT ![p] = r]
      BY <1>b, <2>2, <2>3, <2>5 DEF Places, Positions, At
    <3> HIDE DEF r
    <3>2. Only(p) /\ proc'[p] = r /\ proc' \in [Procs -> Places]
      BY <1>e, <3>1
    <3>3. PlaceOK'
      BY <2>1, <3>1, <3>2, PlaceStep
    <3>4. Rests(p)
      BY <2>1, <2>3, <3>1, <3>2 DEF Rests, Removing, disk
    <3> QED BY <1>b, <1>f, <2>1, <3>2, <3>3, <3>4, <1>n
  <2> QED BY <2>4, <2>5
<1>3. CASE RemoveFile(p)
  <2>1. /\ UNCHANGED <<archive, trace, used, spoken, stored, failed, tears, left>>
        /\ proc[p].pc = "remove" /\ At(p) \in IDs
    BY <1>3, <1>c DEF RemoveFile
  <2>2. CASE /\ file' = [file EXCEPT ![At(p)] = Gone] /\ Goto(p, "removeArchive")
             /\ shared' = shared \cup {t \in {At(p)} : Others(p, At(p)) # {}}
    <3> DEFINE r == [proc[p] EXCEPT !.pc = "removeArchive"]
    <3>1. r \in Places /\ r.pc = "removeArchive" /\ r.cur = At(p)
          /\ proc' = [proc EXCEPT ![p] = r]
      BY <1>b, <2>2 DEF Places, Positions, At, Goto
    <3> HIDE DEF r
    <3>2. Only(p) /\ proc'[p] = r /\ proc' \in [Procs -> Places]
      BY <1>e, <3>1
    <3>3. PlaceOK'
      BY <1>d, <2>1, <3>1, <3>2, PlaceStep
    <3>4. file' \in [IDs -> Files \cup {Gone}]
      BY <1>a, <2>2 DEF TypeOK
    <3>5. shared' \subseteq IDs
      BY <1>b, <2>1, <2>2
    <3>6. FormInv'
      BY <1>a, <1>b, <2>1, <3>2, <3>3, <3>4, <3>5, TypeStep DEF FormInv
    <3>7. Drops(p)
      BY <2>1, <2>2, <3>1, <3>2 DEF Drops
    <3> QED BY <2>1, <3>6, <3>7, <1>n
  <2>3. CASE /\ proc' = [proc EXCEPT ![p].pc = "clean", ![p].cur = None]
             /\ UNCHANGED <<file, shared>>
    <3> DEFINE r == [proc[p] EXCEPT !.pc = "clean", !.cur = None]
    <3>1. r \in Places /\ r.pc = "clean" /\ r.cur = None /\ proc' = [proc EXCEPT ![p] = r]
      BY <1>b, <2>3 DEF Places, Positions
    <3> HIDE DEF r
    <3>2. Only(p) /\ proc'[p] = r /\ proc' \in [Procs -> Places]
      BY <1>e, <3>1
    <3>3. PlaceOK'
      BY <3>1, <3>2, PlaceStep
    <3>4. Rests(p)
      BY <2>1, <2>3, <3>1, <3>2 DEF Rests, Removing
    <3> QED BY <1>b, <1>f, <2>1, <2>3, <3>2, <3>3, <3>4, <1>n DEF disk
  <2> QED BY <1>3, <2>2, <2>3 DEF RemoveFile, At
<1>4. CASE RemoveArchive(p)
  <2> DEFINE r == [proc[p] EXCEPT !.pc = "removeTrace"]
  <2>1. /\ proc[p].pc = "removeArchive" /\ At(p) \in IDs
        /\ \/ archive' = [archive EXCEPT ![At(p)] = <<>>] /\ left' = left
           \/ archive' = archive /\ left' = left \cup {At(p)}
        /\ UNCHANGED <<file, trace, used, spoken, stored, failed, tears, shared>>
    BY <1>4, <1>c DEF RemoveArchive, RemoveError, At
  <2>2. r \in Places /\ r.pc = "removeTrace" /\ r.cur = At(p) /\ proc' = [proc EXCEPT ![p] = r]
    BY <1>4, <1>b DEF RemoveArchive, Places, Positions, At, Goto
  <2> HIDE DEF r
  <2>3. Only(p) /\ proc'[p] = r /\ proc' \in [Procs -> Places]
    BY <1>e, <2>2
  <2>4. PlaceOK'
    BY <1>d, <2>1, <2>2, <2>3, PlaceStep
  <2>5. archive' \in [IDs -> Seq(Lines)] /\ left' \subseteq IDs
    BY <1>a, <1>b, <2>1, EmptySeq DEF TypeOK
  <2>6. FormInv'
    BY <1>a, <1>b, <2>1, <2>3, <2>4, <2>5, TypeStep DEF FormInv
  <2>7. DropsArchive(p)
    BY <2>1, <2>2, <2>3 DEF DropsArchive
  <2> QED BY <2>1, <2>6, <2>7, <1>n
<1>5. CASE RemoveTrace(p)
  <2> DEFINE r == [proc[p] EXCEPT !.pc = "clean", !.cur = None]
  <2>1. /\ proc[p].pc = "removeTrace" /\ At(p) \in IDs
        /\ \/ trace' = trace \ {At(p)} /\ left' = left
           \/ trace' = trace /\ left' = left \cup {At(p)}
        /\ UNCHANGED <<file, archive, used, spoken, stored, failed, tears, shared>>
    BY <1>5, <1>c DEF RemoveTrace, RemoveError, At
  <2>2. r \in Places /\ r.pc = "clean" /\ r.cur = None /\ proc' = [proc EXCEPT ![p] = r]
    BY <1>5, <1>b DEF RemoveTrace, Places, Positions
  <2> HIDE DEF r
  <2>3. Only(p) /\ proc'[p] = r /\ proc' \in [Procs -> Places]
    BY <1>e, <2>2
  <2>4. PlaceOK'
    BY <2>2, <2>3, PlaceStep
  <2>5. trace' \subseteq IDs /\ left' \subseteq IDs
    BY <1>b, <2>1
  <2>6. FormInv'
    BY <1>a, <1>b, <2>1, <2>3, <2>4, <2>5, TypeStep DEF FormInv
  <2>7. DropsTrace(p)
    BY <2>1, <2>2, <2>3 DEF DropsTrace
  <2> QED BY <2>1, <2>6, <2>7, <1>n
<1>6. CASE Cleaned(p)
  <2> DEFINE r == [proc[p] EXCEPT !.pc = "pick"]
  <2>1. /\ proc[p].pc = "clean" /\ At(p) = None
        /\ UNCHANGED <<disk, used, spoken, stored, failed, tears, left, shared>>
    BY <1>6, <1>c DEF Cleaned, ghosts
  <2>2. r \in Places /\ r.pc = "pick" /\ r.cur = None /\ proc' = [proc EXCEPT ![p] = r]
    BY <1>6, <1>b, <2>1 DEF Cleaned, Places, Positions, Goto, At
  <2> HIDE DEF r
  <2>3. Only(p) /\ proc'[p] = r /\ proc' \in [Procs -> Places]
    BY <1>e, <2>2
  <2>4. PlaceOK'
    BY <2>2, <2>3, PlaceStep
  <2>5. Rests(p)
    BY <2>1, <2>2, <2>3 DEF Rests, Removing, disk
  <2> QED BY <1>b, <1>f, <2>1, <2>3, <2>4, <2>5, <1>n
<1>g. ASSUME NEW s \in IDs, NEW msgs \in Conversations, proc[p].pc = "pick", Open(p, s, msgs)
      PROVE  /\ Enters(p) /\ At(p) = None /\ proc'[p].cur = s /\ proc'[p].msgs = msgs
             /\ proc' \in [Procs -> Places] /\ PlaceOK'
             /\ trace' \subseteq IDs /\ used' \subseteq IDs
  <2> DEFINE r == [proc[p] EXCEPT !.pc = "idle", !.cur = s, !.msgs = msgs, !.job = None]
  <2>1. r \in Places /\ r.pc = "idle" /\ r.cur = s /\ r.msgs = msgs
    BY <1>b DEF Places, Positions
  <2>2. proc' = [proc EXCEPT ![p] = r] /\ trace' = trace \cup {s} /\ used' = used \cup {s}
    BY <1>b, <1>g DEF Open
  <2> HIDE DEF r
  <2>3. Only(p) /\ proc'[p] = r /\ proc' \in [Procs -> Places]
    BY <1>e, <2>1, <2>2
  <2>4. PlaceOK'
    BY <1>d, <2>1, <2>3, PlaceStep
  <2> QED BY <1>b, <1>c, <1>g, <2>1, <2>2, <2>3, <2>4 DEF Enters
<1>7. CASE NewSession(p)
  <2>1. PICK s \in Unused : Open(p, s, <<>>)
    BY <1>7 DEF NewSession
  <2>2. /\ UNCHANGED <<file, archive, spoken, stored, failed, tears, left, shared>>
        /\ proc[p].pc = "pick" /\ s \in IDs /\ <<>> \in Conversations
    BY <1>7 DEF NewSession, Unused, Conversations
  <2>3. /\ Enters(p) /\ At(p) = None /\ proc'[p].cur = s /\ proc'[p].msgs = <<>>
        /\ proc' \in [Procs -> Places] /\ PlaceOK'
        /\ trace' \subseteq IDs /\ used' \subseteq IDs
    BY <1>g, <2>1, <2>2
  <2>4. FormInv'
    BY <1>a, <1>b, <2>2, <2>3, TypeStep DEF FormInv
  <2>5. Opens(p)
    BY <2>2, <2>3 DEF Opens
  <2> QED BY <2>2, <2>4, <2>5, <1>n
<1>8. CASE Resume(p)
  <2>1. PICK s \in IDs : /\ Decodes(s) /\ Open(p, s, file[s].msgs)
                        /\ shared' = shared \cup {t \in {s} : Others(p, s) # {}}
    BY <1>8 DEF Resume
  <2>2. /\ UNCHANGED <<file, archive, spoken, stored, failed, tears, left>>
        /\ proc[p].pc = "pick"
    BY <1>8 DEF Resume
  <2>3. file[s] # Gone /\ file[s] \in Files /\ file[s].msgs \in Conversations
    BY <1>a, <2>1 DEF Decodes, TypeOK, Files
  <2>4. /\ Enters(p) /\ At(p) = None /\ proc'[p].cur = s /\ proc'[p].msgs = file[s].msgs
        /\ proc' \in [Procs -> Places] /\ PlaceOK'
        /\ trace' \subseteq IDs /\ used' \subseteq IDs
    BY <1>g, <2>1, <2>2, <2>3
  <2>5. shared' \subseteq IDs
    BY <1>b, <2>1
  <2>6. FormInv'
    BY <1>a, <1>b, <2>2, <2>4, <2>5, TypeStep DEF FormInv
  <2>7. Resumes(p)
    BY <2>1, <2>2, <2>3, <2>4 DEF Resumes
  <2> QED BY <2>2, <2>6, <2>7, <1>n
<1>h. ASSUME proc' = [proc EXCEPT ![p] = Idle]
      PROVE  Only(p) /\ proc'[p].cur = None /\ proc' \in [Procs -> Places] /\ PlaceOK'
  <2> HIDE DEF Idle
  <2>1. Only(p) /\ proc'[p] = Idle /\ proc' \in [Procs -> Places]
    BY <1>e, <1>h, <1>i
  <2> QED BY <1>i, <2>1, PlaceStep
<1>9. CASE NotFound(p) \/ Exit(p)
  <2>1. /\ UNCHANGED <<disk, used, spoken, stored, failed, tears, left, shared>>
        /\ proc[p].pc \in {"pick", "idle"} /\ proc' = [proc EXCEPT ![p] = Idle]
    BY <1>9 DEF NotFound, Exit, ghosts
  <2>2. Rests(p)
    BY <1>h, <2>1 DEF Rests, Removing, disk
  <2> QED BY <1>b, <1>f, <1>h, <2>1, <2>2, <1>n
<1>10. CASE Speak(p)
  <2>1. /\ proc[p].pc = "idle" /\ spoken' = spoken + 1 /\ spoken < MaxMessages
        /\ UNCHANGED <<disk, used, stored, failed, tears, left, shared>>
    BY <1>10 DEF Speak
  <2>2. PICK next \in {"write", "idle"} :
          proc' = [proc EXCEPT ![p].msgs = Append(@, spoken + 1), ![p].pc = next]
    BY <1>10 DEF Speak
  <2>3. spoken \in Nat /\ spoken + 1 \in Messages
    BY <1>a, <2>1, BoundAssumption DEF TypeOK, Messages
  <2> DEFINE new == Append(proc[p].msgs, spoken + 1)
             r == [proc[p] EXCEPT !.msgs = new, !.pc = next]
  <2>4. new \in Conversations /\ ToSet(new) = ToSet(proc[p].msgs) \cup {spoken + 1}
    BY <1>b, <2>3, SetOfAppend DEF Places, Conversations
  <2>5. proc' = [proc EXCEPT ![p].msgs = new, ![p].pc = next]
    BY <1>b, <2>2
  <2> HIDE DEF new
  <2>6. r \in Places /\ r.pc = next /\ r.cur = At(p) /\ r.msgs = new
        /\ proc' = [proc EXCEPT ![p] = r]
    BY <1>b, <2>4, <2>5 DEF Places, Positions, At
  <2> HIDE DEF r
  <2>7. Only(p) /\ proc'[p] = r /\ proc' \in [Procs -> Places]
    BY <1>e, <2>6
  <2>8. At(p) \in IDs
    BY <1>c, <2>1
  <2>9. PlaceOK'
    BY <1>d, <2>6, <2>7, <2>8, PlaceStep
  <2>10. stored' \in [IDs -> SUBSET (1..spoken')]
    <3>1. 1..spoken \subseteq 1..(spoken + 1)
      BY <2>3
    <3> QED BY <1>a, <2>1, <2>8, <3>1 DEF TypeOK
  <2>11. FormInv'
    BY <1>a, <1>b, <2>1, <2>3, <2>7, <2>9, <2>10, TypeStep DEF FormInv, disk
  <2>12. spoken + 1 \notin 0..spoken
    BY <2>3
  <2>13. Rests(p)
    BY <2>1, <2>4, <2>6, <2>7, <2>12 DEF Rests, Stays, Using, disk, At
  <2> QED BY <2>1, <2>11, <2>13 DEF Moves
<1>11. CASE WriteTemp(p)
  <2> DEFINE f == [msgs |-> proc[p].msgs, old |-> FALSE]
             r == [proc[p] EXCEPT !.pc = "rename", !.temp = f]
  <2>1. /\ proc[p].pc = "write" /\ proc' = [proc EXCEPT ![p].pc = "rename", ![p].temp = f]
        /\ UNCHANGED <<disk, used, spoken, stored, failed, tears, left, shared>>
    BY <1>11 DEF WriteTemp, ghosts
  <2>2. f \in Files /\ At(p) \in IDs
    BY <1>b, <1>c, <2>1 DEF Files, Places
  <2> HIDE DEF f
  <2>3. /\ r \in Places /\ r.pc = "rename" /\ r.cur = At(p) /\ r.msgs = proc[p].msgs
        /\ r.temp = f /\ proc' = [proc EXCEPT ![p] = r]
    BY <1>b, <2>1, <2>2 DEF Places, Positions, At
  <2> HIDE DEF r
  <2>4. Only(p) /\ proc'[p] = r /\ proc' \in [Procs -> Places]
    BY <1>e, <2>3
  <2>5. PlaceOK'
    BY <1>d, <2>2, <2>3, <2>4, PlaceStep DEF f
  <2>6. Rests(p)
    BY <2>1, <2>3, <2>4 DEF Rests, Stays, Using, disk, At
  <2> QED BY <1>b, <1>f, <2>1, <2>4, <2>5, <2>6, <1>n
<1>12. CASE Rename(p)
  <2> DEFINE f == [msgs |-> proc[p].msgs, old |-> FALSE]
             m == ToSet(proc[p].msgs) \ {0}
             r == [proc[p] EXCEPT !.pc = "idle", !.temp = Gone]
  <2>1. proc[p].pc = "rename" /\ proc[p].temp = f /\ At(p) \in IDs
    BY <1>a, <1>c, <1>12 DEF Rename, PlaceOK
  <2>2. f \in Files /\ f.msgs = proc[p].msgs /\ m \subseteq Messages
    <3>1. proc[p].msgs \in Conversations
      BY <1>b DEF Places
    <3> QED BY <3>1, SetOf DEF Files, Conversations
  <2>3. /\ file' = [file EXCEPT ![At(p)] = f]
        /\ stored' = [stored EXCEPT ![At(p)] = @ \cup m]
        /\ proc' = [proc EXCEPT ![p].pc = "idle", ![p].temp = Gone]
        /\ UNCHANGED <<archive, trace, used, spoken, failed, tears, left, shared>>
    BY <1>12, <2>1 DEF Rename, At
  <2> HIDE DEF f, m
  <2>4. /\ r \in Places /\ r.pc = "idle" /\ r.cur = At(p) /\ r.msgs = proc[p].msgs
        /\ proc' = [proc EXCEPT ![p] = r]
    BY <1>b, <2>3 DEF Places, Positions, At
  <2> HIDE DEF r
  <2>5. Only(p) /\ proc'[p] = r /\ proc' \in [Procs -> Places]
    BY <1>e, <2>4
  <2>6. PlaceOK'
    BY <1>d, <2>1, <2>4, <2>5, PlaceStep
  <2>7. file' \in [IDs -> Files \cup {Gone}]
    BY <1>a, <2>2, <2>3 DEF TypeOK
  <2>8. stored' \in [IDs -> SUBSET (1..spoken)]
    <3>1. m \subseteq 1..spoken
      <4>1. ToSet(proc[p].msgs) \subseteq 0..spoken /\ spoken \in Nat
        BY <1>a, <2>1, BoundAssumption DEF HeardOK, Using, TypeOK, Messages
      <4> QED BY <4>1 DEF m
    <3> QED BY <1>a, <2>3, <3>1 DEF TypeOK
  <2>9. FormInv'
    BY <1>a, <1>b, <2>3, <2>5, <2>6, <2>7, <2>8, TypeStep DEF FormInv, TypeOK
  <2>10. Saves(p)
    BY <2>1, <2>3, <2>4, <2>5 DEF Saves, Stays, Using, At, f, m
  <2> QED BY <2>3, <2>9, <2>10, <1>n
<1>13. CASE SaveFails(p)
  <2> DEFINE r == [proc[p] EXCEPT !.pc = "idle", !.temp = Gone]
  <2>1. /\ proc[p].pc \in {"write", "rename"}
        /\ proc' = [proc EXCEPT ![p].pc = "idle", ![p].temp = Gone]
        /\ UNCHANGED <<disk, used, spoken, stored, failed, tears, left, shared>>
    BY <1>13 DEF SaveFails, ghosts
  <2>2. /\ r \in Places /\ r.pc = "idle" /\ r.cur = At(p) /\ r.msgs = proc[p].msgs
        /\ proc' = [proc EXCEPT ![p] = r] /\ At(p) \in IDs
    BY <1>b, <1>c, <2>1 DEF Places, Positions, At
  <2> HIDE DEF r
  <2>3. Only(p) /\ proc'[p] = r /\ proc' \in [Procs -> Places]
    BY <1>e, <2>2
  <2>4. PlaceOK'
    BY <1>d, <2>2, <2>3, PlaceStep
  <2>5. Rests(p)
    BY <2>1, <2>2, <2>3 DEF Rests, Stays, Using, disk, At
  <2> QED BY <1>b, <1>f, <2>1, <2>3, <2>4, <2>5, <1>n
<1>k. ASSUME NEW job \in Jobs(p), proc[p].pc \in Using, Finish(p, job)
      PROVE  /\ Replaces(p, Batch(p, job)) /\ proc' \in [Procs -> Places] /\ PlaceOK'
             /\ trace' \subseteq IDs /\ used' \subseteq IDs
  <2>1. /\ Replaces(p, Batch(p, job)) /\ proc' \in [Procs -> Places]
        /\ trace' \subseteq IDs /\ used' \subseteq IDs
        /\ proc'[p].pc \in {"write", "idle"} /\ proc'[p].cur \in IDs
    BY <1>k, FinishShape
  <2>2. Only(p)
    BY <2>1 DEF Replaces, Enters
  <2>3. PlaceOK'
    BY <1>d, <2>1, <2>2, PlaceStep
  <2> QED BY <2>1, <2>3
<1>14. CASE BeginArchive(p)
  <2>1. /\ proc[p].pc = "idle" /\ UNCHANGED <<file, archive, spoken, stored, tears, left, shared>>
        /\ At(p) \in IDs
    BY <1>14, <1>c DEF BeginArchive
  <2>2. PICK job \in Jobs(p) :
          LET lines == archive[At(p)] IN
            IF \E i \in 1..Len(lines) : lines[i].huge
            THEN Finish(p, job) /\ failed' = failed \cup ToSet(Batch(p, job))
            ELSE /\ proc' = [proc EXCEPT ![p].pc = "append", ![p].job = job,
                                        ![p].seq = Len(lines)]
                 /\ UNCHANGED <<trace, used, failed>>
    BY <1>14 DEF BeginArchive, At
  <2>3. /\ job \in JobSet /\ Batch(p, job) \in Seq(Messages)
        /\ archive[At(p)] \in Seq(Lines) /\ Len(archive[At(p)]) \in Nat
    BY <1>a, <2>1, JobShape, LenProperties DEF TypeOK
  <2>4. CASE ~NoHuge(archive[At(p)])
    <3>1. Finish(p, job) /\ failed' = failed \cup ToSet(Batch(p, job)) /\ proc[p].pc \in Using
      BY <2>1, <2>2, <2>4 DEF NoHuge, Using
    <3>2. /\ Replaces(p, Batch(p, job)) /\ proc' \in [Procs -> Places] /\ PlaceOK'
          /\ trace' \subseteq IDs /\ used' \subseteq IDs
      BY <1>k, <3>1
    <3>3. failed' \subseteq Messages
      BY <1>b, <2>3, <3>1, SetOf
    <3>4. FormInv'
      BY <1>a, <1>b, <2>1, <3>2, <3>3, TypeStep DEF FormInv
    <3>5. Refuses(p)
      BY <2>1, <2>3, <2>4, <3>1, <3>2 DEF Refuses, Conversations
    <3> QED BY <2>1, <3>4, <3>5, <1>n
  <2>5. CASE NoHuge(archive[At(p)])
    <3> DEFINE n == Len(archive[At(p)])
               r == [proc[p] EXCEPT !.pc = "append", !.job = job, !.seq = n]
    <3>1. /\ proc' = [proc EXCEPT ![p].pc = "append", ![p].job = job, ![p].seq = n]
          /\ UNCHANGED <<trace, used, failed>> /\ n \in Nat
      BY <2>2, <2>3, <2>5 DEF NoHuge
    <3> HIDE DEF n
    <3>2. /\ r \in Places /\ r.pc = "append" /\ r.cur = At(p) /\ r.msgs = proc[p].msgs
          /\ r.job = job /\ r.seq = n /\ proc' = [proc EXCEPT ![p] = r]
      BY <1>b, <2>3, <3>1 DEF Places, Positions, At
    <3> HIDE DEF r
    <3>3. Only(p) /\ proc'[p] = r /\ proc' \in [Procs -> Places]
      BY <1>e, <3>2
    <3>4. PlaceOK'
      BY <1>d, <2>1, <3>2, <3>3, PlaceStep
    <3>5. Rests(p)
      BY <2>1, <3>1, <3>2, <3>3 DEF Rests, Stays, Using, At, n
    <3> QED BY <1>b, <1>f, <2>1, <3>1, <3>3, <3>4, <3>5, <1>n DEF disk
  <2> QED BY <2>4, <2>5
<1>l. proc[p].pc = "append" =>
        /\ proc[p].job \in Jobs(p) /\ Records(p) \in Seq(Lines) /\ At(p) \in IDs
        /\ \A new \in Torn(Records(p)) : new \in Seq(Lines)
        /\ ToSet(Batch(p, proc[p].job)) \subseteq Messages
  BY <1>c, BatchLines
<1>15. CASE AppendArchive(p)
  <2>1. /\ proc[p].pc = "append" /\ Write(p, Records(p)) /\ Finish(p, proc[p].job)
        /\ UNCHANGED <<file, spoken, stored, failed, tears, left, shared>>
    BY <1>15 DEF AppendArchive
  <2>2. archive' \in [IDs -> Seq(Lines)]
    BY <1>a, <1>l, <2>1, WriteShape
  <2>3. /\ Replaces(p, Batch(p, proc[p].job)) /\ proc' \in [Procs -> Places] /\ PlaceOK'
        /\ trace' \subseteq IDs /\ used' \subseteq IDs
    BY <1>k, <1>l, <2>1 DEF Using
  <2>4. FormInv'
    BY <1>a, <1>b, <2>1, <2>2, <2>3, TypeStep DEF FormInv
  <2>5. Archives(p)
    BY <2>1, <2>3 DEF Archives
  <2> QED BY <2>1, <2>4, <2>5, <1>n
<1>m. ASSUME At(p) \in IDs PROVE [tears EXCEPT ![At(p)] = @ + 1] \in [IDs -> Nat]
  <2>1. tears \in [IDs -> Nat] /\ tears[At(p)] + 1 \in Nat
    BY <1>a, <1>m DEF TypeOK
  <2> QED BY <2>1
<1>16. CASE AppendFails(p)
  <2>1. /\ proc[p].pc = "append" /\ Finish(p, proc[p].job)
        /\ failed' = failed \cup ToSet(Batch(p, proc[p].job))
        /\ tears' = [tears EXCEPT ![At(p)] = @ + 1]
        /\ UNCHANGED <<file, spoken, stored, left, shared>>
    BY <1>16 DEF AppendFails, At
  <2>2. PICK new \in Torn(Records(p)) : Write(p, new)
    BY <1>16 DEF AppendFails
  <2>3. archive' \in [IDs -> Seq(Lines)]
    BY <1>a, <1>l, <2>1, <2>2, WriteShape
  <2>4. /\ Replaces(p, Batch(p, proc[p].job)) /\ proc' \in [Procs -> Places] /\ PlaceOK'
        /\ trace' \subseteq IDs /\ used' \subseteq IDs
    BY <1>k, <1>l, <2>1 DEF Using
  <2>5. failed' \subseteq Messages /\ tears' \in [IDs -> Nat]
    BY <1>b, <1>l, <1>m, <2>1
  <2>6. FormInv'
    BY <1>a, <1>b, <2>1, <2>3, <2>4, <2>5, TypeStep DEF FormInv
  <2>7. Tears(p)
    BY <2>1, <2>2, <2>4 DEF Tears
  <2> QED BY <2>1, <2>6, <2>7, <1>n
<1>17. CASE Crash(p)
  <2>1. /\ proc' = [proc EXCEPT ![p] = Idle]
        /\ left' = left \cup {s \in {At(p)} : proc[p].pc \in Removing}
        /\ UNCHANGED <<file, trace, used, spoken, stored, failed, shared>>
    BY <1>17 DEF Crash, At, Removing
  <2>2. Only(p) /\ proc'[p].cur = None /\ proc' \in [Procs -> Places] /\ PlaceOK'
    BY <1>h, <2>1
  <2>3. left' \subseteq IDs
    BY <1>b, <1>c, <2>1 DEF Removing
  <2>4. CASE proc[p].pc # "append"
    <3>1. UNCHANGED <<archive, tears>>
      BY <1>17, <2>4 DEF Crash
    <3>2. Rests(p)
      BY <2>1, <2>2, <3>1 DEF Rests
    <3> QED BY <1>f, <2>1, <2>2, <2>3, <3>1, <3>2, <1>n DEF disk
  <2>5. CASE proc[p].pc = "append"
    <3>1. PICK new \in Torn(Records(p)) : Write(p, new)
      BY <1>17, <2>5 DEF Crash
    <3>2. tears' = [tears EXCEPT ![At(p)] = @ + 1] /\ left' = left
      BY <1>17, <2>1, <2>5 DEF Crash, At, Removing
    <3>3. archive' \in [IDs -> Seq(Lines)]
      BY <1>a, <1>l, <2>5, <3>1, WriteShape
    <3>4. tears' \in [IDs -> Nat]
      BY <1>l, <1>m, <2>5, <3>2
    <3>5. FormInv'
      BY <1>a, <1>b, <2>1, <2>2, <2>3, <3>3, <3>4, TypeStep DEF FormInv
    <3>6. Tears(p)
      BY <2>1, <2>2, <2>5, <3>1, <3>2 DEF Tears
    <3> QED BY <2>1, <3>5, <3>6, <1>n
  <2> QED BY <2>4, <2>5
<1> HIDE DEF Idle
<1> QED BY <1>1, <1>2, <1>3, <1>4, <1>5, <1>6, <1>7, <1>8, <1>9, <1>10, <1>11, <1>12, <1>13,
           <1>14, <1>15, <1>16, <1>17

-----------------------------------------------------------------------------
(* Who uses a session                                                        *)

\* What is said is in no other place, and nothing that was not said is saved.
LEMMA HeardStep ==
  ASSUME FormInv, FormInv', HeardOK, NEW p \in Procs, Moves(p)
  PROVE  HeardOK'
<1>a. /\ proc \in [Procs -> Places] /\ file \in [IDs -> Files \cup {Gone}]
      /\ spoken \in Nat /\ spoken' \in Nat /\ spoken <= spoken'
  BY BoundAssumption DEF Moves, FormInv, TypeOK, Messages
<1>b. 0..spoken \subseteq 0..spoken' /\ spoken' \in 0..spoken' /\ 0 \in 0..spoken
  BY <1>a
<1>c. Only(p)
  BY DEF Moves, Rests, Saves, Drops, DropsArchive, DropsTrace, Opens, Resumes, Enters, Refuses,
         Archives, Tears, Replaces
<1>1. ASSUME NEW q \in Procs, proc'[q].pc \in Using
      PROVE  ToSet(proc'[q].msgs) \subseteq 0..spoken'
  <2>1. CASE q # p
    BY <1>1, <1>b, <1>c, <2>1 DEF Only, HeardOK
  <2> SUFFICES ASSUME q = p PROVE ToSet(proc'[p].msgs) \subseteq 0..spoken'
    BY <2>1
  <2>2. proc'[p].cur # None
    BY <1>1 DEF FormInv, PlaceOK, Using
  <2>3. CASE Rests(p)
    <3>1. Stays(p) /\ ToSet(proc'[p].msgs) \subseteq ToSet(proc[p].msgs) \cup {spoken'}
      BY <1>1, <2>2, <2>3 DEF Rests, Using
    <3> QED BY <1>b, <3>1 DEF HeardOK, Stays
  <2>4. CASE Saves(p)
    BY <1>b, <2>4 DEF Saves, Stays, HeardOK
  <2>5. CASE Opens(p)
    BY <2>5, EmptySeq, SetOf DEF Opens, ToSet
  <2>6. CASE Resumes(p)
    BY <1>b, <2>6 DEF Resumes, Enters, HeardOK
  <2>7. CASE \E batch \in Conversations : Replaces(p, batch)
    <3>1. CASE proc'[p].msgs = <<>>
      BY <3>1 DEF ToSet
    <3>2. CASE Stays(p) /\ ToSet(proc'[p].msgs) \subseteq ToSet(proc[p].msgs) \cup {0}
      BY <1>b, <3>2 DEF HeardOK, Stays
    <3> QED BY <2>7, <3>1, <3>2 DEF Replaces
  <2>8. ASSUME proc[p].pc = "append"
        PROVE  Batch(p, proc[p].job) \in Conversations
    <3>1. proc[p].job \in Jobs(p)
      BY <2>8 DEF FormInv, PlaceOK
    <3> QED BY <3>1, JobShape DEF FormInv, Conversations
  <2> QED BY <1>1, <2>2, <2>3, <2>4, <2>5, <2>6, <2>7, <2>8
          DEF Moves, Refuses, Archives, Tears, Drops, DropsArchive, DropsTrace, Using
<1>2. ASSUME NEW s \in IDs, file'[s] # Gone PROVE ToSet(file'[s].msgs) \subseteq 0..spoken'
  <2>1. CASE Saves(p)
    <3>1. file' = [file EXCEPT ![At(p)] = [msgs |-> proc[p].msgs, old |-> FALSE]]
          /\ proc[p].pc \in Using
      BY <2>1 DEF Saves, Stays
    <3>2. CASE s = At(p)
      BY <1>a, <1>b, <3>1, <3>2 DEF HeardOK
    <3>3. CASE s # At(p)
      BY <1>2, <1>a, <1>b, <3>1, <3>3 DEF HeardOK
    <3> QED BY <3>2, <3>3
  <2>2. CASE file' = file \/ file' = [file EXCEPT ![At(p)] = Gone]
    BY <1>2, <1>a, <1>b, <2>2 DEF HeardOK
  <2> QED BY <2>1, <2>2 DEF Moves, Rests, Drops, DropsArchive, DropsTrace, Opens, Resumes, Refuses,
                           Archives, Tears
<1> QED BY <1>1, <1>2 DEF HeardOK

\* Nobody writes a record for no file.
LEMMA GoneIsNoFile == Gone \notin Files
<1>1. Messages \subseteq Nat
  BY BoundAssumption DEF Messages
<1>2. Conversations \subseteq Seq(Nat)
  BY <1>1, SeqMonotonic DEF Conversations
<1> QED BY <1>2, SetAssumption DEF Files

\* A step of a process leaves the other sessions alone, and may take it to one.
LEMMA Elsewhere ==
  ASSUME FormInv, FormInv', NEW p \in Procs, Moves(p), NEW s \in IDs, s # At(p)
  PROVE  /\ file'[s] = file[s] /\ archive'[s] = archive[s] /\ stored'[s] = stored[s]
         /\ tears'[s] = tears[s]
         /\ s \in trace' => s \in trace \/ (proc'[p].cur = s /\ proc'[p].pc = "idle")
         /\ proc'[p].cur = s =>
              \/ proc'[p].pc = "remove" /\ file[s] # Gone
              \/ s \in Unused /\ proc'[p].pc = "idle" /\ proc'[p].msgs = <<>>
              \/ /\ proc'[p].pc = "idle" /\ file[s] # Gone /\ proc'[p].msgs = file[s].msgs
                 /\ s \notin shared' => Others(p, s) = {}
<1>a. TypeOK /\ file \in [IDs -> Files \cup {Gone}] /\ archive \in [IDs -> Seq(Lines)]
      /\ stored \in [IDs -> SUBSET (1..spoken)] /\ tears \in [IDs -> Nat]
  BY DEF FormInv, TypeOK
<1>b. None \notin IDs
  BY SetAssumption
<1>w. ASSUME NEW new \in Seq(Lines), Write(p, new), proc[p].pc = "append"
      PROVE  archive'[s] = archive[s]
  <2>1. At(p) \in IDs
    BY <1>w DEF FormInv, TypeOK, PlaceOK, At, Places
  <2> QED BY <1>w, <1>a, <2>1, WriteShape
<1>r. ASSUME NEW batch, Replaces(p, batch)
      PROVE  /\ s \in trace' => s \in trace \/ (proc'[p].cur = s /\ proc'[p].pc = "idle")
             /\ proc'[p].cur = s => s \in Unused /\ proc'[p].pc = "idle" /\ proc'[p].msgs = <<>>
  BY <1>r DEF Replaces, Enters, Stays, At
<1>1. CASE Rests(p)
  BY <1>1, <1>b DEF Rests, Stays, At
<1>2. CASE Saves(p)
  BY <1>a, <1>2 DEF Saves, Stays, At
<1>3. CASE Drops(p) \/ DropsArchive(p) \/ DropsTrace(p)
  BY <1>a, <1>b, <1>3 DEF Drops, DropsArchive, DropsTrace, At
<1>4. CASE Opens(p)
  BY <1>4 DEF Opens, Enters
<1>5. CASE Resumes(p)
  BY <1>5 DEF Resumes, Enters
<1>6. CASE Refuses(p)
  BY <1>6, <1>r DEF Refuses
<1>7. CASE Archives(p)
  <2>1. archive'[s] = archive[s]
    BY <1>7, <1>w, BatchLines DEF Archives
  <2> QED BY <1>7, <1>r, <2>1 DEF Archives
<1>8. CASE Tears(p)
  <2>1. archive'[s] = archive[s]
    BY <1>8, <1>w, BatchLines DEF Tears
  <2>2. tears'[s] = tears[s]
    BY <1>8, <1>a DEF Tears
  <2>3. CASE Replaces(p, Batch(p, proc[p].job))
    BY <1>8, <1>r, <2>1, <2>2, <2>3 DEF Tears
  <2>4. CASE proc'[p].cur = None /\ UNCHANGED trace
    BY <1>8, <1>b, <2>1, <2>2, <2>4 DEF Tears
  <2> QED BY <1>8, <2>3, <2>4 DEF Tears
<1> QED BY <1>1, <1>2, <1>3, <1>4, <1>5, <1>6, <1>7, <1>8 DEF Moves

\* What only grows, and what a process may not take.
LEMMA Grows ==
  ASSUME FormInv, UsedOK, NEW p \in Procs, Moves(p)
  PROVE  /\ Only(p) /\ shared \subseteq shared' /\ left \subseteq left' /\ used \subseteq used'
         /\ failed \subseteq failed'
         /\ \A q \in Procs : proc[q].cur \notin Unused
<1>1. \A q \in Procs : proc[q].cur \notin Unused
  BY SetAssumption DEF UsedOK, Unused
<1> QED BY <1>1
  DEF Moves, Rests, Saves, Drops, DropsArchive, DropsTrace, Opens, Resumes, Enters, Refuses,
      Archives, Tears, Replaces

\* What is used is known to be used.
LEMMA UsedStep ==
  ASSUME FormInv, FormInv', UsedOK, NEW p \in Procs, Moves(p)
  PROVE  UsedOK'
<1>a. /\ proc \in [Procs -> Places] /\ Only(p) /\ used \subseteq used'
      /\ trace \subseteq used
  BY Grows DEF FormInv, TypeOK, UsedOK
<1>b. At(p) \in used \cup {None} /\ None \notin IDs
  BY SetAssumption DEF UsedOK, At
<1>1. trace' \subseteq used' /\ proc'[p].cur \in used' \cup {None}
  <2>1. CASE Rests(p)
    BY <1>a, <1>b, <2>1 DEF Rests, Stays, UsedOK, At
  <2>2. CASE \/ Saves(p) \/ Drops(p) \/ DropsArchive(p) \/ DropsTrace(p)
    BY <1>a, <1>b, <2>2 DEF Saves, Stays, Drops, DropsArchive, DropsTrace, At
  <2>3. CASE Enters(p)
    BY <1>a, <2>3 DEF Enters
  <2>4. ASSUME NEW batch, Replaces(p, batch)
        PROVE  trace' \subseteq used' /\ proc'[p].cur \in used' \cup {None}
    BY <1>a, <1>b, <2>3, <2>4 DEF Replaces, Stays, At
  <2>5. CASE proc'[p].cur = None /\ UNCHANGED <<trace, used>>
    BY <1>a, <2>5
  <2> QED BY <2>1, <2>2, <2>3, <2>4, <2>5 DEF Moves, Opens, Resumes, Refuses, Archives, Tears
<1>2. ASSUME NEW s \in IDs \ used' PROVE file'[s] = Gone /\ archive'[s] = <<>> /\ stored'[s] = {}
  <2>1. s \notin used /\ s # At(p)
    BY <1>a, <1>b
  <2> QED BY <2>1, Elsewhere DEF UsedOK
<1>3. ASSUME NEW q \in Procs PROVE proc'[q].cur \in used' \cup {None}
  BY <1>1, <1>a DEF UsedOK, Only
<1> QED BY <1>1, <1>2, <1>3 DEF UsedOK

\* A process that comes to a session either has it to itself, or will remove it,
\* or the session counts as shared from now on.
LEMMA OneUserStep ==
  ASSUME FormInv, FormInv', UsedOK, OneUser, NEW p \in Procs, Moves(p)
  PROVE  OneUser'
<1>a. /\ Only(p) /\ shared \subseteq shared' /\ \A q \in Procs : proc[q].cur \notin Unused
  BY Grows
<1>1. ASSUME NEW s \in IDs \ shared', NEW q \in Procs, q # p, proc'[p].cur = s, proc[q].cur = s,
             proc[q].pc # "remove", proc'[p].pc # "remove"
      PROVE  FALSE
  <2>1. CASE s # At(p)
    <3>1. q \in Others(p, s) /\ s \notin Unused
      BY <1>1, <1>a DEF Others
    <3> QED BY <1>1, <2>1, <3>1, Elsewhere
  <2>2. CASE s = At(p)
    <3>1. proc[p].pc = "remove"
      BY <1>1, <1>a, <2>2 DEF OneUser, At
    <3>2. Drops(p)
      <4>1. s # None /\ s \notin Unused
        BY <1>1, <1>a, SetAssumption
      <4> QED BY <1>1, <2>2, <3>1, <4>1
              DEF Moves, Rests, Saves, DropsArchive, DropsTrace, Opens, Resumes, Refuses, Archives,
                  Tears, Stays, Using, At
    <3>3. q \in Others(p, s)
      BY <1>1 DEF Others
    <3> QED BY <1>1, <2>2, <3>2, <3>3 DEF Drops
  <2> QED BY <2>1, <2>2
<1>2. ASSUME NEW s \in IDs \ shared', NEW q \in Procs, NEW t \in Procs, q # t,
             proc'[q].cur = s, proc'[t].cur = s
      PROVE  "remove" \in {proc'[q].pc, proc'[t].pc}
  <2>1. CASE q # p /\ t # p
    BY <1>2, <1>a, <2>1 DEF Only, OneUser
  <2>2. CASE q = p
    BY <1>1, <1>2, <1>a, <2>2 DEF Only
  <2>3. CASE t = p
    BY <1>1, <1>2, <1>a, <2>3 DEF Only
  <2> QED BY <2>1, <2>2, <2>3
<1> QED BY <1>2 DEF OneUser

\* A file goes with what lies beside it, and the one of a session in use stays.
LEMMA RemovalStep ==
  ASSUME FormInv, FormInv', UsedOK, OneUser, Removal, NEW p \in Procs, Moves(p)
  PROVE  Removal'
<1>a. /\ Only(p) /\ shared \subseteq shared' /\ left \subseteq left'
      /\ \A q \in Procs : proc[q].cur \notin Unused
  BY Grows
<1>b. file \in [IDs -> Files \cup {Gone}] /\ archive \in [IDs -> Seq(Lines)]
      /\ stored \in [IDs -> SUBSET (1..spoken)]
  BY DEF FormInv, TypeOK
<1> SUFFICES ASSUME NEW s \in IDs \ shared'
    PROVE  /\ \A q \in Procs :
                /\ proc'[q].cur = s /\ proc'[q].pc \in Using /\ stored'[s] # {} => file'[s] # Gone
                /\ proc'[q].cur = s /\ proc'[q].pc \in Removing => file'[s] = Gone
                /\ proc'[q].cur = s /\ proc'[q].pc = "removeTrace" => s \in left' \/ archive'[s] = <<>>
           /\ s \notin left' /\ file'[s] = Gone /\ stored'[s] # {} =>
                \/ archive'[s] = <<>> /\ s \notin trace'
                \/ \E q \in Procs : proc'[q].cur = s /\ proc'[q].pc \in Removing
  BY DEF Removal, Uses
<1>s. s \in IDs \ shared /\ s # None
  BY <1>a, SetAssumption
<1>r. /\ \A q \in Procs :
           /\ proc[q].cur = s /\ proc[q].pc \in Using /\ stored[s] # {} => file[s] # Gone
           /\ proc[q].cur = s /\ proc[q].pc \in Removing => file[s] = Gone
           /\ proc[q].cur = s /\ proc[q].pc = "removeTrace" => s \in left \/ archive[s] = <<>>
      /\ s \notin left /\ file[s] = Gone /\ stored[s] # {} =>
           \/ archive[s] = <<>> /\ s \notin trace
           \/ \E q \in Procs : proc[q].cur = s /\ proc[q].pc \in Removing
  BY <1>s DEF Removal, Uses
<1>1. CASE s # At(p)
  <2>1. /\ file'[s] = file[s] /\ archive'[s] = archive[s] /\ stored'[s] = stored[s]
        /\ s \in trace' => s \in trace \/ (proc'[p].cur = s /\ proc'[p].pc = "idle")
        /\ proc'[p].cur = s => proc'[p].pc \in {"remove", "idle"}
        /\ proc'[p].cur = s /\ proc'[p].pc = "idle" => s \in Unused \/ file[s] # Gone
    BY <1>1, Elsewhere
  <2>2. s \in Unused => stored[s] = {}
    BY DEF UsedOK, Unused
  <2>3. \A q \in Procs : q # p => proc'[q] = proc[q]
    BY <1>a DEF Only
  <2>4. ASSUME NEW q \in Procs
        PROVE  /\ proc'[q].cur = s /\ proc'[q].pc \in Using /\ stored'[s] # {} => file'[s] # Gone
               /\ proc'[q].cur = s /\ proc'[q].pc \in Removing => file'[s] = Gone
               /\ proc'[q].cur = s /\ proc'[q].pc = "removeTrace" => s \in left' \/ archive'[s] = <<>>
    <3>1. CASE q = p
      BY <2>1, <2>2, <3>1 DEF Using, Removing
    <3>2. CASE q # p
      BY <1>a, <1>r, <2>1, <2>3, <3>2
    <3> QED BY <3>1, <3>2
  <2>5. ASSUME s \notin left', file'[s] = Gone, stored'[s] # {}
        PROVE  \/ archive'[s] = <<>> /\ s \notin trace'
               \/ \E q \in Procs : proc'[q].cur = s /\ proc'[q].pc \in Removing
    <3>1. s \in trace' => s \in trace
      BY <2>1, <2>2, <2>5
    <3>2. ASSUME NEW q \in Procs, proc[q].cur = s PROVE proc'[q] = proc[q]
      BY <1>1, <2>3, <3>2 DEF At
    <3> QED BY <1>a, <1>r, <2>1, <2>5, <3>1, <3>2
  <2> QED BY <2>4, <2>5
<1>2. CASE s = At(p)
  \* Another process at this session is about to remove it, or finds it in removal.
  <2>1. ASSUME NEW q \in Procs, q # p, proc[q].cur = s
        PROVE  proc'[q] = proc[q] /\ (proc[p].pc # "remove" => proc[q].pc = "remove")
    BY <1>2, <1>a, <1>s, <2>1 DEF Only, OneUser, At
  <2>2. ASSUME proc[p].pc # "remove", NEW q \in Procs, q # p
        PROVE  proc'[q].cur = s => proc'[q].pc \notin Using \cup Removing
    BY <1>a, <2>1, <2>2 DEF Only, Using, Removing
  <2>n. s \notin Unused
    BY <1>2, <1>a DEF At
  <2>3. CASE Rests(p)
    <3>1. UNCHANGED <<file, archive, trace, stored>>
      BY <2>3 DEF Rests
    <3>2. ASSUME NEW q \in Procs
          PROVE  /\ proc'[q].cur = s /\ proc'[q].pc \in Using /\ stored[s] # {} => file[s] # Gone
                 /\ proc'[q].cur = s /\ proc'[q].pc \in Removing => file[s] = Gone
                 /\ proc'[q].cur = s /\ proc'[q].pc = "removeTrace" => s \in left' \/ archive[s] = <<>>
      <4>1. CASE q # p
        BY <1>r, <1>a, <4>1 DEF Only
      <4>2. CASE q = p
        BY <1>2, <1>r, <1>s, <2>3, <4>2 DEF Rests, Stays, Using, Removing, At
      <4> QED BY <4>1, <4>2
    <3>3. ASSUME s \notin left', NEW q \in Procs, proc[q].cur = s, proc[q].pc \in Removing
          PROVE  proc'[q] = proc[q]
      <4>1. q # p
        BY <1>2, <1>s, <2>3, <3>3 DEF Rests, Stays, Using, Removing, At
      <4> QED BY <1>a, <4>1 DEF Only
    <3> QED BY <1>a, <1>r, <3>1, <3>2, <3>3
  <2>4. CASE Saves(p)
    <3>1. file'[s] = [msgs |-> proc[p].msgs, old |-> FALSE] /\ archive' = archive
      BY <1>2, <1>b, <2>4 DEF Saves
    <3>2. file'[s] # Gone
      <4>1. proc[p].msgs \in Conversations
        BY DEF FormInv, TypeOK, Places
      <4>2. [msgs |-> proc[p].msgs, old |-> FALSE] \in Files
        BY <4>1 DEF Files
      <4> HIDE DEF Files
      <4> QED BY <3>1, <4>2, GoneIsNoFile
    <3>3. proc[p].pc # "remove" /\ proc'[p].pc \in Using
      BY <2>4 DEF Saves, Stays, Using
    <3>4. \A q \in Procs : proc'[q].cur = s => proc'[q].pc \notin Removing
      BY <2>2, <3>3 DEF Using, Removing
    <3> QED BY <3>2, <3>4 DEF Removing
  <2>5. CASE Drops(p)
    <3>1. file'[s] = Gone /\ proc'[p].cur = s /\ proc'[p].pc = "removeArchive"
      BY <1>2, <1>b, <2>5 DEF Drops
    <3>2. Others(p, s) = {}
      BY <1>2, <2>5 DEF Drops
    <3>3. \A q \in Procs : q # p => proc'[q].cur # s
      BY <1>a, <3>2 DEF Only, Others
    <3> QED BY <3>1, <3>3 DEF Using, Removing
  <2>6. CASE DropsArchive(p)
    <3>1. /\ s \in left' \/ archive'[s] = <<>>
          /\ file' = file /\ proc[p].pc = "removeArchive"
          /\ proc'[p].cur = s /\ proc'[p].pc = "removeTrace"
      BY <1>2, <1>b, <2>6 DEF DropsArchive
    <3>2. file[s] = Gone
      BY <1>2, <1>r, <3>1 DEF At, Removing
    <3> QED BY <2>2, <3>1, <3>2 DEF Using, Removing
  <2>7. CASE DropsTrace(p)
    <3>1. /\ archive' = archive /\ file' = file /\ proc[p].pc = "removeTrace"
          /\ proc'[p].cur = None /\ (s \in left' \/ s \notin trace')
      BY <1>2, <2>7 DEF DropsTrace
    <3>2. s \in left \/ archive[s] = <<>>
      BY <1>2, <1>r, <3>1 DEF At
    <3> QED BY <1>a, <1>s, <2>2, <3>1, <3>2 DEF Using, Removing
  <2>8. ASSUME proc[p].pc \in Using, UNCHANGED <<file, stored>>,
               proc'[p].cur = s => proc'[p].pc \in Using
        PROVE  /\ \A q \in Procs :
                    /\ proc'[q].cur = s /\ proc'[q].pc \in Using /\ stored'[s] # {} => file'[s] # Gone
                    /\ proc'[q].cur = s /\ proc'[q].pc \in Removing => file'[s] = Gone
                    /\ proc'[q].cur = s /\ proc'[q].pc = "removeTrace" => s \in left' \/ archive'[s] = <<>>
               /\ s \notin left' /\ file'[s] = Gone /\ stored'[s] # {} =>
                    \/ archive'[s] = <<>> /\ s \notin trace'
                    \/ \E q \in Procs : proc'[q].cur = s /\ proc'[q].pc \in Removing
    <3>1. stored[s] # {} => file[s] # Gone
      BY <1>2, <1>r, <2>8 DEF At
    <3>2. proc[p].pc # "remove"
      BY <2>8 DEF Using
    <3>3. \A q \in Procs : proc'[q].cur = s => proc'[q].pc \notin Removing
      BY <2>2, <2>8, <3>2 DEF Using, Removing
    <3> QED BY <2>8, <3>1, <3>3 DEF Removing
  <2>9. CASE Opens(p) \/ Resumes(p)
    BY <1>2, <1>s, <2>9 DEF Opens, Resumes
  <2>10. ASSUME NEW batch, Replaces(p, batch) PROVE proc'[p].cur = s => proc'[p].pc \in Using
    BY <2>10, <2>n DEF Replaces, Stays
  <2>11. CASE Refuses(p)
    BY <2>8, <2>10, <2>11 DEF Refuses
  <2>12. CASE Archives(p)
    BY <2>8, <2>10, <2>12 DEF Archives, Using
  <2>13. CASE Tears(p)
    BY <1>s, <2>8, <2>10, <2>13 DEF Tears, Using
  <2> QED BY <2>3, <2>4, <2>5, <2>6, <2>7, <2>9, <2>11, <2>12, <2>13 DEF Moves
<1> QED BY <1>1, <1>2

\* The days that pass change no more than the age of a file.
LEMMA AgeStep ==
  ASSUME FormInv, NEW s \in IDs, Age(s)
  PROVE  /\ FormInv'
         /\ UNCHANGED <<archive, trace, proc, spoken, used, stored, failed, tears, left, shared>>
         /\ \A t \in IDs : /\ file'[t] = Gone <=> file[t] = Gone
                           /\ file[t] # Gone => file'[t].msgs = file[t].msgs
<1>a. /\ file \in [IDs -> Files \cup {Gone}] /\ file[s] \in Files
      /\ file' = [file EXCEPT ![s].old = TRUE]
      /\ UNCHANGED <<archive, trace, proc, spoken, used, stored, failed, tears, left, shared>>
  BY DEF FormInv, TypeOK, Age, ghosts
<1> DEFINE f == [file[s] EXCEPT !.old = TRUE]
<1>1. f \in Files /\ f.msgs = file[s].msgs
  BY <1>a DEF Files
<1>2. file' = [file EXCEPT ![s] = f]
  BY <1>a
<1>3. f # Gone
  BY <1>1, GoneIsNoFile
<1> HIDE DEF f
<1>4. file' \in [IDs -> Files \cup {Gone}] /\ file'[s] = f /\ \A t \in IDs \ {s} : file'[t] = file[t]
  BY <1>a, <1>1, <1>2
<1>5. \A q \in Procs : Jobs(q)' = Jobs(q)
  BY <1>a DEF Jobs
<1>6. PlaceOK'
  BY <1>a, <1>5 DEF FormInv, PlaceOK
<1>7. TypeOK'
  BY <1>a, <1>4 DEF FormInv, TypeOK
<1>8. ASSUME NEW t \in IDs
      PROVE  /\ file'[t] = Gone <=> file[t] = Gone
             /\ file[t] # Gone => file'[t].msgs = file[t].msgs
  <2>1. file[s] # Gone
    BY <1>a, GoneIsNoFile
  <2> QED BY <1>1, <1>3, <1>4, <2>1
<1> QED BY <1>a, <1>6, <1>7, <1>8 DEF FormInv

-----------------------------------------------------------------------------
(* What an archive and a conversation hold *)

\* Somebody else at the session of a process is about to remove it.
LEMMA Alone ==
  ASSUME FormInv, UsedOK, OneUser, NEW p \in Procs, Moves(p), proc[p].pc # "remove",
         NEW s \in IDs \ shared', s = At(p)
  PROVE  \A q \in Procs \ {p} : ~Uses(q, s)'
<1>1. Only(p) /\ shared \subseteq shared'
  BY Grows
<1> QED BY <1>1 DEF Only, OneUser, Uses, Using, At

\* The records of an archive that never lost any are numbered one after the other,
\* and whoever is about to write one has counted them.
LEMMA NumberedStep ==
  ASSUME FormInv, FormInv', UsedOK, OneUser, Numbered, NEW p \in Procs, Moves(p)
  PROVE  Numbered'
<1>a. /\ Only(p) /\ shared \subseteq shared' /\ \A q \in Procs : proc[q].cur \notin Unused
  BY Grows
<1>b. archive \in [IDs -> Seq(Lines)] /\ tears \in [IDs -> Nat]
  BY DEF FormInv, TypeOK
<1> SUFFICES ASSUME NEW s \in IDs \ shared'
    PROVE  /\ tears'[s] = 0 => \A i \in 1..Len(archive'[s]) :
                \/ archive'[s][i].state = "whole" /\ archive'[s][i].seq = i - 1
                \/ archive'[s][i].state = "legacy"
           /\ \A q \in Procs :
                proc'[q].cur = s /\ proc'[q].pc = "append" => proc'[q].seq = Len(archive'[s])
  BY DEF Numbered, Uses
<1>n. /\ tears[s] = 0 => \A i \in 1..Len(archive[s]) :
           \/ archive[s][i].state = "whole" /\ archive[s][i].seq = i - 1
           \/ archive[s][i].state = "legacy"
      /\ \A q \in Procs : proc[q].cur = s /\ proc[q].pc = "append" => proc[q].seq = Len(archive[s])
      /\ s # None /\ archive[s] \in Seq(Lines) /\ tears[s] \in Nat
  BY <1>a, <1>b, SetAssumption DEF Numbered, Uses, Using
<1>1. CASE s # At(p)
  <2>1. /\ archive'[s] = archive[s] /\ tears'[s] = tears[s]
        /\ proc'[p].cur = s => proc'[p].pc # "append"
    BY <1>1, Elsewhere
  <2>2. \A q \in Procs : q # p => proc'[q] = proc[q]
    BY <1>a DEF Only
  <2> QED BY <1>n, <2>1, <2>2
<1>2. CASE s = At(p)
  <2>1. ASSUME proc[p].pc # "remove", NEW q \in Procs, q # p
        PROVE  ~(proc'[q].cur = s /\ proc'[q].pc = "append")
    BY <1>2, <2>1, Alone DEF Uses, Using
  <2>2. ASSUME proc[p].pc # "remove", proc'[p].cur = s => proc'[p].pc # "append"
        PROVE  \A q \in Procs : ~(proc'[q].cur = s /\ proc'[q].pc = "append")
    BY <2>1, <2>2
  <2>3. CASE Rests(p)
    <3>1. UNCHANGED <<archive, tears>>
      BY <2>3 DEF Rests
    <3>2. proc'[p].cur = s /\ proc'[p].pc = "append" => proc'[p].seq = Len(archive[s])
      BY <1>2, <1>n, <2>3 DEF Rests, At
    <3>3. \A q \in Procs : q # p => proc'[q] = proc[q]
      BY <1>a DEF Only
    <3> QED BY <1>n, <3>1, <3>2, <3>3
  <2>4. CASE Saves(p)
    <3>1. UNCHANGED <<archive, tears>> /\ proc[p].pc # "remove" /\ proc'[p].pc # "append"
      BY <2>4 DEF Saves, Stays, Using
    <3> QED BY <1>n, <2>2, <3>1
  <2>5. CASE Drops(p)
    <3>1. UNCHANGED <<archive, tears>> /\ proc'[p].pc # "append"
      BY <2>5 DEF Drops
    <3>2. \A q \in Procs : q # p => proc'[q] = proc[q]
      BY <1>a DEF Only
    <3> QED BY <1>n, <3>1, <3>2
  <2>6. CASE DropsArchive(p)
    <3>1. /\ archive'[s] = <<>> \/ archive' = archive
          /\ tears' = tears /\ proc[p].pc # "remove" /\ proc'[p].pc # "append"
      BY <1>2, <1>b, <2>6 DEF DropsArchive
    <3>2. \A q \in Procs : ~(proc'[q].cur = s /\ proc'[q].pc = "append")
      BY <2>2, <3>1
    <3> QED BY <1>n, <3>1, <3>2
  <2>7. CASE DropsTrace(p)
    <3>1. UNCHANGED <<archive, tears>> /\ proc[p].pc # "remove" /\ proc'[p].cur # s
      BY <1>n, <2>7 DEF DropsTrace
    <3> QED BY <1>n, <2>2, <3>1
  <2>8. ASSUME NEW batch, Replaces(p, batch) PROVE proc'[p].cur = s => proc'[p].pc # "append"
    BY <2>8 DEF Replaces, Enters
  <2>9. CASE Opens(p) \/ Resumes(p)
    BY <1>2, <1>n, <2>9 DEF Opens, Resumes
  <2>10. CASE Refuses(p)
    <3>1. UNCHANGED <<archive, tears>> /\ proc[p].pc # "remove" /\ proc'[p].pc # "append"
      BY <2>10 DEF Refuses, Replaces, Enters, Using
    <3> QED BY <1>n, <2>2, <3>1
  <2>11. CASE Archives(p)
    <3> DEFINE lines == archive[s]
               new == Records(p)
    <3>1. new \in Seq(Lines) /\ archive'[s] = Glued(lines, new) /\ tears' = tears
      BY <1>2, <2>11, BatchLines, WriteShape DEF Archives, FormInv
    <3>2. proc[p].pc # "remove" /\ (proc'[p].cur = s => proc'[p].pc # "append")
      BY <2>8, <2>11 DEF Archives
    <3>3. proc[p].seq = Len(lines)
      BY <1>2, <1>n, <2>11 DEF Archives, At
    <3>4. /\ Len(new) \in Nat /\ Len(lines) \in Nat
          /\ \A i \in 1..Len(new) : new[i].state = "whole" /\ new[i].seq = proc[p].seq + i - 1
      BY <2>11, RecordsShape, BatchLines, SetOf DEF FormInv, Archives
    <3> HIDE DEF new
    <3>5. ASSUME tears[s] = 0, NEW i \in 1..Len(archive'[s])
          PROVE  \/ archive'[s][i].state = "whole" /\ archive'[s][i].seq = i - 1
                 \/ archive'[s][i].state = "legacy"
      <4>1. ~TornEnd(lines)
        <5>1. ASSUME lines # <<>> PROVE Last(lines).state \in {"whole", "legacy"}
          <6>1. Len(lines) \in 1..Len(lines) /\ Last(lines) = lines[Len(lines)]
            BY <1>n, <5>1, EmptySeq, LenProperties DEF Last
          <6> QED BY <1>n, <3>5, <6>1
        <5> QED BY <5>1 DEF TornEnd
      <4>2. archive'[s] = lines \o new
        <5> DEFINE g == Glued(lines, new)
        <5>1. lines \in Seq(Lines) /\ new \in Seq(Lines) /\ g = Glued(lines, new) /\ archive'[s] = g
          BY <1>n, <3>1
        <5> HIDE DEF g, lines
        <5>2. ~TornEnd(lines) => g = lines \o new
          BY <5>1, GlueShape
        <5> QED BY <4>1, <5>1, <5>2
      <4>3. /\ Len(archive'[s]) = Len(lines) + Len(new)
            /\ archive'[s][i] = IF i <= Len(lines) THEN lines[i] ELSE new[i - Len(lines)]
        BY <1>n, <3>1, <3>5, <4>2, ConcatProperties
      <4>4. CASE i <= Len(lines)
        <5>1. i \in 1..Len(lines)
          BY <3>4, <3>5, <4>3, <4>4
        <5> QED BY <1>n, <3>5, <4>3, <4>4, <5>1
      <4>5. CASE ~(i <= Len(lines))
        <5> DEFINE j == i - Len(lines)
        <5>1. j \in 1..Len(new) /\ i \in Nat
          BY <3>4, <4>3, <4>5
        <5>2. archive'[s][i] = new[j]
          BY <4>3, <4>5
        <5>3. Len(lines) + j - 1 = i - 1
          BY <3>4, <5>1
        <5> HIDE DEF j
        <5> QED BY <3>3, <3>4, <5>1, <5>2, <5>3
      <4> QED BY <4>4, <4>5
    <3> QED BY <2>2, <3>1, <3>2, <3>5
  <2>12. CASE Tears(p)
    <3>1. tears'[s] # 0
      BY <1>2, <1>b, <1>n, <2>12 DEF Tears
    <3>2. proc[p].pc # "remove" /\ (proc'[p].cur = s => proc'[p].pc # "append")
      BY <1>n, <2>8, <2>12 DEF Tears
    <3> QED BY <2>2, <3>1, <3>2
  <2> QED BY <2>3, <2>4, <2>5, <2>6, <2>7, <2>9, <2>10, <2>11, <2>12 DEF Moves
<1> QED BY <1>1, <1>2

\* A conversation takes no message back from the archive that the file has let go.
LEMMA ConversingStep ==
  ASSUME FormInv, FormInv', HeardOK, UsedOK, OneUser, Removal, Conversing, NEW p \in Procs, Moves(p)
  PROVE  Conversing'
<1>a. /\ Only(p) /\ shared \subseteq shared' /\ \A q \in Procs : proc[q].cur \notin Unused
  BY Grows
<1>b. /\ file \in [IDs -> Files \cup {Gone}] /\ spoken \in Nat
      /\ stored \in [IDs -> SUBSET (1..spoken)]
  BY BoundAssumption DEF FormInv, TypeOK, Messages
<1> SUFFICES ASSUME NEW s \in IDs \ shared', file'[s] # Gone
    PROVE  /\ ToSet(file'[s].msgs) \subseteq stored'[s] \cup {0}
           /\ \A q \in Procs :
                Uses(q, s)' => ToSet(proc'[q].msgs) \cap stored'[s] \subseteq ToSet(file'[s].msgs)
  BY DEF Conversing
<1>n. /\ s # None /\ s \in IDs \ shared /\ stored[s] \subseteq 1..spoken
  BY <1>a, <1>b, SetAssumption
<1>c. file[s] # Gone =>
        /\ ToSet(file[s].msgs) \subseteq stored[s] \cup {0}
        /\ \A q \in Procs :
             Uses(q, s) => ToSet(proc[q].msgs) \cap stored[s] \subseteq ToSet(file[s].msgs)
  BY <1>n DEF Conversing
<1>1. CASE s # At(p)
  <2>1. /\ file'[s] = file[s] /\ stored'[s] = stored[s]
        /\ proc'[p].cur = s =>
              \/ proc'[p].pc = "remove"
              \/ s \in Unused
              \/ proc'[p].msgs = file[s].msgs
    BY <1>1, Elsewhere
  <2>2. s \in Unused => stored[s] = {}
    BY DEF UsedOK, Unused
  <2>3. \A q \in Procs : q # p => proc'[q] = proc[q]
    BY <1>a DEF Only
  <2>4. ASSUME NEW q \in Procs, Uses(q, s)'
        PROVE  ToSet(proc'[q].msgs) \cap stored'[s] \subseteq ToSet(file'[s].msgs)
    <3>1. CASE q # p
      BY <1>c, <2>1, <2>3, <2>4, <3>1 DEF Uses
    <3>2. CASE q = p
      BY <2>1, <2>2, <2>4, <3>2 DEF Uses, Using
    <3> QED BY <3>1, <3>2
  <2> QED BY <1>c, <2>1, <2>4
<1>2. CASE s = At(p)
  <2>1. proc[p].pc # "remove" => \A q \in Procs : q # p => ~Uses(q, s)'
    BY <1>2, Alone
  <2>2. ASSUME UNCHANGED <<file, stored>>, proc[p].pc \in Using,
               proc'[p].cur = s => \A m \in ToSet(proc'[p].msgs) :
                                     m \in ToSet(proc[p].msgs) \/ m \notin 1..spoken
        PROVE  /\ ToSet(file'[s].msgs) \subseteq stored'[s] \cup {0}
               /\ \A q \in Procs : Uses(q, s)' =>
                    ToSet(proc'[q].msgs) \cap stored'[s] \subseteq ToSet(file'[s].msgs)
    <3>1. Uses(p, s) /\ proc[p].pc # "remove"
      BY <1>2, <2>2 DEF Uses, Using, At
    <3>2. Uses(p, s)' => proc'[p].cur = s
      BY DEF Uses
    <3>3. file'[s] = file[s] /\ stored'[s] = stored[s]
      BY <2>2
    <3> QED BY <1>c, <1>n, <2>1, <2>2, <3>1, <3>2, <3>3
  <2>3. ASSUME NEW batch, Replaces(p, batch), proc'[p].cur = s
        PROVE  \A m \in ToSet(proc'[p].msgs) : m \in ToSet(proc[p].msgs) \/ m \notin 1..spoken
    <3>1. s \notin Unused
      BY <1>2, <1>a DEF At
    <3>2. ToSet(proc'[p].msgs) \subseteq ToSet(proc[p].msgs) \cup {0}
      BY <2>3, <3>1 DEF Replaces
    <3> QED BY <1>b, <3>2
  <2>4. CASE Rests(p)
    <3>1. UNCHANGED <<file, stored>>
      BY <2>4 DEF Rests
    <3>2. CASE /\ Stays(p)
               /\ ToSet(proc'[p].msgs) \subseteq ToSet(proc[p].msgs) \cup ({spoken'} \ 0..spoken)
      <4>1. proc[p].pc \in Using
        BY <3>2 DEF Stays
      <4>2. \A m \in ToSet(proc'[p].msgs) : m \in ToSet(proc[p].msgs) \/ m \notin 1..spoken
        BY <1>b, <3>2
      <4> QED BY <2>2, <3>1, <4>1, <4>2
    <3>3. CASE ~Uses(p, s)'
      <4>1. \A q \in Procs : q # p => proc'[q] = proc[q]
        BY <1>a DEF Only
      <4> QED BY <1>c, <3>1, <3>3, <4>1 DEF Uses
    <3> QED BY <1>n, <2>4, <3>2, <3>3 DEF Rests, Uses, Using
  <2>5. CASE Saves(p)
    <3>1. /\ file'[s] = [msgs |-> proc[p].msgs, old |-> FALSE] /\ proc'[p].msgs = proc[p].msgs
          /\ stored'[s] = stored[s] \cup (ToSet(proc[p].msgs) \ {0}) /\ proc[p].pc # "remove"
      BY <1>2, <1>b, <2>5 DEF Saves, Stays, Using
    <3>2. file'[s].msgs = proc[p].msgs
      BY <3>1
    <3> QED BY <2>1, <3>1, <3>2
  <2>6. CASE Drops(p)
    BY <1>2, <1>b, <2>6 DEF Drops
  <2>7. CASE DropsArchive(p) \/ DropsTrace(p)
    <3>1. UNCHANGED <<file, stored>> /\ (Uses(p, s)' => FALSE)
      BY <1>n, <2>7 DEF DropsArchive, DropsTrace, Uses, Using
    <3>2. \A q \in Procs : q # p => proc'[q] = proc[q]
      BY <1>a DEF Only
    <3> QED BY <1>c, <3>1, <3>2 DEF Uses
  <2>8. CASE Opens(p) \/ Resumes(p)
    BY <1>2, <1>n, <2>8 DEF Opens, Resumes
  <2>9. CASE Refuses(p)
    BY <2>2, <2>3, <2>9 DEF Refuses
  <2>10. CASE Archives(p)
    BY <2>2, <2>3, <2>10 DEF Archives, Using
  <2>11. CASE Tears(p)
    BY <1>n, <2>2, <2>3, <2>11 DEF Tears, Using
  <2> QED BY <2>4, <2>5, <2>6, <2>7, <2>8, <2>9, <2>10, <2>11 DEF Moves
<1> QED BY <1>1, <1>2

-----------------------------------------------------------------------------
(* Where the messages that were saved are *)

\* Fewer messages are fewer, and one message more is one more.
LEMMA Fewer ==
  ASSUME NEW n \in Nat, NEW A, NEW B, B \subseteq 1..n, NEW x
  PROVE  /\ Cardinality(B) \in Nat
         /\ A \subseteq B => Cardinality(A) \in Nat /\ Cardinality(A) <= Cardinality(B)
         /\ A \subseteq B \cup {x} => Cardinality(A) \in Nat /\ Cardinality(A) <= Cardinality(B) + 1
<1>1. IsFiniteSet(1..n)
  BY FS_Interval
<1>2. IsFiniteSet(B)
  BY <1>1, FS_Subset
<1>3. Cardinality(B) \in Nat
  BY <1>2, FS_CardinalityType
<1>4. ASSUME NEW C, A \subseteq C, IsFiniteSet(C)
      PROVE  Cardinality(A) \in Nat /\ Cardinality(A) <= Cardinality(C)
  <2>1. IsFiniteSet(A)
    BY <1>4, FS_Subset
  <2>2. Cardinality(A) <= Cardinality(C)
    BY <1>4, FS_Subset
  <2> QED BY <2>1, <2>2, FS_CardinalityType
<1>5. ASSUME A \subseteq B \cup {x}
      PROVE  Cardinality(A) \in Nat /\ Cardinality(A) <= Cardinality(B) + 1
  <2> DEFINE C == B \cup {x}
  <2>1. IsFiniteSet(C) /\ (Cardinality(C) = Cardinality(B) \/ Cardinality(C) = Cardinality(B) + 1)
    BY <1>2, FS_AddElement
  <2>2. A \subseteq C
    BY <1>5
  <2> HIDE DEF C
  <2>3. Cardinality(A) \in Nat /\ Cardinality(A) <= Cardinality(C)
    BY <1>4, <2>1, <2>2
  <2> QED BY <1>3, <2>1, <2>3
<1> QED BY <1>2, <1>3, <1>4, <1>5

\* The account of the lost messages balances if no more are lost, or if one more
\* is and the torn end of the archive is gone.
LEMMA CoverStep ==
  ASSUME NEW n \in Nat, NEW here, here \subseteq 1..n, NEW fails, NEW lines, NEW torn \in Nat,
         NEW old, NEW now, NEW more, NEW g, NEW tornNow, NEW new,
         Covered(here, fails, lines, torn, old), Spare(now, more, g, new),
         \/ /\ Lost(now, more, g, new) \subseteq Lost(here, fails, lines, old)
            /\ \/ (TornEnd(g) => TornEnd(lines)) /\ tornNow = torn
               \/ tornNow = torn + 1
         \/ /\ \E x : Lost(now, more, g, new) \subseteq Lost(here, fails, lines, old) \cup {x}
            /\ TornEnd(lines) /\ ~TornEnd(g) /\ tornNow = torn
  PROVE  Covered(now, more, g, tornNow, new)
<1> DEFINE A == Lost(now, more, g, new)
           B == Lost(here, fails, lines, old)
<1>1. B \subseteq 1..n
  BY DEF Lost
<1>2. Cardinality(B) + Owing(lines) <= torn
  BY DEF Covered
<1>3. /\ Owing(lines) = IF TornEnd(lines) THEN 1 ELSE 0
      /\ Owing(g) = IF TornEnd(g) THEN 1 ELSE 0
  BY DEF Owing
<1>4. Covered(now, more, g, tornNow, new) <=>
        Cardinality(A) + Owing(g) <= tornNow /\ Spare(now, more, g, new)
  BY DEF Covered
<1>5. \/ /\ A \subseteq B
         /\ \/ (TornEnd(g) => TornEnd(lines)) /\ tornNow = torn
            \/ tornNow = torn + 1
      \/ /\ \E x : A \subseteq B \cup {x}
         /\ TornEnd(lines) /\ ~TornEnd(g) /\ tornNow = torn
  OBVIOUS
<1> HIDE DEF A, B
<1>6. Cardinality(B) \in Nat
  BY <1>1, Fewer
<1>7. A \subseteq B => Cardinality(A) \in Nat /\ Cardinality(A) <= Cardinality(B)
  BY <1>1, Fewer
<1>8. (\E x : A \subseteq B \cup {x}) =>
        Cardinality(A) \in Nat /\ Cardinality(A) <= Cardinality(B) + 1
  BY <1>1, Fewer
<1>9. Cardinality(A) + Owing(g) <= tornNow
  BY <1>2, <1>3, <1>5, <1>6, <1>7, <1>8
<1> QED BY <1>4, <1>9

\* Gluing a line to the last one hides no message that has to be found there.
LEMMA StillFound ==
  ASSUME NEW lines \in Seq(Lines), NEW new \in Seq(Lines), NEW g, g = Glued(lines, new),
         NEW here, NEW fails, NEW msgs, Spare(here, fails, lines, msgs)
  PROVE  here \cap Archived(lines) \subseteq Archived(g) \cup fails \cup ToSet(msgs)
<1>1. Archived(lines) \subseteq
        Archived(g) \cup {m \in {Last(lines).msg} : lines # <<>> /\ Last(lines).state = "unended"}
  BY GlueShape
<1> QED BY <1>1 DEF Spare

\* What is archived is found there, but for the first message after a torn end.
LEMMA FindableArchives ==
  ASSUME FormInv, UsedOK, Findable, NEW p \in Procs, Archives(p), NEW s \in IDs \ shared, s = At(p),
         NoHuge(archive'[s])
  PROVE  /\ file'[s] # Gone => Covered(stored'[s], failed', archive'[s], tears'[s], file'[s].msgs)
         /\ Uses(p, s)' => Covered(stored'[s], failed', archive'[s], tears'[s], proc'[p].msgs)
<1> DEFINE job == proc[p].job
           b == Batch(p, job)
           new == Records(p)
           lines == archive[s]
           g == archive'[s]
           here == stored[s]
           torn == tears[s]
           old == proc[p].msgs
<1>1. proc[p].pc = "append" /\ Write(p, new) /\ Replaces(p, b)
      /\ UNCHANGED <<file, stored, failed, tears>>
  BY DEF Archives
<1>2. /\ job \in Jobs(p) /\ new \in Seq(Lines) /\ new # <<>>
      /\ Len(new) = Len(b) /\ Len(new) \in Nat \ {0}
      /\ \A i \in 1..Len(new) : new[i].msg = b[i] /\ new[i].state = "whole"
      /\ b \in Seq(Messages)
  BY <1>1, BatchLines, RecordsShape, JobShape DEF FormInv
<1>3. lines \in Seq(Lines) /\ g = Glued(lines, new) /\ NoHuge(g)
  BY <1>1, <1>2, WriteShape DEF FormInv, TypeOK
<1>4. Last(new).state = "whole"
  <2>1. Len(new) \in 1..Len(new)
    BY <1>2
  <2> QED BY <1>2, <2>1 DEF Last
<1>b. \A x \in ToSet(b) : \E i \in 1..Len(new) : b[i] = x
  BY <1>2, SetOf
<1>h. /\ spoken \in Nat /\ here \subseteq 1..spoken
      /\ torn \in Nat /\ tears'[s] = torn /\ stored'[s] = here
  BY <1>1, BoundAssumption DEF FormInv, TypeOK, Messages
<1>u. Uses(p, s)
  BY <1>1 DEF Uses, Using, At
<1>m. Uses(p, s)' => ToSet(old) \subseteq ToSet(proc'[p].msgs) \cup ToSet(b)
  <2>1. s \notin Unused
    BY SetAssumption DEF UsedOK, Unused, At
  <2> QED BY <1>1, <2>1 DEF Replaces, Uses, At
<1>f. /\ NoHuge(lines) => Covered(here, failed, lines, torn, old)
      /\ NoHuge(lines) /\ file[s] # Gone => Covered(here, failed, lines, torn, file[s].msgs)
  BY <1>u DEF Findable
<1> HIDE DEF new, b, lines, g, here, torn, old
<1>5. NoHuge(lines) /\ ~TornEnd(g)
      /\ \A i \in 1..Len(new) :
           new[i].state = "whole" /\ (i > 1 \/ ~TornEnd(lines)) => new[i].msg \in Archived(g)
  BY <1>2, <1>3, <1>4, GlueShape
<1>6. \A i \in 1..Len(new) : (i = 1 /\ TornEnd(lines)) \/ b[i] \in Archived(g)
  BY <1>2, <1>5
<1>7. \A msgs : Spare(here, failed, g, msgs)
  BY <1>5 DEF Spare, TornEnd
<1>8. ASSUME NEW msgs, Covered(here, failed, lines, torn, msgs)
      PROVE  here \cap Archived(lines) \subseteq Archived(g) \cup failed \cup ToSet(msgs)
  <2>1. Spare(here, failed, lines, msgs)
    BY <1>8 DEF Covered
  <2> QED BY <1>2, <1>3, <2>1, StillFound
<1>9. ASSUME NEW msgs, Covered(here, failed, lines, torn, msgs)
      PROVE  Covered(here, failed, g, torn, msgs)
  <2>1. Lost(here, failed, g, msgs) \subseteq Lost(here, failed, lines, msgs)
    BY <1>8, <1>9 DEF Lost
  <2> QED BY <1>5, <1>7, <1>h, <1>9, <2>1, CoverStep
<1>10. ASSUME NEW msgs, ToSet(old) \subseteq ToSet(msgs) \cup ToSet(b)
       PROVE  Covered(here, failed, g, torn, msgs)
  <2>1. Covered(here, failed, lines, torn, old)
    BY <1>5, <1>f
  <2>2. ASSUME NEW x \in Lost(here, failed, g, msgs)
        PROVE  x \in Lost(here, failed, lines, old) \/ (TornEnd(lines) /\ x = b[1])
    <3>1. x \in here /\ x \notin failed /\ x \notin Archived(g) /\ x \notin ToSet(msgs)
      BY <2>2 DEF Lost
    <3>2. x \in ToSet(old) => TornEnd(lines) /\ x = b[1]
      BY <1>b, <1>6, <1>10, <3>1
    <3>3. x \in Archived(lines) => x \in ToSet(old)
      BY <1>8, <2>1, <3>1
    <3> QED BY <3>1, <3>2, <3>3 DEF Lost
  <2>3. CASE TornEnd(lines)
    <3>1. Lost(here, failed, g, msgs) \subseteq Lost(here, failed, lines, old) \cup {b[1]}
      BY <2>2
    <3> QED BY <1>5, <1>7, <1>h, <2>1, <2>3, <3>1, CoverStep
  <2>4. CASE ~TornEnd(lines)
    <3>1. Lost(here, failed, g, msgs) \subseteq Lost(here, failed, lines, old)
      BY <2>2, <2>4
    <3> QED BY <1>5, <1>7, <1>h, <2>1, <3>1, CoverStep
  <2> QED BY <2>3, <2>4
<1>11. ASSUME file'[s] # Gone PROVE Covered(here, failed, g, torn, file'[s].msgs)
  <2>1. Covered(here, failed, lines, torn, file[s].msgs) /\ file'[s] = file[s]
    BY <1>1, <1>5, <1>f, <1>11
  <2> QED BY <1>9, <2>1
<1>12. ASSUME Uses(p, s)' PROVE Covered(here, failed, g, torn, proc'[p].msgs)
  BY <1>m, <1>10, <1>12
<1>13. failed' = failed
  BY <1>1
<1> QED BY <1>h, <1>11, <1>12, <1>13 DEF g

\* An append that stops half way loses a message more, or is about to.
LEMMA CoverTorn ==
  ASSUME NEW n \in Nat, NEW here, here \subseteq 1..n, NEW fails, NEW lines, NEW torn \in Nat,
         NEW old, NEW more, NEW g, NEW new,
         Covered(here, fails, lines, torn, old), Spare(here, more, g, new),
         Lost(here, more, g, new) \subseteq Lost(here, fails, lines, old)
  PROVE  Covered(here, more, g, torn + 1, new)
<1> DEFINE tornNow == torn + 1
<1>1. tornNow = torn + 1
  OBVIOUS
<1> HIDE DEF tornNow
<1>2. Covered(here, more, g, tornNow, new)
  BY <1>1, CoverStep
<1> QED BY <1>2 DEF tornNow

\* An append that stops half way loses nothing yet: what it did not write is in
\* the file or was reported, and its last line holds such a message too.
LEMMA FindableTears ==
  ASSUME FormInv, UsedOK, Findable, Conversing, NEW p \in Procs, Tears(p), NEW s \in IDs \ shared,
         s = At(p), NoHuge(archive'[s])
  PROVE  /\ file'[s] # Gone => Covered(stored'[s], failed', archive'[s], tears'[s], file'[s].msgs)
         /\ Uses(p, s)' => Covered(stored'[s], failed', archive'[s], tears'[s], proc'[p].msgs)
<1> DEFINE job == proc[p].job
           b == Batch(p, job)
           lines == archive[s]
           g == archive'[s]
           here == stored[s]
           torn == tears[s]
           old == proc[p].msgs
<1>1. /\ proc[p].pc = "append" /\ UNCHANGED <<file, stored>>
      /\ tears' = [tears EXCEPT ![At(p)] = @ + 1]
      /\ \/ Replaces(p, b) /\ failed' = failed \cup ToSet(b)
         \/ proc'[p].cur = None /\ failed' = failed
  BY DEF Tears
<1>2. PICK new \in Torn(Records(p)) : Write(p, new)
  BY DEF Tears
<1>3. /\ job \in Jobs(p) /\ new \in Seq(Lines) /\ Len(new) \in 0..Len(b)
      /\ \A i \in 1..Len(new) : new[i].msg = b[i]
      /\ b \in Seq(Messages) /\ ToSet(b) \subseteq ToSet(old)
  <2>1. job \in Jobs(p)
    BY <1>1, BatchLines
  <2>2. /\ Records(p) \in Seq(Lines) /\ Records(p) # <<>> /\ Len(Records(p)) = Len(b)
        /\ \A i \in 1..Len(Records(p)) : Records(p)[i].msg = b[i] /\ Records(p)[i].state = "whole"
        /\ Len(b) \in Nat
    BY <2>1, RecordsShape DEF FormInv
  <2>3. b \in Seq(Messages) /\ ToSet(b) \subseteq ToSet(old)
    BY <2>1, JobShape DEF FormInv
  <2> HIDE DEF b
  <2>4. new \in Seq(Lines) /\ Len(new) \in 0..Len(Records(p))
        /\ \A i \in 1..Len(new) : new[i].msg = Records(p)[i].msg
    BY <1>2, <2>2, TornShape
  <2>5. \A i \in 1..Len(new) : i \in 1..Len(Records(p))
    BY <2>2, <2>4
  <2> QED BY <2>1, <2>2, <2>3, <2>4, <2>5
<1>4. lines \in Seq(Lines) /\ g = Glued(lines, new) /\ NoHuge(g)
  BY <1>2, <1>3, WriteShape DEF FormInv, TypeOK
<1>h. /\ spoken \in Nat /\ here \subseteq 1..spoken /\ torn \in Nat /\ tears'[s] = torn + 1
      /\ stored'[s] = here /\ file'[s] = file[s]
  BY <1>1, BoundAssumption DEF FormInv, TypeOK, Messages
<1>u. Uses(p, s)
  BY <1>1 DEF Uses, Using, At
<1>f. /\ NoHuge(lines) => Covered(here, failed, lines, torn, old)
      /\ NoHuge(lines) /\ file[s] # Gone => Covered(here, failed, lines, torn, file[s].msgs)
      /\ file[s] # Gone => ToSet(old) \cap here \subseteq ToSet(file[s].msgs)
  BY <1>u DEF Findable, Conversing
<1>m. Uses(p, s)' => /\ ToSet(old) \subseteq ToSet(proc'[p].msgs) \cup ToSet(b)
                     /\ failed' = failed \cup ToSet(b)
  <2>1. s \notin Unused /\ s # None
    BY SetAssumption DEF UsedOK, Unused, At
  <2> QED BY <1>1, <2>1 DEF Replaces, Uses, At
<1>n. failed' = failed \/ failed' = failed \cup ToSet(b)
  BY <1>1
<1> HIDE DEF b, lines, g, here, torn, old
<1>5. NoHuge(lines) /\ (new = <<>> => g = lines)
      /\ (new # <<>> => EndsAs(g, new))
  <2>1. new \in Seq(Lines)
    BY <1>3
  <2>2. NoHuge(lines)
    BY <1>4, <2>1, GlueShape
  <2>3. new = <<>> => g = lines
    BY <1>4, <2>1, GlueShape
  <2>4. new # <<>> => EndsAs(g, new)
    BY <1>4, <2>1, GlueShape
  <2> QED BY <2>2, <2>3, <2>4
<1>6. new # <<>> => Last(new).msg \in ToSet(b)
  <2>1. ASSUME new # <<>>
        PROVE  Last(new) = new[Len(new)] /\ Len(new) \in 1..Len(new) /\ Len(new) \in 1..Len(b)
    BY <1>3, <2>1, EmptySeq, LenProperties DEF Last
  <2>2. \A i \in 1..Len(b) : b[i] \in ToSet(b)
    BY <1>3, SetOf
  <2> QED BY <1>3, <2>1, <2>2
\* The last line of the archive may be glued, if it was so before, or if its
\* message is of the batch.
<1>7. ASSUME NEW fails, NEW msgs, NEW before, Spare(here, failed, lines, before),
             failed \cup ToSet(before) \subseteq fails \cup ToSet(msgs),
             ToSet(b) \cap here \subseteq fails \cup ToSet(msgs)
      PROVE  Spare(here, fails, g, msgs)
  BY <1>5, <1>6, <1>7 DEF Spare, EndsAs
<1>8. ASSUME NEW fails, NEW msgs, NEW before, Covered(here, failed, lines, torn, before),
             failed \cup ToSet(before) \subseteq fails \cup ToSet(msgs),
             ToSet(b) \cap here \subseteq fails \cup ToSet(msgs)
      PROVE  Covered(here, fails, g, torn + 1, msgs)
  <2>1. Spare(here, failed, lines, before)
    BY <1>8 DEF Covered
  <2>2. here \cap Archived(lines) \subseteq Archived(g) \cup failed \cup ToSet(before)
    BY <1>3, <1>4, <2>1, StillFound
  <2>3. Lost(here, fails, g, msgs) \subseteq Lost(here, failed, lines, before)
    BY <1>8, <2>2 DEF Lost
  <2>4. Spare(here, fails, g, msgs)
    BY <1>7, <1>8, <2>1
  <2>5. spoken \in Nat /\ here \subseteq 1..spoken /\ torn \in Nat
    BY <1>h
  <2>6. Covered(here, failed, lines, torn, before)
    BY <1>8
  <2> QED BY <2>3, <2>4, <2>5, <2>6, CoverTorn
<1>9. ASSUME file'[s] # Gone PROVE Covered(here, failed', g, torn + 1, file'[s].msgs)
  <2>1. Covered(here, failed, lines, torn, file[s].msgs) /\ file'[s] = file[s]
    BY <1>5, <1>f, <1>h, <1>9
  <2>2. ToSet(b) \cap here \subseteq ToSet(file[s].msgs)
    BY <1>3, <1>f, <1>h, <1>9
  <2> QED BY <1>8, <1>n, <2>1, <2>2
<1>10. ASSUME Uses(p, s)' PROVE Covered(here, failed', g, torn + 1, proc'[p].msgs)
  <2>1. Covered(here, failed, lines, torn, old)
    BY <1>5, <1>f
  <2> QED BY <1>8, <1>m, <1>10, <2>1
<1> QED BY <1>h, <1>9, <1>10 DEF g

\* No message is lost as long as the archive stays and the others grow.
LEMMA CoverKept ==
  ASSUME NEW n \in Nat, NEW here, here \subseteq 1..n, NEW lines, NEW torn \in Nat, NEW before,
         NEW fails, before \subseteq fails, NEW old, NEW msgs, NEW more, here \subseteq more,
         more \subseteq here \cup ToSet(msgs), ToSet(old) \subseteq fails \cup ToSet(msgs),
         Covered(here, before, lines, torn, old)
  PROVE  Covered(more, fails, lines, torn, msgs)
<1> DEFINE A == Lost(more, fails, lines, msgs)
           B == Lost(here, before, lines, old)
<1>1. A \subseteq B /\ B \subseteq 1..n
  BY DEF Lost
<1>2. Spare(more, fails, lines, msgs)
  BY DEF Spare, Covered
<1>3. Cardinality(B) + Owing(lines) <= torn /\ Owing(lines) \in {0, 1}
  BY DEF Covered, Owing
<1> HIDE DEF A, B
<1>4. Cardinality(A) \in Nat /\ Cardinality(B) \in Nat /\ Cardinality(A) <= Cardinality(B)
  BY <1>1, Fewer
<1>5. Cardinality(A) + Owing(lines) <= torn
  BY <1>3, <1>4
<1> QED BY <1>2, <1>5 DEF Covered, A

\* What was saved stays where it can be found.
LEMMA FindableStep ==
  ASSUME FormInv, FormInv', UsedOK, OneUser, Removal, Conversing, Findable, NEW p \in Procs,
         Moves(p)
  PROVE  Findable'
<1>a. /\ Only(p) /\ shared \subseteq shared' /\ failed \subseteq failed'
      /\ \A q \in Procs : proc[q].cur \notin Unused
  BY Grows
<1>b. /\ file \in [IDs -> Files \cup {Gone}] /\ archive \in [IDs -> Seq(Lines)]
      /\ spoken \in Nat /\ stored \in [IDs -> SUBSET (1..spoken)] /\ tears \in [IDs -> Nat]
  BY BoundAssumption DEF FormInv, TypeOK, Messages
<1> SUFFICES ASSUME NEW s \in IDs \ shared', NoHuge(archive'[s])
    PROVE  /\ file'[s] # Gone => Covered(stored'[s], failed', archive'[s], tears'[s], file'[s].msgs)
           /\ \A q \in Procs :
                Uses(q, s)' => Covered(stored'[s], failed', archive'[s], tears'[s], proc'[q].msgs)
  BY DEF Findable
<1>n. /\ s # None /\ s \in IDs \ shared /\ stored[s] \subseteq 1..spoken /\ tears[s] \in Nat
  BY <1>a, <1>b, SetAssumption
<1>c. NoHuge(archive[s]) =>
        /\ file[s] # Gone => Covered(stored[s], failed, archive[s], tears[s], file[s].msgs)
        /\ \A q \in Procs :
             Uses(q, s) => Covered(stored[s], failed, archive[s], tears[s], proc[q].msgs)
  BY <1>n DEF Findable
<1>k. ASSUME NEW fails, failed \subseteq fails, NEW old, NEW msgs, NEW more, stored[s] \subseteq more,
             more \subseteq stored[s] \cup ToSet(msgs), ToSet(old) \subseteq fails \cup ToSet(msgs),
             Covered(stored[s], failed, archive[s], tears[s], old)
      PROVE  Covered(more, fails, archive[s], tears[s], msgs)
  <2> DEFINE here == stored[s]
             lines == archive[s]
             torn == tears[s]
  <2>1. /\ spoken \in Nat /\ here \subseteq 1..spoken /\ torn \in Nat
        /\ here \subseteq more /\ more \subseteq here \cup ToSet(msgs)
        /\ Covered(here, failed, lines, torn, old)
    BY <1>b, <1>n, <1>k
  <2> HIDE DEF here, lines, torn
  <2>2. Covered(more, fails, lines, torn, msgs)
    BY <1>k, <2>1, CoverKept
  <2> QED BY <2>2 DEF here, lines, torn
<1>1. CASE s # At(p)
  <2>1. /\ file'[s] = file[s] /\ archive'[s] = archive[s] /\ stored'[s] = stored[s]
        /\ tears'[s] = tears[s]
        /\ proc'[p].cur = s =>
              \/ proc'[p].pc = "remove"
              \/ s \in Unused
              \/ file[s] # Gone /\ proc'[p].msgs = file[s].msgs
    BY <1>1, Elsewhere
  <2>2. \A q \in Procs : q # p => proc'[q] = proc[q]
    BY <1>a DEF Only
  <2>3. ASSUME s \in Unused, NEW msgs PROVE Covered(stored[s], failed', archive[s], tears[s], msgs)
    <3>1. stored[s] = {} /\ archive[s] = <<>>
      BY <2>3 DEF UsedOK, Unused
    <3>2. Lost(stored[s], failed', archive[s], msgs) = {}
      BY <3>1 DEF Lost
    <3>3. Owing(archive[s]) = 0 /\ Spare(stored[s], failed', archive[s], msgs)
      BY <3>1 DEF Owing, TornEnd, Spare
    <3> QED BY <1>n, <3>2, <3>3, FS_EmptySet DEF Covered
  <2>4. NoHuge(archive[s])
    BY <2>1
  <2>5. file[s] # Gone => Covered(stored[s], failed', archive[s], tears[s], file[s].msgs)
    BY <1>a, <1>c, <1>k, <2>4
  <2>6. ASSUME NEW q \in Procs, Uses(q, s)'
        PROVE  Covered(stored[s], failed', archive[s], tears[s], proc'[q].msgs)
    <3>1. CASE q # p
      <4>1. Uses(q, s) /\ proc'[q] = proc[q]
        BY <2>2, <2>6, <3>1 DEF Uses
      <4>2. Covered(stored[s], failed, archive[s], tears[s], proc[q].msgs)
        BY <1>c, <2>4, <4>1
      <4> QED BY <1>a, <1>k, <4>1, <4>2
    <3>2. CASE q = p
      BY <2>1, <2>3, <2>5, <2>6, <3>2 DEF Uses, Using
    <3> QED BY <3>1, <3>2
  <2> QED BY <2>1, <2>5, <2>6
<1>2. CASE s = At(p)
  <2>1. proc[p].pc # "remove" => \A q \in Procs : q # p => ~Uses(q, s)'
    BY <1>2, Alone
  <2>2. \A q \in Procs : q # p => proc'[q] = proc[q]
    BY <1>a DEF Only
  \* Whoever does not use the session any more, or never did, has nothing to show.
  <2>3. ASSUME UNCHANGED <<file, archive, stored, failed, tears>>,
               Uses(p, s)' => Uses(p, s) /\ ToSet(proc[p].msgs) \subseteq ToSet(proc'[p].msgs)
        PROVE  /\ file'[s] # Gone => Covered(stored'[s], failed', archive'[s], tears'[s], file'[s].msgs)
               /\ \A q \in Procs :
                    Uses(q, s)' => Covered(stored'[s], failed', archive'[s], tears'[s], proc'[q].msgs)
    <3>1. NoHuge(archive[s])
      BY <2>3
    <3>2. ASSUME NEW q \in Procs, Uses(q, s)'
          PROVE  Covered(stored[s], failed, archive[s], tears[s], proc'[q].msgs)
      <4>1. Uses(q, s) /\ ToSet(proc[q].msgs) \subseteq ToSet(proc'[q].msgs)
        BY <2>2, <2>3, <3>2 DEF Uses
      <4>2. Covered(stored[s], failed, archive[s], tears[s], proc[q].msgs)
        BY <1>c, <3>1, <4>1
      <4> QED BY <1>k, <4>1, <4>2
    <3> QED BY <1>c, <2>3, <3>1, <3>2
  <2>4. CASE Rests(p)
    <3>1. Uses(p, s)' => Uses(p, s) /\ ToSet(proc[p].msgs) \subseteq ToSet(proc'[p].msgs)
      BY <1>2, <1>n, <2>4 DEF Rests, Stays, Uses, Using, At
    <3>2. UNCHANGED <<file, archive, stored, failed, tears>>
      BY <2>4 DEF Rests
    <3> QED BY <2>3, <3>1, <3>2
  <2>5. CASE Saves(p)
    <3> DEFINE msgs == proc[p].msgs
    <3>1. /\ file'[s] = [msgs |-> msgs, old |-> FALSE] /\ proc'[p].msgs = msgs
          /\ stored'[s] = stored[s] \cup (ToSet(msgs) \ {0}) /\ proc[p].pc # "remove"
          /\ UNCHANGED <<archive, failed, tears>> /\ Uses(p, s)
      BY <1>2, <1>b, <2>5 DEF Saves, Stays, Using, Uses, At
    <3>2. file'[s].msgs = msgs
      BY <3>1
    <3>3. Covered(stored[s], failed, archive[s], tears[s], msgs)
      BY <1>c, <3>1
    <3> HIDE DEF msgs
    <3>4. Covered(stored'[s], failed, archive[s], tears[s], msgs)
      BY <1>k, <3>1, <3>3
    <3> QED BY <2>1, <3>1, <3>2, <3>4
  <2>6. CASE Drops(p)
    <3>1. file'[s] = Gone /\ Others(p, s) = {} /\ proc'[p].pc = "removeArchive"
      BY <1>2, <1>b, <2>6 DEF Drops
    <3>2. \A q \in Procs : ~Uses(q, s)'
      BY <2>2, <3>1 DEF Uses, Using, Others
    <3> QED BY <3>1, <3>2
  <2>7. CASE DropsArchive(p)
    <3>1. file'[s] = file[s] /\ proc[p].pc = "removeArchive" /\ proc'[p].pc = "removeTrace"
      BY <2>7 DEF DropsArchive
    <3>2. file[s] = Gone
      BY <1>2, <1>n, <3>1 DEF Removal, Removing, At
    <3>3. \A q \in Procs : ~Uses(q, s)'
      BY <2>1, <3>1 DEF Uses, Using
    <3> QED BY <3>1, <3>2, <3>3
  <2>8. CASE DropsTrace(p)
    BY <1>n, <2>3, <2>8 DEF DropsTrace, Uses
  <2>9. CASE Opens(p) \/ Resumes(p)
    BY <1>2, <1>n, <2>9 DEF Opens, Resumes
  <2>10. CASE Refuses(p)
    BY <1>2, <2>10 DEF Refuses
  <2>11. CASE Archives(p)
    <3>1. /\ file'[s] # Gone => Covered(stored'[s], failed', archive'[s], tears'[s], file'[s].msgs)
          /\ Uses(p, s)' => Covered(stored'[s], failed', archive'[s], tears'[s], proc'[p].msgs)
      BY <1>2, <1>n, <2>11, FindableArchives
    <3>2. proc[p].pc # "remove"
      BY <2>11 DEF Archives
    <3> QED BY <2>1, <3>1, <3>2
  <2>12. CASE Tears(p)
    <3>1. /\ file'[s] # Gone => Covered(stored'[s], failed', archive'[s], tears'[s], file'[s].msgs)
          /\ Uses(p, s)' => Covered(stored'[s], failed', archive'[s], tears'[s], proc'[p].msgs)
      BY <1>2, <1>n, <2>12, FindableTears
    <3>2. proc[p].pc # "remove"
      BY <2>12 DEF Tears
    <3> QED BY <2>1, <3>1, <3>2
  <2> QED BY <2>4, <2>5, <2>6, <2>7, <2>8, <2>9, <2>10, <2>11, <2>12 DEF Moves
<1> QED BY <1>1, <1>2

-----------------------------------------------------------------------------
(* The theorems *)

SessionInv == FormInv /\ HeardOK /\ OwnInv /\ Numbered /\ Conversing /\ Findable

\* At first there is at most one session, of an older version of the program.
LEMMA SessionInit == Init => SessionInv
<1> SUFFICES ASSUME Init PROVE SessionInv
  OBVIOUS
<1>1. PICK old \in {{}, {CHOOSE s \in IDs : TRUE}}, age \in BOOLEAN :
        /\ file = [s \in IDs |-> IF s \in old THEN [msgs |-> <<0>>, old |-> age] ELSE Gone]
        /\ archive = [s \in IDs |-> IF s \in old THEN <<LegacyLine>> ELSE <<>>]
        /\ used = old
  BY DEF Init
<1>2. /\ trace = {} /\ spoken = 0 /\ stored = [s \in IDs |-> {}] /\ failed = {}
      /\ tears = [s \in IDs |-> 0]
  BY DEF Init
<1>3. FormInv
  BY FormInit
<1>4. \A p \in Procs : proc[p].pc = "off" /\ proc[p].cur = None
  BY DEF Init, Idle
<1>5. None \notin IDs
  BY SetAssumption
<1>6. \A p \in Procs : proc[p].pc \notin Using
  BY <1>4 DEF Using
<1>7. ASSUME NEW s \in IDs
      PROVE  /\ stored[s] = {} /\ tears[s] = 0
             /\ archive[s] = <<>> \/ archive[s] = <<LegacyLine>>
             /\ file[s] # Gone => file[s].msgs = <<0>>
  BY <1>1, <1>2
<1>8. ToSet(<<0>>) = {0}
  BY DEF ToSet
<1>9. HeardOK
  BY <1>2, <1>6, <1>7, <1>8 DEF HeardOK
<1>10. OwnInv
  <2>1. UsedOK
    BY <1>1, <1>2, <1>4 DEF UsedOK
  <2>2. OneUser
    BY <1>4, <1>5 DEF OneUser
  <2>3. Removal
    BY <1>4, <1>5, <1>7 DEF Removal, Uses
  <2> QED BY <2>1, <2>2, <2>3 DEF OwnInv
<1>11. /\ LegacyLine.state = "legacy" /\ Len(<<LegacyLine>>) = 1 /\ <<LegacyLine>>[1] = LegacyLine
       /\ Len(<<>>) = 0
  BY DEF LegacyLine
<1>12. Numbered
  <2> HIDE DEF LegacyLine
  <2>1. ASSUME NEW s \in IDs, NEW i \in 1..Len(archive[s]) PROVE archive[s][i].state = "legacy"
    <3>1. archive[s] = <<LegacyLine>>
      BY <1>7, <1>11, <2>1
    <3>2. i = 1
      BY <1>11, <2>1, <3>1
    <3> QED BY <1>11, <3>1, <3>2
  <2> QED BY <1>4, <1>5, <2>1 DEF Numbered, Uses
<1>13. Conversing
  BY <1>4, <1>5, <1>7, <1>8 DEF Conversing, Uses
<1>14. Findable
  <2> HIDE DEF LegacyLine
  <2> SUFFICES ASSUME NEW s \in IDs, NEW msgs
      PROVE  Covered(stored[s], failed, archive[s], tears[s], msgs)
    BY DEF Findable
  <2>1. ~TornEnd(archive[s])
    <3>1. archive[s] # <<>> => Last(archive[s]).state = "legacy"
      BY <1>7, <1>11 DEF Last
    <3> QED BY <3>1 DEF TornEnd
  <2>2. Owing(archive[s]) = 0
    BY <2>1 DEF Owing
  <2>3. Lost(stored[s], failed, archive[s], msgs) = {}
    BY <1>7 DEF Lost
  <2>4. Spare(stored[s], failed, archive[s], msgs)
    BY <1>7 DEF Spare
  <2>5. tears[s] = 0 /\ Cardinality({}) = 0
    BY <1>7, FS_EmptySet
  <2> QED BY <2>2, <2>3, <2>4, <2>5 DEF Covered
<1> QED BY <1>3, <1>9, <1>10, <1>12, <1>13, <1>14 DEF SessionInv

\* Every step keeps it.
LEMMA SessionNext == SessionInv /\ [Next]_vars => SessionInv'
<1> SUFFICES ASSUME SessionInv, [Next]_vars PROVE SessionInv'
  OBVIOUS
<1>a. /\ FormInv /\ HeardOK /\ UsedOK /\ OneUser /\ Removal /\ Numbered /\ Conversing /\ Findable
  BY DEF SessionInv, OwnInv
<1>1. ASSUME NEW s \in IDs, Age(s) PROVE SessionInv'
  <2>1. /\ FormInv'
        /\ UNCHANGED <<archive, trace, proc, spoken, used, stored, failed, tears, left, shared>>
        /\ \A t \in IDs : /\ file'[t] = Gone <=> file[t] = Gone
                          /\ file[t] # Gone => file'[t].msgs = file[t].msgs
    BY <1>a, <1>1, AgeStep
  <2>2. HeardOK'
    BY <1>a, <2>1 DEF HeardOK
  <2>3. UsedOK'
    BY <1>a, <2>1 DEF UsedOK
  <2>4. OneUser'
    BY <1>a, <2>1 DEF OneUser
  <2>5. Removal'
    BY <1>a, <2>1 DEF Removal, Uses
  <2>6. Numbered'
    BY <1>a, <2>1 DEF Numbered, Uses
  <2>7. Conversing'
    BY <1>a, <2>1 DEF Conversing, Uses
  <2>8. Findable'
    BY <1>a, <2>1 DEF Findable, Uses
  <2> QED BY <2>1, <2>2, <2>3, <2>4, <2>5, <2>6, <2>7, <2>8 DEF SessionInv, OwnInv
<1>2. ASSUME NEW p \in Procs,
             \/ StartProcess(p) \/ Inspect(p) \/ RemoveFile(p) \/ RemoveArchive(p) \/ RemoveTrace(p)
             \/ Cleaned(p) \/ NewSession(p) \/ Resume(p) \/ NotFound(p)
             \/ Speak(p) \/ WriteTemp(p) \/ Rename(p) \/ SaveFails(p) \/ BeginArchive(p)
             \/ AppendArchive(p) \/ AppendFails(p) \/ Exit(p) \/ Crash(p)
      PROVE  SessionInv'
  <2>1. FormInv' /\ Moves(p)
    BY <1>a, <1>2, StepShape
  <2> QED BY <1>a, <2>1, HeardStep, UsedStep, OneUserStep, RemovalStep, NumberedStep, ConversingStep,
             FindableStep DEF SessionInv, OwnInv
<1>3. CASE UNCHANGED vars
  <2>1. \A q \in Procs : Jobs(q)' = Jobs(q)
    BY <1>3 DEF vars, Jobs
  <2>2. UNCHANGED <<file, archive, trace, proc, used, spoken, stored, failed, tears, left, shared>>
    BY <1>3 DEF vars, disk, ghosts
  <2>3. TypeOK' /\ PlaceOK' /\ HeardOK'
    BY <1>a, <2>1, <2>2 DEF FormInv, TypeOK, PlaceOK, HeardOK
  <2>4. UsedOK' /\ OneUser' /\ Removal'
    BY <1>a, <2>2 DEF UsedOK, OneUser, Removal, Uses
  <2>5. Numbered' /\ Conversing' /\ Findable'
    BY <1>a, <2>2 DEF Numbered, Conversing, Findable, Uses
  <2> QED BY <2>3, <2>4, <2>5 DEF SessionInv, FormInv, OwnInv
<1> QED BY <1>1, <1>2, <1>3 DEF Next

\* The sessions on disk are as the processes that use them take them to be,
\* whatever system calls fail and wherever a process dies (session.go).
THEOREM SessionsHold == Spec => []SessionInv
BY SessionInit, SessionNext, PTL DEF Spec

\* A session file is a whole conversation or is not there, through any number of
\* interrupted writes, removals and crashes, since WriteFileAtomic renames a
\* finished file over it (fsutil.go) and nothing else writes it (session.go, Save).
THEOREM FilesAreWholeHolds == Spec => []FilesAreWhole
<1>1. SessionInv => FilesAreWhole
  <2> SUFFICES ASSUME SessionInv, NEW s \in IDs, file[s] # Gone PROVE file[s].msgs \in Conversations
    BY DEF FilesAreWhole
  <2>1. file[s] \in Files
    BY DEF SessionInv, FormInv, TypeOK
  <2> QED BY <2>1 DEF Files
<1> QED BY <1>1, SessionsHold, PTL

\* The records of an archive that no append left half way are numbered in their
\* order, whichever processes wrote them: archiveCount counts the lines before
\* Archive numbers the next ones, and nobody writes in between (session.go).
THEOREM SeqIncreasesHolds == Spec => []SeqIncreases
<1>1. SessionInv => SeqIncreases
  <2> SUFFICES ASSUME SessionInv, NEW s \in IDs \ shared, tears[s] = 0,
                      NEW i \in 1..Len(archive[s]), NEW j \in 1..Len(archive[s]), i < j,
                      archive[s][j].state = "whole"
      PROVE  archive[s][i].seq < archive[s][j].seq \/ archive[s][i].state = "legacy"
    BY DEF SeqIncreases
  <2>1. \A k \in 1..Len(archive[s]) :
          \/ archive[s][k].state = "whole" /\ archive[s][k].seq = k - 1
          \/ archive[s][k].state = "legacy"
    BY DEF SessionInv, Numbered
  <2>2. archive[s][j].seq = j - 1
    BY <2>1
  <2>3. archive[s][i].seq = i - 1 \/ archive[s][i].state = "legacy"
    BY <2>1
  <2>4. i \in Int /\ j \in Int
    BY DEF SessionInv, FormInv, TypeOK
  <2> QED BY <2>2, <2>3, <2>4
<1> QED BY <1>1, SessionsHold, PTL

\* Nothing stays beside a session file that the retention removed, unless the
\* process died between the removals, or one of the later two was refused:
\* CleanOld removes the file first, then the archive and the trace (session.go).
THEOREM RetentionCoversHolds == Spec => []RetentionCovers
<1>1. SessionInv => RetentionCovers
  BY DEF SessionInv, OwnInv, Removal, RetentionCovers, Removing
<1> QED BY <1>1, SessionsHold, PTL

\* What was saved can be found again, in the session's file or in its archive,
\* but for what the archive refused with an error and one message for each append
\* that stopped half way: messages are archived before they leave the conversation
\* (session.go, Archive), and what is glued to a torn line is lost with it.
THEOREM StaysSearchableHolds == Spec => []StaysSearchable
<1>1. SessionInv => StaysSearchable
  <2> SUFFICES ASSUME SessionInv, NEW s \in IDs \ shared, file[s] # Gone, stored[s] \cap Images = {},
                      \A i \in 1..Len(archive[s]) : ~archive[s][i].huge
      PROVE  Cardinality({m \in stored[s] \ failed : s \notin Search(m)}) <= tears[s]
    BY DEF StaysSearchable
  <2> DEFINE missing == {m \in stored[s] \ failed : s \notin Search(m)}
             lost == Lost(stored[s], failed, archive[s], file[s].msgs)
  <2>1. /\ file[s] \in Files /\ spoken \in Nat /\ stored[s] \subseteq 1..spoken /\ tears[s] \in Nat
        /\ archive[s] \in Seq(Lines)
    BY BoundAssumption DEF SessionInv, FormInv, TypeOK, Messages
  <2>2. NoHuge(archive[s])
    BY DEF NoHuge
  <2>3. /\ Covered(stored[s], failed, archive[s], tears[s], file[s].msgs)
        /\ ToSet(file[s].msgs) \subseteq stored[s] \cup {0}
    BY <2>2 DEF SessionInv, Findable, Conversing
  <2>4. Cardinality(lost) + Owing(archive[s]) <= tears[s]
    BY <2>3 DEF Covered
  <2>5. Decodes(s)
    <3>1. file[s].msgs \in Conversations
      BY <2>1 DEF Files
    <3>2. Conversations \subseteq Seq(Nat)
      <4>1. Messages \subseteq Nat
        BY BoundAssumption DEF Messages
      <4> QED BY <4>1, SeqMonotonic DEF Conversations
    <3>3. file[s].msgs # Partial
      BY <3>1, <3>2, SetAssumption
    <3>4. 0 \notin Images
      BY SetAssumption
    <3> QED BY <2>3, <3>3, <3>4 DEF Decodes
  <2>6. missing \subseteq lost
    <3> SUFFICES ASSUME NEW m \in stored[s] \ failed, s \notin Search(m) PROVE m \in lost
      OBVIOUS
    <3>1. m \notin ToSet(file[s].msgs) /\ ~\E i \in Readable(archive[s]) : archive[s][i].msg = m
      BY <2>5 DEF Search
    <3>2. m \notin Archived(archive[s])
      <4> SUFFICES ASSUME NEW i \in Legible(archive[s]), archive[s][i].msg = m PROVE FALSE
        BY DEF Archived
      <4>1. i \in 1..Len(archive[s]) /\ archive[s][i].state \in {"whole", "unended", "legacy"}
        BY DEF Legible
      <4>2. \A j \in 1..i : j \in 1..Len(archive[s])
        BY <2>1, <4>1, LenProperties
      <4>3. m \notin Images
        OBVIOUS
      <4>4. i \in Readable(archive[s])
        BY <2>2, <4>1, <4>2, <4>3 DEF Readable, NoHuge
      <4> QED BY <3>1, <4>4
    <3> QED BY <3>1, <3>2 DEF Lost
  <2>7. lost \subseteq 1..spoken
    BY <2>1 DEF Lost
  <2>8. Owing(archive[s]) \in {0, 1}
    BY DEF Owing
  <2> HIDE DEF missing, lost
  <2>9. /\ Cardinality(lost) \in Nat /\ Cardinality(missing) \in Nat
        /\ Cardinality(missing) <= Cardinality(lost)
    BY <2>1, <2>6, <2>7, Fewer
  <2>10. Cardinality(missing) <= tears[s]
    BY <2>1, <2>4, <2>8, <2>9
  <2> QED BY <2>10 DEF missing
<1> QED BY <1>1, SessionsHold, PTL
=============================================================================
