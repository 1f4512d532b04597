----------------------------- MODULE PartsProofs ------------------------------
(***************************************************************************)
(* Proofs about the parts beside the conversation, for every value of      *)
(* their constants: for each part an invariant that its first states have  *)
(* and its steps keep, and what follows from it.  BesideProofs makes       *)
(* theorems of them.                                                       *)
(***************************************************************************)
EXTENDS Bench, Background, Starters, Memories, Settings, Mentions, RepoIndex, Exports, McpManager, Requests,
        Skills, FiniteSetTheorems, NaturalsInduction, SequenceTheorems, WellFoundedInduction, TLAPS

-----------------------------------------------------------------------------
(* Sets *)

\* An injective image in a finite set bounds a set.
LEMMA Injected ==
  ASSUME NEW S, NEW T, IsFiniteSet(T), NEW f \in [S -> T],
         \A a, b \in S : f[a] = f[b] => a = b
  PROVE  IsFiniteSet(S) /\ Cardinality(S) <= Cardinality(T)
  <1>1. f \in Injection(S, T)
    BY Zenon DEF Injection, IsInjective
  <1> QED BY <1>1, FS_Injection, Zenon

-----------------------------------------------------------------------------
(* The benchmark (Bench) *)

\* A product of natural numbers is one.
LEMMA NatProduct == \A x, y \in Nat : x * y \in Nat
  OBVIOUS

\* It is 0 only if one of them is.
LEMMA PositiveProduct == \A x, y \in Nat \ {0} : x * y \in Nat \ {0}
  OBVIOUS

\* The task of a pair is one of the tasks: in rows of b, the pairs up to a * b
\* are in the first a.
LEMMA RowOfPair ==
  ASSUME NEW a \in Nat, NEW b \in Nat \ {0}, NEW i \in 1..(a * b)
  PROVE  ((i - 1) \div b) + 1 \in 1..a
  <1> DEFINE q == (i - 1) \div b
  <1>1. q \in Nat /\ b * q <= i - 1
    OBVIOUS
  <1>2. q < a
    <2> SUFFICES ASSUME a <= q PROVE FALSE
      BY <1>1
    <2>1. a * b <= b * q
      BY <1>1
    <2>2. a * b \in Nat /\ i <= a * b
      OBVIOUS
    <2> QED BY <1>1, <2>1, <2>2
  <1> QED BY <1>1, <1>2

\* So is its arm one of the arms.
LEMMA PlaceOfPair ==
  ASSUME NEW b \in Nat \ {0}, NEW i \in Nat \ {0}
  PROVE  ((i - 1) % b) + 1 \in 1..b
  OBVIOUS

TaskRows == [id : STRING, repeat : BOOLEAN, verifies : BOOLEAN, recipe : BOOLEAN]
Results == [key : STRING \X STRING, arm : STRING, repeat : BOOLEAN, infra : BOOLEAN,
            verify : {-1, 0, 1}, usage : Nat, try : Nat]
Phases == {"off", "next", "prepare", "execute", "verify", "record", "done"}
Busy == {"prepare", "execute", "verify", "record"}

\* A result is that of a task on an arm, with the tokens of its own run.
OfTask(r) ==
  /\ r.usage \in {0, r.try}
  /\ \E t \in 1..Len(Tasks) : r.key = <<Tasks[t].id, r.arm>> /\ r.repeat = Tasks[t].repeat

\* The results file: no key is scored twice.
RowsInv ==
  /\ rows \in Seq(Results)
  /\ \A i \in 1..Len(rows) : OfTask(rows[i])
  /\ \A i, j \in Scored : rows[i].key = rows[j].key => i = j

\* What the runner is at: a pair that it has not skipped, whose trace is
\* removed before the run that writes it.
RunnerInv ==
  /\ tries \in Nat /\ runners \in Nat /\ at \in Nat \ {0} /\ phase \in Phases
  /\ traces \in [Keys -> Nat]
  /\ phase \in Busy =>
       /\ at \in 1..Pairs /\ res \in Results /\ OfTask(res)
       /\ res.key = KeyAt(at) /\ res.key \notin completed
  /\ phase = "prepare" => res.usage = 0 /\ ~res.infra
  /\ phase = "execute" => traces[KeyAt(at)] = 0 /\ res.usage = 0

\* What it skips: all that has a score, and what it has run itself.
SkipsInv ==
  phase # "off" =>
    /\ ExistingResults \subseteq completed
    /\ \A k \in completed : k \in ExistingResults \/ \E j \in 1..(at - 1) : KeyAt(j) = k

BenchInv == RowsInv /\ RunnerInv /\ SkipsInv

\* The pairs of the two loops are tasks on arms.
LEMMA PairIsTask ==
  ASSUME NEW i \in 1..Pairs
  PROVE  /\ KeyAt(i) \in Keys /\ KeyAt(i) \in STRING \X STRING
         /\ Blank(i) \in Results /\ OfTask(Blank(i))
         /\ Blank(i).key = KeyAt(i) /\ Blank(i).usage = 0 /\ ~Blank(i).infra
  <1> DEFINE a == Len(Tasks)
             b == Len(Arms)
             t == ((i - 1) \div b) + 1
             m == ((i - 1) % b) + 1
  <1>1. /\ a \in Nat /\ b \in Nat /\ DOMAIN Tasks = 1..a /\ DOMAIN Arms = 1..b
        /\ \A n \in 1..a : Tasks[n] \in TaskRows
        /\ \A n \in 1..b : Arms[n] \in STRING
    <2>1. Tasks \in Seq(TaskRows) /\ Arms \in Seq(STRING)
      BY BenchAssumption DEF BenchAssumption, TaskRows
    <2> QED BY <2>1
  <1>2. i \in 1..(a * b) /\ i \in Nat \ {0}
    BY <1>1, NatProduct DEF Pairs
  <1>3. b # 0
    BY <1>1, <1>2
  <1>4. t \in 1..a
    BY <1>1, <1>2, <1>3, RowOfPair
  <1>5. m \in 1..b
    BY <1>1, <1>2, <1>3, PlaceOfPair
  <1>6. TaskAt(i) = Tasks[t] /\ ArmAt(i) = Arms[m]
    BY DEF TaskAt, ArmAt
  <1> HIDE DEF t, m, a, b
  <1>7. Tasks[t].id \in STRING /\ Tasks[t].repeat \in BOOLEAN /\ Arms[m] \in STRING
    BY <1>1, <1>4, <1>5 DEF TaskRows
  <1>8. KeyAt(i) = <<Tasks[t].id, Arms[m]>>
    BY <1>6 DEF KeyAt
  <1>9. Blank(i) = [key |-> <<Tasks[t].id, Arms[m]>>, arm |-> Arms[m], repeat |-> Tasks[t].repeat,
                    infra |-> FALSE, verify |-> -1, usage |-> 0, try |-> 0]
    BY <1>6, <1>8 DEF Blank
  <1>10. KeyAt(i) \in Keys
    BY DEF Keys
  <1>11. Blank(i) \in Results
    BY <1>7, <1>9 DEF Results
  <1>12. t \in 1..Len(Tasks)
    BY <1>4 DEF a
  <1>13. OfTask(Blank(i))
    BY <1>9, <1>12 DEF OfTask
  <1> QED BY <1>7, <1>8, <1>9, <1>10, <1>11, <1>13

\* Nothing is scored or run at first.
LEMMA BenchInitOK == BenchInit => BenchInv
  <1> SUFFICES ASSUME BenchInit PROVE BenchInv
    OBVIOUS
  <1>1. RowsInv
    BY DEF BenchInit, RowsInv, Scored
  <1>2. RunnerInv
    BY DEF BenchInit, RunnerInv, Phases, Busy
  <1> QED BY <1>1, <1>2 DEF BenchInit, SkipsInv, BenchInv

\* A row is appended: one with a score has a key that no scored row has.
LEMMA AppendOK ==
  ASSUME RowsInv, NEW r \in Results, OfTask(r), rows' = Append(rows, r),
         ~r.infra => r.key \notin ExistingResults
  PROVE  /\ RowsInv'
         /\ ExistingResults' = IF r.infra THEN ExistingResults ELSE ExistingResults \cup {r.key}
  <1> DEFINE n == Len(rows) + 1
  <1>1. /\ rows \in Seq(Results) /\ Len(rows) \in Nat /\ n \in Nat
        /\ rows' \in Seq(Results) /\ Len(rows') = n /\ rows'[n] = r
        /\ \A i \in 1..Len(rows) : rows'[i] = rows[i]
    BY DEF RowsInv
  <1>2. Scored' = IF r.infra THEN Scored ELSE Scored \cup {n}
    <2>1. \A i : i \in 1..n <=> i \in 1..Len(rows) \/ i = n
      BY <1>1
    <2>2. \A i : i \in Scored' <=> i \in 1..n /\ ~rows'[i].infra
      BY <1>1 DEF Scored
    <2>3. \A i : i \in Scored <=> i \in 1..Len(rows) /\ ~rows[i].infra
      BY DEF Scored
    <2>4. n \notin 1..Len(rows)
      BY <1>1
    <2> HIDE DEF n
    <2>5. \A i : i \in Scored' <=> i \in Scored \/ (i = n /\ ~r.infra)
      BY <1>1, <2>1, <2>2, <2>3, <2>4
    <2> QED BY <2>5
  <1>3. /\ ExistingResults = {rows[i].key : i \in Scored}
        /\ ExistingResults' = {rows'[i].key : i \in Scored'}
    BY DEF ExistingResults, Scored
  <1>4. \A i \in Scored : i \in 1..Len(rows) /\ rows'[i] = rows[i]
    BY <1>1 DEF Scored
  <1>5. ExistingResults' = IF r.infra THEN ExistingResults ELSE ExistingResults \cup {r.key}
    BY <1>1, <1>2, <1>3, <1>4
  <1>6. \A i \in 1..Len(rows') : OfTask(rows'[i])
    <2>1. \A i \in 1..n : i \in 1..Len(rows) \/ i = n
      BY <1>1
    <2> QED BY <1>1, <2>1 DEF RowsInv
  <1>7. \A i, j \in Scored' : rows'[i].key = rows'[j].key => i = j
    <2>1. \A i \in Scored : rows[i].key \in ExistingResults
      BY <1>3
    <2> QED BY <1>1, <1>2, <1>4, <2>1 DEF RowsInv
  <1>8. \A i \in 1..Len(rows') : OfTask(rows[i])'
    BY <1>6 DEF OfTask
  <1> QED BY <1>1, <1>5, <1>7, <1>8 DEF RowsInv

\* What follows from the rows that stay as they are.
LEMMA RowsStay == UNCHANGED rows => ExistingResults' = ExistingResults /\ (RowsInv => RowsInv')
  BY DEF ExistingResults, RowsInv, Scored, OfTask

\* The runner reads the results file and has nothing under way.
LEMMA NewRunnerOK == BenchInv /\ NewRunner => BenchInv'
  <1> SUFFICES ASSUME BenchInv, NewRunner PROVE BenchInv'
    OBVIOUS
  <1>1. RowsInv' /\ ExistingResults' = ExistingResults
    BY RowsStay DEF BenchInv, NewRunner
  <1>2. RunnerInv'
    BY DEF BenchInv, RunnerInv, NewRunner, Phases, Busy
  <1>3. SkipsInv'
    BY <1>1 DEF NewRunner, SkipsInv
  <1> QED BY <1>1, <1>2, <1>3 DEF BenchInv

\* The next pair is taken, or left out.
LEMMA NextPairOK == BenchInv /\ NextPair => BenchInv'
  <1> SUFFICES ASSUME BenchInv, NextPair PROVE BenchInv'
    OBVIOUS
  <1>1. RowsInv' /\ ExistingResults' = ExistingResults
    BY RowsStay DEF BenchInv, NextPair
  <1>2. at \in Nat \ {0} /\ Pairs \in Nat
    BY BenchAssumption, NatProduct DEF BenchInv, RunnerInv, Pairs, BenchAssumption
  <1>3. \/ phase' = "done" /\ UNCHANGED <<at, res>>
        \/ at' = at + 1 /\ UNCHANGED <<phase, res>>
        \/ phase' = "prepare" /\ res' = Blank(at) /\ UNCHANGED at /\ KeyAt(at) \notin completed /\ at \in 1..Pairs
    BY <1>2 DEF NextPair
  <1>4. ASSUME phase' = "prepare" /\ res' = Blank(at) /\ UNCHANGED at /\ KeyAt(at) \notin completed /\ at \in 1..Pairs
        PROVE  RunnerInv'
    <2>1. res' \in Results /\ OfTask(res') /\ res'.key = KeyAt(at) /\ res'.usage = 0 /\ ~res'.infra
      BY <1>4, PairIsTask
    <2>2. OfTask(res)' /\ KeyAt(at)' = KeyAt(at)
      BY <1>4, <2>1 DEF OfTask, KeyAt, TaskAt, ArmAt
    <2> QED BY <1>4, <2>1, <2>2 DEF BenchInv, RunnerInv, NextPair, Phases, Busy
  <1>5. RunnerInv'
    BY <1>2, <1>3, <1>4 DEF BenchInv, RunnerInv, NextPair, Phases, Busy
  <1>6. SkipsInv'
    <2>1. ExistingResults \subseteq completed
      BY DEF BenchInv, SkipsInv, NextPair
    <2>2. \A k \in completed : k \in ExistingResults \/ \E j \in 1..(at - 1) : KeyAt(j) = k
      BY DEF BenchInv, SkipsInv, NextPair
    <2>3. completed' = completed /\ at' \in {at, at + 1}
      BY <1>3 DEF NextPair
    <2>4. \A j \in 1..(at - 1) : j \in 1..(at' - 1)
      <3>1. at \in Nat /\ (at' = at \/ at' = at + 1)
        BY <1>2, <2>3
      <3> QED BY <3>1
    <2> QED BY <1>1, <2>1, <2>2, <2>3, <2>4 DEF SkipsInv, KeyAt, TaskAt, ArmAt
  <1> QED BY <1>1, <1>5, <1>6 DEF BenchInv

\* Of a result under way, what the steps of a run change.
LEMMA ResultStays ==
  ASSUME NEW r \in Results, OfTask(r), NEW s \in Results,
         s.key = r.key, s.arm = r.arm, s.repeat = r.repeat, s.usage \in {0, s.try}
  PROVE  OfTask(s)
  BY DEF OfTask

\* The worktree is made and the trace of an earlier run removed, or the harness fails.
LEMMA PrepareOK == BenchInv /\ Prepare => BenchInv'
  <1> SUFFICES ASSUME BenchInv, Prepare PROVE BenchInv'
    OBVIOUS
  <1>1. RowsInv' /\ ExistingResults' = ExistingResults
    BY RowsStay DEF BenchInv, Prepare
  <1>2. SkipsInv'
    BY <1>1 DEF BenchInv, SkipsInv, Prepare, KeyAt, TaskAt, ArmAt
  <1>3. /\ at \in 1..Pairs /\ res \in Results /\ OfTask(res) /\ res.key = KeyAt(at)
        /\ res.key \notin completed /\ res.usage = 0 /\ tries \in Nat /\ tries + 1 \in Nat
        /\ traces \in [Keys -> Nat] /\ KeyAt(at) \in Keys
    BY PairIsTask DEF BenchInv, RunnerInv, Prepare, Busy
  <1>4. \/ /\ phase' = "execute" /\ tries' = tries + 1
           /\ traces' = [traces EXCEPT ![KeyAt(at)] = 0] /\ res' = [res EXCEPT !.try = tries + 1]
        \/ /\ phase' = "record" /\ res' = [res EXCEPT !.infra = TRUE] /\ UNCHANGED <<tries, traces>>
    BY DEF Prepare
  <1>5. /\ res' \in Results /\ res'.key = res.key /\ res'.arm = res.arm /\ res'.repeat = res.repeat
        /\ res'.usage = 0
    <2>1. CASE res' = [res EXCEPT !.try = tries + 1]
      BY <1>3, <2>1 DEF Results
    <2>2. CASE res' = [res EXCEPT !.infra = TRUE]
      BY <1>3, <2>2 DEF Results
    <2> QED BY <1>4, <2>1, <2>2
  <1>6. OfTask(res')
    BY <1>3, <1>5, ResultStays
  <1>7. traces' \in [Keys -> Nat] /\ (phase' = "execute" => traces'[KeyAt(at)] = 0)
    BY <1>3, <1>4
  <1>8. OfTask(res)' /\ KeyAt(at)' = KeyAt(at) /\ Pairs' = Pairs
    BY <1>6 DEF OfTask, KeyAt, TaskAt, ArmAt, Prepare, Pairs
  <1>9. RunnerInv'
    BY <1>3, <1>4, <1>5, <1>7, <1>8 DEF BenchInv, RunnerInv, Prepare, Phases, Busy
  <1> QED BY <1>1, <1>2, <1>9 DEF BenchInv

\* The run may write the end that its tokens are read from; no other does.
LEMMA ExecuteBaryoOK == BenchInv /\ ExecuteBaryo => BenchInv'
  <1> SUFFICES ASSUME BenchInv, ExecuteBaryo PROVE BenchInv'
    OBVIOUS
  <1>1. RowsInv' /\ ExistingResults' = ExistingResults
    BY RowsStay DEF BenchInv, ExecuteBaryo
  <1>2. SkipsInv'
    BY <1>1 DEF BenchInv, SkipsInv, ExecuteBaryo, KeyAt, TaskAt, ArmAt
  <1>3. /\ at \in 1..Pairs /\ res \in Results /\ OfTask(res) /\ res.key = KeyAt(at)
        /\ res.key \notin completed /\ res.usage = 0 /\ res.try \in Nat
        /\ traces \in [Keys -> Nat] /\ KeyAt(at) \in Keys /\ traces[KeyAt(at)] = 0
    BY PairIsTask DEF BenchInv, RunnerInv, ExecuteBaryo, Busy, Results
  <1>4. \/ \E n \in {0, res.try} :
              /\ traces' = [traces EXCEPT ![KeyAt(at)] = n] /\ phase' = "verify"
              /\ res' = [res EXCEPT !.usage = n]
        \/ phase' = "record" /\ res' = [res EXCEPT !.infra = TRUE] /\ UNCHANGED traces
    BY <1>3 DEF ExecuteBaryo, ParseTraceUsage
  <1>5. /\ res' \in Results /\ res'.key = res.key /\ res'.arm = res.arm /\ res'.repeat = res.repeat
        /\ res'.usage \in {0, res'.try}
    <2>1. ASSUME NEW n \in {0, res.try}, res' = [res EXCEPT !.usage = n]
          PROVE  /\ res' \in Results /\ res'.key = res.key /\ res'.arm = res.arm /\ res'.repeat = res.repeat
                 /\ res'.usage \in {0, res'.try}
      <3>1. n \in Nat
        BY <1>3
      <3>2. res'.usage = n /\ res'.try = res.try
        BY <1>3, <2>1 DEF Results
      <3> QED BY <1>3, <2>1, <3>1, <3>2 DEF Results
    <2>2. CASE res' = [res EXCEPT !.infra = TRUE]
      BY <1>3, <2>2 DEF Results
    <2> QED BY <1>4, <2>1, <2>2
  <1>6. OfTask(res')
    BY <1>3, <1>5, ResultStays
  <1>7. traces' \in [Keys -> Nat] /\ phase' \in {"verify", "record"}
    BY <1>3, <1>4
  <1>8. OfTask(res)' /\ KeyAt(at)' = KeyAt(at) /\ Pairs' = Pairs
    BY <1>6 DEF OfTask, KeyAt, TaskAt, ArmAt, ExecuteBaryo, Pairs
  <1>9. RunnerInv'
    BY <1>3, <1>5, <1>7, <1>8 DEF BenchInv, RunnerInv, ExecuteBaryo, Phases, Busy
  <1> QED BY <1>1, <1>2, <1>9 DEF BenchInv

\* The result is that of the verify command.
LEMMA RunVerifyOK == BenchInv /\ RunVerify => BenchInv'
  <1> SUFFICES ASSUME BenchInv, RunVerify PROVE BenchInv'
    OBVIOUS
  <1>1. RowsInv' /\ ExistingResults' = ExistingResults
    BY RowsStay DEF BenchInv, RunVerify
  <1>2. SkipsInv'
    BY <1>1 DEF BenchInv, SkipsInv, RunVerify, KeyAt, TaskAt, ArmAt
  <1>3. /\ at \in 1..Pairs /\ res \in Results /\ OfTask(res) /\ res.key = KeyAt(at)
        /\ res.key \notin completed
    BY DEF BenchInv, RunnerInv, RunVerify, Busy
  <1>4. PICK code \in {0, 1} : res' = [res EXCEPT !.verify = code]
    BY DEF RunVerify
  <1>5. /\ res' \in Results /\ res'.key = res.key /\ res'.arm = res.arm /\ res'.repeat = res.repeat
        /\ res'.usage \in {0, res'.try}
    <2>1. res.usage \in {0, res.try}
      BY <1>3 DEF OfTask
    <2> QED BY <1>3, <1>4, <2>1 DEF Results
  <1>6. OfTask(res')
    BY <1>3, <1>5, ResultStays
  <1>7. OfTask(res)' /\ KeyAt(at)' = KeyAt(at) /\ Pairs' = Pairs
    BY <1>6 DEF OfTask, KeyAt, TaskAt, ArmAt, RunVerify, Pairs
  <1>8. RunnerInv'
    BY <1>3, <1>5, <1>7 DEF BenchInv, RunnerInv, RunVerify, Phases, Busy
  <1> QED BY <1>1, <1>2, <1>8 DEF BenchInv

\* The row of the pair is written, or reported and left out: either way this
\* runner is done with it.
LEMMA RecordResultOK == BenchInv /\ RecordResult => BenchInv'
  <1> SUFFICES ASSUME BenchInv, RecordResult PROVE BenchInv'
    OBVIOUS
  <1>1. /\ RowsInv /\ at \in 1..Pairs /\ res \in Results /\ OfTask(res) /\ res.key = KeyAt(at)
        /\ res.key \notin completed /\ ExistingResults \subseteq completed
        /\ at \in Nat \ {0}
    BY DEF BenchInv, RunnerInv, SkipsInv, RecordResult, Busy
  <1>2. rows' = Append(rows, res) \/ rows' = rows
    BY DEF RecordResult
  <1>3. /\ RowsInv'
        /\ ExistingResults \subseteq ExistingResults'
        /\ ExistingResults' \subseteq IF res.infra THEN ExistingResults ELSE ExistingResults \cup {res.key}
    <2>1. CASE rows' = rows
      BY <1>1, <2>1, RowsStay
    <2>2. CASE rows' = Append(rows, res)
      BY <1>1, <2>2, AppendOK
    <2> QED BY <1>2, <2>1, <2>2
  <1>4. /\ completed' = (IF res.infra THEN completed ELSE completed \cup {res.key})
        /\ phase' = "next" /\ at' = at + 1
    BY DEF RecordResult
  <1>5. RunnerInv'
    BY <1>1, <1>4 DEF BenchInv, RunnerInv, RecordResult, Phases, Busy
  <1>6. ExistingResults' \subseteq completed'
    BY <1>1, <1>3, <1>4
  <1>7. ASSUME NEW k \in completed'
        PROVE  k \in ExistingResults' \/ \E j \in 1..(at' - 1) : KeyAt(j) = k
    <2>1. \A j \in 1..(at - 1) : j \in 1..(at' - 1)
      BY <1>1, <1>4
    <2>2. at \in 1..(at' - 1)
      BY <1>1, <1>4
    <2>3. CASE k \in completed
      <3>1. k \in ExistingResults \/ \E j \in 1..(at - 1) : KeyAt(j) = k
        BY <2>3 DEF BenchInv, SkipsInv, RecordResult
      <3> QED BY <1>3, <2>1, <3>1
    <2>4. CASE k = res.key
      BY <1>1, <2>2, <2>4
    <2> QED BY <1>4, <1>7, <2>3, <2>4
  <1>8. SkipsInv'
    BY <1>6, <1>7 DEF SkipsInv, KeyAt, TaskAt, ArmAt
  <1> QED BY <1>3, <1>5, <1>8 DEF BenchInv

\* A runner that ends leaves what it has written.
LEMMA ExitOK == BenchInv /\ (RepairResults \/ Interrupt \/ Exit) => BenchInv'
  <1> SUFFICES ASSUME BenchInv, RepairResults \/ Interrupt \/ Exit PROVE BenchInv'
    OBVIOUS
  <1>1. /\ UNCHANGED <<rows, traces, tries, runners, completed, at, res>>
        /\ phase' \in {phase, "off"}
    BY DEF RepairResults, Interrupt, Exit
  <1>2. RowsInv' /\ ExistingResults' = ExistingResults
    BY <1>1, RowsStay DEF BenchInv
  <1>3. RunnerInv'
    BY <1>1, Zenon DEF BenchInv, RunnerInv, Phases, Busy, OfTask, KeyAt, TaskAt, ArmAt, Pairs
  <1>4. SkipsInv'
    BY <1>1, <1>2 DEF BenchInv, SkipsInv, KeyAt, TaskAt, ArmAt
  <1> QED BY <1>2, <1>3, <1>4 DEF BenchInv

\* Every step keeps the invariant.
LEMMA BenchStep == BenchInv /\ [BenchNext]_benchVars => BenchInv'
  <1>1. ASSUME BenchInv, UNCHANGED benchVars PROVE BenchInv'
    <2>1. RowsInv' /\ ExistingResults' = ExistingResults
      BY <1>1, RowsStay DEF BenchInv, benchVars
    <2>2. RunnerInv'
      BY <1>1, Zenon DEF BenchInv, benchVars, RunnerInv, Phases, Busy, OfTask, KeyAt, TaskAt, ArmAt, Pairs
    <2>3. SkipsInv'
      BY <1>1, <2>1 DEF BenchInv, benchVars, SkipsInv, KeyAt, TaskAt, ArmAt
    <2> QED BY <2>1, <2>2, <2>3 DEF BenchInv
  <1> QED
    BY <1>1, NewRunnerOK, NextPairOK, PrepareOK, ExecuteBaryoOK, RunVerifyOK, RecordResultOK, ExitOK
       DEF BenchNext

\* The gate asks for a task that only "B" passed: if "B" has passed none, it is
\* no better than "A".
LEMMA NoneIsNotBetter ==
  ASSUME NEW a \in Nat \ {0}, NEW b \in Nat \ {0}, NEW q \in Nat
  PROVE  ~(100 * (0 * a - q * b) >= 25 * a * b)
  <1>1. q * b \in Nat /\ a * b \in Nat \ {0} /\ 0 * a = 0 /\ 25 * a * b = 25 * (a * b)
    OBVIOUS
  <1> DEFINE x == q * b
             y == a * b
  <1>2. x \in Nat /\ y \in Nat \ {0}
    BY <1>1
  <1> HIDE DEF x, y
  <1>3. ~(100 * (0 - x) >= 25 * y)
    BY <1>2
  <1> QED BY <1>1, <1>3 DEF x, y

\* The tasks that the gate is about.
Repeated == {t \in 1..Len(Tasks) : Tasks[t].repeat}

\* An arm has at most a score for each of them: a scored row has the key of one,
\* and no other row has that key.
LEMMA ShapedAreTasks ==
  ASSUME RowsInv, NEW arm
  PROVE  /\ IsFiniteSet(Shaped(arm)) /\ Cardinality(Shaped(arm)) \in Nat
         /\ Cardinality(Shaped(arm)) <= Cardinality(Repeated)
  <1> DEFINE Of(i, t) == rows[i].key = <<Tasks[t].id, arm>>
             f == [i \in Shaped(arm) |-> CHOOSE t \in Repeated : Of(i, t)]
  <1>1. ASSUME NEW i \in Shaped(arm)
        PROVE  \E t \in Repeated : Of(i, t)
    <2>1. i \in 1..Len(rows) /\ rows[i].arm = arm /\ rows[i].repeat
      BY DEF Shaped, Scored
    <2>2. PICK t \in 1..Len(Tasks) : rows[i].key = <<Tasks[t].id, rows[i].arm>> /\ rows[i].repeat = Tasks[t].repeat
      BY <2>1 DEF RowsInv, OfTask
    <2> QED BY <2>1, <2>2, Zenon DEF Repeated
  <1>2. \A i \in Shaped(arm) : f[i] \in Repeated /\ Of(i, f[i])
    BY <1>1, Zenon
  <1>3. f \in [Shaped(arm) -> Repeated]
    BY <1>2
  <1>4. \A i, j \in Shaped(arm) : f[i] = f[j] => i = j
    <2>1. \A i, j \in Shaped(arm) : f[i] = f[j] => rows[i].key = rows[j].key
      BY <1>2
    <2> QED BY <2>1 DEF RowsInv, Shaped
  <1>5. IsFiniteSet(Repeated) /\ Cardinality(Repeated) \in Nat
    <2>1. Len(Tasks) \in Nat
      BY BenchAssumption DEF BenchAssumption
    <2>2. IsFiniteSet(1..Len(Tasks)) /\ Repeated \subseteq 1..Len(Tasks)
      BY <2>1, FS_Interval DEF Repeated
    <2> QED BY <2>2, FS_Subset, FS_CardinalityType
  <1> HIDE DEF f
  <1>6. IsFiniteSet(Shaped(arm)) /\ Cardinality(Shaped(arm)) <= Cardinality(Repeated)
    BY <1>3, <1>4, <1>5, Injected
  <1> QED BY <1>6, FS_CardinalityType

\* The gate passes only if "B" has passed a task.
LEMMA PassedHasTask ==
  ASSUME RowsInv, Gate = "PASSED"
  PROVE  Passed("B") # {}
  <1> DEFINE a == Cardinality(Shaped("A"))
             b == Cardinality(Shaped("B"))
             p == Cardinality(Passed("B"))
             q == Cardinality(Passed("A"))
  <1>1. a # 0 /\ b # 0 /\ 100 * (p * a - q * b) >= 25 * a * b
    BY DEF Gate
  <1>2. a \in Nat /\ b \in Nat /\ q \in Nat
    <2>1. Passed("A") \subseteq Shaped("A")
      BY DEF Passed
    <2> QED BY <2>1, ShapedAreTasks, FS_Subset, FS_CardinalityType
  <1>3. Passed("B") = {} => p = 0
    BY FS_EmptySet
  <1> HIDE DEF a, b, p, q
  <1> QED BY <1>1, <1>2, <1>3, NoneIsNotBetter

\* What the gate is fair about.
LEMMA BenchIsFair == BenchInv => ScoresAreFair
  <1> SUFFICES ASSUME BenchInv PROVE ScoresAreFair
    OBVIOUS
  <1>1. ScoredOnce
    BY ShapedAreTasks, PassedHasTask, Zenon DEF BenchInv, RowsInv, ScoredOnce, Repeated
  <1>2. UsageIsOwn
    BY DEF BenchInv, RowsInv, OfTask, UsageIsOwn
  <1>3. \A k \in ExistingResults : \E i \in Scored : rows[i].key = k
    BY DEF ExistingResults, Scored
  <1>4. SkipsOnlyRun
    BY <1>3 DEF BenchInv, SkipsInv, SkipsOnlyRun
  <1> QED BY <1>1, <1>2, <1>4 DEF ScoresAreFair

-----------------------------------------------------------------------------
(* Tasks and inquiries behind the chat (Background) *)

TaskRecords == [status : {"running", "completed", "failed"}, result : {Nobody} \cup (Nat \X Nat)]

\* Tasks are numbered by chat: those of this chat are listed, and of those of an
\* earlier chat the numbers are inherited as long as they run.
TasksInv ==
  /\ chat \in Nat
  /\ tasks \in Seq(TaskRecords)
  /\ subagents \subseteq Nat \X Nat /\ lost \subseteq Nat \X Nat
  /\ subagents \cap lost = {}
  /\ \A t \in subagents \cup lost : t[1] <= chat /\ (t[1] = chat => t[2] \in 1..Len(tasks))
  /\ \A t \in subagents : t[1] < chat => t[2] \in inherited
  /\ TasksAreOwn

RoundPcs == {"round", "tellSearching", "searches", "tellReading", "reads", "tellAnalysing", "analyses"}
EndPcs == {"tellTimeout", "tellBreak", "stops", "breaks"}
GapPcs == {"gap", "seeks"}
Pcs == {"idle", "over", "told"} \cup RoundPcs \cup EndPcs \cup GapPcs

Inquiries == [kind : {"none", "report", "tool", "gaps"}, of : Nat, depth : Nat, pc : Pcs,
              round : Nat, queued : Nat, heard : BOOLEAN, stopped : BOOLEAN,
              found : SUBSET (Nat \ {0}), cited : SUBSET (Nat \ {0}), completed : Nat,
              outcome : {"none", "found", "error", "lost"}]

\* Where an inquiry of each kind may be.
Placed(i) ==
  /\ i.kind = "none" => i.pc = "idle"
  /\ i.kind = "gaps" => i.pc \in {"over", "told"} \cup GapPcs /\ i.depth \in 1..Queue
  /\ i.kind = "report" => i.pc \in {"over", "told", "stops", "breaks"} \cup RoundPcs /\ ~i.stopped
  /\ i.kind = "tool" => i.pc \in {"over", "told"} \cup EndPcs \cup RoundPcs /\ i.queued = 0
  /\ i.round > 0 /\ i.depth \in Nat
  /\ i.pc \notin {"over", "told"} => i.outcome = "none"

\* The rounds that research has something of: those before this one, and a page
\* is cited in the round in which it is analysed.
Gathered(i) ==
  /\ i.pc \in RoundPcs \cup EndPcs =>
       /\ i.cited \subseteq i.found \cup (IF i.pc \in {"tellAnalysing", "analyses"} THEN {i.round} ELSE {})
       /\ i.found # {} => i.completed \in i.found
       /\ \A r \in i.found : r <= i.completed
  /\ i.pc \in RoundPcs => \A r \in i.found : r < i.round
  /\ i.pc \in GapPcs => i.found = 1..(i.round - 1) /\ i.round <= i.depth /\ i.cited = {}

\* What an inquiry that has ended may claim: see InquiryIsWhole.
Claimed(i) ==
  /\ i.outcome = "found" =>
       /\ i.found # {} /\ i.cited \subseteq i.found
       /\ i.kind = "gaps" => i.found = 1..i.depth
       /\ i.kind # "gaps" => i.completed \in i.found /\ \A r \in i.found : r <= i.completed
  /\ i.outcome = "error" => i.found = {}

\* How many messages of its round research has sent when it is at a place.
Sent(place) ==
  IF place \in {"searches", "tellReading"} THEN 1
  ELSE IF place \in {"reads", "tellAnalysing"} THEN 2
  ELSE IF place = "analyses" THEN 3 ELSE 0

\* The messages that may be waiting: three for each round, one for each gap.
Queued(i) ==
  /\ i.kind = "report" /\ i.pc \in RoundPcs =>
       /\ i.queued <= 3 * (i.round - 1) + Sent(i.pc)
       /\ i.pc # "round" => i.round <= i.depth
  /\ i.pc = "gap" => i.queued < i.round
  /\ i.pc = "seeks" => i.queued <= i.round

InquiryOK(i) == i \in Inquiries /\ Placed(i) /\ Gathered(i) /\ Claimed(i) /\ Queued(i)

BackgroundInv == TasksInv /\ InquiryOK(inquiry)

-----------------------------------------------------------------------------
(* Lemmas about inquiries: each step keeps what InquiryOK says. *)

\* The inquiry that this one becomes, by the fields that a round changes.
Became(i, place, n, waiting, has, cites, last, result) ==
  /\ i \in Inquiries
  /\ i.kind = inquiry.kind /\ i.depth = inquiry.depth /\ i.stopped = inquiry.stopped
  /\ i.pc = place /\ i.round = n /\ i.queued = waiting
  /\ i.found = has /\ i.cited = cites /\ i.completed = last /\ i.outcome = result

\* How many messages research has sent, by place.
LEMMA SentBy ==
  /\ Sent("round") = 0 /\ Sent("tellSearching") = 0
  /\ Sent("searches") = 1 /\ Sent("tellReading") = 1
  /\ Sent("reads") = 2 /\ Sent("tellAnalysing") = 2
  /\ Sent("analyses") = 3
  BY DEF Sent

\* Nothing is asked at first.
LEMMA NoInquiryOK == InquiryOK(NoInquiry)
  BY BackgroundAssumption
     DEF NoInquiry, InquiryOK, Inquiries, Pcs, Placed, Gathered, Claimed, Queued,
         RoundPcs, EndPcs, GapPcs, Sent

\* An inquiry starts with its first round or gap.
LEMMA StartOK ==
  ASSUME NEW kind \in {"report", "tool", "gaps"}, StartInquiry(kind), chat \in Nat
  PROVE  InquiryOK(inquiry')
  <1>1. PICK n \in IF kind = "gaps" THEN Gaps ELSE Depths :
          inquiry' = [NoInquiry EXCEPT !.kind = kind, !.of = chat, !.depth = n,
                        !.pc = IF kind = "gaps" THEN "gap" ELSE "round"]
    BY DEF StartInquiry
  <1>2. n \in Nat \ {0} /\ (kind = "gaps" => n \in 1..Queue)
    BY BackgroundAssumption
  <1>3. inquiry' = [kind |-> kind, of |-> chat, depth |-> n, pc |-> IF kind = "gaps" THEN "gap" ELSE "round",
                    round |-> 1, queued |-> 0, heard |-> TRUE, stopped |-> FALSE,
                    found |-> {}, cited |-> {}, completed |-> 0, outcome |-> "none"]
    BY <1>1 DEF NoInquiry
  <1>4. inquiry' \in Inquiries
    BY <1>2, <1>3 DEF Inquiries, Pcs, RoundPcs, GapPcs
  <1> QED
    BY <1>2, <1>3, <1>4
       DEF InquiryOK, Placed, Gathered, Claimed, Queued, RoundPcs, EndPcs, GapPcs, Sent

\* A message is sent: it waits in the channel, but for the tool's.
LEMMA TellOK ==
  ASSUME InquiryOK(inquiry), Tell
  PROVE  InquiryOK(inquiry')
  <1>1. PICK next \in DOMAIN Sends :
          /\ inquiry.pc = Sends[next]
          /\ inquiry' = [To(next) EXCEPT !.queued = IF inquiry.kind = "tool" THEN 0 ELSE @ + 1]
    BY DEF Tell, Goes
  <1>2. \/ inquiry.pc = "tellSearching" /\ next = "searches"
        \/ inquiry.pc = "tellReading" /\ next = "reads"
        \/ inquiry.pc = "tellAnalysing" /\ next = "analyses"
        \/ inquiry.pc = "tellTimeout" /\ next = "stops"
        \/ inquiry.pc = "tellBreak" /\ next = "breaks"
        \/ inquiry.pc = "gap" /\ next = "seeks"
    <2>1. DOMAIN Sends = {"searches", "reads", "analyses", "stops", "breaks", "seeks"}
      BY DEF Sends
    <2>2. /\ Sends["searches"] = "tellSearching" /\ Sends["reads"] = "tellReading"
          /\ Sends["analyses"] = "tellAnalysing" /\ Sends["stops"] = "tellTimeout"
          /\ Sends["breaks"] = "tellBreak" /\ Sends["seeks"] = "gap"
      BY DEF Sends
    <2> QED BY <1>1, <2>1, <2>2
  <1>t. inquiry \in Inquiries
    BY DEF InquiryOK
  <1>3. To(next) = [inquiry EXCEPT !.pc = next]
    BY DEF To
  <1>4. inquiry.queued + 1 \in Nat /\ inquiry.queued \in Nat /\ inquiry.round \in Nat /\ inquiry.depth \in Nat
    BY <1>t DEF Inquiries
  <1>5. next \in Pcs
    BY <1>2 DEF Pcs, RoundPcs, EndPcs, GapPcs
  <1>6. Became(inquiry', next, inquiry.round, IF inquiry.kind = "tool" THEN 0 ELSE inquiry.queued + 1,
               inquiry.found, inquiry.cited, inquiry.completed, inquiry.outcome)
    BY <1>t, <1>1, <1>3, <1>4, <1>5 DEF Became, Inquiries
  <1>7. inquiry' \in Inquiries
    BY <1>6 DEF Became
  <1>8. Placed(inquiry')
    BY <1>2, <1>6 DEF Became, InquiryOK, Placed, RoundPcs, EndPcs, GapPcs
  <1>9. Gathered(inquiry')
    BY <1>2, <1>6 DEF Became, InquiryOK, Gathered, RoundPcs, EndPcs, GapPcs
  <1>10. Claimed(inquiry')
    BY <1>6 DEF Became, InquiryOK, Claimed
  <1>11. Queued(inquiry')
    <2>1. /\ inquiry'.kind = inquiry.kind /\ inquiry'.pc = next
          /\ inquiry'.round = inquiry.round /\ inquiry'.depth = inquiry.depth
          /\ inquiry'.queued = IF inquiry.kind = "tool" THEN 0 ELSE inquiry.queued + 1
      BY <1>6 DEF Became
    <2>2. ASSUME inquiry.kind = "report", next \in RoundPcs
          PROVE  /\ inquiry.queued + 1 <= 3 * (inquiry.round - 1) + Sent(next)
                 /\ inquiry.round <= inquiry.depth
      <3>1. next \in {"searches", "reads", "analyses"}
        BY <1>2, <2>2 DEF RoundPcs
      <3>2. /\ inquiry.queued <= 3 * (inquiry.round - 1) + Sent(inquiry.pc)
            /\ inquiry.round <= inquiry.depth
            /\ Sent(next) = Sent(inquiry.pc) + 1 /\ Sent(inquiry.pc) \in Nat
        <4>1. inquiry.pc \in {"tellSearching", "tellReading", "tellAnalysing"}
          BY <1>2, <3>1
        <4>2. inquiry.pc \in RoundPcs /\ inquiry.pc # "round"
          BY <4>1 DEF RoundPcs
        <4>3. Sent(next) = Sent(inquiry.pc) + 1 /\ Sent(inquiry.pc) \in Nat
          <5>1. \/ inquiry.pc = "tellSearching" /\ next = "searches"
                \/ inquiry.pc = "tellReading" /\ next = "reads"
                \/ inquiry.pc = "tellAnalysing" /\ next = "analyses"
            BY <1>2, <3>1
          <5> QED BY <5>1, SentBy
        <4> QED BY <2>2, <4>2, <4>3 DEF InquiryOK, Queued
      <3> QED BY <1>4, <3>2
    <2>3. next # "gap" /\ (next = "seeks" => inquiry.queued + 1 <= inquiry.round)
      <3>1. next # "gap" /\ (next = "seeks" => inquiry.pc = "gap")
        BY <1>2
      <3>2. inquiry.pc = "gap" => inquiry.queued < inquiry.round
        BY DEF InquiryOK, Queued
      <3> QED BY <1>4, <3>1, <3>2
    <2>4. inquiry.queued + 1 = inquiry'.queued \/ (inquiry.kind = "tool" /\ inquiry'.queued = 0)
      BY <2>1
    <2> QED BY <1>4, <2>1, <2>2, <2>3, <2>4 DEF Queued
  <1> QED BY <1>7, <1>8, <1>9, <1>10, <1>11 DEF InquiryOK

\* A turn's research is stopped where it is.
LEMMA StopOK ==
  ASSUME InquiryOK(inquiry), Stop
  PROVE  InquiryOK(inquiry')
  <1>1. inquiry.kind = "tool" /\ inquiry' = [inquiry EXCEPT !.stopped = TRUE]
    BY DEF Stop, Goes
  <1>2. inquiry \in Inquiries
    BY DEF InquiryOK
  <1>3. /\ inquiry' \in Inquiries
        /\ inquiry'.kind = inquiry.kind /\ inquiry'.depth = inquiry.depth /\ inquiry'.pc = inquiry.pc
        /\ inquiry'.round = inquiry.round /\ inquiry'.queued = inquiry.queued
        /\ inquiry'.found = inquiry.found /\ inquiry'.cited = inquiry.cited
        /\ inquiry'.completed = inquiry.completed /\ inquiry'.outcome = inquiry.outcome
    BY <1>1, <1>2 DEF Inquiries
  <1> QED BY <1>1, <1>3 DEF InquiryOK, Placed, Gathered, Claimed, Queued

\* What the goroutine does next: only its place, its outcome and its round
\* change.
LEMMA MovedOK ==
  ASSUME InquiryOK(inquiry), NEW place \in Pcs, NEW result \in {"none", "found", "error", "lost"},
         inquiry' = [[inquiry EXCEPT !.pc = place] EXCEPT !.outcome = result]
  PROVE  Became(inquiry', place, inquiry.round, inquiry.queued, inquiry.found, inquiry.cited,
                inquiry.completed, result)
  <1>1. inquiry \in Inquiries
    BY DEF InquiryOK
  <1> QED BY <1>1 DEF Became, Inquiries

\* A round begins, or the research ends.
LEMMA BeginRoundOK ==
  ASSUME InquiryOK(inquiry), BeginRound
  PROVE  InquiryOK(inquiry')
  <1>1. inquiry \in Inquiries /\ inquiry.pc = "round"
    BY DEF InquiryOK, BeginRound
  <1>2. \/ inquiry.round > inquiry.depth /\ inquiry' = To("stops")
        \/ /\ ~(inquiry.round > inquiry.depth) /\ ~inquiry.stopped
           /\ inquiry' = To("tellSearching")
        \/ inquiry.stopped /\ inquiry.found # {} /\ inquiry' = To("tellTimeout")
        \/ inquiry.found = {} /\ inquiry' = [To("over") EXCEPT !.outcome = "error"]
    BY DEF BeginRound, Goes, Result
  <1>3. CASE inquiry' = [To("over") EXCEPT !.outcome = "error"] /\ inquiry.found = {}
    <2>1. Became(inquiry', "over", inquiry.round, inquiry.queued, inquiry.found, inquiry.cited,
                 inquiry.completed, "error")
      BY <1>3, MovedOK DEF To, Pcs
    <2> QED BY <1>1, <1>3, <2>1 DEF Became, InquiryOK, Placed, Gathered, Claimed, Queued, RoundPcs, EndPcs, GapPcs
  <1>4. ASSUME NEW place \in RoundPcs \cup EndPcs, inquiry' = To(place),
               \/ place = "stops" /\ inquiry.round > inquiry.depth
               \/ place = "tellSearching" /\ inquiry.round <= inquiry.depth
               \/ place = "tellTimeout" /\ inquiry.stopped
        PROVE  InquiryOK(inquiry')
    <2>1. Became(inquiry', place, inquiry.round, inquiry.queued, inquiry.found, inquiry.cited,
                 inquiry.completed, inquiry.outcome)
      BY <1>1, <1>4 DEF To, Pcs, Became, Inquiries
    <2>2. inquiry' \in Inquiries /\ Placed(inquiry')
      BY <1>1, <1>4, <2>1 DEF Became, InquiryOK, Placed, RoundPcs, EndPcs, GapPcs
    <2>3. Gathered(inquiry')
      BY <1>1, <1>4, <2>1 DEF Became, InquiryOK, Gathered, RoundPcs, EndPcs, GapPcs
    <2>4. Claimed(inquiry')
      BY <2>1 DEF Became, InquiryOK, Claimed
    <2>5. Queued(inquiry')
      BY <1>1, <1>4, <2>1, SentBy DEF Became, InquiryOK, Placed, Queued, RoundPcs, EndPcs
    <2> QED BY <2>2, <2>3, <2>4, <2>5 DEF InquiryOK
  <1>5. inquiry.round \in Nat /\ inquiry.depth \in Nat
    BY <1>1 DEF Inquiries
  <1> QED BY <1>2, <1>3, <1>4, <1>5 DEF RoundPcs, EndPcs

\* What InquiryOK says of an inquiry in terms of the fields that it became.
LEMMA BecameOK ==
  ASSUME NEW i, NEW place, NEW n, NEW waiting, NEW has, NEW cites, NEW last, NEW result,
         Became(i, place, n, waiting, has, cites, last, result),
         Placed(i), Gathered(i), Claimed(i), Queued(i)
  PROVE  InquiryOK(i)
  BY DEF Became, InquiryOK

\* The queries of a round are searched; a round may be left out, but not the
\* first.
LEMMA QueryResultsOK ==
  ASSUME InquiryOK(inquiry), QueryResults
  PROVE  InquiryOK(inquiry')
  <1>1. inquiry \in Inquiries /\ inquiry.pc = "searches" /\ inquiry.round \in Nat
    BY DEF InquiryOK, QueryResults, Inquiries
  <1>2. \/ inquiry' = To("tellReading")
        \/ inquiry.round = 1 /\ inquiry' = [To("over") EXCEPT !.outcome = "error"]
        \/ inquiry.round # 1 /\ inquiry' = [To("round") EXCEPT !.round = @ + 1]
    BY DEF QueryResults, Goes, Result
  <1>3. CASE inquiry' = To("tellReading")
    <2>1. Became(inquiry', "tellReading", inquiry.round, inquiry.queued, inquiry.found, inquiry.cited,
                 inquiry.completed, inquiry.outcome)
      BY <1>1, <1>3 DEF To, Pcs, RoundPcs, Became, Inquiries
    <2> QED
      BY <1>1, <2>1, SentBy
         DEF Became, InquiryOK, Placed, Gathered, Claimed, Queued, RoundPcs, EndPcs, GapPcs
  <1>4. CASE inquiry.round = 1 /\ inquiry' = [To("over") EXCEPT !.outcome = "error"]
    <2>1. Became(inquiry', "over", inquiry.round, inquiry.queued, inquiry.found, inquiry.cited,
                 inquiry.completed, "error")
      BY <1>4, MovedOK DEF To, Pcs
    <2>2. inquiry.found = {}
      <3>1. \A r \in inquiry.found : r \in Nat /\ r # 0 /\ r < inquiry.round
        BY <1>1 DEF InquiryOK, Gathered, RoundPcs, Inquiries
      <3> QED BY <1>4, <3>1
    <2> QED
      BY <1>1, <2>1, <2>2
         DEF Became, InquiryOK, Placed, Gathered, Claimed, Queued, RoundPcs, EndPcs, GapPcs
  <1>5. CASE inquiry.round # 1 /\ inquiry' = [To("round") EXCEPT !.round = @ + 1]
    <2>1. Became(inquiry', "round", inquiry.round + 1, inquiry.queued, inquiry.found, inquiry.cited,
                 inquiry.completed, inquiry.outcome)
      <3>1. inquiry' = [[inquiry EXCEPT !.pc = "round"] EXCEPT !.round = inquiry.round + 1]
        BY <1>1, <1>5 DEF To, Inquiries
      <3>2. inquiry.round + 1 \in Nat
        BY <1>1
      <3> QED BY <1>1, <3>1, <3>2 DEF Pcs, RoundPcs, Became, Inquiries
    <2>2. Queued(inquiry')
      BY <1>1, <2>1, SentBy DEF Became, InquiryOK, Queued, RoundPcs, Inquiries
    <2>3. Placed(inquiry') /\ Claimed(inquiry')
      BY <1>1, <2>1 DEF Became, InquiryOK, Placed, Claimed, RoundPcs, EndPcs, GapPcs
    <2>4. Gathered(inquiry')
      BY <1>1, <2>1 DEF Became, InquiryOK, Gathered, RoundPcs, EndPcs, GapPcs, Inquiries
    <2> QED BY <2>1, <2>2, <2>3, <2>4, BecameOK
  <1> QED BY <1>2, <1>3, <1>4, <1>5

\* The pages of a round are read: one may be cited before its round counts.
LEMMA FetchContentOK ==
  ASSUME InquiryOK(inquiry), FetchContent
  PROVE  InquiryOK(inquiry')
  <1>1. inquiry \in Inquiries /\ inquiry.pc = "reads" /\ inquiry.round \in Nat
    BY DEF InquiryOK, FetchContent, Inquiries
  <1>2. PICK pages \in {{}, {inquiry.round}} :
          inquiry' = [To("tellAnalysing") EXCEPT !.cited = @ \cup pages]
    BY DEF FetchContent, Goes
  <1>3. Became(inquiry', "tellAnalysing", inquiry.round, inquiry.queued, inquiry.found,
               inquiry.cited \cup pages, inquiry.completed, inquiry.outcome)
    <2>1. pages \subseteq Nat \ {0}
      BY <1>1 DEF InquiryOK, Placed
    <2> QED BY <1>1, <1>2, <2>1 DEF To, Pcs, RoundPcs, Became, Inquiries
  <1>4. Queued(inquiry')
    BY <1>1, <1>3, SentBy DEF Became, InquiryOK, Queued, RoundPcs, Inquiries
  <1>5. Placed(inquiry') /\ Claimed(inquiry')
    BY <1>1, <1>3 DEF Became, InquiryOK, Placed, Claimed, RoundPcs, EndPcs, GapPcs
  <1>6. Gathered(inquiry')
    BY <1>1, <1>3 DEF Became, InquiryOK, Gathered, RoundPcs, EndPcs, GapPcs, Inquiries
  <1> QED BY <1>3, <1>4, <1>5, <1>6, BecameOK

\* The round counts, and what was cited in it with it; the next one begins, or
\* the research ends.
LEMMA AnalyseOK ==
  ASSUME InquiryOK(inquiry), Analyse
  PROVE  InquiryOK(inquiry')
  <1>1. inquiry \in Inquiries /\ inquiry.pc = "analyses" /\ inquiry.round \in Nat
    BY DEF InquiryOK, Analyse, Inquiries
  <1>2. PICK place \in {"round", "stops", "tellBreak"} :
          /\ place = "tellBreak" => inquiry.stopped
          /\ Became(inquiry', place, IF place = "round" THEN inquiry.round + 1 ELSE inquiry.round,
                    inquiry.queued, inquiry.found \cup {inquiry.round}, inquiry.cited,
                    inquiry.round, inquiry.outcome)
    <2> DEFINE i == [inquiry EXCEPT !.found = @ \cup {inquiry.round}, !.completed = inquiry.round]
    <2>1. /\ i \in Inquiries /\ i.kind = inquiry.kind /\ i.depth = inquiry.depth /\ i.stopped = inquiry.stopped
          /\ i.queued = inquiry.queued /\ i.round = inquiry.round
          /\ i.found = inquiry.found \cup {inquiry.round} /\ i.cited = inquiry.cited
          /\ i.completed = inquiry.round /\ i.outcome = inquiry.outcome
      <3>1. inquiry.round # 0
        BY DEF InquiryOK, Placed
      <3> QED BY <1>1, <3>1 DEF Inquiries
    <2>2. \/ inquiry' = [i EXCEPT !.pc = "round", !.round = @ + 1]
          \/ inquiry' = [i EXCEPT !.pc = "stops"]
          \/ inquiry.stopped /\ inquiry' = [i EXCEPT !.pc = "tellBreak"]
      BY DEF Analyse, Goes
    <2> HIDE DEF i
    <2>3. CASE inquiry' = [i EXCEPT !.pc = "round", !.round = @ + 1]
      <3>1. inquiry' = [[i EXCEPT !.pc = "round"] EXCEPT !.round = i.round + 1]
        BY <2>1, <2>3 DEF Inquiries
      <3>2. i.round + 1 \in Nat
        BY <1>1, <2>1
      <3> QED BY <1>1, <2>1, <3>1, <3>2 DEF Became, Inquiries, Pcs, RoundPcs
    <2>4. CASE inquiry' = [i EXCEPT !.pc = "stops"]
      BY <1>1, <2>1, <2>4 DEF Became, Inquiries, Pcs, EndPcs
    <2>5. CASE inquiry.stopped /\ inquiry' = [i EXCEPT !.pc = "tellBreak"]
      BY <1>1, <2>1, <2>5 DEF Became, Inquiries, Pcs, EndPcs
    <2> QED BY <2>2, <2>3, <2>4, <2>5
  <1>4. Queued(inquiry')
    BY <1>1, <1>2, SentBy DEF Became, InquiryOK, Queued, RoundPcs, Inquiries
  <1>5. Placed(inquiry') /\ Claimed(inquiry')
    BY <1>1, <1>2 DEF Became, InquiryOK, Placed, Claimed, RoundPcs, EndPcs, GapPcs, Inquiries
  <1>6. Gathered(inquiry')
    BY <1>1, <1>2 DEF Became, InquiryOK, Gathered, RoundPcs, EndPcs, GapPcs, Inquiries
  <1> QED BY <1>2, <1>4, <1>5, <1>6, BecameOK

\* Research that has something ends well.
LEMMA EndResearchOK ==
  ASSUME InquiryOK(inquiry), EndResearch
  PROVE  InquiryOK(inquiry')
  <1>1. inquiry \in Inquiries /\ inquiry.pc \in {"stops", "breaks"}
    BY DEF InquiryOK, EndResearch
  <1>2. Became(inquiry', "over", inquiry.round, inquiry.queued, inquiry.found, inquiry.cited,
               inquiry.completed, IF inquiry.found = {} THEN "error" ELSE "found")
    BY MovedOK DEF EndResearch, Goes, Result, To, Pcs
  <1> QED
    BY <1>1, <1>2
       DEF Became, InquiryOK, Placed, Gathered, Claimed, Queued, RoundPcs, EndPcs, GapPcs

\* A gap's search is done: what the others found is kept, or all is lost.
LEMMA SearchGapOK ==
  ASSUME InquiryOK(inquiry), SearchGap
  PROVE  InquiryOK(inquiry')
  <1>1. /\ inquiry \in Inquiries /\ inquiry.pc = "seeks" /\ inquiry.round \in Nat /\ inquiry.round # 0
        /\ inquiry.depth \in Nat /\ inquiry.queued \in Nat
    BY DEF InquiryOK, SearchGap, Inquiries, Placed
  <1>2. /\ inquiry.found = 1..(inquiry.round - 1) /\ inquiry.round <= inquiry.depth
        /\ inquiry.kind = "gaps" /\ inquiry.queued <= inquiry.round
    BY <1>1 DEF InquiryOK, Gathered, Placed, Queued, Inquiries, GapPcs, RoundPcs, EndPcs
  <1> DEFINE more == inquiry.found \cup {inquiry.round}
             i == [inquiry EXCEPT !.found = @ \cup {inquiry.round}, !.round = @ + 1]
  <1>3. more = 1..inquiry.round
    BY <1>1, <1>2
  <1>4. Became(i, "seeks", inquiry.round + 1, inquiry.queued, more, inquiry.cited, inquiry.completed,
               inquiry.outcome)
    <2>1. i = [[inquiry EXCEPT !.found = more] EXCEPT !.round = inquiry.round + 1]
      BY <1>1 DEF Inquiries
    <2>2. more \in SUBSET (Nat \ {0}) /\ inquiry.round + 1 \in Nat
      BY <1>1, <1>3
    <2> HIDE DEF more, i
    <2> QED BY <1>1, <2>1, <2>2 DEF Became, Inquiries
  <1>5. \/ inquiry.round = inquiry.depth /\ inquiry' = [i EXCEPT !.pc = "over", !.outcome = "found"]
        \/ inquiry.round # inquiry.depth /\ inquiry' = [i EXCEPT !.pc = "gap"]
        \/ inquiry' = [Result("error") EXCEPT !.found = {}]
    BY DEF SearchGap, Goes
  <1> HIDE DEF more, i
  <1>6. CASE inquiry.round = inquiry.depth /\ inquiry' = [i EXCEPT !.pc = "over", !.outcome = "found"]
    <2>1. Became(inquiry', "over", inquiry.round + 1, inquiry.queued, more, inquiry.cited,
                 inquiry.completed, "found")
      BY <1>4, <1>6 DEF Became, Inquiries, Pcs
    <2>2. more # {}
      BY <1>1, <1>3
    <2>3. inquiry.cited = {}
      BY <1>1 DEF InquiryOK, Gathered, GapPcs
    <2>4. Placed(inquiry') /\ Queued(inquiry')
      BY <1>1, <1>2, <2>1 DEF Became, InquiryOK, Placed, Queued, RoundPcs
    <2>5. Gathered(inquiry')
      BY <2>1 DEF Became, Gathered, RoundPcs, EndPcs, GapPcs
    <2>6. Claimed(inquiry')
      BY <1>2, <1>3, <1>6, <2>1, <2>2, <2>3 DEF Became, Claimed
    <2> QED BY <2>1, <2>4, <2>5, <2>6, BecameOK
  <1>7. CASE inquiry.round # inquiry.depth /\ inquiry' = [i EXCEPT !.pc = "gap"]
    <2>1. Became(inquiry', "gap", inquiry.round + 1, inquiry.queued, more, inquiry.cited,
                 inquiry.completed, inquiry.outcome)
      BY <1>4, <1>7 DEF Became, Inquiries, Pcs, GapPcs
    <2>2. Queued(inquiry')
      BY <1>1, <1>2, <2>1 DEF Became, Queued
    <2>3. Placed(inquiry') /\ Claimed(inquiry')
      BY <1>1, <1>2, <2>1 DEF Became, InquiryOK, Placed, Claimed, GapPcs
    <2>4. Gathered(inquiry')
      BY <1>1, <1>2, <1>3, <1>7, <2>1 DEF Became, InquiryOK, Gathered, RoundPcs, EndPcs, GapPcs
    <2> QED BY <2>1, <2>2, <2>3, <2>4, BecameOK
  <1>8. CASE inquiry' = [Result("error") EXCEPT !.found = {}]
    <2>1. Became(inquiry', "over", inquiry.round, inquiry.queued, {}, inquiry.cited,
                 inquiry.completed, "error")
      <3>1. inquiry' = [[[inquiry EXCEPT !.pc = "over"] EXCEPT !.outcome = "error"] EXCEPT !.found = {}]
        BY <1>8 DEF Result, To
      <3> QED BY <1>1, <3>1 DEF Became, Inquiries, Pcs
    <2>2. Placed(inquiry') /\ Queued(inquiry')
      BY <1>1, <1>2, <2>1 DEF Became, InquiryOK, Placed, Queued, RoundPcs
    <2>3. Gathered(inquiry') /\ Claimed(inquiry')
      BY <1>2, <2>1 DEF Became, Gathered, Claimed, RoundPcs, EndPcs, GapPcs
    <2> QED BY <2>1, <2>2, <2>3, BecameOK
  <1> QED BY <1>5, <1>6, <1>7, <1>8

\* The chat takes a message, and may not wait for the next one.
LEMMA ShowProgressOK ==
  ASSUME InquiryOK(inquiry), ShowProgress
  PROVE  InquiryOK(inquiry')
  <1>1. inquiry \in Inquiries /\ inquiry.queued \in Nat /\ inquiry.queued > 0
    BY DEF InquiryOK, ShowProgress, Inquiries
  <1>2. Became(inquiry', inquiry.pc, inquiry.round, inquiry.queued - 1, inquiry.found, inquiry.cited,
               inquiry.completed, inquiry.outcome)
    <2>1. inquiry' = [[inquiry EXCEPT !.queued = inquiry.queued - 1]
                        EXCEPT !.heard = (~covered /\ inquiry.of = chat)]
      BY <1>1 DEF ShowProgress, Goes, Inquiries
    <2>2. inquiry.queued - 1 \in Nat /\ (~covered /\ inquiry.of = chat) \in BOOLEAN
      BY <1>1
    <2> DEFINE on == ~covered /\ inquiry.of = chat
    <2> HIDE DEF on
    <2> QED BY <1>1, <2>1, <2>2 DEF Became, Inquiries, on
  <1>3. Placed(inquiry')
    BY <1>1, <1>2 DEF Became, InquiryOK, Placed
  <1>4. Gathered(inquiry') /\ Claimed(inquiry')
    BY <1>1, <1>2 DEF Became, InquiryOK, Gathered, Claimed
  <1>5. Queued(inquiry')
    BY <1>1, <1>2, SentBy DEF Became, InquiryOK, Queued, RoundPcs, Inquiries
  <1> QED BY <1>2, <1>3, <1>4, <1>5, BecameOK

\* An inquiry that is over is told of, or what it has to tell is lost.
LEMMA ToldOK ==
  ASSUME InquiryOK(inquiry), Told
  PROVE  InquiryOK(inquiry')
  <1>1. inquiry \in Inquiries /\ inquiry.pc = "over"
    BY DEF InquiryOK, Told
  <1>2. PICK result \in {inquiry.outcome, "lost"} :
          Became(inquiry', "told", inquiry.round, inquiry.queued, inquiry.found, inquiry.cited,
                 inquiry.completed, result)
    <2>1. PICK result \in {inquiry.outcome, "lost"} :
            inquiry' = [[inquiry EXCEPT !.pc = "told"] EXCEPT !.outcome = result]
      BY <1>1 DEF Told, Goes, To, Inquiries
    <2> QED BY <1>1, <2>1, MovedOK DEF Pcs, Inquiries
  <1> QED
    BY <1>1, <1>2
       DEF Became, InquiryOK, Placed, Gathered, Claimed, Queued, RoundPcs, EndPcs, GapPcs

\* Every step keeps the inquiry as InquiryOK says.
LEMMA InquiryStep ==
  ASSUME InquiryOK(inquiry), chat \in Nat, [BackgroundNext]_backgroundVars
  PROVE  InquiryOK(inquiry')
  <1>1. CASE \/ Cover \/ OpenChat \/ StartTask \/ SubagentDone
             \/ UNCHANGED backgroundVars
    <2>1. inquiry' = inquiry
      BY <1>1 DEF Cover, OpenChat, StartTask, SubagentDone, backgroundVars
    <2> QED BY <2>1
  <1> QED
    BY <1>1, StartOK, TellOK, StopOK, BeginRoundOK, QueryResultsOK, FetchContentOK, AnalyseOK,
       EndResearchOK, SearchGapOK, ShowProgressOK, ToldOK
       DEF BackgroundNext

\* InquiryOK says what InquiryIsWhole promises: research that is still telling
\* has sent less than three messages for each of its rounds.
LEMMA InquiryWhole == InquiryOK(inquiry) => InquiryIsWhole
  <1> SUFFICES ASSUME InquiryOK(inquiry) PROVE InquiryIsWhole
    OBVIOUS
  <1>1. inquiry \in Inquiries /\ inquiry.round \in Nat /\ inquiry.depth \in Nat /\ inquiry.queued \in Nat
    BY DEF InquiryOK, Inquiries
  <1>2. ASSUME Stuck
        PROVE  inquiry.kind = "report" /\ 3 * inquiry.depth > Queue
    <2>1. PICK next \in DOMAIN Sends : inquiry.pc = Sends[next]
      BY <1>2 DEF Stuck
    <2>2. inquiry.pc \in {"tellSearching", "tellReading", "tellAnalysing", "tellTimeout", "tellBreak", "gap"}
      <3>1. DOMAIN Sends = {"searches", "reads", "analyses", "stops", "breaks", "seeks"}
        BY DEF Sends
      <3> QED BY <2>1, <3>1 DEF Sends
    <2>3. inquiry.queued = Queue /\ Queue > 0 /\ Queue \in Nat
      BY <1>2, BackgroundAssumption DEF Stuck
    <2>4. inquiry.kind # "tool" /\ inquiry.kind # "none"
      BY <2>2, <2>3 DEF InquiryOK, Placed
    <2>5. inquiry.kind # "gaps"
      <3> SUFFICES ASSUME inquiry.kind = "gaps" PROVE FALSE
        OBVIOUS
      <3>1. inquiry.pc = "gap" /\ inquiry.depth <= Queue
        BY <2>2, <2>3 DEF InquiryOK, Placed, GapPcs
      <3>2. inquiry.queued < inquiry.round /\ inquiry.round <= inquiry.depth
        BY <3>1 DEF InquiryOK, Queued, Gathered, GapPcs
      <3> QED BY <1>1, <2>3, <3>1, <3>2
    <2>6. inquiry.kind = "report"
      BY <1>1, <2>4, <2>5 DEF Inquiries
    <2>7. inquiry.pc \in {"tellSearching", "tellReading", "tellAnalysing"}
      BY <2>2, <2>6 DEF InquiryOK, Placed, RoundPcs
    <2>8. inquiry.queued <= 3 * (inquiry.round - 1) + Sent(inquiry.pc) /\ inquiry.round <= inquiry.depth
      BY <2>6, <2>7 DEF InquiryOK, Queued, RoundPcs
    <2>9. Sent(inquiry.pc) \in 0..2
      BY <2>7, SentBy
    <2> QED BY <1>1, <2>3, <2>6, <2>8, <2>9
  <1> QED BY <1>2 DEF InquiryOK, Claimed, InquiryIsWhole

-----------------------------------------------------------------------------
(* Lemmas about tasks. *)

\* The subagents that work for the open chat.
OwnSubagents == {t \in subagents : t[1] = chat}

\* They are no more than the tasks shown as running, if no number is inherited.
LEMMA OwnAreActive ==
  ASSUME TasksInv
  PROVE  /\ IsFiniteSet(OwnSubagents) /\ Cardinality(OwnSubagents) \in Nat
         /\ inherited = {} => Cardinality(OwnSubagents) <= Cardinality(Active)
  <1>1. /\ tasks \in Seq(TaskRecords) /\ Len(tasks) \in Nat /\ DOMAIN tasks = 1..Len(tasks)
        /\ subagents \subseteq Nat \X Nat
    BY DEF TasksInv
  <1> DEFINE number == [t \in OwnSubagents |-> t[2]]
  <1>2. \A t \in OwnSubagents : t = <<chat, t[2]>> /\ t[2] \in 1..Len(tasks) /\ t \in subagents
    BY <1>1 DEF TasksInv, OwnSubagents
  <1>3. \A a, b \in OwnSubagents : number[a] = number[b] => a = b
    BY <1>2
  <1>4. IsFiniteSet(1..Len(tasks)) /\ number \in [OwnSubagents -> 1..Len(tasks)]
    BY <1>1, <1>2, FS_Interval
  <1>5. IsFiniteSet(OwnSubagents)
    BY <1>3, <1>4, Injected
  <1>6. ASSUME inherited = {}
        PROVE  Cardinality(OwnSubagents) <= Cardinality(Active)
    <2>1. \A t \in OwnSubagents : t[2] \in Active
      BY <1>1, <1>2, <1>6 DEF TasksInv, TasksAreOwn, Active
    <2>2. IsFiniteSet(Active)
      BY <1>1, <1>4, FS_Subset DEF Active
    <2>3. number \in [OwnSubagents -> Active]
      BY <2>1
    <2> QED BY <1>3, <2>2, <2>3, Injected
  <1> QED BY <1>5, <1>6, FS_CardinalityType

\* A behaviour starts without tasks.
LEMMA TasksInit == BackgroundInit => TasksInv
  <1> SUFFICES ASSUME BackgroundInit PROVE TasksInv
    OBVIOUS
  <1>1. chat = 1 /\ tasks = <<>> /\ subagents = {} /\ lost = {} /\ inherited = {}
    BY DEF BackgroundInit
  <1>2. OwnSubagents = {}
    BY <1>1 DEF OwnSubagents
  <1>3. Cardinality(OwnSubagents) <= MaxActive
    BY <1>2, FS_EmptySet, BackgroundAssumption
  <1>4. TasksAreOwn
    BY <1>1, <1>3 DEF TasksAreOwn, OwnSubagents
  <1> QED BY <1>1, <1>4 DEF TasksInv

\* A new chat has no tasks, and inherits the numbers of those that run.
LEMMA OpenChatTasks ==
  ASSUME TasksInv, OpenChat
  PROVE  TasksInv'
  <1>1. /\ chat' = chat + 1 /\ tasks' = <<>> /\ inherited' = {t[2] : t \in subagents}
        /\ UNCHANGED <<subagents, lost>>
    BY DEF OpenChat
  <1>2. \A t \in subagents \cup lost : t[1] \in Nat /\ t[1] < chat'
    BY <1>1 DEF TasksInv
  <1>3. OwnSubagents' = {}
    BY <1>1, <1>2 DEF OwnSubagents
  <1>5. Cardinality(OwnSubagents') <= MaxActive
    BY <1>3, FS_EmptySet, BackgroundAssumption
  <1>4. TasksAreOwn'
    BY <1>1, <1>5 DEF TasksAreOwn, OwnSubagents
  <1> QED BY <1>1, <1>2, <1>4 DEF TasksInv

\* A task gets the next number, which no subagent of this chat had.
LEMMA StartTaskTasks ==
  ASSUME TasksInv, StartTask
  PROVE  TasksInv'
  <1> DEFINE n == Len(tasks) + 1
             new == <<chat, n>>
             record == [status |-> "running", result |-> Nobody]
  <1>1. /\ Cardinality(Active) < MaxActive
        /\ tasks' = Append(tasks, record) /\ subagents' = subagents \cup {new}
        /\ UNCHANGED <<chat, lost, inherited>>
    BY DEF StartTask
  <1>2. /\ tasks \in Seq(TaskRecords) /\ Len(tasks) \in Nat /\ DOMAIN tasks = 1..Len(tasks)
        /\ chat \in Nat /\ n \in Nat
    BY DEF TasksInv
  <1>3. /\ tasks' \in Seq(TaskRecords) /\ Len(tasks') = n /\ DOMAIN tasks' = 1..n
        /\ tasks'[n] = record /\ \A k \in 1..Len(tasks) : tasks'[k] = tasks[k]
    <2>1. record \in TaskRecords
      BY DEF TaskRecords
    <2> QED BY <1>1, <1>2, <2>1
  <1>4. new \notin subagents \cup lost
    BY <1>2 DEF TasksInv
  <1>5. \A k \in DOMAIN tasks' \ inherited' :
          /\ tasks'[k].status = "running" <=> <<chat', k>> \in subagents' \cup lost'
          /\ tasks'[k].result \in {Nobody, <<chat', k>>}
    <2> SUFFICES ASSUME NEW k \in DOMAIN tasks' \ inherited'
                 PROVE  /\ tasks'[k].status = "running" <=> <<chat', k>> \in subagents' \cup lost'
                        /\ tasks'[k].result \in {Nobody, <<chat', k>>}
      OBVIOUS
    <2>1. CASE k = n
      BY <1>1, <1>3, <2>1
    <2>2. CASE k # n
      <3>1. k \in DOMAIN tasks \ inherited /\ tasks'[k] = tasks[k] /\ <<chat, k>> # new
        BY <1>1, <1>2, <1>3, <2>2
      <3> QED BY <1>1, <3>1 DEF TasksInv, TasksAreOwn
    <2> QED BY <2>1, <2>2
  <1>6. inherited' = {} => Cardinality(OwnSubagents') <= MaxActive
    <2>1. OwnSubagents' = OwnSubagents \cup {new}
      BY <1>1 DEF OwnSubagents
    <2>2. /\ IsFiniteSet(OwnSubagents) /\ Cardinality(OwnSubagents) \in Nat
          /\ inherited = {} => Cardinality(OwnSubagents) <= Cardinality(Active)
      BY OwnAreActive
    <2>3. new \notin OwnSubagents
      BY <1>4 DEF OwnSubagents
    <2>4. Cardinality(OwnSubagents \cup {new}) = Cardinality(OwnSubagents) + 1
      BY <2>2, <2>3, FS_AddElement
    <2>5. Cardinality(Active) \in Nat
      <3>1. IsFiniteSet(1..Len(tasks)) /\ Active \subseteq 1..Len(tasks)
        BY <1>2, FS_Interval DEF Active
      <3> QED BY <3>1, FS_Subset, FS_CardinalityType
    <2> QED BY <1>1, <2>1, <2>2, <2>4, <2>5, BackgroundAssumption
  <1>7. TasksAreOwn'
    BY <1>5, <1>6, Zenon DEF TasksAreOwn, OwnSubagents
  <1>8. /\ subagents' \subseteq Nat \X Nat /\ lost' \subseteq Nat \X Nat /\ subagents' \cap lost' = {}
    BY <1>1, <1>2, <1>4 DEF TasksInv
  <1>9. \A t \in subagents' \cup lost' : t[1] <= chat' /\ (t[1] = chat' => t[2] \in 1..Len(tasks'))
    BY <1>1, <1>2, <1>3 DEF TasksInv
  <1>10. \A t \in subagents' : t[1] < chat' => t[2] \in inherited'
    BY <1>1, <1>2 DEF TasksInv
  <1> QED BY <1>1, <1>2, <1>3, <1>7, <1>8, <1>9, <1>10 DEF TasksInv

\* A result goes to the task of the open chat with the subagent's number, or is
\* lost; the task of another chat had an inherited number.
LEMMA SubagentDoneTasks ==
  ASSUME TasksInv, SubagentDone
  PROVE  TasksInv'
  <1>1. PICK t \in subagents, status \in {"completed", "failed"} :
          /\ subagents' = subagents \ {t}
          /\ \/ covered /\ lost' = lost \cup {t} /\ tasks' = tasks
             \/ /\ tasks' = [k \in DOMAIN tasks |->
                             IF k = t[2] THEN [status |-> status, result |-> t] ELSE tasks[k]]
                /\ lost' = lost
          /\ UNCHANGED <<chat, inherited>>
    BY DEF SubagentDone
  <1>2. /\ tasks \in Seq(TaskRecords) /\ Len(tasks) \in Nat /\ DOMAIN tasks = 1..Len(tasks)
        /\ chat \in Nat /\ t \in Nat \X Nat /\ t \notin lost
    BY <1>1 DEF TasksInv
  <1>3. tasks' \in Seq(TaskRecords) /\ Len(tasks') = Len(tasks) /\ DOMAIN tasks' = DOMAIN tasks
    <2>1. CASE tasks' = tasks
      BY <1>2, <2>1
    <2>2. CASE tasks' = [k \in DOMAIN tasks |->
                          IF k = t[2] THEN [status |-> status, result |-> t] ELSE tasks[k]]
      <3>1. [status |-> status, result |-> t] \in TaskRecords
        BY <1>1, <1>2 DEF TaskRecords
      <3>2. tasks' \in [1..Len(tasks) -> TaskRecords]
        BY <1>2, <2>2, <3>1
      <3> QED BY <1>2, <3>2
    <2> QED BY <1>1, <2>1, <2>2
  <1>4. ASSUME NEW k \in DOMAIN tasks' \ inherited'
        PROVE  /\ tasks'[k].status = "running" <=> <<chat', k>> \in subagents' \cup lost'
               /\ tasks'[k].result \in {Nobody, <<chat', k>>}
    <2>1. /\ k \in DOMAIN tasks /\ k \notin inherited
          /\ tasks[k].status = "running" <=> <<chat, k>> \in subagents \cup lost
          /\ tasks[k].result \in {Nobody, <<chat, k>>}
      BY <1>1, <1>3, <1>4 DEF TasksInv, TasksAreOwn
    <2>2. CASE tasks' = tasks /\ lost' = lost \cup {t}
      <3>1. subagents' \cup lost' = subagents \cup lost
        BY <1>1, <2>2
      <3> QED BY <1>1, <2>1, <2>2, <3>1
    <2>3. CASE /\ tasks' = [k1 \in DOMAIN tasks |->
                             IF k1 = t[2] THEN [status |-> status, result |-> t] ELSE tasks[k1]]
               /\ lost' = lost
      <3>1. CASE k = t[2]
        <4>1. t[1] = chat
          BY <1>1, <1>2, <2>1, <3>1 DEF TasksInv
        <4>2. t = <<chat, k>>
          BY <1>2, <3>1, <4>1
        <4> QED BY <1>1, <1>2, <2>1, <2>3, <3>1, <4>2
      <3>2. CASE k # t[2]
        <4>1. tasks'[k] = tasks[k] /\ <<chat, k>> # t
          BY <1>2, <2>1, <2>3, <3>2
        <4> QED BY <1>1, <2>1, <2>3, <4>1
      <3> QED BY <3>1, <3>2
    <2> QED BY <1>1, <2>2, <2>3
  <1>5. inherited' = {} => Cardinality(OwnSubagents') <= MaxActive
    <2>1. OwnSubagents' \subseteq OwnSubagents
      BY <1>1 DEF OwnSubagents
    <2>2. IsFiniteSet(OwnSubagents) /\ Cardinality(OwnSubagents) \in Nat
      BY OwnAreActive
    <2>3. /\ Cardinality(OwnSubagents') <= Cardinality(OwnSubagents)
          /\ Cardinality(OwnSubagents') \in Nat
      BY <2>1, <2>2, FS_Subset, FS_CardinalityType
    <2>4. inherited = {} => Cardinality(OwnSubagents) <= MaxActive
      BY Zenon DEF TasksInv, TasksAreOwn, OwnSubagents
    <2> QED BY <1>1, <2>2, <2>3, <2>4, BackgroundAssumption
  <1>6. TasksAreOwn'
    BY <1>4, <1>5, Zenon DEF TasksAreOwn, OwnSubagents
  <1>7. subagents' \cup lost' \subseteq subagents \cup lost
    BY <1>1
  <1>8. /\ subagents' \subseteq Nat \X Nat /\ lost' \subseteq Nat \X Nat /\ subagents' \cap lost' = {}
    BY <1>1, <1>2 DEF TasksInv
  <1>9. \A u \in subagents' \cup lost' : u[1] <= chat' /\ (u[1] = chat' => u[2] \in 1..Len(tasks'))
    BY <1>1, <1>3, <1>7 DEF TasksInv
  <1>10. \A u \in subagents' : u[1] < chat' => u[2] \in inherited'
    BY <1>1 DEF TasksInv
  <1> QED BY <1>1, <1>2, <1>3, <1>6, <1>8, <1>9, <1>10 DEF TasksInv

\* Every step keeps the tasks as TasksInv says.
LEMMA TasksStep ==
  ASSUME TasksInv, [BackgroundNext]_backgroundVars
  PROVE  TasksInv'
  <1>1. CASE UNCHANGED <<chat, tasks, subagents, lost, inherited>>
    BY <1>1 DEF TasksInv, TasksAreOwn
  <1>2. \/ UNCHANGED <<chat, tasks, subagents, lost, inherited>>
        \/ OpenChat \/ StartTask \/ SubagentDone
    BY DEF BackgroundNext, backgroundVars, Cover, StartInquiry, Goes, Tell,
           Stop, BeginRound, QueryResults, FetchContent, Analyse,
           EndResearch, SearchGap, ShowProgress, Told
  <1> QED BY <1>1, <1>2, OpenChatTasks, StartTaskTasks, SubagentDoneTasks

-----------------------------------------------------------------------------
(* The starter skills (Starters) *)

Published == {"starter"} \X Nat
Own == {"edit"} \X Nat
SetupPlaces == {"idle", "manifest", "check", "fetch", "write", "sum", "done"}

\* A checksum is of what was published, and so is what a download has looked at
\* and is about to replace.
StartersTypes ==
  /\ starterFile \in [Index -> {None, Torn} \cup Published \cup Own]
  /\ sum \in [Index -> {None, Half} \cup Published]
  /\ served \in Nat
  /\ setup \in [at : SetupPlaces, i : Nat \ {0}, got : {None} \cup Published,
                seen : [Index -> {None} \cup Published], from : Nat]

\* Where a download is: it writes what it got, for a file of the manifest.
DownloadInv ==
  /\ setup.at \in {"idle", "manifest"} => setup.i = 1
  /\ setup.at \in {"fetch", "write", "sum"} => setup.i \in Index
  /\ setup.at \in {"write", "sum"} => setup.got \in Published /\ setup.got[2] >= setup.from
  /\ setup.from <= served
  /\ setup.at = "done" => setup.i > Len(StarterFiles)

\* A file that the user has left alone and no failure has cut is as its checksum
\* says, but for the one whose checksum comes next; and those that a download
\* has passed have been published, no earlier than it began.
FilesInv ==
  \A i \in Index \ (edited \cup cut) :
    /\ starterFile[i] = IF setup.at = "sum" /\ setup.i = i THEN setup.got ELSE sum[i]
    /\ setup.at \notin {"idle", "manifest"} /\ i < setup.i =>
         starterFile[i] \in Published /\ starterFile[i][2] >= setup.from

\* One download at a time: none is under way while the question of the first
\* start is open or /setup would be taken.
OneSetup == ~setupRunning \/ prompted => setup.at \in {"idle", "done"}

StartersInv == StartersTypes /\ DownloadInv /\ FilesInv

\* The first setup, before anything is there.
LEMMA StartersInitOK == StartersInit => StartersInv
  <1> SUFFICES ASSUME StartersInit PROVE StartersInv
    OBVIOUS
  <1>1. setup = [at |-> "idle", i |-> 1, got |-> None, seen |-> [i \in Index |-> None], from |-> 0]
    BY DEF StartersInit, NoSetup
  <1>2. setup \in [at : SetupPlaces, i : Nat \ {0}, got : {None} \cup Published,
                   seen : [Index -> {None} \cup Published], from : Nat]
    BY <1>1 DEF SetupPlaces
  <1>3. StartersTypes
    BY <1>2 DEF StartersInit, StartersTypes
  <1>4. DownloadInv /\ FilesInv
    BY <1>1 DEF StartersInit, DownloadInv, FilesInv
  <1> QED BY <1>3, <1>4 DEF StartersInv

\* A download that has not begun is at no file.
LEMMA NoSetupFields ==
  /\ NoSetup.at = "idle" /\ NoSetup.i = 1 /\ NoSetup.from = 0
  /\ NoSetup \in [at : SetupPlaces, i : Nat \ {0}, got : {None} \cup Published,
                  seen : [Index -> {None} \cup Published], from : Nat]
  BY DEF NoSetup, SetupPlaces

\* The download begins, ends early, is shown as done, or is not touched.
LEMMA SetupStartsOK ==
  ASSUME StartersInv,
         setup' \in {setup, NoSetup, [NoSetup EXCEPT !.at = "manifest", !.from = served]},
         setup.at # "sum" \/ setup' = setup,
         UNCHANGED <<starterFile, sum, edited, cut>>, served' \in Nat, served <= served'
  PROVE  StartersInv'
  <1>1. /\ setup' \in [at : SetupPlaces, i : Nat \ {0}, got : {None} \cup Published,
                       seen : [Index -> {None} \cup Published], from : Nat]
        /\ setup' = setup \/ (setup'.at \in {"idle", "manifest"} /\ setup'.i = 1 /\ setup'.from \in {0, served})
        /\ served \in Nat
    BY NoSetupFields DEF StartersInv, StartersTypes, SetupPlaces
  <1>2. StartersTypes' /\ DownloadInv'
    BY <1>1 DEF StartersInv, StartersTypes, DownloadInv, Index
  <1>3. FilesInv'
    BY <1>1 DEF StartersInv, FilesInv, Index
  <1> QED BY <1>2, <1>3 DEF StartersInv

\* A file is passed when it looks changed, and is otherwise fetched; the user
\* has changed it, then, or its checksum was not read, or not written.
LEMMA CheckFileOK == StartersInv /\ CheckFile => StartersInv'
  <1> SUFFICES ASSUME StartersInv, CheckFile PROVE StartersInv'
    OBVIOUS
  <1> DEFINE i == setup.i
             D == [at : SetupPlaces, i : Nat \ {0}, got : {None} \cup Published,
                   seen : [Index -> {None} \cup Published], from : Nat]
  <1>1. /\ setup.at = "check" /\ i \in Index /\ setup \in D /\ i \in Nat \ {0} /\ i + 1 \in Nat \ {0}
        /\ served \in Nat
        /\ UNCHANGED <<starterFile, sum, served, edited>>
    BY DEF CheckFile, StartersInv, StartersTypes
  <1>2. CASE setup' = NoSetup /\ cut' = cut
    BY <1>1, <1>2, SetupStartsOK
  <1>3. ASSUME NEW file \in {starterFile[i], None}, NEW stored \in {sum[i], None},
               setup' = (IF IsUserModified(file, stored) THEN [setup EXCEPT !.i = i + 1]
                         ELSE [[setup EXCEPT !.at = "fetch"] EXCEPT !.seen = [setup.seen EXCEPT ![i] = file]]),
               cut' = IF stored = sum[i] THEN cut ELSE cut \cup {i}
        PROVE  StartersInv'
    <2>1. CASE IsUserModified(file, stored)
      <3>1. setup' = [setup EXCEPT !.i = i + 1]
        BY <1>3, <2>1
      <3>2. setup' \in D /\ setup'.at = "check" /\ setup'.i = i + 1 /\ setup'.from = setup.from
        BY <1>1, <3>1
      <3>3. i \in edited \cup cut'
        <4>1. CASE stored = sum[i]
          BY <1>1, <1>3, <2>1, <4>1 DEF StartersInv, FilesInv, IsUserModified
        <4>2. CASE stored # sum[i]
          BY <1>3, <4>2
        <4> QED BY <4>1, <4>2
      <3>4. \A j \in Index : j < i + 1 => j < i \/ j = i
        BY <1>1 DEF Index
      <3>5. cut \subseteq cut'
        BY <1>3
      <3>6. FilesInv'
        BY <1>1, <3>2, <3>3, <3>4, <3>5 DEF StartersInv, FilesInv, Index
      <3>7. StartersTypes' /\ DownloadInv'
        BY <1>1, <3>2 DEF StartersInv, StartersTypes, DownloadInv, Index
      <3> QED BY <3>6, <3>7 DEF StartersInv
    <2>2. CASE ~IsUserModified(file, stored)
      <3>1. setup' = [[setup EXCEPT !.at = "fetch"] EXCEPT !.seen = [setup.seen EXCEPT ![i] = file]]
        BY <1>3, <2>2
      <3>2. file \in {None} \cup Published
        <4>1. file \in {None, Torn} \cup Published \cup Own /\ stored \in {None, Half} \cup Published
          BY <1>1, <1>3 DEF StartersInv, StartersTypes
        <4>2. file = None \/ file = stored
          BY <2>2 DEF IsUserModified
        <4>3. Half \notin {None, Torn} \cup Published \cup Own
          BY DEF Half, None, Torn, Published, Own
        <4> QED BY <4>1, <4>2, <4>3
      <3>3. [setup.seen EXCEPT ![i] = file] \in [Index -> {None} \cup Published]
        BY <1>1, <3>2
      <3>4. setup' \in D /\ setup'.at = "fetch" /\ setup'.i = i /\ setup'.got = setup.got /\ setup'.from = setup.from
        BY <1>1, <3>1, <3>3 DEF SetupPlaces
      <3>5. cut \subseteq cut'
        BY <1>3
      <3>6. FilesInv'
        BY <1>1, <3>4, <3>5 DEF StartersInv, FilesInv, Index
      <3>7. StartersTypes' /\ DownloadInv'
        BY <1>1, <3>4 DEF StartersInv, StartersTypes, DownloadInv, Index
      <3> QED BY <3>6, <3>7 DEF StartersInv
    <2> QED BY <2>1, <2>2
  <1>4. CASE Ends /\ cut' = cut
    BY <1>2, <1>4 DEF Ends
  <1> QED BY <1>1, <1>3, <1>4 DEF CheckFile

\* The file is fetched, or the download ends.
LEMMA FetchFileOK == StartersInv /\ FetchFile => StartersInv'
  <1> SUFFICES ASSUME StartersInv, FetchFile PROVE StartersInv'
    OBVIOUS
  <1> DEFINE D == [at : SetupPlaces, i : Nat \ {0}, got : {None} \cup Published,
                   seen : [Index -> {None} \cup Published], from : Nat]
             new == <<"starter", served>>
  <1>1. /\ setup.at = "fetch" /\ setup \in D /\ served \in Nat /\ setup.i \in Index
        /\ UNCHANGED <<starterFile, sum, served, edited, cut>>
    BY DEF FetchFile, StartersInv, StartersTypes, DownloadInv
  <1>2. CASE setup' = NoSetup
    BY <1>1, <1>2, SetupStartsOK
  <1>3. CASE setup' = [setup EXCEPT !.at = "write", !.got = new]
    <2>1. new \in Published
      BY <1>1 DEF Published
    <2>2. /\ setup' \in D /\ setup'.at = "write" /\ setup'.i = setup.i /\ setup'.got = new
          /\ setup'.from = setup.from /\ new[2] = served /\ setup.from \in Nat
      BY <1>1, <1>3, <2>1 DEF SetupPlaces
    <2>3. FilesInv'
      BY <1>1, <2>2 DEF StartersInv, FilesInv, Index
    <2>4. StartersTypes' /\ DownloadInv'
      BY <1>1, <2>1, <2>2 DEF StartersInv, StartersTypes, DownloadInv, Index
    <2> QED BY <2>3, <2>4 DEF StartersInv
  <1> QED BY <1>2, <1>3 DEF FetchFile, Ends

\* The file is replaced by what was got, or cut.
LEMMA WriteFileOK == StartersInv /\ WriteFile => StartersInv'
  <1> SUFFICES ASSUME StartersInv, WriteFile PROVE StartersInv'
    OBVIOUS
  <1> DEFINE i == setup.i
             D == [at : SetupPlaces, i : Nat \ {0}, got : {None} \cup Published,
                   seen : [Index -> {None} \cup Published], from : Nat]
             C == {None, Torn} \cup Published \cup Own
  <1>1. /\ setup.at = "write" /\ setup \in D /\ i \in Index /\ setup.got \in Published
        /\ starterFile \in [Index -> C]
        /\ UNCHANGED <<sum, served, edited>>
    BY DEF WriteFile, StartersInv, StartersTypes, DownloadInv
  <1>2. CASE /\ starterFile' = [starterFile EXCEPT ![i] = setup.got]
             /\ setup' = [setup EXCEPT !.at = "sum"] /\ cut' = cut
    <2>1. /\ setup' \in D /\ setup'.at = "sum" /\ setup'.i = i /\ setup'.got = setup.got
          /\ setup'.from = setup.from
      BY <1>1, <1>2 DEF SetupPlaces
    <2>2. starterFile' \in [Index -> C] /\ starterFile'[i] = setup.got /\ \A j \in Index : j # i => starterFile'[j] = starterFile[j]
      BY <1>1, <1>2
    <2>3. FilesInv'
      BY <1>1, <1>2, <2>1, <2>2 DEF StartersInv, FilesInv, Index
    <2>4. StartersTypes' /\ DownloadInv'
      BY <1>1, <1>2, <2>1, <2>2 DEF StartersInv, StartersTypes, DownloadInv, Index
    <2> QED BY <2>3, <2>4 DEF StartersInv
  <1>3. CASE starterFile' = [starterFile EXCEPT ![i] = Torn] /\ cut' = cut \cup {i} /\ setup' = NoSetup
    <2>1. starterFile' \in [Index -> C] /\ \A j \in Index : j # i => starterFile'[j] = starterFile[j]
      BY <1>1, <1>3
    <2>2. FilesInv'
      BY <1>1, <1>3, <2>1, NoSetupFields DEF StartersInv, FilesInv, Index
    <2>3. StartersTypes' /\ DownloadInv'
      BY <1>1, <1>3, <2>1, NoSetupFields DEF StartersInv, StartersTypes, DownloadInv, Index
    <2> QED BY <2>2, <2>3 DEF StartersInv
  <1> QED BY <1>2, <1>3 DEF WriteFile, Ends

\* Its checksum follows, of the same text, or is noted as cut.
LEMMA WriteChecksumOK == StartersInv /\ WriteChecksum => StartersInv'
  <1> SUFFICES ASSUME StartersInv, WriteChecksum PROVE StartersInv'
    OBVIOUS
  <1> DEFINE i == setup.i
             D == [at : SetupPlaces, i : Nat \ {0}, got : {None} \cup Published,
                   seen : [Index -> {None} \cup Published], from : Nat]
  <1>1. /\ setup.at = "sum" /\ setup \in D /\ i \in Index
        /\ setup.got \in Published /\ setup.got[2] >= setup.from
        /\ i \in Nat \ {0} /\ i + 1 \in Nat \ {0}
        /\ sum \in [Index -> {None, Half} \cup Published]
        /\ UNCHANGED <<starterFile, served, edited>>
    BY DEF WriteChecksum, StartersInv, StartersTypes, DownloadInv
  <1>2. PICK left \in {setup.got, sum[i], Half} :
          /\ setup' = [setup EXCEPT !.at = "check", !.i = i + 1] /\ sum' = [sum EXCEPT ![i] = left]
          /\ cut \subseteq cut' /\ (left = setup.got \/ i \in cut')
    BY <1>1 DEF WriteChecksum
  <1>3. setup' \in D /\ setup'.at = "check" /\ setup'.i = i + 1 /\ setup'.from = setup.from
    BY <1>1, <1>2 DEF SetupPlaces
  <1>4. /\ sum' \in [Index -> {None, Half} \cup Published] /\ sum'[i] = left
        /\ \A j \in Index : j # i => sum'[j] = sum[j]
    BY <1>1, <1>2
  <1>5. \A j \in Index : j < i + 1 => j < i \/ j = i
    BY <1>1 DEF Index
  <1>6. FilesInv'
    <2>1. ASSUME NEW j \in Index \ (edited \cup cut'), j = i
          PROVE  starterFile[j] = sum'[j] /\ starterFile[j] \in Published /\ starterFile[j][2] >= setup.from
      BY <1>1, <1>2, <1>4, <2>1 DEF StartersInv, FilesInv
    <2>2. ASSUME NEW j \in Index \ (edited \cup cut'), j # i
          PROVE  /\ starterFile[j] = sum'[j]
                 /\ j < i => starterFile[j] \in Published /\ starterFile[j][2] >= setup.from
      BY <1>1, <1>2, <1>4, <2>2 DEF StartersInv, FilesInv
    <2> QED BY <1>1, <1>3, <1>5, <2>1, <2>2 DEF FilesInv, Index
  <1>7. StartersTypes' /\ DownloadInv'
    BY <1>1, <1>3, <1>4 DEF StartersInv, StartersTypes, DownloadInv, Index
  <1> QED BY <1>6, <1>7 DEF StartersInv

\* The other places that a download may go to.
LEMMA PlaceOK ==
  ASSUME StartersInv, NEW place \in {"check", "done"}, setup.at \in {"manifest", "check"},
         setup.at = "manifest" => setup.i = 1 /\ place = "check",
         place = "done" => setup.i > Len(StarterFiles),
         setup' = [setup EXCEPT !.at = place],
         UNCHANGED <<starterFile, sum, served, edited, cut>>
  PROVE  StartersInv'
  <1> DEFINE D == [at : SetupPlaces, i : Nat \ {0}, got : {None} \cup Published,
                   seen : [Index -> {None} \cup Published], from : Nat]
  <1>1. setup \in D
    BY DEF StartersInv, StartersTypes
  <1>2. setup' \in D /\ setup'.at = place /\ setup'.i = setup.i /\ setup'.from = setup.from
    BY <1>1 DEF SetupPlaces
  <1>3. FilesInv'
    BY <1>2 DEF StartersInv, FilesInv, Index
  <1>4. StartersTypes' /\ DownloadInv'
    BY <1>2 DEF StartersInv, StartersTypes, DownloadInv, Index
  <1> QED BY <1>3, <1>4 DEF StartersInv

\* A crash leaves half a file where it was being written, without its checksum.
LEMMA CrashSetupOK == StartersInv /\ CrashSetup => StartersInv'
  <1> SUFFICES ASSUME StartersInv, CrashSetup PROVE StartersInv'
    OBVIOUS
  <1> DEFINE i == setup.i
             C == {None, Torn} \cup Published \cup Own
  <1>1. /\ starterFile \in [Index -> C]
        /\ setup.at \in {"write", "sum"} => i \in Index
        /\ served \in Nat /\ sum \in [Index -> {None, Half} \cup Published]
        /\ UNCHANGED <<served, edited>> /\ setup' = NoSetup
    BY DEF CrashSetup, StartersInv, StartersTypes, DownloadInv
  <1>2. \/ starterFile' = starterFile /\ sum' = sum
        \/ setup.at = "write" /\ starterFile' = [starterFile EXCEPT ![i] = Torn] /\ sum' = sum
        \/ setup.at = "sum" /\ starterFile' = starterFile /\ sum' = [sum EXCEPT ![i] = Half]
    BY DEF CrashSetup
  <1>3. cut' = cut \cup (IF setup.at \in {"write", "sum"} THEN {i} ELSE {})
    BY DEF CrashSetup
  <1>4. /\ starterFile' \in [Index -> C]
        /\ sum' \in [Index -> {None, Half} \cup Published]
        /\ \A j \in Index : setup.at \notin {"write", "sum"} \/ j # i =>
             starterFile'[j] = starterFile[j] /\ sum'[j] = sum[j]
    BY <1>1, <1>2
  <1>5. FilesInv'
    BY <1>1, <1>3, <1>4, NoSetupFields DEF StartersInv, FilesInv, Index
  <1>6. StartersTypes' /\ DownloadInv'
    BY <1>1, <1>4, NoSetupFields DEF StartersInv, StartersTypes, DownloadInv, Index
  <1> QED BY <1>5, <1>6 DEF StartersInv

\* What the user writes is the user's from then on.
LEMMA EditFileOK == StartersInv /\ EditFile => StartersInv'
  <1> SUFFICES ASSUME StartersInv, EditFile PROVE StartersInv'
    OBVIOUS
  <1> DEFINE C == {None, Torn} \cup Published \cup Own
  <1>1. PICK i \in Index : /\ starterFile' = [starterFile EXCEPT ![i] = <<"edit", i>>]
                           /\ edited' = edited \cup {i}
                           /\ UNCHANGED <<sum, served, setup, cut>>
    BY DEF EditFile
  <1>2. starterFile \in [Index -> C] /\ <<"edit", i>> \in Own
    BY DEF StartersInv, StartersTypes, Own, Index
  <1>3. starterFile' \in [Index -> C] /\ \A j \in Index : j # i => starterFile'[j] = starterFile[j]
    BY <1>1, <1>2
  <1>4. FilesInv'
    BY <1>1, <1>3 DEF StartersInv, FilesInv, Index
  <1>5. StartersTypes' /\ DownloadInv'
    BY <1>1, <1>3 DEF StartersInv, StartersTypes, DownloadInv, Index
  <1> QED BY <1>4, <1>5 DEF StartersInv

\* Two downloads never run at once.
LEMMA OneSetupOK == StartersInv /\ OneSetup /\ [StartersNext]_starterVars => OneSetup'
  <1> SUFFICES ASSUME StartersInv, OneSetup, [StartersNext]_starterVars PROVE OneSetup'
    OBVIOUS
  <1> DEFINE D == [at : SetupPlaces, i : Nat \ {0}, got : {None} \cup Published,
                   seen : [Index -> {None} \cup Published], from : Nat]
  <1>1. setup \in D
    BY DEF StartersInv, StartersTypes
  <1>2. CASE UNCHANGED <<setup, setupRunning, prompted>>
    BY <1>2 DEF OneSetup
  <1>3. CASE HandleSetup \/ AnswerSetup
    BY <1>3, NoSetupFields DEF HandleSetup, AnswerSetup, OneSetup
  <1>4. CASE FetchManifest \/ CheckFile \/ FetchFile \/ WriteFile \/ WriteChecksum
    <2>1. ~(~setupRunning \/ prompted) /\ prompted' = prompted
      BY <1>4 DEF FetchManifest, CheckFile, FetchFile, WriteFile, WriteChecksum, OneSetup
    <2>2. setupRunning' = setupRunning \/ setup' = NoSetup
      BY <1>4 DEF FetchManifest, CheckFile, FetchFile, WriteFile, WriteChecksum, Ends
    <2> QED BY <2>1, <2>2, NoSetupFields DEF OneSetup
  <1>5. CASE FinishSetup
    BY <1>1, <1>5 DEF FinishSetup, OneSetup
  <1>6. CASE ShowDone \/ CrashSetup
    BY <1>6, NoSetupFields DEF ShowDone, CrashSetup, OneSetup
  <1> QED
    BY <1>2, <1>3, <1>4, <1>5, <1>6 DEF StartersNext, Publish, EditFile, starterVars

\* Every step keeps the invariant.
LEMMA StartersStep == StartersInv /\ OneSetup /\ [StartersNext]_starterVars => StartersInv'
  <1> SUFFICES ASSUME StartersInv, OneSetup, [StartersNext]_starterVars PROVE StartersInv'
    OBVIOUS
  <1>s. served \in Nat
    BY DEF StartersInv, StartersTypes
  <1>1. CASE UNCHANGED starterVars
    <2>1. UNCHANGED <<setup, starterFile, sum, edited, cut>> /\ served' \in Nat /\ served <= served'
      BY <1>1, <1>s DEF starterVars
    <2> QED BY <2>1, SetupStartsOK
  <1>2. CASE HandleSetup \/ AnswerSetup \/ ShowDone \/ Publish
    <2>1. /\ setup' \in {setup, NoSetup, [NoSetup EXCEPT !.at = "manifest", !.from = served]}
          /\ setup.at # "sum" \/ setup' = setup
      BY <1>2 DEF HandleSetup, AnswerSetup, ShowDone, Publish, OneSetup
    <2>2. UNCHANGED <<starterFile, sum, edited, cut>> /\ served' \in Nat /\ served <= served'
      <3>1. served' = served \/ served' = served + 1
        BY <1>2 DEF HandleSetup, AnswerSetup, ShowDone, Publish
      <3>2. UNCHANGED <<starterFile, sum, edited, cut>>
        BY <1>2 DEF HandleSetup, AnswerSetup, ShowDone, Publish
      <3> QED BY <1>s, <3>1, <3>2
    <2> QED BY <2>1, <2>2, SetupStartsOK
  <1>3. CASE FetchManifest
    <2>1. /\ UNCHANGED <<starterFile, sum, served, edited, cut>> /\ served' \in Nat /\ served <= served'
          /\ setup.at = "manifest" /\ setup.i = 1
          /\ setup' = NoSetup \/ setup' = [setup EXCEPT !.at = "check"]
      BY <1>3, <1>s DEF FetchManifest, Ends, StartersInv, DownloadInv
    <2>2. CASE setup' = NoSetup
      BY <2>1, <2>2, SetupStartsOK
    <2>3. CASE setup' = [setup EXCEPT !.at = "check"]
      BY <2>1, <2>3, PlaceOK
    <2> QED BY <2>1, <2>2, <2>3
  <1>4. CASE FinishSetup
    BY <1>4, PlaceOK DEF FinishSetup
  <1> QED
    BY <1>1, <1>2, <1>3, <1>4, CheckFileOK, FetchFileOK, WriteFileOK, WriteChecksumOK, CrashSetupOK, EditFileOK
       DEF StartersNext

\* Done, every starter that was left alone is as it was published.
LEMMA StartersInvFresh == StartersInv => StartersFresh
  <1> SUFFICES ASSUME StartersInv, setup.at = "done", NEW i \in Index \ (edited \cup cut)
               PROVE  /\ starterFile[i][1] = "starter" /\ starterFile[i][2] >= setup.from
                      /\ starterFile[i] = sum[i]
    BY DEF StartersFresh
  <1>1. i < setup.i
    <2>1. Len(StarterFiles) \in Nat
      BY StartersAssumption
    <2> QED BY <2>1 DEF StartersInv, StartersTypes, DownloadInv, Index
  <1>2. starterFile[i] = sum[i] /\ starterFile[i] \in Published /\ starterFile[i][2] >= setup.from
    BY <1>1 DEF StartersInv, FilesInv
  <1> QED BY <1>2 DEF Published

\* What the user wrote is replaced only by a download that had looked at the
\* file before it was written.
LEMMA EditsAreKept ==
  ASSUME StartersInv, [StartersNext]_starterVars, NEW i \in Index,
         IsEdit(starterFile[i]), ~IsEdit(starterFile'[i])
  PROVE  setup.seen[i] # starterFile[i]
  <1>1. setup.seen[i] \in {None} \cup Published
    BY DEF StartersInv, StartersTypes
  <1>2. setup.seen[i][1] \in {"none", "starter"}
    BY <1>1 DEF None, Published
  <1> QED BY <1>2 DEF IsEdit

\* Whatever the user, the server and the crashes do, the downloads keep to it.
LEMMA StartersSafe ==
  StartersInit /\ [][StartersNext]_starterVars => [](StartersInv /\ OneSetup)
  <1>1. StartersInit => StartersInv /\ OneSetup
    <2>1. StartersInit => OneSetup
      BY NoSetupFields DEF StartersInit, OneSetup
    <2> QED BY <2>1, StartersInitOK
  <1>2. StartersInv /\ OneSetup /\ [StartersNext]_starterVars => (StartersInv /\ OneSetup)'
    BY StartersStep, OneSetupOK
  <1> QED BY <1>1, <1>2, PTL

-----------------------------------------------------------------------------
(* The saved facts (Memories) *)

\* What a process is doing with the facts it has read.
WorkOK(w) ==
  \/ w = Resting
  \/ /\ w.op = "add" /\ w.scope \in Scopes /\ w.fact \in Facts
     /\ w.read \in Seq(Facts) /\ Len(w.read) < MaxMemories
     /\ w.read = w.there \/ w.read = <<>>
  \/ /\ w.op = "remove" /\ w.scope \in Scopes
     /\ w.read \in Seq(Facts) /\ Len(w.read) <= MaxMemories
     /\ w.at \in DOMAIN w.read /\ HasText(w.read[w.at], w.text)
     /\ w.read = w.there \/ w.read = <<>>

\* No file is too long, and no process is about to make one so.
MemoriesInv ==
  /\ stores \in [Scopes -> Seq(Facts)]
  /\ \A s \in Scopes : Len(stores[s]) <= MaxMemories
  /\ DOMAIN work = Users
  /\ \A u \in Users : WorkOK(work[u])

\* A set of numbers has a least one: the theorem of the library about the
\* relation <, for sets, which the provers can use.
LEMMA LeastOne ==
  ASSUME NEW S, S \subseteq Nat, S # {}
  PROVE  Min(S) \in S /\ \A y \in S : Min(S) <= y
  <1> DEFINE R == {ss \in Nat \X Nat : ss[1] < ss[2]}
  <1>1. IsWellFoundedOn(R, Nat)
    BY NatLessThanWellFounded DEF OpToRel
  <1>2. \E x \in S : \A y \in S : <<y, x>> \notin R
    <2> HIDE DEF R
    <2> QED BY <1>1, WFMin
  <1>3. ASSUME NEW x \in Nat, NEW y \in Nat, <<y, x>> \notin R PROVE x <= y
    BY <1>3
  <1>4. \E x \in S : \A y \in S : x <= y
    BY <1>2, <1>3
  <1> QED BY <1>4 DEF Min

\* The first n of a sequence.
LEMMA HeadFacts ==
  ASSUME NEW S, NEW s \in Seq(S), NEW n \in 0..Len(s)
  PROVE  /\ SubSeq(s, 1, n) \in Seq(S) /\ Len(SubSeq(s, 1, n)) = n
         /\ \A k \in 1..n : SubSeq(s, 1, n)[k] = s[k]
  <1>1. n \in Int /\ 1 \in Int /\ \A k \in 1..n : s[k] \in S
    OBVIOUS
  <1>2. /\ SubSeq(s, 1, n) \in Seq(S) /\ Len(SubSeq(s, 1, n)) = IF 1 <= n THEN n - 1 + 1 ELSE 0
        /\ \A k \in 1..n - 1 + 1 : SubSeq(s, 1, n)[k] = s[1 + k - 1]
    BY <1>1, SubSeqProperties
  <1>3. n - 1 + 1 = n /\ (~(1 <= n) => n = 0) /\ \A k \in 1..n : 1 + k - 1 = k
    OBVIOUS
  <1> QED BY <1>2, <1>3

\* All of a sequence from its m-th on.
LEMMA RestFacts ==
  ASSUME NEW S, NEW s \in Seq(S), NEW m \in 1..Len(s) + 1
  PROVE  /\ SubSeq(s, m, Len(s)) \in Seq(S)
         /\ Len(SubSeq(s, m, Len(s))) = Len(s) - m + 1
         /\ \A k \in 1..Len(s) - m + 1 : SubSeq(s, m, Len(s))[k] = s[m + k - 1]
  <1>1. m \in Int /\ Len(s) \in Int /\ \A k \in m..Len(s) : s[k] \in S
    OBVIOUS
  <1>2. /\ SubSeq(s, m, Len(s)) \in Seq(S)
        /\ Len(SubSeq(s, m, Len(s))) = IF m <= Len(s) THEN Len(s) - m + 1 ELSE 0
        /\ \A k \in 1..Len(s) - m + 1 : SubSeq(s, m, Len(s))[k] = s[m + k - 1]
    BY <1>1, SubSeqProperties
  <1>3. ~(m <= Len(s)) => Len(s) - m + 1 = 0
    BY <1>1
  <1> QED BY <1>2, <1>3

\* A fact is taken out and the others stay.
LEMMA RemoveAtKeeps ==
  ASSUME NEW S, NEW s \in Seq(S), NEW i \in 1..Len(s)
  PROVE  /\ RemoveAt(s, i) \in Seq(S)
         /\ Len(RemoveAt(s, i)) = Len(s) - 1
         /\ \A k \in 1..i - 1 : RemoveAt(s, i)[k] = s[k]
         /\ \A k \in i + 1..Len(s) : RemoveAt(s, i)[k - 1] = s[k]
  <1> DEFINE a == SubSeq(s, 1, i - 1)
             b == SubSeq(s, i + 1, Len(s))
  <1>1. Len(s) \in Nat /\ i \in 1..Len(s) /\ i - 1 \in 0..Len(s) /\ i + 1 \in 1..Len(s) + 1
    OBVIOUS
  <1>2. a \in Seq(S) /\ Len(a) = i - 1 /\ \A k \in 1..i - 1 : a[k] = s[k]
    BY <1>1, HeadFacts
  <1>3. /\ b \in Seq(S) /\ Len(b) = Len(s) - (i + 1) + 1
        /\ \A k \in 1..Len(s) - (i + 1) + 1 : b[k] = s[i + 1 + k - 1]
    BY <1>1, RestFacts
  <1> HIDE DEF a, b
  <1>4. /\ a \o b \in Seq(S) /\ Len(a \o b) = Len(a) + Len(b)
        /\ \A k \in 1..Len(a) + Len(b) :
             (a \o b)[k] = IF k <= Len(a) THEN a[k] ELSE b[k - Len(a)]
    BY <1>2, <1>3, ConcatProperties
  <1>5. Len(a) + Len(b) = Len(s) - 1
    BY <1>1, <1>2, <1>3
  <1>6. ASSUME NEW k \in 1..i - 1 PROVE (a \o b)[k] = s[k]
    <2>1. k \in 1..Len(a) + Len(b) /\ k <= Len(a)
      BY <1>1, <1>2, <1>5
    <2> QED BY <1>2, <1>4, <2>1
  <1>7. ASSUME NEW k \in i + 1..Len(s) PROVE (a \o b)[k - 1] = s[k]
    <2>1. /\ k - 1 \in 1..Len(a) + Len(b) /\ ~(k - 1 <= Len(a))
          /\ k - 1 - Len(a) = k - i /\ k - i \in 1..Len(s) - (i + 1) + 1 /\ i + 1 + (k - i) - 1 = k
      BY <1>1, <1>2, <1>5
    <2> QED BY <1>3, <1>4, <2>1
  <1>8. RemoveAt(s, i) = a \o b
    BY DEF RemoveAt, a, b
  <1> QED BY <1>4, <1>5, <1>6, <1>7, <1>8

\* A file is read as it is, or as nothing.
LEMMA LoadedIs ==
  ASSUME MemoriesInv, NEW s \in Scopes, NEW read \in LoadMemoryFile(s)
  PROVE  /\ read \in Seq(Facts) /\ Len(read) <= MaxMemories
         /\ read = stores[s] \/ read = <<>>
  <1>1. read = stores[s] \/ read = <<>>
    BY DEF LoadMemoryFile
  <1>2. stores[s] \in Seq(Facts) /\ Len(stores[s]) <= MaxMemories
    BY DEF MemoriesInv
  <1>3. <<>> \in Seq(Facts) /\ Len(<<>>) <= MaxMemories
    BY MemoriesAssumption
  <1> QED BY <1>1, <1>2, <1>3

\* AddMemory reads a file that has room.
LEMMA AddMemoryOK ==
  ASSUME MemoriesInv, NEW u \in Users, AddMemory(u)
  PROVE  MemoriesInv'
  <1> DEFINE scope == IF local THEN "project" ELSE "global"
  <1>1. PICK fact \in Facts, read \in LoadMemoryFile(scope) :
          /\ Len(read) < MaxMemories
          /\ work' = [work EXCEPT ![u] = [op |-> "add", scope |-> scope, fact |-> fact,
                                          read |-> read, there |-> stores[scope]]]
    BY DEF AddMemory
  <1>2. scope \in Scopes
    BY DEF Scopes
  <1> HIDE DEF scope
  <1>3. read \in Seq(Facts) /\ (read = stores[scope] \/ read = <<>>)
    BY <1>2, LoadedIs
  <1> DEFINE w == [op |-> "add", scope |-> scope, fact |-> fact, read |-> read, there |-> stores[scope]]
  <1>4. WorkOK(w)
    BY <1>1, <1>2, <1>3 DEF WorkOK
  <1> HIDE DEF w
  <1>5. DOMAIN work' = Users /\ \A v \in Users : work'[v] = IF v = u THEN w ELSE work[v]
    BY <1>1 DEF MemoriesInv, w
  <1>6. stores' = stores
    BY DEF AddMemory
  <1> QED BY <1>4, <1>5, <1>6 DEF MemoriesInv

\* The first fact that has the text, and 0 without one.
FoundAt(read, txt) == SelectInSeq(read, LAMBDA m : HasText(m, txt))
LEMMA FoundAtOK ==
  ASSUME NEW read \in Seq(Facts), NEW txt, FoundAt(read, txt) > 0
  PROVE  FoundAt(read, txt) \in DOMAIN read /\ HasText(read[FoundAt(read, txt)], txt)
  <1> DEFINE I == {i \in 1..Len(read) : HasText(read[i], txt)}
  <1>2. FoundAt(read, txt) = IF I # {} THEN Min(I) ELSE 0
    BY DEF FoundAt, SelectInSeq
  <1>3. I \subseteq Nat /\ \A i \in I : i \in DOMAIN read /\ HasText(read[i], txt)
    OBVIOUS
  <1> HIDE DEF I
  <1>4. I # {}
    BY <1>2
  <1>5. Min(I) \in I
    BY <1>3, <1>4, LeastOne
  <1> QED BY <1>2, <1>3, <1>4, <1>5

\* RemoveMemory has found what it removes in what it has read.
LEMMA RemoveMemoryOK ==
  ASSUME MemoriesInv, NEW u \in Users, RemoveMemory(u)
  PROVE  MemoriesInv'
  <1>1. PICK txt \in Facts, scope \in Scopes : \E read \in LoadMemoryFile(scope) :
          /\ FoundAt(read, txt) > 0
          /\ work' = [work EXCEPT ![u] = [op |-> "remove", scope |-> scope, at |-> FoundAt(read, txt), text |-> txt,
                                          read |-> read, there |-> stores[scope]]]
    <2>1. PICK txt \in Facts, mine \in LoadMemoryFile("project"), all \in LoadMemoryFile("global") :
            LET got == [s \in Scopes |-> IF s = "project" THEN mine ELSE all]
                scope == IF FoundAt(got["project"], txt) > 0 THEN "project" ELSE "global"
            IN /\ FoundAt(got[scope], txt) > 0
               /\ work' = [work EXCEPT ![u] = [op |-> "remove", scope |-> scope, at |-> FoundAt(got[scope], txt),
                                               text |-> txt, read |-> got[scope], there |-> stores[scope]]]
      <3>1. PICK txt \in Facts, mine \in LoadMemoryFile("project"), all \in LoadMemoryFile("global") :
              LET read == [s \in Scopes |-> IF s = "project" THEN mine ELSE all]
                  spots == [s \in Scopes |-> FoundAt(read[s], txt)]
                  scope == IF spots["project"] > 0 THEN "project" ELSE "global"
              IN /\ spots[scope] > 0
                 /\ work' = [work EXCEPT ![u] = [op |-> "remove", scope |-> scope, at |-> spots[scope], text |-> txt,
                                                 read |-> read[scope], there |-> stores[scope]]]
        BY Zenon DEF RemoveMemory, FoundAt
      <3> DEFINE read == [s \in Scopes |-> IF s = "project" THEN mine ELSE all]
                 spots == [s \in Scopes |-> FoundAt(read[s], txt)]
                 scope == IF spots["project"] > 0 THEN "project" ELSE "global"
      <3>2. /\ spots[scope] > 0
            /\ work' = [work EXCEPT ![u] = [op |-> "remove", scope |-> scope, at |-> spots[scope], text |-> txt,
                                            read |-> read[scope], there |-> stores[scope]]]
        BY <3>1
      <3>3. scope \in Scopes /\ spots["project"] = FoundAt(read["project"], txt) /\ spots[scope] = FoundAt(read[scope], txt)
        BY DEF Scopes
      <3> HIDE DEF spots
      <3> QED BY <3>2, <3>3
    <2> DEFINE got == [s \in Scopes |-> IF s = "project" THEN mine ELSE all]
               place == IF FoundAt(got["project"], txt) > 0 THEN "project" ELSE "global"
    <2>2. place \in Scopes /\ got[place] \in LoadMemoryFile(place)
      BY DEF Scopes
    <2>3. /\ FoundAt(got[place], txt) > 0
          /\ work' = [work EXCEPT ![u] = [op |-> "remove", scope |-> place, at |-> FoundAt(got[place], txt),
                                          text |-> txt, read |-> got[place], there |-> stores[place]]]
      BY <2>1
    <2> HIDE DEF place, got
    <2> QED BY <2>2, <2>3
  <1>8. PICK read \in LoadMemoryFile(scope) :
          /\ FoundAt(read, txt) > 0
          /\ work' = [work EXCEPT ![u] = [op |-> "remove", scope |-> scope, at |-> FoundAt(read, txt), text |-> txt,
                                          read |-> read, there |-> stores[scope]]]
    BY <1>1
  <1> DEFINE w == [op |-> "remove", scope |-> scope, at |-> FoundAt(read, txt), text |-> txt,
                   read |-> read, there |-> stores[scope]]
  <1>2. work' = [work EXCEPT ![u] = w]
    BY <1>8
  <1>3. read \in Seq(Facts) /\ Len(read) <= MaxMemories /\ (read = stores[scope] \/ read = <<>>)
    BY LoadedIs
  <1>4. FoundAt(read, txt) \in DOMAIN read /\ HasText(read[FoundAt(read, txt)], txt)
    BY <1>3, <1>8, FoundAtOK
  <1>5. WorkOK(w)
    BY <1>3, <1>4 DEF WorkOK
  <1> HIDE DEF w
  <1>6. DOMAIN work' = Users /\ \A v \in Users : work'[v] = IF v = u THEN w ELSE work[v]
    BY <1>2 DEF MemoriesInv
  <1>7. stores' = stores
    BY DEF RemoveMemory
  <1> QED BY <1>5, <1>6, <1>7 DEF MemoriesInv

\* What is written is what was read with one fact more or one fact less.
LEMMA RewrittenOK ==
  ASSUME NEW w, w # Resting, WorkOK(w)
  PROVE  /\ w.scope \in Scopes /\ w.read \in Seq(Facts)
         /\ Rewritten(w) \in Seq(Facts) /\ Len(Rewritten(w)) <= MaxMemories
         /\ \A m \in ToSet(w.read) \ ToSet(Rewritten(w)) :
              w.op = "remove" /\ m = w.read[w.at] /\ HasText(m, w.text)
         /\ w.read = w.there \/ w.read = <<>>
  <1>1. CASE w.op = "add"
    <2>1. /\ w.read \in Seq(Facts) /\ w.fact \in Facts /\ Len(w.read) < MaxMemories /\ w.scope \in Scopes
          /\ w.read = w.there \/ w.read = <<>>
          /\ Rewritten(w) = Append(w.read, w.fact)
      BY <1>1 DEF WorkOK, Rewritten
    <2>2. /\ Append(w.read, w.fact) \in Seq(Facts)
          /\ Len(Append(w.read, w.fact)) = Len(w.read) + 1
          /\ \A k \in DOMAIN w.read : k \in DOMAIN Append(w.read, w.fact) /\ Append(w.read, w.fact)[k] = w.read[k]
      BY <2>1
    <2>3. ToSet(w.read) \subseteq ToSet(Rewritten(w))
      BY <2>1, <2>2 DEF ToSet
    <2> QED BY <2>1, <2>2, <2>3, MemoriesAssumption
  <1>2. CASE w.op = "remove"
    <2>1. /\ w.read \in Seq(Facts) /\ Len(w.read) <= MaxMemories /\ w.at \in 1..Len(w.read)
          /\ w.read = w.there \/ w.read = <<>>
          /\ w.scope \in Scopes /\ HasText(w.read[w.at], w.text) /\ Rewritten(w) = RemoveAt(w.read, w.at)
      BY <1>2 DEF WorkOK, Rewritten
    <2> DEFINE new == RemoveAt(w.read, w.at)
    <2>2. /\ new \in Seq(Facts) /\ Len(new) = Len(w.read) - 1
          /\ \A k \in 1..w.at - 1 : new[k] = w.read[k]
          /\ \A k \in w.at + 1..Len(w.read) : new[k - 1] = w.read[k]
      BY <2>1, RemoveAtKeeps
    <2> HIDE DEF new
    <2>3. ASSUME NEW k \in 1..Len(w.read), k # w.at PROVE \E n \in DOMAIN new : new[n] = w.read[k]
      <3>1. CASE k < w.at
        <4>1. k \in 1..w.at - 1 /\ k \in 1..Len(w.read) - 1
          BY <2>1, <2>3, <3>1
        <4> QED BY <2>2, <4>1
      <3>2. CASE k > w.at
        <4>1. k \in w.at + 1..Len(w.read) /\ k - 1 \in 1..Len(w.read) - 1
          BY <2>1, <2>3, <3>2
        <4> QED BY <2>2, <4>1
      <3> QED BY <2>1, <2>3, <3>1, <3>2
    <2>4. \A m \in ToSet(w.read) \ ToSet(new) : m = w.read[w.at]
      BY <2>1, <2>3 DEF ToSet
    <2> QED BY <1>2, <2>1, <2>2, <2>4, MemoriesAssumption DEF new
  <1> QED BY <1>1, <1>2 DEF WorkOK

\* saveMemoryFile writes no file that is too long.
LEMMA SaveMemoryOK ==
  ASSUME MemoriesInv, NEW u \in Users, SaveMemoryFile(u)
  PROVE  MemoriesInv'
  <1> DEFINE w == work[u]
  <1>1. /\ w.scope \in Scopes /\ Rewritten(w) \in Seq(Facts) /\ Len(Rewritten(w)) <= MaxMemories
    BY RewrittenOK DEF SaveMemoryFile, MemoriesInv
  <1>2. /\ stores' = [stores EXCEPT ![w.scope] = Rewritten(w)] \/ stores' = stores
        /\ work' = [work EXCEPT ![u] = Resting]
    BY DEF SaveMemoryFile
  <1> HIDE DEF w
  <1>3. WorkOK(Resting)
    BY DEF WorkOK
  <1>4. /\ stores' \in [Scopes -> Seq(Facts)]
        /\ \A s \in Scopes : stores'[s] = stores[s] \/ (s = w.scope /\ stores'[s] = Rewritten(w))
    BY <1>1, <1>2 DEF MemoriesInv
  <1>5. \A s \in Scopes : Len(stores'[s]) <= MaxMemories
    BY <1>1, <1>4 DEF MemoriesInv
  <1>6. DOMAIN work' = Users /\ \A v \in Users : work'[v] = IF v = u THEN Resting ELSE work[v]
    BY <1>2 DEF MemoriesInv
  <1>7. \A v \in Users : WorkOK(work'[v])
    BY <1>3, <1>6 DEF MemoriesInv
  <1> QED BY <1>4, <1>5, <1>6, <1>7 DEF MemoriesInv

\* Nothing is saved or being done at first.
LEMMA MemoriesInitOK == MemoriesInit => MemoriesInv
  <1> SUFFICES ASSUME MemoriesInit PROVE MemoriesInv
    OBVIOUS
  <1>1. stores \in [Scopes -> Seq(Facts)] /\ \A s \in Scopes : Len(stores[s]) <= MaxMemories
    BY MemoriesAssumption DEF MemoriesInit
  <1>2. DOMAIN work = Users /\ \A u \in Users : WorkOK(work[u])
    BY DEF MemoriesInit, WorkOK
  <1> QED BY <1>1, <1>2 DEF MemoriesInv

\* Every step keeps the invariant.
LEMMA MemoriesStep == MemoriesInv /\ [MemoriesNext]_memoryVars => MemoriesInv'
  <1> SUFFICES ASSUME MemoriesInv, [MemoriesNext]_memoryVars PROVE MemoriesInv'
    OBVIOUS
  <1>1. CASE UNCHANGED <<stores, work>>
    BY <1>1 DEF MemoriesInv
  <1> QED
    BY <1>1, AddMemoryOK, RemoveMemoryOK, SaveMemoryOK DEF MemoriesNext, MakeProjectDir, EditByHand, memoryVars

\* Why a fact left a file at a step.
Gone(s, m) ==
  \E u \in Users :
    /\ work[u] /= Resting /\ work'[u] = Resting /\ work[u].scope = s
    /\ \/ work[u].op = "remove" /\ m = work[u].read[work[u].at] /\ HasText(m, work[u].text)
       \/ m \notin ToSet(work[u].there)
       \/ Misread(work[u])

\* A fact that leaves a file is the one that was to be forgotten, or was written
\* by another process after this one had read the file, or was not read.
LEMMA FactsStay ==
  ASSUME MemoriesInv, [MemoriesNext]_memoryVars, NEW s \in Scopes
  PROVE  Len(stores[s]) <= MaxMemories /\ \A m \in ToSet(stores[s]) \ ToSet(stores'[s]) : Gone(s, m)
  <1>1. Len(stores[s]) <= MaxMemories
    BY DEF MemoriesInv
  <1>2. CASE stores' = stores
    BY <1>1, <1>2
  <1>3. ASSUME NEW u \in Users, SaveMemoryFile(u), NEW m \in ToSet(stores[s]) \ ToSet(stores'[s])
        PROVE  Gone(s, m)
    <2> DEFINE w == work[u]
    <2>1. /\ w # Resting /\ w.scope \in Scopes /\ (w.read = w.there \/ w.read = <<>>)
          /\ \A f \in ToSet(w.read) \ ToSet(Rewritten(w)) :
               w.op = "remove" /\ f = w.read[w.at] /\ HasText(f, w.text)
      BY <1>3, RewrittenOK DEF SaveMemoryFile, MemoriesInv
    <2>2. stores' = [stores EXCEPT ![w.scope] = Rewritten(w)] /\ work' = [work EXCEPT ![u] = Resting]
      BY <1>3 DEF SaveMemoryFile
    <2> HIDE DEF w
    <2>3. s = w.scope /\ m \notin ToSet(Rewritten(w))
      BY <1>3, <2>1, <2>2 DEF MemoriesInv
    <2>4. work'[u] = Resting
      BY <2>2 DEF MemoriesInv
    <2>5. CASE m \in ToSet(w.read)
      BY <2>1, <2>3, <2>4, <2>5 DEF w, Gone
    <2>6. CASE m \notin ToSet(w.read)
      <3>1. m \notin ToSet(w.there) \/ Misread(w)
        BY <2>1, <2>6 DEF Misread
      <3> QED BY <2>1, <2>3, <2>4, <3>1 DEF w, Gone
    <2> QED BY <2>5, <2>6
  <1>4. CASE \E u \in Users : SaveMemoryFile(u)
    BY <1>1, <1>3, <1>4
  <1> QED
    BY <1>2, <1>4 DEF MemoriesNext, MakeProjectDir, EditByHand, AddMemory, RemoveMemory, memoryVars

-----------------------------------------------------------------------------
(* The settings of a process (Settings) *)

\* A layer that says something is the last one to have said it.
LEMMA LastMore ==
  ASSUME NEW S, NEW s \in Seq(S), s # <<>>, NEW x \in S, NEW t, t = <<>> \/ t = <<x>>
  PROVE  /\ s \o t \in Seq(S) /\ s \o t # <<>>
         /\ Last(s \o t) = IF t = <<>> THEN Last(s) ELSE x
  <1>1. CASE t = <<>>
    <2>1. s \o t = s
      BY <1>1
    <2> QED BY <1>1, <2>1
  <1>2. CASE t = <<x>>
    <2>1. s \o t = Append(s, x)
      BY <1>2
    <2>2. Append(s, x) \in Seq(S) /\ Len(Append(s, x)) = Len(s) + 1 /\ Append(s, x)[Len(s) + 1] = x
      OBVIOUS
    <2>3. t # <<>> /\ Append(s, x) # <<>>
      BY <1>2, <2>2
    <2> QED BY <2>1, <2>2, <2>3 DEF Last
  <1> QED BY <1>1, <1>2

\* The layers of one key.
FileLayer(f, k) == IF FileSays(f, k) THEN <<f[k]>> ELSE <<>>
EnvLayer(env, k) == IF EnvSays(env, k) THEN <<EnvValue(env, k)>> ELSE <<>>
LineLayer(flags, k) == IF k \in DOMAIN flags.set THEN <<flags.set[k]>> ELSE <<>>

AllLayers(trusted, user, file, env, flags, k) ==
  <<Default[k]>> \o FileLayer(user, k) \o (IF trusted THEN FileLayer(file, k) ELSE <<>>)
    \o EnvLayer(env, k) \o LineLayer(flags, k)

\* The files' part of them, then the environment, then the command line.
FilesSay(trusted, user, file, k) ==
  IF trusted /\ FileSays(file, k) THEN file[k] ELSE IF FileSays(user, k) THEN user[k] ELSE Default[k]
EnvSaysOver(trusted, user, file, env, k) ==
  IF EnvSays(env, k) THEN EnvValue(env, k) ELSE FilesSay(trusted, user, file, k)
LineSaysOver(trusted, user, file, env, flags, k) ==
  IF k \in DOMAIN flags.set THEN flags.set[k] ELSE EnvSaysOver(trusted, user, file, env, k)

\* The last of the layers is the highest that says something.
LEMMA SaysTop ==
  ASSUME NEW k, NEW user, NEW file, NEW env, NEW flags, NEW trusted \in BOOLEAN
  PROVE  Last(AllLayers(trusted, user, file, env, flags, k)) = LineSaysOver(trusted, user, file, env, flags, k)
  <1> DEFINE tf == IF trusted THEN FileLayer(file, k) ELSE <<>>
  <1>1. /\ FileLayer(user, k) = <<>> \/ FileLayer(user, k) = <<user[k]>>
        /\ tf = <<>> \/ tf = <<file[k]>>
        /\ EnvLayer(env, k) = <<>> \/ EnvLayer(env, k) = <<EnvValue(env, k)>>
        /\ LineLayer(flags, k) = <<>> \/ LineLayer(flags, k) = <<flags.set[k]>>
    BY Zenon DEF FileLayer, EnvLayer, LineLayer
  <1>2. \A x : <<x>> # <<>>
    OBVIOUS
  <1>3. /\ FileLayer(user, k) # <<>> <=> FileSays(user, k)
        /\ tf # <<>> <=> (trusted /\ FileSays(file, k))
        /\ EnvLayer(env, k) # <<>> <=> EnvSays(env, k)
        /\ LineLayer(flags, k) # <<>> <=> k \in DOMAIN flags.set
    BY <1>2, Zenon DEF FileLayer, EnvLayer, LineLayer
  <1> HIDE DEF tf
  <1> DEFINE la == FileLayer(user, k)
             lc == EnvLayer(env, k)
             le == LineLayer(flags, k)
             a == user[k]
             b == file[k]
             c == EnvValue(env, k)
             e == flags.set[k]
             d == Default[k]
  <1>5. /\ la = <<>> \/ la = <<a>>
        /\ tf = <<>> \/ tf = <<b>>
        /\ lc = <<>> \/ lc = <<c>>
        /\ le = <<>> \/ le = <<e>>
    BY <1>1
  <1>6. Last(<<d>> \o la \o tf \o lc \o le)
        = IF le # <<>> THEN e ELSE IF lc # <<>> THEN c ELSE IF tf # <<>> THEN b ELSE IF la # <<>> THEN a ELSE d
    <2> HIDE DEF la, lc, le, a, b, c, d, e
    <2> DEFINE S == {d, a, b, c, e}
               s0 == <<d>>
               s1 == s0 \o la
               s2 == s1 \o tf
               s3 == s2 \o lc
    <2>0. d \in S /\ a \in S /\ b \in S /\ c \in S /\ e \in S
      OBVIOUS
    <2>1. s0 \in Seq(S) /\ s0 # <<>> /\ Last(s0) = d
      BY DEF Last
    <2> HIDE DEF S, s0
    <2>2. s1 \in Seq(S) /\ s1 # <<>> /\ Last(s1) = IF la # <<>> THEN a ELSE d
      BY <2>0, <2>1, <1>5, LastMore
    <2> HIDE DEF s1
    <2>3. s2 \in Seq(S) /\ s2 # <<>> /\ Last(s2) = IF tf # <<>> THEN b ELSE Last(s1)
      BY <2>0, <2>2, <1>5, LastMore
    <2> HIDE DEF s2
    <2>4. s3 \in Seq(S) /\ s3 # <<>> /\ Last(s3) = IF lc # <<>> THEN c ELSE Last(s2)
      BY <2>0, <2>3, <1>5, LastMore
    <2> HIDE DEF s3
    <2>5. Last(s3 \o le) = IF le # <<>> THEN e ELSE Last(s3)
      BY <2>0, <2>4, <1>5, LastMore
    <2> QED BY <2>2, <2>3, <2>4, <2>5 DEF s0, s1, s2, s3
  <1>4. Last(<<Default[k]>> \o FileLayer(user, k) \o tf \o EnvLayer(env, k) \o LineLayer(flags, k))
         = IF LineLayer(flags, k) # <<>> THEN flags.set[k]
           ELSE IF EnvLayer(env, k) # <<>> THEN EnvValue(env, k)
           ELSE IF tf # <<>> THEN file[k]
           ELSE IF FileLayer(user, k) # <<>> THEN user[k] ELSE Default[k]
    BY <1>6
  <1> QED BY <1>3, <1>4 DEF tf, AllLayers, LineSaysOver, EnvSaysOver, FilesSay

\* The settings that the layers make, one key at a time.
ConfigIs(cfg, trusted, user, file, env, flags) ==
  /\ \A k \in SettingKeys \ {"gemini", "mode"} :
       cfg[k] = IF k \in DOMAIN flags.set THEN flags.set[k] ELSE EnvSaysOver(trusted, user, file, env, k)
  /\ cfg["mode"] = IF flags.yolo THEN "auto"
                   ELSE IF EnvSaysOver(trusted, user, file, env, "mode") \in Modes
                   THEN EnvSaysOver(trusted, user, file, env, "mode") ELSE "confirm"
  /\ cfg["gemini"] = IF EnvSays(env, "legacy") THEN env["legacy"]
                     ELSE IF FilesSay(trusted, user, file, "gemini") # Unset
                     THEN FilesSay(trusted, user, file, "gemini") ELSE FilesSay(trusted, user, file, "legacy")

\* They are what Load and ApplyCLI make.
LEMMA ConfigKeys ==
  ASSUME NEW trusted \in BOOLEAN, NEW user, NEW env, NEW flags, DOMAIN flags.set \subseteq {"model", "tokens"}
  PROVE  ConfigIs(ApplyCLI(Load(trusted, user, env), flags), trusted, user, project, env, flags)
  <1> DEFINE Filed(k) == FilesSay(trusted, user, project, k)
             Enved(k) == EnvSaysOver(trusted, user, project, env, k)
             files == LoadFile(Default, user)
             base == IF trusted THEN LoadFile(files, project) ELSE files
             enved == ApplyEnv(base, env)
             valid == ValidMode(enved)
             loaded == BuildProviderKeys(valid)
             cfg == ApplyCLI(loaded, flags)
  <1>1. base \in [SettingKeys -> {Filed(k) : k \in SettingKeys}] /\ \A k \in SettingKeys : base[k] = Filed(k)
    <2>1. \A k \in SettingKeys : files[k] = IF FileSays(user, k) THEN user[k] ELSE Default[k]
      BY DEF LoadFile
    <2> HIDE DEF files
    <2>2. base = [k \in SettingKeys |-> Filed(k)]
      <3>1. CASE trusted
        BY <2>1, <3>1, Zenon DEF LoadFile, FilesSay
      <3>2. CASE ~trusted
        BY <2>1, <3>2, Zenon DEF LoadFile, FilesSay, files
      <3> QED BY <3>1, <3>2
    <2> QED BY <2>2
  <1> HIDE DEF base, files
  <1>2. /\ DOMAIN enved = SettingKeys
        /\ \A k \in SettingKeys \ {"gemini"} : enved[k] = Enved(k)
        /\ enved["gemini"] = IF EnvSays(env, "legacy") THEN env["legacy"] ELSE Filed("gemini")
    <2>1. "gemini" \in SettingKeys /\ ~EnvSays(env, "gemini")
      BY DEF SettingKeys, EnvSays, EnvKeys
    <2> QED BY <1>1, <2>1, Zenon DEF ApplyEnv, EnvSaysOver
  <1> HIDE DEF enved
  <1>3. /\ DOMAIN valid = SettingKeys
        /\ \A k \in SettingKeys \ {"mode"} : valid[k] = enved[k]
        /\ valid["mode"] = IF Enved("mode") \in Modes THEN Enved("mode") ELSE "confirm"
    <2>1. "mode" \in SettingKeys \ {"gemini"}
      BY DEF SettingKeys
    <2> HIDE DEF Enved
    <2>2. valid = [enved EXCEPT !.mode = IF enved.mode \in Modes THEN enved.mode ELSE "confirm"]
      BY DEF ValidMode
    <2>3. enved.mode = Enved("mode")
      BY <1>2, <2>1
    <2> HIDE DEF valid
    <2> QED BY <1>2, <2>1, <2>2, <2>3
  <1> HIDE DEF valid
  <1>4. /\ DOMAIN loaded = SettingKeys
        /\ \A k \in SettingKeys \ {"gemini"} : loaded[k] = valid[k]
        /\ loaded["gemini"] = IF valid["gemini"] = Unset THEN valid["legacy"] ELSE valid["gemini"]
    <2>1. "gemini" \in SettingKeys
      BY DEF SettingKeys
    <2>2. loaded = [valid EXCEPT !.gemini = IF valid.gemini = Unset THEN valid.legacy ELSE valid.gemini]
      BY DEF BuildProviderKeys
    <2> HIDE DEF loaded
    <2> QED BY <1>3, <2>1, <2>2
  <1> HIDE DEF loaded
  <1>5. \A k \in SettingKeys : cfg[k] = IF k \in DOMAIN flags.set THEN flags.set[k]
                                        ELSE IF k = "mode" /\ flags.yolo THEN "auto" ELSE loaded[k]
    BY Zenon DEF ApplyCLI
  <1> HIDE DEF cfg
  <1>6. /\ {"mode", "gemini", "legacy"} \subseteq SettingKeys
        /\ "mode" \notin DOMAIN flags.set /\ "gemini" \notin DOMAIN flags.set
        /\ "gemini" # "mode" /\ "legacy" \notin {"mode", "gemini"}
    BY DEF SettingKeys
  <1> HIDE DEF Enved, Filed
  <1>7. \A k \in SettingKeys \ {"gemini", "mode"} :
           cfg[k] = IF k \in DOMAIN flags.set THEN flags.set[k] ELSE Enved(k)
    BY <1>2, <1>3, <1>4, <1>5, ZenonT(40)
  <1>8. cfg["mode"] = IF flags.yolo THEN "auto"
                      ELSE IF Enved("mode") \in Modes THEN Enved("mode") ELSE "confirm"
    BY <1>3, <1>4, <1>5, <1>6, Zenon
  <1>9. cfg["gemini"] = IF EnvSays(env, "legacy") THEN env["legacy"]
                        ELSE IF Filed("gemini") # Unset THEN Filed("gemini") ELSE Filed("legacy")
    <2>1. cfg["gemini"] = IF enved["gemini"] = Unset THEN enved["legacy"] ELSE enved["gemini"]
      BY <1>3, <1>4, <1>5, <1>6, Zenon
    <2>2. EnvSays(env, "legacy") => env["legacy"] # Unset
      BY DEF EnvSays
    <2>3. ~EnvSays(env, "legacy") => enved["legacy"] = Filed("legacy")
      BY <1>2, <1>6, Zenon DEF Enved, Filed, EnvSaysOver
    <2> QED BY <1>2, <2>1, <2>2, <2>3, Zenon
  <1> QED BY <1>7, <1>8, <1>9, Zenon DEF cfg, loaded, valid, enved, base, files, Load, Enved, Filed, ConfigIs

\* A process that starts: nobody is trusted but by the flag or by consent.
LaunchOK(s) ==
  /\ s.trusted \in BOOLEAN /\ s.flags \in CommandLines /\ s.user \in UserFiles
  /\ s.flags.trust => s.trusted
  /\ s.trusted => s.flags.trust \/ consent

\* A process that runs does so with the settings of its layers.
RunOK(s) ==
  /\ s.file \in ProjectFiles
  /\ ConfigIs(s.cfg, s.trusted, s.user, s.file, s.env, s.flags)
  /\ s.idle = IdleTimeout(s.cfg)
  /\ s.prompt = LoadProjectInstructions(s.trusted, s.trusted \/ s.cfg.mode # "auto")

SettingsInv ==
  /\ project \in ProjectFiles /\ marker \in BOOLEAN /\ consent \in BOOLEAN
  /\ marker => consent
  /\ start.at \in {"stopped", "asking", "loading", "running"}
  /\ start.at # "stopped" => LaunchOK(start)
  /\ start.at \in {"asking", "loading"} => DOMAIN start = {"at", "trusted", "flags", "user", "env"}
  /\ start.at = "running" => RunOK(start)

\* No process runs at first.
LEMMA SettingsInitOK == SettingsInit => SettingsInv
  <1> SUFFICES ASSUME SettingsInit PROVE SettingsInv
    OBVIOUS
  <1>1. start.at = "stopped"
    BY DEF SettingsInit, Stopped
  <1>2. start.at \notin {"asking", "loading", "running"}
    BY <1>1
  <1> QED BY <1>1, <1>2, Zenon DEF SettingsInit, SettingsInv

\* Trust comes with the flag or with the marker of an earlier consent.
LEMMA StartProcessOK == SettingsInv /\ StartProcess => SettingsInv'
  <1> SUFFICES ASSUME SettingsInv, StartProcess PROVE SettingsInv'
    OBVIOUS
  <1>1. PICK flags \in CommandLines, user \in UserFiles, env \in Environments, place \in {"asking", "loading"} :
          start' = [at |-> place, trusted |-> flags.trust \/ marker, flags |-> flags, user |-> user, env |-> env]
    BY Zenon DEF StartProcess
  <1>2. UNCHANGED <<project, marker, consent>>
    BY DEF StartProcess
  <1>3. flags.trust \in BOOLEAN /\ (flags.trust \/ marker) \in BOOLEAN
    BY SettingsAssumption DEF SettingsInv
  <1>4. start'.at = place /\ start'.flags = flags /\ start'.user = user /\ start'.trusted = (flags.trust \/ marker)
    BY <1>1
  <1>7. DOMAIN start' = {"at", "trusted", "flags", "user", "env"}
    BY <1>1
  <1>5. LaunchOK(start)'
    BY <1>2, <1>3, <1>4, Zenon DEF LaunchOK, SettingsInv
  <1>6. place \notin {"stopped", "running"}
    OBVIOUS
  <1> QED BY <1>2, <1>4, <1>5, <1>6, <1>7, Zenon DEF SettingsInv

\* Consent is given for the process that asks, and may be remembered.
LEMMA PromptOK == SettingsInv /\ PromptProjectTrust => SettingsInv'
  <1> SUFFICES ASSUME SettingsInv, PromptProjectTrust PROVE SettingsInv'
    OBVIOUS
  <1>1. start.at = "asking" /\ project' = project
    BY DEF PromptProjectTrust
  <1>2. LaunchOK(start)
    BY <1>1 DEF SettingsInv
  <1>3. DOMAIN start = {"at", "trusted", "flags", "user", "env"}
    BY <1>1 DEF SettingsInv
  <1>4. CASE consent' = TRUE /\ marker' \in {marker, TRUE} /\ start' = [start EXCEPT !.at = "loading", !.trusted = TRUE]
    <2>1. /\ start'.at = "loading" /\ start'.trusted = TRUE /\ start'.flags = start.flags
          /\ start'.user = start.user /\ DOMAIN start' = {"at", "trusted", "flags", "user", "env"}
      BY <1>3, <1>4
    <2>2. LaunchOK(start)' /\ marker' \in BOOLEAN
      BY <1>2, <1>4, <2>1, Zenon DEF LaunchOK, SettingsInv
    <2>3. start'.at \notin {"stopped", "running"}
      BY <2>1
    <2> QED BY <1>1, <1>4, <2>1, <2>2, <2>3, Zenon DEF SettingsInv
  <1>5. CASE UNCHANGED <<marker, consent>> /\ start' = [start EXCEPT !.at = "loading"]
    <2>1. /\ start'.at = "loading" /\ start'.trusted = start.trusted /\ start'.flags = start.flags
          /\ start'.user = start.user /\ DOMAIN start' = {"at", "trusted", "flags", "user", "env"}
      BY <1>3, <1>5
    <2>2. LaunchOK(start)'
      BY <1>2, <1>5, <2>1, Zenon DEF LaunchOK
    <2>3. start'.at \notin {"stopped", "running"}
      BY <2>1
    <2> QED BY <1>1, <1>5, <2>1, <2>2, <2>3, Zenon DEF SettingsInv
  <1> QED BY <1>4, <1>5, Zenon DEF PromptProjectTrust

\* A process comes to run with the settings of the layers it has found.
LEMMA ConfigureOK == SettingsInv /\ Configure => SettingsInv'
  <1> SUFFICES ASSUME SettingsInv, Configure PROVE SettingsInv'
    OBVIOUS
  <1>1. LaunchOK(start) /\ UNCHANGED <<project, marker, consent>>
    BY DEF Configure, SettingsInv
  <1> DEFINE cfg == ApplyCLI(Load(start.trusted, start.user, start.env), start.flags)
             prompt == LoadProjectInstructions(start.trusted, start.trusted \/ cfg.mode # "auto")
             idle == IdleTimeout(cfg)
             rewrite == RewriteEnabled(cfg)
  <1>2. start' = [at |-> "running", trusted |-> start.trusted, flags |-> start.flags, user |-> start.user,
                  env |-> start.env, file |-> project, cfg |-> cfg, idle |-> idle, rewrite |-> rewrite,
                  prompt |-> prompt]
    BY Zenon DEF Configure
  <1>3. ConfigIs(cfg, start.trusted, start.user, project, start.env, start.flags)
    BY <1>1, SettingsAssumption, ConfigKeys DEF LaunchOK
  <1>4. idle = IdleTimeout(cfg) /\ prompt = LoadProjectInstructions(start.trusted, start.trusted \/ cfg.mode # "auto")
    OBVIOUS
  <1> HIDE DEF cfg, prompt, idle, rewrite
  <1>5. /\ start'.at = "running" /\ start'.trusted = start.trusted /\ start'.flags = start.flags
        /\ start'.user = start.user /\ start'.env = start.env /\ start'.file = project /\ start'.cfg = cfg
        /\ start'.idle = idle /\ start'.prompt = prompt
    BY <1>2
  <1>6. LaunchOK(start)'
    BY <1>1, <1>5, Zenon DEF LaunchOK
  <1>7. RunOK(start)'
    BY <1>3, <1>4, <1>5, Zenon DEF RunOK, SettingsInv
  <1>8. start'.at \notin {"stopped", "asking", "loading"}
    BY <1>5
  <1> QED BY <1>1, <1>5, <1>6, <1>7, <1>8, Zenon DEF SettingsInv

\* Every step keeps the invariant.
LEMMA SettingsStep == SettingsInv /\ [SettingsNext]_settingVars => SettingsInv'
  <1> SUFFICES ASSUME SettingsInv, [SettingsNext]_settingVars PROVE SettingsInv'
    OBVIOUS
  <1>1. ASSUME UNCHANGED <<marker, consent, start>>, project' \in ProjectFiles PROVE SettingsInv'
    <2>1. LaunchOK(start)' <=> LaunchOK(start)
      BY <1>1, Zenon DEF LaunchOK
    <2>2. RunOK(start)' <=> RunOK(start)
      BY <1>1, Zenon DEF RunOK
    <2> QED BY <1>1, <2>1, <2>2, Zenon DEF SettingsInv
  <1>2. CASE UNCHANGED settingVars \/ Pull
    BY <1>1, <1>2 DEF settingVars, Pull, SettingsInv
  <1> QED BY <1>2, StartProcessOK, PromptOK, ConfigureOK DEF SettingsNext

\* In settings like these a process of Settings is as it should be.
LEMMA SettingsInvHolds == SettingsInv => SettingsHold
  <1> SUFFICES ASSUME SettingsInv, start.at = "running" PROVE SettingsHold
    BY DEF SettingsHold, ConsentFirst, LayersHold, KeyHolds, PromptHolds, StreamsMayIdle, Running
  <1>1. LaunchOK(start) /\ RunOK(start)
    BY DEF SettingsInv
  <1> DEFINE user == start.user
             file == start.file
             env == start.env
             flags == start.flags
             trusted == start.trusted
             cfg == start.cfg
             Over(k) == EnvSaysOver(trusted, user, file, env, k)
  <1>2. trusted \in BOOLEAN /\ flags.yolo \in BOOLEAN /\ DOMAIN flags.set \subseteq {"model", "tokens"}
    BY <1>1, SettingsAssumption DEF LaunchOK
  <1>3. \A k : Last(Says(k)) = IF k \in DOMAIN flags.set THEN flags.set[k] ELSE Over(k)
    <2> TAKE k
    <2>1. Says(k) = <<Default[k]>> \o FileLayer(user, k) \o (IF trusted THEN FileLayer(file, k) ELSE <<>>)
                      \o EnvLayer(env, k) \o LineLayer(flags, k)
      BY Zenon DEF Says, FileLayer, EnvLayer, LineLayer
    <2>2. Says(k) = AllLayers(trusted, user, file, env, flags, k)
      BY <2>1, Zenon DEF AllLayers
    <2> HIDE DEF user, file, env, flags, trusted
    <2> QED BY <1>2, <2>2, SaysTop DEF LineSaysOver
  <1>4. ConsentFirst
    BY <1>1, Zenon DEF ConsentFirst, LaunchOK
  <1>5. LayersHold
    <2>1. "mode" \notin DOMAIN flags.set
      BY <1>2
    <2> SUFFICES ASSUME NEW k \in SettingKeys \ {"gemini"}
                 PROVE  cfg[k] = IF k = "mode"
                   THEN (IF flags.yolo THEN "auto"
                         ELSE IF Last(Says("mode")) \in Modes THEN Last(Says("mode")) ELSE "confirm")
                   ELSE Last(Says(k))
      BY Zenon DEF LayersHold
    <2>2. CASE k = "mode"
      BY <1>1, <1>3, <2>1, <2>2, Zenon DEF RunOK, ConfigIs
    <2>3. CASE k # "mode"
      BY <1>1, <1>3, <2>3, Zenon DEF RunOK, ConfigIs
    <2> QED BY <2>2, <2>3
  <1>6. KeyHolds
    <2>1. "gemini" \notin DOMAIN flags.set /\ "legacy" \notin DOMAIN flags.set /\ ~EnvSays(env, "gemini")
      BY <1>2 DEF EnvSays, EnvKeys
    <2>2. Last(Says("gemini")) = FilesSay(trusted, user, file, "gemini")
      BY <1>3, <2>1, Zenon DEF EnvSaysOver
    <2>3. ~EnvSays(env, "legacy") => Last(Says("legacy")) = FilesSay(trusted, user, file, "legacy")
      BY <1>3, <2>1, Zenon DEF EnvSaysOver
    <2> QED BY <1>1, <2>2, <2>3, Zenon DEF KeyHolds, RunOK, ConfigIs
  <1>7. PromptHolds
    <2> DEFINE allow == trusted \/ cfg.mode # "auto"
    <2>1. start.prompt = LoadProjectInstructions(trusted, allow)
      BY <1>1, Zenon DEF RunOK
    <2> HIDE DEF allow
    <2>2. /\ start.prompt.project = IF ~allow THEN "absent" ELSE IF trusted THEN "plain" ELSE "labelled"
          /\ start.prompt.skills = IF trusted THEN "plain" ELSE "absent"
      BY <2>1 DEF LoadProjectInstructions
    <2> QED BY <2>2, Zenon DEF PromptHolds, allow
  <1>8. StreamsMayIdle
    <2>1. start.idle = IdleTimeout(cfg)
      BY <1>1 DEF RunOK
    <2>2. cfg["idle"] = FilesSay(trusted, user, file, "idle")
      <3>1. "idle" \in SettingKeys \ {"gemini", "mode"} /\ "idle" \notin DOMAIN flags.set /\ ~EnvSays(env, "idle")
        BY <1>2 DEF SettingKeys, EnvSays, EnvKeys
      <3> QED BY <1>1, <3>1, Zenon DEF RunOK, ConfigIs, EnvSaysOver
    <2>3. FilesSay(trusted, user, file, "idle") \in Int \cup {Unset, Junk}
      <3>1. Default["idle"] = Unset
        BY DEF Default, SettingKeys
      <3>2. \A f \in UserFiles \cup ProjectFiles : FileSays(f, "idle") => f["idle"] \in Int \cup {Unset, Junk}
        BY SettingsAssumption, Zenon DEF FileSays
      <3>3. user \in UserFiles \cup ProjectFiles /\ file \in UserFiles \cup ProjectFiles
        BY <1>1 DEF LaunchOK, RunOK
      <3>4. Unset \in Int \cup {Unset, Junk}
        OBVIOUS
      <3> QED BY <3>1, <3>2, <3>3, <3>4, Zenon DEF FilesSay
    <2> DEFINE n == cfg.idle
    <2>4. n \in Int \cup {Unset, Junk}
      BY <2>2, <2>3
    <2>5. start.idle = IF n \in {Unset, Junk} THEN 5 ELSE IF n <= 0 THEN 5 ELSE n
      BY <2>1 DEF IdleTimeout
    <2> HIDE DEF n
    <2>6. start.idle > 0
      BY <2>4, <2>5
    <2> QED BY <2>6 DEF StreamsMayIdle
  <1> QED BY <1>4, <1>5, <1>6, <1>7, <1>8 DEF SettingsHold

-----------------------------------------------------------------------------
(* Completion of file names (Mentions) *)

\* What a text is made of; the prover does not know that the three are strings.
Characters == STRING \cup {AtSign, "a", Space}
Words == Seq(Characters)

\* Names of files and what the history has are texts, and a name is not empty.
LEMMA NamesAreWords ==
  /\ \A n \in Names : n \in Words /\ n # <<>>
  /\ \A t \in Recalled : t \in Words
  /\ AtSign # Space /\ {AtSign, "a", Space} \subseteq Characters /\ <<>> \in Words
  <1>1. \A s \in Seq(STRING) : s \in Words
    BY DEF Words, Characters
  <1>2. AtSign # Space
    BY DEF AtSign, Space
  <1>3. {AtSign, "a", Space} \subseteq Characters /\ <<>> \in Words
    BY DEF Characters, Words
  <1> QED BY <1>1, <1>2, <1>3, MentionsAssumption

\* The completions of a word are a sequence of names.
LEMMA CompletionsAreNames ==
  ASSUME NEW p
  PROVE  globCompletions(p) \in Seq(Names)
  <1>1. PICK S \in SUBSET Names : globCompletions(p) = SetToSeq(S)
    BY DEF globCompletions
  <1>2. IsFiniteSet(S)
    BY MentionsAssumption, FS_Subset
  <1>3. Cardinality(S) \in Nat /\ ExistsBijection(1..Cardinality(S), S)
    BY <1>2, FS_CardinalityType
  <1>4. \E f \in [1..Cardinality(S) -> S] : IsInjective(f)
    BY <1>3 DEF ExistsBijection, Bijection, Injection
  <1>5. SetToSeq(S) \in [1..Cardinality(S) -> S]
    BY <1>4 DEF SetToSeq
  <1>6. SetToSeq(S) \in Seq(S)
    BY <1>3, <1>5
  <1>7. Seq(S) \subseteq Seq(Names)
    BY <1>1
  <1> QED BY <1>1, <1>6, <1>7

\* The @ of a word is in the text, and begins it.
LEMMA MarkIsThere ==
  ASSUME NEW t, NEW c
  PROVE  findMentionAtCursor(t, c) = 0 \/ findMentionAtCursor(t, c) \in Begins(t)
  BY DEF findMentionAtCursor

\* The word in front of the cursor is a text.
LEMMA PartialIsWord ==
  ASSUME NEW t \in Words, NEW c \in 0..Len(t)
  PROVE  /\ findMentionAtCursor(t, c) \in Nat /\ findMentionAtCursor(t, c) <= Len(t)
         /\ Partial(t, c) \in Words
  <1>1. findMentionAtCursor(t, c) \in Nat /\ findMentionAtCursor(t, c) <= Len(t)
    BY MarkIsThere DEF Begins, Words
  <1> DEFINE m == findMentionAtCursor(t, c) + 1
  <1>2. m \in Int /\ c \in Int /\ \A i \in m..c : t[i] \in Characters
    BY <1>1 DEF Words
  <1> HIDE DEF m
  <1>3. SubSeq(t, m, c) \in Seq(Characters)
    BY <1>2, SubSeqProperties
  <1> QED BY <1>1, <1>3 DEF Partial, m, Words

\* A character is put into a text.
LEMMA InsertAtOK ==
  ASSUME NEW S, NEW s \in Seq(S), NEW i \in 1..Len(s) + 1, NEW e \in S
  PROVE  InsertAt(s, i, e) \in Seq(S) /\ Len(InsertAt(s, i, e)) = Len(s) + 1
  <1>1. i - 1 \in 0..Len(s)
    OBVIOUS
  <1> DEFINE a == SubSeq(s, 1, i - 1)
             b == SubSeq(s, i, Len(s))
  <1>2. a \in Seq(S) /\ Len(a) = i - 1
    BY <1>1, HeadFacts
  <1>3. b \in Seq(S) /\ Len(b) = Len(s) - i + 1
    BY RestFacts
  <1> HIDE DEF a, b
  <1>4. a \o <<e>> \in Seq(S) /\ Len(a \o <<e>>) = i
    BY <1>2
  <1>5. (a \o <<e>>) \o b \in Seq(S) /\ Len((a \o <<e>>) \o b) = Len(s) + 1
    BY <1>3, <1>4
  <1> QED BY <1>5 DEF InsertAt, a, b

\* One sequence behind another.
Behind(s, t, u) ==
  /\ Len(u) = Len(s) + Len(t)
  /\ \A k \in 1..Len(s) : u[k] = s[k]
  /\ \A k \in 1..Len(t) : u[Len(s) + k] = t[k]
LEMMA Joined ==
  ASSUME NEW S, NEW s \in Seq(S), NEW t \in Seq(S)
  PROVE  s \o t \in Seq(S) /\ Behind(s, t, s \o t)
  <1>1. /\ s \o t \in Seq(S) /\ Len(s \o t) = Len(s) + Len(t)
        /\ \A k \in 1..Len(s) + Len(t) : (s \o t)[k] = IF k <= Len(s) THEN s[k] ELSE t[k - Len(s)]
    BY ConcatProperties
  <1> DEFINE m == Len(s)
             n == Len(t)
             u == s \o t
  <1>2. m \in Nat /\ n \in Nat
    OBVIOUS
  <1> HIDE DEF m, n
  <1>3. \A k \in 1..m : k \in 1..m + n /\ k <= m
    BY <1>2
  <1>4. \A k \in 1..n : m + k \in 1..m + n /\ ~(m + k <= m) /\ m + k - m = k
    BY <1>2
  <1>5. /\ u \in Seq(S) /\ Len(u) = m + n
        /\ \A k \in 1..m + n : u[k] = IF k <= m THEN s[k] ELSE t[k - m]
    BY <1>1 DEF m, n
  <1> HIDE DEF u
  <1>6. ASSUME NEW k \in 1..m PROVE u[k] = s[k]
    BY <1>3, <1>5
  <1>7. ASSUME NEW k \in 1..n PROVE u[m + k] = t[k]
    <2> DEFINE j == m + k
    <2>1. j \in 1..m + n /\ ~(j <= m) /\ j - m = k
      BY <1>2
    <2> HIDE DEF j
    <2>2. u[j] = t[j - m]
      BY <1>5, <2>1
    <2> QED BY <2>1, <2>2 DEF j
  <1> QED BY <1>5, <1>6, <1>7 DEF u, m, n, Behind

\* A text into which a name is put, and its pieces.
Spliced(a, name, rest) == a \o <<AtSign>> \o name \o <<Space>> \o rest
Splits(a, name, m, n, t) ==
  /\ t \in Words /\ Len(t) \in Nat /\ n \in Nat /\ m \in Nat /\ m + n + 1 <= Len(t)
  /\ \A k \in 1..Len(a) : t[k] = a[k]
  /\ t[m] = AtSign
  /\ \A k \in 1..n : t[m + k] = name[k]
  /\ t[m + n + 1] = Space
LEMMA PiecesOf ==
  ASSUME NEW a \in Words, NEW name \in Words, NEW rest \in Words, NEW m, NEW n, NEW t,
         m = Len(a) + 1, n = Len(name), t = Spliced(a, name, rest)
  PROVE  Splits(a, name, m, n, t)
  <1> DEFINE t1 == a \o <<AtSign>>
             t2 == t1 \o name
             t3 == t2 \o <<Space>>
  <1>1. a \in Seq(Characters) /\ name \in Seq(Characters) /\ rest \in Seq(Characters)
        /\ AtSign \in Characters /\ Space \in Characters /\ Len(a) \in Nat /\ n \in Nat /\ Len(rest) \in Nat
        /\ m \in Nat
    BY NamesAreWords DEF Words
  <1>2. t1 \in Seq(Characters) /\ Len(t1) = m /\ t1[m] = AtSign /\ \A k \in 1..Len(a) : t1[k] = a[k]
    <2>1. t1 = Append(a, AtSign)
      BY <1>1
    <2> QED BY <1>1, <2>1
  <1> HIDE DEF t1
  <1>3. /\ t2 \in Seq(Characters) /\ Len(t2) = m + n
        /\ \A k \in 1..m : t2[k] = t1[k]
        /\ \A k \in 1..n : t2[m + k] = name[k]
    <2>1. t1 \o name \in Seq(Characters) /\ Behind(t1, name, t1 \o name)
      BY <1>1, <1>2, Joined
    <2> QED BY <1>2, <2>1 DEF Behind
  <1> HIDE DEF t2
  <1>4. /\ t3 \in Seq(Characters) /\ Len(t3) = m + n + 1 /\ t3[m + n + 1] = Space
        /\ \A k \in 1..m + n : t3[k] = t2[k]
    <2>1. t3 = Append(t2, Space)
      BY <1>1, <1>3
    <2>2. /\ Append(t2, Space) \in Seq(Characters) /\ Len(Append(t2, Space)) = Len(t2) + 1
          /\ Append(t2, Space)[Len(t2) + 1] = Space
          /\ \A k \in 1..Len(t2) : Append(t2, Space)[k] = t2[k]
      <3>1. t2 \in Seq(Characters) /\ Space \in Characters
        BY <1>1, <1>3
      <3> QED BY <3>1, AppendProperties
    <2> HIDE DEF t3
    <2> QED BY <1>3, <2>1, <2>2
  <1>t. t = t3 \o rest
    BY DEF t1, t2, Spliced
  <1> HIDE DEF t3
  <1>5. /\ t \in Seq(Characters) /\ Len(t) = m + n + 1 + Len(rest)
        /\ \A k \in 1..m + n + 1 : t[k] = t3[k]
    <2>1. t3 \o rest \in Seq(Characters) /\ Behind(t3, rest, t3 \o rest)
      BY <1>1, <1>4, Joined
    <2> QED BY <1>4, <1>t, <2>1 DEF Behind
  <1>6. ASSUME NEW k \in 1..Len(a) PROVE t[k] = a[k]
    <2>1. k \in 1..m /\ k \in 1..m + n /\ k \in 1..m + n + 1
      BY <1>1
    <2> QED BY <1>2, <1>3, <1>4, <1>5, <2>1
  <1>7. ASSUME NEW k \in 1..n PROVE t[m + k] = name[k]
    <2>1. m + k \in 1..m + n /\ m + k \in 1..m + n + 1
      BY <1>1
    <2> QED BY <1>3, <1>4, <1>5, <2>1
  <1>8. t[m] = AtSign
    <2>1. m \in 1..m /\ m \in 1..m + n /\ m \in 1..m + n + 1
      BY <1>1
    <2> QED BY <1>2, <1>3, <1>4, <1>5, <2>1
  <1>9. t[m + n + 1] = Space
    <2>1. m + n + 1 \in 1..m + n + 1
      BY <1>1
    <2> QED BY <1>4, <1>5, <2>1
  <1>10. t \in Words /\ Len(t) \in Nat /\ m + n + 1 <= Len(t)
    BY <1>1, <1>5 DEF Words
  <1> QED BY <1>1, <1>6, <1>7, <1>8, <1>9, <1>10 DEF Splits

\* A member of a set of integers that no other exceeds is its Max, and the like
\* for Min.
LEMMA TheMax ==
  ASSUME NEW S \in SUBSET Int, NEW x \in S, \A y \in S : x >= y
  PROVE  Max(S) = x
  <1> DEFINE z == Max(S)
  <1>1. z \in S /\ \A y \in S : z >= y
    BY DEF Max
  <1> HIDE DEF z
  <1>2. x >= z /\ z >= x /\ x \in Int /\ z \in Int
    BY <1>1
  <1>3. x = z
    BY <1>2
  <1> QED BY <1>3 DEF z

\* The same for the least.
LEMMA TheMin ==
  ASSUME NEW S \in SUBSET Int, NEW x \in S, \A y \in S : x <= y
  PROVE  Min(S) = x
  <1> DEFINE z == Min(S)
  <1>1. z \in S /\ \A y \in S : z <= y
    BY DEF Min
  <1> HIDE DEF z
  <1>2. x <= z /\ z <= x /\ x \in Int /\ z \in Int
    BY <1>1
  <1>3. x = z
    BY <1>2
  <1> QED BY <1>3 DEF z

\* All of a text is its first Len(t) characters, and the middle of one is what
\* is there.
LEMMA MiddleOf ==
  ASSUME NEW S, NEW t \in Seq(S), NEW name \in Seq(S), NEW m \in Nat, m + Len(name) <= Len(t),
         \A k \in 1..Len(name) : t[m + k] = name[k]
  PROVE  SubSeq(t, m + 1, m + Len(name)) = name
  <1> DEFINE n == Len(name)
             u == SubSeq(t, m + 1, m + n)
  <1>1. n \in Nat /\ m + 1 \in Int /\ m + n \in Int /\ Len(t) \in Nat /\ \A i \in m + 1..m + n : t[i] \in S
    OBVIOUS
  <1>2. /\ u \in Seq(S) /\ Len(u) = IF m + 1 <= m + n THEN m + n - (m + 1) + 1 ELSE 0
        /\ \A i \in 1..m + n - (m + 1) + 1 : u[i] = t[m + 1 + i - 1]
    BY <1>1, SubSeqProperties
  <1>3. m + n - (m + 1) + 1 = n /\ (~(m + 1 <= m + n) => n = 0) /\ \A i \in 1..n : m + 1 + i - 1 = m + i
    BY <1>1
  <1> HIDE DEF u
  <1>4. Len(u) = n /\ \A i \in 1..n : u[i] = name[i]
    BY <1>2, <1>3
  <1>5. u = name
    BY <1>2, <1>4
  <1> QED BY <1>5 DEF u

\* A name that has been put behind an @ that begins a word, with a space behind
\* it, is among the paths that are attached.
LEMMA NameIsExtracted ==
  ASSUME NEW text0 \in Words, NEW m \in Begins(text0), NEW name \in Words, NEW rest \in Words, NEW t,
         name # <<>>, Last(name) \notin Stops, ~Contains(name, Space),
         t = Spliced(SubSeq(text0, 1, m - 1), name, rest)
  PROVE  name \in extractMentions(t)
  <1> DEFINE a == SubSeq(text0, 1, m - 1)
             n == Len(name)
  <1>1. m \in 1..Len(text0) /\ m - 1 \in 0..Len(text0) /\ (m = 1 \/ text0[m - 1] = Space)
    BY DEF Begins, Words
  <1>2. a \in Words /\ Len(a) = m - 1 /\ \A k \in 1..m - 1 : a[k] = text0[k]
    BY <1>1, HeadFacts DEF Words
  <1>3. t = Spliced(a, name, rest) /\ m = Len(a) + 1 /\ n = Len(name)
    BY <1>1, <1>2
  <1> HIDE DEF a, n
  <1>p. Splits(a, name, m, n, t)
    BY <1>2, <1>3, PiecesOf
  <1>4. /\ t \in Words /\ Len(t) \in Nat /\ n \in Nat /\ m \in Nat /\ m + n + 1 <= Len(t)
        /\ \A k \in 1..Len(a) : t[k] = a[k]
        /\ t[m] = AtSign
        /\ \A k \in 1..n : t[m + k] = name[k]
        /\ t[m + n + 1] = Space
    BY <1>p DEF Splits
  <1>5. m \in Begins(t)
    <2>1. m = 1 \/ t[m - 1] = Space
      <3>1. m # 1 => m - 1 \in 1..Len(a)
        BY <1>1, <1>2
      <3> QED BY <1>1, <1>2, <1>4, <3>1
    <2>2. m \in DOMAIN t
      BY <1>1, <1>4 DEF Words
    <2> QED BY <1>4, <2>1, <2>2 DEF Begins
  <1>6. \A k \in 1..n : name[k] # Space
    BY <1>3 DEF Contains
  <1> DEFINE EndsOf(k) == {j \in k..Len(t) + 1 : j = Len(t) + 1 \/ t[j] = Space}
             e == m + n + 1
  <1>7. Min(EndsOf(m)) = e
    <2>0. m + n + 1 \in m..Len(t) + 1 /\ t[m + n + 1] = Space
      BY <1>4
    <2>1. EndsOf(m) \subseteq Int
      BY <1>4
    <2>3. e \in EndsOf(m)
      <3> HIDE DEF e
      <3>1. e \in m..Len(t) + 1 /\ t[e] = Space
        BY <2>0 DEF e
      <3> QED BY <3>1
    <2>2. ASSUME NEW j \in EndsOf(m) PROVE e <= j
      <3>1. j \in m..Len(t) + 1 /\ (j = Len(t) + 1 \/ t[j] = Space)
        OBVIOUS
      <3>2. SUFFICES ASSUME j < e PROVE FALSE
        BY <1>4, <3>1
      <3>3. j # Len(t) + 1 /\ j # m
        <4>1. AtSign # Space
          BY NamesAreWords
        <4>2. Len(t) \in Nat /\ e <= Len(t) /\ e \in Nat /\ t[m] = AtSign
          BY <1>4
        <4>3. j # Len(t) + 1
          <5>1. j \in Int
            BY <1>4, <3>1
          <5> HIDE DEF e
          <5> QED BY <3>2, <4>2, <5>1
        <4> QED BY <3>1, <4>1, <4>2, <4>3, Zenon
      <3>4. j - m \in 1..n /\ m + (j - m) = j
        BY <1>4, <3>1, <3>2, <3>3
      <3>5. t[j] = name[j - m]
        BY <1>4, <3>4
      <3> QED BY <1>6, <3>1, <3>3, <3>4, <3>5
    <2> HIDE DEF EndsOf, e
    <2> QED BY <2>1, <2>2, <2>3, TheMin
  <1> DEFINE field(k) == SubSeq(t, k + 1, Min(EndsOf(k)) - 1)
             Kept(s) == {0} \cup {j \in DOMAIN s : s[j] \notin Stops}
             trim(s) == SubSeq(s, 1, Max(Kept(s)))
  <1>8. field(m) = name
    <2>1. Min(EndsOf(m)) - 1 = m + n
      <3> HIDE DEF EndsOf
      <3> QED BY <1>4, <1>7
    <2>2. SubSeq(t, m + 1, m + n) = name
      <3>1. t \in Seq(Characters) /\ name \in Seq(Characters) /\ m + n <= Len(t)
        BY <1>4 DEF Words
      <3> QED BY <1>3, <1>4, <3>1, MiddleOf
    <2> QED BY <2>1, <2>2
  <1>9. trim(name) = name
    <2>1. name \in Seq(Characters) /\ n >= 1 /\ DOMAIN name = 1..n
      BY <1>3 DEF Words
    <2>2. n \in Kept(name) /\ Kept(name) \subseteq Int /\ \A y \in Kept(name) : n >= y
      BY <1>3, <1>4, <2>1 DEF Last
    <2>3. Max(Kept(name)) = n
      <3> HIDE DEF Kept
      <3> QED BY <2>2, TheMax
    <2>4. SubSeq(name, 1, n) = name
      BY <1>3, <2>1
    <2> QED BY <2>3, <2>4
  <1> HIDE DEF field, trim
  <1>10. name \in {trim(field(k)) : k \in Begins(t)} \ {<<>>}
    BY <1>5, <1>8, <1>9
  <1> QED BY <1>10, Zenon DEF extractMentions, field, trim, Kept, EndsOf

Searches == [prefix : Words, start : Nat \ {0}]
MentionTypes ==
  /\ text \in Words /\ cursor \in 0..Len(text)
  /\ mention \in [active : BOOLEAN, prefix : Words, index : Nat, start : Nat, pending : Words]
  /\ globs \in Seq(Searches)
  /\ strayed \in BOOLEAN

\* What the preview waits for is being searched for.
SearchRuns == mention.pending # <<>> => \E k \in DOMAIN globs : globs[k].prefix = mention.pending

\* A list that is shown has a choice to make, and is of a place in the text;
\* unless it strayed, of the word in front of the cursor.
ListShown ==
  /\ mention.active => /\ mention.start > 0
                       /\ mention.index \in DOMAIN globCompletions(mention.prefix)
  /\ mention.active /\ ~strayed => mention.start = findMentionAtCursor(text, cursor)

MentionsInv == MentionTypes /\ SearchRuns /\ ListShown /\ ListComes /\ ChoiceIsAttached

\* A choice that is none says nothing of the text.
LEMMA NoChoice == chosen' = NoName => ChoiceIsAttached'
  BY MentionsAssumption, Zenon DEF ChoiceIsAttached

\* There is no word before the first character.
LEMMA NoTextNoMark == findMentionAtCursor(<<>>, 0) = 0
  <1>1. Begins(<<>>) = {}
    BY DEF Begins
  <1> QED BY <1>1, MarkIsThere

\* An empty list, and the input at first.
LEMMA MentionsInitOK == MentionsInit => MentionsInv
  <1> SUFFICES ASSUME MentionsInit PROVE MentionsInv
    OBVIOUS
  <1>1. text = <<>> /\ cursor = 0 /\ globs = <<>> /\ strayed = FALSE /\ chosen = NoName
        /\ mention = [active |-> FALSE, prefix |-> <<>>, index |-> 1, start |-> 0, pending |-> <<>>]
    BY DEF MentionsInit, NoMention
  <1>2. /\ mention \in [active : BOOLEAN, prefix : Words, index : Nat, start : Nat, pending : Words]
        /\ mention.active = FALSE /\ mention.pending = <<>>
    BY <1>1, NamesAreWords
  <1>3. MentionTypes
    <2>1. <<>> \in Seq(Searches) /\ 0 \in 0..Len(<<>>) /\ FALSE \in BOOLEAN
      OBVIOUS
    <2> QED BY <1>1, <1>2, <2>1, NamesAreWords, Zenon DEF MentionTypes
  <1>4. SearchRuns /\ ListShown
    BY <1>2, Zenon DEF SearchRuns, ListShown
  <1>5. ListComes
    BY <1>1, NoTextNoMark DEF ListComes
  <1>6. ChoiceIsAttached
    BY <1>1, MentionsAssumption, Zenon DEF ChoiceIsAttached
  <1> QED BY <1>3, <1>4, <1>5, <1>6 DEF MentionsInv

\* No list is shown.
LEMMA NoMentionFields ==
  /\ NoMention \in [active : BOOLEAN, prefix : Words, index : Nat, start : Nat, pending : Words]
  /\ NoMention.active = FALSE /\ NoMention.pending = <<>>
  BY NamesAreWords DEF NoMention

\* After a key that the preview has seen.
LEMMA PreviewOK ==
  ASSUME MentionsInv, text' \in Words, cursor' \in 0..Len(text'), keyed' = TRUE, chosen' = NoName, Preview
  PROVE  MentionsInv'
  <1> DEFINE begin == findMentionAtCursor(text', cursor')
             partial == Partial(text', cursor')
             M == [active : BOOLEAN, prefix : Words, index : Nat, start : Nat, pending : Words]
  <1>1. begin \in Nat /\ partial \in Words
    BY PartialIsWord
  <1>2. ChoiceIsAttached'
    BY NoChoice
  <1>3. ListComes' <=> (begin > 0 /\ partial # <<>> /\ globCompletions(partial) # <<>> =>
                          \/ mention'.active /\ mention'.prefix = partial
                          \/ \E k \in DOMAIN globs' : globs'[k].prefix = partial)
    BY Zenon DEF ListComes
  <1>4. mention \in M /\ globs \in Seq(Searches)
    BY DEF MentionsInv, MentionTypes
  <1>5. CASE begin = 0
    <2>1. mention' = NoMention /\ strayed' = FALSE /\ globs' = globs
      BY <1>5 DEF Preview
    <2>2. MentionTypes'
      BY <2>1, <1>4, NoMentionFields DEF MentionTypes
    <2>3. SearchRuns' /\ ListShown'
      BY <2>1, NoMentionFields, Zenon DEF SearchRuns, ListShown
    <2>4. ListComes'
      BY <1>3, <1>5
    <2> QED BY <1>2, <2>2, <2>3, <2>4 DEF MentionsInv
  <1>6. CASE begin # 0 /\ ((mention.active /\ mention.prefix = partial) \/ mention.pending = partial)
    <2>1. /\ strayed' = (mention.active /\ begin # mention.start)
          /\ mention' = mention /\ globs' = globs
      BY <1>6, Zenon DEF Preview
    <2>2. MentionTypes'
      BY <2>1, <1>4, Zenon DEF MentionTypes
    <2>3. SearchRuns' /\ ListShown'
      BY <2>1, Zenon DEF SearchRuns, ListShown, MentionsInv
    <2>4. ListComes'
      <3>1. partial # <<>> => \/ mention.active /\ mention.prefix = partial
                              \/ \E k \in DOMAIN globs : globs[k].prefix = partial
        BY <1>6, Zenon DEF MentionsInv, SearchRuns
      <3> QED BY <1>3, <2>1, <3>1, Zenon
    <2> QED BY <1>2, <2>2, <2>3, <2>4 DEF MentionsInv
  <1>7. CASE begin # 0 /\ ~((mention.active /\ mention.prefix = partial) \/ mention.pending = partial)
    <2> DEFINE g == [prefix |-> partial, start |-> begin]
    <2>1. /\ strayed' = (mention.active /\ begin # mention.start)
          /\ mention' = [mention EXCEPT !.pending = partial] /\ globs' = Append(globs, g)
      BY <1>7, Zenon DEF Preview
    <2>2. /\ mention' \in M /\ mention'.pending = partial /\ mention'.active = mention.active
          /\ mention'.start = mention.start /\ mention'.index = mention.index /\ mention'.prefix = mention.prefix
      <3> HIDE DEF partial
      <3> QED BY <1>1, <1>4, <2>1
    <2>3. g \in Searches /\ g.prefix = partial
      BY <1>1, <1>7 DEF Searches
    <2>4. globs' \in Seq(Searches) /\ \E k \in DOMAIN globs' : globs'[k].prefix = partial
      <3> HIDE DEF g, partial
      <3>1. /\ Append(globs, g) \in Seq(Searches) /\ Len(Append(globs, g)) = Len(globs) + 1
            /\ Append(globs, g)[Len(globs) + 1] = g
        BY <1>4, <2>3, AppendProperties
      <3>2. Len(globs) + 1 \in DOMAIN Append(globs, g)
        BY <1>4, <3>1
      <3> QED BY <2>1, <2>3, <3>1, <3>2
    <2>5. MentionTypes'
      BY <2>1, <2>2, <2>4, Zenon DEF MentionTypes
    <2>6. SearchRuns'
      BY <2>2, <2>4, Zenon DEF SearchRuns
    <2>7. ListShown'
      BY <2>1, <2>2, Zenon DEF ListShown, MentionsInv
    <2>8. ListComes'
      BY <1>3, <2>4, Zenon
    <2> QED BY <1>2, <2>5, <2>6, <2>7, <2>8 DEF MentionsInv
  <1> QED BY <1>5, <1>6, <1>7, Zenon

\* Typing, deleting and moving the cursor.
LEMMA KeyOK == MentionsInv /\ Key => MentionsInv'
  <1> SUFFICES ASSUME MentionsInv, Key PROVE MentionsInv'
    OBVIOUS
  <1>1. text \in Seq(Characters) /\ cursor \in 0..Len(text) /\ Len(text) \in Nat
    BY DEF MentionsInv, MentionTypes, Words
  <1>2. text' \in Words /\ cursor' \in 0..Len(text')
    <2>1. CASE cursor' = cursor + 1 /\ \E c \in {AtSign, "a", Space} : text' = InsertAt(text, cursor + 1, c)
      <3>1. PICK c \in Characters : text' = InsertAt(text, cursor + 1, c)
        BY <2>1, NamesAreWords
      <3>2. cursor + 1 \in 1..Len(text) + 1
        BY <1>1
      <3>3. InsertAt(text, cursor + 1, c) \in Seq(Characters) /\ Len(InsertAt(text, cursor + 1, c)) = Len(text) + 1
        BY <1>1, <3>2, InsertAtOK
      <3> QED BY <1>1, <2>1, <3>1, <3>3 DEF Words
    <2>2. CASE cursor > 0 /\ text' = RemoveAt(text, cursor) /\ cursor' = cursor - 1
      <3>1. cursor \in 1..Len(text)
        BY <1>1, <2>2
      <3>2. RemoveAt(text, cursor) \in Seq(Characters) /\ Len(RemoveAt(text, cursor)) = Len(text) - 1
        BY <1>1, <3>1, RemoveAtKeeps
      <3> QED BY <1>1, <2>2, <3>1, <3>2 DEF Words
    <2>3. CASE cursor' \in 0..Len(text) /\ UNCHANGED text
      BY <1>1, <2>3 DEF Words
    <2> QED BY <2>1, <2>2, <2>3 DEF Key
  <1>3. chosen' = NoName /\ keyed' = TRUE /\ Preview
    BY DEF Key
  <1> QED BY <1>2, <1>3, PreviewOK

\* The history puts another text under the list.
LEMMA RecallOK == MentionsInv /\ Recall => MentionsInv'
  <1> SUFFICES ASSUME MentionsInv, Recall PROVE MentionsInv'
    OBVIOUS
  <1>1. text' \in Words /\ cursor' = Len(text') /\ UNCHANGED <<mention, globs>> /\ keyed' = FALSE /\ chosen' = NoName
    BY NamesAreWords DEF Recall
  <1>2. strayed' = (mention.active /\ findMentionAtCursor(text', cursor') # mention.start)
    BY DEF Recall
  <1>3. cursor' \in 0..Len(text')
    BY <1>1 DEF Words
  <1>4. MentionTypes'
    BY <1>1, <1>2, <1>3, Zenon DEF MentionTypes, MentionsInv
  <1>5. SearchRuns' /\ ListShown'
    BY <1>1, <1>2, Zenon DEF SearchRuns, ListShown, MentionsInv
  <1>6. ListComes'
    BY <1>1 DEF ListComes
  <1>7. ChoiceIsAttached'
    BY <1>1, NoChoice
  <1> QED BY <1>4, <1>5, <1>6, <1>7 DEF MentionsInv

\* Another line of the list is chosen.
LEMMA TabOK == MentionsInv /\ Tab => MentionsInv'
  <1> SUFFICES ASSUME MentionsInv, Tab PROVE MentionsInv'
    OBVIOUS
  <1> DEFINE list == globCompletions(mention.prefix)
             n == Len(list)
             M == [active : BOOLEAN, prefix : Words, index : Nat, start : Nat, pending : Words]
  <1>1. list \in Seq(Names) /\ mention.index \in DOMAIN list /\ mention \in M
    BY CompletionsAreNames DEF Tab, Listed, MentionsInv, ListShown, MentionTypes
  <1>2. n \in Nat /\ DOMAIN list = 1..n
    BY <1>1
  <1>3. PICK step \in {1, n - 1} : mention' = [mention EXCEPT !.index = ((mention.index - 1 + step) % n) + 1]
    BY DEF Tab
  <1> DEFINE i == ((mention.index - 1 + step) % n) + 1
  <1>4. i \in 1..n
    <2> DEFINE j == mention.index - 1 + step
    <2>1. n > 0 /\ j \in Int
      BY <1>1, <1>2, <1>3
    <2> HIDE DEF j, n
    <2>2. j % n \in 0..n - 1
      BY <1>2, <2>1
    <2>3. (j % n) + 1 \in 1..n
      BY <1>2, <2>2
    <2> QED BY <2>3 DEF j
  <1>5. i \in Nat
    BY <1>2, <1>4
  <1>6. mention' = [mention EXCEPT !.index = i]
    BY <1>3
  <1> HIDE DEF i
  <1>7. /\ mention' \in M /\ mention'.active = mention.active /\ mention'.prefix = mention.prefix
        /\ mention'.start = mention.start /\ mention'.pending = mention.pending /\ mention'.index = i
    BY <1>1, <1>5, <1>6
  <1>8. UNCHANGED <<text, cursor, globs, keyed, strayed>> /\ chosen' = NoName
    BY DEF Tab
  <1>9. MentionTypes'
    BY <1>7, <1>8, Zenon DEF MentionTypes, MentionsInv
  <1>10. SearchRuns' /\ ListComes'
    BY <1>7, <1>8, Zenon DEF SearchRuns, ListComes, MentionsInv
  <1>11. ListShown'
    <2>1. i \in DOMAIN globCompletions(mention'.prefix)
      BY <1>2, <1>4, <1>7, Zenon
    <2> QED BY <1>7, <1>8, <2>1, Zenon DEF ListShown, MentionsInv
  <1>12. ChoiceIsAttached'
    BY <1>8, NoChoice
  <1> QED BY <1>9, <1>10, <1>11, <1>12 DEF MentionsInv

\* The text is sent.
LEMMA SendOK == MentionsInv /\ Send => MentionsInv'
  <1> SUFFICES ASSUME MentionsInv, Send PROVE MentionsInv'
    OBVIOUS
  <1>1. ~mention.active /\ text' = <<>> /\ cursor' = 0 /\ chosen' = NoName /\ UNCHANGED <<mention, globs, strayed>>
    BY DEF Send
  <1>2. 0 \in 0..Len(<<>>)
    OBVIOUS
  <1>3. MentionTypes'
    BY <1>1, <1>2, NamesAreWords, Zenon DEF MentionTypes, MentionsInv
  <1>4. SearchRuns' /\ ListShown'
    BY <1>1, Zenon DEF SearchRuns, ListShown, MentionsInv
  <1>5. ListComes'
    BY <1>1, NoTextNoMark DEF ListComes
  <1>6. ChoiceIsAttached'
    BY <1>1, NoChoice
  <1> QED BY <1>3, <1>4, <1>5, <1>6 DEF MentionsInv

\* The list's choice is put into the text, unless its place is beyond the end.
LEMMA SelectOK == MentionsInv /\ Select => MentionsInv'
  <1> SUFFICES ASSUME MentionsInv, Select PROVE MentionsInv'
    OBVIOUS
  <1> DEFINE list == globCompletions(mention.prefix)
             name == list[mention.index]
             rest == SubSeq(text, cursor + 1, Len(text))
             head == SubSeq(text, 1, mention.start - 1)
  <1>1. list \in Seq(Names) /\ mention.index \in DOMAIN list /\ mention.active /\ mention.start > 0
    BY CompletionsAreNames DEF Select, Listed, MentionsInv, ListShown, MentionTypes
  <1>2. name \in Names
    BY <1>1
  <1>3. name \in Words /\ name # <<>>
    BY <1>2, NamesAreWords
  <1>4. text \in Seq(Characters) /\ cursor \in 0..Len(text) /\ Len(text) \in Nat /\ mention.start \in Nat
    BY DEF MentionsInv, MentionTypes, Words
  <1>5. rest \in Words
    <2>1. cursor + 1 \in 1..Len(text) + 1
      BY <1>4
    <2> QED BY <1>4, <2>1, RestFacts DEF Words
  <1>6. mention' = NoMention /\ keyed' = FALSE /\ globs' = globs
    BY DEF Select
  <1>7. SearchRuns' /\ ListShown' /\ ListComes'
    BY <1>6, NoMentionFields, Zenon DEF SearchRuns, ListShown, ListComes
  <1>8. CASE mention.start - 1 > Len(text)
    <2>1. chosen' = Panic /\ UNCHANGED <<text, cursor, strayed>>
      BY <1>8 DEF Select
    <2>2. strayed
      <3>1. SUFFICES ASSUME ~strayed PROVE FALSE
        OBVIOUS
      <3>2. mention.start = findMentionAtCursor(text, cursor)
        BY <1>1, <3>1 DEF MentionsInv, ListShown
      <3>3. mention.start <= Len(text)
        BY <1>4, <3>2, PartialIsWord DEF Words
      <3> QED BY <1>4, <1>8, <3>3
    <2>3. ChoiceIsAttached'
      BY <2>1, <2>2, MentionsAssumption, Zenon DEF ChoiceIsAttached
    <2>4. MentionTypes'
      BY <1>6, <2>1, NoMentionFields, Zenon DEF MentionTypes, MentionsInv
    <2> QED BY <1>7, <2>3, <2>4 DEF MentionsInv
  <1>9. CASE ~(mention.start - 1 > Len(text))
    <2> DEFINE end == IF Last(name) = Slash THEN <<>> ELSE <<Space>>
    <2>1. /\ text' = head \o <<AtSign>> \o name \o end \o rest
          /\ cursor' = Len(text') /\ chosen' = (IF strayed THEN NoName ELSE name) /\ strayed' = FALSE
      BY <1>9, Zenon DEF Select
    <2>2. head \in Words
      <3>1. mention.start - 1 \in 0..Len(text)
        BY <1>1, <1>4, <1>9
      <3> QED BY <1>4, <3>1, HeadFacts DEF Words
    <2>3. text' \in Words
      <3>1. end \in Seq(Characters) /\ <<AtSign>> \in Seq(Characters)
        BY NamesAreWords DEF Words
      <3>2. \A a, b \in Seq(Characters) : a \o b \in Seq(Characters)
        OBVIOUS
      <3> HIDE DEF head, name, end, rest
      <3>3. head \o <<AtSign>> \in Seq(Characters)
        BY <2>2, <3>1, <3>2 DEF Words
      <3>4. head \o <<AtSign>> \o name \in Seq(Characters)
        BY <1>3, <3>2, <3>3 DEF Words
      <3>5. head \o <<AtSign>> \o name \o end \in Seq(Characters)
        BY <3>1, <3>2, <3>4
      <3>6. head \o <<AtSign>> \o name \o end \o rest \in Seq(Characters)
        BY <1>5, <3>2, <3>5 DEF Words
      <3> QED BY <2>1, <3>6 DEF Words
    <2>4. MentionTypes'
      <3>1. cursor' \in 0..Len(text')
        <4> HIDE DEF head, name, end, rest
        <4>1. Len(text') \in Nat /\ cursor' = Len(text')
          BY <2>1, <2>3 DEF Words
        <4> QED BY <4>1
      <3>2. FALSE \in BOOLEAN
        OBVIOUS
      <3> QED BY <1>6, <2>1, <2>3, <3>1, <3>2, NoMentionFields, Zenon DEF MentionTypes, MentionsInv
    <2>5. ChoiceIsAttached'
      <3>1. chosen' # Panic
        <4>1. chosen' = NoName \/ chosen' = name
          BY <2>1
        <4> QED BY <1>2, <4>1, MentionsAssumption, Zenon
      <3>2. ASSUME chosen' \in Names, Last(chosen') \notin {Slash} \cup Stops, ~Contains(chosen', Space)
            PROVE  chosen' \in extractMentions(text')
        <4>1. ~strayed /\ chosen' = name
          BY <2>1, <3>2, MentionsAssumption, Zenon
        <4>2. mention.start = findMentionAtCursor(text, cursor)
          BY <1>1, <4>1 DEF MentionsInv, ListShown
        <4>3. mention.start \in Begins(text)
          <5>1. mention.start # 0
            BY <1>1, <1>4
          <5> QED BY <4>2, <5>1, MarkIsThere
        <4>4. Last(name) # Slash /\ Last(name) \notin Stops /\ ~Contains(name, Space)
          BY <3>2, <4>1, Zenon
        <4> HIDE DEF name, rest
        <4>5. text' = Spliced(head, name, rest)
          BY <2>1, <4>4 DEF Spliced
        <4>6. text \in Words
          BY <1>4 DEF Words
        <4>7. name \in extractMentions(text')
          BY <1>3, <1>5, <4>3, <4>4, <4>5, <4>6, NameIsExtracted
        <4> QED BY <4>1, <4>7
      <3> QED BY <3>1, <3>2, Zenon DEF ChoiceIsAttached
    <2> QED BY <1>7, <2>4, <2>5 DEF MentionsInv
  <1> QED BY <1>8, <1>9

\* A search has ended: its files are shown if they are of the cursor's word.
LEMMA CandidatesOK == MentionsInv /\ MentionCandidates => MentionsInv'
  <1> SUFFICES ASSUME MentionsInv, MentionCandidates PROVE MentionsInv'
    OBVIOUS
  <1>1. PICK k \in DOMAIN globs : handleMentionCandidates(globs[k]) /\ globs' = RemoveAt(globs, k)
    BY DEF MentionCandidates
  <1> DEFINE g == globs[k]
             begin == findMentionAtCursor(text, cursor)
             partial == Partial(text, cursor)
             list == globCompletions(g.prefix)
             M == [active : BOOLEAN, prefix : Words, index : Nat, start : Nat, pending : Words]
  <1>2. globs \in Seq(Searches) /\ mention \in M /\ k \in 1..Len(globs) /\ Len(globs) \in Nat
    BY DEF MentionsInv, MentionTypes
  <1>3. g.prefix \in Words /\ g.start \in Nat \ {0}
    <2>1. g \in Searches
      BY <1>2
    <2> HIDE DEF g
    <2> QED BY <2>1 DEF Searches
  <1>4. /\ globs' \in Seq(Searches) /\ Len(globs') = Len(globs) - 1
        /\ \A i \in 1..k - 1 : globs'[i] = globs[i]
        /\ \A i \in k + 1..Len(globs) : globs'[i - 1] = globs[i]
    BY <1>1, <1>2, RemoveAtKeeps
  <1>5. \A i \in DOMAIN globs : i # k => \E j \in DOMAIN globs' : globs'[j] = globs[i]
    <2> SUFFICES ASSUME NEW i \in 1..Len(globs), i # k PROVE \E j \in 1..Len(globs) - 1 : globs'[j] = globs[i]
      BY <1>2, <1>4, SMTT(30)
    <2>1. CASE i < k
      <3>1. i \in 1..k - 1 /\ i \in 1..Len(globs) - 1
        BY <1>2, <2>1
      <3> QED BY <1>4, <3>1
    <2>2. CASE i > k
      <3>1. i \in k + 1..Len(globs) /\ i - 1 \in 1..Len(globs) - 1
        BY <1>2, <2>2
      <3> QED BY <1>4, <3>1
    <2> QED BY <1>2, <2>1, <2>2
  <1>6. UNCHANGED <<text, cursor, keyed>> /\ chosen' = NoName
    BY DEF MentionCandidates
  <1>7. ChoiceIsAttached'
    BY <1>6, NoChoice
  <1>8. begin \in Nat
    BY PartialIsWord DEF MentionsInv, MentionTypes
  <1>9. keyed' /\ begin > 0 /\ partial # <<>> /\ globCompletions(partial) # <<>> /\ partial # g.prefix =>
          \/ mention.active /\ mention.prefix = partial
          \/ \E j \in DOMAIN globs' : globs'[j].prefix = partial
    BY <1>5, <1>6 DEF MentionsInv, ListComes
  <1>10. CASE begin = 0 \/ partial # g.prefix
    <2>1. mention' = [mention EXCEPT !.pending = <<>>] /\ strayed' = strayed
      BY <1>1, <1>10 DEF handleMentionCandidates
    <2>2. /\ mention' \in M /\ mention'.active = mention.active /\ mention'.prefix = mention.prefix
          /\ mention'.start = mention.start /\ mention'.pending = <<>> /\ mention'.index = mention.index
      BY <1>2, <2>1, NamesAreWords
    <2>3. MentionTypes'
      BY <1>4, <1>6, <2>1, <2>2, Zenon DEF MentionTypes, MentionsInv
    <2>4. SearchRuns' /\ ListShown'
      BY <1>6, <2>1, <2>2, Zenon DEF SearchRuns, ListShown, MentionsInv
    <2>5. ListComes'
      <3>1. CASE begin = 0
        BY <1>6, <3>1 DEF ListComes
      <3>2. CASE partial # g.prefix
        BY <1>6, <1>9, <2>2, <3>2, Zenon DEF ListComes
      <3> QED BY <1>10, <3>1, <3>2
    <2> QED BY <1>7, <2>3, <2>4, <2>5 DEF MentionsInv
  <1>11. CASE begin # 0 /\ partial = g.prefix /\ list = <<>>
    <2>1. mention' = NoMention /\ strayed' = FALSE
      BY <1>1, <1>11 DEF handleMentionCandidates
    <2>2. FALSE \in BOOLEAN
      OBVIOUS
    <2>3. MentionTypes'
      BY <1>4, <1>6, <2>1, <2>2, NoMentionFields, Zenon DEF MentionTypes, MentionsInv
    <2>4. SearchRuns' /\ ListShown'
      BY <2>1, NoMentionFields, Zenon DEF SearchRuns, ListShown
    <2>5. ListComes'
      BY <1>6, <1>11, Zenon DEF ListComes
    <2> QED BY <1>7, <2>3, <2>4, <2>5 DEF MentionsInv
  <1>12. CASE begin # 0 /\ partial = g.prefix /\ list # <<>>
    <2>1. /\ mention' = [active |-> TRUE, prefix |-> g.prefix, index |-> 1, start |-> g.start, pending |-> <<>>]
          /\ strayed' = (g.start # begin)
      BY <1>1, <1>12, Zenon DEF handleMentionCandidates
    <2>2. /\ mention' \in M /\ mention'.active = TRUE /\ mention'.prefix = g.prefix /\ mention'.index = 1
          /\ mention'.start = g.start /\ mention'.pending = <<>>
      <3> HIDE DEF g
      <3> QED BY <1>3, <2>1, NamesAreWords
    <2>3. 1 \in DOMAIN list
      BY <1>12, CompletionsAreNames
    <2>4. MentionTypes'
      BY <1>4, <1>6, <2>1, <2>2, Zenon DEF MentionTypes, MentionsInv
    <2>5. SearchRuns'
      BY <2>2, Zenon DEF SearchRuns
    <2>6. ListShown'
      <3>1. g.start > 0
        BY <1>3
      <3> HIDE DEF g
      <3> QED BY <1>6, <2>1, <2>2, <2>3, <3>1, Zenon DEF ListShown, list
    <2>7. ListComes'
      BY <1>6, <1>12, <2>2, Zenon DEF ListComes
    <2> QED BY <1>7, <2>4, <2>5, <2>6, <2>7 DEF MentionsInv
  <1> QED BY <1>10, <1>11, <1>12

\* Every step keeps the invariant.
LEMMA MentionsStep == MentionsInv /\ [MentionsNext]_mentionVars => MentionsInv'
  <1> SUFFICES ASSUME MentionsInv, [MentionsNext]_mentionVars PROVE MentionsInv'
    OBVIOUS
  <1>1. CASE UNCHANGED mentionVars
    BY <1>1, Zenon DEF mentionVars, MentionsInv, MentionTypes, SearchRuns, ListShown, ListComes, ChoiceIsAttached
  <1> QED BY <1>1, KeyOK, RecallOK, TabOK, SelectOK, SendOK, CandidatesOK DEF MentionsNext

-----------------------------------------------------------------------------
(* The index of the repository (RepoIndex) *)

\* The files that belong in the index.
RulesNow == IF ignoreFile = NoFile THEN <<>> ELSE ignoreFile.rules
Indexed == DiscoverFiles(RulesNow)

Entries == [text : FileTexts, mtime : Int]
IndexTypes ==
  /\ changes \in Nat
  /\ disk \in [RepoFiles -> {NoFile} \cup Entries]
  /\ index \in [RepoFiles -> {NoFile} \cup Entries]
  /\ DOMAIN up = Workers
  /\ \A u \in Workers :
       /\ up[u] = [pc |-> up[u].pc, todo |-> up[u].todo, file |-> up[u].file, text |-> up[u].text]
       /\ up[u].pc \in {"idle", "files", "read", "stat"}
       /\ up[u].todo \subseteq RepoFiles
       /\ up[u].pc \in {"read", "stat"} => up[u].file \in RepoFiles
       /\ up[u].pc = "stat" => up[u].text \in FileTexts

\* No time is later than the last change, and one time is one text of a file,
\* but for a file that was saved behind an update's back.
TimesHold ==
  /\ \A f \in RepoFiles : disk[f] # NoFile => disk[f].mtime <= changes
  /\ \A f \in RepoFiles : index[f] # NoFile => index[f].mtime <= changes
  /\ \A f \in RepoFiles \ raced :
       index[f] # NoFile /\ disk[f] # NoFile /\ index[f].mtime = disk[f].mtime => index[f].text = disk[f].text
  /\ \A u \in Workers : up[u].pc = "stat" =>
       up[u].file \in raced \/ disk[up[u].file] = NoFile \/ up[u].text = disk[up[u].file].text

\* The rules that were parsed are those of the file of that time.
RulesHold ==
  /\ cached.mtime \in Int /\ cached.mtime <= changes
  /\ ignoreFile # NoFile => /\ ignoreFile \in [rules : RuleLists, mtime : Int]
                            /\ ignoreFile.mtime <= changes
                            /\ cached.mtime = ignoreFile.mtime => cached.rules = ignoreFile.rules

\* The entry of a file is as it should be.
Current(f) ==
  IF f \in Indexed THEN index[f] # NoFile /\ index[f].text = disk[f].text ELSE index[f] = NoFile

\* Once an update began after the last change with no older one beside it, all
\* that run are of that kind: they look at nothing but what belongs in the
\* index, whatever else has left it, and what one has not come to is still ahead
\* of it.
UpdatesHold ==
  /\ upToDate \subseteq Workers
  /\ upToDate # {} \/ settled => \A u \in Workers \ upToDate : up[u].pc = "idle"
  /\ \A u \in upToDate :
       /\ up[u].pc # "idle" /\ up[u].todo \subseteq Indexed
       /\ up[u].pc \in {"read", "stat"} => up[u].file \in Indexed
       /\ \A f \in RepoFiles \ Indexed : index[f] = NoFile
       /\ \A f \in RepoFiles \ (raced \cup skipped) :
            Current(f) \/ f \in up[u].todo \/ (up[u].pc \in {"read", "stat"} /\ f = up[u].file)

IndexInv == IndexTypes /\ TimesHold /\ RulesHold /\ UpdatesHold /\ IndexCatchesUp

\* What the rules that are loaded say is what the file of rules says.
LEMMA LoadsRulesNow == RulesHold => LoadRules = RulesNow
  BY DEF RulesHold, LoadRules, RulesNow

\* Nothing belongs in the index that is not on the disk.
LEMMA IndexedIsThere == Indexed \subseteq RepoFiles /\ \A f \in Indexed : disk[f] # NoFile
  BY DEF Indexed, DiscoverFiles

\* An entry is not nothing.
LEMMA EntriesAreThere == \A t \in FileTexts, m \in Int :
                           [text |-> t, mtime |-> m] \in Entries /\ [text |-> t, mtime |-> m] # NoFile
  BY RepoIndexAssumption DEF Entries

\* The index is current when settled says so.
LEMMA CatchesUpIs == IndexCatchesUp <=> (settled => \A f \in RepoFiles \ (raced \cup skipped) : Current(f))
  BY Zenon DEF IndexCatchesUp, Current, Indexed, RulesNow

\* What belongs in the index changes with the files and the rules alone.
LEMMA IndexedStays == UNCHANGED <<disk, ignoreFile>> => Indexed' = Indexed /\ RulesNow' = RulesNow
  BY DEF Indexed, DiscoverFiles, RulesNow

\* Looking at the rules again leaves them those of the file.
LEMMA CacheStays == ASSUME RulesHold, cached' = LoadCache, UNCHANGED <<ignoreFile, changes>> PROVE RulesHold'
<1>1. CASE ignoreFile = NoFile
  BY <1>1 DEF RulesHold, LoadCache
<1>2. CASE ignoreFile # NoFile
  <2>1. cached' = [rules |-> RulesNow, mtime |-> ignoreFile.mtime]
    BY <1>2, LoadsRulesNow DEF LoadCache
  <2>2. cached'.mtime = ignoreFile.mtime /\ cached'.rules = ignoreFile.rules
    BY <2>1, <1>2 DEF RulesNow
  <2>3. ignoreFile \in [rules : RuleLists, mtime : Int] /\ ignoreFile.mtime <= changes
    BY <1>2 DEF RulesHold
  <2>4. ignoreFile.mtime \in Int
    BY <2>3
  <2> QED BY <2>2, <2>3, <2>4 DEF RulesHold
<1> QED BY <1>1, <1>2

\* The first state of the index.
LEMMA IndexStarts == IndexInit => IndexInv
<1> SUFFICES ASSUME IndexInit PROVE IndexInv
  OBVIOUS
<1>1. /\ disk \in [RepoFiles -> {[text |-> t, mtime |-> 0] : t \in FileTexts}]
      /\ ignoreFile = NoFile /\ cached = [rules |-> <<>>, mtime |-> -1]
      /\ index = [f \in RepoFiles |-> NoFile] /\ up = [u \in Workers |-> Idle]
      /\ changes = 0 /\ upToDate = {} /\ settled = FALSE
  BY DEF IndexInit
<1>2. \A f \in RepoFiles : disk[f] \in Entries /\ disk[f].mtime = 0 /\ index[f] = NoFile
  BY <1>1 DEF Entries
<1>3. disk \in [RepoFiles -> {NoFile} \cup Entries] /\ index \in [RepoFiles -> {NoFile} \cup Entries]
  BY <1>1, <1>2
<1>4. DOMAIN up = Workers /\ \A u \in Workers : up[u] = Idle
  BY <1>1
<1>5. IndexTypes
  <2>1. changes \in Nat
    BY <1>1
  <2> QED BY <2>1, <1>3, <1>4 DEF IndexTypes, Idle
<1> QED BY <1>1, <1>2, <1>4, <1>5 DEF IndexInv, TimesHold, RulesHold, UpdatesHold, IndexCatchesUp, Idle

\* A change of the user is of a later time than everything the index knows; a
\* file that an update is about to take the time of is saved behind its back.
LEMMA SaveKeeps == ASSUME IndexInv, NEW f \in RepoFiles, Save(f) PROVE IndexInv'
<1>1. changes' = changes + 1 /\ upToDate' = {} /\ settled' = FALSE
  BY DEF Save, Changed
<1>2. UNCHANGED <<ignoreFile, cached, index, up>>
  BY DEF Save
<1>3. raced' = IF Racing(f) THEN raced \cup {f} ELSE raced \ {f}
  BY DEF Save
<1>4. PICK t \in FileTexts : disk' = [disk EXCEPT ![f] = [text |-> t, mtime |-> changes + 1]]
  BY DEF Save
<1>5. IndexTypes /\ TimesHold /\ RulesHold /\ changes \in Nat
  BY DEF IndexInv, IndexTypes
<1>6. [text |-> t, mtime |-> changes + 1] \in Entries
  BY <1>5 DEF Entries
<1>7. disk' \in [RepoFiles -> {NoFile} \cup Entries]
  BY <1>4, <1>5, <1>6 DEF IndexTypes
<1>8. disk'[f].mtime = changes + 1 /\ \A g \in RepoFiles \ {f} : disk'[g] = disk[g]
  BY <1>4, <1>5 DEF IndexTypes
<1>9. changes' \in Nat
  BY <1>1, <1>5
<1>10. IndexTypes'
  BY <1>2, <1>5, <1>7, <1>9, Zenon DEF IndexTypes
<1>11. \A g \in RepoFiles : (index[g] # NoFile => index[g].mtime \in Int) /\ (disk[g] # NoFile => disk[g].mtime \in Int)
  BY <1>5 DEF IndexTypes, Entries
<1>12. TimesHold'
  <2>1. \A g \in RepoFiles : disk'[g] # NoFile => disk'[g].mtime <= changes'
    BY <1>1, <1>5, <1>8, <1>11 DEF TimesHold
  <2>2. \A g \in RepoFiles : index'[g] # NoFile => index'[g].mtime <= changes'
    BY <1>1, <1>2, <1>5, <1>11 DEF TimesHold
  <2>3. ASSUME NEW g \in RepoFiles \ raced', index'[g] # NoFile, disk'[g] # NoFile, index'[g].mtime = disk'[g].mtime
        PROVE  index'[g].text = disk'[g].text
    <3>1. g # f
      BY <2>3, <1>2, <1>8, <1>5, <1>11 DEF TimesHold
    <3>2. g \notin raced
      BY <3>1, <2>3, <1>3
    <3> QED BY <3>1, <3>2, <2>3, <1>2, <1>8, <1>5 DEF TimesHold
  <2>4. ASSUME NEW u \in Workers, up'[u].pc = "stat"
        PROVE  up'[u].file \in raced' \/ disk'[up'[u].file] = NoFile \/ up'[u].text = disk'[up'[u].file].text
    <3>1. up[u].pc = "stat" /\ up'[u] = up[u] /\ up[u].file \in RepoFiles
      BY <2>4, <1>2, <1>5 DEF IndexTypes
    <3>2. CASE up[u].file = f
      BY <3>1, <3>2, <1>3 DEF Racing
    <3>3. CASE up[u].file # f
      BY <3>1, <3>3, <1>3, <1>8, <1>5 DEF TimesHold
    <3> QED BY <3>2, <3>3
  <2> QED BY <2>1, <2>2, <2>3, <2>4, Zenon DEF TimesHold
<1>13. RulesHold'
  BY <1>1, <1>2, <1>5 DEF RulesHold
<1> QED BY <1>1, <1>2, <1>5, <1>10, <1>12, <1>13 DEF IndexInv, UpdatesHold, IndexCatchesUp

\* A file that goes takes its text with it.
LEMMA DeleteKeeps == ASSUME IndexInv, NEW f \in RepoFiles, Delete(f) PROVE IndexInv'
<1>1. changes' = changes + 1 /\ upToDate' = {} /\ settled' = FALSE
  BY DEF Delete, Changed
<1>2. UNCHANGED <<ignoreFile, cached, index, up>> /\ raced' = raced \ {f} /\ disk' = [disk EXCEPT ![f] = NoFile]
  BY DEF Delete
<1>5. IndexTypes /\ TimesHold /\ RulesHold /\ changes \in Nat
  BY DEF IndexInv, IndexTypes
<1>7. disk' \in [RepoFiles -> {NoFile} \cup Entries]
  BY <1>2, <1>5 DEF IndexTypes
<1>8. disk'[f] = NoFile /\ \A g \in RepoFiles \ {f} : disk'[g] = disk[g]
  BY <1>2, <1>5 DEF IndexTypes
<1>9. changes' \in Nat
  BY <1>1, <1>5
<1>10. IndexTypes'
  BY <1>2, <1>5, <1>7, <1>9, Zenon DEF IndexTypes
<1>11. \A g \in RepoFiles : (index[g] # NoFile => index[g].mtime \in Int) /\ (disk[g] # NoFile => disk[g].mtime \in Int)
  BY <1>5 DEF IndexTypes, Entries
<1>12. TimesHold'
  <2>1. \A g \in RepoFiles : disk'[g] # NoFile => disk'[g].mtime <= changes'
    BY <1>1, <1>5, <1>8, <1>11 DEF TimesHold
  <2>2. \A g \in RepoFiles : index'[g] # NoFile => index'[g].mtime <= changes'
    BY <1>1, <1>2, <1>5, <1>11 DEF TimesHold
  <2>3. ASSUME NEW g \in RepoFiles \ raced', index'[g] # NoFile, disk'[g] # NoFile, index'[g].mtime = disk'[g].mtime
        PROVE  index'[g].text = disk'[g].text
    BY <2>3, <1>2, <1>8, <1>5 DEF TimesHold
  <2>4. ASSUME NEW u \in Workers, up'[u].pc = "stat"
        PROVE  up'[u].file \in raced' \/ disk'[up'[u].file] = NoFile \/ up'[u].text = disk'[up'[u].file].text
    <3>1. up[u].pc = "stat" /\ up'[u] = up[u] /\ up[u].file \in RepoFiles
      BY <2>4, <1>2, <1>5 DEF IndexTypes
    <3>2. CASE up[u].file = f
      BY <3>1, <3>2, <1>8
    <3>3. CASE up[u].file # f
      BY <3>1, <3>3, <1>2, <1>8, <1>5 DEF TimesHold
    <3> QED BY <3>2, <3>3
  <2> QED BY <2>1, <2>2, <2>3, <2>4, Zenon DEF TimesHold
<1>13. RulesHold'
  BY <1>1, <1>2, <1>5 DEF RulesHold
<1> QED BY <1>1, <1>2, <1>5, <1>10, <1>12, <1>13 DEF IndexInv, UpdatesHold, IndexCatchesUp

\* The new rules are of a new time, and are parsed again.
LEMMA EditIgnoreKeeps == ASSUME IndexInv, EditIgnore PROVE IndexInv'
<1>1. changes' = changes + 1 /\ upToDate' = {} /\ settled' = FALSE
  BY DEF EditIgnore, Changed
<1>2. UNCHANGED <<disk, cached, index, up, raced>>
  BY DEF EditIgnore
<1>3. ignoreFile' \in {NoFile} \cup {[rules |-> r, mtime |-> changes + 1] : r \in RuleLists}
  BY DEF EditIgnore
<1>5. IndexTypes /\ TimesHold /\ RulesHold /\ changes \in Nat
  BY DEF IndexInv, IndexTypes
<1>9. changes' \in Nat
  BY <1>1, <1>5
<1>10. IndexTypes'
  BY <1>2, <1>5, <1>9, Zenon DEF IndexTypes
<1>11. \A g \in RepoFiles : (index[g] # NoFile => index[g].mtime \in Int) /\ (disk[g] # NoFile => disk[g].mtime \in Int)
  BY <1>5 DEF IndexTypes, Entries
<1>12. TimesHold'
  <2>1. \A g \in RepoFiles : disk'[g] # NoFile => disk'[g].mtime <= changes'
    BY <1>1, <1>2, <1>5, <1>11 DEF TimesHold
  <2>2. \A g \in RepoFiles : index'[g] # NoFile => index'[g].mtime <= changes'
    BY <1>1, <1>2, <1>5, <1>11 DEF TimesHold
  <2> QED BY <2>1, <2>2, <1>2, <1>5, Zenon DEF TimesHold
<1>13. RulesHold'
  <2>1. CASE ignoreFile' = NoFile
    BY <2>1, <1>1, <1>2, <1>5 DEF RulesHold
  <2>2. CASE ignoreFile' # NoFile
    <3>1. PICK r \in RuleLists : ignoreFile' = [rules |-> r, mtime |-> changes + 1]
      BY <2>2, <1>3
    <3>2. cached.mtime # changes + 1
      BY <1>5 DEF RulesHold
    <3> QED BY <3>1, <3>2, <1>1, <1>2, <1>5 DEF RulesHold
  <2> QED BY <2>1, <2>2
<1> QED BY <1>1, <1>2, <1>5, <1>10, <1>12, <1>13 DEF IndexInv, UpdatesHold, IndexCatchesUp

\* What the index owes to the updates, told apart from its types: Ahead is the
\* last part of UpdatesHold.
Ahead(u, f) == Current(f) \/ f \in up[u].todo \/ (up[u].pc \in {"read", "stat"} /\ f = up[u].file)
FreshUpdate(u) ==
  /\ up[u].pc # "idle" /\ up[u].todo \subseteq Indexed
  /\ up[u].pc \in {"read", "stat"} => up[u].file \in Indexed
  /\ \A f \in RepoFiles \ Indexed : index[f] = NoFile
  /\ \A f \in RepoFiles \ (raced \cup skipped) : Ahead(u, f)
WorkerOK(u) ==
  /\ up[u] = [pc |-> up[u].pc, todo |-> up[u].todo, file |-> up[u].file, text |-> up[u].text]
  /\ up[u].pc \in {"idle", "files", "read", "stat"}
  /\ up[u].todo \subseteq RepoFiles
  /\ up[u].pc \in {"read", "stat"} => up[u].file \in RepoFiles
  /\ up[u].pc = "stat" => up[u].text \in FileTexts
TextOK(u) ==
  up[u].pc = "stat" => up[u].file \in raced \/ disk[up[u].file] = NoFile \/ up[u].text = disk[up[u].file].text

\* UpdatesHold is said of one update at a time, and so are the types.
LEMMA UpdatesAre ==
  UpdatesHold <=> /\ upToDate \subseteq Workers
                  /\ upToDate # {} \/ settled => \A u \in Workers \ upToDate : up[u].pc = "idle"
                  /\ \A u \in upToDate : FreshUpdate(u)
  BY Zenon DEF UpdatesHold, FreshUpdate, Ahead

\* The types of the workers, one worker at a time.
LEMMA TypesAre ==
  IndexTypes <=> /\ changes \in Nat
                 /\ disk \in [RepoFiles -> {NoFile} \cup Entries]
                 /\ index \in [RepoFiles -> {NoFile} \cup Entries]
                 /\ DOMAIN up = Workers
                 /\ \A u \in Workers : WorkerOK(u)
  BY Zenon DEF IndexTypes, WorkerOK

\* A step of one update leaves the others as they are.
LEMMA OthersStay ==
  ASSUME IndexTypes, NEW u \in Workers, NEW w, up' = [up EXCEPT ![u] = w]
  PROVE  DOMAIN up' = Workers /\ up'[u] = w /\ \A v \in Workers \ {u} : up'[v] = up[v]
  BY DEF IndexTypes

\* The same when it has to do with neither the files nor the entries: it is
\* enough to look at the update itself.
LEMMA LooksOnly ==
  ASSUME IndexInv, NEW u \in Workers, NEW w, up' = [up EXCEPT ![u] = w],
         UNCHANGED <<changes, disk, index, ignoreFile, cached, raced, upToDate, settled>>,
         skipped \subseteq skipped', up[u].pc # "idle", WorkerOK(u)', TextOK(u)', u \in upToDate => FreshUpdate(u)'
  PROVE  IndexInv'
<1>1. DOMAIN up' = Workers /\ \A v \in Workers \ {u} : up'[v] = up[v]
  BY OthersStay DEF IndexInv
<1>2. \A v \in Workers : WorkerOK(v)'
  <2>1. ASSUME NEW v \in Workers \ {u} PROVE WorkerOK(v)'
    BY <1>1, TypesAre, Zenon DEF IndexInv, WorkerOK
  <2> QED BY <2>1
<1>3. IndexTypes'
  BY <1>1, <1>2, Zenon DEF IndexInv, IndexTypes, WorkerOK
<1>4. \A v \in Workers : TextOK(v)'
  <2>1. ASSUME NEW v \in Workers \ {u} PROVE TextOK(v)'
    BY <1>1, Zenon DEF IndexInv, TimesHold, TextOK
  <2> QED BY <2>1
<1>5. TimesHold'
  BY <1>4, Zenon DEF IndexInv, TimesHold, TextOK
<1>6. Indexed' = Indexed /\ \A f \in RepoFiles : Current(f)' = Current(f)
  BY IndexedStays DEF Current
<1>7. UpdatesHold
  BY DEF IndexInv
<1>8. upToDate' # {} \/ settled' => u \in upToDate
  BY <1>7 DEF UpdatesHold
<1>9. ASSUME NEW v \in upToDate', v # u PROVE FreshUpdate(v)'
  <2>1. v \in Workers /\ FreshUpdate(v) /\ up'[v] = up[v]
    BY <1>9, <1>1, <1>7, UpdatesAre
  <2>2. ASSUME NEW f \in RepoFiles \ (raced' \cup skipped') PROVE Ahead(v, f)'
    <3>1. Ahead(v, f) /\ Current(f)' = Current(f)
      BY <2>1, <1>6 DEF FreshUpdate
    <3> QED BY <2>1, <3>1, Zenon DEF Ahead
  <2> QED BY <2>1, <2>2, <1>6 DEF FreshUpdate
<1>10. UpdatesHold'
  <2>1. \A v \in Workers \ upToDate' : upToDate' # {} \/ settled' => up'[v].pc = "idle"
    BY <1>1, <1>7, <1>8, Zenon DEF UpdatesHold
  <2>2. \A v \in upToDate' : FreshUpdate(v)'
    BY <1>9, Zenon
  <2>3. upToDate' \subseteq Workers
    BY <1>7 DEF UpdatesHold
  <2> QED BY <2>1, <2>2, <2>3, Zenon DEF UpdatesHold, FreshUpdate, Ahead
<1>11. IndexCatchesUp'
  <2>1. settled => \A f \in RepoFiles \ (raced \cup skipped) : Current(f)
    BY CatchesUpIs DEF IndexInv
  <2>2. settled' => \A f \in RepoFiles \ (raced' \cup skipped') : Current(f)'
    BY <2>1, <1>6
  <2> QED BY <2>2, Zenon DEF IndexCatchesUp, Current, Indexed, RulesNow
<1>12. RulesHold'
  BY Zenon DEF IndexInv, RulesHold
<1> QED BY <1>3, <1>5, <1>10, <1>11, <1>12 DEF IndexInv

\* A file is passed by when it is gone, which no file that belongs in the index
\* is, or when its entry is of its time, and then of its text.
LEMMA Next1Keeps == ASSUME IndexInv, NEW u \in Workers, NEW f \in RepoFiles, Next1(u, f) PROVE IndexInv'
<1> DEFINE same == index[f] # NoFile /\ disk[f] # NoFile /\ index[f].mtime = disk[f].mtime
           w == IF disk[f] = NoFile \/ same THEN [up[u] EXCEPT !.todo = @ \ {f}]
                ELSE [[up[u] EXCEPT !.todo = @ \ {f}] EXCEPT !.pc = "read", !.file = f]
<1>1. up[u].pc = "files" /\ f \in up[u].todo /\ up' = [up EXCEPT ![u] = w]
  BY DEF Next1
<1>2. UNCHANGED <<changes, disk, index, ignoreFile, cached, raced, skipped, upToDate, settled>>
  BY DEF Next1
<1>3. WorkerOK(u) /\ DOMAIN up = Workers
  BY TypesAre DEF IndexInv
<1>4. up'[u] = w
  BY <1>1, OthersStay DEF IndexInv
<1>5. /\ w = [pc |-> w.pc, todo |-> w.todo, file |-> w.file, text |-> w.text]
      /\ w.todo = up[u].todo \ {f}
      /\ (w.pc = "files" /\ (disk[f] = NoFile \/ same)) \/ (w.pc = "read" /\ w.file = f)
  BY <1>1, <1>3 DEF WorkerOK
<1> HIDE DEF w
<1>6. WorkerOK(u)' /\ TextOK(u)'
  BY <1>3, <1>4, <1>5 DEF WorkerOK, TextOK
<1>7. ASSUME u \in upToDate PROVE FreshUpdate(u)'
  <2>1. FreshUpdate(u)
    BY <1>7, UpdatesAre DEF IndexInv
  <2>2. Indexed' = Indexed /\ f \in Indexed /\ disk[f] # NoFile
    BY <1>1, <1>2, <2>1, IndexedStays, IndexedIsThere DEF FreshUpdate
  <2>3. ASSUME NEW g \in RepoFiles \ (raced' \cup skipped') PROVE Ahead(u, g)'
    <3>1. Ahead(u, g) /\ Current(g)' = Current(g)
      BY <2>1, <2>2, <2>3, <1>2 DEF FreshUpdate, Current
    <3>2. CASE g # f
      BY <3>1, <3>2, <1>1, <1>4, <1>5 DEF Ahead
    <3>3. CASE g = f /\ same
      <4>1. index[f].text = disk[f].text
        BY <3>3, <2>3, <1>2 DEF IndexInv, TimesHold
      <4>2. Current(f)
        BY <4>1, <3>3, <2>2 DEF Current
      <4> QED BY <4>2, <3>1, <3>3 DEF Ahead
    <3>4. CASE g = f /\ ~same
      BY <3>4, <2>2, <1>4, <1>5 DEF Ahead
    <3> QED BY <3>2, <3>3, <3>4
  <2>4. \A g \in RepoFiles \ Indexed' : index'[g] = NoFile
    BY <2>1, <2>2, <1>2 DEF FreshUpdate
  <2> QED BY <2>1, <2>2, <2>3, <2>4, <1>4, <1>5 DEF FreshUpdate
<1>8. up[u].pc # "idle"
  BY <1>1
<1> QED BY <1>1, <1>2, <1>6, <1>7, <1>8, LooksOnly

\* A file that belongs in the index is there to be read, and passed by when that
\* fails.
LEMMA ReadOneKeeps == ASSUME IndexInv, NEW u \in Workers, ReadOne(u) PROVE IndexInv'
<1>1. up[u].pc = "read"
  BY DEF ReadOne
<1>2. UNCHANGED <<changes, disk, index, ignoreFile, cached, raced, upToDate, settled>>
  BY DEF ReadOne
<1>3. WorkerOK(u) /\ DOMAIN up = Workers /\ up[u].file \in RepoFiles
  BY <1>1, TypesAre DEF IndexInv, WorkerOK
<1> DEFINE d == disk[up[u].file]
<1>4. PICK w : /\ up' = [up EXCEPT ![u] = w]
               /\ \/ w = [up[u] EXCEPT !.pc = "files"] /\ skipped' = skipped \cup {up[u].file}
                  \/ d # NoFile /\ w = [up[u] EXCEPT !.pc = "stat", !.text = d.text] /\ skipped' = skipped
  <2>1. CASE d # NoFile /\ up' = [up EXCEPT ![u].pc = "stat", ![u].text = d.text] /\ skipped' = skipped
    <3>1. up' = [up EXCEPT ![u] = [up[u] EXCEPT !.pc = "stat", !.text = d.text]]
      BY <2>1, <1>3
    <3> QED BY <2>1, <3>1
  <2>2. CASE up' = [up EXCEPT ![u].pc = "files"] /\ skipped' = skipped \cup {up[u].file}
    <3>1. up' = [up EXCEPT ![u] = [up[u] EXCEPT !.pc = "files"]]
      BY <2>2, <1>3
    <3> QED BY <2>2, <3>1
  <2>3. \/ d # NoFile /\ up' = [up EXCEPT ![u].pc = "stat", ![u].text = d.text] /\ skipped' = skipped
        \/ up' = [up EXCEPT ![u].pc = "files"] /\ skipped' = skipped \cup {up[u].file}
    BY DEF ReadOne
  <2> HIDE DEF d
  <2> QED BY <2>1, <2>2, <2>3
<1>5. up'[u] = w
  BY <1>4, OthersStay DEF IndexInv
<1>6. d # NoFile => d.text \in FileTexts
  BY <1>3, TypesAre DEF IndexInv, Entries
<1>7. /\ w = [pc |-> w.pc, todo |-> w.todo, file |-> w.file, text |-> w.text]
      /\ w.todo = up[u].todo /\ w.file = up[u].file
      /\ \/ w.pc = "files" /\ skipped' = skipped \cup {up[u].file}
         \/ w.pc = "stat" /\ d # NoFile /\ w.text = d.text /\ skipped' = skipped
  BY <1>1, <1>3, <1>4 DEF WorkerOK
<1>8. WorkerOK(u)' /\ TextOK(u)'
  BY <1>2, <1>3, <1>5, <1>6, <1>7 DEF WorkerOK, TextOK
<1>9. ASSUME u \in upToDate PROVE FreshUpdate(u)'
  <2>1. FreshUpdate(u)
    BY <1>9, UpdatesAre DEF IndexInv
  <2>2. Indexed' = Indexed /\ up[u].file \in Indexed
    BY <1>1, <1>2, <1>7, <2>1, IndexedStays, IndexedIsThere DEF FreshUpdate
  <2>3. ASSUME NEW g \in RepoFiles \ (raced' \cup skipped') PROVE Ahead(u, g)'
    <3>0. g \in RepoFiles \ (raced \cup skipped)
      BY <2>3, <1>2, <1>7
    <3>1. Ahead(u, g) /\ Current(g)' = Current(g)
      BY <2>1, <2>2, <3>0, <1>2 DEF FreshUpdate, Current
    <3>2. w.pc = "files" => g # up[u].file
      BY <2>3, <1>7
    <3> QED BY <3>1, <3>2, <1>1, <1>5, <1>7 DEF Ahead
  <2>4. \A g \in RepoFiles \ Indexed' : index'[g] = NoFile
    BY <2>1, <2>2, <1>2 DEF FreshUpdate
  <2> QED BY <2>1, <2>2, <2>3, <2>4, <1>5, <1>7 DEF FreshUpdate
<1> QED
  <2>1. up[u].pc # "idle"
    BY <1>1
  <2>2. skipped \subseteq skipped'
    BY <1>7
  <2> QED BY <1>2, <1>4, <1>8, <1>9, <2>1, <2>2, LooksOnly

\* The entry is of the file as it is now, and of the time it has now, unless
\* the file was saved since it was read.
LEMMA StatKeeps == ASSUME IndexInv, NEW u \in Workers, StatAndStore(u) PROVE IndexInv'
<1>0. PICK f \in RepoFiles : f = up[u].file /\ up[u].pc = "stat"
  BY TypesAre DEF IndexInv, WorkerOK, StatAndStore
<1> DEFINE time == IF disk[f] = NoFile THEN -1 ELSE disk[f].mtime
           e == [text |-> up[u].text, mtime |-> time]
           w == [up[u] EXCEPT !.pc = "files", !.file = NoFile, !.text = <<>>]
<1>1. up[u].pc = "stat" /\ index' = [index EXCEPT ![f] = e]
  BY <1>0 DEF StatAndStore
<1>2. UNCHANGED <<changes, disk, ignoreFile, cached, raced, upToDate, settled>> /\ skipped' = skipped \ {f}
  BY <1>0 DEF StatAndStore
<1>3. WorkerOK(u) /\ DOMAIN up = Workers /\ up[u].text \in FileTexts /\ changes \in Nat
  BY <1>1, TypesAre DEF IndexInv, WorkerOK
<1>4. up' = [up EXCEPT ![u] = w]
  BY <1>3 DEF StatAndStore
<1>5. up'[u] = w /\ DOMAIN up' = Workers /\ \A v \in Workers \ {u} : up'[v] = up[v]
  BY <1>4, OthersStay DEF IndexInv
<1>6. w = [pc |-> "files", todo |-> up[u].todo, file |-> NoFile, text |-> <<>>]
  <2> DEFINE w1 == [up[u] EXCEPT !.pc = "files"]
             w2 == [w1 EXCEPT !.file = NoFile]
             w3 == [w2 EXCEPT !.text = <<>>]
  <2>1. w = w3
    BY Zenon
  <2>2. w1 = [pc |-> "files", todo |-> up[u].todo, file |-> up[u].file, text |-> up[u].text]
    BY <1>3 DEF WorkerOK
  <2> HIDE DEF w1
  <2>3. w2 = [pc |-> "files", todo |-> up[u].todo, file |-> NoFile, text |-> up[u].text]
    BY <2>2
  <2> HIDE DEF w2
  <2>4. w3 = [pc |-> "files", todo |-> up[u].todo, file |-> NoFile, text |-> <<>>]
    BY <2>3
  <2> QED BY <2>1, <2>4
<1> HIDE DEF w
<1>7. disk \in [RepoFiles -> {NoFile} \cup Entries] /\ index \in [RepoFiles -> {NoFile} \cup Entries]
  BY DEF IndexInv, IndexTypes
<1>8. time \in Int /\ time <= changes
  <2>1. disk[f] # NoFile => disk[f].mtime \in Int /\ disk[f].mtime <= changes
    BY <1>3, <1>7 DEF IndexInv, TimesHold, Entries
  <2> QED BY <2>1, <1>3
<1>9. e \in Entries /\ e # NoFile /\ e.mtime = time /\ e.text = up[u].text
  BY <1>3, <1>8, RepoIndexAssumption DEF Entries
<1> HIDE DEF time, e
<1>10. index'[f] = e /\ \A g \in RepoFiles \ {f} : index'[g] = index[g]
  BY <1>1, <1>3, <1>7
<1>11. IndexTypes'
  <2>1. index' \in [RepoFiles -> {NoFile} \cup Entries]
    BY <1>1, <1>3, <1>7, <1>9
  <2>2. WorkerOK(u)'
    BY <1>3, <1>5, <1>6 DEF WorkerOK
  <2>3. ASSUME NEW v \in Workers \ {u} PROVE WorkerOK(v)'
    BY <1>5, TypesAre, Zenon DEF IndexInv, WorkerOK
  <2> QED BY <2>1, <2>2, <2>3, <1>2, <1>3, <1>5, <1>7 DEF IndexTypes, WorkerOK
<1>12. TextOK(u)
  BY DEF IndexInv, TimesHold, TextOK
<1>13. f \notin raced => disk[f] = NoFile \/ up[u].text = disk[f].text
  BY <1>0, <1>12 DEF TextOK
<1>14. TimesHold'
  <2>1. \A g \in RepoFiles : disk'[g] # NoFile => disk'[g].mtime <= changes'
    BY <1>2 DEF IndexInv, TimesHold
  <2>2. \A g \in RepoFiles : index'[g] # NoFile => index'[g].mtime <= changes'
    BY <1>2, <1>8, <1>9, <1>10 DEF IndexInv, TimesHold
  <2>3. ASSUME NEW g \in RepoFiles \ raced', index'[g] # NoFile, disk'[g] # NoFile, index'[g].mtime = disk'[g].mtime
        PROVE  index'[g].text = disk'[g].text
    <3>1. CASE g = f
      BY <3>1, <2>3, <1>2, <1>9, <1>10, <1>13
    <3>2. CASE g # f
      BY <3>2, <2>3, <1>2, <1>10 DEF IndexInv, TimesHold
    <3> QED BY <3>1, <3>2
  <2>4. TextOK(u)'
    BY <1>5, <1>6 DEF TextOK
  <2>5. ASSUME NEW v \in Workers \ {u} PROVE TextOK(v)'
    BY <1>2, <1>5, Zenon DEF IndexInv, TimesHold, TextOK
  <2> QED BY <2>1, <2>2, <2>3, <2>4, <2>5 DEF TimesHold, TextOK
<1>15. RulesHold'
  BY <1>2, Zenon DEF IndexInv, RulesHold
<1>16. Indexed' = Indexed
  BY <1>2, IndexedStays
<1>17. upToDate # {} \/ settled => u \in upToDate
  BY <1>1 DEF IndexInv, UpdatesHold
<1>18. u \in upToDate => f \in Indexed /\ FreshUpdate(u)
  BY <1>0, UpdatesAre DEF IndexInv, FreshUpdate
<1>19. u \in upToDate /\ f \notin raced => Current(f)'
  BY <1>2, <1>3, <1>9, <1>10, <1>13, <1>16, <1>18, IndexedIsThere DEF Current
<1>20. \A g \in RepoFiles \ {f} : Current(g)' = Current(g)
  BY <1>2, <1>10, <1>16 DEF Current
<1>21. ASSUME u \in upToDate, NEW v \in upToDate PROVE FreshUpdate(v)'
  <2>1. v \in Workers /\ FreshUpdate(v) /\ f \in Indexed
    BY <1>18, <1>21, UpdatesAre DEF IndexInv
  <2>2. up'[v].pc # "idle" /\ up'[v].todo = up[v].todo
    BY <2>1, <1>1, <1>5, <1>6 DEF FreshUpdate
  <2>3. up'[v].pc \in {"read", "stat"} => v # u /\ up'[v] = up[v]
    BY <2>1, <1>5, <1>6
  <2>4. \A g \in RepoFiles \ Indexed' : index'[g] = NoFile
    BY <2>1, <1>10, <1>16 DEF FreshUpdate
  <2>5. ASSUME NEW g \in RepoFiles \ (raced' \cup skipped') PROVE Ahead(v, g)'
    <3>1. CASE g = f
      BY <3>1, <2>5, <1>2, <1>19, <1>21 DEF Ahead
    <3>2. CASE g # f /\ v = u
      <4>1. Ahead(u, g) /\ Current(g)' = Current(g)
        BY <3>2, <2>1, <2>5, <1>2, <1>20 DEF FreshUpdate
      <4> QED BY <4>1, <3>2, <2>2, <1>0 DEF Ahead
    <3>3. CASE g # f /\ v # u
      <4>1. Ahead(v, g) /\ Current(g)' = Current(g) /\ up'[v] = up[v]
        BY <3>3, <2>1, <2>5, <1>2, <1>5, <1>20 DEF FreshUpdate
      <4> QED BY <4>1 DEF Ahead
    <3> QED BY <3>1, <3>2, <3>3
  <2> QED BY <2>1, <2>2, <2>3, <2>4, <2>5, <1>16 DEF FreshUpdate
<1>22. UpdatesHold'
  <2>1. upToDate' # {} \/ settled' => \A v \in Workers \ upToDate' : up'[v].pc = "idle"
    <3>1. upToDate # {} \/ settled => \A v \in Workers \ upToDate : up[v].pc = "idle"
      BY UpdatesAre DEF IndexInv
    <3> QED BY <3>1, <1>2, <1>5, <1>17
  <2>2. \A v \in upToDate' : FreshUpdate(v)'
    BY <1>2, <1>17, <1>21
  <2>3. upToDate' \subseteq Workers
    BY <1>2 DEF IndexInv, UpdatesHold
  <2> QED BY <2>1, <2>2, <2>3, Zenon DEF UpdatesHold, FreshUpdate, Ahead
<1>23. settled' => \A g \in RepoFiles \ (raced' \cup skipped') : Current(g)'
  <2>1. settled => \A g \in RepoFiles \ (raced \cup skipped) : Current(g)
    BY CatchesUpIs DEF IndexInv
  <2> QED BY <2>1, <1>2, <1>17, <1>19, <1>20
<1>24. IndexCatchesUp'
  BY <1>23, Zenon DEF IndexCatchesUp, Current, Indexed, RulesNow
<1> QED BY <1>11, <1>14, <1>15, <1>22, <1>24 DEF IndexInv

\* An update begins with all that belongs in the index ahead of it, and removes
\* the rest.
LEMMA BeginKeeps == ASSUME IndexInv, NEW u \in Workers, BeginUpdate(u) PROVE IndexInv'
<1> DEFINE w == [Idle EXCEPT !.pc = "files", !.todo = Indexed]
<1>1. DiscoverFiles(LoadRules) = Indexed
  BY LoadsRulesNow DEF IndexInv, Indexed
<1>2. /\ up[u].pc = "idle" /\ up' = [up EXCEPT ![u] = w] /\ cached' = LoadCache
      /\ index' = [f \in RepoFiles |-> IF f \in Indexed THEN index[f] ELSE NoFile]
      /\ upToDate' = IF \A v \in Workers \ upToDate : up[v].pc = "idle" THEN upToDate \cup {u} ELSE upToDate
  BY <1>1, Zenon DEF BeginUpdate
<1>3. UNCHANGED <<changes, disk, ignoreFile, raced, skipped, settled>>
  BY DEF BeginUpdate
<1>4. up'[u] = w /\ DOMAIN up' = Workers /\ \A v \in Workers \ {u} : up'[v] = up[v]
  BY <1>2, OthersStay DEF IndexInv
<1>5. w = [pc |-> "files", todo |-> Indexed, file |-> NoFile, text |-> <<>>]
  <2> DEFINE w1 == [Idle EXCEPT !.pc = "files"]
             w2 == [w1 EXCEPT !.todo = Indexed]
  <2>1. w = w2
    BY Zenon
  <2>2. Idle = [pc |-> Idle.pc, todo |-> Idle.todo, file |-> Idle.file, text |-> Idle.text]
    BY DEF Idle
  <2>3. w1 = [pc |-> "files", todo |-> Idle.todo, file |-> Idle.file, text |-> Idle.text]
    BY <2>2
  <2> HIDE DEF w1
  <2>4. w2 = [pc |-> "files", todo |-> Indexed, file |-> Idle.file, text |-> Idle.text]
    BY <2>3
  <2>5. Idle.file = NoFile /\ Idle.text = <<>>
    BY DEF Idle
  <2> QED BY <2>1, <2>4, <2>5, Zenon
<1> HIDE DEF w
<1>6. disk \in [RepoFiles -> {NoFile} \cup Entries] /\ index \in [RepoFiles -> {NoFile} \cup Entries] /\ changes \in Nat
  BY DEF IndexInv, IndexTypes
<1>7. IndexTypes'
  <2>1. index' \in [RepoFiles -> {NoFile} \cup Entries]
    BY <1>2, <1>6
  <2>2. WorkerOK(u)'
    BY <1>4, <1>5, IndexedIsThere DEF WorkerOK
  <2>3. ASSUME NEW v \in Workers \ {u} PROVE WorkerOK(v)'
    BY <1>4, TypesAre, Zenon DEF IndexInv, WorkerOK
  <2> QED BY <2>1, <2>2, <2>3, <1>3, <1>4, <1>6 DEF IndexTypes, WorkerOK
<1>8. \A f \in RepoFiles : index'[f] = (IF f \in Indexed THEN index[f] ELSE NoFile)
  BY <1>2
<1>9. TimesHold'
  <2>1. TimesHold
    BY DEF IndexInv
  <2>2. /\ \A f \in RepoFiles : disk'[f] # NoFile => disk'[f].mtime <= changes'
        /\ \A f \in RepoFiles : index'[f] # NoFile => index'[f].mtime <= changes'
        /\ \A f \in RepoFiles \ raced' :
             index'[f] # NoFile /\ disk'[f] # NoFile /\ index'[f].mtime = disk'[f].mtime => index'[f].text = disk'[f].text
    BY <2>1, <1>3, <1>8 DEF TimesHold
  <2>3. TextOK(u)'
    BY <1>4, <1>5 DEF TextOK
  <2>4. ASSUME NEW v \in Workers \ {u} PROVE TextOK(v)'
    BY <2>1, <1>3, <1>4, Zenon DEF TimesHold, TextOK
  <2> QED BY <2>2, <2>3, <2>4 DEF TimesHold, TextOK
<1>10. RulesHold'
  BY <1>2, <1>3, CacheStays DEF IndexInv
<1>11. Indexed' = Indexed
  BY <1>3, IndexedStays
<1>12. \A f \in RepoFiles \ Indexed : index'[f] = NoFile /\ Current(f)'
  BY <1>8, <1>11 DEF Current
<1>13. \A f \in Indexed : Current(f)' = Current(f)
  BY <1>3, <1>8, <1>11, IndexedIsThere DEF Current
<1>14. /\ upToDate \subseteq Workers
       /\ upToDate # {} \/ settled => \A v \in Workers \ upToDate : up[v].pc = "idle"
       /\ \A v \in upToDate : FreshUpdate(v)
  BY UpdatesAre DEF IndexInv
<1>15. ASSUME NEW v \in upToDate' PROVE FreshUpdate(v)'
  <2>1. CASE v = u
    <3>1. \A f \in RepoFiles \ (raced' \cup skipped') : Ahead(u, f)'
      BY <1>4, <1>5, <1>12 DEF Ahead
    <3> QED BY <3>1, <2>1, <1>4, <1>5, <1>11, <1>12 DEF FreshUpdate
  <2>2. CASE v # u
    <3>1. v \in Workers /\ FreshUpdate(v) /\ up'[v] = up[v]
      BY <2>2, <1>2, <1>4, <1>14, <1>15
    <3>2. ASSUME NEW f \in RepoFiles \ (raced' \cup skipped') PROVE Ahead(v, f)'
      BY <3>1, <3>2, <1>3, <1>12, <1>13 DEF FreshUpdate, Ahead
    <3> QED BY <3>1, <3>2, <1>11, <1>12 DEF FreshUpdate
  <2> QED BY <2>1, <2>2
<1>16. upToDate' # {} \/ settled' => \A v \in Workers \ upToDate' : up'[v].pc = "idle"
  <2>1. CASE \A v \in Workers \ upToDate : up[v].pc = "idle"
    <3>1. upToDate' = upToDate \cup {u}
      BY <2>1, <1>2
    <3> QED BY <3>1, <2>1, <1>4
  <2>2. CASE ~(\A v \in Workers \ upToDate : up[v].pc = "idle")
    BY <2>2, <1>2, <1>3, <1>14
  <2> QED BY <2>1, <2>2
<1>17. UpdatesHold'
  <2>1. upToDate' \subseteq Workers
    BY <1>2, <1>14
  <2> QED BY <2>1, <1>15, <1>16, Zenon DEF UpdatesHold, FreshUpdate, Ahead
<1>18. settled' => \A f \in RepoFiles \ (raced' \cup skipped') : Current(f)'
  <2>1. settled => \A f \in RepoFiles \ (raced \cup skipped) : Current(f)
    BY CatchesUpIs DEF IndexInv
  <2> QED BY <2>1, <1>3, <1>12, <1>13
<1>19. IndexCatchesUp'
  BY <1>18, Zenon DEF IndexCatchesUp, Current, Indexed, RulesNow
<1> QED BY <1>7, <1>9, <1>10, <1>17, <1>19 DEF IndexInv

\* An update that ends has nothing ahead of it: all that it was to see to is
\* as it should be.
LEMMA FinishKeeps == ASSUME IndexInv, NEW u \in Workers, Finish(u) PROVE IndexInv'
<1>1. /\ up[u].pc = "files" /\ up[u].todo = {} /\ up' = [up EXCEPT ![u] = Idle]
      /\ settled' = IF u \in upToDate /\ \A v \in Workers \ upToDate : up[v].pc = "idle" THEN TRUE ELSE settled
      /\ upToDate' = upToDate \ {u}
  BY Zenon DEF Finish
<1>2. UNCHANGED <<changes, disk, index, ignoreFile, cached, raced, skipped>>
  BY DEF Finish
<1>3. up'[u] = Idle /\ DOMAIN up' = Workers /\ \A v \in Workers \ {u} : up'[v] = up[v]
  BY <1>1, OthersStay DEF IndexInv
<1>4. IndexTypes'
  <2>1. WorkerOK(u)'
    BY <1>3 DEF WorkerOK, Idle
  <2>2. ASSUME NEW v \in Workers \ {u} PROVE WorkerOK(v)'
    BY <1>3, TypesAre, Zenon DEF IndexInv, WorkerOK
  <2> QED BY <2>1, <2>2, <1>2, <1>3, Zenon DEF IndexInv, IndexTypes, WorkerOK
<1>5. TimesHold'
  <2>1. TextOK(u)'
    BY <1>3 DEF TextOK, Idle
  <2>2. ASSUME NEW v \in Workers \ {u} PROVE TextOK(v)'
    BY <1>2, <1>3, Zenon DEF IndexInv, TimesHold, TextOK
  <2>3. \A v \in Workers : TextOK(v)'
    BY <2>1, <2>2
  <2> QED BY <2>3, <1>2, Zenon DEF IndexInv, TimesHold, TextOK
<1>6. RulesHold'
  BY <1>2, Zenon DEF IndexInv, RulesHold
<1>7. Indexed' = Indexed /\ \A f \in RepoFiles : Current(f)' = Current(f)
  BY <1>2, IndexedStays DEF Current
<1>8. /\ upToDate \subseteq Workers
      /\ upToDate # {} \/ settled => \A v \in Workers \ upToDate : up[v].pc = "idle"
      /\ \A v \in upToDate : FreshUpdate(v)
  BY UpdatesAre DEF IndexInv
<1>9. upToDate # {} \/ settled => u \in upToDate
  BY <1>1, <1>8
<1>10. u \in upToDate => \A f \in RepoFiles \ (raced \cup skipped) : Current(f)
  BY <1>1, <1>8 DEF FreshUpdate, Ahead
<1>11. ASSUME NEW v \in upToDate' PROVE FreshUpdate(v)'
  <2>1. v \in Workers /\ FreshUpdate(v) /\ up'[v] = up[v]
    BY <1>1, <1>3, <1>8
  <2>2. ASSUME NEW f \in RepoFiles \ (raced' \cup skipped') PROVE Ahead(v, f)'
    BY <2>1, <2>2, <1>2, <1>7 DEF FreshUpdate, Ahead
  <2> QED BY <2>1, <2>2, <1>2, <1>7 DEF FreshUpdate
<1>12. upToDate' # {} \/ settled' => \A v \in Workers \ upToDate' : up'[v].pc = "idle"
  BY <1>1, <1>3, <1>8 DEF Idle
<1>13. UpdatesHold'
  <2>1. upToDate' \subseteq Workers
    BY <1>1, <1>8
  <2> QED BY <2>1, <1>11, <1>12, Zenon DEF UpdatesHold, FreshUpdate, Ahead
<1>14. settled' => \A f \in RepoFiles \ (raced' \cup skipped') : Current(f)'
  BY <1>1, <1>2, <1>7, <1>9, <1>10
<1>15. IndexCatchesUp'
  BY <1>14, Zenon DEF IndexCatchesUp, Current, Indexed, RulesNow
<1> QED BY <1>4, <1>5, <1>6, <1>13, <1>15 DEF IndexInv

\* The source build only reads what the invariant is about.
LEMMA SourcesKeep ==
  ASSUME IndexInv, UNCHANGED <<changes, disk, ignoreFile, index, up, raced, skipped, upToDate, settled>>,
         UNCHANGED cached \/ cached' = LoadCache
  PROVE  IndexInv'
<1>1. IndexTypes'
  BY Zenon DEF IndexInv, IndexTypes
<1>2. TimesHold'
  BY Zenon DEF IndexInv, TimesHold
<1>3. RulesHold'
  <2>1. CASE UNCHANGED cached
    BY <2>1, Zenon DEF IndexInv, RulesHold
  <2>2. CASE cached' = LoadCache
    BY <2>2, CacheStays DEF IndexInv
  <2> QED BY <2>1, <2>2
<1>4. Indexed' = Indexed /\ \A f \in RepoFiles : Current(f)' = Current(f)
  BY IndexedStays DEF Current
<1>5. UpdatesHold'
  <2>1. ASSUME NEW u \in upToDate PROVE FreshUpdate(u)'
    <3>1. FreshUpdate(u)
      BY <2>1, UpdatesAre DEF IndexInv
    <3>2. ASSUME NEW f \in RepoFiles \ (raced' \cup skipped') PROVE Ahead(u, f)'
      BY <3>1, <3>2, <1>4 DEF FreshUpdate, Ahead
    <3> QED BY <3>1, <3>2, <1>4 DEF FreshUpdate
  <2> QED BY <2>1, Zenon DEF IndexInv, UpdatesHold, FreshUpdate, Ahead
<1>6. IndexCatchesUp'
  BY Zenon DEF IndexInv, IndexCatchesUp, DiscoverFiles
<1> QED BY <1>1, <1>2, <1>3, <1>5, <1>6 DEF IndexInv

\* Every step keeps the invariant of the index.
LEMMA IndexStep == IndexInv /\ [IndexNext]_indexVars => IndexInv'
<1> SUFFICES ASSUME IndexInv, [IndexNext]_indexVars PROVE IndexInv'
  OBVIOUS
<1>1. CASE UNCHANGED indexVars
  BY <1>1, SourcesKeep DEF indexVars
<1>2. CASE \E f \in RepoFiles : Save(f) \/ Delete(f) \/ ReadSource(f)
  <2>1. ASSUME NEW f \in RepoFiles, ReadSource(f) PROVE IndexInv'
    BY <2>1, SourcesKeep DEF ReadSource
  <2> QED BY <1>2, <2>1, SaveKeeps, DeleteKeeps
<1>3. CASE EditIgnore \/ StartSources \/ ChunkSource
  <2>1. CASE StartSources
    BY <2>1, SourcesKeep DEF StartSources
  <2>2. CASE ChunkSource
    BY <2>2, SourcesKeep DEF ChunkSource
  <2> QED BY <1>3, <2>1, <2>2, EditIgnoreKeeps
<1>4. ASSUME NEW u \in Workers,
             BeginUpdate(u) \/ ReadOne(u) \/ StatAndStore(u) \/ Finish(u) \/ \E f \in RepoFiles : Next1(u, f)
      PROVE  IndexInv'
  BY <1>4, BeginKeeps, ReadOneKeeps, StatKeeps, FinishKeeps, Next1Keeps
<1> QED BY <1>1, <1>2, <1>3, <1>4, Zenon DEF IndexNext

-----------------------------------------------------------------------------
(* The chunks of the source files (RepoIndex) *)

\* The chunks of a file are those of its symbols as it is, or of no symbol.
SymbolsOf(f) == SymbolLines(disk[f].text)
Cut(chunks, f) ==
  \/ chunks = {<<f, 1, Len(disk[f].text)>>}
  \/ SymbolsOf(f) # {} /\ chunks = ChunkBySymbols(f, SymbolsOf(f), disk[f].text)

\* The end of a chunk is in the text, not before its symbol and before the next.
LEMMA EndIs ==
  ASSUME NEW lines \in Seq({"sym", "text"}), NEW syms \in SUBSET (1..Len(lines)), NEW s \in syms
  PROVE  /\ EndOf(syms, s, lines) \in s..Len(lines)
         /\ \A t \in syms : t > s => EndOf(syms, s, lines) < t
         /\ \A n \in s..Len(lines) : (\A t \in syms : t > s => n < t) => n <= EndOf(syms, s, lines)
<1> DEFINE S == {Len(lines)} \cup {t - 1 : t \in {u \in syms : u > s}}
           e == EndOf(syms, s, lines)
<1>1. e = Min(S)
  BY DEF EndOf
<1>2. Len(lines) \in Nat /\ s \in 1..Len(lines) /\ syms \subseteq 1..Len(lines)
  OBVIOUS
<1>3. ASSUME NEW x \in S PROVE x \in s..Len(lines)
  <2>1. CASE x = Len(lines)
    BY <2>1, <1>2
  <2>2. CASE x # Len(lines)
    <3>1. PICK t \in syms : t > s /\ x = t - 1
      BY <1>3, <2>2
    <3> QED BY <3>1, <1>2
  <2> QED BY <2>1, <2>2
<1>4. S \subseteq Nat /\ Len(lines) \in S
  BY <1>2, <1>3
<1>5. \A t \in syms : t > s => t - 1 \in S
  OBVIOUS
<1>6. \A x \in S : x = Len(lines) \/ \E t \in syms : t > s /\ x = t - 1
  OBVIOUS
<1> HIDE DEF S, e
<1>7. e \in S /\ \A y \in S : e <= y
  BY <1>1, <1>4, LeastOne
<1>8. e \in s..Len(lines)
  BY <1>3, <1>7
<1>9. ASSUME NEW t \in syms, t > s PROVE e < t
  <2>1. e <= t - 1
    BY <1>5, <1>7, <1>9
  <2> QED BY <2>1, <1>2, <1>8
<1>10. ASSUME NEW n \in s..Len(lines), \A t \in syms : t > s => n < t PROVE n <= e
  <2>1. CASE e = Len(lines)
    BY <2>1, <1>2, <1>10
  <2>2. CASE e # Len(lines)
    <3>1. PICK t \in syms : t > s /\ e = t - 1
      BY <1>6, <1>7, <2>2
    <3> QED BY <3>1, <1>2, <1>10
  <2> QED BY <2>1, <2>2
<1> QED BY <1>8, <1>9, <1>10 DEF e

\* Of the symbols up to a line one is the last.
LEMMA LastBefore ==
  ASSUME NEW S \in SUBSET Nat, NEW n \in Nat, NEW m \in S, m <= n
  PROVE  \E s \in S : s <= n /\ \A t \in S : t > s => n < t
<1> DEFINE D == {n - s : s \in {t \in S : t <= n}}
<1>1. \A d \in D : d \in Nat /\ \E s \in S : s <= n /\ d = n - s
  OBVIOUS
<1>2. D \subseteq Nat /\ D # {}
  BY <1>1
<1>3. \A t \in S : t <= n => n - t \in D
  OBVIOUS
<1> HIDE DEF D
<1>4. Min(D) \in D /\ \A y \in D : Min(D) <= y
  BY <1>2, LeastOne
<1>5. PICK s \in S : s <= n /\ Min(D) = n - s
  BY <1>1, <1>4
<1>6. ASSUME NEW t \in S, t > s PROVE n < t
  <2>1. SUFFICES ASSUME t <= n PROVE FALSE
    OBVIOUS
  <2>2. n - s <= n - t
    BY <1>3, <1>4, <1>5, <2>1
  <2> QED BY <2>2, <1>5, <1>6
<1> QED BY <1>5, <1>6

\* A symbol's chunk ends where the next one begins, or sooner.
LEMMA CutOffIs ==
  ASSUME NEW lines, NEW syms, NEW s \in Nat, EndOf(syms, s, lines) \in Nat
  PROVE  /\ CutOff(syms, s, lines) \in Nat /\ CutOff(syms, s, lines) <= EndOf(syms, s, lines)
         /\ \A n \in Nat : n <= CutOff(syms, s, lines) <=> n <= EndOf(syms, s, lines) /\ n < s + MaxSymbol
<1> DEFINE e == EndOf(syms, s, lines)
           k == CutOff(syms, s, lines)
<1>1. e \in Nat /\ s + MaxSymbol - 1 \in Nat /\ MaxSymbol \in Nat
  BY RepoIndexAssumption
<1>2. k = Min({e, s + MaxSymbol - 1})
  BY DEF CutOff
<1> HIDE DEF e, k
<1>3. k \in {e, s + MaxSymbol - 1} /\ k <= e /\ k <= s + MaxSymbol - 1
  BY <1>1, <1>2, LeastOne
<1> QED BY <1>1, <1>3 DEF e, k

\* The last of the symbols up to a line is the one it is too far from, or not.
LEMMA TooFarIs ==
  ASSUME NEW syms \in SUBSET Nat, NEW line \in Nat, NEW s \in syms, s <= line, \A t \in syms : t > s => line < t
  PROVE  TooFar(syms, line) <=> ~(line < s + MaxSymbol)
<1> DEFINE S == {t \in syms : t <= line}
<1>1. s \in S /\ S \subseteq Nat
  OBVIOUS
<1>2. \A t \in S : s >= t
  OBVIOUS
<1>3. Max(S) = s
  <2> HIDE DEF S
  <2>1. \A x \in S : (\A t \in S : x >= t) => x = s
    BY <1>1, <1>2
  <2>2. Max(S) = CHOOSE x \in S : \A t \in S : x >= t
    BY DEF Max
  <2>3. \E x \in S : \A t \in S : x >= t
    BY <1>1, <1>2
  <2> QED BY <2>1, <2>2, <2>3
<1>4. TooFar(syms, line) <=> line >= s + MaxSymbol
  BY <1>3 DEF TooFar
<1> QED BY <1>4, RepoIndexAssumption

\* Every line from the first symbol on is in exactly one chunk, or too far from
\* its symbol and in none.
LEMMA LinesAreCut ==
  ASSUME NEW f, NEW lines \in Seq({"sym", "text"}), NEW syms \in SUBSET (1..Len(lines)), syms # {},
         NEW line \in Min(syms)..Len(lines)
  PROVE  /\ TooFar(syms, line) => ChunksWith(ChunkBySymbols(f, syms, lines), line) = {}
         /\ ~TooFar(syms, line) => \E d : ChunksWith(ChunkBySymbols(f, syms, lines), line) = {d}
<1>1. syms \subseteq Nat /\ Len(lines) \in Nat
  OBVIOUS
<1>2. Min(syms) \in syms /\ \A y \in syms : Min(syms) <= y
  BY <1>1, LeastOne
<1>3. line \in Nat /\ Min(syms) <= line /\ line <= Len(lines)
  <2>1. Min(syms) \in Nat
    BY <1>1, <1>2, Zenon
  <2> QED BY <2>1, <1>1
<1>4. PICK s \in syms : s <= line /\ \A t \in syms : t > s => line < t
  BY <1>1, <1>2, <1>3, LastBefore
<1>5. \A u \in syms : /\ u \in Nat /\ EndOf(syms, u, lines) \in u..Len(lines) /\ EndOf(syms, u, lines) \in Nat
                      /\ \A t \in syms : t > u => EndOf(syms, u, lines) < t
  <2>1. ASSUME NEW u \in syms
        PROVE  /\ u \in Nat /\ EndOf(syms, u, lines) \in u..Len(lines)
               /\ \A t \in syms : t > u => EndOf(syms, u, lines) < t
    BY <1>1, EndIs
  <2> QED BY <2>1, <1>1
<1>6. line <= EndOf(syms, s, lines) /\ s <= EndOf(syms, s, lines)
  <2>1. line \in s..Len(lines)
    BY <1>1, <1>3, <1>4
  <2>2. line <= EndOf(syms, s, lines)
    BY <2>1, <1>4, EndIs
  <2> QED BY <2>2, <1>5
<1>7. \A u \in syms : line <= CutOff(syms, u, lines) <=> line <= EndOf(syms, u, lines) /\ line < u + MaxSymbol
  BY <1>3, <1>5, CutOffIs
<1> DEFINE d == <<f, s, CutOff(syms, s, lines)>>
           all == ChunkBySymbols(f, syms, lines)
<1>8. ASSUME NEW c \in ChunksWith(all, line) PROVE c = d /\ line < s + MaxSymbol
  <2>1. PICK u \in syms : c = <<f, u, CutOff(syms, u, lines)>> /\ u <= line /\ line <= CutOff(syms, u, lines)
    <3>1. c \in all /\ c[2] <= line /\ line <= c[3]
      BY DEF ChunksWith
    <3>2. PICK u \in syms : c = <<f, u, CutOff(syms, u, lines)>>
      BY <3>1 DEF ChunkBySymbols
    <3> QED BY <3>1, <3>2
  <2>2. line <= EndOf(syms, u, lines) /\ line < u + MaxSymbol
    BY <2>1, <1>7
  <2>3. ~(u > s)
    BY <2>1, <1>1, <1>3, <1>4
  <2>4. ~(s > u)
    BY <2>2, <1>1, <1>3, <1>4, <1>5
  <2>5. u = s
    BY <2>3, <2>4, <1>1
  <2> QED BY <2>1, <2>2, <2>5
<1>9. TooFar(syms, line) <=> ~(line < s + MaxSymbol)
  BY <1>1, <1>3, <1>4, TooFarIs
<1>10. line < s + MaxSymbol => d \in ChunksWith(all, line)
  <2>1. d \in all /\ d[2] = s /\ d[3] = CutOff(syms, s, lines)
    BY <1>6 DEF ChunkBySymbols
  <2> HIDE DEF d, all
  <2> QED BY <2>1, <1>4, <1>6, <1>7 DEF ChunksWith
<1> HIDE DEF d, all
<1>11. CASE TooFar(syms, line)
  BY <1>8, <1>9, <1>11 DEF all
<1>12. CASE ~TooFar(syms, line)
  <2>1. ChunksWith(all, line) = {d}
    BY <1>8, <1>9, <1>10, <1>12
  <2> QED BY <2>1, <1>12 DEF all
<1> QED BY <1>11, <1>12

\* The types of the source build.
SourceTypes ==
  /\ src = [pc |-> src.pc, todo |-> src.todo, file |-> src.file, text |-> src.text, chunks |-> src.chunks]
  /\ src.pc \in {"waiting", "files", "chunk", "panicked"}
  /\ src.todo \subseteq RepoFiles
  /\ src.pc = "chunk" => src.file \in RepoFiles

\* A file that nobody saved or removed is everywhere of its first text.
Untouched ==
  \A f \in RepoFiles \ moved :
    /\ disk[f] # NoFile
    /\ index[f] # NoFile => index[f].text = disk[f].text
    /\ \A u \in Workers : up[u].pc = "stat" /\ up[u].file = f => up[u].text = disk[f].text
    /\ src.pc = "chunk" /\ src.file = f => src.text = disk[f].text

\* Before any change, the chunks of each file that was cut are those of its
\* symbols or of no symbol, and the file is not to be cut again.
Undisturbed ==
  /\ src.pc = "waiting" => src.chunks = {}
  /\ src.pc = "chunk" => src.file \notin src.todo
  /\ changes = 0 =>
       /\ moved = {}
       /\ \A c \in src.chunks :
            /\ c[1] \in RepoFiles \ src.todo /\ (src.pc = "chunk" => c[1] # src.file)
            /\ Cut({d \in src.chunks : d[1] = c[1]}, c[1])

PanicIsMoved == src.pc = "panicked" => src.file \in moved

SourcesInv == SourceTypes /\ Untouched /\ Undisturbed /\ PanicIsMoved

\* The first state of the source build.
LEMMA SourcesStart == IndexInit => SourcesInv
<1> SUFFICES ASSUME IndexInit PROVE SourcesInv
  OBVIOUS
<1>1. /\ disk \in [RepoFiles -> {[text |-> t, mtime |-> 0] : t \in FileTexts}]
      /\ index = [f \in RepoFiles |-> NoFile] /\ ready = FALSE
      /\ up = [u \in Workers |-> Idle]
      /\ src = [pc |-> "waiting", todo |-> {}, file |-> NoFile, text |-> <<>>, chunks |-> {}]
      /\ upToDate = {} /\ raced = {} /\ moved = {}
  BY DEF IndexInit
<1>2. \A f \in RepoFiles : disk[f] # NoFile /\ index[f] = NoFile
  <2>1. \A f \in RepoFiles : \E t \in FileTexts : disk[f] = [text |-> t, mtime |-> 0]
    BY <1>1
  <2> QED BY <2>1, <1>1, EntriesAreThere
<1>3. \A u \in Workers : up[u].pc = "idle"
  BY <1>1 DEF Idle
<1>4. src.pc = "waiting" /\ src.todo = {} /\ src.chunks = {}
  BY <1>1
<1>5. SourceTypes
  BY <1>1 DEF SourceTypes
<1> QED BY <1>1, <1>2, <1>3, <1>4, <1>5 DEF SourcesInv, Untouched, Undisturbed, PanicIsMoved

\* What the invariants say is what the run checks.
LEMMA SourcesAreCut == IndexInv /\ SourcesInv => SourcesFollowIndex
<1> SUFFICES ASSUME IndexInv, SourcesInv PROVE SourcesFollowIndex
  OBVIOUS
<1>1. src.pc = "panicked" => src.file \in moved
  BY DEF SourcesInv, PanicIsMoved
<1>2. ASSUME changes = 0, NEW c \in src.chunks
      PROVE  LET text_1 == disk[c[1]].text
                 mine_1 == {d \in src.chunks : d[1] = c[1]}
             IN \/ mine_1 = {<<c[1], 1, Len(text_1)>>}
                \/ \A line \in Min(SymbolLines(text_1))..Len(text_1) :
                     Cardinality(ChunksWith(mine_1, line)) = IF TooFar(SymbolLines(text_1), line) THEN 0 ELSE 1
  <2> DEFINE f == c[1]
             lines == disk[f].text
             syms == SymbolLines(lines)
             mine == {d \in src.chunks : d[1] = f}
  <2>1. moved = {} /\ f \in RepoFiles /\ Cut(mine, f)
    BY <1>2 DEF SourcesInv, Undisturbed
  <2>2. mine = {<<f, 1, Len(lines)>>} \/ (syms # {} /\ mine = ChunkBySymbols(f, syms, lines))
    BY <2>1, Zenon DEF Cut, SymbolsOf
  <2>3. lines \in Seq({"sym", "text"})
    <3>1. disk[f] # NoFile
      BY <2>1 DEF SourcesInv, Untouched
    <3> QED BY <3>1, <2>1, RepoIndexAssumption DEF IndexInv, IndexTypes, Entries
  <2>4. syms \in SUBSET (1..Len(lines))
    BY DEF SymbolLines
  <2>5. Cardinality({}) = 0 /\ \A d : Cardinality({d}) = 1
    BY FS_EmptySet, FS_Singleton
  <2>6. ASSUME mine # {<<f, 1, Len(lines)>>}, NEW line \in Min(syms)..Len(lines)
        PROVE  Cardinality(ChunksWith(mine, line)) = IF TooFar(syms, line) THEN 0 ELSE 1
    <3> HIDE DEF mine, syms, lines, f
    <3>1. syms # {} /\ mine = ChunkBySymbols(f, syms, lines)
      BY <2>2, <2>6
    <3>2. /\ TooFar(syms, line) => ChunksWith(ChunkBySymbols(f, syms, lines), line) = {}
          /\ ~TooFar(syms, line) => \E d : ChunksWith(ChunkBySymbols(f, syms, lines), line) = {d}
      BY <3>1, <2>3, <2>4, <2>6, LinesAreCut
    <3> QED BY <3>1, <3>2, <2>5
  <2> QED BY <2>6, Zenon
<1> QED BY <1>1, <1>2, Zenon DEF SourcesFollowIndex

\* How a file should be cut changes with the files alone.
LEMMA CutStays == UNCHANGED disk => \A chunks, f : Cut(chunks, f)' = Cut(chunks, f)
  BY DEF Cut, SymbolsOf

\* A change of the user touches one file, if any, and ends the quiet.
LEMMA ChangesTouch ==
  ASSUME IndexInv, SourcesInv, Changed, UNCHANGED <<index, up, src>>, moved \subseteq moved',
         \A f \in RepoFiles \ moved' : disk'[f] = disk[f]
  PROVE  SourcesInv'
<1>1. changes \in Nat /\ changes' = changes + 1
  BY DEF IndexInv, IndexTypes, Changed
<1>2. SourceTypes'
  BY Zenon DEF SourcesInv, SourceTypes
<1>3. Untouched'
  <2>1. \A f \in RepoFiles \ moved' : f \in RepoFiles \ moved /\ disk'[f] = disk[f]
    OBVIOUS
  <2> QED BY <2>1 DEF SourcesInv, Untouched
<1>4. Undisturbed'
  BY <1>1 DEF SourcesInv, Undisturbed
<1>5. PanicIsMoved'
  BY DEF SourcesInv, PanicIsMoved
<1> QED BY <1>2, <1>3, <1>4, <1>5 DEF SourcesInv

\* An update leaves the source build alone: what is left to see is what it puts
\* into the index and what it has read.
LEMMA UpdatesTouch ==
  ASSUME SourcesInv, UNCHANGED <<disk, src, changes, moved>>, Untouched'
  PROVE  SourcesInv'
<1>1. SourceTypes' /\ PanicIsMoved'
  BY Zenon DEF SourcesInv, SourceTypes, PanicIsMoved
<1>2. Undisturbed'
  <2>1. \A chunks, f : Cut(chunks, f)' = Cut(chunks, f)
    BY CutStays
  <2> QED BY <2>1 DEF SourcesInv, Undisturbed
<1> QED BY <1>1, <1>2 DEF SourcesInv

\* What an update begins with and what it ends with.
LEMMA BeginTouches == ASSUME IndexInv, SourcesInv, NEW u \in Workers, BeginUpdate(u) PROVE SourcesInv'
<1>1. /\ UNCHANGED <<disk, ignoreFile, ready, src, changes, settled, raced, moved>>
      /\ up' = [up EXCEPT ![u] = [Idle EXCEPT !.pc = "files", !.todo = DiscoverFiles(LoadRules)]]
      /\ index' = [f \in RepoFiles |-> IF f \in DiscoverFiles(LoadRules) THEN index[f] ELSE NoFile]
      /\ upToDate' = IF \A v \in Workers \ upToDate : up[v].pc = "idle" THEN upToDate \cup {u} ELSE upToDate
  BY Zenon DEF BeginUpdate
<1>2. up'[u].pc = "files" /\ \A v \in Workers \ {u} : up'[v] = up[v]
  BY <1>1, OthersStay DEF IndexInv, Idle
<1>3. \A f \in RepoFiles : index'[f] # NoFile => index'[f] = index[f]
  BY <1>1
<1>4. Untouched'
  <2> SUFFICES ASSUME NEW f \in RepoFiles \ moved
               PROVE  /\ disk[f] # NoFile
                      /\ index'[f] # NoFile => index'[f].text = disk[f].text
                      /\ \A v \in Workers : up'[v].pc = "stat" /\ up'[v].file = f => up'[v].text = disk[f].text
                      /\ src.pc = "chunk" /\ src.file = f => src.text = disk[f].text
    BY <1>1 DEF Untouched
  <2>1. \A v \in Workers : up'[v].pc = "stat" => up'[v] = up[v]
    BY <1>2
  <2> QED BY <2>1, <1>3 DEF SourcesInv, Untouched
<1> QED BY <1>1, <1>4, UpdatesTouch

\* A look at the next file, and the reading of it.
LEMMA LooksTouch ==
  ASSUME IndexInv, SourcesInv, NEW u \in Workers, ReadOne(u) \/ \E f \in RepoFiles : Next1(u, f)
  PROVE  SourcesInv'
<1>1. UNCHANGED <<disk, ignoreFile, index, ready, src, changes, moved>> /\ up[u].pc # "idle"
  BY DEF ReadOne, Next1
<1>2. DOMAIN up = Workers
  BY DEF IndexInv, IndexTypes
<1>3. WorkerOK(u)
  BY TypesAre DEF IndexInv
<1>4. /\ up'[u].pc = "stat" => up'[u].text = disk[up'[u].file].text
      /\ \A v \in Workers \ {u} : up'[v] = up[v]
  <2>1. CASE ReadOne(u)
    <3>1. CASE up' = [up EXCEPT ![u].pc = "files"]
      BY <3>1, <1>2, <1>3 DEF WorkerOK
    <3>2. CASE up' = [up EXCEPT ![u].pc = "stat", ![u].text = disk[up[u].file].text]
      BY <3>2, <1>2, <1>3 DEF WorkerOK
    <3> QED BY <2>1, <3>1, <3>2 DEF ReadOne
  <2>2. ASSUME NEW f \in RepoFiles, Next1(u, f)
        PROVE  up'[u].pc # "stat" /\ \A v \in Workers \ {u} : up'[v] = up[v]
    BY <2>2, <1>2, <1>3 DEF Next1, WorkerOK
  <2> QED BY <2>1, <2>2
<1>5. Untouched'
  <2> SUFFICES ASSUME NEW f \in RepoFiles \ moved
               PROVE  /\ disk[f] # NoFile
                      /\ index[f] # NoFile => index[f].text = disk[f].text
                      /\ \A v \in Workers : up'[v].pc = "stat" /\ up'[v].file = f => up'[v].text = disk[f].text
                      /\ src.pc = "chunk" /\ src.file = f => src.text = disk[f].text
    BY <1>1 DEF Untouched
  <2> QED BY <1>4 DEF SourcesInv, Untouched
<1> QED BY <1>1, <1>5, UpdatesTouch

\* What an update stores is what it has read.
LEMMA StatTouches == ASSUME IndexInv, SourcesInv, NEW u \in Workers, StatAndStore(u) PROVE SourcesInv'
<1>1. UNCHANGED <<disk, ignoreFile, ready, src, changes, moved>> /\ up[u].pc = "stat"
  BY DEF StatAndStore
<1>2. DOMAIN up = Workers /\ WorkerOK(u) /\ index \in [RepoFiles -> {NoFile} \cup Entries]
  BY TypesAre DEF IndexInv
<1>3. /\ up'[u].pc = "files"
      /\ \A v \in Workers \ {u} : up'[v] = up[v]
  BY <1>2 DEF StatAndStore, WorkerOK
<1>4. PICK m : index' = [index EXCEPT ![up[u].file] = [text |-> up[u].text, mtime |-> m]]
  BY DEF StatAndStore
<1>5. \A f \in RepoFiles : index'[f] = index[f] \/ (f = up[u].file /\ index'[f].text = up[u].text)
  BY <1>2, <1>4
<1>6. Untouched'
  <2> SUFFICES ASSUME NEW f \in RepoFiles \ moved
               PROVE  /\ disk[f] # NoFile
                      /\ index'[f] # NoFile => index'[f].text = disk[f].text
                      /\ \A v \in Workers : up'[v].pc = "stat" /\ up'[v].file = f => up'[v].text = disk[f].text
                      /\ src.pc = "chunk" /\ src.file = f => src.text = disk[f].text
    BY <1>1 DEF Untouched
  <2> QED BY <1>1, <1>3, <1>5 DEF SourcesInv, Untouched
<1> QED BY <1>1, <1>6, UpdatesTouch

\* An update that ends has settled the index, when nothing was changed.
LEMMA FinishTouches == ASSUME IndexInv, SourcesInv, NEW u \in Workers, Finish(u) PROVE SourcesInv'
<1>1. /\ UNCHANGED <<disk, ignoreFile, index, src, changes, raced, moved>>
      /\ up[u].pc = "files" /\ ready' = TRUE /\ up' = [up EXCEPT ![u] = Idle]
      /\ settled' = IF u \in upToDate /\ \A v \in Workers \ upToDate : up[v].pc = "idle" THEN TRUE ELSE settled
      /\ upToDate' = upToDate \ {u}
  BY Zenon DEF Finish
<1>2. up'[u].pc = "idle" /\ \A v \in Workers \ {u} : up'[v] = up[v]
  BY <1>1, OthersStay DEF IndexInv, Idle
<1>3. Untouched'
  <2> SUFFICES ASSUME NEW f \in RepoFiles \ moved
               PROVE  /\ disk[f] # NoFile
                      /\ index[f] # NoFile => index[f].text = disk[f].text
                      /\ \A v \in Workers : up'[v].pc = "stat" /\ up'[v].file = f => up'[v].text = disk[f].text
                      /\ src.pc = "chunk" /\ src.file = f => src.text = disk[f].text
    BY <1>1 DEF Untouched
  <2> QED BY <1>2 DEF SourcesInv, Untouched
<1> QED BY <1>1, <1>3, UpdatesTouch

\* The source build: it begins with what belongs in the index, and reads and
\* cuts one file after the other.
LEMMA StartTouches == ASSUME IndexInv, SourcesInv, StartSources PROVE SourcesInv'
<1>1. /\ src.pc = "waiting" /\ src' = [src EXCEPT !.pc = "files", !.todo = Indexed]
      /\ UNCHANGED <<disk, index, up, changes, moved>>
  <2>1. DiscoverFiles(LoadRules) = Indexed
    BY LoadsRulesNow DEF IndexInv, Indexed
  <2> QED BY <2>1, Zenon DEF StartSources
<1>2. SourceTypes /\ Undisturbed
  BY DEF SourcesInv
<1>3. /\ src' = [pc |-> src'.pc, todo |-> src'.todo, file |-> src'.file, text |-> src'.text, chunks |-> src'.chunks]
      /\ src'.pc = "files" /\ src'.todo = Indexed /\ src'.chunks = src.chunks
  BY <1>1, <1>2 DEF SourceTypes
<1>4. SourceTypes'
  BY <1>3, IndexedIsThere DEF SourceTypes
<1>5. Untouched'
  BY <1>1, <1>3 DEF SourcesInv, Untouched
<1>6. Undisturbed'
  BY <1>1, <1>2, <1>3 DEF Undisturbed
<1> QED BY <1>3, <1>4, <1>5, <1>6 DEF SourcesInv, PanicIsMoved

\* A file is read as it is, or left out.
LEMMA ReadTouches == ASSUME IndexInv, SourcesInv, NEW f \in RepoFiles, ReadSource(f) PROVE SourcesInv'
<1>1. src.pc = "files" /\ f \in src.todo /\ UNCHANGED <<disk, index, up, changes, moved>>
  BY DEF ReadSource
<1>2. SourceTypes /\ Undisturbed
  BY DEF SourcesInv
<1>3. /\ src' = [pc |-> src'.pc, todo |-> src'.todo, file |-> src'.file, text |-> src'.text, chunks |-> src'.chunks]
      /\ src'.todo = src.todo \ {f} /\ src'.chunks = src.chunks
      /\ src'.pc = "files" \/ (src'.pc = "chunk" /\ src'.file = f /\ src'.text = disk[f].text)
  <2>1. CASE src' = [src EXCEPT !.todo = @ \ {f}]
    BY <2>1, <1>1, <1>2 DEF SourceTypes
  <2>2. CASE src' = [src EXCEPT !.todo = @ \ {f}, !.pc = "chunk", !.file = f, !.text = disk[f].text]
    BY <2>2, <1>1, <1>2 DEF SourceTypes
  <2> QED BY <2>1, <2>2 DEF ReadSource
<1>4. SourceTypes'
  BY <1>2, <1>3 DEF SourceTypes
<1>5. Untouched'
  BY <1>1, <1>3 DEF SourcesInv, Untouched
<1>6. Undisturbed'
  <2>1. \A chunks, g : Cut(chunks, g)' = Cut(chunks, g)
    BY <1>1, CutStays
  <2>2. \A c \in src.chunks : changes = 0 => c[1] \in RepoFiles \ src.todo /\ Cut({d \in src.chunks : d[1] = c[1]}, c[1])
    BY <1>2 DEF Undisturbed
  <2>3. \A c \in src.chunks : changes = 0 => c[1] # f
    BY <2>2, <1>1
  <2> QED BY <2>1, <2>2, <2>3, <1>1, <1>2, <1>3 DEF Undisturbed
<1> QED BY <1>3, <1>4, <1>5, <1>6 DEF SourcesInv, PanicIsMoved

\* A file is cut along the symbols of its entry, which are its own unless
\* somebody touched it, or along none.
LEMMA ChunkTouches == ASSUME IndexInv, SourcesInv, ChunkSource PROVE SourcesInv'
<1>1. src.pc = "chunk" /\ UNCHANGED <<disk, index, up, changes, moved>>
  BY DEF ChunkSource
<1>2. SourceTypes /\ Untouched /\ Undisturbed
  BY DEF SourcesInv
<1>3. PICK f \in RepoFiles : f = src.file
  BY <1>1, <1>2 DEF SourceTypes
<1>4. CASE OutOfRange(SymbolsFor(f), src.text)
  <2>1. src' = [src EXCEPT !.pc = "panicked"]
    BY <1>3, <1>4 DEF ChunkSource
  <2>2. /\ src' = [pc |-> src'.pc, todo |-> src'.todo, file |-> src'.file, text |-> src'.text, chunks |-> src'.chunks]
        /\ src'.pc = "panicked" /\ src'.file = f /\ src'.todo = src.todo /\ src'.chunks = src.chunks
    BY <2>1, <1>2, <1>3 DEF SourceTypes
  <2>3. f \in moved
    <3>1. SUFFICES ASSUME f \notin moved PROVE FALSE
      OBVIOUS
    <3>2. disk[f] # NoFile /\ src.text = disk[f].text /\ (index[f] # NoFile => index[f].text = disk[f].text)
      BY <3>1, <1>1, <1>2, <1>3 DEF Untouched
    <3>3. disk[f].text \in Seq({"sym", "text"})
      BY <3>2, RepoIndexAssumption DEF IndexInv, IndexTypes, Entries
    <3>4. SymbolsFor(f) \subseteq 1..Len(src.text)
      BY <3>2 DEF SymbolsFor, SymbolLines
    <3>5. PICK s \in SymbolsFor(f) : s - 1 > EndOf(SymbolsFor(f), s, src.text)
      BY <1>4 DEF OutOfRange
    <3>6. EndOf(SymbolsFor(f), s, src.text) \in s..Len(src.text) /\ s \in Nat /\ Len(src.text) \in Nat
      <4> DEFINE lines == src.text
                 syms == SymbolsFor(f)
      <4>1. lines \in Seq({"sym", "text"}) /\ syms \in SUBSET (1..Len(lines)) /\ s \in syms
        BY <3>2, <3>3, <3>4
      <4> HIDE DEF lines, syms
      <4>2. EndOf(syms, s, lines) \in s..Len(lines)
        BY <4>1, EndIs
      <4>3. s \in Nat /\ Len(lines) \in Nat
        BY <4>1
      <4> QED BY <4>2, <4>3 DEF lines, syms
    <3> QED BY <3>5, <3>6
  <2>4. SourceTypes' /\ PanicIsMoved'
    BY <2>2, <2>3, <1>1, <1>2 DEF SourceTypes, PanicIsMoved
  <2>5. Untouched'
    BY <2>2, <1>1, <1>2 DEF Untouched
  <2>6. Undisturbed'
    <3>1. changes # 0
      BY <2>3, <1>2 DEF Undisturbed
    <3> QED BY <3>1, <2>2, <1>1 DEF Undisturbed
  <2> QED BY <2>4, <2>5, <2>6 DEF SourcesInv
<1>5. CASE ~OutOfRange(SymbolsFor(f), src.text)
  <2> DEFINE new == IF SymbolsFor(f) = {} THEN {<<f, 1, Len(src.text)>>} ELSE ChunkBySymbols(f, SymbolsFor(f), src.text)
  <2>1. src' = [src EXCEPT !.pc = "files", !.chunks = @ \cup new]
    BY <1>3, <1>5 DEF ChunkSource
  <2>2. \A d \in new : d[1] = f
    BY DEF ChunkBySymbols
  <2>3. changes = 0 => Cut(new, f)
    <3> SUFFICES ASSUME changes = 0 PROVE Cut(new, f)
      OBVIOUS
    <3>1. src.text = disk[f].text /\ (index[f] # NoFile => index[f].text = disk[f].text)
      BY <1>1, <1>2, <1>3 DEF Untouched, Undisturbed
    <3>2. SymbolsFor(f) = {} \/ SymbolsFor(f) = SymbolsOf(f)
      BY <3>1 DEF SymbolsFor, SymbolsOf
    <3> QED BY <3>1, <3>2 DEF Cut
  <2> HIDE DEF new
  <2>4. /\ src' = [pc |-> src'.pc, todo |-> src'.todo, file |-> src'.file, text |-> src'.text, chunks |-> src'.chunks]
        /\ src'.pc = "files" /\ src'.todo = src.todo /\ src'.chunks = src.chunks \cup new
    BY <2>1, <1>2 DEF SourceTypes
  <2>5. SourceTypes' /\ PanicIsMoved'
    BY <2>4, <1>2 DEF SourceTypes, PanicIsMoved
  <2>6. Untouched'
    BY <2>4, <1>1, <1>2 DEF Untouched
  <2>7. ASSUME changes = 0, NEW c \in src'.chunks
        PROVE  c[1] \in RepoFiles \ src.todo /\ Cut({d \in src'.chunks : d[1] = c[1]}, c[1])
    <3>2. \A d \in src.chunks : d[1] # f
      BY <2>7, <1>1, <1>2, <1>3 DEF Undisturbed
    <3>3. CASE c \in new
      <4>1. {d \in src'.chunks : d[1] = c[1]} = new /\ c[1] = f
        BY <3>2, <3>3, <2>2, <2>4
      <4>2. f \notin src.todo
        BY <1>1, <1>2, <1>3 DEF Undisturbed
      <4> QED BY <4>1, <4>2, <2>3, <2>7
    <3>4. CASE c \in src.chunks
      <4>1. {d \in src'.chunks : d[1] = c[1]} = {d \in src.chunks : d[1] = c[1]}
        BY <3>2, <3>4, <2>2, <2>4
      <4> QED BY <4>1, <3>4, <2>7, <1>2 DEF Undisturbed
    <3> QED BY <3>3, <3>4, <2>4
  <2>8. Undisturbed'
    BY <2>4, <2>7, <1>1, <1>2 DEF Undisturbed, Cut, SymbolsOf
  <2> QED BY <2>5, <2>6, <2>8 DEF SourcesInv
<1> QED BY <1>4, <1>5

\* Every step keeps the invariant of the source build.
LEMMA SourcesStep == IndexInv /\ SourcesInv /\ [IndexNext]_indexVars => SourcesInv'
<1> SUFFICES ASSUME IndexInv, SourcesInv, [IndexNext]_indexVars PROVE SourcesInv'
  OBVIOUS
<1>1. CASE UNCHANGED indexVars
  <2>1. UNCHANGED <<disk, ignoreFile, src, changes, raced, moved, index, up, ready, settled, upToDate>>
    BY <1>1 DEF indexVars
  <2>2. Untouched'
    BY <2>1, Zenon DEF SourcesInv, Untouched
  <2> QED BY <2>1, <2>2, UpdatesTouch
<1>2. ASSUME NEW f \in RepoFiles, Save(f) \/ Delete(f) PROVE SourcesInv'
  <2>1. Changed /\ UNCHANGED <<index, up, src>> /\ moved' = moved \cup {f}
    BY <1>2 DEF Save, Delete
  <2>2. \A g \in RepoFiles \ {f} : disk'[g] = disk[g]
    BY <1>2 DEF Save, Delete, IndexInv, IndexTypes
  <2> QED BY <2>1, <2>2, ChangesTouch
<1>3. CASE EditIgnore
  BY <1>3, ChangesTouch DEF EditIgnore
<1>4. ASSUME NEW u \in Workers,
             BeginUpdate(u) \/ ReadOne(u) \/ StatAndStore(u) \/ Finish(u) \/ \E f \in RepoFiles : Next1(u, f)
      PROVE  SourcesInv'
  BY <1>4, BeginTouches, LooksTouch, StatTouches, FinishTouches
<1>5. ASSUME NEW f \in RepoFiles, ReadSource(f) PROVE SourcesInv'
  BY <1>5, ReadTouches
<1> QED BY <1>1, <1>2, <1>3, <1>4, <1>5, StartTouches, ChunkTouches, Zenon DEF IndexNext

-----------------------------------------------------------------------------
(* Plugins and the export of a session (Exports) *)

\* The whole of a sequence.
LEMMA WholeOf == ASSUME NEW S, NEW s \in Seq(S) PROVE SubSeq(s, 1, Len(s)) = s
<1> DEFINE t == SubSeq(s, 1, Len(s))
<1>1. Len(s) \in 0..Len(s)
  OBVIOUS
<1>2. t \in Seq(S) /\ Len(t) = Len(s) /\ \A k \in 1..Len(s) : t[k] = s[k]
  BY <1>1, HeadFacts
<1> HIDE DEF t
<1>3. t = s
  BY <1>2, SeqEqual
<1> QED BY <1>3 DEF t

\* A part of a sequence of messages, without a gap.
Part(r, s) ==
  /\ r \in Seq(Nat) /\ s \in Seq(Nat)
  /\ \E lo \in Nat : lo + Len(r) <= Len(s) /\ \A i \in 1..Len(r) : r[i] = s[lo + i]

\* The elements of a sequence and of two that follow each other.
LEMMA Elements == ASSUME NEW s \in Seq(Nat) PROVE Range(s) = {s[i] : i \in 1..Len(s)} /\ Range(s) \subseteq Nat
  BY DEF Range
LEMMA JoinFacts ==
  ASSUME NEW s \in Seq(Nat), NEW t \in Seq(Nat)
  PROVE  /\ s \o t \in Seq(Nat) /\ Len(s \o t) = Len(s) + Len(t)
         /\ \A i \in 1..Len(s) : (s \o t)[i] = s[i]
         /\ \A i \in 1..Len(t) : (s \o t)[Len(s) + i] = t[i]
         /\ \A i \in 1..Len(s \o t) : i \in 1..Len(s) \/ (i > Len(s) /\ i - Len(s) \in 1..Len(t) /\ (s \o t)[i] = t[i - Len(s)])
         /\ Range(s \o t) = Range(s) \cup Range(t)
<1> DEFINE u == s \o t
           n == Len(s)
<1>1. /\ u \in Seq(Nat) /\ Len(u) = n + Len(t) /\ n \in Nat /\ Len(t) \in Nat
      /\ \A i \in 1..n : u[i] = s[i]
      /\ \A i \in 1..Len(t) : u[n + i] = t[i]
  OBVIOUS
<1> HIDE DEF u
<1>2. \A i \in 1..Len(u) : i \in 1..n \/ (i > n /\ i - n \in 1..Len(t) /\ u[i] = t[i - n])
  <2> SUFFICES ASSUME NEW i \in 1..Len(u), i \notin 1..n PROVE i > n /\ i - n \in 1..Len(t) /\ u[i] = t[i - n]
    OBVIOUS
  <2>1. i > n /\ i - n \in 1..Len(t) /\ n + (i - n) = i
    BY <1>1
  <2> QED BY <2>1, <1>1
<1>3. Range(u) = {u[i] : i \in 1..Len(u)} /\ Range(s) = {s[i] : i \in 1..n} /\ Range(t) = {t[i] : i \in 1..Len(t)}
  BY <1>1, Elements
<1>4. Range(u) = Range(s) \cup Range(t)
  <2>1. \A i \in 1..Len(u) : u[i] \in Range(s) \cup Range(t)
    BY <1>1, <1>2, <1>3
  <2>2. \A i \in 1..n : i \in 1..Len(u)
    BY <1>1
  <2>3. \A i \in 1..Len(t) : n + i \in 1..Len(u)
    BY <1>1
  <2>4. \A i \in 1..n : s[i] \in Range(u)
    BY <1>1, <1>3, <2>2
  <2>5. \A i \in 1..Len(t) : t[i] \in Range(u)
    BY <1>1, <1>3, <2>3
  <2> QED BY <1>3, <2>1, <2>4, <2>5
<1> QED BY <1>1, <1>2, <1>4 DEF u

\* The same of a list that is such a concatenation.
JoinIs(w, s, t) ==
  /\ w \in Seq(Nat) /\ Len(w) = Len(s) + Len(t)
  /\ \A i \in 1..Len(s) : w[i] = s[i]
  /\ \A i \in 1..Len(w) : i \in 1..Len(s) \/ (i > Len(s) /\ i - Len(s) \in 1..Len(t) /\ w[i] = t[i - Len(s)])
  /\ Range(w) = Range(s) \cup Range(t)
LEMMA JoinOf == \A s, t \in Seq(Nat) : JoinIs(s \o t, s, t)
<1> SUFFICES ASSUME NEW s \in Seq(Nat), NEW t \in Seq(Nat) PROVE JoinIs(s \o t, s, t)
  OBVIOUS
<1> QED BY JoinFacts, Zenon DEF JoinIs

\* Parts of parts, and what is at the ends.
LEMMA PartFacts ==
  ASSUME NEW r, NEW s, Part(r, s)
  PROVE  r \in Seq(Nat) /\ s \in Seq(Nat) /\ Range(r) \subseteq Range(s)
<1>1. PICK lo \in Nat : lo + Len(r) <= Len(s) /\ \A i \in 1..Len(r) : r[i] = s[lo + i]
  BY DEF Part
<1>2. r \in Seq(Nat) /\ s \in Seq(Nat) /\ Len(r) \in Nat /\ Len(s) \in Nat
  BY DEF Part
<1>3. \A i \in 1..Len(r) : lo + i \in 1..Len(s)
  BY <1>1, <1>2
<1>4. \A i \in 1..Len(r) : r[i] \in Range(s)
  BY <1>1, <1>2, <1>3, Elements
<1>5. Range(r) = {r[i] : i \in 1..Len(r)}
  BY <1>2, Elements
<1> QED BY <1>2, <1>4, <1>5
LEMMA PartOfPart == ASSUME NEW q, NEW r, NEW s, Part(q, r), Part(r, s) PROVE Part(q, s)
<1>1. PICK a \in Nat : a + Len(q) <= Len(r) /\ \A i \in 1..Len(q) : q[i] = r[a + i]
  BY DEF Part
<1>2. PICK b \in Nat : b + Len(r) <= Len(s) /\ \A i \in 1..Len(r) : r[i] = s[b + i]
  BY DEF Part
<1>3. q \in Seq(Nat) /\ r \in Seq(Nat) /\ s \in Seq(Nat) /\ Len(q) \in Nat /\ Len(r) \in Nat /\ Len(s) \in Nat
  BY DEF Part
<1>4. \A i \in 1..Len(q) : a + i \in 1..Len(r) /\ b + (a + i) = (b + a) + i
  BY <1>1, <1>3
<1>5. b + a \in Nat /\ (b + a) + Len(q) <= Len(s) /\ \A i \in 1..Len(q) : q[i] = s[(b + a) + i]
  BY <1>1, <1>2, <1>3, <1>4
<1> QED BY <1>3, <1>5 DEF Part
LEMMA PartHead == ASSUME NEW s \in Seq(Nat), NEW n \in 0..Len(s) PROVE Part(SubSeq(s, 1, n), s)
<1>1. SubSeq(s, 1, n) \in Seq(Nat) /\ Len(SubSeq(s, 1, n)) = n /\ \A k \in 1..n : SubSeq(s, 1, n)[k] = s[k]
  BY HeadFacts
<1>2. 0 + n <= Len(s) /\ \A i \in 1..n : 0 + i = i
  OBVIOUS
<1> QED BY <1>1, <1>2 DEF Part
LEMMA PartWhole == ASSUME NEW s \in Seq(Nat) PROVE Part(s, s)
<1>1. Len(s) \in 0..Len(s)
  OBVIOUS
<1> QED BY <1>1, PartHead, WholeOf
LEMMA PartEnds ==
  ASSUME NEW s \in Seq(Nat), s # <<>>
  PROVE  /\ Part(Front(s), s) /\ Range(s) = Range(Front(s)) \cup {Last(s)}
         /\ Len(Front(s)) = Len(s) - 1 /\ \A i \in 1..(Len(s) - 1) : Front(s)[i] = s[i]
         /\ Part(Tail(s), s) /\ Range(s) = Range(Tail(s)) \cup {Head(s)}
<1> DEFINE n == Len(s)
           f == SubSeq(s, 1, n - 1)
           t == Tail(s)
<1>1. n \in Nat /\ n >= 1 /\ n - 1 \in 0..n
  OBVIOUS
<1>2. f \in Seq(Nat) /\ Len(f) = n - 1 /\ \A k \in 1..(n - 1) : f[k] = s[k]
  BY <1>1, HeadFacts
<1>3. t \in Seq(Nat) /\ Len(t) = n - 1 /\ \A k \in 1..(n - 1) : t[k] = s[k + 1]
  OBVIOUS
<1>4. Front(s) = f /\ Last(s) = s[n] /\ Head(s) = s[1]
  BY DEF Front, Last
<1>5. Part(f, s)
  BY <1>1, PartHead
<1> HIDE DEF f, t, n
<1>6. \A k \in 1..(n - 1) : k + 1 = 1 + k /\ k + 1 \in 1..n /\ k \in 1..n
  BY <1>1
<1>7. Part(t, s)
  <2>1. 1 + Len(t) <= Len(s) /\ \A i \in 1..Len(t) : t[i] = s[1 + i]
    BY <1>1, <1>3, <1>6 DEF n
  <2> QED BY <2>1, <1>3 DEF Part
<1>8. \A i \in 1..n : (i = n \/ i \in 1..(n - 1)) /\ (i = 1 \/ (i - 1 \in 1..(n - 1) /\ (i - 1) + 1 = i))
  BY <1>1
<1>8a. n \in 1..n /\ 1 \in 1..n
  BY <1>1
<1>9. /\ Range(s) = {s[i] : i \in 1..n} /\ Range(f) = {f[i] : i \in 1..(n - 1)} /\ Range(t) = {t[i] : i \in 1..(n - 1)}
  BY <1>2, <1>3, Elements DEF n
<1>10. Range(s) = Range(f) \cup {s[n]}
  <2>1. \A i \in 1..n : s[i] \in Range(f) \cup {s[n]}
    BY <1>2, <1>8, <1>9
  <2>2. Range(f) \subseteq Range(s)
    BY <1>5, PartFacts
  <2> QED BY <2>1, <2>2, <1>8a, <1>9
<1>11. Range(s) = Range(t) \cup {s[1]}
  <2>1. \A i \in 1..n : s[i] \in Range(t) \cup {s[1]}
    BY <1>3, <1>8, <1>9
  <2>2. Range(t) \subseteq Range(s)
    BY <1>7, PartFacts
  <2> QED BY <2>1, <2>2, <1>8a, <1>9
<1> QED BY <1>2, <1>4, <1>5, <1>7, <1>10, <1>11 DEF n, f, t

\* In the order they were said in, but for those that come twice or first.
Follows(x, y, twice, first) == x # 0 /\ y # 0 => x < y \/ y \in twice \/ x \in first
InOrder(s, twice, first) == \A i, j \in 1..Len(s) : i < j => Follows(s[i], s[j], twice, first)
Precedes(A, B, twice, first) == \A x \in A, y \in B : Follows(x, y, twice, first)

\* What comes before a chat and before its file: the archive, or a copy of it.
ReadFirst(s, n, t, l, out, twice, first) ==
  /\ s \in Seq(Nat) /\ \A x \in Range(s) : x <= n
  /\ InOrder(s, twice, first)
  /\ Precedes(Range(s), Range(t), twice, first)
  /\ Precedes(Range(s), Range(l), twice \cup out, first)

LEMMA AheadPart ==
  ASSUME NEW r, NEW s, NEW n, NEW t, NEW l, NEW out, NEW twice, NEW first,
         Part(r, s), ReadFirst(s, n, t, l, out, twice, first)
  PROVE  ReadFirst(r, n, t, l, out, twice, first)
<1>1. PICK lo \in Nat : lo + Len(r) <= Len(s) /\ \A i \in 1..Len(r) : r[i] = s[lo + i]
  BY DEF Part
<1>2. r \in Seq(Nat) /\ s \in Seq(Nat) /\ Range(r) \subseteq Range(s) /\ Len(r) \in Nat /\ Len(s) \in Nat
  BY PartFacts
<1>3. \A i, j \in 1..Len(r) : lo + i \in 1..Len(s) /\ (i < j => lo + i < lo + j)
  BY <1>1, <1>2
<1>4. InOrder(r, twice, first)
  BY <1>1, <1>3 DEF ReadFirst, InOrder
<1> QED BY <1>2, <1>4 DEF ReadFirst, Precedes

LEMMA AheadJoin ==
  ASSUME NEW s, NEW u, NEW n, NEW t, NEW l, NEW out, NEW twice, NEW first,
         ReadFirst(s, n, t, l, out, twice, first), ReadFirst(u, n, t, l, out, twice, first),
         Precedes(Range(s), Range(u), twice, first)
  PROVE  ReadFirst(s \o u, n, t, l, out, twice, first)
<1> DEFINE v == s \o u
<1>1. s \in Seq(Nat) /\ u \in Seq(Nat) /\ Len(s) \in Nat /\ Len(u) \in Nat
  BY DEF ReadFirst
<1>2. /\ v \in Seq(Nat) /\ Len(v) = Len(s) + Len(u) /\ Range(v) = Range(s) \cup Range(u)
      /\ \A i \in 1..Len(s) : v[i] = s[i]
      /\ \A i \in 1..Len(v) : i \in 1..Len(s) \/ (i > Len(s) /\ i - Len(s) \in 1..Len(u) /\ v[i] = u[i - Len(s)])
  BY <1>1, JoinFacts
<1> HIDE DEF v
<1>3. ASSUME NEW i \in 1..Len(v), NEW j \in 1..Len(v), i < j PROVE Follows(v[i], v[j], twice, first)
  <2>1. CASE j \in 1..Len(s)
    <3>1. i \in 1..Len(s)
      BY <2>1, <1>3, <1>2, <1>1
    <3> QED BY <3>1, <2>1, <1>2, <1>3 DEF ReadFirst, InOrder
  <2>2. CASE i \in 1..Len(s) /\ j \notin 1..Len(s)
    <3>1. v[i] \in Range(s) /\ v[j] \in Range(u)
      BY <2>2, <1>1, <1>2, Elements
    <3> QED BY <3>1 DEF Precedes
  <2>3. CASE i \notin 1..Len(s) /\ j \notin 1..Len(s)
    <3>1. i - Len(s) \in 1..Len(u) /\ j - Len(s) \in 1..Len(u) /\ v[i] = u[i - Len(s)] /\ v[j] = u[j - Len(s)]
      BY <2>3, <1>2
    <3>2. i - Len(s) < j - Len(s)
      BY <1>1, <1>2, <1>3
    <3> QED BY <3>1, <3>2 DEF ReadFirst, InOrder
  <2> QED BY <2>1, <2>2, <2>3
<1>4. InOrder(v, twice, first)
  BY <1>3 DEF InOrder
<1>5. ReadFirst(v, n, t, l, out, twice, first)
  BY <1>2, <1>4 DEF ReadFirst, Precedes
<1> QED BY <1>5 DEF v

\* How a chat goes on while what comes before it stays.
TalkGoes(n, t, l, out, twice, first, n2, t2, l2, out2, twice2, first2) ==
  /\ n \in Nat /\ n2 \in Nat /\ n <= n2 /\ twice \subseteq twice2 /\ first \subseteq first2
  /\ Range(t2) \subseteq Nat /\ Range(l2) \subseteq Nat
  /\ \A y \in Range(t2) : \/ y = 0 \/ y \in Range(t) \/ n < y
                          \/ y \in Range(l) /\ (y \in out => y \in twice2)
  /\ \A y \in Range(l2) : \/ y = 0 \/ y \in Range(t)
                          \/ y \in Range(l) /\ (y \in out => y \in twice2 \cup out2)

LEMMA AheadStays ==
  ASSUME NEW s, NEW n, NEW t, NEW l, NEW out, NEW twice, NEW first,
         NEW n2, NEW t2, NEW l2, NEW out2, NEW twice2, NEW first2,
         ReadFirst(s, n, t, l, out, twice, first),
         TalkGoes(n, t, l, out, twice, first, n2, t2, l2, out2, twice2, first2)
  PROVE  ReadFirst(s, n2, t2, l2, out2, twice2, first2)
<1>1. s \in Seq(Nat) /\ Range(s) \subseteq Nat
  BY Elements DEF ReadFirst
<1>2. \A x \in Range(s) : x <= n /\ x <= n2
  BY <1>1 DEF ReadFirst, TalkGoes
<1>3. InOrder(s, twice2, first2)
  BY DEF ReadFirst, TalkGoes, InOrder, Follows
<1>4. ASSUME NEW x \in Range(s), NEW y \in Range(t2) PROVE Follows(x, y, twice2, first2)
  <2>1. CASE n < y
    <3>1. x < y
      BY <2>1, <1>1, <1>2 DEF TalkGoes
    <3> QED BY <3>1 DEF Follows
  <2>2. CASE y = 0 \/ y \in Range(t)
    BY <2>2 DEF ReadFirst, TalkGoes, Precedes, Follows
  <2>3. CASE y \in Range(l) /\ (y \in out => y \in twice2)
    BY <2>3 DEF ReadFirst, TalkGoes, Precedes, Follows
  <2> QED BY <2>1, <2>2, <2>3 DEF TalkGoes
<1>5. ASSUME NEW x \in Range(s), NEW y \in Range(l2) PROVE Follows(x, y, twice2 \cup out2, first2)
  <2>2. CASE y = 0 \/ y \in Range(t)
    BY <2>2 DEF ReadFirst, TalkGoes, Precedes, Follows
  <2>3. CASE y \in Range(l) /\ (y \in out => y \in twice2 \cup out2)
    BY <2>3 DEF ReadFirst, TalkGoes, Precedes, Follows
  <2> QED BY <2>2, <2>3 DEF TalkGoes
<1> QED BY <1>1, <1>2, <1>3, <1>4, <1>5 DEF ReadFirst, Precedes

\* The chat, its file and the archive: every message is somewhere, and those of
\* the archive come before the rest.
ArchiveAhead == ReadFirst(archive, said, talk, live, moving, again, early)
TalkOK ==
  /\ said \in Nat /\ saved \in Nat /\ saved <= said
  /\ talk \in Seq(Nat) /\ live \in Seq(Nat)
  /\ \A x \in Range(talk) \cup Range(live) : x <= said
  /\ InOrder(talk, {}, {}) /\ InOrder(live, {}, {})
  /\ \A y \in Range(live) : y = 0 \/ y \in Range(talk) \cup moving
NothingLost ==
  /\ \A m \in 1..said : m \in Range(archive) \cup Range(talk) \cup dropped
  /\ \A m \in 1..saved : m \in Range(archive) \cup Range(live) \cup dropped
TailOK == tail = "unended" => archive # <<>> /\ (Last(archive) = 0 \/ Last(archive) \in dropped)
ConversationOK == TalkOK /\ NothingLost /\ TailOK /\ ArchiveAhead

\* What a batch becomes in the archive.
Moves(batch) ==
  /\ \/ archive' = archive
     \/ \E kept, rest : Part(kept, archive) /\ Part(rest, batch) /\ archive' = kept \o rest
  /\ dropped \subseteq dropped'
  /\ \A m \in Range(archive) \cup Range(batch) : m = 0 \/ m \in Range(archive') \cup dropped'
  /\ TailOK'

\* The record that a failed append left without its end is already lost.
LEMMA KeptFacts ==
  ASSUME archive \in Seq(Nat), TailOK, NEW kept, kept = IF tail = "unended" THEN Front(archive) ELSE archive
  PROVE  /\ Part(kept, archive) /\ kept \in Seq(Nat)
         /\ \A m \in Range(archive) : m = 0 \/ m \in Range(kept) \cup dropped
<1>1. CASE tail = "unended"
  <2>1. archive # <<>> /\ kept = Front(archive) /\ (Last(archive) = 0 \/ Last(archive) \in dropped)
    BY <1>1 DEF TailOK
  <2>2. Part(kept, archive) /\ Range(archive) = Range(kept) \cup {Last(archive)}
    BY <2>1, PartEnds
  <2> QED BY <2>1, <2>2, PartFacts
<1>2. CASE tail # "unended"
  <2>1. kept = archive
    BY <1>2
  <2> QED BY <2>1, PartWhole
<1> QED BY <1>1, <1>2

\* What is written after a line without its end is lost with it.
LEMMA RestFollows ==
  ASSUME NEW batch \in Seq(Nat), batch # <<>>, NEW rest, rest = IF tail = "ended" THEN batch ELSE Tail(batch)
  PROVE  /\ Part(rest, batch) /\ rest \in Seq(Nat)
         /\ tail = "ended" => rest = batch
         /\ Range(batch) \subseteq Range(rest) \cup {Head(batch)}
  BY PartWhole, PartEnds, PartFacts

LEMMA SpokenFacts ==
  ASSUME NEW s \in Seq(Nat)
  PROVE  Spoken(s) = Range(s) \ {0} /\ (s # <<>> => Spoken(<<Head(s)>>) = {Head(s)} \ {0})
<1>1. <<Head(s)>> \in Seq({Head(s)}) /\ Len(<<Head(s)>>) = 1 /\ <<Head(s)>>[1] = Head(s)
  OBVIOUS
<1>2. Range(<<Head(s)>>) = {Head(s)}
  BY <1>1 DEF Range
<1> QED BY <1>2 DEF Spoken, Summary

LEMMA ArchiveMoves ==
  ASSUME archive \in Seq(Nat), TailOK, NEW batch \in Seq(Nat), batch # <<>>, Archive(batch)
  PROVE  Moves(batch)
<1>1. PICK kept, rest : /\ kept = IF tail = "unended" THEN Front(archive) ELSE archive
                        /\ rest = IF tail = "ended" THEN batch ELSE Tail(batch)
  OBVIOUS
<1>2. /\ archive' = kept \o rest /\ tail' = "ended"
      /\ dropped' = IF tail = "ended" THEN dropped ELSE dropped \cup Spoken(<<Head(batch)>>)
  BY <1>1 DEF Archive
<1>3. /\ Part(kept, archive) /\ kept \in Seq(Nat)
      /\ \A m \in Range(archive) : m = 0 \/ m \in Range(kept) \cup dropped
  BY <1>1, KeptFacts
<1>4. /\ Part(rest, batch) /\ rest \in Seq(Nat) /\ (tail = "ended" => rest = batch)
      /\ Range(batch) \subseteq Range(rest) \cup {Head(batch)}
  BY <1>1, RestFollows
<1>5. Range(archive') = Range(kept) \cup Range(rest)
  BY <1>2, <1>3, <1>4, JoinFacts
<1>6. tail # "ended" => (Head(batch) = 0 \/ Head(batch) \in dropped')
  BY <1>2, SpokenFacts
<1>7. dropped \subseteq dropped'
  BY <1>2
<1>8. \A m \in Range(archive) \cup Range(batch) : m = 0 \/ m \in Range(archive') \cup dropped'
  BY <1>3, <1>4, <1>5, <1>6, <1>7
<1>9. TailOK'
  BY <1>2 DEF TailOK
<1>10. \E k, r : Part(k, archive) /\ Part(r, batch) /\ archive' = k \o r
  BY <1>2, <1>3, <1>4
<1> QED BY <1>7, <1>8, <1>9, <1>10 DEF Moves

LEMMA ArchiveFailsMoves ==
  ASSUME archive \in Seq(Nat), TailOK, NEW batch \in Seq(Nat), batch # <<>>, ArchiveFails(batch)
  PROVE  Moves(batch)
<1>1. PICK kept, rest : /\ kept = IF tail = "unended" THEN Front(archive) ELSE archive
                        /\ rest = IF tail = "ended" THEN batch ELSE Tail(batch)
  OBVIOUS
<1>2. /\ \/ UNCHANGED <<archive, tail>>
         \/ \E n \in 0..Len(rest) :
              /\ archive' = kept \o SubSeq(rest, 1, n)
              /\ tail' \in {"ended", "cut"} \cup (IF n > 0 THEN {"unended"} ELSE {})
      /\ dropped' = dropped \cup (Range(batch) \ {0})
  BY <1>1, SpokenFacts DEF ArchiveFails
<1>3. /\ Part(kept, archive) /\ kept \in Seq(Nat)
      /\ \A m \in Range(archive) : m = 0 \/ m \in Range(kept) \cup dropped
  BY <1>1, KeptFacts
<1>4. Part(rest, batch) /\ rest \in Seq(Nat) /\ Range(rest) \subseteq Range(batch)
  BY <1>1, RestFollows, PartFacts
<1>5. dropped \subseteq dropped' /\ \A m \in Range(batch) : m = 0 \/ m \in dropped'
  BY <1>2
<1>6. CASE UNCHANGED <<archive, tail>>
  <2>1. TailOK'
    BY <1>5, <1>6 DEF TailOK
  <2> QED BY <2>1, <1>5, <1>6 DEF Moves
<1>7. ASSUME NEW n \in 0..Len(rest), archive' = kept \o SubSeq(rest, 1, n),
             tail' \in {"ended", "cut"} \cup (IF n > 0 THEN {"unended"} ELSE {})
      PROVE  Moves(batch)
  <2>1. PICK r : r = SubSeq(rest, 1, n)
    OBVIOUS
  <2>2. r \in Seq(Nat) /\ Len(r) = n /\ Part(r, rest) /\ Len(kept) \in Nat
    BY <1>3, <1>4, <2>1, HeadFacts, PartHead
  <2>3. Part(r, batch) /\ Range(r) \subseteq Range(batch)
    BY <1>4, <2>2, PartOfPart, PartFacts
  <2>3a. archive' = kept \o r
    BY <1>7, <2>1
  <2>4. /\ archive' = kept \o r /\ Range(archive') = Range(kept) \cup Range(r) /\ archive' \in Seq(Nat)
        /\ Len(archive') = Len(kept) + n /\ \A i \in 1..n : archive'[Len(kept) + i] = r[i]
    BY <1>3, <2>2, <2>3a, JoinFacts
  <2>5. tail' = "unended" => archive' # <<>> /\ (Last(archive') = 0 \/ Last(archive') \in dropped')
    <3> SUFFICES ASSUME tail' = "unended" PROVE archive' # <<>> /\ (Last(archive') = 0 \/ Last(archive') \in dropped')
      OBVIOUS
    <3>1. n > 0 /\ n \in 1..n /\ n \in Nat
      BY <1>7, <1>4
    <3>2. archive'[Len(archive')] = r[n] /\ Len(archive') > 0
      BY <3>1, <2>2, <2>4
    <3>3. r[n] \in Range(batch)
      BY <3>1, <2>2, <2>3, Elements
    <3> QED BY <3>2, <3>3, <1>5 DEF Last
  <2>6. \A m \in Range(archive) \cup Range(batch) : m = 0 \/ m \in Range(archive') \cup dropped'
    BY <1>3, <1>5, <2>4
  <2>7. TailOK'
    BY <2>5 DEF TailOK
  <2>8. \E k, q : Part(k, archive) /\ Part(q, batch) /\ archive' = k \o q
    BY <1>3, <2>3, <2>4
  <2> QED BY <1>5, <2>6, <2>7, <2>8 DEF Moves
<1> QED BY <1>2, <1>6, <1>7

\* A batch of the chat that is archived leaves the archive ahead.
LEMMA MovesKeep ==
  ASSUME ArchiveAhead, NEW batch, Moves(batch),
         TalkGoes(said, talk, live, moving, again, early, said', talk', live', moving', again', early'),
         ReadFirst(batch, said', talk', live', moving', again', early'),
         Precedes(Range(archive), Range(batch), again', early')
  PROVE  ArchiveAhead'
<1>1. ReadFirst(archive, said', talk', live', moving', again', early')
  BY AheadStays DEF ArchiveAhead
<1>2. CASE archive' = archive
  BY <1>1, <1>2 DEF ArchiveAhead
<1>3. ASSUME NEW kept, NEW rest, Part(kept, archive), Part(rest, batch), archive' = kept \o rest
      PROVE  ArchiveAhead'
  <2>1. /\ ReadFirst(kept, said', talk', live', moving', again', early')
        /\ ReadFirst(rest, said', talk', live', moving', again', early')
    BY <1>1, <1>3, AheadPart
  <2>2. Precedes(Range(kept), Range(rest), again', early')
    BY <1>3, PartFacts DEF Precedes
  <2>3. ReadFirst(archive', said', talk', live', moving', again', early')
    BY <1>3, <2>1, <2>2, AheadJoin
  <2> QED BY <2>3 DEF ArchiveAhead
<1> QED BY <1>2, <1>3 DEF Moves

LEMMA OrderOfPart ==
  ASSUME NEW r, NEW s, Part(r, s), InOrder(s, {}, {}), NEW twice, NEW first
  PROVE  InOrder(r, twice, first)
<1>1. PICK lo \in Nat : lo + Len(r) <= Len(s) /\ \A i \in 1..Len(r) : r[i] = s[lo + i]
  BY DEF Part
<1>2. Len(r) \in Nat /\ Len(s) \in Nat
  BY DEF Part
<1>3. \A i, j \in 1..Len(r) : lo + i \in 1..Len(s) /\ (i < j => lo + i < lo + j)
  BY <1>1, <1>2
<1> QED BY <1>1, <1>3 DEF InOrder, Follows

\* The chat's own messages, where a handler archives some of them.
LEMMA BatchFacts ==
  ASSUME ConversationOK, NEW batch, Part(batch, talk), NEW twice, NEW first, again \subseteq twice, early \subseteq first
  PROVE  /\ batch \in Seq(Nat) /\ \A x \in Range(batch) : x <= said
         /\ InOrder(batch, twice, first) /\ Precedes(Range(archive), Range(batch), twice, first)
<1>1. batch \in Seq(Nat) /\ Range(batch) \subseteq Range(talk)
  BY PartFacts
<1>2. InOrder(batch, twice, first)
  BY OrderOfPart DEF ConversationOK, TalkOK
<1>3. Precedes(Range(archive), Range(batch), twice, first)
  BY <1>1 DEF ConversationOK, ArchiveAhead, ReadFirst, Precedes, Follows
<1> QED BY <1>1, <1>2, <1>3 DEF ConversationOK, TalkOK

LEMMA ChatRanges ==
  ASSUME ConversationOK
  PROVE  /\ Range(talk) \subseteq Nat /\ Range(live) \subseteq Nat /\ Range(archive) \subseteq Nat
         /\ Range(talk) = {talk[i] : i \in 1..Len(talk)} /\ Range(live) = {live[i] : i \in 1..Len(live)}
         /\ archive \in Seq(Nat) /\ talk \in Seq(Nat) /\ live \in Seq(Nat) /\ said \in Nat /\ saved \in Nat
  BY Elements DEF ConversationOK, TalkOK, ArchiveAhead, ReadFirst

\* What a step of the chat does to a conversation that is in order.
ChatGoes ==
  /\ ConversationOK'
  /\ TalkGoes(said, talk, live, moving, again, early, said', talk', live', moving', again', early')
  /\ dropped \subseteq dropped' /\ saved <= saved'

LEMMA SayGoes == ASSUME ConversationOK, Say PROVE ChatGoes
<1>1. /\ said' = said + 1 /\ talk' = talk \o <<said + 1>>
      /\ UNCHANGED <<live, archive, tail, saved, moving, again, early, dropped>>
  BY ChatRanges, AppendIsConcat DEF Say
<1>2. <<said + 1>> \in Seq(Nat) /\ Len(<<said + 1>>) = 1 /\ <<said + 1>>[1] = said + 1
  BY ChatRanges
<1>2a. Range(<<said + 1>>) = {said + 1}
  BY <1>2 DEF Range
<1>3. /\ talk' \in Seq(Nat) /\ Len(talk') = Len(talk) + 1 /\ Range(talk') = Range(talk) \cup {said + 1}
      /\ \A i \in 1..Len(talk') : i \in 1..Len(talk) \/ (i > Len(talk) /\ talk'[i] = said + 1)
      /\ \A i \in 1..Len(talk) : talk'[i] = talk[i]
  <2>1. PICK u : u = <<said + 1>>
    OBVIOUS
  <2>2. u \in Seq(Nat) /\ Len(u) = 1 /\ u[1] = said + 1 /\ Range(u) = {said + 1} /\ talk' = talk \o u
    BY <2>1, <1>1, <1>2, <1>2a
  <2>3. talk \in Seq(Nat) /\ Len(talk) \in Nat
    BY ChatRanges
  <2>4. /\ talk' \in Seq(Nat) /\ Len(talk') = Len(talk) + Len(u)
        /\ \A i \in 1..Len(talk) : talk'[i] = talk[i]
        /\ \A i \in 1..Len(talk') : i \in 1..Len(talk) \/ (i > Len(talk) /\ i - Len(talk) \in 1..Len(u) /\ talk'[i] = u[i - Len(talk)])
        /\ Range(talk') = Range(talk) \cup Range(u)
    <3>1. PICK w : w = talk \o u
      OBVIOUS
    <3>2. /\ w \in Seq(Nat) /\ Len(w) = Len(talk) + Len(u)
          /\ \A i \in 1..Len(talk) : w[i] = talk[i]
          /\ \A i \in 1..Len(w) : i \in 1..Len(talk) \/ (i > Len(talk) /\ i - Len(talk) \in 1..Len(u) /\ w[i] = u[i - Len(talk)])
          /\ Range(w) = Range(talk) \cup Range(u)
      <4>1. JoinIs(talk \o u, talk, u)
        BY <2>2, <2>3, JoinOf
      <4>2. JoinIs(w, talk, u)
        BY <3>1, <4>1
      <4> QED BY <4>2, Zenon DEF JoinIs
    <3>3. talk' = w
      BY <3>1, <2>2
    <3> QED BY <3>2, <3>3
  <2>5. \A k \in 1..Len(u) : u[k] = said + 1
    BY <2>2
  <2> QED BY <2>2, <2>4, <2>5
<1>4. TalkGoes(said, talk, live, moving, again, early, said', talk', live', moving', again', early')
  <2>1. said \in Nat /\ said' \in Nat /\ said <= said' /\ said < said + 1
    BY <1>1, ChatRanges
  <2>2. Range(talk') \subseteq Nat
    BY <1>3, ChatRanges
  <2> QED BY <2>1, <2>2, <1>1, <1>3, ChatRanges DEF TalkGoes
<1>5. ArchiveAhead'
  BY <1>1, <1>4, AheadStays DEF ConversationOK, ArchiveAhead
<1>6. InOrder(talk', {}, {})
  <2> SUFFICES ASSUME NEW i \in 1..Len(talk'), NEW j \in 1..Len(talk'), i < j
               PROVE  Follows(talk'[i], talk'[j], {}, {})
    BY DEF InOrder
  <2>1. CASE j \in 1..Len(talk)
    <3>1. i \in 1..Len(talk)
      BY <2>1, ChatRanges
    <3> QED BY <3>1, <2>1, <1>3 DEF ConversationOK, TalkOK, InOrder
  <2>2. CASE j \notin 1..Len(talk)
    <3>1. i \in 1..Len(talk) /\ talk'[j] = said + 1
      BY <2>2, <1>3, ChatRanges
    <3>2. talk'[i] \in Nat /\ talk'[i] <= said
      BY <3>1, <1>3, ChatRanges DEF ConversationOK, TalkOK
    <3> QED BY <3>1, <3>2, ChatRanges DEF Follows
  <2> QED BY <2>1, <2>2
<1>7. TalkOK'
  <2>1. \A x \in Range(talk') \cup Range(live') : x <= said'
    <3>1. \A x \in Nat : x <= said => x <= said + 1
      BY ChatRanges
    <3>2. \A x \in Range(talk) \cup Range(live) : x \in Nat /\ x <= said
      BY ChatRanges DEF ConversationOK, TalkOK
    <3>3. said + 1 <= said + 1
      BY ChatRanges
    <3> QED BY <3>1, <3>2, <3>3, <1>1, <1>3
  <2>2. \A y \in Range(live') : y = 0 \/ y \in Range(talk') \cup moving'
    BY <1>1, <1>3 DEF ConversationOK, TalkOK
  <2>3. InOrder(live', {}, {})
    BY <1>1 DEF ConversationOK, TalkOK
  <2>4. said' \in Nat /\ saved' \in Nat /\ saved' <= said' /\ live' \in Seq(Nat)
    BY <1>1, ChatRanges DEF ConversationOK, TalkOK
  <2> QED BY <2>1, <2>2, <2>3, <2>4, <1>3, <1>6 DEF TalkOK
<1>8. NothingLost'
  <2>1. \A m \in 1..said' : m \in 1..said \/ m = said + 1
    BY <1>1, ChatRanges
  <2>2. \A m \in 1..said' : m \in Range(archive') \cup Range(talk') \cup dropped'
    BY <2>1, <1>1, <1>3 DEF ConversationOK, NothingLost
  <2>3. \A m \in 1..saved' : m \in Range(archive') \cup Range(live') \cup dropped'
    BY <1>1 DEF ConversationOK, NothingLost
  <2> QED BY <2>2, <2>3 DEF NothingLost
<1>9. TailOK'
  BY <1>1 DEF ConversationOK, TailOK
<1>10. saved <= saved'
  BY <1>1, ChatRanges
<1> QED BY <1>1, <1>4, <1>5, <1>7, <1>8, <1>9, <1>10 DEF ChatGoes, ConversationOK

LEMMA CompactGoes == ASSUME ConversationOK, CompactTalk PROVE ChatGoes
<1>1. PICK batch, last : batch = Front(talk) /\ last = Last(talk)
  OBVIOUS
<1>2. /\ talk # <<>> /\ talk' = <<0, last>> /\ moving' = moving \cup (Range(batch) \ {0})
      /\ UNCHANGED <<live, said, saved, again, early>>
      /\ Archive(batch) \/ ArchiveFails(batch)
      /\ Len(talk) > 2
  <2>1. Spoken(Front(talk)) = Range(Front(talk)) \ {0}
    BY DEF Spoken, Summary
  <2>2. talk # <<>>
    BY ChatRanges DEF CompactTalk
  <2> QED BY <1>1, <2>1, <2>2, Zenon DEF CompactTalk, Summary
<1>3. /\ Part(batch, talk) /\ Range(talk) = Range(batch) \cup {last} /\ last \in Nat
      /\ Len(batch) = Len(talk) - 1 /\ batch \in Seq(Nat) /\ batch # <<>>
      /\ \A i \in 1..(Len(talk) - 1) : batch[i] = talk[i]
  <2>1. talk \in Seq(Nat) /\ Len(talk) \in Nat /\ Range(talk) \subseteq Nat /\ Len(talk) > 2
    BY <1>2, ChatRanges
  <2>2. /\ Part(batch, talk) /\ Range(talk) = Range(batch) \cup {last}
        /\ Len(batch) = Len(talk) - 1 /\ \A i \in 1..(Len(talk) - 1) : batch[i] = talk[i]
    BY <1>1, <1>2, <2>1, PartEnds
  <2>3. batch \in Seq(Nat) /\ last \in Nat
    BY <2>1, <2>2, PartFacts
  <2>4. batch # <<>>
    BY <2>1, <2>2, <2>3
  <2> QED BY <2>2, <2>3, <2>4
<1>4. Moves(batch)
  BY <1>2, <1>3, ArchiveMoves, ArchiveFailsMoves, ChatRanges DEF ConversationOK
<1>5. talk' \in Seq(Nat) /\ Len(talk') = 2 /\ talk'[1] = 0 /\ talk'[2] = last /\ Range(talk') = {0, last}
  <2>1. talk' \in Seq(Nat) /\ Len(talk') = 2 /\ talk'[1] = 0 /\ talk'[2] = last
    BY <1>2, <1>3
  <2>2. Range(talk') = {talk'[i] : i \in 1..2}
    BY <2>1, Elements
  <2> QED BY <2>1, <2>2
<1>6. ASSUME NEW x \in Range(batch), x # 0, last # 0 PROVE x < last
  <2>1. PICK i \in 1..Len(batch) : batch[i] = x
    BY <1>3, Elements
  <2>2. i \in 1..Len(talk) /\ Len(talk) \in 1..Len(talk) /\ i < Len(talk) /\ talk[i] = x /\ talk[Len(talk)] = last
    <3>1. Len(talk) \in Nat /\ Len(talk) > 2 /\ talk[Len(talk)] = last
      BY <1>1, <1>2, ChatRanges DEF Last
    <3>2. i \in 1..(Len(talk) - 1)
      BY <2>1, <1>3
    <3> QED BY <3>1, <3>2, <2>1, <1>3
  <2>3. Follows(x, last, {}, {})
    BY <2>2 DEF ConversationOK, TalkOK, InOrder
  <2> QED BY <2>3, <1>6 DEF Follows
<1>7. TalkGoes(said, talk, live, moving, again, early, said', talk', live', moving', again', early')
  <2>1. said \in Nat /\ said' = said /\ said <= said' /\ again \subseteq again' /\ early \subseteq early'
    BY <1>2, ChatRanges
  <2>2. Range(talk') \subseteq Nat /\ Range(live') \subseteq Nat
    <3>1. Range(talk') = {0, last} /\ last \in Nat
      BY <1>3, <1>5
    <3>2. live' = live /\ Range(live) \subseteq Nat
      BY <1>2, ChatRanges
    <3> QED BY <3>1, <3>2
  <2>3. \A y \in Range(talk') : y = 0 \/ y \in Range(talk)
    BY <1>3, <1>5
  <2>4. \A y \in Range(live') : y \in Range(live) /\ (y \in moving => y \in moving')
    BY <1>2
  <2> QED BY <2>1, <2>2, <2>3, <2>4 DEF TalkGoes
<1>8. ReadFirst(batch, said', talk', live', moving', again', early')
  <2>1. /\ batch \in Seq(Nat) /\ \A x \in Range(batch) : x <= said'
        /\ InOrder(batch, again', early')
    BY <1>2, <1>3, BatchFacts
  <2>2. Precedes(Range(batch), Range(talk'), again', early')
    BY <1>5, <1>6 DEF Precedes, Follows
  <2>3. Precedes(Range(batch), Range(live'), again' \cup moving', early')
    <3>1. \A y \in Range(live') : y = 0 \/ y = last \/ y \in moving'
      BY <1>2, <1>3 DEF ConversationOK, TalkOK
    <3> QED BY <3>1, <1>6 DEF Precedes, Follows
  <2> QED BY <2>1, <2>2, <2>3 DEF ReadFirst
<1>9. Precedes(Range(archive), Range(batch), again', early')
  BY <1>2, <1>3, BatchFacts
<1>10. ArchiveAhead'
  BY <1>4, <1>7, <1>8, <1>9, MovesKeep DEF ConversationOK
<1>11. TalkOK'
  <2>1. \A x \in Range(talk') \cup Range(live') : x <= said'
    BY <1>2, <1>3, <1>5, ChatRanges DEF ConversationOK, TalkOK
  <2>2. \A y \in Range(live') : y = 0 \/ y \in Range(talk') \cup moving'
    BY <1>2, <1>3, <1>5 DEF ConversationOK, TalkOK
  <2>3. InOrder(live', {}, {})
    BY <1>2 DEF ConversationOK, TalkOK
  <2>4. InOrder(talk', {}, {})
    BY <1>5 DEF InOrder, Follows
  <2>5. said' \in Nat /\ saved' \in Nat /\ saved' <= said' /\ live' \in Seq(Nat)
    BY <1>2, ChatRanges DEF ConversationOK, TalkOK
  <2> QED BY <2>1, <2>2, <2>3, <2>4, <2>5, <1>5 DEF TalkOK
<1>12. NothingLost'
  <2>1. \A m \in Range(archive) \cup Range(batch) : m = 0 \/ m \in Range(archive') \cup dropped'
    BY <1>4 DEF Moves
  <2>2. dropped \subseteq dropped' /\ said \in Nat /\ saved \in Nat
    BY <1>4, ChatRanges DEF Moves
  <2>3. \A m \in 1..said : m \in Range(archive') \cup Range(talk') \cup dropped'
    BY <2>1, <2>2, <1>3, <1>5 DEF ConversationOK, NothingLost
  <2>4. \A m \in 1..saved : m \in Range(archive') \cup Range(live) \cup dropped'
    BY <2>1, <2>2 DEF ConversationOK, NothingLost
  <2> QED BY <2>3, <2>4, <1>2 DEF NothingLost
<1>13. saved <= saved'
  BY <1>2, ChatRanges
<1> QED BY <1>4, <1>7, <1>10, <1>11, <1>12, <1>13 DEF ChatGoes, ConversationOK, Moves

LEMMA ShrinkGoes == ASSUME ConversationOK, ShrinkTalk PROVE ChatGoes
<1>1. PICK i \in DOMAIN talk :
        /\ talk[i] # 0
        /\ Archive(<<talk[i]>>) \/ ArchiveFails(<<talk[i]>>)
        /\ talk' = [talk EXCEPT ![i] = 0]
        /\ moving' = moving \cup {talk[i]} /\ early' = early \cup {talk[i]}
        /\ UNCHANGED <<live, said, saved, again>>
  BY Zenon DEF ShrinkTalk, Summary
<1>2. PICK x, batch : x = talk[i] /\ batch = <<x>>
  OBVIOUS
<1>3. /\ i \in 1..Len(talk) /\ x \in Nat /\ x # 0 /\ x \in Range(talk)
      /\ batch \in Seq(Nat) /\ Len(batch) = 1 /\ batch[1] = x /\ Range(batch) = {x} /\ batch # <<>>
  <2>1. i \in 1..Len(talk) /\ x \in Nat /\ x # 0 /\ x \in Range(talk)
    <3>1. DOMAIN talk = 1..Len(talk) /\ Range(talk) = {talk[k] : k \in 1..Len(talk)} /\ Range(talk) \subseteq Nat
      BY ChatRanges
    <3>2. i \in 1..Len(talk)
      BY <3>1, <1>1
    <3> QED BY <3>1, <3>2, <1>1, <1>2
  <2>2. batch \in Seq(Nat) /\ Len(batch) = 1 /\ batch[1] = x /\ batch # <<>>
    BY <2>1, <1>2
  <2>3. Range(batch) = {batch[k] : k \in 1..1}
    BY <2>2, Elements
  <2> QED BY <2>1, <2>2, <2>3
<1>4. Moves(batch)
  <2>1. Archive(batch) \/ ArchiveFails(batch)
    BY <1>1, <1>2
  <2> QED BY <2>1, <1>3, ArchiveMoves, ArchiveFailsMoves, ChatRanges DEF ConversationOK
<1>5. /\ talk' \in Seq(Nat) /\ Len(talk') = Len(talk)
      /\ \A k \in 1..Len(talk) : talk'[k] = IF k = i THEN 0 ELSE talk[k]
  <2>1. DOMAIN talk = 1..Len(talk) /\ talk \in Seq(Nat) /\ Len(talk) \in Nat /\ 0 \in Nat
    BY ChatRanges
  <2> QED BY <2>1, <1>1, <1>3
<1>6. Range(talk') \subseteq Range(talk) \cup {0} /\ Range(talk) \subseteq Range(talk') \cup {x}
  <2>1. Range(talk') = {talk'[k] : k \in 1..Len(talk)} /\ Range(talk) = {talk[k] : k \in 1..Len(talk)}
    BY <1>5, ChatRanges, Elements
  <2>2. \A k \in 1..Len(talk) : talk'[k] \in Range(talk) \cup {0}
    BY <2>1, <1>5
  <2>3. \A k \in 1..Len(talk) : talk[k] \in Range(talk') \cup {x}
    BY <2>1, <1>2, <1>5
  <2> QED BY <2>1, <2>2, <2>3
<1>7. TalkGoes(said, talk, live, moving, again, early, said', talk', live', moving', again', early')
  <2>1. said \in Nat /\ said' = said /\ said <= said' /\ again \subseteq again' /\ early \subseteq early'
    BY <1>1, ChatRanges
  <2>2. Range(talk') \subseteq Nat
    BY <1>6, ChatRanges
  <2>3. live' = live /\ Range(live) \subseteq Nat /\ moving \subseteq moving'
    BY <1>1, ChatRanges
  <2> QED BY <2>1, <2>2, <2>3, <1>6 DEF TalkGoes
<1>8. ReadFirst(batch, said', talk', live', moving', again', early')
  <2>1. x \in early' /\ \A y : Follows(x, y, again', early') /\ Follows(x, y, again' \cup moving', early')
    BY <1>1, <1>2 DEF Follows
  <2>2. InOrder(batch, again', early')
    BY <1>3 DEF InOrder
  <2>3. \A z \in Range(batch) : z <= said'
    BY <1>1, <1>3 DEF ConversationOK, TalkOK
  <2> QED BY <2>1, <2>2, <2>3, <1>3 DEF ReadFirst, Precedes
<1>9. Precedes(Range(archive), Range(batch), again', early')
  <2>1. Precedes(Range(archive), Range(talk), again, early)
    BY DEF ConversationOK, ArchiveAhead, ReadFirst
  <2>2. again' = again /\ early \subseteq early'
    BY <1>1
  <2> QED BY <2>1, <2>2, <1>3 DEF Precedes, Follows
<1>10. ArchiveAhead'
  BY <1>4, <1>7, <1>8, <1>9, MovesKeep DEF ConversationOK
<1>11. TalkOK'
  <2>1. \A z \in Range(talk') \cup Range(live') : z <= said'
    <3>1. 0 <= said /\ \A z \in Range(talk) \cup Range(live) : z <= said
      BY ChatRanges DEF ConversationOK, TalkOK
    <3> QED BY <3>1, <1>1, <1>6
  <2>2. \A y \in Range(live') : y = 0 \/ y \in Range(talk') \cup moving'
    <3>1. \A y \in Range(live) : y = 0 \/ y \in Range(talk) \cup moving
      BY DEF ConversationOK, TalkOK
    <3> QED BY <3>1, <1>1, <1>2, <1>6
  <2>3. InOrder(live', {}, {})
    BY <1>1 DEF ConversationOK, TalkOK
  <2>4. InOrder(talk', {}, {})
    <3>1. InOrder(talk, {}, {})
      BY DEF ConversationOK, TalkOK
    <3> QED BY <3>1, <1>5 DEF InOrder, Follows
  <2>5. said' \in Nat /\ saved' \in Nat /\ saved' <= said' /\ live' \in Seq(Nat)
    BY <1>1, ChatRanges DEF ConversationOK, TalkOK
  <2> QED BY <2>1, <2>2, <2>3, <2>4, <2>5, <1>5 DEF TalkOK
<1>12. NothingLost'
  <2>1. \A m \in Range(archive) \cup Range(batch) : m = 0 \/ m \in Range(archive') \cup dropped'
    BY <1>4 DEF Moves
  <2>2. dropped \subseteq dropped' /\ said \in Nat /\ saved \in Nat
    BY <1>4, ChatRanges DEF Moves
  <2>3. \A m \in 1..said : m \in Range(archive') \cup Range(talk') \cup dropped'
    BY <2>1, <2>2, <1>3, <1>6 DEF ConversationOK, NothingLost
  <2>4. \A m \in 1..saved : m \in Range(archive') \cup Range(live) \cup dropped'
    BY <2>1, <2>2 DEF ConversationOK, NothingLost
  <2> QED BY <2>3, <2>4, <1>1 DEF NothingLost
<1>13. saved <= saved'
  BY <1>1, ChatRanges
<1> QED BY <1>4, <1>7, <1>10, <1>11, <1>12, <1>13 DEF ChatGoes, ConversationOK, Moves

LEMMA ClearGoes == ASSUME ConversationOK, ClearTalk PROVE ChatGoes
<1>1. /\ talk # <<>>
      /\ Archive(talk) \/ ArchiveFails(talk)
      /\ talk' = live /\ moving' = {} /\ again' = again \cup moving \cup (Range(talk) \ {0})
      /\ UNCHANGED <<live, said, saved, early>>
  BY Zenon DEF ClearTalk, Spoken, Summary
<1>2. Moves(talk)
  BY <1>1, ArchiveMoves, ArchiveFailsMoves, ChatRanges DEF ConversationOK
<1>3. \A y \in Range(live) : y = 0 \/ y \in again'
  BY <1>1 DEF ConversationOK, TalkOK
<1>4. TalkGoes(said, talk, live, moving, again, early, said', talk', live', moving', again', early')
  <2>1. said \in Nat /\ said' = said /\ said <= said' /\ again \subseteq again' /\ early \subseteq early'
    BY <1>1, ChatRanges
  <2>2. live' = live /\ talk' = live /\ Range(live) \subseteq Nat /\ moving \subseteq again'
    BY <1>1, ChatRanges
  <2> QED BY <2>1, <2>2 DEF TalkGoes
<1>5. Part(talk, talk)
  BY ChatRanges, PartWhole
<1>6. ReadFirst(talk, said', talk', live', moving', again', early')
  <2>1. talk \in Seq(Nat) /\ (\A x \in Range(talk) : x <= said') /\ InOrder(talk, again', early')
    BY <1>1, <1>5, BatchFacts
  <2>2. Precedes(Range(talk), Range(live), again', early') /\ Precedes(Range(talk), Range(live), again' \cup moving', early')
    BY <1>3 DEF Precedes, Follows
  <2> QED BY <2>1, <2>2, <1>1 DEF ReadFirst
<1>7. Precedes(Range(archive), Range(talk), again', early')
  BY <1>1, <1>5, BatchFacts
<1>8. ArchiveAhead'
  BY <1>2, <1>4, <1>6, <1>7, MovesKeep DEF ConversationOK
<1>9. TalkOK'
  BY <1>1 DEF ConversationOK, TalkOK
<1>10. NothingLost'
  <2>1. \A m \in Range(archive) \cup Range(talk) : m = 0 \/ m \in Range(archive') \cup dropped'
    BY <1>2 DEF Moves
  <2>2. dropped \subseteq dropped' /\ said \in Nat /\ saved \in Nat
    BY <1>2, ChatRanges DEF Moves
  <2>3. \A m \in 1..said : m \in Range(archive') \cup dropped'
    BY <2>1, <2>2 DEF ConversationOK, NothingLost
  <2>4. \A m \in 1..saved : m \in Range(archive') \cup Range(live) \cup dropped'
    BY <2>1, <2>2 DEF ConversationOK, NothingLost
  <2> QED BY <2>3, <2>4, <1>1 DEF NothingLost
<1>11. saved <= saved'
  BY <1>1, ChatRanges
<1> QED BY <1>2, <1>4, <1>8, <1>9, <1>10, <1>11 DEF ChatGoes, ConversationOK, Moves

LEMMA DieGoes == ASSUME ConversationOK, Die PROVE ChatGoes
<1>1. /\ talk' = live /\ moving' = {} /\ again' = again \cup moving /\ dropped' = dropped \cup (saved + 1)..said
      /\ UNCHANGED <<live, archive, tail, said, saved, early>>
  BY DEF Die
<1>2. TalkGoes(said, talk, live, moving, again, early, said', talk', live', moving', again', early')
  <2>1. said \in Nat /\ said' = said /\ said <= said' /\ again \subseteq again' /\ early \subseteq early'
    BY <1>1, ChatRanges
  <2>2. live' = live /\ talk' = live /\ Range(live) \subseteq Nat /\ moving \subseteq again'
    BY <1>1, ChatRanges
  <2> QED BY <2>1, <2>2 DEF TalkGoes
<1>3. ArchiveAhead'
  BY <1>1, <1>2, AheadStays DEF ConversationOK, ArchiveAhead
<1>4. TalkOK'
  BY <1>1 DEF ConversationOK, TalkOK
<1>5. NothingLost'
  <2>1. \A m \in 1..said : m \in 1..saved \/ m \in (saved + 1)..said
    BY ChatRanges
  <2> QED BY <2>1, <1>1 DEF ConversationOK, NothingLost
<1>6. TailOK'
  BY <1>1 DEF ConversationOK, TailOK
<1>7. saved <= saved' /\ dropped \subseteq dropped'
  BY <1>1, ChatRanges
<1> QED BY <1>2, <1>3, <1>4, <1>5, <1>6, <1>7 DEF ChatGoes, ConversationOK

LEMMA SaveGoes == ASSUME ConversationOK, SaveSession PROVE ChatGoes
<1>1. /\ live' = talk /\ saved' = said /\ moving' = {}
      /\ UNCHANGED <<talk, archive, tail, said, again, early, dropped>>
  BY DEF SaveSession
<1>2. TalkGoes(said, talk, live, moving, again, early, said', talk', live', moving', again', early')
  <2>1. said \in Nat /\ said' = said /\ said <= said' /\ again \subseteq again' /\ early \subseteq early'
    BY <1>1, ChatRanges
  <2>2. live' = talk /\ talk' = talk /\ Range(talk) \subseteq Nat
    BY <1>1, ChatRanges
  <2> QED BY <2>1, <2>2 DEF TalkGoes
<1>3. ArchiveAhead'
  BY <1>1, <1>2, AheadStays DEF ConversationOK, ArchiveAhead
<1>4. TalkOK'
  BY <1>1, ChatRanges DEF ConversationOK, TalkOK
<1>5. NothingLost'
  BY <1>1 DEF ConversationOK, NothingLost
<1>6. TailOK'
  BY <1>1 DEF ConversationOK, TailOK
<1>7. saved <= saved' /\ dropped \subseteq dropped'
  BY <1>1, ChatRanges DEF ConversationOK, TalkOK
<1> QED BY <1>2, <1>3, <1>4, <1>5, <1>6, <1>7 DEF ChatGoes, ConversationOK

\* The folders on the disk are as they were found, but for their commands.
InstalledOK ==
  /\ \A p \in installed :
       /\ p = [place |-> p.place, dir |-> p.dir, name |-> p.name, ids |-> p.ids, command |-> p.command]
       /\ p.place \in {"home", "project"} /\ p.dir \in Nat /\ p.name \in Nat
  /\ \A p, q \in installed : p.place = q.place /\ p.dir = q.dir => p = q

\* What was found: plugins whose commands were their own, each name once, and
\* none of a project that is not trusted or of a name the user has.
FoundOK(found, trusted) ==
  /\ \A p \in found : p.command = "inside" /\ (p.place = "project" => trusted)
  /\ \A p, q \in found : p.name = q.name => p = q
  /\ \A p \in found : p.place = "project" =>
       ~\E q \in installed : q.place = "home" /\ q.name = p.name /\ ManifestLoads(q)

\* What Discover finds is on the disk, loads, and is of one name only once.
LEMMA DiscoverFinds ==
  ASSUME InstalledOK, NEW trusted
  PROVE  Discover(trusted) \subseteq installed /\ FoundOK(Discover(trusted), trusted)
<1> DEFINE loaded == {p \in installed : ManifestLoads(p)}
           home == {p \in loaded : p.place = "home"}
           free == {p \in loaded : p.place = "project" /\ \A q \in home : q.name /= p.name}
           found == Discover(trusted)
<1>1. found = home \cup (IF trusted THEN free ELSE {})
  BY Zenon DEF Discover
<1>2. found \subseteq installed /\ \A p \in found : ManifestLoads(p) /\ (p.place = "project" => trusted)
  BY <1>1
<1>3. \A p \in loaded : p.name = p.dir /\ p.command = "inside"
  BY DEF ManifestLoads, CommandRuns
<1>4. \A p \in found : p \in loaded /\ p.command = "inside"
  BY <1>2, <1>3
<1>5. \A p, q \in found : p.name = q.name => p = q
  <2>1. ASSUME NEW p \in found, NEW q \in found, p.name = q.name PROVE p.place = q.place
    BY <2>1, <1>1
  <2> QED BY <2>1, <1>3, <1>4 DEF InstalledOK
<1>6. \A p \in found : p.place = "project" =>
        ~\E q \in installed : q.place = "home" /\ q.name = p.name /\ ManifestLoads(q)
  BY <1>1
<1> QED BY <1>2, <1>4, <1>5, <1>6, Zenon DEF FoundOK

\* The exporter of a format is one of the plugins found, or none.
LEMMA ExporterIsFound ==
  ASSUME InstalledOK, NEW found, found \subseteq installed, NEW id
  PROVE  FindExporter(found, id) \in found \cup {NoPlugin}
<1> DEFINE able == {p \in found : Contains(p.ids, id)}
           names == {p.name : p \in able}
<1>1. CASE able = {}
  BY <1>1 DEF FindExporter
<1>2. CASE able # {}
  <2>1. names \subseteq Nat /\ names # {}
    BY <1>2 DEF InstalledOK
  <2>2. Min(names) \in names /\ \A n \in names : Min(names) <= n
    BY <2>1, LeastOne
  <2>3. \E p \in able : \A q \in able : p.name <= q.name
    <3>1. PICK p \in able : p.name = Min(names)
      BY <2>2
    <3>2. \A q \in able : q.name \in names
      OBVIOUS
    <3> HIDE DEF names, able
    <3> QED BY <3>1, <3>2, <2>2
  <2>4. FindExporter(found, id) = CHOOSE p \in able : \A q \in able : p.name <= q.name
    BY <1>2 DEF FindExporter
  <2> HIDE DEF able
  <2>5. FindExporter(found, id) \in able
    BY <2>3, <2>4
  <2> QED BY <2>5 DEF able
<1> QED BY <1>1, <1>2

\* The export: what it reads of the archive comes before the chat's file, and
\* with it holds every message of the file it began with, if no other reason is
\* known why not.
CmdShape ==
  cmd = [at |-> cmd.at, trusted |-> cmd.trusted, format |-> cmd.format, plugin |-> cmd.plugin,
         found |-> cmd.found, before |-> cmd.before, moved |-> cmd.moved, doubled |-> cmd.doubled,
         out |-> cmd.out, ran |-> cmd.ran, ended |-> cmd.ended, answer |-> cmd.answer,
         exit |-> cmd.exit, why |-> cmd.why]
OutAhead == ReadFirst(cmd.out, said, talk, live, moving, again, early)
Reading ==
  /\ cmd.at = "archive" => cmd.before <= saved
  /\ cmd.at = "events" =>
       /\ OutAhead
       /\ \A m \in 1..cmd.before : m \in Range(cmd.out) \cup Range(live) \cup dropped \cup cmd.moved
CmdOK ==
  /\ CmdShape /\ cmd.before \in Nat
  /\ FoundOK(cmd.found, cmd.trusted)
  /\ cmd.at = "plugin" \/ cmd.ran => cmd.plugin \in cmd.found
  /\ cmd.at # "done" => ~cmd.ran
ExportsInv == ConversationOK /\ InstalledOK /\ CmdOK /\ Reading /\ HistoryIsWhole /\ PluginSucceeds

\* What the export found stays so: a folder loads its plugin no later than before.
LEMMA FoundStays ==
  ASSUME NEW found, NEW trusted, FoundOK(found, trusted),
         \A q \in installed' : ManifestLoads(q) => q \in installed
  PROVE  FoundOK(found, trusted)'
  BY DEF FoundOK
LEMMA CmdFoundStays ==
  ASSUME CmdOK, \A q \in installed' : ManifestLoads(q) => q \in installed,
         cmd'.found = cmd.found, cmd'.trusted = cmd.trusted
  PROVE  FoundOK(cmd.found, cmd.trusted)'
<1>1. PICK found, trusted : found = cmd.found /\ trusted = cmd.trusted /\ FoundOK(found, trusted)
  BY DEF CmdOK
<1>2. FoundOK(found, trusted)'
  BY <1>1, FoundStays
<1>3. found = cmd'.found /\ trusted = cmd'.trusted
  BY <1>1
<1> QED BY <1>2, <1>3 DEF FoundOK

\* The conversation and the folders stay as they are.
LEMMA ConversationStays ==
  ASSUME UNCHANGED conversation, ConversationOK PROVE ConversationOK'
  BY Zenon DEF conversation, ConversationOK, TalkOK, NothingLost, TailOK, ArchiveAhead
LEMMA InstalledStays == ASSUME installed' = installed, InstalledOK PROVE InstalledOK'
  BY Zenon DEF InstalledOK

\* The exports begin in the invariant.
LEMMA ExportsStart == ExportsInit => ExportsInv
<1> SUFFICES ASSUME ExportsInit PROVE ExportsInv
  OBVIOUS
<1>1. /\ archive = <<>> /\ talk = <<>> /\ live = <<>> /\ tail = "ended" /\ said = 0 /\ saved = 0 /\ moving = {}
      /\ installed = {} \/ installed \in Installs
  BY DEF ExportsInit
<1>2. Range(<<>>) = {} /\ <<>> \in Seq(Nat) /\ Len(<<>>) = 0
  BY DEF Range
<1>3. ConversationOK
  <2>1. TalkOK
    BY <1>1, <1>2 DEF TalkOK, InOrder
  <2>2. NothingLost /\ TailOK
    BY <1>1 DEF NothingLost, TailOK
  <2>3. ArchiveAhead
    BY <1>1, <1>2 DEF ArchiveAhead, ReadFirst, InOrder, Precedes
  <2> QED BY <2>1, <2>2, <2>3 DEF ConversationOK
<1>4. InstalledOK
  <2>1. CASE installed = {}
    BY <2>1 DEF InstalledOK
  <2>2. CASE installed \in Installs
    BY <2>2, ExportsAssumption, Zenon DEF InstalledOK
  <2> QED BY <2>1, <2>2, <1>1
<1>5. /\ CmdShape /\ cmd.at \in {"none", "asked"} /\ cmd.before = 0 /\ cmd.found = {} /\ cmd.ran = FALSE
  <2>1. CASE cmd = NoExport
    BY <2>1 DEF CmdShape, NoExport
  <2>2. ASSUME NEW trusted, NEW format, cmd = [NoExport EXCEPT !.at = "asked", !.trusted = trusted, !.format = format]
        PROVE  CmdShape /\ cmd.at \in {"none", "asked"} /\ cmd.before = 0 /\ cmd.found = {} /\ cmd.ran = FALSE
    BY <2>2 DEF CmdShape, NoExport
  <2> QED BY <2>1, <2>2 DEF ExportsInit
<1>6. CmdOK /\ Reading /\ HistoryIsWhole /\ PluginSucceeds
  BY <1>5 DEF CmdOK, FoundOK, Reading, HistoryIsWhole, PluginSucceeds, Ended
<1> QED BY <1>3, <1>4, <1>6 DEF ExportsInv

\* The steps of the chat.
LEMMA ChatSteps ==
  ASSUME ExportsInv, Say \/ CompactTalk \/ ShrinkTalk \/ SaveSession \/ ClearTalk \/ Die PROVE ExportsInv'
<1>1. ChatGoes
  BY SayGoes, CompactGoes, ShrinkGoes, SaveGoes, ClearGoes, DieGoes DEF ExportsInv
<1>2. installed' = installed /\ InstalledOK' /\ cmd.at \in {"none", "archive", "events"}
  BY InstalledStays DEF Say, CompactTalk, ShrinkTalk, SaveSession, ClearTalk, Die, Chatting, InTime, ExportsInv
<1>3. CmdOK
  BY DEF ExportsInv
<1>4. /\ CmdShape' /\ cmd.moved \subseteq cmd'.moved
      /\ cmd'.at = cmd.at /\ cmd'.trusted = cmd.trusted /\ cmd'.plugin = cmd.plugin /\ cmd'.found = cmd.found
      /\ cmd'.before = cmd.before /\ cmd'.out = cmd.out /\ cmd'.ran = cmd.ran
      /\ cmd.at = "events" => live' = live \/ (live' = talk /\ moving \subseteq cmd'.moved)
  <2>1. CASE cmd' = cmd /\ live' = live
    BY <2>1, <1>3 DEF CmdOK, CmdShape
  <2>2. CASE cmd' = cmd /\ cmd.at # "events"
    BY <2>2, <1>3 DEF CmdOK, CmdShape
  <2>3. CASE cmd' = [cmd EXCEPT !.moved = cmd.moved \cup moving] /\ live' = talk
    BY <2>3, <1>3 DEF CmdOK, CmdShape
  <2>4. SaveSession => \/ cmd' = cmd /\ cmd.at # "events"
                       \/ cmd' = [cmd EXCEPT !.moved = cmd.moved \cup moving] /\ live' = talk
    BY Zenon DEF SaveSession
  <2>5. Say \/ CompactTalk \/ ShrinkTalk \/ ClearTalk \/ Die => cmd' = cmd /\ live' = live
    BY Zenon DEF Say, CompactTalk, ShrinkTalk, ClearTalk, Die, Chatting
  <2> QED BY <2>1, <2>2, <2>3, <2>4, <2>5
<1>5. CmdOK'
  <2>1. FoundOK(cmd.found, cmd.trusted)'
    BY <1>2, <1>3, <1>4, CmdFoundStays
  <2> QED BY <2>1, <1>3, <1>4 DEF CmdOK
<1>6. Reading'
  <2>1. cmd'.at = "archive" => cmd'.before <= saved'
    <3>1. cmd.before \in Nat /\ saved \in Nat /\ saved' \in Nat /\ saved <= saved'
      BY <1>1, <1>3 DEF CmdOK, ExportsInv, ConversationOK, TalkOK, ChatGoes
    <3>2. cmd.at = "archive" => cmd.before <= saved
      BY DEF ExportsInv, Reading
    <3>3. \A b, m, n \in Nat : b <= m /\ m <= n => b <= n
      OBVIOUS
    <3> QED BY <3>1, <3>2, <3>3, <1>4
  <2>2. ASSUME cmd.at = "events" PROVE OutAhead'
    <3>1. PICK out : out = cmd.out /\ ReadFirst(out, said, talk, live, moving, again, early)
      BY <2>2 DEF ExportsInv, Reading, OutAhead
    <3>2. ReadFirst(out, said', talk', live', moving', again', early')
      BY <3>1, <1>1, AheadStays DEF ChatGoes
    <3>3. out = cmd'.out
      BY <3>1, <1>4
    <3> QED BY <3>2, <3>3 DEF OutAhead
  <2>3. ASSUME cmd.at = "events", NEW m \in 1..cmd'.before
        PROVE  m \in Range(cmd'.out) \cup Range(live') \cup dropped' \cup cmd'.moved
    <3>1. m \in Range(cmd.out) \cup Range(live) \cup dropped \cup cmd.moved /\ m # 0
      BY <2>3, <1>3, <1>4 DEF ExportsInv, Reading, CmdOK
    <3>2. m \in Range(live) => m \in Range(talk) \cup moving
      BY <3>1 DEF ExportsInv, ConversationOK, TalkOK
    <3>3. dropped \subseteq dropped'
      BY <1>1 DEF ChatGoes
    <3> QED BY <3>1, <3>2, <3>3, <2>3, <1>4
  <2> QED BY <2>1, <2>2, <2>3, <1>4 DEF Reading
<1>7. HistoryIsWhole' /\ PluginSucceeds'
  BY <1>2, <1>4 DEF HistoryIsWhole, PluginSucceeds, Ended
<1> QED BY <1>1, <1>2, <1>5, <1>6, <1>7 DEF ExportsInv, ChatGoes

\* An export that goes on leaves the chat and the folders alone.
LEMMA ExportGoesOn ==
  ASSUME ExportsInv, UNCHANGED <<installed, conversation>>, CmdShape',
         cmd'.found = cmd.found, cmd'.trusted = cmd.trusted, cmd'.plugin = cmd.plugin,
         ~cmd'.ran, cmd'.at # "plugin", cmd'.before \in Nat
  PROVE  ConversationOK' /\ InstalledOK' /\ CmdOK'
<1>1. ConversationOK' /\ InstalledOK'
  BY ConversationStays, InstalledStays DEF ExportsInv
<1>2. FoundOK(cmd.found, cmd.trusted)'
  BY CmdFoundStays DEF ExportsInv
<1> QED BY <1>1, <1>2 DEF CmdOK

\* An export that ends without a word ends in nothing but its reason.
LEMMA ExportStops ==
  ASSUME ExportsInv, UNCHANGED <<installed, conversation>>,
         \/ cmd' = [NoExport EXCEPT !.at = "done", !.why = "gone"]
         \/ cmd' = [NoExport EXCEPT !.at = "done", !.why = "disk", !.exit = 1]
  PROVE  ExportsInv'
<1>1. ConversationOK' /\ InstalledOK'
  BY ConversationStays, InstalledStays DEF ExportsInv
<1>2. /\ CmdShape' /\ cmd'.at = "done" /\ cmd'.found = {} /\ cmd'.ran = FALSE /\ cmd'.before = 0
      /\ cmd'.why = "gone" \/ (cmd'.why = "disk" /\ cmd'.exit = 1)
  BY DEF NoExport, CmdShape
<1>3. CmdOK'
  BY <1>2 DEF CmdOK, FoundOK
<1>4. Reading' /\ HistoryIsWhole' /\ PluginSucceeds'
  BY <1>2 DEF Reading, HistoryIsWhole, PluginSucceeds, Ended
<1> QED BY <1>1, <1>3, <1>4 DEF ExportsInv

\* The export begins with the messages that are saved.
LEMMA RunStep == ASSUME ExportsInv, RunExport PROVE ExportsInv'
<1>1. /\ UNCHANGED <<installed, conversation>> /\ cmd.at = "none" /\ CmdOK /\ saved \in Nat /\ saved' = saved
      /\ \/ cmd' = [cmd EXCEPT !.at = "done", !.why = "nothing"]
         \/ cmd' = [cmd EXCEPT !.at = "archive", !.before = saved]
  BY DEF RunExport, conversation, ExportsInv, ConversationOK, TalkOK
<1>2. /\ CmdShape' /\ cmd'.found = cmd.found /\ cmd'.trusted = cmd.trusted /\ cmd'.plugin = cmd.plugin
      /\ cmd'.ran = cmd.ran
      /\ \/ cmd'.at = "done" /\ cmd'.before = cmd.before /\ cmd'.why = "nothing"
         \/ cmd'.at = "archive" /\ cmd'.before = saved
  BY <1>1 DEF CmdOK, CmdShape
<1>3. ConversationOK' /\ InstalledOK' /\ CmdOK'
  BY <1>1, <1>2, ExportGoesOn DEF CmdOK
<1>4. Reading' /\ HistoryIsWhole' /\ PluginSucceeds'
  BY <1>1, <1>2 DEF Reading, HistoryIsWhole, PluginSucceeds, Ended
<1> QED BY <1>3, <1>4 DEF ExportsInv

\* The archive is read before the session's file.
LEMMA LoadStep == ASSUME ExportsInv, LoadArchiveRecords PROVE ExportsInv'
<1>1. UNCHANGED <<installed, conversation>> /\ cmd.at = "archive" /\ CmdOK
  BY DEF LoadArchiveRecords, ExportsInv
<1>2. CASE cmd' = [cmd EXCEPT !.at = "events", !.out = archive]
  <2>1. /\ CmdShape' /\ cmd'.at = "events" /\ cmd'.out = archive /\ cmd'.trusted = cmd.trusted
        /\ cmd'.plugin = cmd.plugin /\ cmd'.found = cmd.found /\ cmd'.before = cmd.before /\ cmd'.ran = cmd.ran
    BY <1>1, <1>2 DEF CmdOK, CmdShape
  <2>2. ConversationOK' /\ InstalledOK' /\ CmdOK'
    BY <1>1, <2>1, ExportGoesOn DEF CmdOK
  <2>3. UNCHANGED <<said, talk, live, archive, moving, again, early, dropped>>
    BY <1>1 DEF conversation
  <2>4. OutAhead'
    BY <2>1, <2>3 DEF ExportsInv, ConversationOK, ArchiveAhead, OutAhead
  <2>5. \A m \in 1..cmd.before : m \in Range(archive) \cup Range(live) \cup dropped
    <3>1. cmd.before <= saved /\ cmd.before \in Nat /\ saved \in Nat
      BY <1>1 DEF ExportsInv, Reading, CmdOK, ConversationOK, TalkOK
    <3>2. \A m \in 1..cmd.before : m \in 1..saved
      BY <3>1
    <3> QED BY <3>2 DEF ExportsInv, ConversationOK, NothingLost
  <2>6. Reading'
    BY <2>1, <2>3, <2>4, <2>5 DEF Reading
  <2>7. HistoryIsWhole' /\ PluginSucceeds'
    BY <2>1 DEF HistoryIsWhole, PluginSucceeds, Ended
  <2> QED BY <2>2, <2>6, <2>7 DEF ExportsInv
<1>3. CASE cmd' = [NoExport EXCEPT !.at = "done", !.why = "disk", !.exit = 1]
  BY <1>1, <1>3, ExportStops
<1> QED BY <1>2, <1>3 DEF LoadArchiveRecords

\* What is written is what was read, and then the chat's file.
LEMMA WriteStep == ASSUME ExportsInv, WriteEvents PROVE ExportsInv'
<1>1. UNCHANGED <<installed, conversation>> /\ cmd.at = "events" /\ CmdOK
  BY DEF WriteEvents, ExportsInv
<1>2. CASE cmd' = [cmd EXCEPT !.at = "done", !.out = cmd.out \o live, !.why = "written", !.doubled = moving]
  <2>1. /\ CmdShape' /\ cmd'.at = "done" /\ cmd'.out = cmd.out \o live /\ cmd'.trusted = cmd.trusted
        /\ cmd'.plugin = cmd.plugin /\ cmd'.found = cmd.found /\ cmd'.before = cmd.before /\ cmd'.ran = cmd.ran
        /\ cmd'.why = "written" /\ cmd'.doubled = moving /\ cmd'.moved = cmd.moved
    BY <1>1, <1>2 DEF CmdOK, CmdShape
  <2>2. ConversationOK' /\ InstalledOK' /\ CmdOK'
    BY <1>1, <2>1, ExportGoesOn DEF CmdOK
  <2>3. UNCHANGED <<said, live, again, early, dropped>>
    BY <1>1 DEF conversation
  <2>4. PICK all : all = cmd.out \o live
    OBVIOUS
  <2>5. OutAhead /\ cmd.out \in Seq(Nat) /\ live \in Seq(Nat)
    BY <1>1 DEF ExportsInv, Reading, OutAhead, ReadFirst, ConversationOK, TalkOK
  <2>6. all \in Seq(Nat) /\ Range(all) = Range(cmd.out) \cup Range(live)
    BY <2>4, <2>5, JoinFacts
  <2>7. InOrder(all, again \cup moving, early)
    <3>1. ReadFirst(cmd.out, said, <<>>, <<>>, {}, again \cup moving, early)
      <4>1. InOrder(cmd.out, again \cup moving, early)
        BY <2>5 DEF OutAhead, ReadFirst, InOrder, Follows
      <4>2. Range(<<>>) = {}
        BY DEF Range
      <4> QED BY <4>1, <4>2, <2>5 DEF OutAhead, ReadFirst, Precedes
    <3>2. ReadFirst(live, said, <<>>, <<>>, {}, again \cup moving, early)
      <4>1. InOrder(live, again \cup moving, early) /\ \A x \in Range(live) : x <= said
        BY DEF ExportsInv, ConversationOK, TalkOK, InOrder, Follows
      <4>2. Range(<<>>) = {}
        BY DEF Range
      <4> QED BY <4>1, <4>2, <2>5 DEF ReadFirst, Precedes
    <3>3. Precedes(Range(cmd.out), Range(live), again \cup moving, early)
      BY <2>5 DEF OutAhead, ReadFirst
    <3>4. ReadFirst(all, said, <<>>, <<>>, {}, again \cup moving, early)
      BY <2>4, <3>1, <3>2, <3>3, AheadJoin
    <3> QED BY <3>4 DEF ReadFirst
  <2>8. \A m \in 1..cmd.before : m \in Range(all) \cup dropped \cup cmd.moved
    BY <1>1, <2>6 DEF ExportsInv, Reading
  <2>9. \A x \in Range(all) : x = 0 \/ x \in 1..said
    <3>1. \A x \in Range(all) : x \in Nat /\ x <= said /\ said \in Nat
      BY <2>5, <2>6, Elements DEF OutAhead, ReadFirst, ExportsInv, ConversationOK, TalkOK
    <3> QED BY <3>1
  <2>10. HistoryIsWhole'
    <3>1. cmd'.out = all /\ cmd'.before = cmd.before /\ cmd'.before \in Nat
      BY <2>1, <2>4, <1>1 DEF CmdOK
    <3>2. 1..cmd'.before \subseteq Spoken(cmd'.out) \cup cmd'.moved \cup dropped'
      BY <2>1, <2>3, <2>8, <3>1 DEF Spoken, Summary
    <3>3. Spoken(cmd'.out) \subseteq 1..said'
      BY <2>3, <2>9, <3>1 DEF Spoken, Summary
    <3>4. ASSUME NEW i \in DOMAIN all, NEW j \in DOMAIN all, i < j, all[i] # Summary, all[j] # Summary
          PROVE  all[i] < all[j] \/ all[j] \in again \cup moving \/ all[i] \in early
      <4>1. i \in 1..Len(all) /\ j \in 1..Len(all)
        BY <2>6
      <4> QED BY <4>1, <3>4, <2>7 DEF InOrder, Follows, Summary
    <3>5. \A i, j \in DOMAIN cmd'.out :
            i < j /\ cmd'.out[i] # Summary /\ cmd'.out[j] # Summary =>
              cmd'.out[i] < cmd'.out[j] \/ cmd'.out[j] \in again' \cup cmd'.doubled \/ cmd'.out[i] \in early'
      BY <2>1, <2>3, <3>1, <3>4
    <3> QED BY <3>2, <3>3, <3>5 DEF HistoryIsWhole
  <2>11. Reading' /\ PluginSucceeds'
    BY <2>1 DEF Reading, PluginSucceeds, Ended
  <2> QED BY <2>2, <2>10, <2>11 DEF ExportsInv
<1>3. CASE \/ cmd' = [NoExport EXCEPT !.at = "done", !.why = "gone"]
           \/ cmd' = [NoExport EXCEPT !.at = "done", !.why = "disk", !.exit = 1]
  BY <1>1, <1>3, ExportStops
<1> QED BY <1>2, <1>3, Zenon DEF WriteEvents

\* The plugin of a format is one of those found.
LEMMA FindStep == ASSUME ExportsInv, FindPlugin PROVE ExportsInv'
<1>1. PICK found, plugin : found = Discover(cmd.trusted) /\ plugin = FindExporter(found, cmd.format)
  OBVIOUS
<1>2. /\ UNCHANGED <<installed, conversation>> /\ cmd.at = "asked" /\ CmdOK /\ InstalledOK
      /\ \/ cmd' = [cmd EXCEPT !.at = "done", !.found = found, !.why = "nothing"]
         \/ cmd' = [cmd EXCEPT !.at = "done", !.found = found, !.why = "unknown", !.exit = 2]
         \/ plugin # NoPlugin /\ cmd' = [cmd EXCEPT !.at = "plugin", !.found = found, !.plugin = plugin]
  BY <1>1 DEF FindPlugin, ExportsInv
<1>3. /\ CmdShape' /\ cmd'.found = found /\ cmd'.trusted = cmd.trusted /\ cmd'.before = cmd.before /\ cmd'.ran = cmd.ran
      /\ \/ cmd'.at = "done" /\ cmd'.why = "nothing"
         \/ cmd'.at = "done" /\ cmd'.why = "unknown" /\ cmd'.exit = 2
         \/ cmd'.at = "plugin" /\ cmd'.plugin = plugin /\ plugin # NoPlugin
  BY <1>2 DEF CmdOK, CmdShape
<1>4. found \subseteq installed /\ FoundOK(found, cmd.trusted) /\ plugin \in found \cup {NoPlugin}
  BY <1>1, <1>2, DiscoverFinds, ExporterIsFound
<1>5. FoundOK(cmd.found, cmd.trusted)'
  <2>1. PICK trusted : trusted = cmd.trusted /\ FoundOK(found, trusted)
    BY <1>4
  <2>2. FoundOK(found, trusted)'
    BY <1>2, <2>1, FoundStays
  <2>3. found = cmd'.found /\ trusted = cmd'.trusted
    BY <1>3, <2>1
  <2> QED BY <2>2, <2>3 DEF FoundOK
<1>6. ConversationOK' /\ InstalledOK'
  BY <1>2, ConversationStays, InstalledStays DEF ExportsInv
<1>7. CmdOK'
  BY <1>2, <1>3, <1>4, <1>5 DEF CmdOK
<1>8. Reading' /\ HistoryIsWhole' /\ PluginSucceeds'
  BY <1>3 DEF Reading, HistoryIsWhole, PluginSucceeds, Ended
<1> QED BY <1>6, <1>7, <1>8 DEF ExportsInv

\* How the run of a plugin ends.
Ran(ended, answer, runs, why) ==
  /\ why \in {"could not run", "timed out", "failed", "no answer", "reported"}
  /\ cmd' = [cmd EXCEPT !.at = "done", !.ran = runs, !.ended = ended, !.answer = answer,
                        !.exit = IF runs /\ ended = "zero" /\ answer = "ok" THEN 0 ELSE 1, !.why = why]

\* A plugin that runs is one of those found.
LEMMA ExporterStep == ASSUME ExportsInv, RunExporter PROVE ExportsInv'
<1>1. UNCHANGED <<installed, conversation>> /\ cmd.at = "plugin" /\ CmdOK
  BY DEF RunExporter, ExportsInv
<1>2. ConversationOK' /\ InstalledOK'
  BY <1>1, ConversationStays, InstalledStays DEF ExportsInv
<1>4. PICK ended, answer, runs, why : Ran(ended, answer, runs, why)
  <2>1. PICK e \in {"zero", "nonzero", "timeout"}, a \in {"ok", "not ok", "unusable"} :
          LET r == cmd.plugin \in installed
              good == r /\ e = "zero" /\ a = "ok"
          IN cmd' = [cmd EXCEPT !.at = "done", !.ran = r, !.ended = e, !.answer = a,
                                !.exit = IF good THEN 0 ELSE 1,
                                !.why = IF ~r THEN "could not run" ELSE IF e = "timeout" THEN "timed out"
                                        ELSE IF e = "nonzero" THEN "failed"
                                        ELSE IF a = "unusable" THEN "no answer" ELSE "reported"]
    BY Zenon DEF RunExporter
  <2> DEFINE r == cmd.plugin \in installed
             exit == IF r /\ e = "zero" /\ a = "ok" THEN 0 ELSE 1
             w == IF ~r THEN "could not run" ELSE IF e = "timeout" THEN "timed out"
                  ELSE IF e = "nonzero" THEN "failed"
                  ELSE IF a = "unusable" THEN "no answer" ELSE "reported"
  <2>2. cmd' = [cmd EXCEPT !.at = "done", !.ran = r, !.ended = e, !.answer = a, !.exit = exit, !.why = w]
    BY <2>1, Zenon
  <2>3. w \in {"could not run", "timed out", "failed", "no answer", "reported"}
    OBVIOUS
  <2>4. Ran(e, a, r, w)
    BY <2>2, <2>3, Zenon DEF Ran
  <2> QED BY <2>4, Zenon
<1>5. /\ CmdShape' /\ cmd'.at = "done" /\ cmd'.trusted = cmd.trusted /\ cmd'.plugin = cmd.plugin
      /\ cmd'.found = cmd.found /\ cmd'.before = cmd.before /\ cmd'.why = why
      /\ cmd'.ended = ended /\ cmd'.answer = answer
      /\ cmd'.exit = IF runs /\ ended = "zero" /\ answer = "ok" THEN 0 ELSE 1
  BY <1>1, <1>4 DEF CmdOK, CmdShape, Ran
<1>6. CmdOK'
  <2>1. FoundOK(cmd.found, cmd.trusted)'
    BY <1>1, <1>5, CmdFoundStays
  <2> QED BY <2>1, <1>1, <1>5 DEF CmdOK
<1>7. Reading' /\ HistoryIsWhole' /\ PluginSucceeds'
  <2>1. why # "written" /\ cmd'.at = "done"
    BY <1>4, <1>5 DEF Ran
  <2> QED BY <2>1, <1>5 DEF Reading, HistoryIsWhole, PluginSucceeds, Ended
<1> QED BY <1>2, <1>6, <1>7 DEF ExportsInv

\* A plugin that is replaced loads no more.
LEMMA ReplaceStep == ASSUME ExportsInv, ReplacePlugin PROVE ExportsInv'
<1>1. UNCHANGED <<conversation, cmd>> /\ cmd.at = "plugin"
  BY DEF ReplacePlugin
<1>2. ConversationOK' /\ Reading' /\ HistoryIsWhole' /\ PluginSucceeds'
  BY <1>1, ConversationStays DEF ExportsInv, Reading, HistoryIsWhole, PluginSucceeds, Ended
<1>3. PICK p \in installed : p.command = "inside" /\ installed' = (installed \ {p}) \cup {[p EXCEPT !.command = "outside"]}
  BY DEF ReplacePlugin
<1>4. PICK r : r = [p EXCEPT !.command = "outside"]
  OBVIOUS
<1>5. /\ r = [place |-> r.place, dir |-> r.dir, name |-> r.name, ids |-> r.ids, command |-> r.command]
      /\ r.place = p.place /\ r.dir = p.dir /\ r.name = p.name /\ r.command = "outside"
  BY <1>3, <1>4 DEF ExportsInv, InstalledOK
<1>6. installed' = (installed \ {p}) \cup {r}
  BY <1>3, <1>4
<1>7. InstalledOK'
  <2>1. \A q \in installed' : /\ q = [place |-> q.place, dir |-> q.dir, name |-> q.name, ids |-> q.ids, command |-> q.command]
                              /\ q.place \in {"home", "project"} /\ q.dir \in Nat /\ q.name \in Nat
    BY <1>3, <1>5, <1>6 DEF ExportsInv, InstalledOK
  <2>2. \A q, s \in installed' : q.place = s.place /\ q.dir = s.dir => q = s
    BY <1>3, <1>5, <1>6 DEF ExportsInv, InstalledOK
  <2> QED BY <2>1, <2>2, Zenon DEF InstalledOK
<1>8. \A q \in installed' : ManifestLoads(q) => q \in installed
  BY <1>5, <1>6 DEF ManifestLoads, CommandRuns
<1>9. CmdOK'
  <2>1. CmdOK
    BY DEF ExportsInv
  <2>2. FoundOK(cmd.found, cmd.trusted)'
    BY <1>1, <1>8, <2>1, CmdFoundStays
  <2> QED BY <2>1, <2>2, <1>1 DEF CmdOK, CmdShape
<1> QED BY <1>2, <1>7, <1>9 DEF ExportsInv

\* Every step keeps the invariant of the exports.
LEMMA ExportsStep == ExportsInv /\ [ExportsNext]_exportVars => ExportsInv'
<1> SUFFICES ASSUME ExportsInv, [ExportsNext]_exportVars PROVE ExportsInv'
  OBVIOUS
<1>1. CASE UNCHANGED exportVars
  <2>1. UNCHANGED <<installed, conversation, cmd>>
    BY <1>1 DEF exportVars
  <2>2. ConversationOK' /\ InstalledOK'
    BY <2>1, ConversationStays, InstalledStays DEF ExportsInv
  <2>3. CmdOK' /\ PluginSucceeds'
    BY <2>1, Zenon DEF ExportsInv, CmdOK, CmdShape, FoundOK, PluginSucceeds, Ended
  <2>4. Reading' /\ HistoryIsWhole'
    BY <2>1, Zenon DEF ExportsInv, conversation, Reading, OutAhead, HistoryIsWhole, Ended
  <2> QED BY <2>2, <2>3, <2>4 DEF ExportsInv
<1> QED BY <1>1, ChatSteps, RunStep, FindStep, LoadStep, WriteStep, ExporterStep, ReplaceStep DEF ExportsNext

\* What the invariant says is what the run checks.
LEMMA ExportsInvHolds == ExportsInv => ExportsHold
<1> SUFFICES ASSUME ExportsInv PROVE ExportsHold
  OBVIOUS
<1>1. PluginIsOwn
  BY DEF ExportsInv, CmdOK, FoundOK, PluginIsOwn
<1> QED BY <1>1 DEF ExportsInv, ExportsHold

-----------------------------------------------------------------------------
(* The servers and the routes of their tools (McpManager) *)

ToolSet == [name : Seq(STRING), hint : BOOLEAN]
ServerSet == [name : Seq(STRING), readOnly : BOOLEAN, tools : Seq(ToolSet)]
Up(i) == results[i] = "connected"
NameOf(i, k) == Qualified(configs[i].name, Tools(i)[k])

ManagerTypes ==
  /\ configs \in Seq(ServerSet)
  /\ results \in [1..Len(configs) -> {"waiting", "failed", "connected"}]
  /\ mphase \in {"new", "connecting", "started", "closed"}
  /\ mphase \in {"new", "connecting"} => toolMap = <<>> /\ shown = {} /\ routed = NoClient
  /\ mphase = "new" => configs = <<>>

\* Once they are started, the servers that answered are the clients, under
\* their own names, and their tools are those that have a route, to them.
TrustIsOwn == mphase # "new" => \A i \in 1..Len(configs) : trust[configs[i].name] = configs[i].readOnly
ClientsAreUp ==
  mphase \in {"started", "closed"} =>
    \A i \in 1..Len(configs) : clients[configs[i].name] = IF Up(i) THEN i ELSE NoClient
RoutesLead ==
  mphase \in {"started", "closed"} =>
    /\ \A q \in DOMAIN toolMap : \E i \in 1..Len(configs) : \E k \in DOMAIN Tools(i) :
         Up(i) /\ q = NameOf(i, k) /\ toolMap[q] = configs[i].name
    /\ \A i \in 1..Len(configs) : \A k \in DOMAIN Tools(i) : Up(i) => NameOf(i, k) \in DOMAIN toolMap

\* What the model was shown, and what it has called, is a tool of a server that
\* is up, each under its name.
IsTool(d, i, k) == d.name = NameOf(i, k) /\ d.client = i /\ d.at = k
ShownAreTools ==
  /\ \A d \in shown : d = [name |-> d.name, client |-> d.client, at |-> d.at]
  /\ \A d \in shown : \E i \in 1..Len(configs) : \E k \in DOMAIN Tools(i) : Up(i) /\ IsTool(d, i, k)
Called(r, i, k) ==
  /\ r.name = NameOf(i, k) /\ r.client = i /\ r.tool = Tools(i)[k].name
  /\ r.quiet => configs[i].readOnly \/ Tools(i)[k].hint
RoutedIsTool ==
  routed # NoClient => \E i \in 1..Len(configs) : \E k \in DOMAIN Tools(i) : Up(i) /\ Called(routed, i, k)

ManagerInv ==
  /\ ManagerTypes
  /\ Distinct => TrustIsOwn /\ ClientsAreUp /\ RoutesLead /\ ShownAreTools /\ RoutedIsTool

\* What follows the name of the server is the name of the tool.
LEMMA CutName ==
  ASSUME NEW S, NEW s \in Seq(S), NEW t \in Seq(S)
  PROVE  SubSeq(s \o t, Len(s) + 1, Len(s \o t)) = t
<1> DEFINE u == s \o t
           n == Len(s)
           w == SubSeq(u, n + 1, Len(u))
<1>1. u \in Seq(S) /\ n \in Nat /\ Len(t) \in Nat /\ Len(u) = n + Len(t) /\ \A i \in 1..Len(t) : u[n + i] = t[i]
  OBVIOUS
<1> HIDE DEF u, n
<1>2. n + 1 \in 1..Len(u) + 1
  BY <1>1
<1>3. /\ w \in Seq(S) /\ Len(w) = Len(u) - (n + 1) + 1
      /\ \A k \in 1..(Len(u) - (n + 1) + 1) : w[k] = u[n + 1 + k - 1]
  BY <1>1, <1>2, RestFacts
<1> HIDE DEF w
<1>4. Len(u) - (n + 1) + 1 = Len(t)
  BY <1>1
<1>5. \A k \in 1..Len(t) : n + 1 + k - 1 = n + k
  BY <1>1
<1>6. \A k \in 1..Len(t) : w[k] = t[k]
  BY <1>1, <1>3, <1>4, <1>5
<1>7. w = t
  BY <1>3, <1>4, <1>6, SeqEqual
<1> QED BY <1>7 DEF w, u, n

\* The servers and their tools have the shape of the configurations.
LEMMA ServersAreOK ==
  ASSUME configs \in Seq(ServerSet)
  PROVE  /\ Len(configs) \in Nat
         /\ \A i \in 1..Len(configs) :
              /\ configs[i].name \in Seq(STRING) /\ Tools(i) \in Seq(ToolSet)
              /\ DOMAIN Tools(i) = 1..Len(Tools(i)) /\ Len(Tools(i)) \in Nat
              /\ \A k \in DOMAIN Tools(i) : Tools(i)[k].name \in Seq(STRING)
<1>1. Len(configs) \in Nat /\ \A i \in 1..Len(configs) : configs[i] \in ServerSet
  OBVIOUS
<1>2. ASSUME NEW i \in 1..Len(configs)
      PROVE  configs[i].name \in Seq(STRING) /\ Tools(i) \in Seq(ToolSet)
  BY <1>1 DEF ServerSet, Tools
<1>3. ASSUME NEW i \in 1..Len(configs)
      PROVE  /\ DOMAIN Tools(i) = 1..Len(Tools(i)) /\ Len(Tools(i)) \in Nat
             /\ \A k \in DOMAIN Tools(i) : Tools(i)[k].name \in Seq(STRING)
  <2>1. PICK ts \in Seq(ToolSet) : ts = Tools(i)
    BY <1>2
  <2>2. DOMAIN ts = 1..Len(ts) /\ Len(ts) \in Nat /\ \A k \in DOMAIN ts : ts[k] \in ToolSet
    OBVIOUS
  <2> QED BY <2>1, <2>2 DEF ToolSet
<1> QED BY <1>1, <1>2, <1>3

\* The manager begins with nothing.
LEMMA ManagerStarts == ManagerInit => ManagerInv
<1> SUFFICES ASSUME ManagerInit PROVE ManagerInv
  OBVIOUS
<1>1. /\ configs = <<>> /\ results = <<>> /\ toolMap = <<>> /\ mphase = "new" /\ shown = {} /\ routed = NoClient
  BY DEF ManagerInit
<1>2. ManagerTypes
  BY <1>1 DEF ManagerTypes
<1>3. TrustIsOwn /\ ClientsAreUp /\ RoutesLead /\ ShownAreTools /\ RoutedIsTool
  BY <1>1 DEF TrustIsOwn, ClientsAreUp, RoutesLead, ShownAreTools, RoutedIsTool
<1> QED BY <1>2, <1>3 DEF ManagerInv

\* The names are told apart as long as the configurations are the same.
LEMMA DistinctStays == ASSUME UNCHANGED configs PROVE Distinct' => Distinct
<1> DEFINE Apart(c) == \A i, j \in 1..Len(c) :
             /\ c[i].name = c[j].name => i = j
             /\ \A k \in DOMAIN c[i].tools, l \in DOMAIN c[j].tools :
                  c[i].name \o c[i].tools[k].name = c[j].name \o c[j].tools[l].name => i = j /\ k = l
<1>1. Distinct <=> Apart(configs)
  BY Zenon DEF Distinct, Qualified, Tools
<1>2. Distinct' <=> Apart(configs')
  BY Zenon DEF Distinct, Qualified, Tools
<1> HIDE DEF Apart
<1>3. configs' = configs
  OBVIOUS
<1> QED BY <1>1, <1>2, <1>3, Zenon

\* What holds of the servers holds after a step that leaves them alone.
LEMMA ServersStay ==
  ASSUME ManagerInv, UNCHANGED <<configs, results, clients, toolMap, trust, mphase>>
  PROVE  /\ Distinct' => Distinct
         /\ Distinct => TrustIsOwn' /\ ClientsAreUp' /\ RoutesLead'
<1>1. Distinct' => Distinct
  BY DistinctStays
<1>2. ASSUME Distinct PROVE TrustIsOwn /\ ClientsAreUp /\ RoutesLead
  BY <1>2 DEF ManagerInv
<1>3. ASSUME Distinct PROVE TrustIsOwn'
  BY <1>2, <1>3, Zenon DEF TrustIsOwn
<1>4. ASSUME Distinct PROVE ClientsAreUp'
  BY <1>2, <1>4, Zenon DEF ClientsAreUp, Up
<1>5. ASSUME Distinct PROVE RoutesLead'
  BY <1>2, <1>5, Zenon DEF RoutesLead, Up, NameOf, Tools, Qualified
<1> QED BY <1>1, <1>3, <1>4, <1>5

\* A start notes the trust of every configured server.
LEMMA StartServers == ASSUME ManagerInv, Start PROVE ManagerInv'
<1>1. /\ mphase' = "connecting" /\ configs' \in ConfigLists /\ mphase = "new"
      /\ results' = [i \in 1..Len(configs') |-> "waiting"]
      /\ UNCHANGED <<toolMap, shown, routed>>
  BY DEF Start
<1>2. configs' \in Seq(ServerSet)
  BY <1>1, ManagerAssumption DEF ServerSet, ToolSet
<1>3. toolMap' = <<>> /\ shown' = {} /\ routed' = NoClient
  BY <1>1 DEF ManagerInv, ManagerTypes
<1>4. ManagerTypes'
  BY <1>1, <1>2, <1>3 DEF ManagerTypes
<1>5. ASSUME Distinct', NEW i \in 1..Len(configs') PROVE trust'[configs'[i].name] = configs'[i].readOnly
  <2> DEFINE names == {configs'[j].name : j \in 1..Len(configs')}
             last(s) == CHOOSE j \in 1..Len(configs') :
                          /\ configs'[j].name = s
                          /\ \A k \in (j + 1)..Len(configs') : configs'[k].name # s
             n == configs'[i].name
  <2>1. trust' = [s \in names |-> configs'[last(s)].readOnly]
    BY Zenon DEF Start
  <2>2. n \in names
    OBVIOUS
  <2>3. \A j \in 1..Len(configs') : configs'[j].name = n => i = j
    BY <1>5 DEF Distinct
  <2>4. Len(configs') \in Nat
    BY <1>2
  <2>5. \A k \in (i + 1)..Len(configs') : k \in 1..Len(configs') /\ k # i
    BY <2>4
  <2>6. \A k \in (i + 1)..Len(configs') : configs'[k].name # n
    BY <2>3, <2>5
  <2>7. last(n) = i
    <3>1. last(n) \in 1..Len(configs') /\ configs'[last(n)].name = n
      BY <2>6
    <3> QED BY <3>1, <2>3
  <2>8. trust'[n] = configs'[last(n)].readOnly
    <3> HIDE DEF names, last, n
    <3> QED BY <2>1, <2>2
  <2> QED BY <2>7, <2>8
<1>6. Distinct' => TrustIsOwn'
  BY <1>5 DEF TrustIsOwn
<1>7. ClientsAreUp' /\ RoutesLead' /\ ShownAreTools' /\ RoutedIsTool'
  BY <1>1, <1>3 DEF ClientsAreUp, RoutesLead, ShownAreTools, RoutedIsTool
<1> QED BY <1>4, <1>6, <1>7 DEF ManagerInv

\* A server that answers, or does not, changes nothing but that.
LEMMA ConnectServers == ASSUME ManagerInv, NEW i \in 1..Len(results), Connect(i) PROVE ManagerInv'
<1>1. /\ mphase = "connecting" /\ UNCHANGED <<configs, clients, toolMap, trust, mphase, shown, routed>>
  BY DEF Connect
<1>2. PICK r \in {"failed", "connected"} : results' = [results EXCEPT ![i] = r]
  BY DEF Connect
<1>3. ManagerTypes'
  BY <1>1, <1>2 DEF ManagerInv, ManagerTypes
<1>4. Distinct' => TrustIsOwn'
  <2>1. Distinct' => Distinct
    BY <1>1, DistinctStays
  <2> QED BY <2>1, <1>1, Zenon DEF ManagerInv, TrustIsOwn
<1>5. toolMap' = <<>> /\ shown' = {} /\ routed' = NoClient
  BY <1>1 DEF ManagerInv, ManagerTypes
<1>6. ClientsAreUp' /\ RoutesLead' /\ ShownAreTools' /\ RoutedIsTool'
  BY <1>1, <1>5 DEF ClientsAreUp, RoutesLead, ShownAreTools, RoutedIsTool
<1> QED BY <1>3, <1>4, <1>6 DEF ManagerInv

\* The names of the tools of a server that is up, as Register takes them.
ToolNames(i) == IF Up(i) THEN {Qualified(configs[i].name, t) : t \in ToSet(Tools(i))} ELSE {}
Owners(q) == {i \in 1..Len(configs) : q \in ToolNames(i)}

\* Of servers that are told apart a tool's name has one owner.
LEMMA OneOwner ==
  ASSUME Distinct, NEW i \in 1..Len(configs), NEW k \in DOMAIN Tools(i), Up(i)
  PROVE  Owners(NameOf(i, k)) = {i}
<1> DEFINE q == NameOf(i, k)
<1>1. q \in ToolNames(i)
  BY DEF ToolNames, ToSet, NameOf
<1>2. ASSUME NEW j \in 1..Len(configs), q \in ToolNames(j) PROVE j = i
  <2>1. PICK t \in ToSet(Tools(j)) : q = Qualified(configs[j].name, t)
    BY <1>2 DEF ToolNames
  <2>2. PICK l \in DOMAIN Tools(j) : t = Tools(j)[l]
    BY <2>1 DEF ToSet
  <2>3. Qualified(configs[j].name, Tools(j)[l]) = Qualified(configs[i].name, Tools(i)[k])
    BY <2>1, <2>2 DEF NameOf
  <2> HIDE DEF q
  <2> QED BY <2>2, <2>3, Zenon DEF Distinct
<1> QED BY <1>1, <1>2 DEF Owners

\* When all have answered, each server that did is the client of its name, and
\* its tools lead to it.
LEMMA RegisterServers == ASSUME ManagerInv, Register PROVE ManagerInv'
<1>1. /\ mphase = "connecting" /\ mphase' = "started" /\ UNCHANGED <<configs, results, trust, shown, routed>>
  BY DEF Register
<1>2. ManagerTypes'
  BY <1>1 DEF ManagerInv, ManagerTypes
<1>3. Distinct' => Distinct
  BY <1>1, DistinctStays
<1>4. shown' = {} /\ routed' = NoClient
  BY <1>1 DEF ManagerInv, ManagerTypes
<1>5. Distinct => TrustIsOwn' /\ ShownAreTools' /\ RoutedIsTool'
  BY <1>1, <1>4 DEF ManagerInv, TrustIsOwn, ShownAreTools, RoutedIsTool
<1>6. ASSUME Distinct, NEW i \in 1..Len(configs)
      PROVE  clients'[configs[i].name] = IF Up(i) THEN i ELSE NoClient
  <2> DEFINE ok(s) == {j \in 1..Len(configs) : configs[j].name = s /\ results[j] = "connected"}
             latest(S) == CHOOSE j \in S : \A k \in S : k <= j
             n == configs[i].name
  <2>1. clients' = [s \in Configured |-> IF ok(s) = {} THEN NoClient ELSE latest(ok(s))]
    BY Zenon DEF Register
  <2>2. n \in Configured
    BY DEF Configured
  <2>3. \A j \in 1..Len(configs) : configs[j].name = n => i = j
    BY <1>6 DEF Distinct
  <2>4. ok(n) = IF Up(i) THEN {i} ELSE {}
    BY <2>3 DEF Up
  <2>5. latest({i}) = i
    OBVIOUS
  <2> HIDE DEF ok, latest, n
  <2>6. clients'[n] = IF ok(n) = {} THEN NoClient ELSE latest(ok(n))
    BY <2>1, <2>2
  <2>7. clients'[n] = IF Up(i) THEN i ELSE NoClient
    BY <2>4, <2>5, <2>6
  <2> QED BY <2>7 DEF n
<1>7. Distinct => ClientsAreUp'
  BY <1>1, <1>6, Zenon DEF ClientsAreUp, Up
<1>8. /\ DOMAIN toolMap' = UNION {ToolNames(i) : i \in 1..Len(configs)}
      /\ \A q \in DOMAIN toolMap' : toolMap'[q] = configs[CHOOSE i \in Owners(q) : \A j \in Owners(q) : j <= i].name
  <2> DEFINE names(i) == IF results[i] = "connected"
                         THEN {Qualified(configs[i].name, t) : t \in ToSet(Tools(i))} ELSE {}
             owners(q) == {i \in 1..Len(configs) : q \in names(i)}
             latest(S) == CHOOSE i \in S : \A j \in S : j <= i
  <2>1. toolMap' = [q \in UNION {names(i) : i \in 1..Len(configs)} |-> configs[latest(owners(q))].name]
    BY Zenon DEF Register
  <2>2. \A i : names(i) = ToolNames(i)
    BY Zenon DEF ToolNames, Up
  <2>3. \A q : owners(q) = Owners(q)
    BY <2>2 DEF Owners
  <2>4. {names(i) : i \in 1..Len(configs)} = {ToolNames(i) : i \in 1..Len(configs)}
    BY <2>2
  <2> HIDE DEF names, owners
  <2>5. /\ DOMAIN toolMap' = UNION {names(i) : i \in 1..Len(configs)}
        /\ \A q \in DOMAIN toolMap' : toolMap'[q] = configs[latest(owners(q))].name
    BY <2>1
  <2> QED BY <2>3, <2>4, <2>5
<1>9. ASSUME Distinct, NEW i \in 1..Len(configs), NEW k \in DOMAIN Tools(i), Up(i)
      PROVE  NameOf(i, k) \in DOMAIN toolMap' /\ toolMap'[NameOf(i, k)] = configs[i].name
  <2>1. NameOf(i, k) \in ToolNames(i)
    BY <1>9 DEF ToolNames, ToSet, NameOf
  <2>2. NameOf(i, k) \in DOMAIN toolMap'
    BY <1>8, <2>1
  <2>3. Owners(NameOf(i, k)) = {i}
    BY <1>9, OneOwner
  <2>4. (CHOOSE j \in {i} : \A l \in {i} : l <= j) = i
    OBVIOUS
  <2> QED BY <1>8, <2>2, <2>3, <2>4
<1>10. ASSUME Distinct, NEW q \in DOMAIN toolMap'
       PROVE  \E i \in 1..Len(configs) : \E k \in DOMAIN Tools(i) :
                Up(i) /\ q = NameOf(i, k) /\ toolMap'[q] = configs[i].name
  <2>1. PICK i \in 1..Len(configs) : q \in ToolNames(i)
    BY <1>8, <1>10
  <2>2. Up(i)
    BY <2>1 DEF ToolNames
  <2>3. PICK t \in ToSet(Tools(i)) : q = Qualified(configs[i].name, t)
    BY <2>1, <2>2 DEF ToolNames
  <2>4. PICK k \in DOMAIN Tools(i) : t = Tools(i)[k]
    BY <2>3 DEF ToSet
  <2>5. q = NameOf(i, k)
    BY <2>3, <2>4 DEF NameOf
  <2> QED BY <1>9, <1>10, <2>2, <2>5
<1>11. Distinct => RoutesLead'
  BY <1>1, <1>9, <1>10, Zenon DEF RoutesLead, Up, NameOf, Tools, Qualified
<1> QED BY <1>2, <1>3, <1>5, <1>7, <1>11 DEF ManagerInv

\* What was shown and called stays a tool of its server.
LEMMA ToolsStay ==
  ASSUME ManagerInv, Distinct, UNCHANGED <<configs, results>>
  PROVE  /\ UNCHANGED shown => ShownAreTools'
         /\ UNCHANGED routed => RoutedIsTool'
<1>1. ShownAreTools /\ RoutedIsTool
  BY DEF ManagerInv
<1>2. ASSUME UNCHANGED shown PROVE ShownAreTools'
  BY <1>1, <1>2, Zenon DEF ShownAreTools, IsTool, Up, NameOf, Tools, Qualified
<1>3. ASSUME UNCHANGED routed PROVE RoutedIsTool'
  BY <1>1, <1>3, Zenon DEF RoutedIsTool, Called, Up, NameOf, Tools, Qualified
<1> QED BY <1>2, <1>3

\* The servers with a client are those that are up, under their own names.
LEMMA NamesAreUp ==
  ASSUME ManagerInv, Distinct, mphase = "started"
  PROVE  \A s \in ServerNames : \E i \in 1..Len(configs) : Up(i) /\ s = configs[i].name /\ clients[s] = i
<1>1. ClientsAreUp
  BY DEF ManagerInv
<1> QED BY <1>1, ZenonT(40) DEF ClientsAreUp, ServerNames, Configured

\* What the model is shown are tools of servers that are up.
LEMMA CompactServers == ASSUME ManagerInv, CompactToolDefinitions PROVE ManagerInv'
<1>1. mphase = "started" /\ UNCHANGED <<configs, results, clients, toolMap, trust, mphase, routed>>
  BY DEF CompactToolDefinitions
<1>2. PICK large \in BOOLEAN : shown' = Compact(large)
  BY DEF CompactToolDefinitions
<1>3. ManagerTypes'
  BY <1>1 DEF ManagerInv, ManagerTypes
<1>4. ASSUME NEW d \in shown'
      PROVE  \E s \in ServerNames : \E k \in DOMAIN Tools(clients[s]) : d = Definition(s, k)
  BY <1>2, <1>4 DEF Compact, Offered
<1>5. \A d \in shown' : d = [name |-> d.name, client |-> d.client, at |-> d.at]
  BY <1>4 DEF Definition
<1>6. ASSUME Distinct, NEW d \in shown'
      PROVE  \E i \in 1..Len(configs) : \E k \in DOMAIN Tools(i) : Up(i) /\ IsTool(d, i, k)
  <2>1. PICK s \in ServerNames : \E k \in DOMAIN Tools(clients[s]) : d = Definition(s, k)
    BY <1>4, <1>6
  <2>2. PICK i \in 1..Len(configs) : Up(i) /\ s = configs[i].name /\ clients[s] = i
    BY <1>1, <1>6, NamesAreUp
  <2>3. PICK k \in DOMAIN Tools(i) : d = Definition(s, k)
    BY <2>1, <2>2
  <2>4. IsTool(d, i, k)
    BY <2>2, <2>3 DEF IsTool, Definition, NameOf
  <2> QED BY <2>2, <2>4
<1>7. Distinct => ShownAreTools'
  BY <1>1, <1>5, <1>6, Zenon DEF ShownAreTools, IsTool, Up, NameOf, Tools, Qualified
<1> QED BY <1>1, <1>3, <1>7, ServersStay, ToolsStay DEF ManagerInv

\* A call goes to the tool whose name it is, and unasked only if it may.
LEMMA ExecuteServers == ASSUME ManagerInv, NEW q \in DOMAIN toolMap, Execute(q) PROVE ManagerInv'
<1>1. mphase = "started" /\ UNCHANGED <<configs, results, clients, toolMap, trust, mphase, shown>>
  BY DEF Execute
<1>2. routed' = [name |-> q, client |-> clients[toolMap[q]],
                 tool |-> SubSeq(q, Len(toolMap[q]) + 1, Len(q)), quiet |-> IsReadOnlyTool(q)]
  BY DEF Execute
<1>3. ManagerTypes'
  BY <1>1 DEF ManagerInv, ManagerTypes
<1>4. ASSUME Distinct
      PROVE  \E i \in 1..Len(configs) : \E k \in DOMAIN Tools(i) : Up(i) /\ Called(routed', i, k)
  <2>1. PICK i \in 1..Len(configs) : \E k \in DOMAIN Tools(i) :
          Up(i) /\ q = NameOf(i, k) /\ toolMap[q] = configs[i].name
    BY <1>1, <1>4 DEF ManagerInv, RoutesLead
  <2>2. PICK k \in DOMAIN Tools(i) : Up(i) /\ q = NameOf(i, k) /\ toolMap[q] = configs[i].name
    BY <2>1
  <2> DEFINE s == configs[i].name
             t == Tools(i)[k]
  <2>3. clients[s] = i /\ trust[s] = configs[i].readOnly
    BY <1>1, <1>4, <2>2 DEF ManagerInv, ClientsAreUp, TrustIsOwn
  <2>4. s \in Seq(STRING) /\ t.name \in Seq(STRING)
    BY ServersAreOK DEF ManagerInv, ManagerTypes
  <2>5. routed'.name = q /\ routed'.client = i /\ routed'.quiet = IsReadOnlyTool(q)
        /\ routed'.tool = SubSeq(q, Len(s) + 1, Len(q))
    BY <1>2, <2>2, <2>3
  <2>6. q = s \o t.name
    BY <2>2 DEF NameOf, Qualified
  <2>7. routed'.tool = t.name
    <3> HIDE DEF s, t
    <3> QED BY <2>4, <2>5, <2>6, CutName
  <2>8. ASSUME IsReadOnlyTool(q) PROVE configs[i].readOnly \/ t.hint
    <3>1. CASE trust[s]
      BY <3>1, <2>3
    <3>2. CASE ~trust[s]
      <4>1. PICK j \in DOMAIN Tools(i) : Qualified(s, Tools(i)[j]) = q /\ Tools(i)[j].hint
        BY <2>2, <2>3, <2>8, <3>2 DEF IsReadOnlyTool
      <4>2. j = k
        BY <1>4, <2>2, <4>1 DEF Distinct, NameOf
      <4> QED BY <4>1, <4>2
    <3> QED BY <3>1, <3>2
  <2>9. Called(routed', i, k)
    BY <2>2, <2>5, <2>7, <2>8 DEF Called
  <2> QED BY <2>2, <2>9
<1>5. Distinct => RoutedIsTool'
  BY <1>1, <1>4, Zenon DEF RoutedIsTool, Called, Up, NameOf, Tools, Qualified
<1> QED BY <1>1, <1>3, <1>5, ServersStay, ToolsStay DEF ManagerInv

\* Every step keeps the invariant of the servers.
LEMMA ManagerStep == ManagerInv /\ [ManagerNext]_managerVars => ManagerInv'
<1> SUFFICES ASSUME ManagerInv, [ManagerNext]_managerVars PROVE ManagerInv'
  OBVIOUS
<1>1. CASE UNCHANGED managerVars
  <2>1. UNCHANGED <<configs, results, clients, toolMap, trust, mphase, shown, routed>>
    BY <1>1 DEF managerVars
  <2>2. ManagerTypes'
    BY <2>1 DEF ManagerInv, ManagerTypes
  <2> QED BY <2>1, <2>2, ServersStay, ToolsStay DEF ManagerInv
<1>2. CASE CloseManager
  <2>1. /\ UNCHANGED <<configs, results, clients, toolMap, trust, shown, routed>>
        /\ mphase = "started" /\ mphase' = "closed"
    BY <1>2 DEF CloseManager
  <2>2. ManagerTypes'
    BY <2>1 DEF ManagerInv, ManagerTypes
  <2>3. Distinct' => Distinct
    BY <2>1, DistinctStays
  <2>4. ASSUME Distinct PROVE TrustIsOwn' /\ ClientsAreUp' /\ RoutesLead'
    <3>1. TrustIsOwn /\ ClientsAreUp /\ RoutesLead
      BY <2>4 DEF ManagerInv
    <3>2. TrustIsOwn'
      BY <2>1, <3>1 DEF TrustIsOwn
    <3>3. ClientsAreUp'
      BY <2>1, <3>1 DEF ClientsAreUp, Up
    <3>4. RoutesLead'
      BY <2>1, <3>1, Zenon DEF RoutesLead, Up, NameOf, Tools, Qualified
    <3> QED BY <3>2, <3>3, <3>4
  <2> QED BY <2>1, <2>2, <2>3, <2>4, ToolsStay DEF ManagerInv
<1> QED BY <1>1, <1>2, StartServers, ConnectServers, RegisterServers, CompactServers, ExecuteServers
        DEF ManagerNext

\* Two tools are not of one name.
LEMMA OneName ==
  ASSUME Distinct, NEW i \in 1..Len(configs), NEW j \in 1..Len(configs),
         NEW k \in DOMAIN Tools(i), NEW l \in DOMAIN Tools(j), NameOf(i, k) = NameOf(j, l)
  PROVE  i = j /\ k = l
<1>1. Qualified(configs[i].name, Tools(i)[k]) = Qualified(configs[j].name, Tools(j)[l])
  BY Zenon DEF NameOf
<1>2. \A a \in DOMAIN Tools(i), b \in DOMAIN Tools(j) :
        Qualified(configs[i].name, Tools(i)[a]) = Qualified(configs[j].name, Tools(j)[b]) => i = j /\ a = b
  BY DEF Distinct
<1> QED BY <1>1, <1>2

\* What the invariant says is what the run checks.
LEMMA ManagerInvHolds == ManagerInv => RouteIsOwn
<1> SUFFICES ASSUME ManagerInv, Distinct PROVE RouteIsOwn
  BY DEF RouteIsOwn
<1>1. ClientsAreUp /\ RoutesLead /\ ShownAreTools /\ RoutedIsTool
  BY DEF ManagerInv
<1>2. ASSUME routed # NoClient
      PROVE  /\ \E t \in ToSet(Tools(routed.client)) :
                  t.name = routed.tool /\ (routed.quiet => configs[routed.client].readOnly \/ t.hint)
             /\ \A d \in shown : d.name = routed.name =>
                  d.client = routed.client /\ Tools(d.client)[d.at].name = routed.tool
  <2>1. PICK i \in 1..Len(configs) : \E k \in DOMAIN Tools(i) : Up(i) /\ Called(routed, i, k)
    BY <1>1, <1>2 DEF RoutedIsTool
  <2>2. PICK k \in DOMAIN Tools(i) : Up(i) /\ Called(routed, i, k)
    BY <2>1
  <2>3. Tools(i)[k] \in ToSet(Tools(routed.client))
    BY <2>2 DEF Called, ToSet
  <2>4. ASSUME NEW d \in shown, d.name = routed.name
        PROVE  d.client = routed.client /\ Tools(d.client)[d.at].name = routed.tool
    <3>1. PICK j \in 1..Len(configs) : \E l \in DOMAIN Tools(j) : Up(j) /\ IsTool(d, j, l)
      BY <1>1 DEF ShownAreTools
    <3>2. PICK l \in DOMAIN Tools(j) : IsTool(d, j, l)
      BY <3>1
    <3>3. i = j /\ k = l
      <4>1. NameOf(i, k) = NameOf(j, l)
        BY <2>2, <2>4, <3>2 DEF IsTool, Called
      <4> QED BY <4>1, OneName
    <3> QED BY <2>2, <3>2, <3>3 DEF IsTool, Called
  <2> QED BY <2>2, <2>3, <2>4 DEF Called
<1>3. ASSUME NEW d \in shown, NEW e \in shown, d.name = e.name PROVE d = e
  <2>1. PICK i \in 1..Len(configs) : \E k \in DOMAIN Tools(i) : IsTool(d, i, k)
    BY <1>1 DEF ShownAreTools
  <2>2. PICK k \in DOMAIN Tools(i) : IsTool(d, i, k)
    BY <2>1
  <2>3. PICK j \in 1..Len(configs) : \E l \in DOMAIN Tools(j) : IsTool(e, j, l)
    BY <1>1 DEF ShownAreTools
  <2>4. PICK l \in DOMAIN Tools(j) : IsTool(e, j, l)
    BY <2>3
  <2>5. i = j /\ k = l
    <3>1. NameOf(i, k) = NameOf(j, l)
      BY <1>3, <2>2, <2>4 DEF IsTool
    <3> QED BY <3>1, OneName
  <2>6. d = [name |-> d.name, client |-> d.client, at |-> d.at] /\ e = [name |-> e.name, client |-> e.client, at |-> e.at]
    BY <1>1 DEF ShownAreTools
  <2>7. d.name = e.name /\ d.client = e.client /\ d.at = e.at
    BY <1>3, <2>2, <2>4, <2>5 DEF IsTool
  <2> QED BY <2>6, <2>7
<1>4. ASSUME NEW d \in shown PROVE mphase \in {"started", "closed"} /\ IsMCPTool(d.name)
  <2>1. PICK i \in 1..Len(configs) : \E k \in DOMAIN Tools(i) : Up(i) /\ IsTool(d, i, k)
    BY <1>1 DEF ShownAreTools
  <2>2. PICK k \in DOMAIN Tools(i) : Up(i) /\ IsTool(d, i, k)
    BY <2>1
  <2>3. mphase \in {"started", "closed"}
    BY DEF ManagerInv, ManagerTypes
  <2> QED BY <1>1, <2>2, <2>3 DEF RoutesLead, IsTool, IsMCPTool
<1>5. ASSUME mphase = "started", NEW i \in 1..Len(configs)
      PROVE  (results[i] = "connected") = (configs[i].name \in ServerNames)
  <2>1. clients[configs[i].name] = IF Up(i) THEN i ELSE NoClient
    BY <1>1, <1>5 DEF ClientsAreUp
  <2>2. i \in Nat /\ i # NoClient
    BY <1>5, ManagerAssumption
  <2>3. configs[i].name \in Configured
    BY DEF Configured
  <2> QED BY <2>1, <2>2, <2>3 DEF ServerNames, Up
<1> QED BY <1>2, <1>3, <1>4, <1>5, Zenon DEF RouteIsOwn

-----------------------------------------------------------------------------
(* What a provider is asked (Requests) *)

\* Induction over the naturals.
LEMMA NatInduct ==
  ASSUME NEW T, 0 \in T, \A n \in Nat : n \in T => n + 1 \in T
  PROVE  \A n \in Nat : n \in T
<1> DEFINE S == Nat \ T
<1>1. SUFFICES ASSUME S # {} PROVE FALSE
  OBVIOUS
<1>2. Min(S) \in S /\ \A y \in S : Min(S) <= y
  BY <1>1, LeastOne
<1>3. PICK x \in S : \A y \in S : x <= y
  BY <1>2
<1>4. x \in Nat /\ x # 0 /\ x - 1 \in Nat /\ x - 1 \notin S
  BY <1>3
<1>5. x - 1 \in T /\ (x - 1) + 1 = x
  BY <1>4
<1> QED BY <1>3, <1>4, <1>5

\* How far the talk of a list goes on with its next message.
OneMore(talk1, m) == IF OfSystem(m) THEN talk1 ELSE Append(talk1, m)
UpTo(ms) ==
  CHOOSE g : g = [k \in 0..Len(ms) |->
                    IF k = 0 THEN <<>> ELSE IF OfSystem(ms[k]) THEN g[k - 1] ELSE Append(g[k - 1], ms[k])]

\* The talk of a list is made message by message.
LEMMA TalkIsMade ==
  ASSUME NEW ms, Len(ms) \in Nat
  PROVE  /\ Talk(ms) = UpTo(ms)[Len(ms)]
         /\ UpTo(ms)[0] = <<>>
         /\ \A k \in 1..Len(ms) : UpTo(ms)[k] = OneMore(UpTo(ms)[k - 1], ms[k])
<1> DEFINE Made(g, n) == g = [k \in 0..n |->
             IF k = 0 THEN <<>> ELSE IF OfSystem(ms[k]) THEN g[k - 1] ELSE Append(g[k - 1], ms[k])]
           T == {n \in Nat : \E g : Made(g, n)}
<1>1. 0 \in T
  <2>1. [k \in 0..0 |-> <<>>] = [k \in 0..0 |->
          IF k = 0 THEN <<>> ELSE IF OfSystem(ms[k]) THEN [j \in 0..0 |-> <<>>][k - 1]
                                  ELSE Append([j \in 0..0 |-> <<>>][k - 1], ms[k])]
    OBVIOUS
  <2>2. Made([k \in 0..0 |-> <<>>], 0)
    BY <2>1
  <2> QED BY <2>2
<1>2. ASSUME NEW n \in Nat, n \in T PROVE n + 1 \in T
  <2>1. PICK g : Made(g, n)
    BY <1>2
  <2> DEFINE e(f, k) == IF k = 0 THEN <<>> ELSE IF OfSystem(ms[k]) THEN f[k - 1] ELSE Append(f[k - 1], ms[k])
             h == [k \in 0..n + 1 |-> IF k = n + 1 THEN e(g, k) ELSE g[k]]
  <2>2. \A k \in 0..n : g[k] = e(g, k)
    BY <2>1
  <2>3. \A k \in 0..n + 1 : h[k] = IF k = n + 1 THEN e(g, k) ELSE g[k]
    OBVIOUS
  <2>4. \A k \in 0..n + 1 : k # 0 => k - 1 \in 0..n /\ k - 1 \in 0..n + 1 /\ k - 1 # n + 1
    OBVIOUS
  <2>5. \A k \in 0..n + 1 : k # n + 1 => k \in 0..n
    OBVIOUS
  <2>6. h = [k \in 0..n + 1 |-> h[k]]
    OBVIOUS
  <2> HIDE DEF h
  <2>7. \A k \in 0..n + 1 : k # 0 => h[k - 1] = g[k - 1]
    BY <2>3, <2>4
  <2>8. \A k \in 0..n + 1 : e(h, k) = e(g, k)
    BY <2>7
  <2>9. \A k \in 0..n + 1 : h[k] = e(h, k)
    BY <2>2, <2>3, <2>5, <2>8
  <2>10. Made(h, n + 1)
    BY <2>6, <2>9
  <2> QED BY <2>10
<1> HIDE DEF T
<1>3. Len(ms) \in T
  BY <1>1, <1>2, NatInduct
<1>4. Made(UpTo(ms), Len(ms))
  BY <1>3 DEF UpTo, T
<1>5. Talk(ms) = UpTo(ms)[Len(ms)]
  BY DEF Talk, UpTo
<1>6. ASSUME NEW k \in 0..Len(ms)
      PROVE  UpTo(ms)[k] = IF k = 0 THEN <<>> ELSE OneMore(UpTo(ms)[k - 1], ms[k])
  BY <1>4 DEF OneMore
<1> QED BY <1>5, <1>6

\* A message, of the user, the model or the system.
MessageSet ==
  [role : {"user", "assistant", "system"},
   text : Nat \cup {"prompt", "reminder", "mode", "round", "results"}, image : BOOLEAN]

\* What UpTo goes through are lists of messages that are not of the system.
LEMMA TalkTyped ==
  ASSUME NEW ms \in Seq(MessageSet)
  PROVE  /\ \A k \in 0..Len(ms) : /\ UpTo(ms)[k] \in Seq(MessageSet)
                                  /\ \A j \in 1..Len(UpTo(ms)[k]) : ~OfSystem(UpTo(ms)[k][j])
         /\ Talk(ms) \in Seq(MessageSet)
         /\ \A j \in 1..Len(Talk(ms)) : ~OfSystem(Talk(ms)[j])
<1> DEFINE OK(w) == w \in Seq(MessageSet) /\ \A j \in 1..Len(w) : ~OfSystem(w[j])
           T == {n \in Nat : n <= Len(ms) => OK(UpTo(ms)[n])}
<1>1. Len(ms) \in Nat /\ \A k \in 1..Len(ms) : ms[k] \in MessageSet
  OBVIOUS
<1>2. OK(<<>>)
  OBVIOUS
<1>3. ASSUME NEW w, OK(w), NEW m \in MessageSet PROVE OK(OneMore(w, m))
  <2>1. CASE OfSystem(m)
    BY <1>3, <2>1 DEF OneMore
  <2>2. CASE ~OfSystem(m)
    <3> DEFINE v == Append(w, m)
    <3>1. v \in Seq(MessageSet) /\ Len(v) = Len(w) + 1 /\ v[Len(w) + 1] = m
          /\ \A j \in 1..Len(w) : v[j] = w[j]
      BY <1>3
    <3>2. OneMore(w, m) = v
      BY <2>2 DEF OneMore
    <3> HIDE DEF v
    <3>3. OK(v)
      BY <1>3, <2>2, <3>1
    <3> QED BY <3>2, <3>3
  <2> QED BY <2>1, <2>2
<1> HIDE DEF OK
<1>4. 0 \in T
  BY <1>1, <1>2, TalkIsMade
<1>5. ASSUME NEW n \in Nat, n \in T PROVE n + 1 \in T
  <2>1. CASE n + 1 <= Len(ms)
    <3>1. n + 1 \in 1..Len(ms) /\ (n + 1) - 1 = n /\ n <= Len(ms)
      BY <1>1, <2>1
    <3>2. UpTo(ms)[n + 1] = OneMore(UpTo(ms)[n], ms[n + 1])
      BY <1>1, <3>1, TalkIsMade
    <3>3. OK(UpTo(ms)[n + 1])
      BY <1>1, <1>3, <1>5, <3>1, <3>2
    <3> QED BY <3>3
  <2>2. CASE ~(n + 1 <= Len(ms))
    BY <2>2
  <2> QED BY <2>1, <2>2
<1>6. \A k \in Nat : k \in T
  <2> HIDE DEF T
  <2> QED BY <1>4, <1>5, NatInduct
<1>7. \A k \in 0..Len(ms) : OK(UpTo(ms)[k])
  BY <1>1, <1>6
<1>8. OK(Talk(ms))
  BY <1>1, <1>7, TalkIsMade
<1> QED BY <1>7, <1>8 DEF OK

\* The talk of two lists, one after the other.
LEMMA TalkOn ==
  ASSUME NEW s \in Seq(MessageSet), NEW t \in Seq(MessageSet)
  PROVE  Talk(s \o t) = Talk(s) \o Talk(t)
<1> DEFINE u == s \o t
           a == Len(s)
           b == Len(t)
<1>1. /\ u \in Seq(MessageSet) /\ Len(u) = a + b /\ a \in Nat /\ b \in Nat
      /\ \A k \in 1..a : u[k] = s[k]
      /\ \A k \in 1..b : u[a + k] = t[k]
  OBVIOUS
<1>2. /\ Talk(s) = UpTo(s)[a] /\ UpTo(s)[0] = <<>>
      /\ \A k \in 1..a : UpTo(s)[k] = OneMore(UpTo(s)[k - 1], s[k])
  BY <1>1, TalkIsMade
<1>3. /\ Talk(t) = UpTo(t)[b] /\ UpTo(t)[0] = <<>>
      /\ \A k \in 1..b : UpTo(t)[k] = OneMore(UpTo(t)[k - 1], t[k])
  BY <1>1, TalkIsMade
<1> HIDE DEF u
<1>4. /\ Talk(u) = UpTo(u)[a + b] /\ UpTo(u)[0] = <<>>
      /\ \A k \in 1..(a + b) : UpTo(u)[k] = OneMore(UpTo(u)[k - 1], u[k])
  <2>1. Len(u) = a + b /\ Len(u) \in Nat
    BY <1>1
  <2>2. /\ Talk(u) = UpTo(u)[Len(u)] /\ UpTo(u)[0] = <<>>
        /\ \A k \in 1..Len(u) : UpTo(u)[k] = OneMore(UpTo(u)[k - 1], u[k])
    BY <2>1, TalkIsMade
  <2> HIDE DEF a, b
  <2> QED BY <2>1, <2>2
<1>5. \A k \in 0..b : UpTo(t)[k] \in Seq(MessageSet)
  BY TalkTyped
<1>6. Talk(s) \in Seq(MessageSet)
  BY TalkTyped
<1>7. \A k \in 1..b : t[k] \in MessageSet
  OBVIOUS
<1> HIDE DEF a, b
<1> DEFINE G == {n \in Nat : n <= a => UpTo(u)[n] = UpTo(s)[n]}
           H == {n \in Nat : n <= b => UpTo(u)[a + n] = Talk(s) \o UpTo(t)[n]}
<1>8. 0 \in G
  BY <1>2, <1>4
<1>9. ASSUME NEW n \in Nat, n \in G PROVE n + 1 \in G
  <2>1. CASE n + 1 <= a
    <3>1. n + 1 \in 1..a /\ n + 1 \in 1..(a + b) /\ (n + 1) - 1 = n /\ n <= a
      BY <1>1, <2>1
    <3>2. UpTo(u)[n + 1] = UpTo(s)[n + 1]
      BY <1>1, <1>2, <1>4, <1>9, <3>1
    <3> QED BY <3>2
  <2>2. CASE ~(n + 1 <= a)
    BY <2>2
  <2> QED BY <2>1, <2>2
<1>10. \A n \in Nat : n \in G
  <2> HIDE DEF G
  <2> QED BY <1>8, <1>9, NatInduct
<1>11. UpTo(u)[a] = Talk(s)
  BY <1>1, <1>2, <1>10
<1>12. 0 \in H
  <2>1. Talk(s) \o <<>> = Talk(s) /\ a + 0 = a
    BY <1>1, <1>6
  <2> QED BY <1>3, <1>11, <2>1
<1>13. ASSUME NEW n \in Nat, n \in H PROVE n + 1 \in H
  <2>1. CASE n + 1 <= b
    <3>1. n + 1 \in 1..b /\ a + (n + 1) \in 1..(a + b) /\ (n + 1) - 1 = n /\ (a + (n + 1)) - 1 = a + n /\ n <= b
          /\ n \in 0..b
      BY <1>1, <2>1
    <3>2. UpTo(u)[a + (n + 1)] = OneMore(UpTo(u)[a + n], u[a + (n + 1)])
      BY <1>4, <3>1
    <3>3. u[a + (n + 1)] = t[n + 1]
      BY <1>1, <3>1
    <3>4. UpTo(u)[a + n] = Talk(s) \o UpTo(t)[n]
      BY <1>13, <3>1
    <3>5. UpTo(t)[n + 1] = OneMore(UpTo(t)[n], t[n + 1])
      BY <1>3, <3>1
    <3>6. ASSUME NEW p \in Seq(MessageSet), NEW q \in Seq(MessageSet), NEW m \in MessageSet
          PROVE  OneMore(p \o q, m) = p \o OneMore(q, m)
      <4>1. Append(p \o q, m) = p \o Append(q, m)
        <5>1. p \o q \in Seq(MessageSet) /\ <<m>> \in Seq(MessageSet)
          OBVIOUS
        <5>2. Append(p \o q, m) = (p \o q) \o <<m>> /\ Append(q, m) = q \o <<m>>
          BY <5>1, AppendIsConcat
        <5>3. (p \o q) \o <<m>> = p \o (q \o <<m>>)
          BY <5>1, ConcatAssociative, SMTT(30)
        <5> QED BY <5>2, <5>3
      <4> QED BY <4>1 DEF OneMore
    <3>7. t[n + 1] \in MessageSet /\ UpTo(t)[n] \in Seq(MessageSet)
      BY <1>5, <1>7, <3>1
    <3>8. OneMore(Talk(s) \o UpTo(t)[n], t[n + 1]) = Talk(s) \o OneMore(UpTo(t)[n], t[n + 1])
      BY <1>6, <3>6, <3>7
    <3>9. UpTo(u)[a + (n + 1)] = Talk(s) \o UpTo(t)[n + 1]
      BY <3>2, <3>3, <3>4, <3>5, <3>8, Zenon
    <3> QED BY <3>9
  <2>2. CASE ~(n + 1 <= b)
    BY <2>2
  <2> QED BY <2>1, <2>2
<1>14. \A n \in Nat : n \in H
  <2> HIDE DEF H
  <2> QED BY <1>12, <1>13, NatInduct
<1>15. UpTo(u)[a + b] = Talk(s) \o Talk(t)
  BY <1>1, <1>3, <1>14
<1> QED BY <1>4, <1>15 DEF u

\* Where nothing is of the system, the talk is the list.
LEMMA TalkAll ==
  ASSUME NEW s \in Seq(MessageSet), \A k \in 1..Len(s) : ~OfSystem(s[k])
  PROVE  Talk(s) = s
<1> DEFINE T == {n \in Nat : n <= Len(s) => UpTo(s)[n] = SubSeq(s, 1, n)}
<1>1. Len(s) \in Nat /\ \A k \in 1..Len(s) : s[k] \in MessageSet
  OBVIOUS
<1>2. /\ Talk(s) = UpTo(s)[Len(s)] /\ UpTo(s)[0] = <<>>
      /\ \A k \in 1..Len(s) : UpTo(s)[k] = OneMore(UpTo(s)[k - 1], s[k])
  BY <1>1, TalkIsMade
<1>3. 0 \in T
  <2>1. 0 \in 0..Len(s)
    BY <1>1
  <2>2. SubSeq(s, 1, 0) \in Seq(MessageSet) /\ Len(SubSeq(s, 1, 0)) = 0
    BY <2>1, HeadFacts
  <2>3. SubSeq(s, 1, 0) = <<>>
    BY <2>2
  <2> QED BY <1>2, <2>3
<1>4. ASSUME NEW n \in Nat, n \in T PROVE n + 1 \in T
  <2>1. CASE n + 1 <= Len(s)
    <3>1. n + 1 \in 1..Len(s) /\ n \in 0..Len(s) /\ n + 1 \in 0..Len(s) /\ (n + 1) - 1 = n /\ n <= Len(s)
      BY <1>1, <2>1
    <3> DEFINE p == SubSeq(s, 1, n)
               q == SubSeq(s, 1, n + 1)
               m == s[n + 1]
    <3>2. p \in Seq(MessageSet) /\ Len(p) = n /\ \A k \in 1..n : p[k] = s[k]
      BY <3>1, HeadFacts
    <3>3. q \in Seq(MessageSet) /\ Len(q) = n + 1 /\ \A k \in 1..(n + 1) : q[k] = s[k]
      BY <3>1, HeadFacts
    <3>4. UpTo(s)[n + 1] = OneMore(p, m) /\ ~OfSystem(m) /\ m \in MessageSet
      BY <1>1, <1>2, <1>4, <3>1
    <3> HIDE DEF p, q
    <3>5. Append(p, m) \in Seq(MessageSet) /\ Len(Append(p, m)) = n + 1
          /\ (\A k \in 1..n : Append(p, m)[k] = p[k]) /\ Append(p, m)[n + 1] = m
      BY <3>2, <3>4
    <3>6. \A k \in 1..(n + 1) : Append(p, m)[k] = q[k]
      BY <3>2, <3>3, <3>5
    <3>7. Append(p, m) = q
      BY <3>3, <3>5, <3>6, SeqEqual
    <3>8. UpTo(s)[n + 1] = q
      BY <3>4, <3>7 DEF OneMore
    <3> QED BY <3>8 DEF q
  <2>2. CASE ~(n + 1 <= Len(s))
    BY <2>2
  <2> QED BY <2>1, <2>2
<1>5. \A n \in Nat : n \in T
  <2> HIDE DEF T
  <2> QED BY <1>3, <1>4, NatInduct
<1>6. UpTo(s)[Len(s)] = SubSeq(s, 1, Len(s))
  BY <1>1, <1>5
<1> QED BY <1>2, <1>6, WholeOf

Prompt == Message("system", "prompt")
Reminder == Message("system", "reminder")
LastOfUser(ms) == SelectLastInSeq(ms, LAMBDA m : m.role = "user")

\* What a loop adds is not of the system.
Rounds == {r \in Seq(MessageSet) : \A k \in 1..Len(r) : ~OfSystem(r[k])}

LEMMA OfMessages ==
  ASSUME NEW r \in {"user", "assistant", "system"},
         NEW x \in Nat \cup {"prompt", "reminder", "mode", "round", "results"}
  PROVE  Message(r, x) \in MessageSet /\ (OfSystem(Message(r, x)) <=> r = "system")
         /\ Message(r, x).text = x
  BY DEF Message, MessageSet, OfSystem

\* A list of one message of the system has no talk.
LEMMA NoTalk == ASSUME NEW m \in MessageSet, OfSystem(m) PROVE Talk(<<m>>) = <<>>
<1>1. Len(<<m>>) = 1 /\ <<m>>[1] = m /\ 1 \in 1..1 /\ 1 - 1 = 0
  OBVIOUS
<1>2. Talk(<<m>>) = UpTo(<<m>>)[1] /\ UpTo(<<m>>)[0] = <<>> /\ UpTo(<<m>>)[1] = OneMore(UpTo(<<m>>)[0], m)
  <2>1. Len(<<m>>) \in Nat
    BY <1>1
  <2>2. /\ Talk(<<m>>) = UpTo(<<m>>)[Len(<<m>>)] /\ UpTo(<<m>>)[0] = <<>>
        /\ \A k \in 1..Len(<<m>>) : UpTo(<<m>>)[k] = OneMore(UpTo(<<m>>)[k - 1], <<m>>[k])
    BY <2>1, TalkIsMade
  <2>3. UpTo(<<m>>)[1] = OneMore(UpTo(<<m>>)[1 - 1], <<m>>[1])
    BY <1>1, <2>2
  <2> QED BY <1>1, <2>2, <2>3
<1> QED BY <1>2 DEF OneMore

\* The last message that satisfies a test is one of the list.
LEMMA LastIsOne ==
  ASSUME NEW ms \in Seq(MessageSet)
  PROVE  /\ LastOfUser(ms) \in 0..Len(ms)
         /\ (\E k \in 1..Len(ms) : OfSystem(ms[k])) =>
              /\ SelectLastInSeq(ms, OfSystem) \in 1..Len(ms)
              /\ OfSystem(ms[SelectLastInSeq(ms, OfSystem)])
<1>1. Len(ms) \in Nat
  OBVIOUS
<1>2. ASSUME NEW I, I \subseteq 1..Len(ms), I # {} PROVE Max(I) \in I
  <2>1. PICK m \in I : TRUE
    BY <1>2
  <2>2. I \in SUBSET Nat /\ m \in I /\ m <= Len(ms)
    BY <1>1, <1>2
  <2>3. PICK s \in I : s <= Len(ms) /\ \A t \in I : t > s => Len(ms) < t
    BY <1>1, <2>2, LastBefore
  <2>4. I \in SUBSET Int /\ \A t \in I : s >= t
    BY <1>1, <1>2, <2>3
  <2>5. Max(I) = s
    BY <2>3, <2>4, TheMax
  <2> QED BY <2>3, <2>5
<1>3. LastOfUser(ms) \in 0..Len(ms)
  <2> DEFINE I == {i \in 1..Len(ms) : ms[i].role = "user"}
  <2>1. LastOfUser(ms) = IF I # {} THEN Max(I) ELSE 0
    BY DEF LastOfUser, SelectLastInSeq
  <2>2. I # {} => Max(I) \in I
    BY <1>2
  <2> QED BY <1>1, <2>1, <2>2
<1>4. ASSUME \E k \in 1..Len(ms) : OfSystem(ms[k])
      PROVE  /\ SelectLastInSeq(ms, OfSystem) \in 1..Len(ms)
             /\ OfSystem(ms[SelectLastInSeq(ms, OfSystem)])
  <2> DEFINE I == {i \in 1..Len(ms) : OfSystem(ms[i])}
  <2>1. SelectLastInSeq(ms, OfSystem) = IF I # {} THEN Max(I) ELSE 0
    BY DEF SelectLastInSeq
  <2>2. I # {}
    BY <1>4
  <2>3. Max(I) \in I
    BY <1>2, <2>2
  <2> QED BY <2>1, <2>2, <2>3
<1> QED BY <1>3, <1>4

\* The messages a request begins with are the prompt's, and the talk of what
\* was said.
LEMMA BuildOK ==
  ASSUME NEW ms \in Seq(MessageSet)
  PROVE  /\ BuildMessages(ms) \in Seq(MessageSet)
         /\ Len(BuildMessages(ms)) >= 1 /\ BuildMessages(ms)[1] = Prompt
         /\ Talk(BuildMessages(ms)) = Talk(ms)
<1> DEFINE n == LastOfUser(ms)
           long == Len(ms) > LongTalk /\ n > 1
           h == SubSeq(ms, 1, n - 1)
           t == SubSeq(ms, n, Len(ms))
           rest == IF long THEN h \o <<Reminder>> \o t ELSE ms
<1>1. BuildMessages(ms) = <<Prompt>> \o rest
  BY DEF BuildMessages, LastOfUser, Prompt, Reminder
<1>2. Prompt \in MessageSet /\ OfSystem(Prompt) /\ Reminder \in MessageSet /\ OfSystem(Reminder)
  <2>1. "system" \in {"user", "assistant", "system"}
        /\ "prompt" \in Nat \cup {"prompt", "reminder", "mode", "round", "results"}
        /\ "reminder" \in Nat \cup {"prompt", "reminder", "mode", "round", "results"}
    OBVIOUS
  <2> QED BY <2>1, OfMessages DEF Prompt, Reminder
<1>3. Talk(<<Prompt>>) = <<>> /\ Talk(<<Reminder>>) = <<>> /\ <<Prompt>> \in Seq(MessageSet) /\ <<Reminder>> \in Seq(MessageSet)
  <2>1. <<Prompt>> \in Seq(MessageSet) /\ <<Reminder>> \in Seq(MessageSet)
    BY <1>2
  <2>2. Talk(<<Prompt>>) = <<>>
    BY <1>2, NoTalk
  <2>3. Talk(<<Reminder>>) = <<>>
    BY <1>2, NoTalk
  <2> QED BY <2>1, <2>2, <2>3
<1>4. n \in 0..Len(ms) /\ Len(ms) \in Nat
  <2>1. LastOfUser(ms) \in 0..Len(ms)
    BY LastIsOne, Zenon
  <2>2. Len(ms) \in Nat
    OBVIOUS
  <2> QED BY <2>1, <2>2
<1> HIDE DEF n
<1>5. rest \in Seq(MessageSet) /\ Talk(rest) = Talk(ms)
  <2>1. CASE long
    <3>1. n - 1 \in 0..Len(ms) /\ n \in 1..Len(ms) + 1 /\ n \in 1..Len(ms)
      BY <1>4, <2>1
    <3>2. h \in Seq(MessageSet) /\ t \in Seq(MessageSet)
      BY <3>1, HeadFacts, RestFacts
    <3>3. h \o t = ms
      <4>1. Len(h) = n - 1 /\ \A k \in 1..n - 1 : h[k] = ms[k]
        BY <3>1, HeadFacts
      <4>2. Len(t) = Len(ms) - n + 1 /\ \A k \in 1..Len(ms) - n + 1 : t[k] = ms[n + k - 1]
        BY <3>1, RestFacts
      <4> HIDE DEF h, t
      <4> DEFINE w == h \o t
      <4>3. w \in Seq(MessageSet) /\ Len(w) = Len(h) + Len(t)
            /\ (\A k \in 1..Len(h) : w[k] = h[k]) /\ \A k \in 1..Len(t) : w[Len(h) + k] = t[k]
        BY <3>2
      <4> HIDE DEF w
      <4>4. Len(w) = Len(ms)
        BY <1>4, <3>1, <4>1, <4>2, <4>3
      <4>5. ASSUME NEW k \in 1..Len(ms) PROVE w[k] = ms[k]
        <5>1. CASE k <= n - 1
          <6>1. k \in 1..n - 1
            BY <1>4, <5>1
          <6> QED BY <4>1, <4>3, <6>1
        <5>2. CASE k > n - 1
          <6>1. k - (n - 1) \in 1..Len(ms) - n + 1 /\ (n - 1) + (k - (n - 1)) = k /\ n + (k - (n - 1)) - 1 = k
            BY <1>4, <3>1, <5>2
          <6>2. w[(n - 1) + (k - (n - 1))] = t[k - (n - 1)]
            BY <4>1, <4>2, <4>3, <6>1
          <6>3. t[k - (n - 1)] = ms[n + (k - (n - 1)) - 1]
            BY <4>2, <6>1
          <6> QED BY <6>1, <6>2, <6>3
        <5> QED BY <1>4, <5>1, <5>2
      <4>6. w = ms
        BY <4>3, <4>4, <4>5, SeqEqual
      <4> QED BY <4>6 DEF w
    <3> HIDE DEF h, t
    <3>4. h \o <<Reminder>> \in Seq(MessageSet) /\ Talk(h \o <<Reminder>>) = Talk(h) \o <<>>
      <4>1. h \o <<Reminder>> \in Seq(MessageSet)
        BY <1>3, <3>2
      <4>2. Talk(h \o <<Reminder>>) = Talk(h) \o Talk(<<Reminder>>)
        BY <1>3, <3>2, TalkOn
      <4> QED BY <1>3, <4>1, <4>2
    <3>5. Talk(h) \in Seq(MessageSet)
      BY <3>2, TalkTyped
    <3>6. Talk(h \o <<Reminder>>) = Talk(h)
      BY <3>4, <3>5
    <3>7. Talk((h \o <<Reminder>>) \o t) = Talk(h \o <<Reminder>>) \o Talk(t)
      BY <3>2, <3>4, TalkOn
    <3>8. Talk(h \o t) = Talk(h) \o Talk(t)
      BY <3>2, TalkOn
    <3>9. rest = (h \o <<Reminder>>) \o t
      BY <2>1
    <3>10. (h \o <<Reminder>>) \o t \in Seq(MessageSet)
      BY <3>2, <3>4
    <3> QED BY <3>3, <3>6, <3>7, <3>8, <3>9, <3>10
  <2>2. CASE ~long
    BY <2>2
  <2> QED BY <2>1, <2>2
<1> HIDE DEF rest
<1>6. Talk(<<Prompt>> \o rest) = <<>> \o Talk(rest)
  BY <1>3, <1>5, TalkOn
<1>7. Talk(rest) \in Seq(MessageSet)
  BY <1>5, TalkTyped
<1>8. <<>> \o Talk(rest) = Talk(rest)
  BY <1>7
<1>9. <<Prompt>> \o rest \in Seq(MessageSet) /\ Len(<<Prompt>> \o rest) >= 1 /\ (<<Prompt>> \o rest)[1] = Prompt
  BY <1>3, <1>5
<1> QED BY <1>1, <1>5, <1>6, <1>8, <1>9

\* The messages of the request under way are those it began with, of what was
\* said by then, and what its loop added.
LoopIs(p, l) == \E r \in Rounds : l = BuildMessages(p) \o r

RequestInv ==
  /\ spoken \in Seq(MessageSet) /\ begun \in 0..Len(spoken)
  /\ adapter \in Adapters \cup {"none"}
  /\ adapter # "none" => LoopIs(SubSeq(spoken, 1, begun), loopMessages)

LEMMA RequestsStart == RequestsInit => RequestInv
  BY DEF RequestsInit, RequestInv

\* What was said first stays.
LEMMA SaidFirst ==
  ASSUME NEW s \in Seq(MessageSet), NEW t \in Seq(MessageSet), NEW n \in 0..Len(s)
  PROVE  SubSeq(s \o t, 1, n) = SubSeq(s, 1, n) /\ n \in 0..Len(s \o t)
<1> DEFINE u == s \o t
           p == SubSeq(u, 1, n)
           q == SubSeq(s, 1, n)
<1>1. u \in Seq(MessageSet) /\ Len(u) = Len(s) + Len(t) /\ (\A k \in 1..Len(s) : u[k] = s[k])
      /\ Len(s) \in Nat /\ Len(t) \in Nat
  OBVIOUS
<1> HIDE DEF u
<1>2. n \in 0..Len(u) /\ 1..n \subseteq 1..Len(s)
  BY <1>1
<1>3. p \in Seq(MessageSet) /\ Len(p) = n /\ \A k \in 1..n : p[k] = u[k]
  BY <1>1, <1>2, HeadFacts
<1>4. q \in Seq(MessageSet) /\ Len(q) = n /\ \A k \in 1..n : q[k] = s[k]
  BY HeadFacts
<1> HIDE DEF p, q
<1>5. \A k \in 1..n : p[k] = q[k]
  BY <1>1, <1>2, <1>3, <1>4
<1>6. p = q
  BY <1>3, <1>4, <1>5, SeqEqual
<1> QED BY <1>2, <1>6 DEF u, p, q

\* A message that is said later leaves the request as it is.
LEMMA SaidLater ==
  ASSUME RequestInv, NEW t \in Seq(MessageSet), spoken' = spoken \o t, UNCHANGED <<adapter, begun, loopMessages>>
  PROVE  RequestInv'
<1>1. spoken \in Seq(MessageSet) /\ begun \in 0..Len(spoken)
  BY DEF RequestInv
<1>2. spoken' \in Seq(MessageSet)
  BY <1>1
<1>3. SubSeq(spoken \o t, 1, begun) = SubSeq(spoken, 1, begun) /\ begun \in 0..Len(spoken \o t)
  BY <1>1, SaidFirst
<1>4. SubSeq(spoken', 1, begun') = SubSeq(spoken, 1, begun) /\ begun' \in 0..Len(spoken')
  BY <1>3
<1>5. PICK p, l : p = SubSeq(spoken, 1, begun) /\ l = loopMessages
  OBVIOUS
<1>6. adapter # "none" => LoopIs(p, l)
  BY <1>5 DEF RequestInv
<1>7. SubSeq(spoken', 1, begun') = p /\ loopMessages' = l /\ adapter' = adapter
  BY <1>4, <1>5
<1> QED BY <1>2, <1>4, <1>6, <1>7 DEF RequestInv, LoopIs

\* A question begins a request with all that was said.
LEMMA AskOK == RequestInv /\ Ask => RequestInv'
<1> SUFFICES ASSUME RequestInv, Ask PROVE RequestInv'
  OBVIOUS
<1>1. PICK files \in 0..1, image \in BOOLEAN, a \in Adapters :
        /\ spoken' = spoken \o [k \in 1..(files + 1) |->
                                 [Message("user", Len(spoken) + k) EXCEPT !.image = image /\ k > files]]
        /\ adapter' = a
        /\ begun' = Len(spoken')
        /\ loopMessages' = BuildMessages(spoken')
  BY DEF Ask
<1>2. spoken \in Seq(MessageSet) /\ Len(spoken) \in Nat
  BY DEF RequestInv
<1> DEFINE e(k) == [Message("user", Len(spoken) + k) EXCEPT !.image = image /\ k > files]
           x == [k \in 1..(files + 1) |-> e(k)]
<1>3. ASSUME NEW k \in 1..(files + 1) PROVE e(k) \in MessageSet
  <2>1. Len(spoken) + k \in Nat \cup {"prompt", "reminder", "mode", "round", "results"}
    BY <1>2
  <2>2. e(k) = [role |-> "user", text |-> Len(spoken) + k, image |-> image /\ k > files]
    BY DEF Message
  <2>3. (image /\ k > files) \in BOOLEAN
    OBVIOUS
  <2> QED BY <2>1, <2>2, <2>3 DEF MessageSet
<1> HIDE DEF e
<1>4. x \in Seq(MessageSet)
  <2>1. files + 1 \in Nat
    OBVIOUS
  <2> QED BY <1>3, <2>1
<1>5. spoken' = spoken \o x
  BY <1>1 DEF e
<1> HIDE DEF x
<1>6. spoken' \in Seq(MessageSet)
  BY <1>2, <1>4, <1>5
<1>7. PICK s : s = spoken'
  OBVIOUS
<1>8. s \in Seq(MessageSet) /\ Len(s) \in 0..Len(s) /\ SubSeq(s, 1, Len(s)) = s
  BY <1>6, <1>7, WholeOf
<1>9. BuildMessages(s) = BuildMessages(s) \o <<>> /\ <<>> \in Rounds
  BY <1>8, BuildOK DEF Rounds
<1>10. LoopIs(s, BuildMessages(s))
  BY <1>9, Zenon DEF LoopIs
<1>11. begun' \in 0..Len(spoken') /\ SubSeq(spoken', 1, begun') = s /\ loopMessages' = BuildMessages(s)
  BY <1>1, <1>7, <1>8
<1>12. LoopIs(SubSeq(spoken', 1, begun'), loopMessages')
  BY <1>10, <1>11
<1> QED BY <1>1, <1>6, <1>11, <1>12 DEF RequestInv, LoopIs

\* A round is added at the end.
LEMMA AddRoundOK == RequestInv /\ AddRound => RequestInv'
<1> SUFFICES ASSUME RequestInv, AddRound PROVE RequestInv'
  OBVIOUS
<1> DEFINE x == <<Message("assistant", "round"), Message("user", "results")>>
<1>1. adapter # "none" /\ loopMessages' = loopMessages \o x /\ UNCHANGED <<spoken, adapter, begun>>
  BY DEF AddRound
<1>2. PICK p : p = SubSeq(spoken, 1, begun)
  OBVIOUS
<1>3. p \in Seq(MessageSet)
  BY <1>2, HeadFacts DEF RequestInv
<1>4. PICK r \in Rounds : loopMessages = BuildMessages(p) \o r
  BY <1>1, <1>2 DEF RequestInv, LoopIs
<1>5. /\ Message("assistant", "round") \in MessageSet /\ ~OfSystem(Message("assistant", "round"))
      /\ Message("user", "results") \in MessageSet /\ ~OfSystem(Message("user", "results"))
  <2>1. "assistant" \in {"user", "assistant", "system"} /\ "user" \in {"user", "assistant", "system"}
        /\ "round" \in Nat \cup {"prompt", "reminder", "mode", "round", "results"}
        /\ "results" \in Nat \cup {"prompt", "reminder", "mode", "round", "results"}
        /\ "assistant" # "system" /\ "user" # "system"
    OBVIOUS
  <2> QED BY <2>1, OfMessages
<1>6. r \o x \in Rounds
  <2>1. x \in Seq(MessageSet) /\ Len(x) = 2 /\ ~OfSystem(x[1]) /\ ~OfSystem(x[2])
    BY <1>5
  <2>2. r \in Seq(MessageSet) /\ \A k \in 1..Len(r) : ~OfSystem(r[k])
    BY DEF Rounds
  <2> HIDE DEF x
  <2> DEFINE w == r \o x
  <2>3. w \in Seq(MessageSet) /\ Len(w) = Len(r) + 2 /\ (\A k \in 1..Len(r) : w[k] = r[k])
        /\ w[Len(r) + 1] = x[1] /\ w[Len(r) + 2] = x[2] /\ Len(r) \in Nat
    <3>1. w \in Seq(MessageSet) /\ Len(w) = Len(r) + Len(x) /\ (\A k \in 1..Len(r) : w[k] = r[k])
          /\ (\A k \in 1..Len(x) : w[Len(r) + k] = x[k]) /\ Len(r) \in Nat
      <4>1. ASSUME NEW s \in Seq(MessageSet), NEW t \in Seq(MessageSet)
            PROVE  /\ s \o t \in Seq(MessageSet) /\ Len(s \o t) = Len(s) + Len(t)
                   /\ \A k \in 1..Len(s) : (s \o t)[k] = s[k]
                   /\ \A k \in 1..Len(t) : (s \o t)[Len(s) + k] = t[k]
                   /\ Len(s) \in Nat
        OBVIOUS
      <4> QED BY <2>1, <2>2, <4>1
    <3>2. 1 \in 1..2 /\ 2 \in 1..2
      OBVIOUS
    <3> HIDE DEF w
    <3> QED BY <2>1, <3>1, <3>2
  <2> HIDE DEF w
  <2>4. ASSUME NEW k \in 1..Len(w) PROVE ~OfSystem(w[k])
    <3>1. k \in 1..Len(r) \/ k = Len(r) + 1 \/ k = Len(r) + 2
      BY <2>3
    <3> QED BY <2>1, <2>2, <2>3, <3>1
  <2>5. w \in Rounds
    BY <2>3, <2>4 DEF Rounds
  <2> QED BY <2>5 DEF w
<1>7. (BuildMessages(p) \o r) \o x = BuildMessages(p) \o (r \o x)
  <2>1. BuildMessages(p) \in Seq(MessageSet) /\ r \in Seq(MessageSet) /\ x \in Seq(MessageSet)
    BY <1>3, <1>5, BuildOK DEF Rounds
  <2> QED BY <2>1, ConcatAssociative
<1> HIDE DEF x
<1>8. loopMessages' = BuildMessages(p) \o (r \o x)
  BY <1>1, <1>4, <1>7
<1>9. LoopIs(p, loopMessages')
  BY <1>6, <1>8 DEF LoopIs
<1>10. SubSeq(spoken', 1, begun') = p
  BY <1>1, <1>2
<1> QED BY <1>1, <1>9, <1>10 DEF RequestInv, LoopIs

LEMMA RequestsStep == RequestInv /\ [RequestsNext]_requestVars => RequestInv'
<1> SUFFICES ASSUME RequestInv, [RequestsNext]_requestVars PROVE RequestInv'
  OBVIOUS
<1>1. spoken \in Seq(MessageSet) /\ begun \in 0..Len(spoken) /\ <<>> \in Seq(MessageSet) /\ Len(spoken) \in Nat
  BY DEF RequestInv
<1>2. spoken \o <<>> = spoken
  BY <1>1
<1>3. CASE UNCHANGED requestVars
  <2>1. spoken' = spoken \o <<>> /\ UNCHANGED <<adapter, begun, loopMessages>>
    BY <1>2, <1>3 DEF requestVars
  <2> QED BY <1>1, <2>1, SaidLater
<1>4. CASE EndTurn
  <2>1. PICK answer \in {<<>>, <<Message("assistant", Len(spoken) + 1)>>} :
          spoken' = IF Len(spoken) < MaxTalk THEN spoken \o answer ELSE spoken
    BY <1>4 DEF EndTurn
  <2>2. Message("assistant", Len(spoken) + 1) \in MessageSet
    BY <1>1 DEF Message, MessageSet
  <2>3. answer \in Seq(MessageSet)
    <3> DEFINE m == Message("assistant", Len(spoken) + 1)
    <3>1. <<m>> \in Seq(MessageSet) /\ answer \in {<<>>, <<m>>}
      <4> HIDE DEF m
      <4>1. ASSUME NEW v \in MessageSet PROVE <<v>> \in Seq(MessageSet)
        OBVIOUS
      <4>2. m \in MessageSet
        BY <2>2 DEF m
      <4> QED BY <2>1, <4>1, <4>2 DEF m
    <3> HIDE DEF m
    <3> QED BY <1>1, <3>1
  <2>4. spoken' \in Seq(MessageSet) /\ adapter' = "none" /\ begun' = 0
    BY <1>1, <1>4, <2>1, <2>3 DEF EndTurn
  <2> QED BY <2>4 DEF RequestInv
<1>5. CASE AddMessage
  <2>1. UNCHANGED <<adapter, begun, loopMessages>>
    BY <1>5 DEF AddMessage
  <2>2. PICK m \in {Message("user", Len(spoken) + 1), Message("system", "mode")} : spoken' = Append(spoken, m)
    BY <1>5 DEF AddMessage
  <2>3. m \in MessageSet
    <3>1. /\ Len(spoken) + 1 \in Nat \cup {"prompt", "reminder", "mode", "round", "results"}
          /\ "mode" \in Nat \cup {"prompt", "reminder", "mode", "round", "results"}
          /\ "user" \in {"user", "assistant", "system"} /\ "system" \in {"user", "assistant", "system"}
      BY <1>1
    <3>2. Message("user", Len(spoken) + 1) \in MessageSet /\ Message("system", "mode") \in MessageSet
      BY <3>1, OfMessages
    <3> QED BY <2>2, <3>2, Zenon
  <2>4. <<m>> \in Seq(MessageSet) /\ spoken' = spoken \o <<m>>
    BY <1>1, <2>2, <2>3, AppendIsConcat
  <2> QED BY <2>1, <2>4, SaidLater
<1> QED BY <1>3, <1>4, <1>5, AskOK, AddRoundOK DEF RequestsNext

\* A list that is converted has the texts of its talk, and nothing of the
\* system.
LEMMA ConvertOK ==
  ASSUME NEW ms \in Seq(MessageSet)
  PROVE  /\ Talk(Convert(ms).messages) = Convert(ms).messages
         /\ TextsOf(Convert(ms).messages) = TextsOf(Talk(ms))
         /\ DOMAIN Convert(ms).messages = DOMAIN Talk(ms)
<1> DEFINE u == Talk(ms)
           w == [k \in DOMAIN u |-> [u[k] EXCEPT !.image = FALSE]]
<1>1. u \in Seq(MessageSet) /\ \A j \in 1..Len(u) : ~OfSystem(u[j])
  BY TalkTyped
<1>2. Convert(ms).messages = w
  BY DEF Convert
<1> HIDE DEF u
<1>3. DOMAIN u = 1..Len(u) /\ Len(u) \in Nat /\ \A k \in 1..Len(u) : u[k] \in MessageSet
  BY <1>1
<1>4. ASSUME NEW m \in MessageSet
      PROVE  LET v == [m EXCEPT !.image = FALSE]
             IN  v \in MessageSet /\ v.text = m.text /\ (OfSystem(v) <=> OfSystem(m))
  BY DEF MessageSet, OfSystem
<1>5. \A k \in 1..Len(u) : w[k] \in MessageSet /\ w[k].text = u[k].text /\ ~OfSystem(w[k])
  BY <1>1, <1>3, <1>4
<1>6. DOMAIN w = 1..Len(u) /\ w = [k \in 1..Len(u) |-> w[k]]
  BY <1>3
<1> HIDE DEF w
<1>7. w \in Seq(MessageSet) /\ Len(w) = Len(u)
  BY <1>3, <1>5, <1>6
<1>8. Talk(w) = w
  BY <1>5, <1>7, TalkAll
<1>9. TextsOf(w) = TextsOf(u)
  BY <1>3, <1>5, <1>6 DEF TextsOf
<1> QED BY <1>2, <1>3, <1>6, <1>8, <1>9 DEF u

\* The invariant says what the run checks.
LEMMA RequestInvHolds == RequestInv => RequestsAreWhole
<1> SUFFICES ASSUME RequestInv, adapter # "none" PROVE RequestsAreWhole
  BY DEF RequestsAreWhole
<1> DEFINE p == SubSeq(spoken, 1, begun)
           b == BuildMessages(p)
           added == SubSeq(loopMessages, Len(b) + 1, Len(loopMessages))
           asked == Request.messages
<1>1. p \in Seq(MessageSet)
  BY HeadFacts DEF RequestInv
<1>2. PICK r \in Rounds : loopMessages = b \o r
  BY DEF RequestInv, LoopIs
<1>3. r \in Seq(MessageSet) /\ \A k \in 1..Len(r) : ~OfSystem(r[k])
  BY DEF Rounds
<1> HIDE DEF p
<1>4. b \in Seq(MessageSet) /\ Len(b) >= 1 /\ b[1] = Prompt /\ Talk(b) = Talk(p)
  BY <1>1, BuildOK
<1> HIDE DEF b
<1>5. added = r
  BY <1>2, <1>3, <1>4, CutName
<1>6. loopMessages \in Seq(MessageSet) /\ Len(loopMessages) >= 1 /\ loopMessages[1] = Prompt
  BY <1>2, <1>3, <1>4
<1> HIDE DEF added
<1>7. Talk(loopMessages) = Talk(p \o added)
  BY <1>1, <1>2, <1>3, <1>4, <1>5, TalkOn, ZenonT(40)
<1>8. OfSystem(Prompt) /\ Prompt.text = "prompt"
  BY DEF Prompt, Message, OfSystem
<1>9. 1 \in DOMAIN loopMessages /\ DOMAIN loopMessages = 1..Len(loopMessages) /\ Len(loopMessages) \in Nat
  BY <1>6
<1> DEFINE told == {k \in DOMAIN asked : OfSystem(asked[k])}
           orders == {Request.system} \cup {asked[k].text : k \in told}
<1>10. /\ TextsOf(Talk(asked)) = TextsOf(Talk(p \o added))
       /\ Converts \/ Talk(asked) = Talk(p \o added)
       /\ "prompt" \in orders \/ (Converts /\ \E k \in 2..Len(loopMessages) : OfSystem(loopMessages[k]))
  <2>1. CASE Converts
    <3>1. Request = Convert(loopMessages)
      BY <2>1 DEF Request
    <3>2. Talk(asked) = asked /\ TextsOf(asked) = TextsOf(Talk(loopMessages))
      BY <1>6, <3>1, ConvertOK
    <3>3. \E k \in 1..Len(loopMessages) : OfSystem(loopMessages[k])
      BY <1>6, <1>8, <1>9
    <3> DEFINE last == SelectLastInSeq(loopMessages, OfSystem)
    <3>4. last \in 1..Len(loopMessages) /\ OfSystem(loopMessages[last])
      BY <1>6, <3>3, LastIsOne
    <3>5. Request.system = loopMessages[last].text
      BY <1>9, <3>1, <3>3 DEF Convert
    <3> HIDE DEF last
    <3>6. CASE last = 1
      BY <1>6, <1>7, <1>8, <2>1, <3>2, <3>5, <3>6
    <3>7. CASE last # 1
      <4>1. last \in 2..Len(loopMessages)
        BY <1>9, <3>4, <3>7
      <4> QED BY <1>7, <2>1, <3>2, <3>4, <4>1
    <3> QED BY <3>6, <3>7
  <2>2. CASE ~Converts
    <3>1. asked = loopMessages
      BY <2>2 DEF Request
    <3>2. "prompt" \in orders
      BY <1>6, <1>8, <1>9, <3>1
    <3> QED BY <1>7, <3>1, <3>2
  <2> QED BY <2>1, <2>2
<1> QED BY <1>10 DEF RequestsAreWhole, p, b, added
=============================================================================
