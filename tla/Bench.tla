-------------------------------- MODULE Bench --------------------------------
(***************************************************************************)
(* The benchmark runner (internal/bench, cmd/baryo-runner): it runs every  *)
(* task once per arm, each in a worktree of its own, and appends a row per *)
(* run to a results file that survives it.  A later runner reads the file  *)
(* and runs only what has no scored row.                                   *)
(***************************************************************************)
EXTENDS Integers, Sequences, FiniteSets

CONSTANTS
  Tasks,        \* sequence of [id, repeat, verifies, recipe]: the tasks file
  Arms,         \* sequence of arms, of which "A", "B" and "C" are known
  MaxRows,      \* bound: rows of the results file
  MaxRunners    \* bound: runners started one after the other

ASSUME BenchAssumption ==
  /\ Tasks \in Seq([id : STRING, repeat : BOOLEAN, verifies : BOOLEAN, recipe : BOOLEAN])
  /\ Arms \in Seq(STRING)
  /\ MaxRows \in Nat /\ MaxRunners \in Nat

VARIABLES
  rows,       \* results file: [key, arm, repeat, infra, verify, usage, try]
  torn,       \* its last line is half a row
  traces,     \* trace files: key -> the try whose end the file records, 0: none
  tries,      \* runs of baryo started so far; each tags its own trace
  runners,    \* runners started
  phase,      \* of the runner: "off", "next", "prepare", "execute", "verify", "record", "done"
  completed,  \* Runner.completed
  at,         \* position in the run order
  res,        \* the Result being filled in
  stopped     \* ctx was cancelled by SIGINT or SIGTERM

benchVars == <<rows, torn, traces, tries, runners, phase, completed, at, res, stopped>>

\* Run's two loops: the arms of the first task, then those of the second.
Pairs == Len(Tasks) * Len(Arms)
TaskAt(i) == Tasks[((i - 1) \div Len(Arms)) + 1]
ArmAt(i) == Arms[((i - 1) % Len(Arms)) + 1]
KeyAt(i) == <<TaskAt(i).id, ArmAt(i)>>
Keys == {KeyAt(i) : i \in 1..Pairs}

Blank(i) == [key |-> KeyAt(i), arm |-> ArmAt(i), repeat |-> TaskAt(i).repeat,
             infra |-> FALSE, verify |-> -1, usage |-> 0, try |-> 0]

BenchInit ==
  /\ rows = <<>> /\ torn = FALSE /\ tries = 0 /\ runners = 0
  /\ traces = [k \in Keys |-> 0]
  /\ phase = "off" /\ completed = {} /\ at = 1 /\ res = Blank(1) /\ stopped = FALSE

\* loadExistingResults: a row of a failed harness does not count as a run.
ExistingResults == {rows[i].key : i \in {j \in 1..Len(rows) : ~rows[j].infra}}

\* A results file with a row that does not parse is refused.
NewRunner ==
  /\ phase = "off" /\ runners < MaxRunners /\ ~torn
  /\ runners' = runners + 1 /\ phase' = "next" /\ at' = 1 /\ stopped' = FALSE
  /\ completed' = ExistingResults
  /\ UNCHANGED <<rows, torn, traces, tries, res>>

\* The user repairs a results file that no runner accepts.
RepairResults ==
  /\ phase = "off" /\ torn
  /\ torn' = FALSE
  /\ UNCHANGED <<rows, traces, tries, runners, phase, completed, at, res, stopped>>

\* Run: the next pair, unless the context is done or the pair has a score.
NextPair ==
  /\ phase = "next" /\ Len(rows) < MaxRows
  /\ IF at > Pairs \/ stopped
     THEN phase' = "done" /\ UNCHANGED <<at, res>>
     ELSE IF KeyAt(at) \in completed
     THEN at' = at + 1 /\ UNCHANGED <<phase, res>>
     ELSE phase' = "prepare" /\ res' = Blank(at) /\ UNCHANGED at
  /\ UNCHANGED <<rows, torn, traces, tries, runners, completed, stopped>>

\* createWorktree: git may refuse.  resolveRecipe: the task's, or a file's.
Worktrees == BOOLEAN
Recipe(i) == TaskAt(i).recipe

\* runTaskArm up to the run: an unknown arm, a task without a verify command,
\* a worktree git cannot make and a missing recipe are failures of the harness.
\* The trace of the attempt before is left in place, and its usage counted again.
Prepare_KeepsTrace ==
  /\ phase = "prepare"
  /\ phase' = "execute" /\ tries' = tries + 1 /\ res' = [res EXCEPT !.try = tries + 1]
  /\ UNCHANGED <<traces, rows, torn, runners, completed, at, stopped>>

Prepare ==
  /\ phase = "prepare"
  /\ \E worktree \in Worktrees :
       IF /\ ArmAt(at) \in {"A", "B", "C"} /\ TaskAt(at).verifies /\ worktree
          /\ ArmAt(at) = "B" => Recipe(at)
       THEN /\ phase' = "execute" /\ tries' = tries + 1
            /\ traces' = [traces EXCEPT ![KeyAt(at)] = 0]
            /\ res' = [res EXCEPT !.try = tries + 1]
       ELSE /\ phase' = "record" /\ res' = [res EXCEPT !.infra = TRUE]
            /\ UNCHANGED <<tries, traces>>
  /\ UNCHANGED <<rows, torn, runners, completed, at, stopped>>

\* ParseTraceUsage: that of the last task_end in the trace file, or none.
ParseTraceUsage(files) == files[KeyAt(at)]

\* executeBaryo: the run succeeds, fails, or is killed at its deadline or with
\* the context; only a binary that did not start is a failure of the harness.
\* A run killed early has not recorded its end.
ExecuteBaryo ==
  /\ phase = "execute"
  /\ \/ \E recorded \in BOOLEAN :
          /\ traces' = [traces EXCEPT ![KeyAt(at)] = IF recorded THEN res.try ELSE @]
          /\ phase' = "verify"
          /\ res' = [res EXCEPT !.usage = ParseTraceUsage(traces')]
     \/ phase' = "record" /\ res' = [res EXCEPT !.infra = TRUE] /\ UNCHANGED traces
  /\ UNCHANGED <<rows, torn, tries, runners, completed, at, stopped>>

\* runVerify: the exit code, 1 for any that is not 0: a deadline is reported as
\* 124, and a command that a context already done keeps from starting as 1.
RunVerify ==
  /\ phase = "verify"
  /\ \E code \in IF stopped THEN {1} ELSE {0, 1} : res' = [res EXCEPT !.verify = code]
  /\ phase' = "record"
  /\ UNCHANGED <<rows, torn, traces, tries, runners, completed, at, stopped>>

\* recordResult, then completed[key]: a row that cannot be written, or only by
\* half, is reported and not tried again by this runner; a row appended to half
\* a row is lost in its line.
RecordResult ==
  /\ phase = "record"
  /\ \/ rows' = (IF torn THEN rows ELSE Append(rows, res)) /\ UNCHANGED torn
     \/ torn' \in {torn, TRUE} /\ UNCHANGED rows
  /\ completed' = IF res.infra THEN completed ELSE completed \cup {res.key}
  /\ phase' = "next" /\ at' = at + 1
  /\ UNCHANGED <<traces, tries, runners, res, stopped>>

\* signal.NotifyContext: Ctrl-C or SIGTERM.
Interrupt ==
  /\ phase \notin {"off", "done"} /\ ~stopped
  /\ stopped' = TRUE
  /\ UNCHANGED <<rows, torn, traces, tries, runners, phase, completed, at, res>>

\* The process returns, or dies; in the middle of the append it may leave half a row.
Exit ==
  /\ phase # "off"
  /\ phase' = "off"
  /\ torn' \in {torn} \cup (IF phase = "record" THEN {TRUE} ELSE {})
  /\ UNCHANGED <<rows, traces, tries, runners, completed, at, res, stopped>>

BenchNext ==
  \/ NewRunner \/ RepairResults \/ NextPair \/ Prepare \/ ExecuteBaryo
  \/ RunVerify \/ RecordResult \/ Interrupt \/ Exit

-----------------------------------------------------------------------------
\* ComputeSummary: the gate compares the pass rates of the arms B and A on the
\* repeat-shaped tasks, over the rows that are scored.
Scored == {i \in 1..Len(rows) : ~rows[i].infra}
Shaped(arm) == {i \in Scored : rows[i].arm = arm /\ rows[i].repeat}
Passed(arm) == {i \in Shaped(arm) : rows[i].verify = 0}
Gate ==
  LET n(arm) == Cardinality(Shaped(arm))
      p(arm) == Cardinality(Passed(arm))
  IN IF n("A") = 0 \/ n("B") = 0 THEN "INSUFFICIENT_DATA"
     ELSE IF 100 * (p("B") * n("A") - p("A") * n("B")) >= 25 * n("A") * n("B")
          THEN "PASSED" ELSE "NOT_MET"

\* A task counts once per arm, however often runners are killed and started
\* again; so the gate rests on the repeat-shaped tasks that were run, each with
\* the weight of one.
ScoredOnce ==
  /\ \A i, j \in Scored : rows[i].key = rows[j].key => i = j
  /\ Gate = "PASSED" =>
       /\ Passed("B") # {}
       /\ \A arm \in {"A", "B"} :
            Cardinality(Shaped(arm)) <= Cardinality({i \in 1..Len(Tasks) : Tasks[i].repeat})

\* The tokens of a row are those of its own run, never of an earlier one whose
\* trace file was still there.
UsageIsOwn == \A i \in 1..Len(rows) : rows[i].usage \in {0, rows[i].try}

\* "Those results are retried, not scored" (ErrInfra): what a runner skips has
\* a scored row, or this runner has run it and could not write its row.
SkipsOnlyRun ==
  phase \notin {"off", "done"} /\ runners > 0 =>
    \A k \in completed : \/ \E i \in Scored : rows[i].key = k
                         \/ \E j \in 1..(at - 1) : KeyAt(j) = k

ScoresAreFair == ScoredOnce /\ UsageIsOwn /\ SkipsOnlyRun
=============================================================================
