-------------------------------- MODULE WhatIf --------------------------------
(***************************************************************************)
(* What-if scenarios and stability scores: a computation reads the         *)
(* checkpoint of the case's latest run as its baseline, forks the case's   *)
(* thread once per modification, drives every fork to its end, and         *)
(* compares what comes out with the baseline.                              *)
(*                                                                         *)
(* The computations are jobs of the outbox, so they run as JobLedger says: *)
(* at least once, and a run can be lost at any point.  Meanwhile the case  *)
(* itself may be run again.  A case is abstracted to its run and its       *)
(* verdict (the conclusion and confidence generate_diff compares); a       *)
(* modification is the item it changes.                                    *)
(***************************************************************************)
EXTENDS Naturals, FiniteSets

CONSTANTS
    Jobs,           \* what-if scenarios and stability computations
    Items,          \* the facts and evidence of the case
    Verdicts,       \* values of conclusion and confidence
    Count,          \* perturbation_count of a stability request
    MaxSteps,       \* max_steps of drive_whatif_to_terminal
    MaxRuns,        \* bound: runs of the case
    MaxLosses       \* bound: runs of jobs that are lost

ASSUME BoundsAssumption ==
    /\ IsFiniteSet(Items) /\ Count \in Nat \ {0} /\ MaxSteps \in Nat
    /\ MaxRuns \in Nat \ {0} /\ MaxLosses \in Nat

Runs == 1 .. MaxRuns

VARIABLES
    ledger,     \* JobLedger
    running,    \* JobLedger
    thread,     \* the case's thread: its run and verdict
    latest,     \* latest_run_id, 0 for none
    checkpoint, \* run -> the verdict in pipeline_checkpoints, or why there is none
    ready,      \* the case is ready for review
    row,        \* job -> the row of the scenario or stability score
    task,       \* job -> where its run is, and the baseline it read
    forks,      \* job -> modified item -> the fork of the run
    losses      \* runs lost so far

case == <<thread, latest, checkpoint, ready>>
jobs == <<ledger, running>>
vars == <<jobs, case, row, task, forks, losses>>

Outbox == INSTANCE JobLedger

-----------------------------------------------------------------------------
(* Values.                                                                 *)

NoVerdict == "no verdict"
Verdict == Verdicts \cup {NoVerdict}

CaseValue == [run : Runs, verdict : Verdict]

\* pipeline_checkpoints: a row may be missing, or of a version the reader rejects.
Checkpoint == Verdict \cup {"missing", "unreadable"}

Status == {"pending", "running", "completed", "failed"}
Bands  == {"stable", "moderately_sensitive", "highly_sensitive"}
Row    == [kind : {"scenario", "stability"}, status : Status, total : Nat,
           held : Nat, score : 0 .. 100, band : Bands]
NewRow(kind) == [kind |-> kind, status |-> "pending", total |-> 0, held |-> 0,
                 score |-> 0, band |-> "stable"]

Stages == {"none", "seeded", "gate2", "gate3", "gate4", "over", "end", "raised"}
Fork   == [stage : Stages, steps : Nat, changed : SUBSET Items, case : CaseValue]
NoFork == [stage |-> "none", steps |-> 0, changed |-> {},
           case |-> [run |-> 1, verdict |-> NoVerdict]]

Task == [at : {"idle", "reading", "forking"}, items : SUBSET Items, baseline : CaseValue]
IdleTask == [at |-> "idle", items |-> {}, baseline |-> NoFork.case]

\* The case has a first run, persisted by this or by an earlier version.
Init ==
    /\ Outbox!LedgerInit
    /\ \E v \in Verdict : thread = [run |-> 1, verdict |-> v]
    /\ latest \in {0, 1}
    /\ \E c \in {thread.verdict, "missing", "unreadable"} :
          checkpoint = [r \in Runs |-> IF r = 1 /\ latest = 1 THEN c ELSE "missing"]
    /\ ready \in BOOLEAN
    /\ row = [j \in Jobs |-> NewRow("scenario")]
    /\ task = [j \in Jobs |-> IdleTask]
    /\ forks = [j \in Jobs |-> [i \in Items |-> NoFork]]
    /\ losses = 0

-----------------------------------------------------------------------------
(* The case, meanwhile.                                                    *)

\* A case that is ready for review may be started again; its thread goes on.
StartRun ==
    /\ thread.run < MaxRuns
    /\ \E v \in Verdict : thread' = [run |-> thread.run + 1, verdict |-> v]
    /\ ready' = FALSE
    /\ UNCHANGED <<latest, checkpoint, jobs, row, task, forks, losses>>

\* The tables are written, then the checkpoint: three tries, and what fails
\* after them is logged and swallowed.
PersistRun ==
    /\ latest # thread.run
    /\ latest' = thread.run
    /\ checkpoint' \in {checkpoint, [checkpoint EXCEPT ![thread.run] = thread.verdict]}
    /\ ready' \in BOOLEAN
    /\ UNCHANGED <<thread, jobs, row, task, forks, losses>>

-----------------------------------------------------------------------------
(* Requests.                                                               *)

Insert(j, kind) ==
    /\ Outbox!Submit(j)
    /\ row' = [row EXCEPT ![j] = NewRow(kind)]
    /\ UNCHANGED <<case, task, forks, losses>>

SubmitScenario(j) == ready /\ latest # 0 /\ Insert(j, "scenario")

\* Nothing is asked of the case.
TriggerStability(j) == Insert(j, "stability")

-----------------------------------------------------------------------------
(* The computation.                                                        *)

\* The run begins by writing the row: "running", or "computing".
Begin(j) ==
    /\ Outbox!Begin(j)
    /\ row' = [row EXCEPT ![j].status = "running"]
    /\ task' = [task EXCEPT ![j] = [IdleTask EXCEPT !.at = "reading"]]
    /\ forks' = [forks EXCEPT ![j] = [i \in Items |-> NoFork]]
    /\ UNCHANGED <<case, losses>>

End(j, newRow, outcome) ==
    /\ row' = [row EXCEPT ![j] = newRow]
    /\ task' = [task EXCEPT ![j] = IdleTask]
    /\ Outbox!Settle(j, outcome)
    /\ UNCHANGED <<case, forks, losses>>

Failed(j) == [row[j] EXCEPT !.status = "failed"]

\* load_case_state returns a state, nothing, or raises.
Loadable == latest # 0 /\ checkpoint[latest] \in Verdict

\* Mutant: the job returns without failing the row.
NoBaselineQuietly(j) ==
    /\ task[j].at = "reading" /\ ~ Loadable
    /\ End(j, row[j], "done")

\* Without a baseline the row fails and the job is done.
NoBaseline(j) ==
    /\ task[j].at = "reading" /\ ~ Loadable
    /\ End(j, Failed(j), "done")

\* identify_perturbations: flippable facts and included evidence, at most Count.
Perturbations == {P \in SUBSET Items : Cardinality(P) <= Count}

\* Mutant: a checkpoint without a verdict is taken for a baseline.
ReadBaselineUnchecked(j) ==
    /\ task[j].at = "reading" /\ latest # 0
    /\ \E P \in IF row[j].kind = "stability" THEN Perturbations ELSE {{i} : i \in Items} :
          task' = [task EXCEPT ![j] =
                     [at |-> "forking", items |-> P,
                      baseline |-> [run |-> latest, verdict |-> checkpoint[latest]]]]
    /\ UNCHANGED <<jobs, case, row, forks, losses>>

ReadBaseline(j) ==
    /\ task[j].at = "reading" /\ Loadable
    /\ \E P \in IF row[j].kind = "stability" THEN Perturbations ELSE {{i} : i \in Items} :
          task' = [task EXCEPT ![j] =
                     [at |-> "forking", items |-> P,
                      baseline |-> [run |-> latest, verdict |-> checkpoint[latest]]]]
    /\ UNCHANGED <<jobs, case, row, forks, losses>>

\* A modification whose item the case does not have changes nothing: the judge's
\* payload is free, and the thread may have gone on since the baseline was read.
Applied(j, i) ==
    IF row[j].kind = "stability" /\ thread.run = task[j].baseline.run
    THEN {{i}} ELSE {{i}, {}}

\* The fork is seeded from the thread as it is now, under a fresh thread id.
CreateFork(j, i) ==
    /\ task[j].at = "forking" /\ i \in task[j].items
    /\ forks[j][i].stage = "none"
    /\ \E c \in Applied(j, i) :
          forks' = [forks EXCEPT ![j][i] =
                      [stage |-> "seeded", steps |-> 0, changed |-> c, case |-> thread]]
    /\ UNCHANGED <<jobs, case, row, task, losses>>

\* One turn of the drive: the seeded fork is invoked, a gate is advanced, and
\* a fork that is over lets the drive return.
Successor == [seeded |-> "gate2", gate2 |-> "gate3", gate3 |-> "gate4",
              gate4 |-> "over", over |-> "end"]

Turn(f) == IF f.steps < MaxSteps THEN Successor[f.stage] ELSE "raised"

\* Advancing past gate2 runs the synthesis; a missing answer leaves the verdict
\* of the thread it was forked from.
Answers(f) == IF f.stage = "gate2" THEN Verdicts \cup {f.case.verdict} ELSE {f.case.verdict}

Driven(f, v) == [stage |-> Turn(f), steps |-> IF f.steps < MaxSteps THEN f.steps + 1 ELSE f.steps,
                 changed |-> f.changed, case |-> [run |-> f.case.run, verdict |-> v]]

Drive(j, i) ==
    /\ forks[j][i].stage \in DOMAIN Successor
    /\ task[j].at = "forking"
    /\ \E v \in Answers(forks[j][i]) :
          forks' = [forks EXCEPT ![j][i] = Driven(forks[j][i], v)]
    /\ UNCHANGED <<jobs, case, row, task, losses>>

\* The graph raises under a fork, or there is no graph to fork.
ForkRaises(j, i) ==
    /\ task[j].at = "forking" /\ i \in task[j].items
    /\ forks[j][i].stage \in {"none"} \cup DOMAIN Successor
    /\ forks' = [forks EXCEPT ![j][i].stage = "raised"]
    /\ UNCHANGED <<jobs, case, row, task, losses>>

Finished(j) == \A i \in task[j].items : forks[j][i].stage \in {"end", "raised"}

\* The keys of generate_diff, and the ones the scenario reads from it.
DiffKeys == {"analysis_changed", "original_analysis", "modified_analysis"}
ScenarioReads == {"verdict_changed", "original_verdict", "modified_verdict"}

\* Mutant: the exception leaves the row as it was.
ScenarioFailsSilently(j) ==
    /\ task[j].at = "forking" /\ row[j].kind = "scenario" /\ Finished(j)
    /\ End(j, row[j], "failed")

\* Hence a scenario ends in a KeyError even when its fork came through.
ScenarioFails(j) ==
    /\ task[j].at = "forking" /\ row[j].kind = "scenario" /\ Finished(j)
    /\ ~ (ScenarioReads \subseteq DiffKeys)
    /\ End(j, Failed(j), "failed")

\* The session raises in the middle of a run: the row fails, and so does the job.
SessionRaises(j) ==
    /\ task[j].at # "idle"
    /\ End(j, Failed(j), "failed")

\* Mutant: a fork that raised counts as one that held.
HeldOrRaised(j) ==
    {i \in task[j].items :
        forks[j][i].stage = "raised" \/ forks[j][i].case.verdict = task[j].baseline.verdict}

\* _analysis_changed, for a fork that came through.
Held(j) ==
    {i \in task[j].items :
        forks[j][i].stage = "end" /\ forks[j][i].case.verdict = task[j].baseline.verdict}

Score(held, total) == IF total = 0 THEN 100 ELSE (held * 100) \div total

\* classify.
Band(score) ==
    IF score >= 85 THEN "stable"
    ELSE IF score >= 60 THEN "moderately_sensitive" ELSE "highly_sensitive"

\* gather: every fork has ended or raised; one that raised has not held.
ScoreStability(j) ==
    /\ task[j].at = "forking" /\ row[j].kind = "stability" /\ Finished(j)
    /\ LET held  == Cardinality(Held(j))
           total == Cardinality(task[j].items)
       IN End(j, [row[j] EXCEPT !.status = "completed", !.total = total, !.held = held,
                                !.score = Score(held, total),
                                !.band = Band(Score(held, total))], "done")

\* The run is lost: a crash, or the time limit of the job.
LoseRun(j) ==
    /\ losses < MaxLosses
    /\ j \in running
    /\ Outbox!Abandon({j})
    /\ task' = [task EXCEPT ![j] = IdleTask]
    /\ losses' = losses + 1
    /\ UNCHANGED <<case, row, forks>>

-----------------------------------------------------------------------------

Work(j) ==
    \/ ledger[j] = "owed" /\ Begin(j)
    \/ NoBaseline(j) \/ ReadBaseline(j) \/ ScenarioFails(j) \/ ScoreStability(j)
    \/ \E i \in Items : CreateFork(j, i) \/ Drive(j, i)

\* A failed job runs again when its worker died before acknowledging it.
Redeliver(j) ==
    /\ losses < MaxLosses
    /\ ledger[j] = "failed" /\ Outbox!Begin(j)
    /\ row' = [row EXCEPT ![j].status = "running"]
    /\ task' = [task EXCEPT ![j] = [IdleTask EXCEPT !.at = "reading"]]
    /\ forks' = [forks EXCEPT ![j] = [i \in Items |-> NoFork]]
    /\ losses' = losses + 1
    /\ UNCHANGED case

Next ==
    \/ StartRun \/ PersistRun
    \/ \E j \in Jobs : \/ SubmitScenario(j) \/ TriggerStability(j)
                       \/ Work(j) \/ SessionRaises(j) \/ LoseRun(j) \/ Redeliver(j)
                       \/ \E i \in Items : ForkRaises(j, i)

\* A job that is owed is run (JobLedger), and a run goes on.
Spec == Init /\ [][Next]_vars /\ \A j \in Jobs : WF_vars(Work(j))

-----------------------------------------------------------------------------
(* Properties.                                                             *)

\* Every variable has its type.
TypeOK ==
    /\ Outbox!LedgerTypeOK
    /\ thread \in CaseValue
    /\ latest \in 0 .. MaxRuns
    /\ checkpoint \in [Runs -> Checkpoint]
    /\ ready \in BOOLEAN
    /\ row \in [Jobs -> Row]
    /\ task \in [Jobs -> Task]
    /\ forks \in [Jobs -> [Items -> Fork]]
    /\ losses \in 0 .. MaxLosses

\* What the judge polls agrees with what the outbox believes: a computation that
\* is over is not shown as pending or running, and one that was given up is not
\* shown as completed, whatever was lost in between (_run_whatif_scenario,
\* _run_stability_computation commit their row before the job is settled).
RowsAgreeWithJobs ==
    \A j \in Jobs :
        /\ ledger[j] = "done" => row[j].status \in {"completed", "failed"}
        /\ ledger[j] = "failed" => row[j].status # "completed"
        /\ ledger[j] = "owed" /\ j \notin running /\ losses = 0 => row[j].status = "pending"

\* A score counts the forks of one run only, each with its own modification:
\* held are the forks that came to their end with the verdict of one baseline,
\* and no drive gives up before its fork's end (max_steps).
ScoreIsOfItsForks ==
    \A j \in Jobs :
        /\ row[j].status = "completed" =>
              LET done == {i \in Items : forks[j][i].stage = "end"} IN
              /\ row[j].held <= Cardinality(done)
              /\ row[j].total = Cardinality({i \in Items : forks[j][i].stage # "none"})
              /\ (row[j].band = "stable") <=> (100 * row[j].held >= 85 * row[j].total)
        /\ \A i \in Items : /\ forks[j][i].changed \subseteq {i}
                            /\ forks[j][i].stage # "none" => forks[j][i].steps < MaxSteps

\* A scenario or a score the judge polls comes to an end as long as its job is
\* owed, although runs are lost and forks fail.
ComputationEnds ==
    \A j \in Jobs : row[j].status = "running" /\ ledger[j] = "owed"
                        ~> row[j].status \in {"completed", "failed"}

-----------------------------------------------------------------------------
(* The inductive strengthening the proofs use (see WhatIfProofs).          *)

\* A task is in progress exactly when the ledger says so, and shows as running.
TasksRun ==
    \A j \in Jobs :
        /\ j \in running <=> task[j].at # "idle"
        /\ ledger[j] \in {"absent", "done"} => j \notin running
        /\ j \in running => row[j].status = "running"
        /\ row[j].status = "completed" => ledger[j] = "done"

\* The forks of a run are those of its items, each as many steps on its way as its
\* stage says.
StepsTo == [seeded |-> 0, gate2 |-> 1, gate3 |-> 2, gate4 |-> 3, over |-> 4, end |-> 5]

OnItsWay(f) == /\ f.stage \in DOMAIN StepsTo => f.steps = StepsTo[f.stage]
               /\ f.steps <= 5

ForksOfItems ==
    \A j \in Jobs :
        /\ task[j].at = "reading" => \A i \in Items : forks[j][i].stage = "none"
        /\ task[j].at = "forking" =>
              \A i \in Items : forks[j][i].stage # "none" => i \in task[j].items
        /\ \A i \in Items : OnItsWay(forks[j][i]) /\ forks[j][i].changed \subseteq {i}

Scored ==
    \A j \in Jobs : row[j].status = "completed" =>
        LET done == {i \in Items : forks[j][i].stage = "end"} IN
        /\ row[j].held <= Cardinality(done)
        /\ row[j].total = Cardinality({i \in Items : forks[j][i].stage # "none"})
        /\ (row[j].band = "stable") <=> (100 * row[j].held >= 85 * row[j].total)

IInv == TypeOK /\ TasksRun /\ RowsAgreeWithJobs /\ ForksOfItems /\ Scored
=============================================================================
