------------------------------ MODULE WhatIfProofs ------------------------------
(***************************************************************************)
(* Proofs about WhatIf, for any jobs, items, verdicts, number of           *)
(* perturbations and of steps.                                             *)
(*                                                                         *)
(* Every step of a computation has one of seven shapes (ShapeOfNext); the  *)
(* parts of the inductive invariant are proved shape by shape.             *)
(***************************************************************************)
EXTENDS WhatIf, FiniteSetTheorems, TLAPS

--------------------------------------------------------------------------------
(* Arithmetic and cardinalities *)

\* Division rounds down.
LEMMA Quotient ==
    ASSUME NEW h \in Nat, NEW t \in Nat \ {0}
    PROVE  (h \div t) \in Nat /\ (h \div t) * t <= h /\ h < ((h \div t) + 1) * t
  BY Z3

\* A score is a percentage.
LEMMA ScoreRange ==
    ASSUME NEW h \in Nat, NEW t \in Nat, h <= t
    PROVE  Score(h, t) \in 0 .. 100
  <1>1. CASE t = 0
    BY <1>1 DEF Score
  <1>2. CASE t # 0
    <2>1. (h * 100) \div t \in Nat /\ ((h * 100) \div t) * t <= h * 100
      BY <1>2, Quotient
    <2>2. ASSUME NEW n \in Nat, n * t <= h * 100 PROVE n <= 100
      BY <1>2, <2>2
    <2> QED
      BY <1>2, <2>1, <2>2 DEF Score
  <1> QED
    BY <1>1, <1>2

\* The band says what the unrounded share says: rounding down moves no score over
\* the border of a band.
LEMMA BandIsExact ==
    ASSUME NEW h \in Nat, NEW t \in Nat
    PROVE  (Band(Score(h, t)) = "stable") <=> (100 * h >= 85 * t)
  <1>1. CASE t = 0
    BY <1>1 DEF Score, Band
  <1>2. CASE t # 0
    <2>1. ((h * 100) \div t >= 85) <=> (100 * h >= 85 * t)
      BY <1>2, Quotient
    <2> QED
      BY <1>2, <2>1 DEF Score, Band
  <1> QED
    BY <1>1, <1>2

\* Any set of forks can be counted.
LEMMA ItemsFinite ==
    ASSUME NEW S \in SUBSET Items
    PROVE  IsFiniteSet(S) /\ Cardinality(S) \in Nat
  BY BoundsAssumption, FS_Subset, FS_CardinalityType

--------------------------------------------------------------------------------
(* Shapes *)

SubmitShape(j) ==
    /\ ledger[j] = "absent" /\ ledger' = [ledger EXCEPT ![j] = "owed"] /\ UNCHANGED running
    /\ \E kind \in {"scenario", "stability"} : row' = [row EXCEPT ![j] = NewRow(kind)]
    /\ UNCHANGED <<case, task, forks, losses>>

BeginShape(j) ==
    /\ ledger[j] \in {"owed", "failed"} /\ j \notin running
    /\ running' = running \cup {j} /\ UNCHANGED ledger
    /\ row' = [row EXCEPT ![j].status = "running"]
    /\ task' = [task EXCEPT ![j] = [IdleTask EXCEPT !.at = "reading"]]
    /\ forks' = [forks EXCEPT ![j] = [i \in Items |-> NoFork]]
    /\ losses' \in losses .. MaxLosses /\ UNCHANGED case

ReadShape(j) ==
    /\ task[j].at = "reading"
    /\ \E t \in Task : t.at = "forking" /\ task' = [task EXCEPT ![j] = t]
    /\ UNCHANGED <<jobs, case, row, forks, losses>>

ForkShape(j, i) ==
    /\ task[j].at = "forking"
    /\ \E f \in Fork : /\ f.stage # "none" /\ OnItsWay(f) /\ f.changed \subseteq {i}
                       /\ forks[j][i].stage # "none" \/ i \in task[j].items
                       /\ forks' = [forks EXCEPT ![j][i] = f]
    /\ UNCHANGED <<jobs, case, row, task, losses>>

EndShape(j) ==
    /\ task[j].at # "idle" /\ task' = [task EXCEPT ![j] = IdleTask]
    /\ running' = running \ {j}
    /\ \E r \in Row, outcome \in {"done", "failed"} :
          /\ row' = [row EXCEPT ![j] = r] /\ ledger' = [ledger EXCEPT ![j] = outcome]
          /\ r.status \in {"completed", "failed"}
          /\ r.status = "completed" =>
                LET done == {i \in Items : forks[j][i].stage = "end"} IN
                /\ outcome = "done"
                /\ r.held <= Cardinality(done)
                /\ r.total = Cardinality({i \in Items : forks[j][i].stage # "none"})
                /\ (r.band = "stable") <=> (100 * r.held >= 85 * r.total)
    /\ UNCHANGED <<case, forks, losses>>

LoseShape(j) ==
    /\ j \in running /\ running' = running \ {j} /\ UNCHANGED ledger
    /\ task' = [task EXCEPT ![j] = IdleTask]
    /\ losses < MaxLosses /\ losses' = losses + 1
    /\ UNCHANGED <<case, row, forks>>

CaseTypeOK == /\ thread \in CaseValue
              /\ latest \in 0 .. MaxRuns
              /\ checkpoint \in [Runs -> Checkpoint]
              /\ ready \in BOOLEAN

CaseShape == CaseTypeOK' /\ UNCHANGED <<jobs, row, task, forks, losses>>

JobShape == \E j \in Jobs : \/ SubmitShape(j) \/ BeginShape(j) \/ ReadShape(j)
                            \/ EndShape(j) \/ LoseShape(j)
                            \/ \E i \in Items : ForkShape(j, i)

\* A run of the case itself leaves the computations alone.
LEMMA CaseSteps == ASSUME TypeOK, StartRun \/ PersistRun PROVE CaseShape
  <1>1. CASE StartRun
    <2>1. thread.run + 1 \in Runs
      BY <1>1, BoundsAssumption DEF StartRun, TypeOK, CaseValue, Runs
    <2>2. thread' \in CaseValue
      BY <1>1, <2>1 DEF StartRun, CaseValue
    <2> QED
      BY <1>1, <2>2 DEF StartRun, CaseShape, CaseTypeOK, TypeOK, jobs
  <1>2. CASE PersistRun
    <2>1. thread.run \in Runs /\ thread.verdict \in Checkpoint
      BY DEF TypeOK, CaseValue, Checkpoint, Verdict
    <2>2. checkpoint' \in [Runs -> Checkpoint]
      BY <1>2, <2>1 DEF PersistRun, TypeOK
    <2> QED
      BY <1>2, <2>1, <2>2, BoundsAssumption DEF PersistRun, CaseShape, CaseTypeOK, TypeOK, Runs, jobs
  <1> QED
    BY <1>1, <1>2

\* A run of a job begins with no forks of its own.
LEMMA BeginSteps ==
    ASSUME TypeOK, NEW j \in Jobs, Begin(j) \/ Redeliver(j) PROVE BeginShape(j)
  BY BoundsAssumption DEF Begin, Redeliver, Outbox!Begin, BeginShape, TypeOK

\* What a job reads is a state of the case that can be loaded.
LEMMA ReadSteps ==
    ASSUME TypeOK, NEW j \in Jobs, ReadBaseline(j) PROVE ReadShape(j)
  <1>1. /\ task[j].at = "reading" /\ Loadable
        /\ UNCHANGED <<jobs, case, row, forks, losses>>
    BY DEF ReadBaseline
  <1>2. PICK P \in SUBSET Items :
          task' = [task EXCEPT ![j] = [at |-> "forking", items |-> P,
                     baseline |-> [run |-> latest, verdict |-> checkpoint[latest]]]]
    <2>1. Perturbations \subseteq SUBSET Items /\ {{i} : i \in Items} \subseteq SUBSET Items
      BY DEF Perturbations
    <2> QED
      BY <2>1 DEF ReadBaseline
  <1>3. latest \in Runs
    BY <1>1, BoundsAssumption DEF Loadable, TypeOK, Runs
  <1>4. [run |-> latest, verdict |-> checkpoint[latest]] \in CaseValue
    BY <1>1, <1>3 DEF Loadable, CaseValue
  <1> QED
    BY <1>1, <1>2, <1>4 DEF ReadShape, Task

\* A fork is made, driven or lost by itself.
LEMMA ForkSteps ==
    ASSUME IInv, NEW j \in Jobs, NEW i \in Items, CreateFork(j, i) \/ Drive(j, i) \/ ForkRaises(j, i)
    PROVE  ForkShape(j, i)
  <1> DEFINE f == forks[j][i]
  <1>1. f \in Fork /\ OnItsWay(f) /\ f.changed \subseteq {i}
    BY DEF IInv, TypeOK, ForksOfItems
  <1>2. CASE CreateFork(j, i)
    <2>1. PICK c \in Applied(j, i) :
            forks' = [forks EXCEPT ![j][i] =
                        [stage |-> "seeded", steps |-> 0, changed |-> c, case |-> thread]]
      BY <1>2 DEF CreateFork
    <2>2. c \in {{i}, {}}
      BY DEF Applied
    <2>3. [stage |-> "seeded", steps |-> 0, changed |-> c, case |-> thread] \in Fork
      BY <2>2 DEF Fork, Stages, IInv, TypeOK
    <2> DEFINE g == [stage |-> "seeded", steps |-> 0, changed |-> c, case |-> thread]
    <2>4. g.stage # "none" /\ OnItsWay(g) /\ g.changed \subseteq {i}
      BY <2>2 DEF OnItsWay, StepsTo
    <2>5. task[j].at = "forking" /\ i \in task[j].items /\ UNCHANGED <<jobs, case, row, task, losses>>
      BY <1>2 DEF CreateFork
    <2>6. g \in Fork /\ forks' = [forks EXCEPT ![j][i] = g]
      BY <2>1, <2>3
    <2> HIDE DEF g
    <2> QED
      BY <2>4, <2>5, <2>6 DEF ForkShape
  <1>3. CASE Drive(j, i)
    <2>1. PICK v \in Answers(f) : forks' = [forks EXCEPT ![j][i] = Driven(f, v)]
      BY <1>3 DEF Drive
    <2>2. /\ f.stage \in {"seeded", "gate2", "gate3", "gate4", "over"} /\ f.steps = StepsTo[f.stage]
          /\ f.stage \in DOMAIN StepsTo
      BY <1>1, <1>3 DEF Drive, Successor, OnItsWay, StepsTo
    <2>3. f.steps \in Nat /\ f.steps <= 4
      BY <2>2 DEF StepsTo
    <2>4. v \in Verdict /\ f.case.run \in Runs
      BY <1>1 DEF Answers, Fork, CaseValue, Verdict
    <2>5. Turn(f) \in Stages \ {"none"}
      BY <2>2 DEF Turn, Successor, Stages
    <2>6. Driven(f, v) \in Fork
      BY <1>1, <2>3, <2>4, <2>5 DEF Driven, Fork, CaseValue
    <2>7. OnItsWay(Driven(f, v))
      <3>1. CASE f.steps < MaxSteps
        <4>1. Driven(f, v).stage = Successor[f.stage] /\ Driven(f, v).steps = f.steps + 1
          BY <3>1 DEF Driven, Turn
        <4> QED
          BY <2>2, <2>3, <4>1 DEF OnItsWay, Successor, StepsTo
      <3>2. CASE ~ (f.steps < MaxSteps)
        BY <2>3, <3>2 DEF Driven, Turn, OnItsWay, StepsTo
      <3> QED
        BY <3>1, <3>2
    <2>8. Driven(f, v).stage # "none" /\ Driven(f, v).changed \subseteq {i} /\ f.stage # "none"
      BY <1>1, <2>2, <2>5 DEF Driven
    <2> QED
      BY <1>3, <2>1, <2>6, <2>7, <2>8 DEF Drive, ForkShape
  <1>4. CASE ForkRaises(j, i)
    <2> DEFINE g == [f EXCEPT !.stage = "raised"]
    <2>1. forks' = [forks EXCEPT ![j][i] = g] /\ task[j].at = "forking" /\ i \in task[j].items
      BY <1>4 DEF ForkRaises
    <2>2. g \in Fork /\ g.stage = "raised" /\ g.steps = f.steps /\ g.changed = f.changed
      BY <1>1 DEF Fork, Stages
    <2>3. OnItsWay(g)
      BY <1>1, <2>2 DEF OnItsWay, StepsTo
    <2> QED
      BY <1>1, <1>4, <2>1, <2>2, <2>3 DEF ForkRaises, ForkShape
  <1> QED
    BY <1>2, <1>3, <1>4

\* What a score writes: its forks have ended, so their stages are those of its items.
LEMMA ScoreSteps ==
    ASSUME IInv, NEW j \in Jobs, ScoreStability(j) PROVE EndShape(j)
  <1> DEFINE held  == Cardinality(Held(j))
             total == Cardinality(task[j].items)
             r     == [row[j] EXCEPT !.status = "completed", !.total = total, !.held = held,
                                     !.score = Score(held, total),
                                     !.band = Band(Score(held, total))]
             done  == {i \in Items : forks[j][i].stage = "end"}
  <1>1. End(j, r, "done") /\ task[j].at = "forking" /\ Finished(j)
    BY DEF ScoreStability
  <1>2. task[j].items \in SUBSET Items /\ row[j] \in Row
    BY DEF IInv, TypeOK, Task
  <1>3. Held(j) \subseteq task[j].items /\ Held(j) \subseteq done
    BY <1>2 DEF Held
  <1>4. held \in Nat /\ total \in Nat /\ held <= total /\ held <= Cardinality(done)
    <2>1. IsFiniteSet(task[j].items) /\ IsFiniteSet(done) /\ Held(j) \in SUBSET Items
      BY <1>2, <1>3, ItemsFinite
    <2> QED
      BY <1>2, <1>3, <2>1, ItemsFinite, FS_Subset
  <1>5. task[j].items = {i \in Items : forks[j][i].stage # "none"}
    BY <1>1, <1>2 DEF Finished, IInv, ForksOfItems
  <1>6. Score(held, total) \in 0 .. 100
    BY <1>4, ScoreRange
  <1>7. Band(Score(held, total)) \in Bands
    BY DEF Band, Bands
  <1>8. (Band(Score(held, total)) = "stable") <=> (100 * held >= 85 * total)
    BY <1>4, BandIsExact
  <1>9. /\ r \in Row /\ r.status = "completed" /\ r.held = held /\ r.total = total
        /\ r.band = Band(Score(held, total))
    <2> HIDE DEF held, total
    <2> QED
      BY <1>2, <1>4, <1>6, <1>7 DEF Row, Status
  <1>10. /\ row' = [row EXCEPT ![j] = r] /\ task' = [task EXCEPT ![j] = IdleTask]
         /\ ledger' = [ledger EXCEPT ![j] = "done"] /\ running' = running \ {j}
         /\ UNCHANGED <<case, forks, losses>>
    BY <1>1 DEF End, Outbox!Settle
  <1> HIDE DEF r, held
  <1> QED
    BY <1>1, <1>4, <1>5, <1>8, <1>9, <1>10 DEF EndShape

\* What ends without a score is written as failed.
LEMMA FailSteps ==
    ASSUME TypeOK, NEW j \in Jobs, NoBaseline(j) \/ ScenarioFails(j) \/ SessionRaises(j)
    PROVE  EndShape(j)
  <1>1. PICK outcome \in {"done", "failed"} : End(j, Failed(j), outcome)
    BY DEF NoBaseline, ScenarioFails, SessionRaises
  <1>2. task[j].at # "idle"
    BY DEF NoBaseline, ScenarioFails, SessionRaises
  <1>3. Failed(j) \in Row /\ Failed(j).status = "failed"
    BY SMTT(30) DEF TypeOK, Row, Status, Failed
  <1> QED
    BY <1>1, <1>2, <1>3 DEF End, Outbox!Settle, EndShape

\* A request inserts the row with its job.
LEMMA SubmitSteps ==
    ASSUME NEW j \in Jobs, SubmitScenario(j) \/ TriggerStability(j) PROVE SubmitShape(j)
  BY DEF SubmitScenario, TriggerStability, Insert, Outbox!Submit, SubmitShape

\* A run that is lost writes nothing.
LEMMA LoseSteps ==
    ASSUME NEW j \in Jobs, LoseRun(j) PROVE LoseShape(j)
  BY DEF LoseRun, Outbox!Abandon, LoseShape

\* Every step has one of the shapes.
LEMMA ShapeOfNext == ASSUME IInv, Next PROVE CaseShape \/ JobShape
  <1> USE DEF IInv
  <1>1. CASE StartRun \/ PersistRun
    BY <1>1, CaseSteps
  <1>2. ASSUME NEW j \in Jobs,
               \/ SubmitScenario(j) \/ TriggerStability(j) \/ Work(j)
               \/ SessionRaises(j) \/ LoseRun(j) \/ Redeliver(j)
               \/ \E i \in Items : ForkRaises(j, i)
        PROVE  JobShape
    <2>1. CASE Work(j)
      BY <2>1, BeginSteps, ReadSteps, FailSteps, ScoreSteps, ForkSteps DEF Work, JobShape
    <2>2. CASE SubmitScenario(j) \/ TriggerStability(j) \/ SessionRaises(j) \/ LoseRun(j) \/ Redeliver(j)
      BY <2>2, SubmitSteps, FailSteps, LoseSteps, BeginSteps DEF JobShape
    <2>3. CASE \E i \in Items : ForkRaises(j, i)
      BY <2>3, ForkSteps DEF JobShape
    <2> QED
      BY <1>2, <2>1, <2>2, <2>3
  <1> QED
    BY <1>1, <1>2 DEF Next

--------------------------------------------------------------------------------
(* The inductive invariant *)

\* A step keeps the types.
LEMMA TypedNext == ASSUME IInv, CaseShape \/ JobShape PROVE TypeOK'
  <1> DEFINE JobTypeOK == /\ Outbox!LedgerTypeOK
                          /\ row \in [Jobs -> Row]
                          /\ task \in [Jobs -> Task]
                          /\ forks \in [Jobs -> [Items -> Fork]]
                          /\ losses \in 0 .. MaxLosses
  <1>0. JobTypeOK /\ CaseTypeOK /\ (TypeOK' <=> JobTypeOK' /\ CaseTypeOK')
    BY DEF IInv, TypeOK, CaseTypeOK
  <1>1. CASE CaseShape
    BY <1>0, <1>1 DEF CaseShape, Outbox!LedgerTypeOK, jobs
  <1>2. ASSUME NEW j \in Jobs,
               \/ SubmitShape(j) \/ BeginShape(j) \/ ReadShape(j) \/ EndShape(j) \/ LoseShape(j)
               \/ \E i \in Items : ForkShape(j, i)
        PROVE  TypeOK'
    <2>1. CaseTypeOK'
      BY <1>0, <1>2 DEF SubmitShape, BeginShape, ReadShape, EndShape, LoseShape, ForkShape,
                        CaseTypeOK, case
    <2>2. Outbox!LedgerTypeOK'
      BY <1>0, <1>2 DEF SubmitShape, BeginShape, ReadShape, EndShape, LoseShape, ForkShape,
                        Outbox!LedgerTypeOK, Outbox!LedgerStatus, jobs
    <2>3. row' \in [Jobs -> Row]
      <3>1. \A kind \in {"scenario", "stability"} : NewRow(kind) \in Row
        BY DEF NewRow, Row, Status, Bands
      <3>2. [row[j] EXCEPT !.status = "running"] \in Row
        BY <1>0 DEF Row, Status
      <3> QED
        BY <1>0, <1>2, <3>1, <3>2
        DEF SubmitShape, BeginShape, ReadShape, EndShape, LoseShape, ForkShape
    <2>4. task' \in [Jobs -> Task]
      <3>1. 1 \in Runs
        BY BoundsAssumption DEF Runs
      <3>2. IdleTask \in Task /\ [IdleTask EXCEPT !.at = "reading"] \in Task
        BY <3>1 DEF IdleTask, Task, NoFork, CaseValue, Verdict
      <3> QED
        BY <1>0, <1>2, <3>2
        DEF SubmitShape, BeginShape, ReadShape, EndShape, LoseShape, ForkShape
    <2>5. forks' \in [Jobs -> [Items -> Fork]]
      <3>1. 1 \in Runs
        BY BoundsAssumption DEF Runs
      <3>2. NoFork \in Fork
        BY <3>1 DEF NoFork, Fork, Stages, CaseValue, Verdict
      <3>3. [i \in Items |-> NoFork] \in [Items -> Fork]
        BY <3>2
      <3>4. CASE \E i \in Items : ForkShape(j, i)
        BY <1>0, <3>4 DEF ForkShape
      <3> QED
        BY <1>0, <1>2, <3>3, <3>4 DEF SubmitShape, BeginShape, ReadShape, EndShape, LoseShape
    <2>6. losses' \in 0 .. MaxLosses
      BY <1>0, <1>2, BoundsAssumption
      DEF SubmitShape, BeginShape, ReadShape, EndShape, LoseShape, ForkShape
    <2> QED
      BY <1>0, <2>1, <2>2, <2>3, <2>4, <2>5, <2>6
  <1> QED
    BY <1>1, <1>2 DEF JobShape

\* A step keeps task and ledger in agreement.
LEMMA TasksNext == ASSUME IInv, CaseShape \/ JobShape PROVE TasksRun'
  <1> USE DEF IInv, TasksRun
  <1>1. CASE CaseShape
    BY <1>1 DEF CaseShape, jobs
  <1>2. ASSUME NEW j \in Jobs,
               \/ SubmitShape(j) \/ BeginShape(j) \/ ReadShape(j) \/ EndShape(j) \/ LoseShape(j)
               \/ \E i \in Items : ForkShape(j, i)
        PROVE  TasksRun'
    <2> USE DEF TypeOK, Outbox!LedgerTypeOK, Outbox!LedgerStatus
    <2>1. CASE SubmitShape(j)
      <3>1. PICK kind : row' = [row EXCEPT ![j] = NewRow(kind)]
        BY <2>1 DEF SubmitShape
      <3>2. NewRow(kind).status = "pending"
        BY DEF NewRow
      <3> QED
        BY <2>1, <3>1, <3>2 DEF SubmitShape
    <2>2. CASE BeginShape(j)
      <3>1. [IdleTask EXCEPT !.at = "reading"].at = "reading"
        BY DEF IdleTask
      <3>2. task'[j].at = "reading" /\ row'[j].status = "running"
        BY <2>2, <3>1 DEF BeginShape, Row
      <3> QED
        BY <2>2, <3>2 DEF BeginShape
    <2>3. CASE ReadShape(j)
      BY <2>3 DEF ReadShape, jobs
    <2>4. CASE EndShape(j)
      <3>1. IdleTask.at = "idle"
        BY DEF IdleTask
      <3> QED
        BY <2>4, <3>1 DEF EndShape
    <2>5. CASE LoseShape(j)
      <3>1. IdleTask.at = "idle"
        BY DEF IdleTask
      <3> QED
        BY <2>5, <3>1 DEF LoseShape
    <2>6. CASE \E i \in Items : ForkShape(j, i)
      BY <2>6 DEF ForkShape, jobs
    <2> QED
      BY <1>2, <2>1, <2>2, <2>3, <2>4, <2>5, <2>6
  <1> QED
    BY <1>1, <1>2 DEF JobShape

\* A step keeps row and ledger in agreement.
LEMMA RowsNext == ASSUME IInv, CaseShape \/ JobShape PROVE RowsAgreeWithJobs'
  <1> USE DEF IInv, RowsAgreeWithJobs
  <1>1. CASE CaseShape
    BY <1>1 DEF CaseShape, jobs
  <1>2. ASSUME NEW j \in Jobs,
               \/ SubmitShape(j) \/ BeginShape(j) \/ ReadShape(j) \/ EndShape(j) \/ LoseShape(j)
               \/ \E i \in Items : ForkShape(j, i)
        PROVE  RowsAgreeWithJobs'
    <2> USE DEF TypeOK, Outbox!LedgerTypeOK, Outbox!LedgerStatus
    <2>1. CASE SubmitShape(j)
      <3>1. PICK kind : row' = [row EXCEPT ![j] = NewRow(kind)]
        BY <2>1 DEF SubmitShape
      <3>2. NewRow(kind).status = "pending"
        BY DEF NewRow
      <3> QED
        BY <2>1, <3>1, <3>2 DEF SubmitShape
    <2>2. CASE BeginShape(j)
      <3>1. row'[j].status = "running"
        BY <2>2 DEF BeginShape, Row
      <3>2. losses' = 0 => losses = 0
        BY <2>2 DEF BeginShape
      <3> QED
        BY <2>2, <3>1, <3>2 DEF BeginShape
    <2>3. CASE ReadShape(j)
      BY <2>3 DEF ReadShape, jobs
    <2>4. CASE EndShape(j)
      BY <2>4 DEF EndShape
    <2>5. CASE LoseShape(j)
      <3>1. losses' # 0
        BY <2>5 DEF LoseShape
      <3> QED
        BY <2>5, <3>1 DEF LoseShape
    <2>6. CASE \E i \in Items : ForkShape(j, i)
      BY <2>6 DEF ForkShape, jobs
    <2> QED
      BY <1>2, <2>1, <2>2, <2>3, <2>4, <2>5, <2>6
  <1> QED
    BY <1>1, <1>2 DEF JobShape

\* A step keeps the forks of a run to its own items.
LEMMA ForksNext == ASSUME IInv, CaseShape \/ JobShape PROVE ForksOfItems'
  <1> USE DEF IInv, ForksOfItems
  <1>1. CASE CaseShape
    BY <1>1 DEF CaseShape, jobs
  <1>2. ASSUME NEW j \in Jobs,
               \/ SubmitShape(j) \/ BeginShape(j) \/ ReadShape(j) \/ EndShape(j) \/ LoseShape(j)
               \/ \E i \in Items : ForkShape(j, i)
        PROVE  ForksOfItems'
    <2> USE DEF TypeOK
    <2>0. IdleTask.at = "idle" /\ [IdleTask EXCEPT !.at = "reading"].at = "reading"
      BY DEF IdleTask
    <2>1. CASE SubmitShape(j)
      BY <2>1 DEF SubmitShape
    <2>2. CASE BeginShape(j)
      <3>1. NoFork.stage = "none" /\ OnItsWay(NoFork) /\ NoFork.changed = {}
        BY DEF NoFork, OnItsWay, StepsTo
      <3>2. task'[j].at = "reading" /\ \A i \in Items : forks'[j][i] = NoFork
        BY <2>0, <2>2 DEF BeginShape
      <3>3. \A k \in Jobs : k # j => task'[k] = task[k] /\ forks'[k] = forks[k]
        BY <2>2 DEF BeginShape
      <3> QED
        BY <3>1, <3>2, <3>3
    <2>3. CASE ReadShape(j)
      BY <2>3 DEF ReadShape
    <2>4. CASE EndShape(j)
      BY <2>0, <2>4 DEF EndShape
    <2>5. CASE LoseShape(j)
      BY <2>0, <2>5 DEF LoseShape
    <2>6. ASSUME NEW i \in Items, ForkShape(j, i) PROVE ForksOfItems'
      <3>1. PICK f \in Fork : /\ f.stage # "none" /\ OnItsWay(f) /\ f.changed \subseteq {i}
                              /\ forks[j][i].stage # "none" \/ i \in task[j].items
                              /\ forks' = [forks EXCEPT ![j][i] = f]
        BY <2>6 DEF ForkShape
      <3>2. task[j].at = "forking" /\ task' = task
        BY <2>6 DEF ForkShape
      <3>3. /\ forks'[j][i] = f /\ \A m \in Items : m # i => forks'[j][m] = forks[j][m]
            /\ \A k \in Jobs : k # j => forks'[k] = forks[k]
        BY <3>1
      <3> QED
        BY <3>1, <3>2, <3>3
    <2> QED
      BY <1>2, <2>1, <2>2, <2>3, <2>4, <2>5, <2>6
  <1> QED
    BY <1>1, <1>2 DEF JobShape

\* What a completed row says of its forks.
ScoredJob(j) ==
    row[j].status = "completed" =>
        LET done == {i \in Items : forks[j][i].stage = "end"} IN
        /\ row[j].held <= Cardinality(done)
        /\ row[j].total = Cardinality({i \in Items : forks[j][i].stage # "none"})
        /\ (row[j].band = "stable") <=> (100 * row[j].held >= 85 * row[j].total)

\* A step keeps a written score the count of its forks.
LEMMA ScoredNext == ASSUME IInv, CaseShape \/ JobShape PROVE Scored'
  <1>0. /\ \A j \in Jobs : ScoredJob(j)
        /\ Scored' <=> \A j \in Jobs : ScoredJob(j)'
    BY DEF IInv, Scored, ScoredJob
  <1>a. ASSUME NEW k \in Jobs, row'[k] = row[k], forks'[k] = forks[k] PROVE ScoredJob(k)'
    BY <1>0, <1>a DEF ScoredJob
  <1>b. ASSUME NEW k \in Jobs, row'[k].status # "completed" PROVE ScoredJob(k)'
    BY <1>b DEF ScoredJob
  <1>1. CASE CaseShape
    BY <1>0, <1>1, <1>a DEF CaseShape
  <1>2. ASSUME NEW j \in Jobs,
               \/ SubmitShape(j) \/ BeginShape(j) \/ ReadShape(j) \/ EndShape(j) \/ LoseShape(j)
               \/ \E i \in Items : ForkShape(j, i)
        PROVE  Scored'
    <2>0. row \in [Jobs -> Row] /\ forks \in [Jobs -> [Items -> Fork]]
      BY DEF IInv, TypeOK
    <2>1. CASE SubmitShape(j)
      <3>1. PICK kind : row' = [row EXCEPT ![j] = NewRow(kind)]
        BY <2>1 DEF SubmitShape
      <3>2. row'[j].status = "pending"
        BY <2>0, <3>1 DEF NewRow
      <3>3. forks' = forks /\ \A k \in Jobs : k # j => row'[k] = row[k]
        BY <2>0, <2>1, <3>1 DEF SubmitShape
      <3> QED
        BY <1>0, <1>a, <1>b, <3>2, <3>3
    <2>2. CASE BeginShape(j)
      <3>1. row'[j].status = "running"
        BY <2>0, <2>2 DEF BeginShape, Row
      <3>2. \A k \in Jobs : k # j => row'[k] = row[k] /\ forks'[k] = forks[k]
        BY <2>0, <2>2 DEF BeginShape
      <3> QED
        BY <1>0, <1>a, <1>b, <3>1, <3>2
    <2>3. CASE ReadShape(j)
      BY <1>0, <1>a, <2>3 DEF ReadShape
    <2>4. CASE EndShape(j)
      <3> DEFINE done == {i \in Items : forks[j][i].stage = "end"}
      <3>1. PICK r \in Row, outcome \in {"done", "failed"} :
              /\ row' = [row EXCEPT ![j] = r]
              /\ r.status = "completed" =>
                    /\ r.held <= Cardinality(done)
                    /\ r.total = Cardinality({i \in Items : forks[j][i].stage # "none"})
                    /\ (r.band = "stable") <=> (100 * r.held >= 85 * r.total)
        BY <2>4 DEF EndShape
      <3>2. /\ row'[j] = r /\ forks' = forks
            /\ \A k \in Jobs : k # j => row'[k] = row[k]
        BY <2>0, <2>4, <3>1 DEF EndShape
      <3>3. ScoredJob(j)'
        BY <3>1, <3>2 DEF ScoredJob
      <3> QED
        BY <1>0, <1>a, <3>2, <3>3
    <2>5. CASE LoseShape(j)
      BY <1>0, <1>a, <2>5 DEF LoseShape
    <2>6. ASSUME NEW i \in Items, ForkShape(j, i) PROVE Scored'
      <3>1. row[j].status = "running"
        BY <2>6 DEF ForkShape, IInv, TasksRun
      <3>2. row' = row /\ \A k \in Jobs : k # j => forks'[k] = forks[k]
        BY <2>0, <2>6 DEF ForkShape
      <3>3. row'[j].status # "completed"
        BY <3>1, <3>2
      <3> QED
        BY <1>0, <1>a, <1>b, <3>2, <3>3
    <2> QED
      BY <1>2, <2>1, <2>2, <2>3, <2>4, <2>5, <2>6
  <1> QED
    BY <1>1, <1>2 DEF JobShape

\* The invariant holds before anything is asked.
LEMMA InitInv == Init => IInv
  <1> SUFFICES ASSUME Init PROVE IInv
    OBVIOUS
  <1>1. 1 \in Runs /\ MaxLosses \in Nat
    BY BoundsAssumption DEF Runs
  <1>2. NoFork \in Fork /\ IdleTask \in Task /\ NewRow("scenario") \in Row
    BY <1>1 DEF NoFork, Fork, Stages, CaseValue, Verdict, IdleTask, Task, NewRow, Row, Status, Bands
  <1>3. /\ NoFork.stage = "none" /\ OnItsWay(NoFork) /\ NoFork.changed = {}
        /\ IdleTask.at = "idle" /\ NewRow("scenario").status = "pending"
    BY DEF NoFork, OnItsWay, StepsTo, IdleTask, NewRow
  <1>4. /\ ledger = [j \in Jobs |-> "absent"] /\ running = {} /\ losses = 0
        /\ row = [j \in Jobs |-> NewRow("scenario")]
        /\ task = [j \in Jobs |-> IdleTask]
        /\ forks = [j \in Jobs |-> [i \in Items |-> NoFork]]
    BY DEF Init, Outbox!LedgerInit
  <1>5. CaseTypeOK
    <2>1. PICK v \in Verdict : thread = [run |-> 1, verdict |-> v]
      BY DEF Init
    <2>2. PICK c \in {thread.verdict, "missing", "unreadable"} :
            checkpoint = [r \in Runs |-> IF r = 1 /\ latest = 1 THEN c ELSE "missing"]
      BY DEF Init
    <2>3. c \in Checkpoint
      BY <2>1, <2>2 DEF Checkpoint
    <2>4. "missing" \in Checkpoint
      BY DEF Checkpoint
    <2>5. checkpoint \in [Runs -> Checkpoint]
      BY <2>2, <2>3, <2>4
    <2>6. thread \in CaseValue
      BY <1>1, <2>1 DEF CaseValue
    <2> QED
      BY <2>5, <2>6, BoundsAssumption DEF Init, CaseTypeOK
  <1>6. TypeOK
    BY <1>1, <1>2, <1>4, <1>5 DEF TypeOK, CaseTypeOK, Outbox!LedgerTypeOK, Outbox!LedgerStatus
  <1>7. TasksRun /\ RowsAgreeWithJobs /\ ForksOfItems /\ Scored
    BY <1>3, <1>4 DEF TasksRun, RowsAgreeWithJobs, ForksOfItems, Scored
  <1> QED
    BY <1>6, <1>7 DEF IInv

\* A stuttering step keeps the invariant.
LEMMA Stutter == ASSUME IInv, UNCHANGED vars PROVE IInv'
  <1>1. TypeOK'
    BY DEF IInv, vars, case, jobs, TypeOK, Outbox!LedgerTypeOK
  <1>2. TasksRun' /\ RowsAgreeWithJobs'
    BY DEF IInv, vars, jobs, TasksRun, RowsAgreeWithJobs
  <1>3. ForksOfItems' /\ Scored'
    BY DEF IInv, vars, ForksOfItems, Scored
  <1> QED
    BY <1>1, <1>2, <1>3 DEF IInv

\* IInv holds in every reachable state.
LEMMA Inductive == Spec => []IInv
  <1>1. IInv /\ [Next]_vars => IInv'
    <2>1. ASSUME IInv, Next PROVE IInv'
      <3>1. CaseShape \/ JobShape
        BY <2>1, ShapeOfNext
      <3> QED
        BY <2>1, <3>1, TypedNext, TasksNext, RowsNext, ForksNext, ScoredNext DEF IInv
    <2> QED
      BY <2>1, Stutter
  <1> QED
    BY <1>1, InitInv, PTL DEF Spec

--------------------------------------------------------------------------------
(* Theorems *)

\* Every variable keeps its type: in particular a stability score is a percentage
\* for any number of forks (_run_stability_computation).
THEOREM WhatIfTypeCorrect == Spec => []TypeOK
  <1>1. IInv => TypeOK
    BY DEF IInv
  <1> QED
    BY <1>1, Inductive, PTL

\* What the judge polls never contradicts the outbox, for any number of jobs and of
\* lost runs.
THEOREM RowsAgree == Spec => []RowsAgreeWithJobs
  <1>1. IInv => RowsAgreeWithJobs
    BY DEF IInv
  <1> QED
    BY <1>1, Inductive, PTL

\* A score counts the forks of one run, and no drive gives up early, as soon as
\* max_steps exceeds the five turns a fork takes.
THEOREM ScoresCountForks ==
    ASSUME MaxSteps > 5
    PROVE  Spec => []ScoreIsOfItsForks
  <1>1. ASSUME NEW j \in Jobs, NEW i \in Items, IInv
        PROVE  forks[j][i].steps < MaxSteps /\ forks[j][i].changed \subseteq {i}
    <2>1. forks[j][i].steps \in Nat
      BY <1>1 DEF IInv, TypeOK, Fork
    <2> QED
      BY <1>1, <2>1, BoundsAssumption DEF IInv, ForksOfItems, OnItsWay
  <1>2. IInv => ScoreIsOfItsForks
    BY <1>1 DEF IInv, Scored, ScoreIsOfItsForks
  <1> QED
    BY <1>2, Inductive, PTL

\* The scenarios and scores are a user of the outbox like any other: whatever
\* their forks do, the jobs behave as JobLedger promises.
THEOREM ScenariosKeepTheLedger == Spec => Outbox!LedgerSpec
  <1>1. Init => Outbox!LedgerInit
    BY DEF Init
  <1>2. [Next]_vars => [Outbox!LedgerNext]_<<ledger, running>>
    <2> SUFFICES ASSUME [Next]_vars PROVE [Outbox!LedgerNext]_<<ledger, running>>
      OBVIOUS
    <2>1. CASE StartRun \/ PersistRun
      BY <2>1 DEF StartRun, PersistRun, jobs
    <2>2. ASSUME NEW j \in Jobs, SubmitScenario(j) \/ TriggerStability(j)
          PROVE  Outbox!LedgerNext
      BY <2>2 DEF SubmitScenario, TriggerStability, Insert, Outbox!LedgerNext
    <2>3. ASSUME NEW j \in Jobs, Begin(j) \/ Redeliver(j) PROVE Outbox!LedgerNext
      BY <2>3 DEF Begin, Redeliver, Outbox!LedgerNext
    <2>4. ASSUME NEW j \in Jobs,
                 NoBaseline(j) \/ ScenarioFails(j) \/ ScoreStability(j) \/ SessionRaises(j)
          PROVE  Outbox!LedgerNext
      <3>1. \E outcome \in {"done", "failed"} : Outbox!Settle(j, outcome)
        BY <2>4 DEF NoBaseline, ScenarioFails, ScoreStability, SessionRaises, End
      <3> QED
        BY <3>1 DEF Outbox!LedgerNext
    <2>5. ASSUME NEW j \in Jobs,
                 ReadBaseline(j) \/ \E i \in Items : CreateFork(j, i) \/ Drive(j, i) \/ ForkRaises(j, i)
          PROVE  UNCHANGED <<ledger, running>>
      BY <2>5 DEF ReadBaseline, CreateFork, Drive, ForkRaises, jobs
    <2>6. ASSUME NEW j \in Jobs, LoseRun(j) PROVE Outbox!LedgerNext
      BY <2>6 DEF LoseRun, Outbox!LedgerNext
    <2>7. CASE UNCHANGED vars
      BY <2>7 DEF vars, jobs
    <2>8. ASSUME NEW j \in Jobs, Work(j) PROVE [Outbox!LedgerNext]_<<ledger, running>>
      BY <2>3, <2>4, <2>5, <2>8 DEF Work
    <2> QED
      BY <2>1, <2>2, <2>3, <2>4, <2>5, <2>6, <2>7, <2>8 DEF Next
  <1> QED
    BY <1>1, <1>2, PTL DEF Spec, Outbox!LedgerSpec, Outbox!ledgerVars
=============================================================================
