---------------------------- MODULE IntakeFlowProofs ----------------------------
(***************************************************************************)
(* Theorems about IntakeFlow, for any number of jobs, requests and         *)
(* uploads, and any set of faults.  IInv is the inductive invariant; each  *)
(* lemma shows that a step keeps one of its parts.                         *)
(***************************************************************************)
EXTENDS IntakeFlow, TLAPS

\* Moving one task to a stage leaves the other tasks, and what it loaded, alone.
LEMMA GotoType ==
  ASSUME task \in [Jobs -> Task], NEW j \in Jobs, NEW stage \in Stage, Goto(j, stage)
  PROVE  /\ task' \in [Jobs -> Task]
         /\ task'[j].at = stage /\ task'[j].docs = task[j].docs
         /\ \A k \in Jobs : k # j => task'[k] = task[k]
  BY DEF Goto, Task

\* A run that begins has loaded the status; other tasks and all rows stay.
LEMMA EnterType ==
  ASSUME task \in [Jobs -> Task], status \in Status, NEW j \in Jobs, Enter(j)
  PROVE  /\ task' \in [Jobs -> Task]
         /\ task'[j].at = IF job[j].kind = "extraction" THEN "loaded" ELSE "running"
         /\ task'[j].seen = status
         /\ \A k \in Jobs : k # j => task'[k] = task[k]
         /\ ledger' = ledger
         /\ j \notin running
         /\ running' = running \union {j}
  BY DEF Enter, Task, Stage, Outbox!Begin

\* A task that ends leaves the other tasks alone.
LEMMA IdleType ==
  ASSUME task \in [Jobs -> Task], NEW j \in Jobs, task' = [task EXCEPT ![j] = IdleTask]
  PROVE  /\ task' \in [Jobs -> Task]
         /\ task'[j] = IdleTask
         /\ \A k \in Jobs : k # j => task'[k] = task[k]
<1>1. IdleTask \in Task
  BY IntakeAssumption DEF IdleTask, Task, Stage, Status, Intake
<1> QED
  BY <1>1

\* A request that ends leaves the other requests alone.
LEMMA FinishType ==
  ASSUME req \in [Requests -> Request], NEW r \in Requests, Finish(r)
  PROVE  /\ req' \in [Requests -> Request]
         /\ req'[r].op = "none"
         /\ \A q \in Requests : q # r => req'[q] = req[q]
<1>1. IdleRequest \in Request
  BY DEF IdleRequest, Request, Ops, Status, Intake
<1> QED
  BY <1>1 DEF Finish, IdleRequest

\* Queueing a job takes the first row that is not used.
LEMMA EnqueueType ==
  ASSUME ledger \in [Jobs -> Outbox!LedgerStatus], job \in [Jobs -> Job],
         docs' \in 0 .. MaxDocs,
         NEW kind \in {"extraction", "pipeline"}, EnqueueJob(kind)
  PROVE  /\ ledger' \in [Jobs -> Outbox!LedgerStatus]
         /\ job' \in [Jobs -> Job]
         /\ running' = running
         /\ \E j \in Jobs :
              /\ ledger[j] = "absent" /\ ledger'[j] = "owed"
              /\ \A i \in Jobs : i < j => ledger[i] # "absent"
              /\ job'[j] = [kind |-> kind, docs |-> docs']
              /\ \A k \in Jobs : k # j => ledger'[k] = ledger[k] /\ job'[k] = job[k]
  BY DEF EnqueueJob, Outbox!Submit, Outbox!LedgerStatus, Job

\* A write-back leaves a status that is legal, and is the new one if the row
\* still says what was loaded.
LEMMA FlushType ==
  ASSUME status \in Status, NEW seen, NEW new \in Status, Flush(seen, new)
  PROVE  status' \in Status /\ (status = seen => status' = new)
  BY DEF Flush

\* The proposal an extraction writes is legal.
LEMMA ProposeType ==
  ASSUME TypeOK, NEW j \in Jobs, NEW n \in 0 .. MaxDocs, Propose(j, n)
  PROVE  /\ proposal' \in Proposal
         /\ proposal' = [job |-> j, docs |-> n]
         /\ status' \in Status
         /\ status = task[j].seen => status' = "awaiting"
         /\ wrote' \in [Jobs -> Nat]
         /\ wrote'[j] = wrote[j] + 1
         /\ \A k \in Jobs : k # j => wrote'[k] = wrote[k]
<1>1. j \in 0 .. NumJobs
  BY IntakeAssumption DEF Jobs
<1>2. "awaiting" \in Status
  BY DEF Status, Intake
<1> QED
  BY <1>1, <1>2, FlushType DEF TypeOK, Propose, Proposal

\* A step keeps the types.
LEMMA IntakeTypeStep ==
  ASSUME TypeOK, [Next]_vars
  PROVE  TypeOK'
<1> USE DEF TypeOK, Outbox!LedgerTypeOK, docVars, jobVars
<1>1. ASSUME NEW r \in Requests, NEW op \in Ops, LoadCase(r, op)
      PROVE  TypeOK'
  <2>1. req' \in [Requests -> Request]
    BY <1>1 DEF LoadCase, Request
  <2>2. disturbed' \in BOOLEAN
    BY <1>1 DEF LoadCase
  <2> QED
    BY <1>1, <2>1, <2>2 DEF LoadCase
<1>2. ASSUME NEW r \in Requests, Upload(r)
      PROVE  TypeOK'
  <2>1. docs' \in 0 .. MaxDocs /\ lead' \in BOOLEAN
    BY <1>2, IntakeAssumption DEF Upload
  <2>2. req' \in [Requests -> Request]
    BY <1>2, FinishType DEF Upload
  <2>3. status' \in Status /\ ledger' \in [Jobs -> Outbox!LedgerStatus]
        /\ running' \subseteq Jobs /\ job' \in [Jobs -> Job]
    <3>1. CASE UNCHANGED <<status, jobVars>>
      BY <3>1
    <3>2. CASE status' = "extracting" /\ EnqueueJob("extraction")
      BY <2>1, <3>2, EnqueueType DEF Status, Intake
    <3> QED
      BY <1>2, <3>1, <3>2 DEF Upload
  <2> QED
    BY <1>2, <2>1, <2>2, <2>3 DEF Upload
<1>3. ASSUME NEW r \in Requests, Reextract(r)
      PROVE  TypeOK'
  <2>1. docs' \in 0 .. MaxDocs /\ lead' \in BOOLEAN
    BY <1>3 DEF Reextract
  <2>2. req' \in [Requests -> Request]
    BY <1>3, FinishType DEF Reextract
  <2>3. status' \in Status
    BY <1>3, FlushType DEF Reextract, Status, Intake
  <2>4. ledger' \in [Jobs -> Outbox!LedgerStatus] /\ running' \subseteq Jobs
        /\ job' \in [Jobs -> Job]
    BY <1>3, <2>1, EnqueueType DEF Reextract
  <2> QED
    BY <1>3, <2>1, <2>2, <2>3, <2>4 DEF Reextract
<1>4. ASSUME NEW r \in Requests, Confirm(r)
      PROVE  TypeOK'
  <2>1. req' \in [Requests -> Request]
    BY <1>4, FinishType DEF Confirm
  <2> QED
    BY <1>4, <2>1 DEF Confirm, Status, Past
<1>5. CASE ProcessCase
  <2>1. docs' \in 0 .. MaxDocs
    BY <1>5 DEF ProcessCase
  <2>2. ledger' \in [Jobs -> Outbox!LedgerStatus] /\ running' \subseteq Jobs
        /\ job' \in [Jobs -> Job]
    BY <1>5, <2>1, EnqueueType DEF ProcessCase
  <2> QED
    BY <1>5, <2>1, <2>2 DEF ProcessCase, Status, Past
<1>6. ASSUME NEW j \in Jobs, BeginJob(j)
      PROVE  TypeOK'
  BY <1>6, EnterType DEF BeginJob
<1>7. ASSUME NEW j \in Jobs, GetDocuments(j)
      PROVE  TypeOK'
  <2>1. CASE lead
    <3>1. task' \in [Jobs -> Task]
      BY <1>7, <2>1 DEF GetDocuments, Task, Stage
    <3> QED
      BY <1>7, <2>1, <3>1 DEF GetDocuments
  <2>2. CASE ~lead
    <3>1. task' \in [Jobs -> Task]
      BY <1>7, <2>2, GotoType DEF GetDocuments, Stage
    <3> QED
      BY <1>7, <2>2, <3>1, ProposeType DEF GetDocuments
  <2> QED
    BY <2>1, <2>2
<1>8. ASSUME NEW j \in Jobs, ModelAnswers(j)
      PROVE  TypeOK'
  <2>1. task' \in [Jobs -> Task]
    BY <1>8, GotoType DEF ModelAnswers, Stage
  <2>2. task[j].docs \in 0 .. MaxDocs
    BY DEF Task
  <2> QED
    BY <1>8, <2>1, <2>2, ProposeType DEF ModelAnswers
<1>9. ASSUME NEW j \in Jobs, ModelFails(j)
      PROVE  TypeOK'
  <2>1. task' \in [Jobs -> Task]
    BY <1>9, GotoType DEF ModelFails, Stage
  <2>2. status' \in Status
    BY <1>9, FlushType DEF ModelFails, Status, Intake
  <2>3. faults' \in 0 .. MaxFaults
    BY <1>9, IntakeAssumption DEF ModelFails, Fault
  <2> QED
    BY <1>9, <2>1, <2>2, <2>3 DEF ModelFails
<1>10. ASSUME NEW j \in Jobs, PersistResults(j)
      PROVE  TypeOK'
  <2>1. task' \in [Jobs -> Task]
    BY <1>10, GotoType DEF PersistResults, Stage
  <2> QED
    BY <1>10, <2>1 DEF PersistResults, Status, Past
<1>11. ASSUME NEW j \in Jobs, PublishInterrupt(j)
      PROVE  TypeOK'
  <2>1. task' \in [Jobs -> Task]
    BY <1>11, GotoType DEF PublishInterrupt, Stage
  <2> QED
    BY <1>11, <2>1 DEF PublishInterrupt, Status, Past
<1>12. ASSUME NEW j \in Jobs, SettleJob(j)
      PROVE  TypeOK'
  <2>1. task' \in [Jobs -> Task]
    BY <1>12, IdleType DEF SettleJob
  <2>2. ledger' \in [Jobs -> Outbox!LedgerStatus] /\ running' \subseteq Jobs
    BY <1>12 DEF SettleJob, Outbox!Settle, Outbox!LedgerStatus
  <2> QED
    BY <1>12, <2>1, <2>2 DEF SettleJob
<1>13. ASSUME NEW j \in Jobs, LoseRun(j)
      PROVE  TypeOK'
  <2>1. task' \in [Jobs -> Task]
    BY <1>13, IdleType DEF LoseRun
  <2>2. ledger' = ledger /\ running' \subseteq Jobs
    BY <1>13 DEF LoseRun, Outbox!Abandon
  <2>3. lost' \in [Jobs -> Nat] /\ faults' \in 0 .. MaxFaults
    BY <1>13, IntakeAssumption DEF LoseRun, Fault
  <2> QED
    BY <1>13, <2>1, <2>2, <2>3 DEF LoseRun
<1>14. ASSUME NEW j \in Jobs, RedeliverFailed(j)
      PROVE  TypeOK'
  <2>1. lost' \in [Jobs -> Nat] /\ faults' \in 0 .. MaxFaults
    BY <1>14, IntakeAssumption DEF RedeliverFailed, Fault
  <2> QED
    BY <1>14, <2>1, EnterType DEF RedeliverFailed
<1>15. CASE UNCHANGED vars
  BY <1>15 DEF vars
<1> QED
  BY <1>1, <1>2, <1>3, <1>4, <1>5, <1>6, <1>7, <1>8, <1>9, <1>10, <1>11, <1>12, <1>13,
     <1>14, <1>15 DEF Next, Handle, Work

\* What the parts of the invariant about rows and runs say together.
Books == RowsInOrder /\ TasksRun /\ DocsKnown /\ WritesAccounted

\* Handlers that queue nothing, and may add documents, keep the books.
LEMMA QuietKeepsBooks ==
  ASSUME TypeOK, Books, docs' \in 0 .. MaxDocs, docs <= docs',
         UNCHANGED <<jobVars, task, wrote, lost>>
  PROVE  Books'
<1>1. RowsInOrder' /\ TasksRun' /\ WritesAccounted'
  BY DEF Books, RowsInOrder, TasksRun, WritesAccounted, Extraction, jobVars
<1>2. DocsKnown'
  BY IntakeAssumption DEF Books, DocsKnown, jobVars, TypeOK, Job, Task
<1> QED
  BY <1>1, <1>2 DEF Books

\* Handlers that queue a job keep the books.
LEMMA EnqueueKeepsBooks ==
  ASSUME TypeOK, Books, docs' \in 0 .. MaxDocs, docs <= docs',
         NEW kind \in {"extraction", "pipeline"}, EnqueueJob(kind),
         UNCHANGED <<task, wrote, lost>>
  PROVE  Books'
<1>1. PICK j \in Jobs :
        /\ ledger[j] = "absent" /\ ledger'[j] = "owed"
        /\ \A i \in Jobs : i < j => ledger[i] # "absent"
        /\ job'[j] = [kind |-> kind, docs |-> docs']
        /\ \A k \in Jobs : k # j => ledger'[k] = ledger[k] /\ job'[k] = job[k]
  BY EnqueueType DEF TypeOK, Outbox!LedgerTypeOK
<1>2. running' = running
  BY EnqueueType DEF TypeOK, Outbox!LedgerTypeOK
<1>3. j \notin running /\ task[j].at = "idle"
  BY <1>1 DEF Books, TasksRun
<1>4. RowsInOrder'
  BY <1>1 DEF Books, RowsInOrder
<1>5. TasksRun'
  BY <1>1, <1>2, <1>3 DEF Books, TasksRun
<1>6. DocsKnown'
  <2>1. ASSUME NEW k \in Jobs
        PROVE  job'[k].docs <= docs' /\ (task'[k].at = "calling" => job'[k].docs <= task'[k].docs)
    <3>1. CASE k = j
      BY <1>1, <1>3, <3>1, IntakeAssumption
    <3>2. CASE k # j
      <4>1. job[k].docs \in Nat /\ docs \in Nat /\ docs' \in Nat /\ job[k].docs <= docs
        BY IntakeAssumption DEF Books, DocsKnown, TypeOK, Job
      <4> QED
        BY <1>1, <3>2, <4>1 DEF Books, DocsKnown
    <3> QED
      BY <3>1, <3>2
  <2> QED
    BY <2>1 DEF DocsKnown
<1>7. WritesAccounted'
  BY <1>1, <1>2, <1>3 DEF Books, WritesAccounted, Extraction
<1> QED
  BY <1>4, <1>5, <1>6, <1>7 DEF Books

\* A step of a worker that writes a proposal pays for it with its run.
LEMMA ProposeKeepsBooks ==
  ASSUME TypeOK, Books, NEW j \in Jobs, NEW n \in 0 .. MaxDocs,
         task[j].at \in {"loaded", "calling"}, Propose(j, n), Goto(j, "returned"),
         UNCHANGED <<docs, jobVars, lost>>
  PROVE  Books'
<1>1. /\ task'[j].at = "returned"
      /\ \A k \in Jobs : k # j => task'[k] = task[k]
  <2>1. task \in [Jobs -> Task] /\ "returned" \in Stage
    BY DEF TypeOK, Stage
  <2> QED
    BY <2>1, GotoType
<1>2. /\ wrote'[j] = wrote[j] + 1
      /\ \A k \in Jobs : k # j => wrote'[k] = wrote[k]
  BY ProposeType
<1> USE DEF Books, jobVars
<1>3. wrote[j] \in Nat /\ lost[j] \in Nat /\ wrote[j] <= lost[j]
  BY DEF TypeOK, WritesAccounted
<1>4. j \in running /\ job[j].kind = "extraction"
  BY DEF TasksRun
<1>5. RowsInOrder'
  BY DEF RowsInOrder
<1>6. TasksRun'
  BY <1>1, <1>4 DEF TasksRun
<1>7. DocsKnown'
  BY <1>1 DEF DocsKnown
<1>8. WritesAccounted'
  BY <1>1, <1>2, <1>3, <1>4 DEF WritesAccounted, Extraction
<1> QED
  BY <1>5, <1>6, <1>7, <1>8

\* A step that only moves a task between stages with no account of their own.
LEMMA GotoKeepsBooks ==
  ASSUME TypeOK, Books, NEW j \in Jobs, NEW stage \in Stage, Goto(j, stage),
         task[j].at # "idle",
         \/ stage = "raised" /\ job[j].kind = "extraction"
         \/ stage \in {"publishing", "returned"} /\ job[j].kind = "pipeline",
         UNCHANGED <<docs, jobVars, wrote, lost>>
  PROVE  Books'
<1>1. /\ task'[j].at = stage
      /\ \A k \in Jobs : k # j => task'[k] = task[k]
  <2>1. task \in [Jobs -> Task]
    BY DEF TypeOK
  <2> QED
    BY <2>1, GotoType
<1> USE DEF Books, jobVars
<1>2. RowsInOrder'
  BY DEF RowsInOrder
<1>3. TasksRun'
  BY <1>1 DEF TasksRun
<1>4. DocsKnown'
  BY <1>1 DEF DocsKnown
<1>5. WritesAccounted'
  BY <1>1 DEF WritesAccounted, Extraction
<1> QED
  BY <1>2, <1>3, <1>4, <1>5

\* A run that begins is paid for: by a row that was never run, or by a run that
\* was lost.
LEMMA EnterKeepsBooks ==
  ASSUME TypeOK, Books, NEW j \in Jobs, Enter(j), ledger[j] # "absent",
         lost' \in [Jobs -> Nat], wrote[j] <= lost'[j],
         \A k \in Jobs : k # j => lost'[k] = lost[k],
         UNCHANGED <<docs, job, wrote>>
  PROVE  Books'
<1>1. /\ task'[j].at = IF job[j].kind = "extraction" THEN "loaded" ELSE "running"
      /\ \A k \in Jobs : k # j => task'[k] = task[k]
      /\ ledger' = ledger
      /\ running' = running \union {j}
  <2>1. task \in [Jobs -> Task] /\ status \in Status
    BY DEF TypeOK
  <2> QED
    BY <2>1, EnterType
<1>2. job[j].kind \in {"extraction", "pipeline"}
  BY DEF TypeOK, Job
<1>3. wrote[j] \in Nat /\ lost'[j] \in Nat
  BY DEF TypeOK
<1> USE DEF Books
<1>4. RowsInOrder'
  BY <1>1 DEF RowsInOrder
<1>5. TasksRun'
  BY <1>1, <1>2 DEF TasksRun
<1>6. DocsKnown'
  BY <1>1, <1>2 DEF DocsKnown
<1>7. WritesAccounted'
  BY <1>1, <1>2, <1>3 DEF WritesAccounted, Extraction
<1> QED
  BY <1>4, <1>5, <1>6, <1>7

\* A step keeps the order of the rows, the stages of the tasks, what jobs know of
\* the uploads, and the account of proposals.
LEMMA BooksStep ==
  ASSUME TypeOK, TypeOK', Books, [Next]_vars
  PROVE  Books'
<1>0. /\ docs \in 0 .. MaxDocs /\ docs' \in 0 .. MaxDocs
      /\ docs \in Nat /\ docs <= docs
      /\ task \in [Jobs -> Task] /\ lost' \in [Jobs -> Nat]
      /\ \A k \in Jobs : wrote[k] \in Nat /\ lost[k] \in Nat
  BY IntakeAssumption DEF TypeOK
<1>1. ASSUME NEW r \in Requests, NEW op \in Ops, LoadCase(r, op)
      PROVE  Books'
  BY <1>0, <1>1, QuietKeepsBooks DEF LoadCase, docVars
<1>2. ASSUME NEW r \in Requests, Upload(r)
      PROVE  Books'
  <2>1. docs <= docs' /\ UNCHANGED <<task, wrote, lost>>
    BY <1>0, <1>2 DEF Upload
  <2>2. CASE UNCHANGED <<status, jobVars>>
    BY <1>0, <2>1, <2>2, QuietKeepsBooks
  <2>3. CASE status' = "extracting" /\ EnqueueJob("extraction")
    BY <1>0, <2>1, <2>3, EnqueueKeepsBooks
  <2> QED
    BY <1>2, <2>2, <2>3 DEF Upload
<1>3. ASSUME NEW r \in Requests, Reextract(r)
      PROVE  Books'
  BY <1>0, <1>3, EnqueueKeepsBooks DEF Reextract, docVars
<1>4. ASSUME NEW r \in Requests, Confirm(r)
      PROVE  Books'
  BY <1>0, <1>4, QuietKeepsBooks DEF Confirm, docVars
<1>5. CASE ProcessCase
  BY <1>0, <1>5, EnqueueKeepsBooks DEF ProcessCase, docVars
<1>6. ASSUME NEW j \in Jobs, BeginJob(j)
      PROVE  Books'
  <2>1. wrote[j] <= lost[j]
    BY <1>6 DEF BeginJob, Enter, Outbox!Begin, Books, WritesAccounted
  <2> QED
    BY <1>0, <1>6, <2>1, EnterKeepsBooks DEF BeginJob, docVars
<1>7. ASSUME NEW j \in Jobs, GetDocuments(j)
      PROVE  Books'
  <2>1. CASE lead
    <3>1. /\ task'[j].at = "calling" /\ task'[j].docs = docs
          /\ \A k \in Jobs : k # j => task'[k] = task[k]
      BY <1>0, <1>7, <2>1 DEF GetDocuments, Task
    <3>2. task[j].at = "loaded" /\ UNCHANGED <<docs, ledger, running, job, wrote, lost>>
      BY <1>7, <2>1 DEF GetDocuments, docVars, jobVars
    <3>3. RowsInOrder' /\ TasksRun'
      BY <3>1, <3>2 DEF Books, RowsInOrder, TasksRun
    <3>4. DocsKnown'
      BY <3>1, <3>2 DEF Books, DocsKnown
    <3>5. WritesAccounted'
      BY <3>1, <3>2 DEF Books, WritesAccounted, Extraction
    <3> QED
      BY <3>3, <3>4, <3>5 DEF Books
  <2>2. CASE ~lead
    BY <1>0, <1>7, <2>2, ProposeKeepsBooks DEF GetDocuments, docVars
  <2> QED
    BY <2>1, <2>2
<1>8. ASSUME NEW j \in Jobs, ModelAnswers(j)
      PROVE  Books'
  <2>1. task[j].docs \in 0 .. MaxDocs
    BY <1>0 DEF Task
  <2> QED
    BY <1>8, <2>1, ProposeKeepsBooks DEF ModelAnswers, docVars
<1>9. ASSUME NEW j \in Jobs, ModelFails(j)
      PROVE  Books'
  <2>1. "raised" \in Stage /\ job[j].kind = "extraction"
    BY <1>9 DEF ModelFails, Stage, Books, TasksRun
  <2> QED
    BY <1>9, <2>1, GotoKeepsBooks DEF ModelFails, docVars
<1>10. ASSUME NEW j \in Jobs, PersistResults(j)
      PROVE  Books'
  <2>1. "publishing" \in Stage /\ job[j].kind = "pipeline"
    BY <1>10 DEF PersistResults, Stage, Books, TasksRun
  <2> QED
    BY <1>10, <2>1, GotoKeepsBooks DEF PersistResults, docVars
<1>11. ASSUME NEW j \in Jobs, PublishInterrupt(j)
      PROVE  Books'
  <2>1. "returned" \in Stage /\ job[j].kind = "pipeline"
    BY <1>11 DEF PublishInterrupt, Stage, Books, TasksRun
  <2> QED
    BY <1>11, <2>1, GotoKeepsBooks DEF PublishInterrupt, docVars
<1>12. ASSUME NEW j \in Jobs, SettleJob(j)
      PROVE  Books'
  <2>1. /\ task'[j].at = "idle"
        /\ \A k \in Jobs : k # j => task'[k] = task[k]
    BY <1>0, <1>12, IdleType DEF SettleJob, IdleTask
  <2>2. /\ j \in running /\ running' = running \ {j}
        /\ \A k \in Jobs : k # j => ledger'[k] = ledger[k]
        /\ \/ ledger'[j] = "done" /\ task[j].at = "returned"
           \/ ledger'[j] = "failed"
        /\ UNCHANGED <<docs, job, wrote, lost>>
    BY <1>12 DEF SettleJob, Outbox!Settle, TypeOK, Outbox!LedgerTypeOK, docVars
  <2> USE DEF Books
  <2>3. RowsInOrder'
    BY <2>2 DEF RowsInOrder, TasksRun
  <2>4. TasksRun'
    BY <2>1, <2>2 DEF TasksRun
  <2>5. DocsKnown'
    BY <2>1, <2>2 DEF DocsKnown
  <2>6. WritesAccounted'
    BY <2>1, <2>2 DEF WritesAccounted, Extraction
  <2> QED
    BY <2>3, <2>4, <2>5, <2>6
<1>13. ASSUME NEW j \in Jobs, LoseRun(j)
      PROVE  Books'
  <2>1. /\ task'[j].at = "idle"
        /\ \A k \in Jobs : k # j => task'[k] = task[k]
    BY <1>0, <1>13, IdleType DEF LoseRun, IdleTask
  <2>2. /\ running' = running \ {j} /\ lost'[j] = lost[j] + 1
        /\ \A k \in Jobs : k # j => lost'[k] = lost[k]
        /\ UNCHANGED <<docs, ledger, job, wrote>>
    BY <1>13 DEF LoseRun, Outbox!Abandon, TypeOK, docVars
  <2> USE DEF Books
  <2>3. RowsInOrder'
    BY <2>2 DEF RowsInOrder
  <2>4. TasksRun'
    BY <2>1, <2>2 DEF TasksRun
  <2>5. DocsKnown'
    BY <2>1, <2>2 DEF DocsKnown
  <2>6. WritesAccounted'
    <3>1. ASSUME NEW k \in Jobs, k # j
          PROVE  lost'[k] = lost[k] /\ task'[k] = task[k] /\ (k \in running' <=> k \in running)
      BY <2>1, <2>2, <3>1
    <3> QED
      BY <1>0, <2>1, <2>2, <3>1 DEF WritesAccounted, Extraction
  <2> QED
    BY <2>3, <2>4, <2>5, <2>6
<1>14. ASSUME NEW j \in Jobs, RedeliverFailed(j)
      PROVE  Books'
  <2>1. lost'[j] = lost[j] + 1 /\ \A k \in Jobs : k # j => lost'[k] = lost[k]
    BY <1>14 DEF RedeliverFailed, TypeOK
  <2>2. wrote[j] <= lost'[j]
    BY <1>0, <2>1 DEF Books, WritesAccounted
  <2> QED
    BY <1>0, <1>14, <2>1, <2>2, EnterKeepsBooks DEF RedeliverFailed, docVars
<1>15. CASE UNCHANGED vars
  BY <1>0, <1>15, QuietKeepsBooks DEF vars, docVars, jobVars
<1> QED
  BY <1>1, <1>2, <1>3, <1>4, <1>5, <1>6, <1>7, <1>8, <1>9, <1>10, <1>11, <1>12, <1>13,
     <1>14, <1>15 DEF Next, Handle, Work

\* What Calm says while nobody has acted on a case that was not at rest.
Peace == /\ RequestsCalm
         /\ JobsCalm
         /\ status = "awaiting" /\ Rests => Current

\* An extraction that runs in peace is alone: no request is in progress and
\* nothing else is owed.
LEMMA ExtractionIsAlone ==
  ASSUME TypeOK, Books, Peace, NEW j \in Jobs, j \in running, job[j].kind = "extraction"
  PROVE  /\ Extraction(j) /\ Owed(j) /\ Newest(j) /\ status \in Intake
         /\ \A r \in Requests : req[r].op = "none"
         /\ \A k \in Jobs : k # j => ~Owed(k) /\ task[k].at = "idle"
<1>1. Extraction(j) /\ Owed(j)
  BY DEF Books, TasksRun, Extraction, Owed
<1>2. Newest(j) /\ status \in Intake
  BY <1>1 DEF Peace, JobsCalm
<1>3. \A r \in Requests : req[r].op = "none"
  BY <1>1 DEF Peace, RequestsCalm, Rests
<1>4. ASSUME NEW k \in Jobs, k # j
      PROVE  ~Owed(k) /\ task[k].at = "idle"
  <2>1. SUFFICES ASSUME Owed(k) PROVE FALSE
    BY DEF Owed, Books, TasksRun
  <2>2. ledger[k] # "absent"
    BY <2>1 DEF Owed, Books, TasksRun
  <2>3. CASE job[k].kind = "extraction"
    <3>1. Newest(k) /\ Extraction(k)
      BY <2>1, <2>2, <2>3 DEF Peace, JobsCalm, Extraction
    <3>2. k <= j /\ j <= k
      BY <1>1, <1>2, <3>1 DEF Newest
    <3> QED
      BY <1>4, <3>2, IntakeAssumption DEF Jobs
  <2>4. CASE job[k].kind = "pipeline"
    BY <1>2, <2>1, <2>4 DEF Peace, JobsCalm, Intake, Past
  <2> QED
    BY <2>3, <2>4 DEF TypeOK, Job
<1> QED
  BY <1>1, <1>2, <1>3, <1>4

\* In peace, a case that has left the intake has no extraction on its way, and
\* whatever request is in progress has seen that.
LEMMA PastIsQuiet ==
  ASSUME Books, Peace, status \in Past
  PROVE  /\ Rests
         /\ \A j \in Jobs : j \in running => job[j].kind # "extraction"
         /\ \A r \in Requests : req[r].op # "none" => req[r].seen \notin Intake
<1>1. status \notin Intake
  BY DEF Past, Intake
<1>2. Rests
  BY <1>1 DEF Peace, JobsCalm, Rests
<1>3. \A j \in Jobs : j \in running => job[j].kind # "extraction"
  BY <1>2 DEF Books, TasksRun, Rests, Extraction, Owed
<1> QED
  BY <1>1, <1>2, <1>3 DEF Peace, RequestsCalm

\* In peace, a request that saw a case in intake finds nothing owed.
LEMMA AskedAtRest ==
  ASSUME TypeOK, Books, Peace, NEW r \in Requests, req[r].op # "none", req[r].seen \in Intake
  PROVE  /\ status = req[r].seen
         /\ Rests
         /\ \A k \in Jobs : ~Owed(k)
<1>1. status = req[r].seen /\ Rests
  BY DEF Peace, RequestsCalm
<1>2. ASSUME NEW k \in Jobs, Owed(k)
      PROVE  FALSE
  <2>1. ledger[k] # "absent"
    BY <1>2 DEF Owed, Books, TasksRun
  <2>2. job[k].kind # "extraction"
    BY <1>1, <1>2, <2>1 DEF Rests, Extraction
  <2>3. status \in Past
    BY <1>2, <2>2 DEF TypeOK, Job, Peace, JobsCalm
  <2> QED
    BY <1>1, <2>3 DEF Intake, Past
<1> QED
  BY <1>1, <1>2

\* Once a request is finished, none is in progress.
LEMMA FinishInPeace ==
  ASSUME TypeOK, RequestsCalm, NEW r \in Requests, req[r].op # "none", Finish(r)
  PROVE  \A q \in Requests : req'[q].op = "none"
<1>1. /\ req'[r].op = "none"
      /\ \A q \in Requests : q # r => req'[q] = req[q]
  BY FinishType DEF TypeOK
<1> QED
  BY <1>1 DEF RequestsCalm

\* A job that is queued in peace is the newest, and alone unless it is a pipeline.
LEMMA EnqueueInPeace ==
  ASSUME TypeOK, Books, Peace, Rests, docs' \in 0 .. MaxDocs,
         NEW kind \in {"extraction", "pipeline"}, EnqueueJob(kind),
         \/ kind = "extraction" /\ status' = "extracting" /\ \A k \in Jobs : ~Owed(k)
         \/ kind = "pipeline" /\ status' \in Past,
         UNCHANGED <<proposal, task>>
  PROVE  /\ JobsCalm'
         /\ status' # "awaiting"
         /\ kind = "pipeline" => Rests'
<1>1. PICK j \in Jobs :
        /\ ledger[j] = "absent" /\ ledger'[j] = "owed"
        /\ \A i \in Jobs : i < j => ledger[i] # "absent"
        /\ job'[j] = [kind |-> kind, docs |-> docs']
        /\ \A k \in Jobs : k # j => ledger'[k] = ledger[k] /\ job'[k] = job[k]
  BY EnqueueType DEF TypeOK, Outbox!LedgerTypeOK
<1>2. running' = running /\ task' = task /\ proposal' = proposal
  BY EnqueueType DEF TypeOK, Outbox!LedgerTypeOK
<1>3. j \notin running /\ task[j].at = "idle"
  BY <1>1 DEF Books, TasksRun
<1>4. \A k \in Jobs : k \in running => job[k].kind # "extraction"
  BY DEF Books, TasksRun, Rests, Extraction, Owed
<1>5. \A k \in Jobs : task[k].at \notin {"loaded", "calling", "raised"}
  BY <1>4 DEF Books, TasksRun
<1>6. status' # "awaiting" /\ (kind = "extraction" => status' \in Intake)
  BY DEF Past, Intake
<1>7. job'[j].kind = kind
  BY <1>1
<1>8. ASSUME NEW k \in Jobs, Extraction(k)', Owed(k)'
      PROVE  k = j /\ kind = "extraction"
  BY <1>1, <1>2, <1>7, <1>8 DEF Extraction, Owed, Rests
<1>9. Newest(j)'
  <2>1. ASSUME NEW l \in Jobs, Extraction(l)', l > j
        PROVE  FALSE
    <3>1. l # j /\ ledger[l] # "absent" /\ j < l
      BY <1>1, <2>1, IntakeAssumption DEF Extraction, Jobs
    <3> QED
      BY <1>1, <3>1 DEF Books, RowsInOrder
  <2> QED
    BY <2>1, IntakeAssumption DEF Newest, Jobs
<1>10. ASSUME NEW k \in Jobs, job'[k].kind = "pipeline", Owed(k)'
       PROVE  status' \in Past
  <2>1. CASE k = j
    BY <1>7, <1>10, <2>1
  <2>2. CASE k # j
    BY <1>1, <1>2, <1>10, <2>2 DEF Owed, Peace, JobsCalm
  <2> QED
    BY <2>1, <2>2
<1>11. ASSUME NEW k \in Jobs, task'[k].at = "returned", Extraction(k)'
       PROVE  FALSE
  <2>1. k # j /\ k \in running
    BY <1>2, <1>3, <1>11 DEF Books, TasksRun
  <2> QED
    BY <1>1, <1>4, <1>11, <2>1 DEF Extraction
<1>12. ASSUME NEW k \in Jobs, k \in running'
       PROVE  ledger'[k] = "owed"
  BY <1>1, <1>2, <1>3, <1>12 DEF Peace, JobsCalm
<1>13. JobsCalm'
  BY <1>2, <1>5, <1>6, <1>8, <1>9, <1>10, <1>11, <1>12 DEF JobsCalm
<1>14. kind = "pipeline" => Rests'
  BY <1>8 DEF Rests
<1> QED
  BY <1>6, <1>13, <1>14

\* A proposal written in peace is the newest one and rests on what was asked.
LEMMA ProposeInPeace ==
  ASSUME TypeOK, Books, Peace, NEW j \in Jobs, NEW n \in 0 .. MaxDocs,
         task[j].at \in {"loaded", "calling"}, job[j].docs <= n,
         Propose(j, n), Goto(j, "returned"), UNCHANGED <<jobVars, req>>
  PROVE  Peace'
<1>1. j \in running /\ job[j].kind = "extraction"
  BY DEF Books, TasksRun
<1>2. /\ Extraction(j) /\ Owed(j) /\ Newest(j)
      /\ \A r \in Requests : req[r].op = "none"
      /\ \A k \in Jobs : k # j => ~Owed(k) /\ task[k].at = "idle"
  BY <1>1, ExtractionIsAlone
<1>3. status = task[j].seen
  BY DEF Peace, JobsCalm
<1>4. proposal' = [job |-> j, docs |-> n] /\ status' = "awaiting"
  BY <1>3, ProposeType
<1>5. /\ task'[j].at = "returned"
      /\ \A k \in Jobs : k # j => task'[k] = task[k]
  <2>1. task \in [Jobs -> Task] /\ "returned" \in Stage
    BY DEF TypeOK, Stage
  <2> QED
    BY <2>1, GotoType
<1>6. \A k \in Jobs : Owed(k)' => k = j
  BY <1>2 DEF Owed, jobVars
<1>7. Extraction(j)' /\ Owed(j)' /\ Newest(j)'
  BY <1>2 DEF Extraction, Owed, Newest, jobVars
<1>8. RequestsCalm'
  BY <1>2 DEF RequestsCalm
<1>9. JobsCalm'
  <2>1. status' \in Intake
    BY <1>4 DEF Intake
  <2>2. job'[j].kind = "extraction" /\ (\A k \in Jobs : k \in running' => ledger'[k] = "owed")
    BY <1>1 DEF jobVars, Peace, JobsCalm
  <2>3. proposal'.job = j /\ proposal'.docs >= job'[j].docs
    <3>1. job[j].docs \in Nat /\ n \in Nat
      BY IntakeAssumption DEF TypeOK, Job
    <3> QED
      BY <1>4, <3>1 DEF jobVars
  <2> QED
    BY <1>2, <1>5, <1>6, <1>7, <2>1, <2>2, <2>3 DEF JobsCalm
<1>10. ~Rests'
  BY <1>7 DEF Rests
<1> QED
  BY <1>8, <1>9, <1>10 DEF Peace

\* The pipeline writes its statuses on a case that nothing else works on in peace.
LEMMA PipelineInPeace ==
  ASSUME TypeOK, Books, Peace, NEW j \in Jobs, NEW stage \in {"publishing", "returned"},
         j \in running, job[j].kind = "pipeline", Goto(j, stage),
         status' \in Past, UNCHANGED <<jobVars, proposal, req>>
  PROVE  Peace'
<1>1. status \in Past
  BY DEF Peace, JobsCalm, Owed
<1>2. /\ Rests
      /\ \A k \in Jobs : k \in running => job[k].kind # "extraction"
      /\ \A r \in Requests : req[r].op # "none" => req[r].seen \notin Intake
  BY <1>1, PastIsQuiet
<1>3. /\ task'[j].at = stage
      /\ \A k \in Jobs : k # j => task'[k] = task[k]
  <2>1. task \in [Jobs -> Task] /\ stage \in Stage
    BY DEF TypeOK, Stage
  <2> QED
    BY <2>1, GotoType
<1>4. Rests'
  BY <1>2 DEF Rests, Extraction, Owed, jobVars
<1>5. status' # "awaiting"
  BY DEF Past
<1>6. RequestsCalm'
  BY <1>2, <1>4 DEF RequestsCalm, Peace
<1>7. \A k \in Jobs : task'[k].at \notin {"loaded", "calling", "raised"}
  BY <1>2, <1>3 DEF Books, TasksRun
<1>8. \A k \in Jobs : task'[k].at = "returned" => ~Extraction(k)'
  BY <1>2, <1>3 DEF Books, TasksRun, Extraction, jobVars
<1>9. \A k \in Jobs : k \in running' => ledger'[k] = "owed"
  BY DEF jobVars, Peace, JobsCalm
<1>10. JobsCalm'
  BY <1>4, <1>5, <1>7, <1>8, <1>9 DEF JobsCalm, Rests
<1> QED
  BY <1>5, <1>6, <1>10 DEF Peace

\* A step keeps the peace, unless it disturbs it.
LEMMA CalmStep ==
  ASSUME TypeOK, TypeOK', Books, Books', Calm, [Next]_vars
  PROVE  Calm'
<1> SUFFICES ASSUME ~disturbed' PROVE Peace'
  BY DEF Calm, Peace
<1>0. ~disturbed
  BY DEF Next, Handle, Work, LoadCase, Upload, Reextract, Confirm, ProcessCase, BeginJob,
         GetDocuments, ModelAnswers, PersistResults, PublishInterrupt, SettleJob,
         ModelFails, LoseRun, RedeliverFailed, vars
<1>p. Peace
  BY <1>0 DEF Calm, Peace
<1>t. task \in [Jobs -> Task] /\ docs' \in 0 .. MaxDocs
  BY DEF TypeOK
<1>1. ASSUME NEW r \in Requests, NEW op \in Ops, LoadCase(r, op)
      PROVE  Peace'
  <2>1. ~Outstanding
    BY <1>1 DEF LoadCase
  <2>2. /\ req'[r] = [op |-> op, seen |-> status]
        /\ \A q \in Requests : q # r => req'[q].op = "none"
    BY <1>1, <2>1 DEF LoadCase, Outstanding, TypeOK
  <2>3. UNCHANGED <<status, proposal, ledger, running, job, task>>
    BY <1>1 DEF LoadCase, jobVars
  <2>4. Rests'
    BY <2>1, <2>3 DEF Outstanding, Rests, Owed, Extraction
  <2>5. op \in {"extract", "confirm"} => status \in Intake
    BY <1>1 DEF LoadCase
  <2>6. RequestsCalm'
    BY <2>2, <2>3, <2>4, <2>5 DEF RequestsCalm
  <2>7. JobsCalm' /\ (status' = "awaiting" /\ Rests' => Current')
    BY <1>p, <2>3 DEF Peace, JobsCalm, Rests, Current, Newest, Extraction, Owed
  <2> QED
    BY <2>6, <2>7 DEF Peace
<1>2. ASSUME NEW r \in Requests, Upload(r)
      PROVE  Peace'
  <2>1. req[r].op # "none" /\ Finish(r) /\ UNCHANGED <<proposal, task>>
    BY <1>2 DEF Upload
  <2>2. RequestsCalm'
    BY <1>p, <2>1, FinishInPeace DEF Peace, RequestsCalm
  <2>3. CASE UNCHANGED <<status, jobVars>>
    <3>1. JobsCalm' /\ (status' = "awaiting" /\ Rests' => Current')
      BY <1>p, <2>1, <2>3 DEF Peace, JobsCalm, Rests, Current, Newest, Extraction, Owed, jobVars
    <3> QED
      BY <2>2, <3>1 DEF Peace
  <2>4. CASE req[r].seen = "draft" /\ status' = "extracting" /\ EnqueueJob("extraction")
    <3>1. Rests /\ \A k \in Jobs : ~Owed(k)
      BY <1>p, <2>1, <2>4, AskedAtRest DEF Intake
    <3>2. JobsCalm' /\ status' # "awaiting"
      BY <1>p, <1>t, <2>1, <2>4, <3>1, EnqueueInPeace
    <3> QED
      BY <2>2, <3>2 DEF Peace
  <2> QED
    BY <1>2, <2>3, <2>4 DEF Upload
<1>3. ASSUME NEW r \in Requests, Reextract(r)
      PROVE  Peace'
  <2>1. /\ req[r].op = "extract" /\ Finish(r) /\ UNCHANGED <<proposal, task>>
        /\ Flush(req[r].seen, "extracting") /\ EnqueueJob("extraction")
    BY <1>3 DEF Reextract
  <2>2. RequestsCalm'
    BY <1>p, <2>1, FinishInPeace DEF Peace, RequestsCalm
  <2>3. req[r].seen \in Intake
    BY <1>p, <2>1 DEF Peace, RequestsCalm
  <2>4. status = req[r].seen /\ Rests /\ \A k \in Jobs : ~Owed(k)
    BY <1>p, <2>1, <2>3, AskedAtRest
  <2>5. status' = "extracting"
    BY <2>1, <2>4 DEF Flush
  <2>6. JobsCalm' /\ status' # "awaiting"
    BY <1>p, <1>t, <2>1, <2>4, <2>5, EnqueueInPeace
  <2> QED
    BY <2>2, <2>6 DEF Peace
<1>4. ASSUME NEW r \in Requests, Confirm(r)
      PROVE  Peace'
  <2>1. /\ req[r].op = "confirm" /\ Finish(r) /\ status' = "pending"
        /\ UNCHANGED <<proposal, ledger, running, job, task>>
    BY <1>4 DEF Confirm, jobVars
  <2>2. RequestsCalm'
    BY <1>p, <2>1, FinishInPeace DEF Peace, RequestsCalm
  <2>3. req[r].seen \in Intake
    BY <1>p, <2>1 DEF Peace, RequestsCalm
  <2>4. \A k \in Jobs : ~Owed(k) /\ k \notin running
    BY <1>p, <2>1, <2>3, AskedAtRest DEF Owed
  <2>5. \A k \in Jobs : ~Owed(k)' /\ task'[k].at = "idle" /\ k \notin running'
    BY <2>1, <2>4 DEF Owed, Books, TasksRun
  <2>6. JobsCalm' /\ status' # "awaiting"
    BY <2>1, <2>5 DEF JobsCalm
  <2> QED
    BY <2>2, <2>6 DEF Peace
<1>5. CASE ProcessCase
  <2>1. /\ status = "pending" /\ status' = "processing" /\ EnqueueJob("pipeline")
        /\ UNCHANGED <<proposal, task, req>>
    BY <1>5 DEF ProcessCase
  <2>2. status \in Past /\ status' \in Past
    BY <2>1 DEF Past
  <2>3. Rests /\ \A r \in Requests : req[r].op # "none" => req[r].seen \notin Intake
    BY <1>p, <2>2, PastIsQuiet
  <2>4. JobsCalm' /\ status' # "awaiting" /\ Rests'
    BY <1>p, <1>t, <2>1, <2>2, <2>3, EnqueueInPeace
  <2>5. RequestsCalm'
    BY <1>p, <2>1, <2>3, <2>4 DEF RequestsCalm, Peace
  <2> QED
    BY <2>4, <2>5 DEF Peace
<1>6. ASSUME NEW j \in Jobs, BeginJob(j)
      PROVE  Peace'
  <2>1. /\ task'[j].at = IF job[j].kind = "extraction" THEN "loaded" ELSE "running"
        /\ task'[j].seen = status
        /\ \A k \in Jobs : k # j => task'[k] = task[k]
        /\ ledger' = ledger /\ running' = running \union {j}
    BY <1>6, <1>t, EnterType DEF BeginJob, TypeOK
  <2>2. ledger[j] = "owed" /\ UNCHANGED <<status, proposal, job, req>>
    BY <1>6 DEF BeginJob
  <2>3. \A k \in Jobs : (Owed(k)' <=> Owed(k)) /\ (Extraction(k)' <=> Extraction(k))
    BY <2>1, <2>2 DEF Owed, Extraction
  <2>4. (Rests' <=> Rests) /\ (\A k \in Jobs : Newest(k)' <=> Newest(k))
    BY <2>3 DEF Rests, Newest
  <2>5. RequestsCalm' /\ (status' = "awaiting" /\ Rests' => Current')
    BY <1>p, <2>2, <2>4 DEF Peace, RequestsCalm, Current
  <2>6. JobsCalm'
    BY <1>p, <2>1, <2>2, <2>3, <2>4 DEF Peace, JobsCalm
  <2> QED
    BY <2>5, <2>6 DEF Peace
<1>7. ASSUME NEW j \in Jobs, GetDocuments(j)
      PROVE  Peace'
  <2>1. CASE lead
    <3>1. /\ task'[j].at = "calling" /\ task'[j].seen = task[j].seen
          /\ \A k \in Jobs : k # j => task'[k] = task[k]
      BY <1>7, <1>t, <2>1 DEF GetDocuments, Task
    <3>2. /\ task[j].at = "loaded"
          /\ UNCHANGED <<status, proposal, ledger, running, job, req>>
      BY <1>7, <2>1 DEF GetDocuments, jobVars
    <3>3. RequestsCalm' /\ (status' = "awaiting" /\ Rests' => Current')
      BY <1>p, <3>2 DEF Peace, RequestsCalm, Rests, Current, Newest, Extraction, Owed
    <3>4. JobsCalm'
      BY <1>p, <3>1, <3>2 DEF Peace, JobsCalm, Newest, Extraction, Owed
    <3> QED
      BY <3>3, <3>4 DEF Peace
  <2>2. CASE ~lead
    <3>1. docs \in 0 .. MaxDocs /\ job[j].docs <= docs
      BY DEF TypeOK, Books, DocsKnown
    <3> QED
      BY <1>7, <1>p, <2>2, <3>1, ProposeInPeace DEF GetDocuments
  <2> QED
    BY <2>1, <2>2
<1>8. ASSUME NEW j \in Jobs, ModelAnswers(j)
      PROVE  Peace'
  <2>1. task[j].at = "calling"
    BY <1>8 DEF ModelAnswers
  <2>2. task[j].docs \in 0 .. MaxDocs /\ job[j].docs <= task[j].docs
    BY <1>t, <2>1 DEF Task, Books, DocsKnown
  <2> QED
    BY <1>8, <1>p, <2>1, <2>2, ProposeInPeace DEF ModelAnswers
<1>9. ASSUME NEW j \in Jobs, ModelFails(j)
      PROVE  Peace'
  <2>1. /\ task[j].at = "calling" /\ Flush(task[j].seen, "draft") /\ Goto(j, "raised")
        /\ UNCHANGED <<proposal, ledger, running, job, req>>
    BY <1>9 DEF ModelFails, jobVars
  <2>2. j \in running /\ job[j].kind = "extraction"
    BY <2>1 DEF Books, TasksRun
  <2>3. /\ Extraction(j) /\ Owed(j) /\ Newest(j)
        /\ \A r \in Requests : req[r].op = "none"
        /\ \A k \in Jobs : k # j => ~Owed(k) /\ task[k].at = "idle"
    BY <1>p, <2>2, ExtractionIsAlone
  <2>4. status' = "draft"
    BY <1>p, <2>1 DEF Peace, JobsCalm, Flush
  <2>5. /\ task'[j].at = "raised"
        /\ \A k \in Jobs : k # j => task'[k] = task[k]
    BY <1>t, <2>1, GotoType DEF Stage
  <2>6. RequestsCalm'
    BY <2>1, <2>3 DEF RequestsCalm
  <2>7. Extraction(j)' /\ Newest(j)' /\ (\A k \in Jobs : Owed(k)' => k = j)
    BY <2>1, <2>3 DEF Extraction, Newest, Owed
  <2>8. JobsCalm'
    BY <1>p, <2>1, <2>2, <2>3, <2>4, <2>5, <2>7 DEF JobsCalm, Intake, Peace
  <2> QED
    BY <2>4, <2>6, <2>8 DEF Peace
<1>10. ASSUME NEW j \in Jobs, PersistResults(j)
      PROVE  Peace'
  <2>1. j \in running /\ job[j].kind = "pipeline"
    BY <1>10 DEF PersistResults, Books, TasksRun
  <2> QED
    BY <1>10, <1>p, <2>1, PipelineInPeace DEF PersistResults, Past
<1>11. ASSUME NEW j \in Jobs, PublishInterrupt(j)
      PROVE  Peace'
  <2>1. j \in running /\ job[j].kind = "pipeline"
    BY <1>11 DEF PublishInterrupt, Books, TasksRun
  <2> QED
    BY <1>11, <1>p, <2>1, PipelineInPeace DEF PublishInterrupt, Past
<1>12. ASSUME NEW j \in Jobs, SettleJob(j)
      PROVE  Peace'
  <2>1. /\ task'[j].at = "idle"
        /\ \A k \in Jobs : k # j => task'[k] = task[k]
    BY <1>12, <1>t, IdleType DEF SettleJob, IdleTask
  <2>2. /\ j \in running /\ running' = running \ {j}
        /\ ledger'[j] \in {"done", "failed"}
        /\ \A k \in Jobs : k # j => ledger'[k] = ledger[k]
        /\ task[j].at \in {"returned", "raised"}
        /\ UNCHANGED <<status, proposal, job, req>>
    BY <1>12 DEF SettleJob, Outbox!Settle, TypeOK, Outbox!LedgerTypeOK
  <2>3. \A k \in Jobs : (Owed(k)' => Owed(k)) /\ (Extraction(k)' <=> Extraction(k))
    BY <2>2 DEF Owed, Extraction, Books, TasksRun
  <2>4. (Rests => Rests') /\ (\A k \in Jobs : Newest(k)' <=> Newest(k))
    BY <2>3 DEF Rests, Newest
  <2>5. RequestsCalm'
    BY <1>p, <2>2, <2>4 DEF Peace, RequestsCalm
  <2>6. JobsCalm'
    BY <1>p, <2>1, <2>2, <2>3, <2>4 DEF Peace, JobsCalm
  <2>7. ASSUME status' = "awaiting" PROVE Current'
    <3>1. CASE job[j].kind = "extraction"
      <4>1. Extraction(j) /\ Newest(j)
        BY <1>p, <2>2, <3>1, ExtractionIsAlone
      <4>2. proposal.job = j /\ proposal.docs >= job[j].docs
        BY <1>p, <2>2, <2>7, <4>1 DEF Peace, JobsCalm
      <4> QED
        BY <2>2, <2>4, <4>1, <4>2 DEF Current
    <3>2. CASE job[j].kind = "pipeline"
      BY <1>p, <2>2, <2>7, <3>2 DEF Peace, JobsCalm, Owed, Past
    <3> QED
      BY <3>1, <3>2 DEF TypeOK, Job
  <2> QED
    BY <2>5, <2>6, <2>7 DEF Peace
<1>13. ASSUME NEW j \in Jobs, LoseRun(j)
      PROVE  Peace'
  <2>1. /\ task'[j].at = "idle"
        /\ \A k \in Jobs : k # j => task'[k] = task[k]
    BY <1>13, <1>t, IdleType DEF LoseRun, IdleTask
  <2>2. /\ j \in running /\ running' = running \ {j} /\ ledger' = ledger
        /\ UNCHANGED <<status, proposal, job, req>>
    BY <1>13 DEF LoseRun, Outbox!Abandon
  <2>3. \A k \in Jobs : (Owed(k)' <=> Owed(k)) /\ (Extraction(k)' <=> Extraction(k))
    BY <1>p, <2>2 DEF Owed, Extraction, Peace, JobsCalm
  <2>4. (Rests' <=> Rests) /\ (\A k \in Jobs : Newest(k)' <=> Newest(k))
    BY <2>3 DEF Rests, Newest
  <2>5. RequestsCalm' /\ (status' = "awaiting" /\ Rests' => Current')
    BY <1>p, <2>2, <2>4 DEF Peace, RequestsCalm, Current
  <2>6. JobsCalm'
    BY <1>p, <2>1, <2>2, <2>3, <2>4 DEF Peace, JobsCalm
  <2> QED
    BY <2>5, <2>6 DEF Peace
<1>14. ASSUME NEW j \in Jobs, RedeliverFailed(j)
      PROVE  Peace'
  BY <1>14 DEF RedeliverFailed
<1>15. CASE UNCHANGED vars
  BY <1>p, <1>15 DEF vars, Peace, RequestsCalm, JobsCalm, Rests, Current, Newest, Extraction,
                     Owed
<1> QED
  BY <1>1, <1>2, <1>3, <1>4, <1>5, <1>6, <1>7, <1>8, <1>9, <1>10, <1>11, <1>12, <1>13,
     <1>14, <1>15 DEF Next, Handle, Work

\* IInv holds in every reachable state.
LEMMA IntakeInvariant == Spec => []IInv
<1>1. Init => IInv
  <2> SUFFICES ASSUME Init PROVE IInv
    OBVIOUS
  <2> USE DEF Init, Outbox!LedgerInit
  <2>1. TypeOK
    <3>1. 0 \in 0 .. MaxDocs /\ 0 \in 0 .. MaxFaults /\ 0 \in 0 .. NumJobs
      BY IntakeAssumption
    <3>2. "draft" \in Status /\ NoProposal \in Proposal /\ NoJob \in Job
      BY <3>1 DEF Status, Intake, NoProposal, Proposal, NoJob, Job
    <3>3. IdleTask \in Task /\ IdleRequest \in Request
      BY <3>1, <3>2 DEF IdleTask, Task, Stage, IdleRequest, Request
    <3>4. Outbox!LedgerTypeOK
      BY DEF Outbox!LedgerTypeOK, Outbox!LedgerStatus
    <3> QED
      BY <3>1, <3>2, <3>3, <3>4 DEF TypeOK
  <2>2. RowsInOrder /\ TasksRun
    BY DEF RowsInOrder, TasksRun, IdleTask
  <2>3. DocsKnown
    BY DEF DocsKnown, NoJob, IdleTask
  <2>4. WritesAccounted
    BY DEF WritesAccounted, Extraction, IdleTask
  <2>5. Calm
    <3>1. RequestsCalm
      BY DEF RequestsCalm, IdleRequest
    <3>2. JobsCalm
      BY DEF JobsCalm, Extraction, Owed, IdleTask
    <3> QED
      BY <3>1, <3>2 DEF Calm
  <2> QED
    BY <2>1, <2>2, <2>3, <2>4, <2>5 DEF IInv
<1>2. IInv /\ [Next]_vars => IInv'
  BY IntakeTypeStep, BooksStep, CalmStep DEF IInv, Books
<1> QED
  BY <1>1, <1>2, PTL DEF Spec

\* Statuses, proposals, rows, tasks and requests are legal: no handler or job
\* leaves the intake for a status the case should not have.
THEOREM IntakeTypeCorrect == Spec => []TypeOK
<1>1. IInv => TypeOK
  BY DEF IInv
<1> QED
  BY <1>1, IntakeInvariant, PTL

\* An extraction writes at most one proposal more than runs of it were lost, and a
\* completed one has written one, whatever judges and other jobs do meanwhile
\* (run_intake_extraction under _run_with_outbox).
THEOREM ProposalsAreAccounted == Spec => []ProposalsAccounted
<1>1. IInv => ProposalsAccounted
  BY DEF IInv, WritesAccounted, ProposalsAccounted
<1> QED
  BY <1>1, IntakeInvariant, PTL

\* If the judge only ever acts on a case at rest, then what the judge is asked to
\* confirm answers the last thing asked and rests on the documents of that time.
THEOREM ProposalsAreCurrent == Spec => []ProposalIsCurrent
<1>1. IInv => ProposalIsCurrent
  <2> SUFFICES ASSUME IInv, ~disturbed, status = "awaiting", ~Outstanding
               PROVE  /\ \A j \in Jobs : Extraction(j) => j <= proposal.job
                      /\ proposal.job \in Jobs /\ proposal.docs >= job[proposal.job].docs
    BY DEF ProposalIsCurrent
  <2>1. Rests
    BY DEF Outstanding, Rests
  <2>2. Current
    BY <2>1 DEF IInv, Calm
  <2> QED
    BY <2>2 DEF Current, Newest
<1> QED
  BY <1>1, IntakeInvariant, PTL

\* If the judge only ever acts on a case at rest, no step of a handler or a job
\* takes a case back into the intake (confirm_case_intake against the status
\* writes of run_intake_extraction, upload_documents and send_intake_message).
THEOREM ConfirmationStays == Spec => ConfirmedStays
<1>1. IInv /\ [Next]_vars => [StaysPast]_vars
  <2> SUFFICES ASSUME IInv, [Next]_vars, status \in Past, ~disturbed
               PROVE  status' \in Past
    BY DEF StaysPast
  <2>1. Books /\ Peace
    BY DEF IInv, Books, Calm, Peace
  <2>2. /\ \A j \in Jobs : j \in running => job[j].kind # "extraction"
        /\ \A r \in Requests : req[r].op # "none" => req[r].seen \notin Intake
    BY <2>1, PastIsQuiet
  <2>3. \A j \in Jobs : task[j].at \notin {"loaded", "calling"}
    BY <2>1, <2>2 DEF Books, TasksRun
  <2>4. ASSUME NEW r \in Requests, Upload(r)
        PROVE  status' \in Past
    BY <2>2, <2>4 DEF Upload, Intake
  <2>5. ASSUME NEW r \in Requests, Reextract(r)
        PROVE  FALSE
    <3>1. req[r].op \in {"extract", "confirm"}
      BY <2>5 DEF Reextract
    <3>2. req[r].seen \in Intake
      BY <2>1, <3>1 DEF Peace, RequestsCalm
    <3> QED
      BY <2>2, <3>1, <3>2
  <2>6. ASSUME NEW j \in Jobs, GetDocuments(j) \/ ModelAnswers(j) \/ ModelFails(j)
        PROVE  FALSE
    BY <2>3, <2>6 DEF GetDocuments, ModelAnswers, ModelFails
  <2>7. ASSUME NEW r \in Requests, Confirm(r)
        PROVE  status' \in Past
    BY <2>7 DEF Confirm, Past
  <2>8. CASE ProcessCase
    BY <2>8 DEF ProcessCase, Past
  <2>9. ASSUME NEW j \in Jobs, PersistResults(j) \/ PublishInterrupt(j)
        PROVE  status' \in Past
    BY <2>9 DEF PersistResults, PublishInterrupt, Past
  <2>10. ASSUME NEW j \in Jobs, BeginJob(j) \/ SettleJob(j) \/ LoseRun(j) \/ RedeliverFailed(j)
         PROVE  status' \in Past
    BY <2>10 DEF BeginJob, SettleJob, LoseRun, RedeliverFailed
  <2>11. ASSUME NEW r \in Requests, NEW op \in Ops, LoadCase(r, op)
         PROVE  status' \in Past
    BY <2>11 DEF LoadCase
  <2>12. CASE UNCHANGED vars
    BY <2>12 DEF vars
  <2> QED
    BY <2>4, <2>5, <2>6, <2>7, <2>8, <2>9, <2>10, <2>11, <2>12 DEF Next, Handle, Work
<1> QED
  BY <1>1, IntakeInvariant, PTL DEF Spec, ConfirmedStays

--------------------------------------------------------------------------------
(* Extractions that are owed *)

\* Whoever sets the status queues an extraction, a run that begins has loaded the status it
\* is to replace, and a run that ends without replacing it had loaded another: then the
\* extraction the status belongs to is a different one.
LEMMA ExtractionStep ==
  ASSUME TypeOK, RowsInOrder, TasksRun, ExtractionIsOwed, [Next]_vars
  PROVE  ExtractionIsOwed'
<1>0. /\ ledger \in [Jobs -> Outbox!LedgerStatus] /\ task \in [Jobs -> Task]
      /\ job \in [Jobs -> Job] /\ status \in Status /\ docs \in 0 .. MaxDocs
  BY DEF TypeOK, Outbox!LedgerTypeOK
<1>1. ASSUME NEW j \in Jobs, WillConclude(j),
             ledger'[j] = ledger[j], job'[j] = job[j], task'[j] = task[j]
      PROVE  ExtractionIsOwed'
  BY <1>1 DEF WillConclude, Extraction, ExtractionIsOwed
<1>2. ASSUME UNCHANGED <<status, ledger, job, task>>
      PROVE  ExtractionIsOwed'
  BY <1>2 DEF ExtractionIsOwed, WillConclude, Extraction
<1>3. ASSUME EnqueueJob("extraction"), docs' \in 0 .. MaxDocs, task' = task
      PROVE  ExtractionIsOwed'
  <2>1. PICK j \in Jobs : /\ ledger[j] = "absent" /\ ledger'[j] = "owed"
                         /\ job'[j] = [kind |-> "extraction", docs |-> docs']
    BY <1>0, <1>3, EnqueueType
  <2>2. task'[j].at = "idle"
    BY <1>3, <2>1 DEF TasksRun
  <2>3. WillConclude(j)'
    BY <2>1, <2>2 DEF WillConclude, Extraction
  <2> QED
    BY <2>3 DEF ExtractionIsOwed
\* A step of one task that is not the extraction the status waits for, or replaces it.
<1>4. ASSUME NEW j \in Jobs,
             status' = "extracting" => status = "extracting",
             status' = "extracting" => ~ WillConclude(j),
             job' = job,
             \A k \in Jobs : k # j => ledger'[k] = ledger[k] /\ task'[k] = task[k]
      PROVE  ExtractionIsOwed'
  <2>1. SUFFICES ASSUME status' = "extracting" PROVE ExtractionIsOwed'
    BY DEF ExtractionIsOwed
  <2>2. PICK k \in Jobs : WillConclude(k)
    BY <1>4, <2>1 DEF ExtractionIsOwed
  <2>3. k # j
    BY <1>4, <2>1, <2>2
  <2> QED
    BY <1>1, <1>4, <2>2, <2>3
<1>5. ASSUME NEW j \in Jobs, task[j].at \in {"loaded", "calling"},
             NEW new \in {"awaiting", "draft"}, Flush(task[j].seen, new)
      PROVE  status' = "extracting" => status = "extracting" /\ ~ WillConclude(j)
  <2>1. SUFFICES ASSUME status' = "extracting"
                 PROVE  status = "extracting" /\ ~ WillConclude(j)
    OBVIOUS
  <2>2. status = "extracting" /\ new = task[j].seen
    BY <1>5, <2>1 DEF Flush
  <2> QED
    BY <1>5, <2>2 DEF WillConclude
<1>6. ASSUME NEW r \in Requests, NEW op \in Ops, LoadCase(r, op)
      PROVE  ExtractionIsOwed'
  BY <1>2, <1>6 DEF LoadCase, jobVars
<1>7. ASSUME NEW r \in Requests, Upload(r)
      PROVE  ExtractionIsOwed'
  <2>1. docs' \in 0 .. MaxDocs /\ task' = task
    BY <1>0, <1>7, IntakeAssumption DEF Upload
  <2>2. EnqueueJob("extraction") \/ UNCHANGED <<status, jobVars>>
    BY <1>7 DEF Upload
  <2> QED
    BY <1>2, <1>3, <2>1, <2>2 DEF jobVars
<1>8. ASSUME NEW r \in Requests, Reextract(r)
      PROVE  ExtractionIsOwed'
  BY <1>0, <1>3, <1>8 DEF Reextract, docVars
<1>9. ASSUME status' # "extracting" PROVE ExtractionIsOwed'
  BY <1>9 DEF ExtractionIsOwed
<1>10. ASSUME NEW r \in Requests, Confirm(r)
       PROVE  ExtractionIsOwed'
  BY <1>9, <1>10 DEF Confirm
<1>11. CASE ProcessCase
  BY <1>9, <1>11 DEF ProcessCase
<1>12. ASSUME NEW j \in Jobs, BeginJob(j)
       PROVE  ExtractionIsOwed'
  <2>1. /\ Enter(j) /\ status' = status /\ job' = job /\ ledger[j] = "owed"
    BY <1>12 DEF BeginJob
  <2>2. /\ task'[j].at = IF job[j].kind = "extraction" THEN "loaded" ELSE "running"
        /\ task'[j].seen = status
        /\ \A k \in Jobs : k # j => task'[k] = task[k]
        /\ ledger' = ledger
    BY <1>0, <2>1, EnterType
  <2>3. ASSUME status = "extracting", job[j].kind = "extraction" PROVE ExtractionIsOwed'
    <3>1. WillConclude(j)'
      BY <2>1, <2>2, <2>3 DEF WillConclude, Extraction
    <3> QED
      BY <3>1 DEF ExtractionIsOwed
  <2>4. ASSUME job[j].kind # "extraction" PROVE ExtractionIsOwed'
    <3>1. ~ WillConclude(j)
      BY <2>4 DEF WillConclude, Extraction
    <3> QED
      BY <1>4, <2>1, <2>2, <3>1
  <2> QED
    BY <1>9, <2>1, <2>3, <2>4
<1>13. ASSUME NEW j \in Jobs, GetDocuments(j)
       PROVE  ExtractionIsOwed'
  <2>0. UNCHANGED <<ledger, job>> /\ task[j].at = "loaded"
    BY <1>13 DEF GetDocuments, jobVars
  <2>1. CASE lead
    <3>1. /\ status' = status
          /\ task' = [task EXCEPT ![j].at = "calling", ![j].docs = docs]
      BY <1>13, <2>1 DEF GetDocuments
    <3>2. /\ task'[j].at = "calling" /\ task'[j].seen = task[j].seen
          /\ \A k \in Jobs : k # j => task'[k] = task[k]
      BY <1>0, <3>1 DEF Task
    <3>3. WillConclude(j) => WillConclude(j)'
      BY <2>0, <3>2 DEF WillConclude, Extraction
    <3> QED
      BY <1>4, <2>0, <3>1, <3>2, <3>3 DEF ExtractionIsOwed
  <2>2. CASE ~ lead
    <3>1. Flush(task[j].seen, "awaiting") /\ Goto(j, "returned")
      BY <1>13, <2>2 DEF GetDocuments, Propose
    <3>2. \A k \in Jobs : k # j => task'[k] = task[k]
      BY <1>0, <3>1, GotoType DEF Stage
    <3> QED
      BY <1>4, <1>5, <2>0, <3>1, <3>2
  <2> QED
    BY <2>1, <2>2
<1>14. ASSUME NEW j \in Jobs, ModelAnswers(j) \/ ModelFails(j)
       PROVE  ExtractionIsOwed'
  <2>1. /\ UNCHANGED <<ledger, job>> /\ task[j].at = "calling"
        /\ Flush(task[j].seen, "awaiting") \/ Flush(task[j].seen, "draft")
        /\ Goto(j, "returned") \/ Goto(j, "raised")
    BY <1>14 DEF ModelAnswers, ModelFails, Propose, jobVars
  <2>2. \A k \in Jobs : k # j => task'[k] = task[k]
    BY <1>0, <2>1, GotoType DEF Stage
  <2> QED
    BY <1>4, <1>5, <2>1, <2>2
<1>15. ASSUME NEW j \in Jobs, PersistResults(j) \/ PublishInterrupt(j)
       PROVE  ExtractionIsOwed'
  BY <1>9, <1>15 DEF PersistResults, PublishInterrupt
<1>16. ASSUME NEW j \in Jobs, SettleJob(j)
       PROVE  ExtractionIsOwed'
  <2>1. /\ task' = [task EXCEPT ![j] = IdleTask] /\ status' = status /\ job' = job
        /\ task[j].at \in {"returned", "raised"}
        /\ \E outcome \in {"done", "failed"} : Outbox!Settle(j, outcome)
    BY <1>16 DEF SettleJob
  <2>2. ~ WillConclude(j)
    BY <2>1 DEF WillConclude
  <2>3. \A k \in Jobs : k # j => ledger'[k] = ledger[k] /\ task'[k] = task[k]
    BY <1>0, <2>1 DEF Outbox!Settle
  <2> QED
    BY <1>4, <2>1, <2>2, <2>3
<1>17. ASSUME NEW j \in Jobs, LoseRun(j)
       PROVE  ExtractionIsOwed'
  <2>1. /\ task' = [task EXCEPT ![j] = IdleTask] /\ status' = status /\ job' = job
        /\ ledger' = ledger
    BY <1>17 DEF LoseRun, Outbox!Abandon
  <2>2. task'[j].at = "idle" /\ \A k \in Jobs : k # j => task'[k] = task[k]
    BY <1>0, <2>1, IdleType DEF IdleTask
  <2>3. WillConclude(j) => WillConclude(j)'
    BY <2>1, <2>2 DEF WillConclude, Extraction
  <2> QED
    BY <1>4, <2>1, <2>2, <2>3 DEF ExtractionIsOwed
<1>18. ASSUME NEW j \in Jobs, RedeliverFailed(j)
       PROVE  ExtractionIsOwed'
  <2>1. Enter(j) /\ status' = status /\ job' = job /\ ledger[j] = "failed"
    BY <1>18 DEF RedeliverFailed
  <2>2. ledger' = ledger /\ \A k \in Jobs : k # j => task'[k] = task[k]
    BY <1>0, <2>1, EnterType
  <2>3. ~ WillConclude(j)
    BY <2>1 DEF WillConclude
  <2> QED
    BY <1>4, <2>1, <2>2, <2>3
<1>19. CASE UNCHANGED vars
  BY <1>2, <1>19 DEF vars, jobVars
<1> QED
  BY <1>6, <1>7, <1>8, <1>10, <1>11, <1>12, <1>13, <1>14, <1>15, <1>16, <1>17, <1>18, <1>19
     DEF Next, Handle, Work

\* No case is left extracting: for any number of handlers that race, runs that are lost and
\* failed rows that are delivered again, a case that shows as extracting is owed a run of an
\* extraction that will find that status, or has found it, and hence replaces it.  No watchdog
\* looks for the status (run_intake_extraction and the handlers that queue it).
THEOREM ExtractingIsOwed == Spec => []ExtractionIsOwed
<1>1. Init => ExtractionIsOwed
  BY DEF Init, ExtractionIsOwed
<1>2. IInv /\ ExtractionIsOwed /\ [Next]_vars => ExtractionIsOwed'
  BY ExtractionStep DEF IInv
<1> QED
  BY IntakeInvariant, <1>1, <1>2, PTL DEF Spec

\* The intake uses the outbox and never its rows otherwise: whatever the judge uploads,
\* corrects and confirms, the jobs behave as JobLedger promises.
THEOREM IntakeKeepsTheLedger == Spec => Outbox!LedgerSpec
<1>1. Init => Outbox!LedgerInit
  BY DEF Init
<1>2. [Next]_vars => [Outbox!LedgerNext]_<<ledger, running>>
  <2> SUFFICES ASSUME [Next]_vars PROVE [Outbox!LedgerNext]_<<ledger, running>>
    OBVIOUS
  <2>1. ASSUME NEW kind, EnqueueJob(kind) PROVE Outbox!LedgerNext
    BY <2>1 DEF EnqueueJob, Outbox!LedgerNext
  <2>2. ASSUME NEW r \in Requests, Handle(r) PROVE [Outbox!LedgerNext]_<<ledger, running>>
    BY <2>1, <2>2 DEF Handle, Upload, Reextract, Confirm, jobVars
  <2>3. ASSUME NEW r \in Requests, NEW op \in Ops, LoadCase(r, op)
        PROVE  UNCHANGED <<ledger, running>>
    BY <2>3 DEF LoadCase, jobVars
  <2>4. CASE ProcessCase
    BY <2>1, <2>4 DEF ProcessCase
  <2>5. ASSUME NEW j \in Jobs, BeginJob(j) \/ RedeliverFailed(j) PROVE Outbox!LedgerNext
    <3>1. Outbox!Begin(j)
      BY <2>5 DEF BeginJob, RedeliverFailed, Enter
    <3> QED
      BY <3>1 DEF Outbox!LedgerNext
  <2>6. ASSUME NEW j \in Jobs, SettleJob(j) PROVE Outbox!LedgerNext
    BY <2>6 DEF SettleJob, Outbox!LedgerNext
  <2>7. ASSUME NEW j \in Jobs, LoseRun(j) PROVE Outbox!LedgerNext
    <3>1. Outbox!Abandon({j}) /\ {j} \in SUBSET running
      BY <2>7 DEF LoseRun
    <3> QED
      BY <3>1 DEF Outbox!LedgerNext
  <2>8. ASSUME NEW j \in Jobs,
               \/ GetDocuments(j) \/ ModelAnswers(j) \/ PersistResults(j) \/ PublishInterrupt(j)
               \/ ModelFails(j)
        PROVE  UNCHANGED <<ledger, running>>
    BY <2>8 DEF GetDocuments, ModelAnswers, PersistResults, PublishInterrupt, ModelFails, jobVars
  <2>9. CASE UNCHANGED vars
    BY <2>9 DEF vars
  <2> QED
    BY <2>2, <2>3, <2>4, <2>5, <2>6, <2>7, <2>8, <2>9 DEF Next, Work
<1> QED
  BY <1>1, <1>2, PTL DEF Spec, Outbox!LedgerSpec, Outbox!ledgerVars
=================================================================================
