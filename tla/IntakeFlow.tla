------------------------------- MODULE IntakeFlow -------------------------------
(***************************************************************************)
(* A case before its pipeline: the judge uploads documents, an extraction  *)
(* job proposes fields, the judge corrects and confirms them, and only     *)
(* then may the pipeline start.                                            *)
(*                                                                         *)
(* Handlers and jobs load the case row, work for a while, and commit.      *)
(* SQLAlchemy writes a column only when its value differs from the one it  *)
(* loaded, so a write is lost when the row has changed to something else   *)
(* and the loaded value is written back, and overwrites whatever the row   *)
(* has become otherwise.  Jobs run as JobLedger says.                      *)
(***************************************************************************)
EXTENDS Naturals, FiniteSets

CONSTANTS NumJobs,    \* bound: pipeline_jobs rows of the case
          Requests,   \* API requests that can be in progress at a time
          MaxDocs,    \* bound: uploads
          Faults,     \* kinds of fault that happen
          MaxFaults   \* bound: number of faults

Jobs == 1 .. NumJobs
FaultKinds == {"model", "loss", "ack"}

ASSUME IntakeAssumption ==
    /\ NumJobs \in Nat
    /\ MaxDocs \in Nat
    /\ Faults \subseteq FaultKinds
    /\ MaxFaults \in Nat

VARIABLES status,     \* cases.status
          docs,       \* uploads so far
          lead,       \* an authoritative document is among them
          proposal,   \* cases.intake_extraction: the job that wrote it, the uploads it saw
          ledger,     \* JobLedger
          running,    \* JobLedger
          job,        \* each row: its kind, and the uploads committed with or before it
          task,       \* progress of the worker that runs the job
          req,        \* progress of each API request
          disturbed,  \* history: something was asked, or run again, before all was settled
          wrote,      \* history: proposals written by each job
          lost,       \* history: runs of a job that died
          faults      \* faults so far

jobVars == <<ledger, running, job>>
docVars == <<docs, lead>>
vars == <<status, docs, lead, proposal, ledger, running, job, task, req,
          disturbed, wrote, lost, faults>>

Outbox == INSTANCE JobLedger

\* The statuses of a case in intake, and those of one that has left it.
Intake == {"draft", "extracting", "awaiting"}
Past == {"pending", "processing", "paused"}
Status == Intake \union Past

Proposal == [job : 0 .. NumJobs, docs : 0 .. MaxDocs]
NoProposal == [job |-> 0, docs |-> 0]

Job == [kind : {"extraction", "pipeline"}, docs : 0 .. MaxDocs]
NoJob == [kind |-> "extraction", docs |-> 0]

Stage == {"idle", "running", "loaded", "calling", "publishing", "raised", "returned"}
Task == [at : Stage, seen : Status, docs : 0 .. MaxDocs]
IdleTask == [at |-> "idle", seen |-> "draft", docs |-> 0]

Ops == {"upload", "extract", "confirm"}
Request == [op : Ops \union {"none"}, seen : Status]
IdleRequest == [op |-> "none", seen |-> "draft"]

\* create_case_draft.
Init == /\ status = "draft"
        /\ docs = 0
        /\ lead = FALSE
        /\ proposal = NoProposal
        /\ Outbox!LedgerInit
        /\ job = [j \in Jobs |-> NoJob]
        /\ task = [j \in Jobs |-> IdleTask]
        /\ req = [r \in Requests |-> IdleRequest]
        /\ disturbed = FALSE
        /\ wrote = [j \in Jobs |-> 0]
        /\ lost = [j \in Jobs |-> 0]
        /\ faults = 0

--------------------------------------------------------------------------------

Owed(j) == ledger[j] = "owed" \/ j \in running
Outstanding == \/ \E j \in Jobs : Owed(j)
               \/ \E r \in Requests : req[r].op # "none"

Fault(kind) == /\ kind \in Faults
               /\ faults < MaxFaults
               /\ faults' = faults + 1

\* The ORM writes status = new when the row was loaded with status = seen.
Flush(seen, new) == status' = IF new = seen THEN status ELSE new

\* enqueue_outbox_job in the transaction of the handler.
EnqueueJob(kind) ==
    \E j \in Jobs : /\ \A i \in Jobs : i < j => ledger[i] # "absent"
                    /\ Outbox!Submit(j)
                    /\ job' = [job EXCEPT ![j] = [kind |-> kind, docs |-> docs']]

--------------------------------------------------------------------------------
(* API handlers *)

\* The handler loads the case.  All but uploads require a status of the intake.
LoadCase(r, op) ==
    /\ req[r].op = "none"
    /\ IF op = "upload" THEN docs < MaxDocs ELSE status \in Intake
    /\ req' = [req EXCEPT ![r] = [op |-> op, seen |-> status]]
    /\ disturbed' = (disturbed \/ Outstanding)
    /\ UNCHANGED <<status, docVars, proposal, jobVars, task, wrote, lost, faults>>

Finish(r) == req' = [req EXCEPT ![r] = IdleRequest]

\* upload_documents, after the files have gone to OpenAI: a document of a trigger
\* kind, which is an authoritative one, starts the extraction of a draft.
Upload(r) ==
    /\ req[r].op = "upload"
    /\ docs < MaxDocs
    /\ docs' = docs + 1
    /\ \E kind \in {"trigger", "authoritative", "supporting"} :
         /\ lead' = (lead \/ kind # "supporting")
         /\ IF kind = "trigger" /\ req[r].seen = "draft"
            THEN status' = "extracting" /\ EnqueueJob("extraction")
            ELSE UNCHANGED <<status, jobVars>>
    /\ Finish(r)
    /\ UNCHANGED <<proposal, task, disturbed, wrote, lost, faults>>

\* trigger_intake_extraction, and send_intake_message, whose job carries the
\* judge's correction.
Reextract(r) ==
    /\ req[r].op = "extract"
    /\ Flush(req[r].seen, "extracting")
    /\ UNCHANGED docVars
    /\ EnqueueJob("extraction")
    /\ Finish(r)
    /\ UNCHANGED <<proposal, task, disturbed, wrote, lost, faults>>

\* Mutant: the case is handed back for extraction instead of left for good.
ConfirmAndExtract(r) ==
    /\ req[r].op = "confirm"
    /\ status' = "pending"
    /\ UNCHANGED docVars
    /\ EnqueueJob("extraction")
    /\ Finish(r)
    /\ UNCHANGED <<proposal, task, disturbed, wrote, lost, faults>>

\* confirm_case_intake.
Confirm(r) ==
    /\ req[r].op = "confirm"
    /\ status' = "pending"
    /\ Finish(r)
    /\ UNCHANGED <<docVars, proposal, jobVars, task, disturbed, wrote, lost, faults>>

\* process_case: one conditional UPDATE; a case without documents is refused.
ProcessCase ==
    /\ docs > 0
    /\ status = "pending"
    /\ status' = "processing"
    /\ UNCHANGED docVars
    /\ EnqueueJob("pipeline")
    /\ UNCHANGED <<proposal, task, req, disturbed, wrote, lost, faults>>

--------------------------------------------------------------------------------
(* run_intake_extraction in a worker *)

Goto(j, stage) == task' = [task EXCEPT ![j].at = stage]

\* A run begins: an extraction loads the case.
Enter(j) ==
    /\ Outbox!Begin(j)
    /\ task' = [task EXCEPT ![j].at = IF job[j].kind = "extraction" THEN "loaded" ELSE "running",
                            ![j].seen = status]

BeginJob(j) ==
    /\ ledger[j] = "owed"
    /\ Enter(j)
    /\ UNCHANGED <<status, docVars, proposal, job, req, disturbed, wrote, lost, faults>>

Propose(j, seenDocs) ==
    /\ proposal' = [job |-> j, docs |-> seenDocs]
    /\ Flush(task[j].seen, "awaiting")
    /\ wrote' = [wrote EXCEPT ![j] = @ + 1]

\* Mutant: an extraction that finds no lead document returns without a proposal.
GetDocumentsOrReturn(j) ==
    /\ task[j].at = "loaded"
    /\ IF lead
       THEN task' = [task EXCEPT ![j].at = "calling", ![j].docs = docs]
       ELSE Goto(j, "returned")
    /\ UNCHANGED <<status, proposal, wrote, docVars, jobVars, req, disturbed, lost, faults>>

\* It loads the documents; without an authoritative one it proposes an empty
\* extraction at once.
GetDocuments(j) ==
    /\ task[j].at = "loaded"
    /\ IF lead
       THEN /\ task' = [task EXCEPT ![j].at = "calling", ![j].docs = docs]
            /\ UNCHANGED <<status, proposal, wrote>>
       ELSE Propose(j, docs) /\ Goto(j, "returned")
    /\ UNCHANGED <<docVars, jobVars, req, disturbed, lost, faults>>

\* The model answers: proposal and status are committed together.
ModelAnswers(j) ==
    /\ task[j].at = "calling"
    /\ Propose(j, task[j].docs)
    /\ Goto(j, "returned")
    /\ UNCHANGED <<docVars, jobVars, req, disturbed, lost, faults>>

\* Mutant: a failed call fails the case.
ModelFailsTheCase(j) ==
    /\ task[j].at = "calling"
    /\ Fault("model")
    /\ Flush(task[j].seen, "failed")
    /\ Goto(j, "raised")
    /\ UNCHANGED <<docVars, proposal, jobVars, req, disturbed, wrote, lost>>

\* Mutant: a failed call still asks the judge to confirm.
ModelFailsToConfirm(j) ==
    /\ task[j].at = "calling"
    /\ Fault("model")
    /\ Flush(task[j].seen, "awaiting")
    /\ Goto(j, "raised")
    /\ UNCHANGED <<docVars, proposal, jobVars, req, disturbed, wrote, lost>>

\* Mutant: a failed call leaves the case as it is.
ModelFailsQuietly(j) ==
    /\ task[j].at = "calling"
    /\ Fault("model")
    /\ Goto(j, "raised")
    /\ UNCHANGED <<status, docVars, proposal, jobVars, req, disturbed, wrote, lost>>

\* The call fails: the status is rolled back to draft, the exception goes on.
ModelFails(j) ==
    /\ task[j].at = "calling"
    /\ Fault("model")
    /\ Flush(task[j].seen, "draft")
    /\ Goto(j, "raised")
    /\ UNCHANGED <<docVars, proposal, jobVars, req, disturbed, wrote, lost>>

\* The pipeline of a case_pipeline job, whose detail is GateReview: the row says
\* pending when the results are in, and paused (or failed) after that.
PersistResults(j) ==
    /\ task[j].at = "running"
    /\ status' = "pending"
    /\ Goto(j, "publishing")
    /\ UNCHANGED <<docVars, proposal, jobVars, req, disturbed, wrote, lost, faults>>

PublishInterrupt(j) ==
    /\ task[j].at = "publishing"
    /\ status' = "paused"
    /\ Goto(j, "returned")
    /\ UNCHANGED <<docVars, proposal, jobVars, req, disturbed, wrote, lost, faults>>

SettleJob(j) ==
    /\ \/ task[j].at = "returned" /\ Outbox!Settle(j, "done")
       \/ task[j].at = "raised" /\ Outbox!Settle(j, "failed")
    /\ task' = [task EXCEPT ![j] = IdleTask]
    /\ UNCHANGED <<status, docVars, proposal, job, req, disturbed, wrote, lost, faults>>

--------------------------------------------------------------------------------
(* Lost runs and redeliveries, as in GateReview *)

LoseRun(j) ==
    /\ Fault("loss")
    /\ j \in running
    /\ Outbox!Abandon({j})
    /\ task' = [task EXCEPT ![j] = IdleTask]
    /\ lost' = [lost EXCEPT ![j] = @ + 1]
    /\ UNCHANGED <<status, docVars, proposal, job, req, disturbed, wrote>>

\* A failed row whose delivery was not acknowledged: nothing was outstanding for
\* the judge to see.
RedeliverFailed(j) ==
    /\ Fault("ack")
    /\ ledger[j] = "failed"
    /\ Enter(j)
    /\ disturbed' = TRUE
    /\ lost' = [lost EXCEPT ![j] = @ + 1]
    /\ UNCHANGED <<status, docVars, proposal, job, req, wrote>>

--------------------------------------------------------------------------------

Handle(r) == Upload(r) \/ Reextract(r) \/ Confirm(r)

Work(j) == \/ BeginJob(j) \/ GetDocuments(j) \/ ModelAnswers(j)
           \/ PersistResults(j) \/ PublishInterrupt(j) \/ SettleJob(j)

Next == \/ \E r \in Requests : Handle(r) \/ \E op \in Ops : LoadCase(r, op)
        \/ ProcessCase
        \/ \E j \in Jobs : Work(j) \/ ModelFails(j) \/ LoseRun(j) \/ RedeliverFailed(j)

Spec == Init /\ [][Next]_vars

\* Jobs that are owed run to an outcome (JobLedger) and a model call ends, one
\* way or the other; judges promise nothing.
Fairness == \A j \in Jobs : WF_vars(Work(j) \/ ModelFails(j))

FairSpec == Spec /\ Fairness

--------------------------------------------------------------------------------
(* Properties *)

TypeOK ==
    /\ status \in Status
    /\ docs \in 0 .. MaxDocs
    /\ lead \in BOOLEAN /\ disturbed \in BOOLEAN
    /\ proposal \in Proposal
    /\ Outbox!LedgerTypeOK
    /\ job \in [Jobs -> Job]
    /\ task \in [Jobs -> Task]
    /\ req \in [Requests -> Request]
    /\ wrote \in [Jobs -> Nat]
    /\ lost \in [Jobs -> Nat]
    /\ faults \in 0 .. MaxFaults

Extraction(j) == job[j].kind = "extraction" /\ ledger[j] # "absent"

StaysPast == status \in Past /\ ~disturbed => status' \in Past

\* A case that has left the intake does not return to it, as long as the judge
\* only acts on a case that is at rest (confirm_case_intake against the status
\* writes of run_intake_extraction and of the other handlers).
ConfirmedStays == [][StaysPast]_vars

\* What the judge is asked to confirm is the answer to the last thing asked, and
\* rests on every document uploaded by then (run_intake_extraction).
ProposalIsCurrent ==
    ~disturbed /\ status = "awaiting" /\ ~Outstanding =>
        /\ \A j \in Jobs : Extraction(j) => j <= proposal.job
        /\ proposal.job \in Jobs /\ proposal.docs >= job[proposal.job].docs

\* An extraction writes at most one proposal more than runs of it were lost, and
\* one that is completed has written one, whatever the judge does meanwhile.
ProposalsAccounted ==
    \A j \in Jobs : /\ wrote[j] <= 1 + lost[j]
                    /\ Extraction(j) /\ ledger[j] = "done" => wrote[j] > 0

\* A case does not stay extracting for ever: no watchdog looks for that status,
\* so the job that follows the status must take it away, under every race of
\* handlers and jobs (the status writes of run_intake_extraction).
ExtractionEnds == status = "extracting" ~> status # "extracting"

--------------------------------------------------------------------------------
(* The inductive strengthening the proofs use (see IntakeFlowProofs) *)

\* Rows are used in order, and a task is in progress exactly when the ledger says
\* so, at a stage its kind of job has.
RowsInOrder == \A i, j \in Jobs : i < j /\ ledger[j] # "absent" => ledger[i] # "absent"

TasksRun ==
    \A j \in Jobs :
      /\ j \in running <=> task[j].at # "idle"
      /\ ledger[j] = "absent" => j \notin running
      /\ task[j].at \in {"loaded", "calling", "raised"} => job[j].kind = "extraction"
      /\ task[j].at \in {"running", "publishing"} => job[j].kind = "pipeline"

\* A job knows the documents that were there when it was queued.
DocsKnown ==
    \A j \in Jobs : /\ job[j].docs <= docs
                    /\ task[j].at = "calling" => job[j].docs <= task[j].docs

WritesAccounted ==
    \A j \in Jobs :
      /\ wrote[j] <= 1 + lost[j]
      /\ task[j].at \in {"loaded", "calling"} => wrote[j] <= lost[j]
      /\ ledger[j] \in {"absent", "owed"} /\ j \notin running => wrote[j] <= lost[j]
      /\ job[j].kind = "extraction" /\ task[j].at = "returned" => wrote[j] > 0
      /\ Extraction(j) /\ ledger[j] = "done" => wrote[j] > 0

\* While nobody has acted on a case that was not at rest: one thing is in
\* progress at a time, what it loaded is still true, and a case in intake is only
\* written by the newest extraction.
Newest(j) == \A k \in Jobs : Extraction(k) => k <= j
Rests == \A j \in Jobs : Extraction(j) => ~Owed(j)

Current == /\ proposal.job \in Jobs
           /\ Newest(proposal.job)
           /\ proposal.docs >= job[proposal.job].docs

RequestsCalm ==
    /\ \A q, r \in Requests : req[q].op # "none" /\ req[r].op # "none" => q = r
    /\ \A r \in Requests : req[r].op # "none" =>
          Rests /\ (req[r].seen \in Intake => status = req[r].seen)
    /\ \A r \in Requests : req[r].op \in {"extract", "confirm"} => req[r].seen \in Intake

JobsCalm ==
    \A j \in Jobs :
      /\ Extraction(j) /\ Owed(j) => status \in Intake /\ Newest(j)
      /\ job[j].kind = "pipeline" /\ Owed(j) => status \in Past
      /\ task[j].at \in {"loaded", "calling"} => status = task[j].seen
      /\ task[j].at = "returned" /\ Extraction(j) =>
            proposal.job = j /\ proposal.docs >= job[j].docs
      /\ task[j].at = "raised" => status # "awaiting"
      /\ j \in running => ledger[j] = "owed"

Calm == ~disturbed => /\ RequestsCalm
                      /\ JobsCalm
                      /\ status = "awaiting" /\ Rests => Current

IInv == TypeOK /\ RowsInOrder /\ TasksRun /\ DocsKnown /\ WritesAccounted /\ Calm

\* Job j is owed, and whatever becomes of its run, the run takes the status away.
WillConclude(j) ==
    /\ Extraction(j) /\ ledger[j] = "owed"
    /\ \/ task[j].at = "idle"
       \/ task[j].at \in {"loaded", "calling"} /\ task[j].seen = "extracting"

\* What ExtractionEnds rests on: the status of a case that shows as extracting is the
\* one an extraction that is owed will find, or has found, and hence replaces.
ExtractionIsOwed == status = "extracting" => \E j \in Jobs : WillConclude(j)
================================================================================
