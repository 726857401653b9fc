------------------------------- MODULE GateReview -------------------------------
(***************************************************************************)
(* One case under gate review: cases.status in PostgreSQL, the LangGraph   *)
(* thread of the case in the checkpoint saver, the Redis cancel flag, the  *)
(* API handlers that read the one and queue work for the other, the        *)
(* pipeline jobs that drive the graph, and the stuck-case watchdog.        *)
(*                                                                         *)
(* Jobs run as JobLedger says (PipelineJobs implements it): at least once, *)
(* never twice at the same time.  Phases are numbered: phase n is followed *)
(* by gate n, and the code has four (intake, research, synthesis, audit).  *)
(*                                                                         *)
(* cases.status and the thread are written by different processes in       *)
(* separate transactions.  Nothing ties them together but the order of the *)
(* steps below.                                                            *)
(***************************************************************************)
EXTENDS Naturals, FiniteSets

CONSTANTS NumJobs,    \* bound: pipeline_jobs rows of the case
          Requests,   \* API requests that can be in progress at a time
          LastGate,   \* gates of the graph (four in the code)
          Early,      \* operations that may come while work is outstanding
          Faults,     \* kinds of fault that happen
          MaxFaults   \* bound: number of faults

Jobs == 1 .. NumJobs
Gates == 1 .. LastGate

Ops == {"process", "restart", "advance", "rerun", "halt", "send_back", "cancel", "watchdog"}
FaultKinds == {"loss", "graph", "persist", "upsert", "retire"}

ASSUME ReviewAssumption ==
    /\ NumJobs \in Nat
    /\ LastGate \in Nat \ {0}
    /\ Early \subseteq Ops
    /\ Faults \subseteq FaultKinds
    /\ MaxFaults \in Nat

VARIABLES status,    \* cases.status
          thread,    \* newest checkpoint of the thread, and the gates in its history
          flag,      \* the Redis cancel flag
          active,    \* the domain of the case is active
          ledger,    \* JobLedger
          running,   \* JobLedger
          job,       \* payload of each row
          task,      \* progress of the worker that runs the job
          req,       \* progress of each API request
          picked,    \* the watchdog has selected the case
          applied,   \* history: times the decision of a job was applied to a gate
          lost,      \* history: runs of a job that died
          faults     \* faults so far

jobVars == <<ledger, running, job>>
envVars == <<active, lost, faults>>
vars == <<status, thread, flag, active, ledger, running, job, task, req, picked,
          applied, lost, faults>>

Outbox == INSTANCE JobLedger

Plain(s) == [is |-> s, gate |-> 0]
Paused(g) == [is |-> "awaiting_review", gate |-> g]
Status == {Plain(s) : s \in {"pending", "processing", "failed", "failed_retryable", "closed"}}
              \union {Paused(g) : g \in Gates}

Startable == {Plain("pending"), Plain("failed_retryable")}
Restartable == {Plain("failed"), Plain("failed_retryable")}

\* CaseState.status defaults to pending and no node of the graph writes it.
GraphStatus == Plain("pending")

Position == {"none", "phase", "gate", "end"}
Thread == [at : Position, n : 0 .. LastGate, halt : BOOLEAN, seen : SUBSET Gates]

Job == [kind : {"pipeline", "gate_run"}, gate : 0 .. LastGate, action : {"run", "advance", "rerun"}]
NoJob == [kind |-> "pipeline", gate |-> 0, action |-> "run"]

Stage == {"idle", "starting", "resuming", "driving", "outcome", "persisting", "failing",
          "closing", "publishing", "raised", "refused", "returned"}
Task == [at : Stage, n : 0 .. LastGate]
IdleTask == [at |-> "idle", n |-> 0]

Request == [op : Ops \union {"none"}, at : {"idle", "read", "driving", "paused"}, gate : 0 .. LastGate,
            n : 0 .. LastGate]
IdleRequest == [op |-> "none", at |-> "idle", gate |-> 0, n |-> 0]

Init == /\ status = Plain("pending")
        /\ thread = [at |-> "none", n |-> 0, halt |-> FALSE, seen |-> {}]
        /\ flag = FALSE
        /\ active = TRUE
        /\ Outbox!LedgerInit
        /\ job = [j \in Jobs |-> NoJob]
        /\ task = [j \in Jobs |-> IdleTask]
        /\ req = [r \in Requests |-> IdleRequest]
        /\ picked = FALSE
        /\ applied = [j \in Jobs |-> 0]
        /\ lost = [j \in Jobs |-> 0]
        /\ faults = 0

--------------------------------------------------------------------------------
(* The environment *)

Working == \E j \in Jobs : ledger[j] = "owed" \/ j \in running
Outstanding == Working \/ \E r \in Requests : req[r].op # "none"

\* An operation that is not in Early waits until the case is at rest.
MayCome(op) == op \in Early \/ ~Outstanding

Fault(kind) == /\ kind \in Faults
               /\ faults < MaxFaults
               /\ faults' = faults + 1

\* An administrator retires the domain of the case.
RetireDomain == /\ active
                /\ Fault("retire")
                /\ active' = FALSE
                /\ UNCHANGED <<status, thread, flag, jobVars, task, req, picked, applied, lost>>

--------------------------------------------------------------------------------
(* API handlers that start a run: one conditional UPDATE and the outbox row *)
(* in one transaction                                                       *)

\* enqueue_outbox_job in the transaction of the handler.
EnqueueJob(payload) ==
    \E j \in Jobs : /\ \A i \in Jobs : i < j => ledger[i] # "absent"
                    /\ Outbox!Submit(j)
                    /\ job' = [job EXCEPT ![j] = payload]

\* Mutant: the UPDATE does not test the status.
StartAnyway(op, statuses) ==
    /\ MayCome(op)
    /\ status' = Plain("processing")
    /\ EnqueueJob(NoJob)
    /\ UNCHANGED <<thread, flag, envVars, task, req, picked, applied>>

Start(op, statuses) ==
    /\ MayCome(op)
    /\ status \in statuses
    /\ status' = Plain("processing")
    /\ EnqueueJob(NoJob)
    /\ UNCHANGED <<thread, flag, envVars, task, req, picked, applied>>

ProcessCase == Start("process", Startable)
RestartCase == Start("restart", Restartable)

--------------------------------------------------------------------------------
(* API handlers that read the status, and act on what they read *)

Idle(r) == req[r].op = "none"
Finish(r) == req' = [req EXCEPT ![r] = IdleRequest]

\* advance_gate, rerun_gate, respond_to_gate: SELECT the case, check the status.
ReadPause(r, op) ==
    /\ Idle(r)
    /\ MayCome(op)
    /\ \E g \in Gates :
         /\ status = Paused(g)
         /\ op = "advance" => g < LastGate
         /\ \E n \in IF op = "send_back" THEN 1 .. LastGate - 1 ELSE {0} :
              req' = [req EXCEPT ![r] = [op |-> op, at |-> "read", gate |-> g, n |-> n]]
    /\ UNCHANGED <<status, thread, flag, envVars, jobVars, task, picked, applied>>

\* Mutant: the handler forgets case.status = processing.
QueueOnly(r) ==
    /\ req[r].op \in {"advance", "rerun"}
    /\ EnqueueJob([kind |-> "gate_run", gate |-> req[r].gate, action |-> req[r].op])
    /\ Finish(r)
    /\ UNCHANGED <<status, thread, flag, envVars, task, picked, applied>>

\* case.status = processing (an UPDATE by id) and the gate_run row, committed.
QueueDecision(r) ==
    /\ req[r].op \in {"advance", "rerun"}
    /\ status' = Plain("processing")
    /\ EnqueueJob([kind |-> "gate_run", gate |-> req[r].gate, action |-> req[r].op])
    /\ Finish(r)
    /\ UNCHANGED <<thread, flag, envVars, task, picked, applied>>

\* respond_to_gate, action halt: nothing is told to the saver.
HaltAtGate(r) ==
    /\ req[r].op = "halt"
    /\ status' = Plain("failed")
    /\ Finish(r)
    /\ UNCHANGED <<thread, flag, envVars, jobVars, task, picked, applied>>

\* cancel_case_pipeline: SELECT, then cancel_via_halt, then the cancel flag.
\* The graph of a paused thread runs to its end with the halt slot set;
\* otherwise aupdate_state writes the slot into a new checkpoint.
ReadProcessing(r) ==
    /\ Idle(r)
    /\ MayCome("cancel")
    /\ status = Plain("processing")
    /\ req' = [req EXCEPT ![r] = [op |-> "cancel", at |-> "read", gate |-> 0, n |-> 0]]
    /\ UNCHANGED <<status, thread, flag, envVars, jobVars, task, picked, applied>>

CancelViaHalt(r) ==
    /\ req[r].op = "cancel"
    /\ thread' = IF thread.at = "gate" THEN [thread EXCEPT !.at = "end", !.n = 0, !.halt = TRUE]
                 ELSE [thread EXCEPT !.halt = TRUE]
    /\ flag' = TRUE
    /\ Finish(r)
    /\ UNCHANGED <<status, envVars, jobVars, task, picked, applied>>

--------------------------------------------------------------------------------
(* The graph, whoever drives it.  A driver works on the checkpoint it loaded *)
(* and writes the next one; of two drivers the last writer wins.             *)

EnterPhase(n) == thread' = [thread EXCEPT !.at = "phase", !.n = n, !.halt = FALSE]

PauseAt(n) == thread' = [thread EXCEPT !.at = "gate", !.n = n, !.halt = FALSE,
                                       !.seen = @ \union {n}]

\* respond_to_gate, action send_back: fork at the newest pause of gate n in the
\* history of the thread, 409 when there is none, and run phase n inside the
\* request.  The status keeps saying the old gate meanwhile.
SendBack(r) ==
    /\ req[r].op = "send_back" /\ req[r].at = "read"
    /\ IF req[r].n \in thread.seen
       THEN EnterPhase(req[r].n) /\ req' = [req EXCEPT ![r].at = "driving"]
       ELSE Finish(r) /\ UNCHANGED thread
    /\ UNCHANGED <<status, flag, envVars, jobVars, task, picked, applied>>

SentBack(r) ==
    /\ req[r].at = "driving"
    /\ PauseAt(req[r].n)
    /\ req' = [req EXCEPT ![r].at = "paused"]
    /\ UNCHANGED <<status, flag, envVars, jobVars, task, picked, applied>>

SendBackRaises(r) ==
    /\ req[r].at = "driving"
    /\ Fault("graph")
    /\ Finish(r)
    /\ UNCHANGED <<status, thread, flag, active, lost, jobVars, task, picked, applied>>

\* Mutant: the handler leaves the status as it is.
CommitNothing(r) ==
    /\ req[r].at = "paused"
    /\ Finish(r)
    /\ UNCHANGED <<status, thread, flag, envVars, jobVars, task, picked, applied>>

\* find_pending_interrupt, then commit the new status: the ORM writes the column
\* only when it differs from the value this request loaded.
CommitSendBack(r) ==
    LET found == IF thread.at = "gate" THEN Paused(thread.n) ELSE Plain("processing")
    IN  /\ req[r].at = "paused"
        /\ status' = IF found = Paused(req[r].gate) THEN status ELSE found
        /\ Finish(r)
        /\ UNCHANGED <<thread, flag, envVars, jobVars, task, picked, applied>>

--------------------------------------------------------------------------------
(* A worker runs job j *)

Goto(j, stage, n) == task' = [task EXCEPT ![j] = [at |-> stage, n |-> n]]

\* _run_case_pipeline clears the cancel flag first.
BeginJob(j) ==
    /\ ledger[j] = "owed"
    /\ Outbox!Begin(j)
    /\ Goto(j, "starting", 0)
    /\ flag' = (flag /\ job[j].kind # "pipeline")
    /\ UNCHANGED <<status, thread, envVars, job, req, picked, applied>>

\* The runner feeds a fresh initial state to the thread: START, phase 1.
StartGraph(j) ==
    /\ task[j].at = "starting" /\ job[j].kind = "pipeline"
    /\ EnterPhase(1)
    /\ Goto(j, "driving", 1)
    /\ UNCHANGED <<status, flag, envVars, jobVars, req, picked, applied>>

\* Mutant: drive_resume returns quietly when nothing is pending.
CheckResumeQuietly(j) ==
    /\ task[j].at = "starting" /\ job[j].kind = "gate_run"
    /\ IF ~active THEN Goto(j, "refused", 0)
       ELSE IF thread.at # "gate" THEN Goto(j, "returned", 0)
       ELSE Goto(j, "resuming", thread.n)
    /\ UNCHANGED <<status, thread, flag, envVars, jobVars, req, picked, applied>>

\* _run_gate_via_resume: the live domain is checked (live_case.status_value is
\* not a column: the status of the row stays as it is), then drive_resume
\* requires a pending interrupt, of whatever gate.
CheckResume(j) ==
    /\ task[j].at = "starting" /\ job[j].kind = "gate_run"
    /\ IF ~active THEN Goto(j, "refused", 0)
       ELSE IF thread.at # "gate" THEN Goto(j, "raised", 0)
       ELSE Goto(j, "resuming", thread.n)
    /\ UNCHANGED <<status, thread, flag, envVars, jobVars, req, picked, applied>>

\* Mutant: gate4_apply advances to a phase instead of END.
ResumePastEnd(j) ==
    /\ task[j].at = "resuming"
    /\ applied' = [applied EXCEPT ![j] = @ + 1]
    /\ LET n == IF job[j].action = "advance" THEN task[j].n + 1 ELSE task[j].n
       IN  EnterPhase(n) /\ Goto(j, "driving", n)
    /\ UNCHANGED <<status, flag, envVars, jobVars, req, picked>>

\* gateN_apply: the decision is applied to the gate of the checkpoint; the
\* audit gate has no phase after it.
Resume(j) ==
    /\ task[j].at = "resuming"
    /\ applied' = [applied EXCEPT ![j] = @ + 1]
    /\ LET n == IF job[j].action = "advance" THEN task[j].n + 1 ELSE task[j].n
       IN  IF n > LastGate
           THEN /\ thread' = [thread EXCEPT !.at = "end", !.n = 0, !.halt = FALSE]
                /\ Goto(j, "outcome", 0)
           ELSE EnterPhase(n) /\ Goto(j, "driving", n)
    /\ UNCHANGED <<status, flag, envVars, jobVars, req, picked>>

PhaseEnds(j) ==
    /\ task[j].at = "driving"
    /\ PauseAt(task[j].n)
    /\ Goto(j, "outcome", 0)
    /\ UNCHANGED <<status, flag, envVars, jobVars, req, picked, applied>>

\* The graph raises.  Only _run_case_pipeline catches it and fails the case.
GraphRaises(j) ==
    /\ task[j].at = "driving"
    /\ Fault("graph")
    /\ IF job[j].kind = "pipeline"
       THEN status' = Plain("failed") /\ Goto(j, "returned", 0)
       ELSE Goto(j, "raised", 0) /\ UNCHANGED status
    /\ UNCHANGED <<thread, flag, active, lost, jobVars, req, picked, applied>>

\* The driver is done: _run_case_pipeline tests for a cancellation, then both
\* runners ask the saver for the pending interrupt (0: there is none).  A resume
\* that finds none takes the run for ended, or for halted if the slot is set.
ReadOutcome(j) ==
    /\ task[j].at = "outcome"
    /\ IF job[j].kind = "pipeline" /\ flag /\ GraphStatus = Plain("processing")
       THEN flag' = FALSE /\ status' = Plain("failed") /\ Goto(j, "returned", 0)
       ELSE /\ CASE thread.at = "gate" -> Goto(j, "persisting", thread.n)
                 [] thread.at # "gate" /\ job[j].kind = "pipeline" -> Goto(j, "persisting", 0)
                 [] OTHER -> Goto(j, IF thread.halt THEN "failing" ELSE "closing", 0)
            /\ UNCHANGED <<flag, status>>
    /\ UNCHANGED <<thread, envVars, jobVars, req, picked, applied>>

\* persist_case_results writes the status of the CaseState into the row; at the
\* end of a resume the worker has put failed or closed into the CaseState.
Persist(j) ==
    /\ task[j].at \in {"persisting", "failing", "closing"}
    /\ status' = CASE task[j].at = "persisting" -> GraphStatus
                   [] task[j].at = "failing" -> Plain("failed")
                   [] task[j].at = "closing" -> Plain("closed")
    /\ Goto(j, IF task[j].n # 0 THEN "publishing" ELSE "returned", task[j].n)
    /\ UNCHANGED <<thread, flag, envVars, jobVars, req, picked, applied>>

\* The transaction is rolled back and the exception leaves the runner; nothing
\* on the way writes the status, so the case keeps saying processing.
PersistFails(j) ==
    /\ task[j].at \in {"persisting", "failing", "closing"}
    /\ Fault("persist")
    /\ Goto(j, "raised", 0)
    /\ UNCHANGED <<status, thread, flag, active, lost, jobVars, req, picked, applied>>

\* Mutant: the gate after the job's own is published, not the pending one.
PublishNext(j) ==
    /\ task[j].at = "publishing"
    /\ status' = Paused(job[j].gate + 1)
    /\ Goto(j, "returned", 0)
    /\ UNCHANGED <<thread, flag, envVars, jobVars, req, picked, applied>>

\* publish_interrupt upserts the pause status in a transaction of its own.
Publish(j) ==
    /\ task[j].at = "publishing"
    /\ status' = Paused(task[j].n)
    /\ Goto(j, "returned", 0)
    /\ UNCHANGED <<thread, flag, envVars, jobVars, req, picked, applied>>

\* The upsert fails; the exception is logged and swallowed.
UpsertFails(j) ==
    /\ task[j].at = "publishing"
    /\ Fault("upsert")
    /\ Goto(j, "returned", 0)
    /\ UNCHANGED <<status, thread, flag, active, lost, jobVars, req, picked, applied>>

\* The task wrapper writes the outcome of the row.
SettleJob(j) ==
    /\ \/ task[j].at = "returned" /\ Outbox!Settle(j, "done")
       \/ task[j].at \in {"raised", "refused"} /\ Outbox!Settle(j, "failed")
    /\ task' = [task EXCEPT ![j] = IdleTask]
    /\ UNCHANGED <<status, thread, flag, envVars, job, req, picked, applied>>

\* The worker dies, or arq cancels the task: the ledger will run the job again.
LoseRun(j) ==
    /\ Fault("loss")
    /\ j \in running
    /\ Outbox!Abandon({j})
    /\ task' = [task EXCEPT ![j] = IdleTask]
    /\ lost' = [lost EXCEPT ![j] = @ + 1]
    /\ UNCHANGED <<status, thread, flag, active, job, req, picked, applied>>

\* The worker dies between writing "failed" and the acknowledgement.
RedeliverFailed(j) ==
    /\ Fault("loss")
    /\ ledger[j] = "failed"
    /\ Outbox!Begin(j)
    /\ Goto(j, "starting", 0)
    /\ flag' = (flag /\ job[j].kind # "pipeline")
    /\ lost' = [lost EXCEPT ![j] = @ + 1]
    /\ UNCHANGED <<status, thread, active, job, req, picked, applied>>

--------------------------------------------------------------------------------
(* The stuck-case watchdog, a cron job *)

\* Mutant: cases whose thread waits at a gate are not taken for stuck.
SelectUnpaused ==
    /\ ~picked
    /\ "watchdog" \in Early \/ ~Working
    /\ status = Plain("processing")
    /\ thread.at # "gate"
    /\ picked' = TRUE
    /\ UNCHANGED <<status, thread, flag, envVars, jobVars, task, req, applied>>

\* SELECT the cases that have been processing for longer than the threshold.  A
\* patient watchdog is one whose threshold outlasts every job; cancellations do
\* not touch the row, so they do not put it off.
SelectStuck ==
    /\ ~picked
    /\ "watchdog" \in Early \/ ~Working
    /\ status = Plain("processing")
    /\ picked' = TRUE
    /\ UNCHANGED <<status, thread, flag, envVars, jobVars, task, req, applied>>

\* UPDATE ... WHERE id IN (...): the status is not tested again.
MarkRetryable ==
    /\ picked
    /\ status' = Plain("failed_retryable")
    /\ picked' = FALSE
    /\ UNCHANGED <<thread, flag, envVars, jobVars, task, req, applied>>

--------------------------------------------------------------------------------

Handle(r) == \/ QueueDecision(r) \/ HaltAtGate(r) \/ CancelViaHalt(r)
             \/ SendBack(r) \/ SentBack(r) \/ CommitSendBack(r)

Work(j) == \/ BeginJob(j) \/ StartGraph(j) \/ CheckResume(j) \/ Resume(j) \/ PhaseEnds(j)
           \/ ReadOutcome(j) \/ Persist(j) \/ Publish(j) \/ SettleJob(j)

Next == \/ ProcessCase \/ RestartCase
        \/ \E r \in Requests : \/ \E op \in {"advance", "rerun", "halt", "send_back"} : ReadPause(r, op)
                               \/ ReadProcessing(r)
                               \/ Handle(r)
                               \/ SendBackRaises(r)
        \/ \E j \in Jobs : Work(j) \/ GraphRaises(j) \/ PersistFails(j) \/ UpsertFails(j)
                         \/ LoseRun(j) \/ RedeliverFailed(j)
        \/ SelectStuck \/ MarkRetryable
        \/ RetireDomain

Spec == Init /\ [][Next]_vars

\* A request that has begun is carried through, a job that is owed is run to an
\* outcome (JobLedger), and the cron job fires.  What judges ask for and what
\* goes wrong is never promised.
Fairness == /\ \A r \in Requests : WF_vars(Handle(r))
            /\ \A j \in Jobs : WF_vars(Work(j))
            /\ WF_vars(SelectStuck)
            /\ WF_vars(MarkRetryable)

FairSpec == Spec /\ Fairness

--------------------------------------------------------------------------------
(* Properties *)

\* Types; the graph never enters a phase it does not have.
TypeOK ==
    /\ status \in Status
    /\ thread \in Thread
    /\ flag \in BOOLEAN /\ active \in BOOLEAN /\ picked \in BOOLEAN
    /\ Outbox!LedgerTypeOK
    /\ job \in [Jobs -> Job]
    /\ task \in [Jobs -> Task]
    /\ req \in [Requests -> Request]
    /\ applied \in [Jobs -> Nat]
    /\ lost \in [Jobs -> Nat]
    /\ faults \in 0 .. MaxFaults

\* A decision of the judge is applied to a gate at most once more than runs of
\* its job were lost, and a gate_run row that is completed has applied its
\* decision: none is dropped in silence (drive_resume, _run_with_outbox).
DecisionsAccounted ==
    \A j \in Jobs : /\ applied[j] <= 1 + lost[j]
                    /\ ledger[j] = "done" /\ job[j].kind = "gate_run" => applied[j] > 0

\* A pause that the row announces, or that a job resumes from, did happen on the
\* thread, and so did one at every gate before it, however drivers, cancellations and
\* restarts interleave: no gate is skipped, and a send_back to an earlier phase finds a
\* checkpoint to fork from (publish_interrupt, send_back_to_phase).
PauseHappened ==
    /\ \A j \in Jobs : task[j].at = "resuming" => 1 .. task[j].n \subseteq thread.seen
    /\ \A g \in Gates : status = Paused(g) => 1 .. g \subseteq thread.seen

Driving == {j \in Jobs : task[j].at \in {"resuming", "driving"}}
SendingBack == {r \in Requests : req[r].at = "driving"}

\* The thread of a case has at most one driver: checkpoints of two would
\* overwrite each other (thread_id = case_id in runner.py and resume.py).
OneDriver == Cardinality(Driving) + Cardinality(SendingBack) <= 1

\* While the row says that the case waits at a gate the thread does wait there,
\* unless a cancellation ended it or a send_back is rewinding it just now
\* (publish_interrupt, which writes the row for readers that never ask the saver).
PauseAgrees ==
    \A g \in Gates : status = Paused(g) =>
        \/ thread.at = "gate" /\ thread.n = g
        \/ thread.halt
        \/ \E r \in Requests : req[r].at \in {"driving", "paused"}

\* A decision is applied to the gate the judge was looking at, never to a later
\* or earlier one (drive_resume, which only asks for a pending interrupt).
DecisionLandsOnItsGate ==
    [][\A j \in Jobs : applied'[j] # applied[j] => task[j].n = job[j].gate]_vars

\* A case does not stay processing for ever, whatever fails: a run ends, or the
\* watchdog finds it (stuck_case_watchdog.py).
ProcessingEnds == status = Plain("processing") ~> status # Plain("processing")

--------------------------------------------------------------------------------
(* The inductive strengthening the proofs use (see GateReviewProofs) *)

\* Where a gate or phase number is about to be used it is one of the graph's.
NumbersOK ==
    /\ thread.at = "gate" => thread.n \in Gates
    /\ \A j \in Jobs : task[j].at \in {"resuming", "driving", "publishing"} => task[j].n \in Gates
    /\ \A r \in Requests : req[r].op = "send_back" => req[r].n \in Gates
    /\ \A r \in Requests : req[r].at \in {"driving", "paused"} => req[r].op = "send_back"

\* A task is in progress exactly when the ledger says so.
TasksRun == \A j \in Jobs : /\ j \in running <=> task[j].at # "idle"
                            /\ ledger[j] = "absent" => j \notin running

\* The stages of a run before and after its decision has been applied.
Undecided == {"starting", "resuming"}
Decided == {"driving", "outcome", "persisting", "failing", "closing", "publishing", "returned"}

RunsAccounted ==
    \A j \in Jobs :
      /\ applied[j] <= 1 + lost[j]
      /\ task[j].at \in Undecided => applied[j] <= lost[j]
      /\ ledger[j] \in {"absent", "owed"} /\ j \notin running => applied[j] <= lost[j]
      /\ job[j].kind = "gate_run" /\ task[j].at \in Decided => applied[j] > 0
      /\ job[j].kind = "gate_run" /\ ledger[j] = "done" => applied[j] > 0

\* A gate number that is on its way to the row is one the thread has paused at.
PausesSeen ==
    /\ thread.at = "gate" => thread.n \in thread.seen
    /\ \A j \in Jobs : task[j].at \in {"resuming", "publishing"} => task[j].n \in thread.seen
    /\ \A j \in Jobs : task[j].at \in {"persisting", "failing", "closing"} /\ task[j].n # 0
                      => task[j].n \in thread.seen
    /\ \A g \in Gates : status = Paused(g) => g \in thread.seen

\* The thread pauses at the gates in order: who drives a phase has all gates before it
\* behind, and who was sent back the gate itself.
GatesInOrder ==
    /\ \A g \in thread.seen : 1 .. g \subseteq thread.seen
    /\ \A j \in Jobs : task[j].at = "driving" => 1 .. task[j].n - 1 \subseteq thread.seen
    /\ \A r \in Requests : req[r].at = "driving" => req[r].n \in thread.seen

IInv == TypeOK /\ NumbersOK /\ TasksRun /\ RunsAccounted /\ PausesSeen /\ GatesInOrder

--------------------------------------------------------------------------------
(* The further strengthening for a case under orderly review: one decision at *)
(* a time, a start and a watchdog that wait for the case to be at rest, and   *)
(* no run that dies                                                           *)

Busy == {"starting", "resuming", "driving", "outcome", "persisting", "failing", "closing",
         "publishing"}
Queued(j) == ledger[j] = "owed" /\ j \notin running
Live(j) == Queued(j) \/ task[j].at \in Busy

\* Only one job can still touch the case, and the row says so meanwhile.
LiveAlone ==
    \A i \in Jobs : Live(i) =>
        /\ status \in {Plain("processing"), Plain("pending")}
        /\ \A j \in Jobs : Live(j) => i = j

\* A request that acts on a pause is the only request.
DecidesAlone ==
    \A r, s \in Requests :
        req[r].op \in {"advance", "rerun", "halt", "send_back"} /\ req[s].op # "none" => r = s

\* A request acts on the pause it has read, and the watchdog on a case at rest.
ReadsStand ==
    /\ \A r \in Requests : req[r].op \in {"advance", "rerun", "halt", "send_back"} =>
          status = Paused(req[r].gate)
    /\ \A r \in Requests : req[r].at = "driving" => thread.at = "phase"
    /\ \A r \in Requests : req[r].at = "paused" => thread.at = "gate" /\ thread.n = req[r].n
    /\ picked => status = Plain("processing") /\ ~ Working

\* Where a job reads a gate from the thread, it is the gate of the judge's decision; what
\* it is about to publish is the gate the thread waits at, unless that was cancelled.
GatesStand ==
    /\ thread.at = "gate" => ~ thread.halt
    /\ \A j \in Jobs :
          /\ job[j].kind = "gate_run" /\ (Queued(j) \/ task[j].at = "starting") /\ thread.at = "gate" =>
                thread.n = job[j].gate
          /\ task[j].at = "resuming" => task[j].n = job[j].gate
          /\ task[j].at \in {"failing", "closing"} => task[j].n = 0
          /\ task[j].at \in {"persisting", "publishing"} /\ task[j].n # 0 =>
                (thread.at = "gate" /\ thread.n = task[j].n) \/ thread.halt

\* PauseAgrees, but for a send_back whose graph raised: the row keeps announcing the old
\* gate, and the thread is left within the phase.
PauseAgreesOrRaised ==
    \A g \in Gates : status = Paused(g) =>
        \/ thread.at = "gate" /\ thread.n = g
        \/ thread.halt
        \/ \E r \in Requests : req[r].at \in {"driving", "paused"}
        \/ thread.at = "phase" /\ "graph" \in Faults

OrderlyInv == DecidesAlone /\ LiveAlone /\ ReadsStand /\ GatesStand /\ PauseAgreesOrRaised

================================================================================
