------------------------------ MODULE PipelineJobs ------------------------------
(***************************************************************************)
(* The transactional outbox: pipeline_jobs rows in PostgreSQL, the         *)
(* dispatcher and stuck-recovery loops that run inside every worker        *)
(* process, the arq queue in Redis, and the task wrapper that executes a   *)
(* job and writes its outcome back.                                        *)
(*                                                                         *)
(* Jobs are numbered in the order of their created_at column.  A delivery  *)
(* is one arq queue entry; Redis keeps its job key from enqueue_job until  *)
(* arq acknowledges the job (WorkerSettings.keep_result = 0, so no result  *)
(* key outlives it).                                                       *)
(***************************************************************************)
EXTENDS Naturals, FiniteSets

CONSTANTS NumJobs,     \* rows the API may insert
          Procs,       \* worker processes: task executor and both loops
          Slots,       \* room for deliveries in the arq queue
          BatchSize,   \* DISPATCH_BATCH_SIZE
          MaxJobs,     \* WorkerSettings.max_jobs: tasks run by one process
          MaxTries,    \* arq's max_tries: starts of one delivery
          MaxFaults,   \* bound: crashes, timeouts and failed enqueues
          NoProc       \* host of a delivery no process is running

Jobs == 1 .. NumJobs

ASSUME JobsAssumption ==
    /\ NumJobs \in Nat
    /\ BatchSize \in Nat \ {0}
    /\ MaxJobs \in Nat \ {0}
    /\ MaxTries \in Nat \ {0}
    /\ MaxFaults \in Nat
    /\ NoProc \notin Procs

VARIABLES row,     \* pipeline_jobs.status of each job
          stale,   \* rows whose dispatched_at is past the threshold
          batch,   \* rows each dispatcher holds FOR UPDATE
          sent,    \* the part of its batch it has handed to enqueue_job
          dlv,     \* the arq queue
          runs,    \* history: times the work of a job was begun
          lost,    \* history: deliveries of a job that died before the ack
          faults   \* faults so far, bounded by MaxFaults

vars == <<row, stale, batch, sent, dlv, runs, lost, faults>>

RowStatus == {"absent", "pending", "dispatched", "completed", "failed"}

\* The stages of a delivery: waiting in the queue; inside _run_with_outbox
\* loading the row, running the work, about to write the outcome; returned to
\* arq but not acknowledged.
Busy == {"working", "completing", "failing"}
Hosted == Busy \union {"loading", "finishing"}
Stage == Hosted \union {"free", "queued"}

Delivery == [job : Jobs \union {0}, stage : Stage, host : Procs \union {NoProc},
             tries : 0 .. MaxTries]

NoDelivery == [job |-> 0, stage |-> "free", host |-> NoProc, tries |-> 0]

Init == /\ row = [j \in Jobs |-> "absent"]
        /\ stale = {}
        /\ batch = [w \in Procs |-> {}]
        /\ sent = [w \in Procs |-> {}]
        /\ dlv = [s \in Slots |-> NoDelivery]
        /\ runs = [j \in Jobs |-> 0]
        /\ lost = [j \in Jobs |-> 0]
        /\ faults = 0

--------------------------------------------------------------------------------
(* Rows and locks *)

Locked(j) == \E w \in Procs : j \in batch[w]

\* Mutant: the claim takes failed rows as well.
ClaimableFailed == {j \in Jobs : row[j] \in {"pending", "failed"} /\ ~Locked(j)}

Claimable == {j \in Jobs : row[j] = "pending" /\ ~Locked(j)}

HasKey(j) == \E s \in Slots : dlv[s].stage # "free" /\ dlv[s].job = j

Hosting(w) == {s \in Slots : dlv[s].stage \in Hosted /\ dlv[s].host = w}

IsBusy(j) == \E s \in Slots : dlv[s].stage \in Busy /\ dlv[s].job = j

\* enqueue_outbox_job inside the API's transaction.
EnqueueOutboxJob(j) ==
    /\ row[j] = "absent"
    /\ \A i \in Jobs : i < j => row[i] # "absent"
    /\ row' = [row EXCEPT ![j] = "pending"]
    /\ UNCHANGED <<stale, batch, sent, dlv, runs, lost, faults>>

--------------------------------------------------------------------------------
(* The dispatcher loop of process w: claim, enqueue one by one, mark *)

\* claim_pending_jobs: the oldest unlocked pending rows, at most BatchSize.
Claim(w) ==
    /\ batch[w] = {}
    /\ \E claimed \in SUBSET Claimable :
         /\ claimed # {}
         /\ Cardinality(claimed) <= BatchSize
         /\ Cardinality(claimed) = BatchSize \/ claimed = Claimable
         /\ \A i \in claimed, k \in Claimable \ claimed : i < k
         /\ batch' = [batch EXCEPT ![w] = claimed]
    /\ UNCHANGED <<row, stale, sent, dlv, runs, lost, faults>>

\* Mutant: enqueue_job without _job_id.
EnqueueAnyway(j) ==
    \E s \in Slots :
      /\ dlv[s].stage = "free"
      /\ dlv' = [dlv EXCEPT ![s] = [job |-> j, stage |-> "queued", host |-> NoProc, tries |-> 0]]

\* arq_redis.enqueue_job(..., _job_id=str(job_id)): a no-op while the key of an
\* earlier delivery of the same row exists.
Enqueue(j) ==
    IF HasKey(j)
    THEN UNCHANGED dlv
    ELSE \E s \in Slots :
           /\ dlv[s].stage = "free"
           /\ dlv' = [dlv EXCEPT ![s] = [job |-> j, stage |-> "queued",
                                         host |-> NoProc, tries |-> 0]]

Send(w) ==
    \E j \in batch[w] \ sent[w] :
      /\ \A i \in batch[w] \ sent[w] : j <= i
      /\ Enqueue(j)
      /\ sent' = [sent EXCEPT ![w] = @ \union {j}]
      /\ UNCHANGED <<row, stale, batch, runs, lost, faults>>

\* Mutant: what was handed to arq is remembered across the rollback.
SendFailsHalfway(w) ==
    /\ batch[w] \ sent[w] # {}
    /\ faults < MaxFaults
    /\ faults' = faults + 1
    /\ batch' = [batch EXCEPT ![w] = {}]
    /\ UNCHANGED <<row, stale, sent, dlv, runs, lost>>

\* enqueue_job raises: the transaction is rolled back, every claimed row is
\* pending and unlocked again, what was already handed to arq stays there.
SendFails(w) ==
    /\ batch[w] \ sent[w] # {}
    /\ faults < MaxFaults
    /\ faults' = faults + 1
    /\ batch' = [batch EXCEPT ![w] = {}]
    /\ sent' = [sent EXCEPT ![w] = {}]
    /\ UNCHANGED <<row, stale, dlv, runs, lost>>

\* mark_dispatched (WHERE status = 'pending') and commit.
MarkDispatched(w) ==
    /\ batch[w] # {}
    /\ sent[w] = batch[w]
    /\ row' = [j \in Jobs |-> IF j \in batch[w] /\ row[j] = "pending"
                              THEN "dispatched" ELSE row[j]]
    /\ stale' = stale \ batch[w]
    /\ batch' = [batch EXCEPT ![w] = {}]
    /\ sent' = [sent EXCEPT ![w] = {}]
    /\ UNCHANGED <<dlv, runs, lost, faults>>

--------------------------------------------------------------------------------
(* The stuck-recovery loop *)

\* STUCK_THRESHOLD_SECONDS pass since the row was marked dispatched.
GrowStale(j) ==
    /\ row[j] = "dispatched"
    /\ j \notin stale
    /\ stale' = stale \union {j}
    /\ UNCHANGED <<row, batch, sent, dlv, runs, lost, faults>>

\* Mutant: the UPDATE does not test the status.
RecoverAny ==
    /\ stale # {}
    /\ row' = [j \in Jobs |-> IF j \in stale THEN "pending" ELSE row[j]]
    /\ stale' = {}
    /\ UNCHANGED <<batch, sent, dlv, runs, lost, faults>>

\* Mutant: the UPDATE tests for the wrong status.
RecoverPending ==
    LET stuck == {j \in stale : row[j] = "pending"}
    IN  /\ stuck # {}
        /\ stale' = stale \ stuck
        /\ UNCHANGED <<row, batch, sent, dlv, runs, lost, faults>>

\* recover_stuck_jobs: one UPDATE over every row past the threshold.
RecoverStuck ==
    LET stuck == {j \in stale : row[j] = "dispatched"}
    IN  /\ stuck # {}
        /\ row' = [j \in Jobs |-> IF j \in stuck THEN "pending" ELSE row[j]]
        /\ stale' = stale \ stuck
        /\ UNCHANGED <<batch, sent, dlv, runs, lost, faults>>

--------------------------------------------------------------------------------
(* arq and the task wrapper _run_with_outbox *)

\* A process with a free task slot picks the delivery up.
StartDelivery(s, w) ==
    /\ dlv[s].stage = "queued"
    /\ dlv[s].tries < MaxTries
    /\ Cardinality(Hosting(w)) < MaxJobs
    /\ dlv' = [dlv EXCEPT ![s].stage = "loading", ![s].host = w,
                          ![s].tries = @ + 1]
    /\ UNCHANGED <<row, stale, batch, sent, runs, lost, faults>>

\* arq gives up on a delivery it has started MaxTries times.
DiscardDelivery(s) ==
    /\ dlv[s].stage = "queued"
    /\ dlv[s].tries >= MaxTries
    /\ dlv' = [dlv EXCEPT ![s] = NoDelivery]
    /\ UNCHANGED <<row, stale, batch, sent, runs, lost, faults>>

\* Mutant: no early return for a completed row.
LoadRowAlways(s) ==
    /\ dlv[s].stage = "loading"
    /\ dlv' = [dlv EXCEPT ![s].stage = "working"]
    /\ runs' = [runs EXCEPT ![dlv[s].job] = @ + 1]
    /\ UNCHANGED <<row, stale, batch, sent, lost, faults>>

\* _load_job, then the early return for a completed row.
LoadRow(s) ==
    /\ dlv[s].stage = "loading"
    /\ IF row[dlv[s].job] = "completed"
       THEN /\ dlv' = [dlv EXCEPT ![s].stage = "finishing"]
            /\ UNCHANGED runs
       ELSE /\ dlv' = [dlv EXCEPT ![s].stage = "working"]
            /\ runs' = [runs EXCEPT ![dlv[s].job] = @ + 1]
    /\ UNCHANGED <<row, stale, batch, sent, lost, faults>>

\* The runner returns, or raises an Exception.
WorkEnds(s) ==
    /\ dlv[s].stage = "working"
    /\ \E next \in {"completing", "failing"} :
         dlv' = [dlv EXCEPT ![s].stage = next]
    /\ UNCHANGED <<row, stale, batch, sent, runs, lost, faults>>

\* mark_completed by primary key; it waits for a dispatcher's row lock.
Complete(s) ==
    /\ dlv[s].stage = "completing"
    /\ ~Locked(dlv[s].job)
    /\ row' = [row EXCEPT ![dlv[s].job] = "completed"]
    /\ dlv' = [dlv EXCEPT ![s].stage = "finishing"]
    /\ UNCHANGED <<stale, batch, sent, runs, lost, faults>>

\* mark_failed by primary key, then the exception reaches arq, which does not
\* retry an ordinary exception.
Fail(s) ==
    /\ dlv[s].stage = "failing"
    /\ ~Locked(dlv[s].job)
    /\ row' = [row EXCEPT ![dlv[s].job] = "failed"]
    /\ dlv' = [dlv EXCEPT ![s].stage = "finishing"]
    /\ UNCHANGED <<stale, batch, sent, runs, lost, faults>>

\* arq removes the queue entry and the job key.
Acknowledge(s) ==
    /\ dlv[s].stage = "finishing"
    /\ dlv' = [dlv EXCEPT ![s] = NoDelivery]
    /\ UNCHANGED <<row, stale, batch, sent, runs, lost, faults>>

--------------------------------------------------------------------------------
(* Faults *)

\* job_timeout: arq cancels the task.  CancelledError is not an Exception, so
\* neither _fail nor _complete runs, and arq acknowledges the delivery.
TimeOut(s) ==
    /\ dlv[s].stage \in Busy \union {"loading"}
    /\ faults < MaxFaults
    /\ faults' = faults + 1
    /\ lost' = [lost EXCEPT ![dlv[s].job] = @ + 1]
    /\ dlv' = [dlv EXCEPT ![s] = NoDelivery]
    /\ UNCHANGED <<row, stale, batch, sent, runs>>

\* A process dies or is shut down: its transaction is rolled back and arq
\* hands its unacknowledged deliveries to another process.
Crash(w) ==
    /\ faults < MaxFaults
    /\ faults' = faults + 1
    /\ batch' = [batch EXCEPT ![w] = {}]
    /\ sent' = [sent EXCEPT ![w] = {}]
    /\ dlv' = [s \in Slots |-> IF s \in Hosting(w)
                               THEN [dlv[s] EXCEPT !.stage = "queued", !.host = NoProc]
                               ELSE dlv[s]]
    /\ lost' = [j \in Jobs |-> IF \E s \in Hosting(w) : dlv[s].job = j
                               THEN lost[j] + 1 ELSE lost[j]]
    /\ UNCHANGED <<row, stale, runs>>

--------------------------------------------------------------------------------

Dispatcher(w) == Claim(w) \/ Send(w) \/ SendFails(w) \/ MarkDispatched(w)

Recovery == RecoverStuck \/ \E j \in Jobs : GrowStale(j)

Task(s) == \/ \E w \in Procs : StartDelivery(s, w)
           \/ DiscardDelivery(s) \/ LoadRow(s) \/ WorkEnds(s)
           \/ Complete(s) \/ Fail(s) \/ Acknowledge(s) \/ TimeOut(s)

Next == \/ \E j \in Jobs : EnqueueOutboxJob(j)
        \/ \E w \in Procs : Dispatcher(w) \/ Crash(w)
        \/ Recovery
        \/ \E s \in Slots : Task(s)

Spec == Init /\ [][Next]_vars

\* Every loop of a live process takes its next step, time passes, and PostgreSQL
\* grants a waiting UPDATE its row lock (its lock queue is first come, first
\* served, so a dispatcher that locks the row again and again cannot starve it).
\* Submissions and faults are never promised.
Fairness ==
    /\ \A w \in Procs : WF_vars(Claim(w)) /\ WF_vars(Send(w)) /\ WF_vars(MarkDispatched(w))
    /\ \A j \in Jobs : WF_vars(GrowStale(j))
    /\ WF_vars(RecoverStuck)
    /\ \A s \in Slots :
         /\ WF_vars(\E w \in Procs : StartDelivery(s, w))
         /\ WF_vars(DiscardDelivery(s)) /\ WF_vars(LoadRow(s)) /\ WF_vars(WorkEnds(s))
         /\ SF_vars(Complete(s)) /\ SF_vars(Fail(s)) /\ WF_vars(Acknowledge(s))

FairSpec == Spec /\ Fairness

--------------------------------------------------------------------------------
(* Properties *)

\* Types, and what the claim SQL guarantees of a dispatcher's batch: no more
\* than LIMIT rows, and nothing handed to arq that was not claimed.
TypeOK ==
    /\ row \in [Jobs -> RowStatus]
    /\ stale \subseteq Jobs
    /\ batch \in [Procs -> SUBSET Jobs]
    /\ sent \in [Procs -> SUBSET Jobs]
    /\ dlv \in [Slots -> Delivery]
    /\ runs \in [Jobs -> Nat]
    /\ lost \in [Jobs -> Nat]
    /\ faults \in 0 .. MaxFaults
    /\ \A w \in Procs : sent[w] \subseteq batch[w] /\ Cardinality(batch[w]) <= BatchSize

\* No two arq deliveries of one row exist at a time, whatever dispatchers on
\* several processes, rolled-back batches and stuck-recovery do to the row
\* (dispatcher.py: _job_id pins the arq key; claim SQL skips locked rows).
OneDelivery ==
    \A s, t \in Slots :
      (s # t /\ dlv[s].stage # "free" /\ dlv[t].stage # "free") => dlv[s].job # dlv[t].job

\* The work of a job is begun at most once more than deliveries of it were
\* lost: re-enqueueing by the dispatcher or by stuck-recovery of a job that is
\* merely slow never makes the work run twice (tasks.py and dispatcher.py).
RunsBounded == \A j \in Jobs : runs[j] <= 1 + lost[j]

\* A completed row is never written again: neither stuck-recovery, nor a late
\* mark_dispatched, nor a redelivery that fails can take the outcome back
\* (mark_completed and mark_failed have no guard on status).
CompletedIsFinal ==
    [][\A j \in Jobs : row[j] = "completed" => row'[j] = "completed"]_vars

\* The outbox implements the ledger: see JobLedger.
LedgerOf(j) == CASE row[j] = "completed" -> "done"
                 [] row[j] = "failed" -> "failed"
                 [] row[j] = "absent" -> "absent"
                 [] OTHER -> "owed"

Ledger == INSTANCE JobLedger WITH ledger <- [j \in Jobs |-> LedgerOf(j)],
                                  running <- {j \in Jobs : IsBusy(j)}

ImplementsLedger == Ledger!LedgerSpec

\* Every submitted job is settled in the end, although deliveries die with
\* their process, time out or are given up by arq (recover_stuck_jobs).
EverySettled ==
    \A j \in Jobs : row[j] = "pending" ~> row[j] \in {"completed", "failed"}

--------------------------------------------------------------------------------
(* The inductive strengthening the proofs use (see PipelineJobsProofs) *)

\* A dispatcher holds pending rows only, and no row is held twice.
BatchesHoldPending ==
    /\ \A w \in Procs : \A j \in batch[w] : row[j] = "pending"
    /\ \A v, w \in Procs : v # w => batch[v] \intersect batch[w] = {}

\* What the stage of a delivery says about its row.
StageMatchesRow ==
    \A s \in Slots : dlv[s].stage # "free" =>
      /\ dlv[s].job \in Jobs
      /\ row[dlv[s].job] # "absent"
      /\ dlv[s].stage \in Busy => row[dlv[s].job] # "completed"
      /\ dlv[s].stage = "finishing" => row[dlv[s].job] \in {"completed", "failed"}

\* A job that still owes a run has none to its account that was not lost.
Unsettled(j) == row[j] \in {"absent", "pending", "dispatched"}
Waiting(j) == \E s \in Slots : dlv[s].stage \in {"queued", "loading"} /\ dlv[s].job = j

RunsAccounted ==
    \A j \in Jobs :
      /\ runs[j] <= 1 + lost[j]
      /\ Unsettled(j) /\ ~IsBusy(j) => runs[j] <= lost[j]
      /\ Waiting(j) /\ row[j] # "completed" => runs[j] <= lost[j]

IInv == TypeOK /\ OneDelivery /\ BatchesHoldPending /\ StageMatchesRow /\ RunsAccounted

================================================================================
