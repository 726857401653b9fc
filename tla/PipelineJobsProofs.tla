--------------------------- MODULE PipelineJobsProofs ---------------------------
(***************************************************************************)
(* Proofs about PipelineJobs, for any number of jobs, processes, queue     *)
(* slots and faults.  The inductive invariant is IInv.                     *)
(***************************************************************************)
EXTENDS PipelineJobs, FiniteSetTheorems, TLAPS

--------------------------------------------------------------------------------
(* Type correctness *)

\* Nothing is submitted or held at first.
LEMMA TypeInit == Init => TypeOK
  <1>1. Cardinality({}) = 0
    BY FS_EmptySet
  <1>2. QED
    BY <1>1, JobsAssumption
    DEF Init, TypeOK, RowStatus, Delivery, NoDelivery, Stage, Hosted, Busy

\* A step keeps the types, and a batch within the claim's LIMIT.
LEMMA TypeStep == TypeOK /\ [Next]_vars => TypeOK'
  <1> SUFFICES ASSUME TypeOK, [Next]_vars
               PROVE  TypeOK'
    OBVIOUS
  <1> USE JobsAssumption DEF TypeOK
  <1>1. Cardinality({}) = 0
    BY FS_EmptySet
  <1>2. ASSUME NEW j \in Jobs, EnqueueOutboxJob(j)
        PROVE  TypeOK'
    BY <1>2 DEF EnqueueOutboxJob, RowStatus
  <1>3. ASSUME NEW w \in Procs, Claim(w)
        PROVE  TypeOK'
    BY <1>3 DEF Claim, Claimable
  <1>4. ASSUME NEW w \in Procs, Send(w)
        PROVE  TypeOK'
    <2>1. PICK j \in batch[w] \ sent[w] :
            /\ Enqueue(j)
            /\ sent' = [sent EXCEPT ![w] = @ \union {j}]
            /\ UNCHANGED <<row, stale, batch, runs, lost, faults>>
      BY <1>4 DEF Send
    <2>2. dlv' \in [Slots -> Delivery]
      BY <2>1 DEF Enqueue, Delivery, Stage, Hosted
    <2>3. QED
      BY <2>1, <2>2
  <1>5. ASSUME NEW w \in Procs, SendFails(w)
        PROVE  TypeOK'
    BY <1>1, <1>5 DEF SendFails
  <1>6. ASSUME NEW w \in Procs, MarkDispatched(w)
        PROVE  TypeOK'
    BY <1>1, <1>6 DEF MarkDispatched, RowStatus
  <1>7. ASSUME NEW j \in Jobs, GrowStale(j)
        PROVE  TypeOK'
    BY <1>7 DEF GrowStale
  <1>8. CASE RecoverStuck
    BY <1>8 DEF RecoverStuck, RowStatus
  <1>9. ASSUME NEW s \in Slots, NEW w \in Procs, StartDelivery(s, w)
        PROVE  TypeOK'
    <2>1. dlv' \in [Slots -> Delivery]
      BY <1>9 DEF StartDelivery, Delivery, Stage, Hosted
    <2>2. QED
      BY <1>9, <2>1 DEF StartDelivery
  <1>10. ASSUME NEW s \in Slots, DiscardDelivery(s)
         PROVE  TypeOK'
    BY <1>10 DEF DiscardDelivery, NoDelivery, Delivery, Stage
  <1>11. ASSUME NEW s \in Slots, LoadRow(s)
         PROVE  TypeOK'
    <2>1. dlv' \in [Slots -> Delivery]
      BY <1>11 DEF LoadRow, Delivery, Stage, Hosted, Busy
    <2>2. runs' \in [Jobs -> Nat]
      BY <1>11 DEF LoadRow
    <2>3. QED
      BY <1>11, <2>1, <2>2 DEF LoadRow
  <1>12. ASSUME NEW s \in Slots, WorkEnds(s)
         PROVE  TypeOK'
    BY <1>12, SMTT(30) DEF WorkEnds, Delivery, Stage, Hosted, Busy
  <1>13. ASSUME NEW s \in Slots, Complete(s)
         PROVE  TypeOK'
    BY <1>13 DEF Complete, RowStatus, Delivery, Stage, Hosted
  <1>14. ASSUME NEW s \in Slots, Fail(s)
         PROVE  TypeOK'
    BY <1>14 DEF Fail, RowStatus, Delivery, Stage, Hosted
  <1>15. ASSUME NEW s \in Slots, Acknowledge(s)
         PROVE  TypeOK'
    BY <1>15 DEF Acknowledge, NoDelivery, Delivery, Stage
  <1>16. ASSUME NEW s \in Slots, TimeOut(s)
         PROVE  TypeOK'
    <2>1. dlv' \in [Slots -> Delivery]
      BY <1>16 DEF TimeOut, NoDelivery, Delivery, Stage
    <2>2. lost' \in [Jobs -> Nat]
      <3>1. \A j \in Jobs : lost[j] + 1 \in Nat
        OBVIOUS
      <3>2. CASE dlv[s].job \in Jobs
        BY <1>16, <3>1, <3>2 DEF TimeOut
      <3>3. CASE dlv[s].job \notin Jobs
        BY <1>16, <3>3 DEF TimeOut
      <3>4. QED
        BY <3>2, <3>3
    <2>3. QED
      BY <1>16, <2>1, <2>2 DEF TimeOut
  <1>17. ASSUME NEW w \in Procs, Crash(w)
         PROVE  TypeOK'
    <2>1. dlv' \in [Slots -> Delivery]
      BY <1>17 DEF Crash, Delivery, Stage
    <2>2. lost' \in [Jobs -> Nat]
      <3>1. \A j \in Jobs : lost[j] \in Nat /\ lost[j] + 1 \in Nat
        OBVIOUS
      <3> DEFINE hit(j) == \E s \in Hosting(w) : dlv[s].job = j
      <3>2. lost' = [j \in Jobs |-> IF hit(j) THEN lost[j] + 1 ELSE lost[j]]
        BY <1>17 DEF Crash
      <3> HIDE DEF hit
      <3>3. QED
        BY <3>1, <3>2
    <2> DEFINE cleared(held) == [held EXCEPT ![w] = {}]
    <2>0. /\ faults < MaxFaults /\ faults' = faults + 1
          /\ batch' = cleared(batch) /\ sent' = cleared(sent)
          /\ UNCHANGED <<row, stale, runs>>
      BY <1>17 DEF Crash
    <2>3. faults' \in 0 .. MaxFaults
      BY <2>0
    <2>4. /\ batch' \in [Procs -> SUBSET Jobs]
          /\ sent' \in [Procs -> SUBSET Jobs]
          /\ \A v \in Procs : sent'[v] \subseteq batch'[v] /\ Cardinality(batch'[v]) <= BatchSize
      BY <1>1, <2>0
    <2>5. QED
      BY <2>0, <2>1, <2>2, <2>3, <2>4
  <1>18. CASE UNCHANGED vars
    BY <1>18 DEF vars
  <1>19. QED
    BY <1>2, <1>3, <1>4, <1>5, <1>6, <1>7, <1>8, <1>9, <1>10, <1>11, <1>12, <1>13,
       <1>14, <1>15, <1>16, <1>17, <1>18 DEF Next, Dispatcher, Recovery, Task

\* Every variable keeps its type, and a dispatcher's batch its size, for every
\* number of jobs and processes (outbox.py, dispatcher.py, tasks.py).
THEOREM TypeCorrect == Spec => []TypeOK
  BY TypeInit, TypeStep, PTL DEF Spec

--------------------------------------------------------------------------------
(* The inductive invariant, one conjunct at a time *)

\* The invariant holds before anything is submitted.
LEMMA InvInit == Init => IInv
  BY TypeInit
  DEF Init, IInv, OneDelivery, BatchesHoldPending, StageMatchesRow, RunsAccounted,
      NoDelivery, IsBusy, Waiting, Busy

\* Only the commit of a batch queues a delivery, for a row that had none.
LEMMA OneDeliveryStep == IInv /\ [Next]_vars => OneDelivery'
  <1> SUFFICES ASSUME IInv, [Next]_vars
               PROVE  OneDelivery'
    OBVIOUS
  <1> USE DEF IInv, TypeOK, OneDelivery, Delivery, NoDelivery
  <1>2. ASSUME NEW j \in Jobs, EnqueueOutboxJob(j)
        PROVE  OneDelivery'
    BY <1>2 DEF EnqueueOutboxJob
  <1>3. ASSUME NEW w \in Procs, Claim(w)
        PROVE  OneDelivery'
    BY <1>3 DEF Claim
  <1>4. ASSUME NEW w \in Procs, Send(w)
        PROVE  OneDelivery'
    BY <1>4 DEF Send, Enqueue, HasKey
  <1>5. ASSUME NEW w \in Procs, SendFails(w)
        PROVE  OneDelivery'
    BY <1>5 DEF SendFails
  <1>6. ASSUME NEW w \in Procs, MarkDispatched(w)
        PROVE  OneDelivery'
    BY <1>6 DEF MarkDispatched
  <1>7. ASSUME NEW j \in Jobs, GrowStale(j)
        PROVE  OneDelivery'
    BY <1>7 DEF GrowStale
  <1>8. CASE RecoverStuck
    BY <1>8 DEF RecoverStuck
  <1>9. ASSUME NEW s \in Slots, NEW w \in Procs, StartDelivery(s, w)
        PROVE  OneDelivery'
    BY <1>9 DEF StartDelivery
  <1>10. ASSUME NEW s \in Slots, DiscardDelivery(s)
         PROVE  OneDelivery'
    BY <1>10 DEF DiscardDelivery
  <1>11. ASSUME NEW s \in Slots, LoadRow(s)
         PROVE  OneDelivery'
    BY <1>11 DEF LoadRow
  <1>12. ASSUME NEW s \in Slots, WorkEnds(s)
         PROVE  OneDelivery'
    BY <1>12 DEF WorkEnds
  <1>13. ASSUME NEW s \in Slots, Complete(s)
         PROVE  OneDelivery'
    BY <1>13 DEF Complete
  <1>14. ASSUME NEW s \in Slots, Fail(s)
         PROVE  OneDelivery'
    BY <1>14 DEF Fail
  <1>15. ASSUME NEW s \in Slots, Acknowledge(s)
         PROVE  OneDelivery'
    BY <1>15 DEF Acknowledge
  <1>16. ASSUME NEW s \in Slots, TimeOut(s)
         PROVE  OneDelivery'
    BY <1>16 DEF TimeOut
  <1>17. ASSUME NEW w \in Procs, Crash(w)
         PROVE  OneDelivery'
    BY <1>17, ZenonT(40) DEF Crash, Hosting, Hosted, Busy
  <1>18. CASE UNCHANGED vars
    BY <1>18 DEF vars
  <1>19. QED
    BY <1>2, <1>3, <1>4, <1>5, <1>6, <1>7, <1>8, <1>9, <1>10, <1>11, <1>12, <1>13,
       <1>14, <1>15, <1>16, <1>17, <1>18 DEF Next, Dispatcher, Recovery, Task

\* A batch holds pending rows, each in one batch.
LEMMA BatchStep == IInv /\ [Next]_vars => BatchesHoldPending'
  <1> SUFFICES ASSUME IInv, [Next]_vars
               PROVE  BatchesHoldPending'
    OBVIOUS
  <1> USE DEF IInv, TypeOK, BatchesHoldPending
  <1>2. ASSUME NEW j \in Jobs, EnqueueOutboxJob(j)
        PROVE  BatchesHoldPending'
    BY <1>2 DEF EnqueueOutboxJob
  <1>3. ASSUME NEW w \in Procs, Claim(w)
        PROVE  BatchesHoldPending'
    BY <1>3 DEF Claim, Claimable, Locked
  <1>4. ASSUME NEW w \in Procs, Send(w)
        PROVE  BatchesHoldPending'
    BY <1>4 DEF Send
  <1>5. ASSUME NEW w \in Procs, SendFails(w)
        PROVE  BatchesHoldPending'
    BY <1>5 DEF SendFails
  <1>6. ASSUME NEW w \in Procs, MarkDispatched(w)
        PROVE  BatchesHoldPending'
    BY <1>6 DEF MarkDispatched
  <1>7. ASSUME NEW j \in Jobs, GrowStale(j)
        PROVE  BatchesHoldPending'
    BY <1>7 DEF GrowStale
  <1>8. CASE RecoverStuck
    BY <1>8 DEF RecoverStuck
  <1>9. ASSUME NEW s \in Slots, NEW w \in Procs, StartDelivery(s, w)
        PROVE  BatchesHoldPending'
    BY <1>9 DEF StartDelivery, Delivery
  <1>10. ASSUME NEW s \in Slots, DiscardDelivery(s)
         PROVE  BatchesHoldPending'
    BY <1>10 DEF DiscardDelivery
  <1>11. ASSUME NEW s \in Slots, LoadRow(s)
         PROVE  BatchesHoldPending'
    BY <1>11 DEF LoadRow
  <1>12. ASSUME NEW s \in Slots, WorkEnds(s)
         PROVE  BatchesHoldPending'
    BY <1>12 DEF WorkEnds
  <1>13. ASSUME NEW s \in Slots, Complete(s)
         PROVE  BatchesHoldPending'
    BY <1>13 DEF Complete, Locked
  <1>14. ASSUME NEW s \in Slots, Fail(s)
         PROVE  BatchesHoldPending'
    BY <1>14 DEF Fail, Locked
  <1>15. ASSUME NEW s \in Slots, Acknowledge(s)
         PROVE  BatchesHoldPending'
    BY <1>15 DEF Acknowledge
  <1>16. ASSUME NEW s \in Slots, TimeOut(s)
         PROVE  BatchesHoldPending'
    BY <1>16 DEF TimeOut
  <1>17. ASSUME NEW w \in Procs, Crash(w)
         PROVE  BatchesHoldPending'
    BY <1>17 DEF Crash
  <1>18. CASE UNCHANGED vars
    BY <1>18 DEF vars
  <1>19. QED
    BY <1>2, <1>3, <1>4, <1>5, <1>6, <1>7, <1>8, <1>9, <1>10, <1>11, <1>12, <1>13,
       <1>14, <1>15, <1>16, <1>17, <1>18 DEF Next, Dispatcher, Recovery, Task

\* How far a delivery has come bounds the status of its row.
LEMMA StageStep == IInv /\ [Next]_vars => StageMatchesRow'
  <1> SUFFICES ASSUME IInv, [Next]_vars
               PROVE  StageMatchesRow'
    OBVIOUS
  <1> USE DEF IInv, TypeOK, StageMatchesRow, Delivery, NoDelivery, Busy, Hosted
  <1>2. ASSUME NEW j \in Jobs, EnqueueOutboxJob(j)
        PROVE  StageMatchesRow'
    BY <1>2 DEF EnqueueOutboxJob
  <1>3. ASSUME NEW w \in Procs, Claim(w)
        PROVE  StageMatchesRow'
    BY <1>3 DEF Claim
  <1>4. ASSUME NEW w \in Procs, Send(w)
        PROVE  StageMatchesRow'
    BY <1>4 DEF Send, Enqueue, HasKey, BatchesHoldPending
  <1>5. ASSUME NEW w \in Procs, SendFails(w)
        PROVE  StageMatchesRow'
    BY <1>5 DEF SendFails
  <1>6. ASSUME NEW w \in Procs, MarkDispatched(w)
        PROVE  StageMatchesRow'
    BY <1>6 DEF MarkDispatched
  <1>7. ASSUME NEW j \in Jobs, GrowStale(j)
        PROVE  StageMatchesRow'
    BY <1>7 DEF GrowStale
  <1>8. CASE RecoverStuck
    BY <1>8 DEF RecoverStuck
  <1>9. ASSUME NEW s \in Slots, NEW w \in Procs, StartDelivery(s, w)
        PROVE  StageMatchesRow'
    BY <1>9 DEF StartDelivery
  <1>10. ASSUME NEW s \in Slots, DiscardDelivery(s)
         PROVE  StageMatchesRow'
    BY <1>10 DEF DiscardDelivery
  <1>11. ASSUME NEW s \in Slots, LoadRow(s)
         PROVE  StageMatchesRow'
    BY <1>11 DEF LoadRow
  <1>12. ASSUME NEW s \in Slots, WorkEnds(s)
         PROVE  StageMatchesRow'
    BY <1>12 DEF WorkEnds
  <1>13. ASSUME NEW s \in Slots, Complete(s)
         PROVE  StageMatchesRow'
    BY <1>13 DEF Complete, OneDelivery
  <1>14. ASSUME NEW s \in Slots, Fail(s)
         PROVE  StageMatchesRow'
    BY <1>14 DEF Fail, OneDelivery
  <1>15. ASSUME NEW s \in Slots, Acknowledge(s)
         PROVE  StageMatchesRow'
    BY <1>15 DEF Acknowledge
  <1>16. ASSUME NEW s \in Slots, TimeOut(s)
         PROVE  StageMatchesRow'
    BY <1>16 DEF TimeOut
  <1>17. ASSUME NEW w \in Procs, Crash(w)
         PROVE  StageMatchesRow'
    BY <1>17, ZenonT(40) DEF Crash, Hosting
  <1>18. CASE UNCHANGED vars
    BY <1>18 DEF vars
  <1>19. QED
    BY <1>2, <1>3, <1>4, <1>5, <1>6, <1>7, <1>8, <1>9, <1>10, <1>11, <1>12, <1>13,
       <1>14, <1>15, <1>16, <1>17, <1>18 DEF Next, Dispatcher, Recovery, Task

\* A run that begins is paid for by a row never run or a delivery lost.
LEMMA RunsStep == IInv /\ [Next]_vars => RunsAccounted'
  <1> SUFFICES ASSUME IInv, [Next]_vars
               PROVE  RunsAccounted'
    OBVIOUS
  <1> USE DEF IInv, TypeOK, RunsAccounted, Delivery, NoDelivery, IsBusy, Waiting, Unsettled, Busy
  <1>2. ASSUME NEW j \in Jobs, EnqueueOutboxJob(j)
        PROVE  RunsAccounted'
    BY <1>2 DEF EnqueueOutboxJob
  <1>3. ASSUME NEW w \in Procs, Claim(w)
        PROVE  RunsAccounted'
    BY <1>3 DEF Claim
  <1>4. ASSUME NEW w \in Procs, Send(w)
        PROVE  RunsAccounted'
    <2>1. PICK j \in batch[w] : Enqueue(j)
      BY <1>4 DEF Send
    <2>2. UNCHANGED <<row, runs, lost>>
      BY <1>4 DEF Send
    <2>3. CASE HasKey(j)
      BY <2>1, <2>2, <2>3 DEF Enqueue
    <2>4. CASE ~HasKey(j)
      <3>1. PICK t \in Slots :
              /\ dlv[t].stage = "free"
              /\ dlv' = [dlv EXCEPT ![t] = [job |-> j, stage |-> "queued",
                                            host |-> NoProc, tries |-> 0]]
        BY <2>1, <2>4 DEF Enqueue
      <3>2. runs[j] <= lost[j]
        BY <2>4 DEF HasKey, BatchesHoldPending
      <3>3. \A k \in Jobs : IsBusy(k)' <=> IsBusy(k)
        BY <3>1
      <3>4. \A k \in Jobs : Waiting(k)' => Waiting(k) \/ k = j
        BY <3>1
      <3> HIDE DEF IsBusy, Waiting
      <3>5. QED
        BY <2>2, <3>2, <3>3, <3>4
    <2>5. QED
      BY <2>3, <2>4
  <1>5. ASSUME NEW w \in Procs, SendFails(w)
        PROVE  RunsAccounted'
    BY <1>5 DEF SendFails
  <1>6. ASSUME NEW w \in Procs, MarkDispatched(w)
        PROVE  RunsAccounted'
    BY <1>6 DEF MarkDispatched
  <1>7. ASSUME NEW j \in Jobs, GrowStale(j)
        PROVE  RunsAccounted'
    BY <1>7 DEF GrowStale
  <1>8. CASE RecoverStuck
    BY <1>8 DEF RecoverStuck
  <1>9. ASSUME NEW s \in Slots, NEW w \in Procs, StartDelivery(s, w)
        PROVE  RunsAccounted'
    BY <1>9 DEF StartDelivery, OneDelivery, StageMatchesRow
  <1>10. ASSUME NEW s \in Slots, DiscardDelivery(s)
         PROVE  RunsAccounted'
    BY <1>10 DEF DiscardDelivery, OneDelivery, StageMatchesRow
  <1>11. ASSUME NEW s \in Slots, LoadRow(s)
         PROVE  RunsAccounted'
    BY <1>11 DEF LoadRow, OneDelivery, StageMatchesRow
  <1>12. ASSUME NEW s \in Slots, WorkEnds(s)
         PROVE  RunsAccounted'
    BY <1>12 DEF WorkEnds, OneDelivery, StageMatchesRow
  <1>13. ASSUME NEW s \in Slots, Complete(s)
         PROVE  RunsAccounted'
    BY <1>13 DEF Complete, OneDelivery, StageMatchesRow
  <1>14. ASSUME NEW s \in Slots, Fail(s)
         PROVE  RunsAccounted'
    BY <1>14 DEF Fail, OneDelivery, StageMatchesRow
  <1>15. ASSUME NEW s \in Slots, Acknowledge(s)
         PROVE  RunsAccounted'
    BY <1>15 DEF Acknowledge, OneDelivery, StageMatchesRow
  <1>16. ASSUME NEW s \in Slots, TimeOut(s)
         PROVE  RunsAccounted'
    BY <1>16 DEF TimeOut, OneDelivery, StageMatchesRow
  <1>17. ASSUME NEW w \in Procs, Crash(w)
         PROVE  RunsAccounted'
    <2> DEFINE Hit(k) == \E s \in Hosting(w) : dlv[s].job = k
    <2>1. UNCHANGED <<row, runs>>
      BY <1>17 DEF Crash
    <2>2. \A k \in Jobs : lost'[k] = IF Hit(k) THEN lost[k] + 1 ELSE lost[k]
      BY <1>17 DEF Crash
    <2>3. \A s \in Slots : dlv'[s] = IF s \in Hosting(w)
                                     THEN [dlv[s] EXCEPT !.stage = "queued", !.host = NoProc]
                                     ELSE dlv[s]
      BY <1>17 DEF Crash
    <2>4. \A k \in Jobs : ~Hit(k) => (IsBusy(k)' <=> IsBusy(k))
      BY <2>3 DEF Hosting, Hosted
    <2>5. \A k \in Jobs : ~Hit(k) => (Waiting(k)' => Waiting(k))
      BY <2>3, ZenonT(40) DEF Hosting, Hosted
    <2> HIDE DEF IsBusy, Waiting, Hit
    <2>6. QED
      BY <2>1, <2>2, <2>4, <2>5
  <1>18. CASE UNCHANGED vars
    BY <1>18 DEF vars
  <1>19. QED
    BY <1>2, <1>3, <1>4, <1>5, <1>6, <1>7, <1>8, <1>9, <1>10, <1>11, <1>12, <1>13,
       <1>14, <1>15, <1>16, <1>17, <1>18 DEF Next, Dispatcher, Recovery, Task

\* Each part of the invariant is kept by every step.
LEMMA InvStep == IInv /\ [Next]_vars => IInv'
  BY TypeStep, OneDeliveryStep, BatchStep, StageStep, RunsStep DEF IInv

\* IInv holds in every reachable state.
LEMMA Invariance == Spec => []IInv
  BY InvInit, InvStep, PTL DEF Spec

--------------------------------------------------------------------------------
(* Safety *)

\* No two deliveries of a row coexist in arq, however often dispatchers, rolled
\* back batches and stuck-recovery hand it over (dispatcher.py, _job_id).
THEOREM DeliveredOnce == Spec => []OneDelivery
  <1>1. IInv => OneDelivery
    BY DEF IInv
  <1>2. QED
    BY <1>1, Invariance, PTL

\* The work of a job begins at most once more than deliveries of it were lost
\* (tasks.py, _run_with_outbox): slow jobs are not run twice.
THEOREM RunsAreBounded == Spec => []RunsBounded
  <1>1. IInv => RunsBounded
    BY DEF IInv, RunsAccounted, RunsBounded
  <1>2. QED
    BY <1>1, Invariance, PTL

CompletedKept == \A j \in Jobs : row[j] = "completed" => row'[j] = "completed"

\* No step rewrites a completed row.
LEMMA CompletedStep == IInv /\ [Next]_vars => CompletedKept
  <1> SUFFICES ASSUME IInv, [Next]_vars
               PROVE  CompletedKept
    OBVIOUS
  <1> USE DEF IInv, TypeOK, Delivery, Busy, StageMatchesRow, CompletedKept
  <1>2. ASSUME NEW j \in Jobs, EnqueueOutboxJob(j)
        PROVE  CompletedKept
    BY <1>2 DEF EnqueueOutboxJob
  <1>3. ASSUME NEW w \in Procs, Claim(w)
        PROVE  CompletedKept
    BY <1>3 DEF Claim
  <1>4. ASSUME NEW w \in Procs, Send(w)
        PROVE  CompletedKept
    BY <1>4 DEF Send
  <1>5. ASSUME NEW w \in Procs, SendFails(w)
        PROVE  CompletedKept
    BY <1>5 DEF SendFails
  <1>6. ASSUME NEW w \in Procs, MarkDispatched(w)
        PROVE  CompletedKept
    BY <1>6 DEF MarkDispatched
  <1>7. ASSUME NEW j \in Jobs, GrowStale(j)
        PROVE  CompletedKept
    BY <1>7 DEF GrowStale
  <1>8. CASE RecoverStuck
    BY <1>8 DEF RecoverStuck
  <1>9. ASSUME NEW s \in Slots, NEW w \in Procs, StartDelivery(s, w)
        PROVE  CompletedKept
    BY <1>9 DEF StartDelivery
  <1>10. ASSUME NEW s \in Slots, DiscardDelivery(s)
         PROVE  CompletedKept
    BY <1>10 DEF DiscardDelivery
  <1>11. ASSUME NEW s \in Slots, LoadRow(s)
         PROVE  CompletedKept
    BY <1>11 DEF LoadRow
  <1>12. ASSUME NEW s \in Slots, WorkEnds(s)
         PROVE  CompletedKept
    BY <1>12 DEF WorkEnds
  <1>13. ASSUME NEW s \in Slots, Complete(s)
         PROVE  CompletedKept
    BY <1>13 DEF Complete
  <1>14. ASSUME NEW s \in Slots, Fail(s)
         PROVE  CompletedKept
    BY <1>14 DEF Fail
  <1>15. ASSUME NEW s \in Slots, Acknowledge(s)
         PROVE  CompletedKept
    BY <1>15 DEF Acknowledge
  <1>16. ASSUME NEW s \in Slots, TimeOut(s)
         PROVE  CompletedKept
    BY <1>16 DEF TimeOut
  <1>17. ASSUME NEW w \in Procs, Crash(w)
         PROVE  CompletedKept
    BY <1>17 DEF Crash
  <1>18. CASE UNCHANGED vars
    BY <1>18 DEF vars
  <1>19. QED
    BY <1>2, <1>3, <1>4, <1>5, <1>6, <1>7, <1>8, <1>9, <1>10, <1>11, <1>12, <1>13,
       <1>14, <1>15, <1>16, <1>17, <1>18 DEF Next, Dispatcher, Recovery, Task

\* A completed row is never taken back (outbox.py: mark_completed and
\* mark_failed test no status; recover_stuck_jobs and mark_dispatched do).
THEOREM CompletionIsFinal == Spec => CompletedIsFinal
  <1>1. IInv /\ [Next]_vars => [CompletedKept]_vars
    BY CompletedStep
  <1>2. QED
    BY <1>1, Invariance, PTL DEF Spec, CompletedIsFinal, CompletedKept

--------------------------------------------------------------------------------
(* PipelineJobs implements JobLedger *)

LedgerFn == [j \in Jobs |-> LedgerOf(j)]
RunningSet == {j \in Jobs : IsBusy(j)}

Refines == [Ledger!LedgerNext]_(Ledger!ledgerVars)

\* A step that moves no job between ledger statuses and begins or ends no run.
LEMMA Stutters ==
    ASSUME \A j \in Jobs : LedgerOf(j)' = LedgerOf(j),
           \A j \in Jobs : IsBusy(j)' <=> IsBusy(j)
    PROVE  Refines
  <1>1. LedgerFn' = LedgerFn
    BY DEF LedgerFn
  <1>2. RunningSet' = RunningSet
    BY DEF RunningSet
  <1>3. QED
    BY <1>1, <1>2 DEF Refines, Ledger!ledgerVars, LedgerFn, RunningSet

\* A step that writes no outcome and begins no run.
LEMMA Abandons ==
    ASSUME LedgerFn' = LedgerFn,
           RunningSet' \subseteq RunningSet
    PROVE  Refines
  <1> DEFINE gone == RunningSet \ RunningSet'
  <1>1. CASE gone = {}
    <2>1. RunningSet' = RunningSet
      BY <1>1
    <2>2. QED
      BY <2>1 DEF Refines, Ledger!ledgerVars, LedgerFn, RunningSet
  <1>2. CASE gone # {}
    <2>1. RunningSet' = RunningSet \ gone
      OBVIOUS
    <2>2. Ledger!Abandon(gone)
      BY <1>2, <2>1 DEF Ledger!Abandon, LedgerFn, RunningSet
    <2>3. gone \in SUBSET RunningSet
      OBVIOUS
    <2>4. QED
      BY <2>2, <2>3 DEF Refines, Ledger!LedgerNext, RunningSet
  <1>3. QED
    BY <1>1, <1>2

\* Every step is a step of the ledger or a stutter.
LEMMA RefinementStep == IInv /\ [Next]_vars => Refines
  <1> SUFFICES ASSUME IInv, [Next]_vars
               PROVE  Refines
    OBVIOUS
  <1> USE DEF IInv, TypeOK
  <1>2. ASSUME NEW j \in Jobs, EnqueueOutboxJob(j)
        PROVE  Refines
    <2>1. LedgerFn' = [LedgerFn EXCEPT ![j] = "owed"]
      BY <1>2 DEF EnqueueOutboxJob, LedgerFn, LedgerOf
    <2>2. RunningSet' = RunningSet
      BY <1>2 DEF EnqueueOutboxJob, RunningSet, IsBusy
    <2>3. LedgerFn[j] = "absent"
      BY <1>2 DEF EnqueueOutboxJob, LedgerFn, LedgerOf
    <2>4. Ledger!Submit(j)
      BY <2>1, <2>2, <2>3 DEF Ledger!Submit, LedgerFn, RunningSet
    <2>5. QED
      BY <2>4 DEF Refines, Ledger!LedgerNext, Ledger!Submit
  <1>3. ASSUME NEW w \in Procs, Claim(w)
        PROVE  Refines
    <2>1. \A j \in Jobs : LedgerOf(j)' = LedgerOf(j)
      BY <1>3 DEF Claim, LedgerOf
    <2>2. \A j \in Jobs : IsBusy(j)' <=> IsBusy(j)
      BY <1>3 DEF Claim, IsBusy
    <2>3. QED
      BY <2>1, <2>2, Stutters
  <1>4. ASSUME NEW w \in Procs, Send(w)
        PROVE  Refines
    <2>1. \A j \in Jobs : LedgerOf(j)' = LedgerOf(j)
      BY <1>4 DEF Send, LedgerOf
    <2>2. PICK j \in batch[w] : Enqueue(j)
      BY <1>4 DEF Send
    <2>3. \A k \in Jobs : IsBusy(k)' <=> IsBusy(k)
      BY <2>2 DEF Enqueue, IsBusy, Busy
    <2>4. QED
      BY <2>1, <2>3, Stutters
  <1>5. ASSUME NEW w \in Procs, SendFails(w)
        PROVE  Refines
    <2>1. \A j \in Jobs : LedgerOf(j)' = LedgerOf(j)
      BY <1>5 DEF SendFails, LedgerOf
    <2>2. \A j \in Jobs : IsBusy(j)' <=> IsBusy(j)
      BY <1>5 DEF SendFails, IsBusy
    <2>3. QED
      BY <2>1, <2>2, Stutters
  <1>6. ASSUME NEW w \in Procs, MarkDispatched(w)
        PROVE  Refines
    <2>1. \A j \in Jobs : LedgerOf(j)' = LedgerOf(j)
      BY <1>6 DEF MarkDispatched, LedgerOf
    <2>2. \A j \in Jobs : IsBusy(j)' <=> IsBusy(j)
      BY <1>6 DEF MarkDispatched, IsBusy
    <2>3. QED
      BY <2>1, <2>2, Stutters
  <1>7. ASSUME NEW k \in Jobs, GrowStale(k)
        PROVE  Refines
    <2>1. \A j \in Jobs : LedgerOf(j)' = LedgerOf(j)
      BY <1>7 DEF GrowStale, LedgerOf
    <2>2. \A j \in Jobs : IsBusy(j)' <=> IsBusy(j)
      BY <1>7 DEF GrowStale, IsBusy
    <2>3. QED
      BY <2>1, <2>2, Stutters
  <1>8. CASE RecoverStuck
    <2>1. \A j \in Jobs : LedgerOf(j)' = LedgerOf(j)
      BY <1>8 DEF RecoverStuck, LedgerOf
    <2>2. \A j \in Jobs : IsBusy(j)' <=> IsBusy(j)
      BY <1>8 DEF RecoverStuck, IsBusy
    <2>3. QED
      BY <2>1, <2>2, Stutters
  <1>9. ASSUME NEW s \in Slots, NEW w \in Procs, StartDelivery(s, w)
        PROVE  Refines
    <2>1. \A j \in Jobs : LedgerOf(j)' = LedgerOf(j)
      BY <1>9 DEF StartDelivery, LedgerOf
    <2>2. \A j \in Jobs : IsBusy(j)' <=> IsBusy(j)
      BY <1>9 DEF StartDelivery, IsBusy, Busy
    <2>3. QED
      BY <2>1, <2>2, Stutters
  <1>10. ASSUME NEW s \in Slots, DiscardDelivery(s)
         PROVE  Refines
    <2>1. \A j \in Jobs : LedgerOf(j)' = LedgerOf(j)
      BY <1>10 DEF DiscardDelivery, LedgerOf
    <2>2. \A j \in Jobs : IsBusy(j)' <=> IsBusy(j)
      BY <1>10 DEF DiscardDelivery, IsBusy, Busy, NoDelivery
    <2>3. QED
      BY <2>1, <2>2, Stutters
  <1>11. ASSUME NEW s \in Slots, LoadRow(s)
         PROVE  Refines
    <2> DEFINE j == dlv[s].job
    <2>1. j \in Jobs /\ row[j] # "absent"
      BY <1>11 DEF LoadRow, StageMatchesRow
    <2>2. LedgerFn' = LedgerFn
      BY <1>11 DEF LoadRow, LedgerFn, LedgerOf
    <2>3. ~IsBusy(j)
      BY <1>11 DEF LoadRow, IsBusy, OneDelivery, Busy
    <2>4. CASE row[j] = "completed"
      <3>1. RunningSet' = RunningSet
        BY <1>11, <2>4 DEF LoadRow, RunningSet, IsBusy, Busy, Delivery
      <3>2. QED
        BY <2>2, <3>1 DEF Refines, Ledger!ledgerVars, LedgerFn, RunningSet
    <2>5. CASE row[j] # "completed"
      <3>1. \A k \in Jobs : IsBusy(k)' <=> IsBusy(k) \/ k = j
        BY <1>11, <2>5, SMTT(30) DEF LoadRow, IsBusy, Busy, Delivery
      <3>2. RunningSet' = RunningSet \union {j}
        BY <2>1, <3>1 DEF RunningSet
      <3>3. LedgerFn[j] \in {"owed", "failed"}
        BY <2>1, <2>5 DEF LedgerFn, LedgerOf, RowStatus
      <3>4. Ledger!Begin(j)
        BY <2>1, <2>2, <2>3, <3>2, <3>3 DEF Ledger!Begin, LedgerFn, RunningSet
      <3>5. QED
        BY <2>1, <3>4 DEF Refines, Ledger!LedgerNext
    <2>6. QED
      BY <2>4, <2>5
  <1>12. ASSUME NEW s \in Slots, WorkEnds(s)
         PROVE  Refines
    <2>1. \A j \in Jobs : LedgerOf(j)' = LedgerOf(j)
      BY <1>12 DEF WorkEnds, LedgerOf
    <2>2. \A j \in Jobs : IsBusy(j)' <=> IsBusy(j)
      BY <1>12 DEF WorkEnds, IsBusy, Busy
    <2>3. QED
      BY <2>1, <2>2, Stutters
  <1>13. ASSUME NEW s \in Slots, Complete(s)
         PROVE  Refines
    <2> DEFINE j == dlv[s].job
    <2>1. j \in Jobs /\ IsBusy(j)
      BY <1>13 DEF Complete, StageMatchesRow, IsBusy, Busy
    <2>2. LedgerFn' = [LedgerFn EXCEPT ![j] = "done"]
      BY <1>13, <2>1 DEF Complete, LedgerFn, LedgerOf
    <2>3. \A k \in Jobs : IsBusy(k)' <=> IsBusy(k) /\ k # j
      BY <1>13 DEF Complete, IsBusy, Busy, Delivery, OneDelivery
    <2>4. RunningSet' = RunningSet \ {j}
      BY <2>1, <2>3 DEF RunningSet
    <2>5. Ledger!Settle(j, "done")
      BY <2>1, <2>2, <2>4 DEF Ledger!Settle, LedgerFn, RunningSet
    <2>6. QED
      BY <2>1, <2>5 DEF Refines, Ledger!LedgerNext
  <1>14. ASSUME NEW s \in Slots, Fail(s)
         PROVE  Refines
    <2> DEFINE j == dlv[s].job
    <2>1. j \in Jobs /\ IsBusy(j)
      BY <1>14 DEF Fail, StageMatchesRow, IsBusy, Busy
    <2>2. LedgerFn' = [LedgerFn EXCEPT ![j] = "failed"]
      BY <1>14, <2>1 DEF Fail, LedgerFn, LedgerOf
    <2>3. \A k \in Jobs : IsBusy(k)' <=> IsBusy(k) /\ k # j
      BY <1>14 DEF Fail, IsBusy, Busy, Delivery, OneDelivery
    <2>4. RunningSet' = RunningSet \ {j}
      BY <2>1, <2>3 DEF RunningSet
    <2>5. Ledger!Settle(j, "failed")
      BY <2>1, <2>2, <2>4 DEF Ledger!Settle, LedgerFn, RunningSet
    <2>6. QED
      BY <2>1, <2>5 DEF Refines, Ledger!LedgerNext
  <1>15. ASSUME NEW s \in Slots, Acknowledge(s)
         PROVE  Refines
    <2>1. \A j \in Jobs : LedgerOf(j)' = LedgerOf(j)
      BY <1>15 DEF Acknowledge, LedgerOf
    <2>2. \A j \in Jobs : IsBusy(j)' <=> IsBusy(j)
      BY <1>15 DEF Acknowledge, IsBusy, Busy, NoDelivery
    <2>3. QED
      BY <2>1, <2>2, Stutters
  <1>16. ASSUME NEW s \in Slots, TimeOut(s)
         PROVE  Refines
    <2>1. LedgerFn' = LedgerFn
      BY <1>16 DEF TimeOut, LedgerFn, LedgerOf
    <2>2. RunningSet' \subseteq RunningSet
      BY <1>16 DEF TimeOut, RunningSet, IsBusy, Busy, NoDelivery
    <2>3. QED
      BY <2>1, <2>2, Abandons
  <1>17. ASSUME NEW w \in Procs, Crash(w)
         PROVE  Refines
    <2>1. LedgerFn' = LedgerFn
      BY <1>17 DEF Crash, LedgerFn, LedgerOf
    <2>2. \A s \in Slots : dlv'[s].stage \in Busy => dlv'[s] = dlv[s]
      BY <1>17 DEF Crash, Delivery, Busy
    <2>3. RunningSet' \subseteq RunningSet
      BY <2>2 DEF RunningSet, IsBusy
    <2>4. QED
      BY <2>1, <2>3, Abandons
  <1>18. CASE UNCHANGED vars
    BY <1>18, Stutters DEF vars, LedgerOf, IsBusy
  <1>19. QED
    BY <1>2, <1>3, <1>4, <1>5, <1>6, <1>7, <1>8, <1>9, <1>10, <1>11, <1>12, <1>13,
       <1>14, <1>15, <1>16, <1>17, <1>18 DEF Next, Dispatcher, Recovery, Task

\* The outbox, its dispatchers, arq and the task wrapper implement the ledger:
\* no overlapping runs of a job, only a run settles it, done is forever.
THEOREM OutboxImplementsLedger == Spec => ImplementsLedger
  <1>1. Init => Ledger!LedgerInit
    BY DEF Init, Ledger!LedgerInit, LedgerOf, IsBusy, NoDelivery, Busy
  <1>2. IInv /\ [Next]_vars => [Ledger!LedgerNext]_(Ledger!ledgerVars)
    BY RefinementStep DEF Refines
  <1>3. QED
    BY <1>1, <1>2, Invariance, PTL DEF Spec, ImplementsLedger, Ledger!LedgerSpec

================================================================================
