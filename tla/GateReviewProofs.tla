---------------------------- MODULE GateReviewProofs ----------------------------
(***************************************************************************)
(* Theorems about GateReview, for any number of jobs, requests and gates,  *)
(* and any set of early operations and faults.  IInv is the inductive      *)
(* invariant; each lemma below shows that a step keeps one of its parts.   *)
(* The last section does the same with OrderlyInv for an orderly review.   *)
(***************************************************************************)
EXTENDS GateReview, FiniteSetTheorems, TLAPS

\* Entering a phase of the graph is a legal checkpoint at that phase.
LEMMA EnterPhaseType ==
  ASSUME thread \in Thread, NEW n \in Gates, EnterPhase(n)
  PROVE  thread' \in Thread /\ thread'.at = "phase"
<1>1. thread' = [at |-> "phase", n |-> n, halt |-> FALSE, seen |-> thread.seen]
  BY DEF Thread, EnterPhase
<1>2. n \in 0 .. LastGate /\ "phase" \in Position
  BY ReviewAssumption DEF Gates, Position
<1>3. thread.seen \in SUBSET Gates
  BY DEF Thread
<1> QED
  BY <1>1, <1>2, <1>3 DEF Thread

\* Pausing at a gate of the graph is a legal checkpoint at that gate.
LEMMA PauseAtType ==
  ASSUME thread \in Thread, NEW n \in Gates, PauseAt(n)
  PROVE  thread' \in Thread /\ thread'.at = "gate" /\ thread'.n = n
<1>1. thread' = [at |-> "gate", n |-> n, halt |-> FALSE, seen |-> thread.seen \union {n}]
  BY DEF Thread, PauseAt
<1>2. n \in 0 .. LastGate /\ "gate" \in Position
  BY ReviewAssumption DEF Gates, Position
<1>3. thread.seen \union {n} \in SUBSET Gates
  BY DEF Thread
<1> QED
  BY <1>1, <1>2, <1>3 DEF Thread

\* Moving one task to a stage leaves the other tasks alone.
LEMMA GotoType ==
  ASSUME task \in [Jobs -> Task], NEW j \in Jobs, NEW stage \in Stage,
         NEW n \in 0 .. LastGate, Goto(j, stage, n)
  PROVE  /\ task' \in [Jobs -> Task]
         /\ task'[j] = [at |-> stage, n |-> n]
         /\ \A k \in Jobs : k # j => task'[k] = task[k]
  BY DEF Task, Goto

\* Finishing a request leaves the other requests alone.
LEMMA FinishType ==
  ASSUME req \in [Requests -> Request], NEW r \in Requests, Finish(r)
  PROVE  /\ req' \in [Requests -> Request]
         /\ req'[r] = IdleRequest
         /\ \A k \in Requests : k # r => req'[k] = req[k]
<1>1. IdleRequest \in Request
  BY ReviewAssumption DEF IdleRequest, Request, Ops
<1> QED
  BY <1>1 DEF Finish

\* A step keeps the types: a gate that is announced exists (NumbersOK).
LEMMA ReviewTypeStep ==
  ASSUME TypeOK, NumbersOK, [Next]_vars
  PROVE  TypeOK'
<1> USE DEF TypeOK, Status, Plain, Paused, Thread, Position, Job, NoJob, Task, Stage,
           Request, Ops, Gates, Outbox!LedgerTypeOK, Outbox!LedgerStatus, envVars,
           jobVars, NumbersOK
<1>1. CASE ProcessCase
  BY <1>1, ReviewAssumption DEF ProcessCase, Start, EnqueueJob, Outbox!Submit
<1>2. CASE RestartCase
  BY <1>2, ReviewAssumption DEF RestartCase, Start, EnqueueJob, Outbox!Submit
<1>3. ASSUME NEW r \in Requests, NEW op \in {"advance", "rerun", "halt", "send_back"},
             ReadPause(r, op)
      PROVE  TypeOK'
  BY <1>3, ReviewAssumption DEF ReadPause, Idle
<1>4. ASSUME NEW r \in Requests,
             ReadProcessing(r)
      PROVE  TypeOK'
  BY <1>4, ReviewAssumption DEF ReadProcessing, Idle
<1>5. ASSUME NEW r \in Requests,
             QueueDecision(r)
      PROVE  TypeOK'
  BY <1>5, ReviewAssumption DEF QueueDecision, Finish, IdleRequest, EnqueueJob,
         Outbox!Submit
<1>6. ASSUME NEW r \in Requests,
             HaltAtGate(r)
      PROVE  TypeOK'
  BY <1>6, ReviewAssumption DEF HaltAtGate, Finish, IdleRequest
<1>7. ASSUME NEW r \in Requests,
             CancelViaHalt(r)
      PROVE  TypeOK'
  <2>1. thread' \in Thread
    <3>1. CASE thread.at = "gate"
      <4>1. thread' = [at |-> "end", n |-> 0, halt |-> TRUE, seen |-> thread.seen]
        BY <1>7, <3>1 DEF CancelViaHalt
      <4> QED
        BY <4>1, ReviewAssumption
    <3>2. CASE thread.at # "gate"
      <4>1. thread' = [at |-> thread.at, n |-> thread.n, halt |-> TRUE, seen |-> thread.seen]
        BY <1>7, <3>2 DEF CancelViaHalt
      <4> QED
        BY <4>1
    <3> QED
      BY <3>1, <3>2
  <2>2. req' \in [Requests -> Request]
    BY <1>7, FinishType DEF CancelViaHalt
  <2> HIDE DEF Thread, Task, Request, Status, Job
  <2> QED
    BY <1>7, <2>1, <2>2 DEF CancelViaHalt
<1>8. ASSUME NEW r \in Requests,
             SendBack(r)
      PROVE  TypeOK'
  <2>1. req[r].n \in Gates
    BY <1>8 DEF SendBack
  <2>2. thread' \in Thread
    BY <1>8, <2>1, EnterPhaseType DEF SendBack
  <2>3. req' \in [Requests -> Request]
    <3>1. CASE req[r].n \in thread.seen
      BY <1>8, <3>1 DEF SendBack
    <3>2. CASE req[r].n \notin thread.seen
      BY <1>8, <3>2, FinishType DEF SendBack
    <3> QED
      BY <3>1, <3>2
  <2> HIDE DEF Thread, Task, Request, Status, Job
  <2> QED
    BY <1>8, <2>2, <2>3 DEF SendBack
<1>9. ASSUME NEW r \in Requests,
             SentBack(r)
      PROVE  TypeOK'
  <2>1. req[r].n \in Gates
    BY <1>9 DEF SentBack
  <2>2. thread' \in Thread
    BY <1>9, <2>1, PauseAtType DEF SentBack
  <2>3. req' \in [Requests -> Request]
    BY <1>9 DEF SentBack
  <2> HIDE DEF Thread, Task, Request, Status, Job
  <2> QED
    BY <1>9, <2>2, <2>3 DEF SentBack
<1>10. ASSUME NEW r \in Requests,
             CommitSendBack(r)
      PROVE  TypeOK'
  BY <1>10, ReviewAssumption DEF CommitSendBack, Finish, IdleRequest
<1>11. ASSUME NEW r \in Requests,
             SendBackRaises(r)
      PROVE  TypeOK'
  BY <1>11, ReviewAssumption DEF SendBackRaises, Fault, Finish, IdleRequest
<1>12. ASSUME NEW i \in Jobs,
             BeginJob(i)
      PROVE  TypeOK'
  BY <1>12, ReviewAssumption DEF BeginJob, Goto, Outbox!Begin
<1>13. ASSUME NEW i \in Jobs,
             StartGraph(i)
      PROVE  TypeOK'
  <2>1. thread' \in Thread
    BY <1>13, EnterPhaseType, ReviewAssumption DEF StartGraph
  <2>2. "driving" \in Stage /\ 1 \in 0 .. LastGate /\ Goto(i, "driving", 1)
    BY <1>13, ReviewAssumption DEF StartGraph
  <2>3. task' \in [Jobs -> Task]
    BY <2>2, GotoType
  <2> HIDE DEF Thread, Task, Request, Status, Job
  <2> QED
    BY <1>13, <2>1, <2>3 DEF StartGraph
<1>14. ASSUME NEW i \in Jobs,
             CheckResume(i)
      PROVE  TypeOK'
  <2>1. \E stage \in Stage, n \in 0 .. LastGate : Goto(i, stage, n)
    BY <1>14, ReviewAssumption DEF CheckResume
  <2>2. task' \in [Jobs -> Task]
    BY <2>1, GotoType, ZenonT(40)
  <2> HIDE DEF Thread, Task, Request, Status, Job
  <2> QED
    BY <1>14, <2>2 DEF CheckResume
<1>15. ASSUME NEW i \in Jobs,
             Resume(i)
      PROVE  TypeOK'
  <2> DEFINE next == IF job[i].action = "advance" THEN task[i].n + 1 ELSE task[i].n
  <2>1. next \in Nat /\ next >= 1
    BY <1>15 DEF Resume
  <2>2. thread' \in Thread /\ task' \in [Jobs -> Task]
    <3>1. CASE next > LastGate
      <4>1. thread' = [at |-> "end", n |-> 0, halt |-> FALSE, seen |-> thread.seen]
        BY <1>15, <3>1 DEF Resume
      <4>2. Goto(i, "outcome", 0)
        BY <1>15, <3>1 DEF Resume
      <4>3. "outcome" \in Stage /\ 0 \in 0 .. LastGate /\ "end" \in Position
        BY ReviewAssumption
      <4>4. thread' \in Thread
        BY <4>1, <4>3
      <4>5. task' \in [Jobs -> Task]
        BY <4>2, <4>3, GotoType
      <4> QED
        BY <4>4, <4>5
    <3>2. CASE ~(next > LastGate)
      <4>1. EnterPhase(next) /\ Goto(i, "driving", next)
        BY <1>15, <3>2 DEF Resume
      <4>2. next \in Gates /\ next \in 0 .. LastGate
        BY <2>1, <3>2, ReviewAssumption
      <4>3. "driving" \in Stage
        OBVIOUS
      <4> HIDE DEF next
      <4>4. thread' \in Thread
        BY <4>1, <4>2, EnterPhaseType
      <4>5. task' \in [Jobs -> Task]
        BY <4>1, <4>2, <4>3, GotoType
      <4> QED
        BY <4>4, <4>5
    <3> QED
      BY <3>1, <3>2
  <2>3. applied' \in [Jobs -> Nat]
    BY <1>15 DEF Resume
  <2> HIDE DEF Thread, Task, Request, Status, Job, next
  <2> QED
    BY <1>15, <2>2, <2>3 DEF Resume
<1>16. ASSUME NEW i \in Jobs,
             PhaseEnds(i)
      PROVE  TypeOK'
  <2>1. thread' \in Thread
    BY <1>16, PauseAtType DEF PhaseEnds
  <2>2. "outcome" \in Stage /\ 0 \in 0 .. LastGate /\ Goto(i, "outcome", 0)
    BY <1>16, ReviewAssumption DEF PhaseEnds
  <2>3. task' \in [Jobs -> Task]
    BY <2>2, GotoType
  <2> HIDE DEF Thread, Task, Request, Status, Job
  <2> QED
    BY <1>16, <2>1, <2>3 DEF PhaseEnds
<1>17. ASSUME NEW i \in Jobs,
             ReadOutcome(i)
      PROVE  TypeOK'
  <2>1. \E stage \in Stage, n \in 0 .. LastGate : Goto(i, stage, n)
    BY <1>17, ReviewAssumption DEF ReadOutcome
  <2>2. task' \in [Jobs -> Task]
    BY <2>1, GotoType, ZenonT(40)
  <2>3. status' \in Status
    BY <1>17 DEF ReadOutcome
  <2>4. flag' \in BOOLEAN
    BY <1>17 DEF ReadOutcome
  <2> HIDE DEF Thread, Task, Request, Status, Job
  <2> QED
    BY <1>17, <2>2, <2>3, <2>4 DEF ReadOutcome
<1>18. ASSUME NEW i \in Jobs,
             Persist(i)
      PROVE  TypeOK'
  BY <1>18, ReviewAssumption DEF Persist, Goto, GraphStatus
<1>19. ASSUME NEW i \in Jobs,
             Publish(i)
      PROVE  TypeOK'
  BY <1>19, ReviewAssumption DEF Publish, Goto
<1>20. ASSUME NEW i \in Jobs,
             SettleJob(i)
      PROVE  TypeOK'
  BY <1>20, ReviewAssumption, SMTT(30) DEF SettleJob, IdleTask, Outbox!Settle
<1>21. ASSUME NEW i \in Jobs,
             GraphRaises(i)
      PROVE  TypeOK'
  <2>1. \E stage \in Stage, n \in 0 .. LastGate : Goto(i, stage, n)
    BY <1>21, ReviewAssumption DEF GraphRaises
  <2>2. task' \in [Jobs -> Task]
    BY <2>1, GotoType, ZenonT(40)
  <2>3. status' \in Status
    BY <1>21 DEF GraphRaises
  <2> HIDE DEF Thread, Task, Request, Status, Job
  <2> QED
    BY <1>21, <2>2, <2>3, ReviewAssumption DEF GraphRaises, Fault
<1>22. ASSUME NEW i \in Jobs,
             UpsertFails(i)
      PROVE  TypeOK'
  BY <1>22, ReviewAssumption DEF UpsertFails, Goto, Fault
<1>23. ASSUME NEW i \in Jobs,
             LoseRun(i)
      PROVE  TypeOK'
  BY <1>23, ReviewAssumption DEF LoseRun, Fault, IdleTask, Outbox!Abandon
<1>24. ASSUME NEW i \in Jobs,
             RedeliverFailed(i)
      PROVE  TypeOK'
  BY <1>24, ReviewAssumption DEF RedeliverFailed, Fault, Goto, Outbox!Begin
<1>25. CASE SelectStuck
  BY <1>25, ReviewAssumption DEF SelectStuck
<1>26. CASE MarkRetryable
  BY <1>26, ReviewAssumption DEF MarkRetryable
<1>27. CASE RetireDomain
  <2>1. active' \in BOOLEAN
    BY <1>27, Zenon DEF RetireDomain
  <2> HIDE DEF Thread, Task, Request, Status, Job
  <2> QED
    BY <1>27, <2>1, ReviewAssumption DEF RetireDomain, Fault
<1>28. CASE UNCHANGED vars
  BY <1>28 DEF vars
<1>29. ASSUME NEW i \in Jobs,
             PersistFails(i)
      PROVE  TypeOK'
  BY <1>29, ReviewAssumption DEF PersistFails, Goto, Fault
<1> QED
  BY <1>1, <1>2, <1>3, <1>4, <1>5, <1>6, <1>7, <1>8, <1>9, <1>10, <1>11, <1>12,
     <1>13, <1>14, <1>15, <1>16, <1>17, <1>18, <1>19, <1>20, <1>21, <1>22, <1>23, <1>24,
     <1>25, <1>26, <1>27, <1>28, <1>29 DEF Next, Handle, Work

\* A step keeps gate numbers within the graph.
LEMMA NumbersStep ==
  ASSUME TypeOK, NumbersOK, [Next]_vars
  PROVE  NumbersOK'
<1> USE DEF TypeOK, Status, Plain, Paused, Thread, Position, Job, NoJob, Task, Stage,
           Request, Ops, Gates, Outbox!LedgerTypeOK, Outbox!LedgerStatus, envVars,
           jobVars, NumbersOK
<1>1. CASE ProcessCase
  BY <1>1, ReviewAssumption DEF ProcessCase, Start, EnqueueJob, Outbox!Submit
<1>2. CASE RestartCase
  BY <1>2, ReviewAssumption DEF RestartCase, Start, EnqueueJob, Outbox!Submit
<1>3. ASSUME NEW r \in Requests, NEW op \in {"advance", "rerun", "halt", "send_back"},
             ReadPause(r, op)
      PROVE  NumbersOK'
  BY <1>3, ReviewAssumption DEF ReadPause, Idle
<1>4. ASSUME NEW r \in Requests,
             ReadProcessing(r)
      PROVE  NumbersOK'
  BY <1>4, ReviewAssumption DEF ReadProcessing, Idle
<1>5. ASSUME NEW r \in Requests,
             QueueDecision(r)
      PROVE  NumbersOK'
  BY <1>5, ReviewAssumption DEF QueueDecision, Finish, IdleRequest, EnqueueJob,
         Outbox!Submit
<1>6. ASSUME NEW r \in Requests,
             HaltAtGate(r)
      PROVE  NumbersOK'
  BY <1>6, ReviewAssumption DEF HaltAtGate, Finish, IdleRequest
<1>7. ASSUME NEW r \in Requests,
             CancelViaHalt(r)
      PROVE  NumbersOK'
  BY <1>7, ReviewAssumption DEF CancelViaHalt, Finish, IdleRequest
<1>8. ASSUME NEW r \in Requests,
             SendBack(r)
      PROVE  NumbersOK'
  <2>1. req[r].n \in Gates
    BY <1>8 DEF SendBack
  <2>2. CASE req[r].n \in thread.seen
    <3>1. EnterPhase(req[r].n) /\ req' = [req EXCEPT ![r].at = "driving"]
      BY <1>8, <2>2 DEF SendBack
    <3>2. thread'.at = "phase"
      BY <3>1 DEF EnterPhase
    <3>3. req[r].op = "send_back" /\ task' = task
      BY <1>8 DEF SendBack
    <3>4. req'[r].op = req[r].op /\ req'[r].n = req[r].n
      BY <3>1
    <3>5. \A k \in Requests : k # r => req'[k] = req[k]
      BY <3>1
    <3> HIDE DEF Gates
    <3> QED
      BY <2>1, <3>2, <3>3, <3>4, <3>5, SMTT(30)
  <2>3. CASE req[r].n \notin thread.seen
    <3>1. Finish(r) /\ thread' = thread /\ task' = task
      BY <1>8, <2>3 DEF SendBack
    <3>2. req'[r] = IdleRequest /\ \A k \in Requests : k # r => req'[k] = req[k]
      BY <3>1 DEF Finish
    <3> HIDE DEF Gates
    <3>3. req'[r].op = "none" /\ req'[r].at = "idle"
      BY <3>2 DEF IdleRequest
    <3> HIDE DEF TypeOK
    <3> QED
      BY <3>1, <3>2, <3>3
  <2> QED
    BY <2>2, <2>3
<1>9. ASSUME NEW r \in Requests,
             SentBack(r)
      PROVE  NumbersOK'
  BY <1>9, ReviewAssumption DEF SentBack, PauseAt
<1>10. ASSUME NEW r \in Requests,
             CommitSendBack(r)
      PROVE  NumbersOK'
  BY <1>10, ReviewAssumption DEF CommitSendBack, Finish, IdleRequest
<1>11. ASSUME NEW r \in Requests,
             SendBackRaises(r)
      PROVE  NumbersOK'
  BY <1>11, ReviewAssumption DEF SendBackRaises, Fault, Finish, IdleRequest
<1>12. ASSUME NEW i \in Jobs,
             BeginJob(i)
      PROVE  NumbersOK'
  BY <1>12, ReviewAssumption DEF BeginJob, Goto, Outbox!Begin
<1>13. ASSUME NEW i \in Jobs,
             StartGraph(i)
      PROVE  NumbersOK'
  BY <1>13, ReviewAssumption DEF StartGraph, Goto, EnterPhase
<1>14. ASSUME NEW i \in Jobs,
             CheckResume(i)
      PROVE  NumbersOK'
  BY <1>14, ReviewAssumption DEF CheckResume, Goto
<1>15. ASSUME NEW i \in Jobs,
             Resume(i)
      PROVE  NumbersOK'
  <2> DEFINE next == IF job[i].action = "advance" THEN task[i].n + 1 ELSE task[i].n
  <2>1. next \in Nat /\ next >= 1
    BY <1>15 DEF Resume
  <2>2. CASE next > LastGate
    <3>1. thread' = [at |-> "end", n |-> 0, halt |-> FALSE, seen |-> thread.seen]
      BY <1>15, <2>2 DEF Resume
    <3>2. Goto(i, "outcome", 0) /\ UNCHANGED req
      BY <1>15, <2>2 DEF Resume
    <3>3. task'[i].at = "outcome" /\ \A k \in Jobs : k # i => task'[k] = task[k]
      BY <3>2 DEF Goto
    <3> HIDE DEF next
    <3> QED
      BY <3>1, <3>2, <3>3
  <2>3. CASE ~(next > LastGate)
    <3>1. EnterPhase(next) /\ Goto(i, "driving", next) /\ UNCHANGED req
      BY <1>15, <2>3 DEF Resume
    <3>2. next \in Gates /\ next \in 0 .. LastGate
      BY <2>1, <2>3, ReviewAssumption
    <3>3. task'[i].n = next /\ \A k \in Jobs : k # i => task'[k] = task[k]
      BY <3>1 DEF Goto
    <3>4. thread'.at = "phase"
      BY <3>1 DEF EnterPhase
    <3> HIDE DEF next
    <3> QED
      BY <3>1, <3>2, <3>3, <3>4
  <2> QED
    BY <2>2, <2>3
<1>16. ASSUME NEW i \in Jobs,
             PhaseEnds(i)
      PROVE  NumbersOK'
  BY <1>16, ReviewAssumption DEF PhaseEnds, Goto, PauseAt
<1>17. ASSUME NEW i \in Jobs,
             ReadOutcome(i)
      PROVE  NumbersOK'
  <2>1. \E stage \in Stage \ {"resuming", "driving", "publishing"}, n \in 0 .. LastGate :
          Goto(i, stage, n)
    <3>1. CASE Goto(i, "returned", 0)
      BY <3>1, ReviewAssumption
    <3>2. CASE thread.at = "gate" /\ Goto(i, "persisting", thread.n)
      BY <3>2, ReviewAssumption
    <3>3. CASE Goto(i, "persisting", 0)
      BY <3>3, ReviewAssumption
    <3>4. CASE Goto(i, IF thread.halt THEN "failing" ELSE "closing", 0)
      <4>1. CASE thread.halt
        BY <3>4, <4>1, ReviewAssumption
      <4>2. CASE ~thread.halt
        BY <3>4, <4>2, ReviewAssumption
      <4> QED
        BY <4>1, <4>2
    <3>5. \/ Goto(i, "returned", 0)
          \/ thread.at = "gate" /\ Goto(i, "persisting", thread.n)
          \/ Goto(i, "persisting", 0)
          \/ Goto(i, IF thread.halt THEN "failing" ELSE "closing", 0)
      <4> HIDE DEF TypeOK, NumbersOK, Stage, Gates
      <4>1. CASE job[i].kind = "pipeline" /\ flag /\ GraphStatus = Plain("processing")
        BY <1>17, <4>1 DEF ReadOutcome
      <4>2. CASE ~(job[i].kind = "pipeline" /\ flag /\ GraphStatus = Plain("processing"))
        BY <1>17, <4>2 DEF ReadOutcome
      <4> QED
        BY <4>1, <4>2
    <3> QED
      BY <3>1, <3>2, <3>3, <3>4, <3>5
  <2>2. UNCHANGED <<thread, req>>
    BY <1>17 DEF ReadOutcome
  <2>3. \E stage \in Stage \ {"resuming", "driving", "publishing"} :
          /\ task'[i].at = stage
          /\ \A k \in Jobs : k # i => task'[k] = task[k]
    BY <2>1 DEF Goto
  <2> QED
    BY <2>2, <2>3
<1>18. ASSUME NEW i \in Jobs,
             Persist(i)
      PROVE  NumbersOK'
  BY <1>18, ReviewAssumption DEF Persist, Goto, GraphStatus
<1>19. ASSUME NEW i \in Jobs,
             Publish(i)
      PROVE  NumbersOK'
  BY <1>19, ReviewAssumption DEF Publish, Goto
<1>20. ASSUME NEW i \in Jobs,
             SettleJob(i)
      PROVE  NumbersOK'
  BY <1>20, ReviewAssumption DEF SettleJob, IdleTask, Outbox!Settle
<1>21. ASSUME NEW i \in Jobs,
             GraphRaises(i)
      PROVE  NumbersOK'
  BY <1>21, ReviewAssumption DEF GraphRaises, Goto, Fault
<1>22. ASSUME NEW i \in Jobs,
             UpsertFails(i)
      PROVE  NumbersOK'
  BY <1>22, ReviewAssumption DEF UpsertFails, Goto, Fault
<1>23. ASSUME NEW i \in Jobs,
             LoseRun(i)
      PROVE  NumbersOK'
  BY <1>23, ReviewAssumption DEF LoseRun, Fault, IdleTask, Outbox!Abandon
<1>24. ASSUME NEW i \in Jobs,
             RedeliverFailed(i)
      PROVE  NumbersOK'
  BY <1>24, ReviewAssumption DEF RedeliverFailed, Fault, Goto, Outbox!Begin
<1>25. CASE SelectStuck
  BY <1>25, ReviewAssumption DEF SelectStuck
<1>26. CASE MarkRetryable
  BY <1>26, ReviewAssumption DEF MarkRetryable
<1>27. CASE RetireDomain
  BY <1>27, ReviewAssumption DEF RetireDomain, Fault
<1>28. CASE UNCHANGED vars
  BY <1>28 DEF vars
<1>29. ASSUME NEW i \in Jobs,
             PersistFails(i)
      PROVE  NumbersOK'
  BY <1>29, ReviewAssumption DEF PersistFails, Goto, Fault
<1> QED
  BY <1>1, <1>2, <1>3, <1>4, <1>5, <1>6, <1>7, <1>8, <1>9, <1>10, <1>11, <1>12,
     <1>13, <1>14, <1>15, <1>16, <1>17, <1>18, <1>19, <1>20, <1>21, <1>22, <1>23, <1>24,
     <1>25, <1>26, <1>27, <1>28, <1>29 DEF Next, Handle, Work

\* The steps that touch no job: requests that do not queue one, the watchdog, and
\* the administrator.
Quiet == UNCHANGED <<ledger, running, job, task, applied, lost>>

\* Every step is quiet, submits a job, or is a step of the worker on one job.
LEMMA StepKinds ==
  ASSUME [Next]_vars
  PROVE  \/ Quiet
         \/ \E payload : EnqueueJob(payload) /\ UNCHANGED <<task, applied, lost>>
         \/ \E i \in Jobs : \/ BeginJob(i) \/ StartGraph(i) \/ CheckResume(i) \/ Resume(i)
                            \/ PhaseEnds(i) \/ ReadOutcome(i) \/ Persist(i) \/ Publish(i)
                            \/ SettleJob(i) \/ GraphRaises(i) \/ PersistFails(i)
                            \/ UpsertFails(i) \/ LoseRun(i) \/ RedeliverFailed(i)
<1>1. CASE ProcessCase \/ RestartCase
  BY <1>1 DEF ProcessCase, RestartCase, Start, envVars
<1>2. ASSUME NEW r \in Requests, NEW op \in {"advance", "rerun", "halt", "send_back"},
             ReadPause(r, op)
      PROVE  Quiet
  BY <1>2 DEF Quiet, ReadPause, envVars, jobVars
<1>3. ASSUME NEW r \in Requests, ReadProcessing(r)
      PROVE  Quiet
  BY <1>3 DEF Quiet, ReadProcessing, envVars, jobVars
<1>4. ASSUME NEW r \in Requests, QueueDecision(r)
      PROVE  \E payload : EnqueueJob(payload) /\ UNCHANGED <<task, applied, lost>>
  BY <1>4 DEF QueueDecision, envVars
<1>5. ASSUME NEW r \in Requests, HaltAtGate(r) \/ CancelViaHalt(r)
      PROVE  Quiet
  BY <1>5 DEF Quiet, HaltAtGate, CancelViaHalt, envVars, jobVars
<1>6. ASSUME NEW r \in Requests,
             SendBack(r) \/ SentBack(r) \/ CommitSendBack(r) \/ SendBackRaises(r)
      PROVE  Quiet
  BY <1>6 DEF Quiet, SendBack, SentBack, CommitSendBack, SendBackRaises, envVars, jobVars
<1>7. CASE SelectStuck \/ MarkRetryable \/ RetireDomain
  BY <1>7 DEF Quiet, SelectStuck, MarkRetryable, RetireDomain, envVars, jobVars
<1>8. CASE UNCHANGED vars
  BY <1>8 DEF Quiet, vars
<1> QED
  BY <1>1, <1>2, <1>3, <1>4, <1>5, <1>6, <1>7, <1>8 DEF Next, Handle, Work

\* A step keeps the progress of the workers in agreement with the ledger.
LEMMA TasksStep ==
  ASSUME TypeOK, TasksRun, [Next]_vars
  PROVE  TasksRun'
<1> USE DEF TypeOK, Task, Job, NoJob, Outbox!LedgerTypeOK, TasksRun
<1>1. CASE Quiet
  BY <1>1 DEF Quiet
<1>2. ASSUME NEW payload, EnqueueJob(payload), UNCHANGED <<task, applied, lost>>
      PROVE  TasksRun'
  BY <1>2 DEF EnqueueJob, Outbox!Submit
<1>3. ASSUME NEW i \in Jobs, BeginJob(i)
      PROVE  TasksRun'
  BY <1>3 DEF BeginJob, Goto, Outbox!Begin, envVars
<1>4. ASSUME NEW i \in Jobs, StartGraph(i)
      PROVE  TasksRun'
  BY <1>4 DEF StartGraph, Goto, envVars, jobVars
<1>5. ASSUME NEW i \in Jobs, CheckResume(i)
      PROVE  TasksRun'
  BY <1>5 DEF CheckResume, Goto, envVars, jobVars
<1>6. ASSUME NEW i \in Jobs, Resume(i)
      PROVE  TasksRun'
  BY <1>6 DEF Resume, Goto, envVars, jobVars
<1>7. ASSUME NEW i \in Jobs, PhaseEnds(i)
      PROVE  TasksRun'
  BY <1>7 DEF PhaseEnds, Goto, envVars, jobVars
<1>8. ASSUME NEW i \in Jobs, ReadOutcome(i)
      PROVE  TasksRun'
  BY <1>8 DEF ReadOutcome, Goto, envVars, jobVars
<1>9. ASSUME NEW i \in Jobs, Persist(i)
      PROVE  TasksRun'
  BY <1>9 DEF Persist, Goto, envVars, jobVars
<1>10. ASSUME NEW i \in Jobs, Publish(i)
      PROVE  TasksRun'
  BY <1>10 DEF Publish, Goto, envVars, jobVars
<1>11. ASSUME NEW i \in Jobs, SettleJob(i)
      PROVE  TasksRun'
  BY <1>11 DEF SettleJob, IdleTask, Outbox!Settle, envVars
<1>12. ASSUME NEW i \in Jobs, GraphRaises(i)
      PROVE  TasksRun'
  <2>1. PICK stage \in {"returned", "raised"} : Goto(i, stage, 0)
    BY <1>12 DEF GraphRaises
  <2>2. task[i].at = "driving" /\ UNCHANGED <<ledger, running>>
    BY <1>12 DEF GraphRaises, jobVars
  <2> QED
    BY <2>1, <2>2 DEF Goto
<1>13. ASSUME NEW i \in Jobs, PersistFails(i)
      PROVE  TasksRun'
  BY <1>13 DEF PersistFails, Goto, jobVars
<1>14. ASSUME NEW i \in Jobs, UpsertFails(i)
      PROVE  TasksRun'
  BY <1>14 DEF UpsertFails, Goto, jobVars
<1>15. ASSUME NEW i \in Jobs, LoseRun(i)
      PROVE  TasksRun'
  BY <1>15 DEF LoseRun, IdleTask, Outbox!Abandon
<1>16. ASSUME NEW i \in Jobs, RedeliverFailed(i)
      PROVE  TasksRun'
  BY <1>16 DEF RedeliverFailed, Goto, Outbox!Begin
<1> QED
  BY StepKinds, <1>1, <1>2, <1>3, <1>4, <1>5, <1>6, <1>7, <1>8,
     <1>9, <1>10, <1>11, <1>12, <1>13, <1>14, <1>15, <1>16

\* A step keeps the account of applied decisions.
LEMMA AccountsStep ==
  ASSUME TypeOK, TasksRun, RunsAccounted, [Next]_vars
  PROVE  RunsAccounted'
<1> USE DEF TypeOK, Task, Job, NoJob, Outbox!LedgerTypeOK, TasksRun, RunsAccounted, Undecided, Decided
<1>1. CASE Quiet
  BY <1>1 DEF Quiet
<1>2. ASSUME NEW payload, EnqueueJob(payload), UNCHANGED <<task, applied, lost>>
      PROVE  RunsAccounted'
  BY <1>2 DEF EnqueueJob, Outbox!Submit
<1>3. ASSUME NEW i \in Jobs, BeginJob(i)
      PROVE  RunsAccounted'
  BY <1>3 DEF BeginJob, Goto, Outbox!Begin, envVars
<1>4. ASSUME NEW i \in Jobs, StartGraph(i)
      PROVE  RunsAccounted'
  BY <1>4 DEF StartGraph, Goto, envVars, jobVars
<1>5. ASSUME NEW i \in Jobs, CheckResume(i)
      PROVE  RunsAccounted'
  BY <1>5 DEF CheckResume, Goto, envVars, jobVars
<1>6. ASSUME NEW i \in Jobs, Resume(i)
      PROVE  RunsAccounted'
  BY <1>6 DEF Resume, Goto, envVars, jobVars
<1>7. ASSUME NEW i \in Jobs, PhaseEnds(i)
      PROVE  RunsAccounted'
  BY <1>7 DEF PhaseEnds, Goto, envVars, jobVars
<1>8. ASSUME NEW i \in Jobs, ReadOutcome(i)
      PROVE  RunsAccounted'
  BY <1>8 DEF ReadOutcome, Goto, envVars, jobVars
<1>9. ASSUME NEW i \in Jobs, Persist(i)
      PROVE  RunsAccounted'
  BY <1>9 DEF Persist, Goto, envVars, jobVars
<1>10. ASSUME NEW i \in Jobs, Publish(i)
      PROVE  RunsAccounted'
  BY <1>10 DEF Publish, Goto, envVars, jobVars
<1>11. ASSUME NEW i \in Jobs, SettleJob(i)
      PROVE  RunsAccounted'
  BY <1>11 DEF SettleJob, IdleTask, Outbox!Settle, envVars
<1>12. ASSUME NEW i \in Jobs, GraphRaises(i)
      PROVE  RunsAccounted'
  BY <1>12 DEF GraphRaises, Goto, jobVars
<1>13. ASSUME NEW i \in Jobs, PersistFails(i)
      PROVE  RunsAccounted'
  BY <1>13 DEF PersistFails, Goto, jobVars
<1>14. ASSUME NEW i \in Jobs, UpsertFails(i)
      PROVE  RunsAccounted'
  BY <1>14 DEF UpsertFails, Goto, jobVars
<1>15. ASSUME NEW i \in Jobs, LoseRun(i)
      PROVE  RunsAccounted'
  BY <1>15 DEF LoseRun, IdleTask, Outbox!Abandon
<1>16. ASSUME NEW i \in Jobs, RedeliverFailed(i)
      PROVE  RunsAccounted'
  BY <1>16 DEF RedeliverFailed, Goto, Outbox!Begin
<1> QED
  BY StepKinds, <1>1, <1>2, <1>3, <1>4, <1>5, <1>6, <1>7, <1>8,
     <1>9, <1>10, <1>11, <1>12, <1>13, <1>14, <1>15, <1>16

\* Moving one task, with the thread and the row as they were or better, keeps
\* PausesSeen if the stage it moves to carries no unseen gate.
LEMMA GotoSeen ==
  ASSUME task \in [Jobs -> Task], PausesSeen,
         NEW i \in Jobs, NEW stage, NEW n, Goto(i, stage, n),
         \/ stage \notin {"resuming", "publishing", "persisting", "failing", "closing"}
         \/ stage \in {"persisting", "failing", "closing"} /\ n = 0
         \/ n \in thread'.seen,
         thread.seen \subseteq thread'.seen,
         thread'.at = "gate" => thread'.n \in thread'.seen,
         status' = status \/ \A g \in Gates : status' = Paused(g) => g \in thread'.seen
  PROVE  PausesSeen'
<1>1. task'[i] = [at |-> stage, n |-> n] /\ \A k \in Jobs : k # i => task'[k] = task[k]
  BY DEF Goto, Task
<1>2. \A g \in Gates : status' = Paused(g) => g \in thread'.seen
  BY DEF PausesSeen, Paused
<1>3. \A k \in Jobs : task'[k].at \in {"resuming", "publishing"} => task'[k].n \in thread'.seen
  BY <1>1 DEF PausesSeen
<1>4. \A k \in Jobs : task'[k].at \in {"persisting", "failing", "closing"} /\ task'[k].n # 0
                      => task'[k].n \in thread'.seen
  BY <1>1 DEF PausesSeen
<1> QED
  BY <1>2, <1>3, <1>4 DEF PausesSeen, Paused

\* A step keeps the pauses that are on their way to the row among those the
\* thread has made: checkpoints are added and never taken back.
LEMMA PausesStep ==
  ASSUME TypeOK, NumbersOK, PausesSeen, [Next]_vars
  PROVE  PausesSeen'
<1> USE DEF TypeOK, Thread, Task, Request, Plain, Paused, NumbersOK, PausesSeen
<1>1. CASE ProcessCase \/ RestartCase
  BY <1>1 DEF ProcessCase, RestartCase, Start
<1>2. ASSUME NEW r \in Requests, NEW op \in {"advance", "rerun", "halt", "send_back"},
             ReadPause(r, op)
      PROVE  PausesSeen'
  BY <1>2 DEF ReadPause
<1>3. ASSUME NEW r \in Requests, ReadProcessing(r)
      PROVE  PausesSeen'
  BY <1>3 DEF ReadProcessing
<1>4. ASSUME NEW r \in Requests, QueueDecision(r) \/ HaltAtGate(r)
      PROVE  PausesSeen'
  BY <1>4 DEF QueueDecision, HaltAtGate
<1>5. ASSUME NEW r \in Requests, CancelViaHalt(r)
      PROVE  PausesSeen'
  BY <1>5 DEF CancelViaHalt
<1>6. ASSUME NEW r \in Requests, SendBack(r)
      PROVE  PausesSeen'
  BY <1>6 DEF SendBack, EnterPhase
<1>7. ASSUME NEW r \in Requests, SentBack(r)
      PROVE  PausesSeen'
  BY <1>7 DEF SentBack, PauseAt
<1>8. ASSUME NEW r \in Requests, CommitSendBack(r)
      PROVE  PausesSeen'
  BY <1>8 DEF CommitSendBack
<1>9. ASSUME NEW r \in Requests, SendBackRaises(r)
      PROVE  PausesSeen'
  BY <1>9 DEF SendBackRaises
<1>10. ASSUME NEW i \in Jobs, BeginJob(i) \/ RedeliverFailed(i)
      PROVE  PausesSeen'
  <2>1. Goto(i, "starting", 0) /\ UNCHANGED <<thread, status>>
    BY <1>10 DEF BeginJob, RedeliverFailed
  <2> HIDE DEF PausesSeen, Task, TypeOK
  <2>2. task \in [Jobs -> Task] /\ (thread.at = "gate" => thread.n \in thread.seen)
    BY DEF TypeOK, PausesSeen
  <2> QED
    BY <2>1, <2>2, GotoSeen
<1>11. ASSUME NEW i \in Jobs, StartGraph(i)
      PROVE  PausesSeen'
  BY <1>11 DEF StartGraph, Goto, EnterPhase
<1>12. ASSUME NEW i \in Jobs, CheckResume(i)
      PROVE  PausesSeen'
  BY <1>12, SMTT(30) DEF CheckResume, Goto
<1>13. ASSUME NEW i \in Jobs, Resume(i)
      PROVE  PausesSeen'
  <2>1. \E stage \in {"outcome", "driving"} : \E n : Goto(i, stage, n)
    <3> DEFINE next == IF job[i].action = "advance" THEN task[i].n + 1 ELSE task[i].n
    <3>1. Goto(i, "outcome", 0) \/ Goto(i, "driving", next)
      BY <1>13 DEF Resume
    <3> QED
      BY <3>1
  <2>2. thread'.at # "gate" /\ thread'.seen = thread.seen /\ status' = status
    BY <1>13 DEF Resume, EnterPhase
  <2> HIDE DEF PausesSeen, Task, TypeOK
  <2>3. task \in [Jobs -> Task]
    BY DEF TypeOK
  <2> QED
    BY <2>1, <2>2, <2>3, GotoSeen
<1>14. ASSUME NEW i \in Jobs, PhaseEnds(i)
      PROVE  PausesSeen'
  BY <1>14 DEF PhaseEnds, Goto, PauseAt
<1>15. ASSUME NEW i \in Jobs, ReadOutcome(i)
      PROVE  PausesSeen'
  <2>1. UNCHANGED thread /\ (status' = status \/ \A g \in Gates : status' # Paused(g))
    BY <1>15 DEF ReadOutcome
  <2>2. \/ Goto(i, "returned", 0)
        \/ thread.at = "gate" /\ Goto(i, "persisting", thread.n)
        \/ Goto(i, "persisting", 0)
        \/ \E stage \in {"failing", "closing"} : Goto(i, stage, 0)
    <3> HIDE DEF TypeOK, NumbersOK, PausesSeen, Thread, Task, Request
    <3>1. CASE job[i].kind = "pipeline" /\ flag /\ GraphStatus = Plain("processing")
      BY <1>15, <3>1 DEF ReadOutcome
    <3>2. CASE ~(job[i].kind = "pipeline" /\ flag /\ GraphStatus = Plain("processing"))
      BY <1>15, <3>2 DEF ReadOutcome
    <3> QED
      BY <3>1, <3>2
  <2>3. task \in [Jobs -> Task] /\ (thread.at = "gate" => thread.n \in thread.seen)
    OBVIOUS
  <2> HIDE DEF PausesSeen, Task, TypeOK
  <2>4. CASE thread.at = "gate" /\ Goto(i, "persisting", thread.n)
    BY <2>1, <2>3, <2>4, GotoSeen
  <2>5. ASSUME NEW stage \in {"returned", "persisting", "failing", "closing"}, Goto(i, stage, 0)
        PROVE  PausesSeen'
    BY <2>1, <2>3, <2>5, GotoSeen
  <2> QED
    BY <2>2, <2>4, <2>5
<1>16. ASSUME NEW i \in Jobs, Persist(i)
      PROVE  PausesSeen'
  <2>1. UNCHANGED thread /\ \A g \in Gates : status' # Paused(g)
    BY <1>16 DEF Persist, GraphStatus
  <2>2. CASE task[i].n # 0
    <3>1. Goto(i, "publishing", task[i].n) /\ task[i].n \in thread.seen
      BY <1>16, <2>2 DEF Persist
    <3> HIDE DEF PausesSeen, Task, TypeOK
    <3>2. task \in [Jobs -> Task] /\ (thread.at = "gate" => thread.n \in thread.seen)
      BY DEF TypeOK, PausesSeen
    <3> QED
      BY <2>1, <3>1, <3>2, GotoSeen
  <2>3. CASE task[i].n = 0
    <3>1. Goto(i, "returned", 0)
      BY <1>16, <2>3 DEF Persist
    <3> HIDE DEF PausesSeen, Task, TypeOK
    <3>2. task \in [Jobs -> Task] /\ (thread.at = "gate" => thread.n \in thread.seen)
      BY DEF TypeOK, PausesSeen
    <3> QED
      BY <2>1, <3>1, <3>2, GotoSeen
  <2> QED
    BY <2>2, <2>3
<1>17. ASSUME NEW i \in Jobs, Publish(i)
      PROVE  PausesSeen'
  BY <1>17 DEF Publish, Goto
<1>18. ASSUME NEW i \in Jobs, SettleJob(i) \/ LoseRun(i)
      PROVE  PausesSeen'
  BY <1>18, SMTT(30) DEF SettleJob, LoseRun, IdleTask
<1>19. ASSUME NEW i \in Jobs, GraphRaises(i)
      PROVE  PausesSeen'
  <2>1. PICK stage \in {"returned", "raised"} : Goto(i, stage, 0)
    BY <1>19 DEF GraphRaises
  <2>2. UNCHANGED thread /\ (status' = status \/ \A g \in Gates : status' # Paused(g))
    BY <1>19 DEF GraphRaises
  <2> HIDE DEF PausesSeen, Task, TypeOK
  <2>3. task \in [Jobs -> Task] /\ (thread.at = "gate" => thread.n \in thread.seen)
    BY DEF TypeOK, PausesSeen
  <2> QED
    BY <2>1, <2>2, <2>3, GotoSeen
<1>20. ASSUME NEW i \in Jobs, PersistFails(i) \/ UpsertFails(i)
      PROVE  PausesSeen'
  <2>1. PICK stage \in {"returned", "raised"} : Goto(i, stage, 0)
    BY <1>20 DEF PersistFails, UpsertFails
  <2>2. UNCHANGED <<thread, status>>
    BY <1>20 DEF PersistFails, UpsertFails
  <2> HIDE DEF PausesSeen, Task, TypeOK
  <2>3. task \in [Jobs -> Task] /\ (thread.at = "gate" => thread.n \in thread.seen)
    BY DEF TypeOK, PausesSeen
  <2> QED
    BY <2>1, <2>2, <2>3, GotoSeen
<1>21. CASE SelectStuck \/ MarkRetryable \/ RetireDomain
  BY <1>21 DEF SelectStuck, MarkRetryable, RetireDomain
<1>22. CASE UNCHANGED vars
  BY <1>22 DEF vars
<1> QED
  BY <1>1, <1>2, <1>3, <1>4, <1>5, <1>6, <1>7, <1>8, <1>9, <1>10, <1>11, <1>12, <1>13,
     <1>14, <1>15, <1>16, <1>17, <1>18, <1>19, <1>20, <1>21, <1>22 DEF Next, Handle, Work

\* If the thread makes no new pause, the order stands as long as who begins to drive has the
\* gates before it behind.
LEMMA OrderStays ==
  ASSUME GatesInOrder, thread'.seen = thread.seen,
         \A j \in Jobs : task'[j].at = "driving" =>
            task'[j] = task[j] \/ 1 .. task'[j].n - 1 \subseteq thread.seen,
         \A r \in Requests : req'[r].at = "driving" => req'[r] = req[r] \/ req'[r].n \in thread.seen
  PROVE  GatesInOrder'
  BY DEF GatesInOrder

\* A step of a worker that does not begin to drive.
LEMMA GotoInOrder ==
  ASSUME task \in [Jobs -> Task], GatesInOrder, thread'.seen = thread.seen, req' = req,
         NEW j \in Jobs, NEW stage, stage # "driving", NEW n, Goto(j, stage, n)
  PROVE  GatesInOrder'
<1>1. task'[j].at = stage /\ \A k \in Jobs : k # j => task'[k] = task[k]
  BY DEF Goto, Task
<1> QED
  BY <1>1, OrderStays

\* A step keeps the gates in order: a run begins at phase 1, a decision leads to the phase
\* of its gate or the next one, and a send_back to a gate the thread has paused at.
LEMMA OrderStep ==
  ASSUME TypeOK, NumbersOK, PausesSeen, GatesInOrder, [Next]_vars
  PROVE  GatesInOrder'
<1>0. /\ task \in [Jobs -> Task] /\ req \in [Requests -> Request]
      /\ thread \in Thread /\ thread.seen \subseteq Gates
  BY DEF TypeOK, Thread
<1>1. CASE ProcessCase \/ RestartCase \/ SelectStuck \/ MarkRetryable \/ RetireDomain
  <2>1. UNCHANGED <<thread, task, req>>
    BY <1>1 DEF ProcessCase, RestartCase, Start, SelectStuck, MarkRetryable, RetireDomain
  <2> QED
    BY <2>1, OrderStays
<1>2. ASSUME NEW r \in Requests, NEW op \in {"advance", "rerun", "halt", "send_back"},
             ReadPause(r, op) \/ ReadProcessing(r)
      PROVE  GatesInOrder'
  <2>1. UNCHANGED <<thread, task>> /\ \E x : x.at = "read" /\ req' = [req EXCEPT ![r] = x]
    BY <1>2 DEF ReadPause, ReadProcessing
  <2>2. \A q \in Requests : req'[q].at = "driving" => req'[q] = req[q]
    BY <1>0, <2>1
  <2> QED
    BY <2>1, <2>2, OrderStays
<1>3. ASSUME NEW r \in Requests, Finish(r), thread'.seen = thread.seen, task' = task
      PROVE  GatesInOrder'
  <2>1. \A q \in Requests : req'[q].at = "driving" => req'[q] = req[q]
    BY <1>0, <1>3, FinishType DEF IdleRequest
  <2> QED
    BY <1>3, <2>1, OrderStays
<1>4. ASSUME NEW r \in Requests, QueueDecision(r) \/ HaltAtGate(r) \/ CommitSendBack(r) \/ SendBackRaises(r)
      PROVE  GatesInOrder'
  BY <1>3, <1>4 DEF QueueDecision, HaltAtGate, CommitSendBack, SendBackRaises
<1>5. ASSUME NEW r \in Requests, CancelViaHalt(r)
      PROVE  GatesInOrder'
  <2>1. thread'.seen = thread.seen
    BY <1>0, <1>5 DEF CancelViaHalt, Thread
  <2> QED
    BY <1>3, <1>5, <2>1 DEF CancelViaHalt
<1>6. ASSUME NEW r \in Requests, SendBack(r)
      PROVE  GatesInOrder'
  <2>1. thread'.seen = thread.seen /\ task' = task
    BY <1>0, <1>6 DEF SendBack, EnterPhase, Thread
  <2>2. CASE req[r].n \in thread.seen
    <3>1. req' = [req EXCEPT ![r].at = "driving"]
      BY <1>6, <2>2 DEF SendBack
    <3>2. req'[r].n = req[r].n /\ \A q \in Requests : q # r => req'[q] = req[q]
      BY <1>0, <3>1 DEF Request
    <3> QED
      BY <2>1, <2>2, <3>2, OrderStays
  <2>3. CASE req[r].n \notin thread.seen
    BY <1>3, <1>6, <2>1, <2>3 DEF SendBack
  <2> QED
    BY <2>2, <2>3
<1>7. ASSUME NEW r \in Requests, SentBack(r)
      PROVE  GatesInOrder'
  <2>1. req[r].n \in thread.seen /\ PauseAt(req[r].n) /\ task' = task
    BY <1>7 DEF SentBack, GatesInOrder
  <2>2. thread'.seen = thread.seen
    BY <1>0, <2>1 DEF PauseAt, Thread
  <2>3. req' = [req EXCEPT ![r].at = "paused"]
    BY <1>7 DEF SentBack
  <2>4. \A q \in Requests : req'[q].at = "driving" => req'[q] = req[q]
    BY <1>0, <2>3 DEF Request
  <2> QED
    BY <2>1, <2>2, <2>4, OrderStays
<1>8. ASSUME NEW j \in Jobs, BeginJob(j) \/ RedeliverFailed(j)
      PROVE  GatesInOrder'
  <2>1. Goto(j, "starting", 0) /\ UNCHANGED <<thread, req>>
    BY <1>8 DEF BeginJob, RedeliverFailed
  <2> QED
    BY <1>0, <2>1, GotoInOrder
<1>9. ASSUME NEW j \in Jobs, NEW n \in Nat, Goto(j, "driving", n), EnterPhase(n), req' = req,
             1 .. n - 1 \subseteq thread.seen
      PROVE  GatesInOrder'
  <2>1. thread'.seen = thread.seen
    BY <1>0, <1>9 DEF EnterPhase, Thread
  <2>2. task'[j].n = n /\ \A k \in Jobs : k # j => task'[k] = task[k]
    BY <1>0, <1>9 DEF Goto, Task
  <2> QED
    BY <1>9, <2>1, <2>2, OrderStays
<1>10. ASSUME NEW j \in Jobs, StartGraph(j)
       PROVE  GatesInOrder'
  <2>1. EnterPhase(1) /\ Goto(j, "driving", 1) /\ req' = req
    BY <1>10 DEF StartGraph
  <2>2. 1 .. 1 - 1 \subseteq thread.seen
    OBVIOUS
  <2> QED
    BY <1>9, <2>1, <2>2
<1>11. ASSUME NEW j \in Jobs, CheckResume(j)
       PROVE  GatesInOrder'
  <2>1. PICK stage \in {"refused", "raised", "resuming"} : \E n : Goto(j, stage, n)
    BY <1>11 DEF CheckResume
  <2>2. UNCHANGED <<thread, req>>
    BY <1>11 DEF CheckResume
  <2> QED
    BY <1>0, <2>1, <2>2, GotoInOrder
<1>12. ASSUME NEW j \in Jobs, Resume(j)
       PROVE  GatesInOrder'
  <2>1. /\ task[j].at = "resuming" /\ task[j].n \in Gates /\ task[j].n \in thread.seen
        /\ req' = req
    BY <1>12 DEF Resume, NumbersOK, PausesSeen
  <2>2. 1 .. task[j].n \subseteq thread.seen
    BY <2>1 DEF GatesInOrder
  <2>3. PICK n \in {task[j].n, task[j].n + 1} :
          IF n > LastGate
          THEN /\ thread' = [thread EXCEPT !.at = "end", !.n = 0, !.halt = FALSE]
               /\ Goto(j, "outcome", 0)
          ELSE EnterPhase(n) /\ Goto(j, "driving", n)
    <3> DEFINE next == IF job[j].action = "advance" THEN task[j].n + 1 ELSE task[j].n
    <3>1. next \in {task[j].n, task[j].n + 1}
      OBVIOUS
    <3>2. IF next > LastGate
          THEN /\ thread' = [thread EXCEPT !.at = "end", !.n = 0, !.halt = FALSE]
               /\ Goto(j, "outcome", 0)
          ELSE EnterPhase(next) /\ Goto(j, "driving", next)
      BY <1>12 DEF Resume
    <3> QED
      BY <3>1, <3>2
  <2>4. n \in Nat /\ 1 .. n - 1 \subseteq 1 .. task[j].n
    BY <2>1, ReviewAssumption DEF Gates
  <2>5. CASE n > LastGate
    <3>1. thread'.seen = thread.seen /\ Goto(j, "outcome", 0)
      BY <1>0, <2>3, <2>5 DEF Thread
    <3> QED
      BY <1>0, <2>1, <3>1, GotoInOrder
  <2>6. CASE ~ (n > LastGate)
    BY <1>9, <2>1, <2>2, <2>3, <2>4, <2>6
  <2> QED
    BY <2>5, <2>6
<1>13. ASSUME NEW j \in Jobs, PhaseEnds(j)
       PROVE  GatesInOrder'
  <2>1. /\ PauseAt(task[j].n) /\ Goto(j, "outcome", 0) /\ req' = req
        /\ task[j].n \in Gates /\ 1 .. task[j].n - 1 \subseteq thread.seen
    BY <1>13 DEF PhaseEnds, NumbersOK, GatesInOrder
  <2>2. thread'.seen = thread.seen \union {task[j].n}
    BY <1>0, <2>1 DEF PauseAt, Thread
  <2>3. task'[j].at = "outcome" /\ \A k \in Jobs : k # j => task'[k] = task[k]
    BY <1>0, <2>1 DEF Goto, Task
  <2>4. 1 .. task[j].n \subseteq thread'.seen
    BY <2>1, <2>2, ReviewAssumption DEF Gates
  <2>5. \A g \in thread'.seen : 1 .. g \subseteq thread'.seen
    BY <2>2, <2>4 DEF GatesInOrder
  <2> QED
    BY <2>1, <2>2, <2>3, <2>5 DEF GatesInOrder
<1>14. ASSUME NEW j \in Jobs, ReadOutcome(j) \/ Persist(j) \/ Publish(j) \/ PersistFails(j)
                               \/ UpsertFails(j) \/ GraphRaises(j)
       PROVE  GatesInOrder'
  <2>1. UNCHANGED <<thread, req>>
    BY <1>14 DEF ReadOutcome, Persist, Publish, PersistFails, UpsertFails, GraphRaises
  <2>2. PICK stage \in {"returned", "raised", "persisting", "failing", "closing", "publishing"} :
           \E n : Goto(j, stage, n)
    BY <1>14, SMTT(30) DEF ReadOutcome, Persist, Publish, PersistFails, UpsertFails, GraphRaises
  <2> QED
    BY <1>0, <2>1, <2>2, GotoInOrder
<1>15. ASSUME NEW j \in Jobs, SettleJob(j) \/ LoseRun(j)
       PROVE  GatesInOrder'
  <2>1. UNCHANGED <<thread, req>> /\ task' = [task EXCEPT ![j] = IdleTask]
    BY <1>15 DEF SettleJob, LoseRun
  <2>2. task'[j].at = "idle" /\ \A k \in Jobs : k # j => task'[k] = task[k]
    BY <1>0, <2>1 DEF IdleTask
  <2> QED
    BY <2>1, <2>2, OrderStays
<1>16. CASE UNCHANGED vars
  <2>1. UNCHANGED <<thread, task, req>>
    BY <1>16 DEF vars
  <2> QED
    BY <2>1, OrderStays
<1> QED
  BY <1>1, <1>2, <1>4, <1>5, <1>6, <1>7, <1>8, <1>10, <1>11, <1>12, <1>13, <1>14, <1>15, <1>16
     DEF Next, Handle, Work

\* IInv holds in every reachable state.
LEMMA ReviewInvariant == Spec => []IInv
<1>1. Init => IInv
  <2> SUFFICES ASSUME Init PROVE IInv
    OBVIOUS
  <2> USE DEF Init, NoJob, IdleTask, IdleRequest, Plain, Paused, Outbox!LedgerInit
  <2>1. TypeOK
    <3>1. 0 \in 0 .. LastGate /\ 0 \in 0 .. MaxFaults
      BY ReviewAssumption
    <3>2. status \in Status
      BY DEF Status
    <3>3. thread \in Thread
      BY <3>1 DEF Thread, Position
    <3>4. Outbox!LedgerTypeOK
      BY DEF Outbox!LedgerTypeOK, Outbox!LedgerStatus
    <3>5. job \in [Jobs -> Job] /\ task \in [Jobs -> Task] /\ req \in [Requests -> Request]
      BY <3>1 DEF Job, Task, Stage, Request
    <3> QED
      BY <3>1, <3>2, <3>3, <3>4, <3>5 DEF TypeOK
  <2>2. NumbersOK /\ TasksRun /\ PausesSeen /\ GatesInOrder
    BY DEF NumbersOK, TasksRun, PausesSeen, GatesInOrder
  <2>3. RunsAccounted
    BY DEF RunsAccounted, Undecided, Decided
  <2> QED
    BY <2>1, <2>2, <2>3 DEF IInv
<1>2. IInv /\ [Next]_vars => IInv'
  BY ReviewTypeStep, NumbersStep, TasksStep, AccountsStep, PausesStep, OrderStep DEF IInv
<1> QED
  BY <1>1, <1>2, PTL DEF Spec

\* Statuses, checkpoints, payloads and the progress of jobs and requests are
\* always legal; in particular no run enters a phase the graph does not have.
THEOREM ReviewTypeCorrect == Spec => []TypeOK
<1>1. IInv => TypeOK
  BY DEF IInv
<1> QED
  BY <1>1, ReviewInvariant, PTL

\* A decision is applied at most once more than runs of its job were lost, and a
\* completed gate_run row has applied its decision: whatever requests, workers,
\* cancellations and the watchdog do in between (drive_resume, _run_with_outbox).
THEOREM DecisionsAreAccounted == Spec => []DecisionsAccounted
<1>1. IInv => DecisionsAccounted
  BY DEF IInv, RunsAccounted, DecisionsAccounted
<1> QED
  BY <1>1, ReviewInvariant, PTL

\* A pause the row announces, or a job resumes from, did happen on the thread, after one at
\* every gate before it: for any number of clients, drivers that overwrite each other, runs
\* that are lost and sends back, no gate is skipped (publish_interrupt, send_back_to_phase).
THEOREM PausesHappened == Spec => []PauseHappened
<1>1. IInv => PauseHappened
  <2> SUFFICES ASSUME IInv PROVE PauseHappened
    OBVIOUS
  <2>1. \A g \in thread.seen : 1 .. g \subseteq thread.seen
    BY DEF IInv, GatesInOrder
  <2>2. \A j \in Jobs : task[j].at = "resuming" => task[j].n \in thread.seen
    BY DEF IInv, PausesSeen
  <2>3. \A g \in Gates : status = Paused(g) => g \in thread.seen
    BY DEF IInv, PausesSeen
  <2> QED
    BY <2>1, <2>2, <2>3 DEF PauseHappened
<1> QED
  BY <1>1, ReviewInvariant, PTL


--------------------------------------------------------------------------------
(* Orderly review: one decision at a time (because there is one client, or   *)
(* because clients wait for the case to be at rest; any number may cancel), a *)
(* case that is not started while it is still being run, a watchdog that      *)
(* waits for the jobs, and no run that dies.  GateReview_redelivered shows    *)
(* that the last condition is needed.                                         *)

Orderly == /\ \/ \A a, b \in Requests : a = b
              \/ Early \cap {"advance", "rerun", "halt", "send_back"} = {}
           /\ Early \cap {"process", "watchdog"} = {}
           /\ "loss" \notin Faults

\* While no job is owed or running nothing can still touch the case.
LEMMA AtRest ==
  ASSUME TasksRun, ~ Working
  PROVE  \A i \in Jobs : ~ Live(i)
  BY DEF TasksRun, Working, Live, Queued, Busy

\* A request that acts on a pause finds the case at rest.
LEMMA PausedAtRest ==
  ASSUME LiveAlone, NEW g, status = Paused(g)
  PROVE  \A i \in Jobs : ~ Live(i)
  BY DEF LiveAlone, Plain, Paused

\* The same for a request that has read the pause.
LEMMA RequestAtRest ==
  ASSUME LiveAlone, ReadsStand, NEW r \in Requests,
         req[r].op \in {"advance", "rerun", "halt", "send_back"}
  PROVE  status = Paused(req[r].gate) /\ \A i \in Jobs : ~ Live(i)
  BY PausedAtRest DEF ReadsStand

\* A case that may be restarted is at rest.
LEMMA RestartAtRest ==
  ASSUME LiveAlone, status \in Restartable
  PROVE  \A i \in Jobs : ~ Live(i)
  BY DEF LiveAlone, Restartable, Plain

\* With nothing live, one submission makes one job live.
LEMMA SubmitAlone ==
  ASSUME TypeOK, \A i \in Jobs : ~ Live(i), NEW payload, EnqueueJob(payload),
         UNCHANGED task, status' = Plain("processing")
  PROVE  LiveAlone'
  BY DEF TypeOK, Outbox!LedgerTypeOK, EnqueueJob, Outbox!Submit, Live, Queued, Busy, LiveAlone

\* A step that makes no job live and leaves the status keeps LiveAlone.
LEMMA StayAlone ==
  ASSUME LiveAlone, UNCHANGED status, \A i \in Jobs : Live(i)' => Live(i)
  PROVE  LiveAlone'
  BY DEF LiveAlone

\* The stage of one task changes, and nothing of the ledger.
LEMMA GotoLive ==
  ASSUME task \in [Jobs -> Task], NEW j \in Jobs, NEW stage, NEW n, Goto(j, stage, n),
         UNCHANGED jobVars
  PROVE  /\ \A i \in Jobs : i # j => (Live(i)' <=> Live(i))
         /\ task[j].at \in Busy => Live(j)
         /\ Live(j)' => stage \in Busy \/ Queued(j)
  BY DEF Goto, Live, Queued, Task, jobVars

\* A step of a running task of the ledger is a step of a job that is live.
LEMMA BusyNotQueued ==
  ASSUME TasksRun, NEW j \in Jobs, task[j].at # "idle"
  PROVE  ~ Queued(j)
  BY DEF TasksRun, Queued

\* A step keeps the last live job alone.
LEMMA AloneStep ==
  ASSUME Orderly, IInv, LiveAlone, ReadsStand, GatesStand, [Next]_vars
  PROVE  LiveAlone'
<1> USE DEF IInv
<1>0. task \in [Jobs -> Task]
  BY DEF TypeOK
<1>1. CASE ProcessCase
  BY <1>1, AtRest, SubmitAlone DEF ProcessCase, Start, MayCome, Outstanding, Orderly
<1>2. CASE RestartCase
  BY <1>2, RestartAtRest, SubmitAlone DEF RestartCase, Start
<1>3. ASSUME NEW r \in Requests, NEW op, ReadPause(r, op)
      PROVE  LiveAlone'
  BY <1>3, StayAlone DEF ReadPause, jobVars, Live, Queued
<1>4. ASSUME NEW r \in Requests, ReadProcessing(r) \/ CancelViaHalt(r) \/ SendBack(r) \/ SentBack(r)
      PROVE  LiveAlone'
  BY <1>4, StayAlone DEF ReadProcessing, CancelViaHalt, SendBack, SentBack, jobVars, Live, Queued
<1>5. ASSUME NEW r \in Requests, QueueDecision(r)
      PROVE  LiveAlone'
  BY <1>5, RequestAtRest, SubmitAlone DEF QueueDecision
<1>6. ASSUME NEW r \in Requests, HaltAtGate(r) \/ CommitSendBack(r)
      PROVE  LiveAlone'
  <2>1. req[r].op \in {"halt", "send_back"}
    BY <1>6 DEF HaltAtGate, CommitSendBack, NumbersOK
  <2>2. \A i \in Jobs : ~ Live(i)
    BY <2>1, RequestAtRest
  <2>3. UNCHANGED <<jobVars, task>>
    BY <1>6 DEF HaltAtGate, CommitSendBack
  <2> QED
    BY <2>2, <2>3 DEF LiveAlone, Live, Queued, jobVars
<1>7. ASSUME NEW i \in Jobs, BeginJob(i)
      PROVE  LiveAlone'
  <2>1. \A j \in Jobs : Live(j)' => Live(j)
    BY <1>0, <1>7 DEF BeginJob, Goto, Outbox!Begin, Live, Queued, Task
  <2> QED
    BY <1>7, <2>1, StayAlone DEF BeginJob
<1>8. ASSUME NEW i \in Jobs, StartGraph(i) \/ CheckResume(i) \/ Resume(i) \/ PhaseEnds(i)
      PROVE  LiveAlone'
  <2>1. task[i].at \in Busy /\ UNCHANGED <<jobVars, status>>
    BY <1>8 DEF StartGraph, CheckResume, Resume, PhaseEnds, Busy
  <2>2. PICK stage, n : Goto(i, stage, n)
    BY <1>8 DEF StartGraph, CheckResume, Resume, PhaseEnds
  <2> QED
    BY <1>0, <2>1, <2>2, GotoLive, StayAlone
<1>9. ASSUME NEW i \in Jobs, ReadOutcome(i)
      PROVE  LiveAlone'
  <2>1. ~ (GraphStatus = Plain("processing"))
    BY DEF GraphStatus, Plain
  <2>2. task[i].at \in Busy /\ UNCHANGED <<jobVars, status>>
    BY <1>9, <2>1 DEF ReadOutcome, Busy
  <2>3. PICK stage, n : Goto(i, stage, n)
    BY <1>9, <2>1 DEF ReadOutcome
  <2> QED
    BY <1>0, <2>2, <2>3, GotoLive, StayAlone
<1>10. ASSUME NEW i \in Jobs, Persist(i)
      PROVE  LiveAlone'
  <2>1. task[i].at \in {"persisting", "failing", "closing"} /\ task[i].at \in Busy /\ UNCHANGED jobVars
    BY <1>10 DEF Persist, Busy
  <2>2. Live(i) /\ ~ Queued(i)
    BY <2>1, BusyNotQueued DEF Live, Busy
  <2>3. \A j \in Jobs : j # i => ~ Live(j)
    BY <2>2 DEF LiveAlone
  <2>4. PICK stage : stage \in {"publishing", "returned"} /\ Goto(i, stage, task[i].n)
    BY <1>10 DEF Persist
  <2>5. \A j \in Jobs : j # i => ~ Live(j)'
    BY <1>0, <2>1, <2>3, <2>4, GotoLive
  <2>6. CASE task[i].n # 0
    <3>1. status' = Plain("pending")
      BY <1>10, <2>1, <2>6 DEF Persist, GraphStatus, GatesStand
    <3> QED
      BY <2>5, <3>1 DEF LiveAlone
  <2>7. CASE task[i].n = 0
    <3>1. Goto(i, "returned", 0)
      BY <1>10, <2>7 DEF Persist
    <3>2. ~ Live(i)'
      BY <1>0, <2>1, <2>2, <3>1, GotoLive DEF Busy
    <3> QED
      BY <2>5, <3>2 DEF LiveAlone
  <2> QED
    BY <2>6, <2>7
<1>11. ASSUME NEW i \in Jobs, Publish(i)
      PROVE  LiveAlone'
  <2>1. task[i].at \in Busy /\ task[i].at # "idle" /\ Goto(i, "returned", 0) /\ UNCHANGED jobVars
    BY <1>11 DEF Publish, Busy
  <2>2. Live(i) /\ ~ Queued(i) /\ "returned" \notin Busy
    BY <2>1, BusyNotQueued DEF Live, Busy
  <2>3. \A j \in Jobs : ~ Live(j)'
    BY <1>0, <2>1, <2>2, GotoLive DEF LiveAlone
  <2> QED
    BY <2>3 DEF LiveAlone
<1>12. ASSUME NEW i \in Jobs, SettleJob(i)
      PROVE  LiveAlone'
  <2>1. \A j \in Jobs : Live(j)' => Live(j)
    BY <1>0, <1>12 DEF SettleJob, IdleTask, Outbox!Settle, Live, Queued, Busy, Task, TypeOK,
                       Outbox!LedgerTypeOK
  <2> QED
    BY <1>12, <2>1, StayAlone DEF SettleJob
<1>13. ASSUME NEW i \in Jobs, PersistFails(i) \/ UpsertFails(i)
      PROVE  LiveAlone'
  <2>1. task[i].at \in Busy /\ UNCHANGED <<jobVars, status>>
    BY <1>13 DEF PersistFails, UpsertFails, Busy
  <2>2. PICK stage : Goto(i, stage, 0)
    BY <1>13 DEF PersistFails, UpsertFails
  <2> QED
    BY <1>0, <2>1, <2>2, GotoLive, StayAlone
<1>14. ASSUME NEW i \in Jobs, LoseRun(i) \/ RedeliverFailed(i)
      PROVE  FALSE
  BY <1>14 DEF LoseRun, RedeliverFailed, Fault, Orderly
<1>15. ASSUME NEW r \in Requests, SendBackRaises(r)
      PROVE  LiveAlone'
  BY <1>15, StayAlone DEF SendBackRaises, jobVars, Live, Queued
<1>18. ASSUME NEW i \in Jobs, GraphRaises(i)
      PROVE  LiveAlone'
  <2>1. task[i].at \in Busy /\ task[i].at # "idle" /\ UNCHANGED jobVars
    BY <1>18 DEF GraphRaises, Busy
  <2>2. PICK stage \in {"returned", "raised"} : Goto(i, stage, 0)
    BY <1>18 DEF GraphRaises
  <2>3. Live(i) /\ ~ Queued(i) /\ stage \notin Busy
    BY <2>1, BusyNotQueued DEF Live, Busy
  <2>4. \A j \in Jobs : ~ Live(j)'
    BY <1>0, <2>1, <2>2, <2>3, GotoLive DEF LiveAlone
  <2> QED
    BY <2>4 DEF LiveAlone
<1>16. CASE SelectStuck \/ RetireDomain \/ UNCHANGED vars
  BY <1>16, StayAlone DEF SelectStuck, RetireDomain, vars, jobVars, Live, Queued
<1>17. CASE MarkRetryable
  <2>1. (\A i \in Jobs : ~ Live(i)) /\ UNCHANGED <<jobVars, task>>
    BY <1>17, AtRest DEF MarkRetryable, ReadsStand
  <2> QED
    BY <2>1 DEF LiveAlone, Live, Queued, jobVars
<1> QED
  BY <1>1, <1>2, <1>3, <1>4, <1>5, <1>6, <1>7, <1>8, <1>9, <1>10, <1>11, <1>12, <1>13,
     <1>14, <1>15, <1>16, <1>17, <1>18 DEF Next, Handle, Work

\* A job that is live excludes a request that acts on a pause, and a pick.
LEMMA LiveExcludes ==
  ASSUME IInv, LiveAlone, ReadsStand, NEW j \in Jobs, Live(j)
  PROVE  /\ \A r \in Requests : req[r].op \notin {"advance", "rerun", "halt", "send_back"}
         /\ \A r \in Requests : req[r].at \notin {"driving", "paused"}
         /\ ~ picked
         /\ \A g : status # Paused(g)
         /\ \A i \in Jobs : i # j => ~ Live(i)
<1>1. \A r \in Requests : req[r].op \notin {"advance", "rerun", "halt", "send_back"}
  BY RequestAtRest
<1>2. \A r \in Requests : req[r].at \notin {"driving", "paused"}
  BY <1>1 DEF IInv, NumbersOK
<1>3. Working
  <2>1. Queued(j) \/ task[j].at # "idle"
    BY DEF Live, Busy
  <2> QED
    BY <2>1 DEF IInv, TasksRun, Working, Queued
<1>4. ~ picked
  BY <1>3 DEF ReadsStand
<1>5. \A g : status # Paused(g)
  BY PausedAtRest
<1>6. \A i \in Jobs : i # j => ~ Live(i)
  BY DEF LiveAlone
<1> QED
  BY <1>1, <1>2, <1>4, <1>5, <1>6

\* A step keeps a request that acts on a pause the only one.
LEMMA DecidesStep ==
  ASSUME Orderly, IInv, DecidesAlone, ReadsStand, [Next]_vars
  PROVE  DecidesAlone'
<1>0. req \in [Requests -> Request]
  BY DEF IInv, TypeOK
<1>1. CASE \A a, b \in Requests : a = b
  BY <1>1 DEF DecidesAlone
<1>2. ASSUME NEW r \in Requests, NEW op \in {"advance", "rerun", "halt", "send_back"}, ReadPause(r, op),
             Early \cap {"advance", "rerun", "halt", "send_back"} = {}
      PROVE  DecidesAlone'
  <2>1. \A k \in Requests : req[k].op = "none"
    BY <1>2 DEF ReadPause, MayCome, Outstanding
  <2>2. \A k \in Requests : k # r => req'[k] = req[k]
    BY <1>0, <1>2 DEF ReadPause
  <2> QED
    BY <2>1, <2>2 DEF DecidesAlone
<1>3. ASSUME NEW r \in Requests, ReadProcessing(r)
      PROVE  DecidesAlone'
  <2>1. \A k \in Requests : req[k].op \notin {"advance", "rerun", "halt", "send_back"}
    BY <1>3 DEF ReadProcessing, ReadsStand, Plain, Paused
  <2>2. \A k \in Requests : req'[k] = req[k] \/ req'[k].op = "cancel"
    BY <1>0, <1>3 DEF ReadProcessing
  <2> QED
    BY <2>1, <2>2 DEF DecidesAlone
<1>4. ASSUME \A k \in Requests : req'[k].op \in {req[k].op, "none"}
      PROVE  DecidesAlone'
  BY <1>4 DEF DecidesAlone
<1>5. ASSUME NEW r \in Requests, Handle(r) \/ SendBackRaises(r)
      PROVE  DecidesAlone'
  <2>1. \/ Finish(r)
        \/ req' = [req EXCEPT ![r].at = "driving"]
        \/ req' = [req EXCEPT ![r].at = "paused"]
    BY <1>5 DEF Handle, SendBackRaises, QueueDecision, HaltAtGate, CancelViaHalt, SendBack, SentBack,
                CommitSendBack
  <2>2. \A k \in Requests : req'[k].op \in {req[k].op, "none"}
    BY <1>0, <2>1 DEF Finish, IdleRequest, Request
  <2> QED
    BY <1>4, <2>2
<1>6. CASE UNCHANGED req
  BY <1>4, <1>6
<1>7. ASSUME NEW j \in Jobs,
             \/ Work(j) \/ GraphRaises(j) \/ PersistFails(j) \/ UpsertFails(j) \/ LoseRun(j)
             \/ RedeliverFailed(j)
      PROVE  UNCHANGED req
  BY <1>7 DEF Work, BeginJob, StartGraph, CheckResume, Resume, PhaseEnds, ReadOutcome, Persist, Publish,
              SettleJob, GraphRaises, PersistFails, UpsertFails, LoseRun, RedeliverFailed
<1>8. ASSUME ProcessCase \/ RestartCase \/ SelectStuck \/ MarkRetryable \/ RetireDomain \/ UNCHANGED vars
      PROVE  UNCHANGED req
  BY <1>8 DEF ProcessCase, RestartCase, Start, SelectStuck, MarkRetryable, RetireDomain, vars
<1> QED
  BY <1>1, <1>2, <1>3, <1>5, <1>6, <1>7, <1>8 DEF Orderly, Next

\* A step keeps what a request and the watchdog have read.
LEMMA ReadsStep ==
  ASSUME Orderly, IInv, DecidesAlone, LiveAlone, ReadsStand, GatesStand, [Next]_vars
  PROVE  ReadsStand'
<1> USE DEF IInv
<1>0. req \in [Requests -> Request]
  BY DEF TypeOK
<1>a. ASSUME NEW r \in Requests, req[r].op # "none", NEW k \in Requests, k # r
      PROVE  /\ req[k].op \notin {"advance", "rerun", "halt", "send_back"}
             /\ req[k].at \notin {"driving", "paused"}
  BY <1>a DEF DecidesAlone, NumbersOK
<1>b. ASSUME NEW r \in Requests, req[r].op # "none", Finish(r)
      PROVE  \A k \in Requests : /\ req'[k].op \notin {"advance", "rerun", "halt", "send_back"}
                                  /\ req'[k].at \notin {"driving", "paused"}
  <2>1. req'[r] = IdleRequest /\ \A k \in Requests : k # r => req'[k] = req[k]
    BY <1>0, <1>b DEF Finish
  <2> QED
    BY <1>a, <1>b, <2>1 DEF IdleRequest
<1>1. CASE ProcessCase \/ RestartCase
  <2>1. status # Plain("processing") /\ \A g : status # Paused(g)
    BY <1>1 DEF ProcessCase, RestartCase, Start, Startable, Restartable, Plain, Paused
  <2>2. ~ picked /\ \A r \in Requests : req[r].op \notin {"advance", "rerun", "halt", "send_back"}
    BY <2>1 DEF ReadsStand
  <2>3. \A r \in Requests : req[r].at \notin {"driving", "paused"}
    BY <2>2 DEF NumbersOK
  <2>4. UNCHANGED <<req, picked>>
    BY <1>1 DEF ProcessCase, RestartCase, Start
  <2> QED
    BY <2>2, <2>3, <2>4 DEF ReadsStand
<1>2. ASSUME NEW r \in Requests, NEW op, ReadPause(r, op)
      PROVE  ReadsStand'
  <2>1. PICK g, n : /\ g \in Gates
                    /\ status = Paused(g)
                    /\ req' = [req EXCEPT ![r] = [op |-> op, at |-> "read", gate |-> g, n |-> n]]
    BY <1>2 DEF ReadPause
  <2>2. ~ picked
    BY <2>1 DEF ReadsStand, Plain, Paused
  <2>3. UNCHANGED <<status, thread, picked>>
    BY <1>2 DEF ReadPause
  <2> QED
    BY <1>0, <2>1, <2>2, <2>3 DEF ReadsStand
<1>3. ASSUME NEW r \in Requests, ReadProcessing(r)
      PROVE  ReadsStand'
  <2>1. UNCHANGED <<status, thread, picked, jobVars>>
    BY <1>3 DEF ReadProcessing
  <2> QED
    BY <1>0, <1>3, <2>1 DEF ReadProcessing, ReadsStand, Working, jobVars
<1>4. ASSUME NEW r \in Requests,
             QueueDecision(r) \/ HaltAtGate(r) \/ CommitSendBack(r) \/ SendBackRaises(r)
      PROVE  ReadsStand'
  <2>1. req[r].op \in {"advance", "rerun", "halt", "send_back"}
    BY <1>4 DEF QueueDecision, HaltAtGate, CommitSendBack, SendBackRaises, NumbersOK
  <2>2. ~ picked
    BY <2>1 DEF ReadsStand, Plain, Paused
  <2>3. Finish(r) /\ UNCHANGED picked
    BY <1>4 DEF QueueDecision, HaltAtGate, CommitSendBack, SendBackRaises
  <2> QED
    BY <1>b, <2>1, <2>2, <2>3 DEF ReadsStand
<1>5. ASSUME NEW r \in Requests, CancelViaHalt(r)
      PROVE  ReadsStand'
  <2>1. req[r].op # "none" /\ Finish(r) /\ UNCHANGED <<status, picked, jobVars>>
    BY <1>5 DEF CancelViaHalt
  <2> QED
    BY <1>b, <2>1 DEF ReadsStand, Working, jobVars
<1>6. ASSUME NEW r \in Requests, SendBack(r)
      PROVE  ReadsStand'
  <2>1. req[r].op = "send_back" /\ UNCHANGED <<status, picked, jobVars>>
    BY <1>6 DEF SendBack
  <2>2. CASE req[r].n \in thread.seen
    <3>1. req' = [req EXCEPT ![r].at = "driving"] /\ thread'.at = "phase"
      BY <1>0, <1>6, <2>2 DEF SendBack, EnterPhase, TypeOK, Thread
    <3>2. \A k \in Requests : /\ req'[k].op = req[k].op /\ req'[k].gate = req[k].gate
                              /\ req'[k].at # "paused"
      BY <1>0, <1>a, <2>1, <3>1 DEF Request
    <3> QED
      BY <2>1, <3>1, <3>2 DEF ReadsStand, Working, jobVars
  <2>3. CASE req[r].n \notin thread.seen
    <3>1. Finish(r)
      BY <1>6, <2>3 DEF SendBack
    <3> QED
      BY <1>b, <2>1, <3>1 DEF ReadsStand, Working, jobVars
  <2> QED
    BY <2>2, <2>3
<1>7. ASSUME NEW r \in Requests, SentBack(r)
      PROVE  ReadsStand'
  <2>1. req[r].op = "send_back" /\ UNCHANGED <<status, picked, jobVars>>
    BY <1>7 DEF SentBack, NumbersOK
  <2>2. req' = [req EXCEPT ![r].at = "paused"] /\ PauseAt(req[r].n)
    BY <1>7 DEF SentBack
  <2>3. thread'.at = "gate" /\ thread'.n = req[r].n
    BY <1>7, <2>2, PauseAtType DEF TypeOK, NumbersOK, SentBack
  <2>4. \A k \in Requests : req'[k].op = req[k].op /\ req'[k].gate = req[k].gate /\ req'[k].n = req[k].n
    BY <1>0, <2>2 DEF Request
  <2>5. req'[r].at = "paused" /\ \A k \in Requests : k # r => req'[k].at \notin {"driving", "paused"}
    BY <1>0, <1>a, <2>1, <2>2 DEF Request
  <2> QED
    BY <2>1, <2>3, <2>4, <2>5 DEF ReadsStand, Working, jobVars
<1>8. ASSUME NEW i \in Jobs, Live(i), UNCHANGED <<req, picked>>
      PROVE  ReadsStand'
  BY <1>8, LiveExcludes DEF ReadsStand
<1>9. ASSUME NEW i \in Jobs,
             \/ BeginJob(i) \/ StartGraph(i) \/ CheckResume(i) \/ Resume(i) \/ PhaseEnds(i)
             \/ ReadOutcome(i) \/ Persist(i) \/ Publish(i) \/ PersistFails(i) \/ UpsertFails(i)
             \/ GraphRaises(i)
      PROVE  ReadsStand'
  <2>1. UNCHANGED <<req, picked>>
    BY <1>9 DEF BeginJob, StartGraph, CheckResume, Resume, PhaseEnds, ReadOutcome, Persist, Publish,
                PersistFails, UpsertFails, GraphRaises
  <2>2. Live(i)
    BY <1>9 DEF BeginJob, StartGraph, CheckResume, Resume, PhaseEnds, ReadOutcome, Persist, Publish,
                PersistFails, UpsertFails, GraphRaises, Live, Queued, Busy, Outbox!Begin
  <2> QED
    BY <1>8, <2>1, <2>2
<1>10. ASSUME NEW i \in Jobs, SettleJob(i)
      PROVE  ReadsStand'
  <2>1. Working
    BY <1>10 DEF SettleJob, Outbox!Settle, Working
  <2>2. ~ picked /\ UNCHANGED <<status, thread, req, picked>>
    BY <1>10, <2>1 DEF SettleJob, ReadsStand
  <2> QED
    BY <2>2 DEF ReadsStand
<1>11. ASSUME NEW i \in Jobs, LoseRun(i) \/ RedeliverFailed(i)
      PROVE  FALSE
  BY <1>11 DEF LoseRun, RedeliverFailed, Fault, Orderly
<1>13. CASE RetireDomain \/ UNCHANGED vars
  BY <1>13 DEF RetireDomain, vars, jobVars, ReadsStand, Working
<1>14. CASE SelectStuck
  <2>1. ~ Working /\ status = Plain("processing") /\ UNCHANGED <<status, thread, req, jobVars>>
    BY <1>14 DEF SelectStuck, Orderly
  <2> QED
    BY <2>1 DEF ReadsStand, Working, jobVars
<1>15. CASE MarkRetryable
  <2>1. status = Plain("processing") /\ ~ picked' /\ UNCHANGED <<req, thread>>
    BY <1>15 DEF MarkRetryable, ReadsStand
  <2>2. \A r \in Requests : req[r].op \notin {"advance", "rerun", "halt", "send_back"}
    BY <2>1 DEF ReadsStand, Plain, Paused
  <2>3. \A r \in Requests : req[r].at \notin {"driving", "paused"}
    BY <2>2 DEF NumbersOK
  <2> QED
    BY <2>1, <2>2, <2>3 DEF ReadsStand
<1> QED
  BY <1>1, <1>2, <1>3, <1>4, <1>5, <1>6, <1>7, <1>9, <1>10, <1>11, <1>13,
     <1>14, <1>15 DEF Next, Handle, Work

\* A step that changes no task, payload or ledger row and leaves the thread alone.
LEMMA GatesKept ==
  ASSUME GatesStand, UNCHANGED <<thread, task, jobVars>>
  PROVE  GatesStand'
  BY DEF GatesStand, Queued, jobVars

\* A new row is for the gate at which the thread pauses, or starts the case anew.
LEMMA GatesSubmit ==
  ASSUME TypeOK, TasksRun, GatesStand, NEW payload \in Job, EnqueueJob(payload),
         UNCHANGED <<thread, task>>,
         payload.kind = "gate_run" /\ thread.at = "gate" => thread.n = payload.gate
  PROVE  GatesStand'
<1>1. PICK j \in Jobs : /\ Outbox!Submit(j)
                        /\ job' = [job EXCEPT ![j] = payload]
  BY DEF EnqueueJob
<1>2. j \notin running /\ task[j].at = "idle"
  BY <1>1 DEF Outbox!Submit, TasksRun
<1>3. \A k \in Jobs : k # j => job'[k] = job[k] /\ (Queued(k)' <=> Queued(k))
  BY <1>1 DEF TypeOK, Outbox!LedgerTypeOK, Outbox!Submit, Queued
<1>4. job'[j] = payload
  BY <1>1 DEF TypeOK
<1> QED
  BY <1>2, <1>3, <1>4 DEF GatesStand

\* Only the job that moves carries a gate: the others are at rest.
LEMMA GatesMoved ==
  ASSUME TypeOK, NEW i \in Jobs, \A j \in Jobs : j # i => ~ Live(j), ~ Queued(i),
         NEW stage, NEW n, Goto(i, stage, n), UNCHANGED jobVars,
         thread'.at = "gate" => ~ thread'.halt,
         stage # "starting",
         stage = "resuming" => n = job[i].gate,
         stage \in {"failing", "closing"} => n = 0,
         stage \in {"persisting", "publishing"} /\ n # 0 =>
             (thread'.at = "gate" /\ thread'.n = n) \/ thread'.halt
  PROVE  GatesStand'
<1>1. task'[i] = [at |-> stage, n |-> n] /\ \A k \in Jobs : k # i => task'[k] = task[k]
  BY DEF TypeOK, Goto, Task
<1>2. \A j \in Jobs : j # i => ~ Queued(j)' /\ task'[j].at \notin Busy
  BY <1>1 DEF Live, Queued, jobVars
<1>3. ~ Queued(i)' /\ job' = job
  BY DEF Queued, jobVars
<1> QED
  BY <1>1, <1>2, <1>3 DEF GatesStand, Busy

\* While nothing is live the thread may move freely.
LEMMA GatesIdle ==
  ASSUME \A j \in Jobs : ~ Live(j), UNCHANGED <<task, jobVars>>,
         thread'.at = "gate" => ~ thread'.halt
  PROVE  GatesStand'
  BY DEF GatesStand, Live, Queued, Busy, jobVars

\* A step keeps the gates of the jobs and of the thread in agreement.
LEMMA GatesStep ==
  ASSUME Orderly, IInv, OrderlyInv, [Next]_vars
  PROVE  GatesStand'
<1> USE DEF IInv, OrderlyInv
<1>0. task \in [Jobs -> Task] /\ thread \in Thread
  BY DEF TypeOK
<1>1. CASE ProcessCase \/ RestartCase
  <2>1. EnqueueJob(NoJob) /\ UNCHANGED <<thread, task>>
    BY <1>1 DEF ProcessCase, RestartCase, Start
  <2>2. NoJob \in Job /\ NoJob.kind # "gate_run"
    BY ReviewAssumption DEF NoJob, Job
  <2> QED
    BY <2>1, <2>2, GatesSubmit
<1>2. ASSUME NEW r \in Requests, NEW op, ReadPause(r, op)
      PROVE  GatesStand'
  BY <1>2, GatesKept DEF ReadPause
<1>3. ASSUME NEW r \in Requests, ReadProcessing(r) \/ HaltAtGate(r) \/ CommitSendBack(r)
      PROVE  GatesStand'
  BY <1>3, GatesKept DEF ReadProcessing, HaltAtGate, CommitSendBack
<1>4. ASSUME NEW r \in Requests, QueueDecision(r)
      PROVE  GatesStand'
  <2> DEFINE g == req[r].gate
             payload == [kind |-> "gate_run", gate |-> g, action |-> req[r].op]
  <2>1. status = Paused(g) /\ EnqueueJob(payload) /\ UNCHANGED <<thread, task>>
    BY <1>4, RequestAtRest DEF QueueDecision
  <2>2. payload \in Job
    BY <1>4 DEF QueueDecision, TypeOK, Request, Job
  <2>3. req[r].op \in {"advance", "rerun"}
    BY <1>4 DEF QueueDecision
  <2>4. \A k \in Requests : req[k].at \notin {"driving", "paused"}
    BY <2>3 DEF NumbersOK, DecidesAlone
  <2>5. g \in Gates
    BY <2>1 DEF TypeOK, Status, Plain, Paused
  <2>6. thread.at = "gate" => thread.n = g
    BY <2>1, <2>4, <2>5 DEF PauseAgreesOrRaised, GatesStand
  <2> QED
    BY <2>1, <2>2, <2>6, GatesSubmit
<1>5. ASSUME NEW r \in Requests, CancelViaHalt(r)
      PROVE  GatesStand'
  <2>1. thread'.halt /\ thread'.at # "gate" /\ UNCHANGED <<task, jobVars>>
    BY <1>0, <1>5 DEF CancelViaHalt, Thread
  <2> QED
    BY <2>1 DEF GatesStand, Queued, jobVars
<1>6. ASSUME NEW r \in Requests, SendBack(r) \/ SentBack(r)
      PROVE  GatesStand'
  <2>1. req[r].op = "send_back" /\ UNCHANGED <<task, jobVars>>
    BY <1>6 DEF SendBack, SentBack, NumbersOK
  <2>2. \A j \in Jobs : ~ Live(j)
    BY <2>1, RequestAtRest
  <2>3. thread'.at = "gate" => ~ thread'.halt
    BY <1>0, <1>6 DEF SendBack, SentBack, EnterPhase, PauseAt, Thread, GatesStand
  <2> QED
    BY <2>1, <2>2, <2>3, GatesIdle
<1>7. ASSUME NEW i \in Jobs, BeginJob(i)
      PROVE  GatesStand'
  <2>1. Queued(i) /\ UNCHANGED <<thread, job>> /\ Goto(i, "starting", 0)
    BY <1>7 DEF BeginJob, Queued, Outbox!Begin
  <2>2. \A j \in Jobs : Queued(j)' => Queued(j)
    BY <1>7 DEF BeginJob, Queued, Outbox!Begin
  <2>3. task'[i] = [at |-> "starting", n |-> 0] /\ \A k \in Jobs : k # i => task'[k] = task[k]
    BY <1>0, <2>1 DEF Goto, Task
  <2> QED
    BY <2>1, <2>2, <2>3 DEF GatesStand
<1>8. ASSUME NEW i \in Jobs, task[i].at \in Busy
      PROVE  ~ Queued(i) /\ \A j \in Jobs : j # i => ~ Live(j)
  <2>1. Live(i) /\ task[i].at # "idle"
    BY <1>8 DEF Live, Busy
  <2> QED
    BY <2>1, BusyNotQueued DEF LiveAlone
<1>9. ASSUME NEW i \in Jobs, StartGraph(i) \/ Resume(i)
      PROVE  GatesStand'
  <2>1. task[i].at \in Busy /\ UNCHANGED jobVars /\ thread'.at # "gate"
    BY <1>0, <1>9 DEF StartGraph, Resume, EnterPhase, Thread, Busy
  <2>2. PICK stage, n : stage \in {"driving", "outcome"} /\ Goto(i, stage, n)
    BY <1>9 DEF StartGraph, Resume
  <2> QED
    BY <1>8, <2>1, <2>2, GatesMoved
<1>10. ASSUME NEW i \in Jobs, CheckResume(i)
      PROVE  GatesStand'
  <2>1. task[i].at = "starting" /\ job[i].kind = "gate_run" /\ UNCHANGED <<jobVars, thread>>
    BY <1>10 DEF CheckResume
  <2>2. \/ Goto(i, "refused", 0)
        \/ Goto(i, "raised", 0)
        \/ thread.at = "gate" /\ Goto(i, "resuming", thread.n)
    BY <1>10 DEF CheckResume
  <2>3. thread.at = "gate" => thread.n = job[i].gate /\ ~ thread.halt
    BY <2>1 DEF GatesStand
  <2>4. task[i].at \in Busy
    BY <2>1 DEF Busy
  <2>5. CASE Goto(i, "refused", 0) \/ Goto(i, "raised", 0)
    <3>1. PICK stage \in {"refused", "raised"} : Goto(i, stage, 0)
      BY <2>5
    <3> QED
      BY <1>8, <2>1, <2>3, <2>4, <3>1, GatesMoved
  <2>6. CASE thread.at = "gate" /\ Goto(i, "resuming", thread.n)
    BY <1>8, <2>1, <2>3, <2>4, <2>6, GatesMoved
  <2> QED
    BY <2>2, <2>5, <2>6
<1>11. ASSUME NEW i \in Jobs, PhaseEnds(i)
      PROVE  GatesStand'
  <2>1. task[i].at \in Busy /\ UNCHANGED jobVars /\ ~ thread'.halt /\ Goto(i, "outcome", 0)
    BY <1>0, <1>11 DEF PhaseEnds, PauseAt, Thread, Busy
  <2> QED
    BY <1>8, <2>1, GatesMoved
<1>12. ASSUME NEW i \in Jobs, ReadOutcome(i)
      PROVE  GatesStand'
  <2>1. task[i].at \in Busy /\ UNCHANGED <<jobVars, thread>>
    BY <1>12 DEF ReadOutcome, Busy
  <2>2. GraphStatus # Plain("processing")
    BY DEF GraphStatus, Plain
  <2>3. \/ thread.at = "gate" /\ Goto(i, "persisting", thread.n)
        \/ \E stage \in {"persisting", "failing", "closing"} : Goto(i, stage, 0)
    BY <1>12, <2>2 DEF ReadOutcome
  <2>4. thread.at = "gate" => ~ thread.halt
    BY DEF GatesStand
  <2>5. CASE thread.at = "gate" /\ Goto(i, "persisting", thread.n)
    BY <1>8, <2>1, <2>4, <2>5, GatesMoved
  <2>6. ASSUME NEW stage \in {"persisting", "failing", "closing"}, Goto(i, stage, 0)
        PROVE  GatesStand'
    BY <1>8, <2>1, <2>4, <2>6, GatesMoved
  <2> QED
    BY <2>3, <2>5, <2>6
<1>13. ASSUME NEW i \in Jobs, Persist(i)
      PROVE  GatesStand'
  <2>1. task[i].at \in {"persisting", "failing", "closing"} /\ UNCHANGED <<jobVars, thread>>
    BY <1>13 DEF Persist
  <2>2. task[i].at \in Busy
    BY <2>1 DEF Busy
  <2>3. task[i].n # 0 => (thread.at = "gate" /\ thread.n = task[i].n) \/ thread.halt
    BY <2>1 DEF GatesStand
  <2>4. PICK stage \in {"publishing", "returned"} : Goto(i, stage, task[i].n)
    BY <1>13 DEF Persist
  <2>5. thread.at = "gate" => ~ thread.halt
    BY DEF GatesStand
  <2> QED
    BY <1>8, <2>1, <2>2, <2>3, <2>4, <2>5, GatesMoved
<1>14. ASSUME NEW i \in Jobs, Publish(i) \/ PersistFails(i) \/ UpsertFails(i) \/ GraphRaises(i)
      PROVE  GatesStand'
  <2>1. task[i].at \in Busy /\ UNCHANGED <<jobVars, thread>>
    BY <1>14 DEF Publish, PersistFails, UpsertFails, GraphRaises, Busy
  <2>2. PICK stage \in {"returned", "raised"} : Goto(i, stage, 0)
    BY <1>14 DEF Publish, PersistFails, UpsertFails, GraphRaises
  <2>3. thread.at = "gate" => ~ thread.halt
    BY DEF GatesStand
  <2> QED
    BY <1>8, <2>1, <2>2, <2>3, GatesMoved
<1>15. ASSUME NEW i \in Jobs, SettleJob(i)
      PROVE  GatesStand'
  <2>1. UNCHANGED <<thread, job>>
    BY <1>15 DEF SettleJob
  <2>2. \A j \in Jobs : Queued(j)' => Queued(j)
    BY <1>15 DEF SettleJob, Outbox!Settle, Queued, TypeOK, Outbox!LedgerTypeOK
  <2>3. task'[i] = IdleTask /\ \A k \in Jobs : k # i => task'[k] = task[k]
    BY <1>0, <1>15 DEF SettleJob
  <2> QED
    BY <2>1, <2>2, <2>3 DEF GatesStand, IdleTask
<1>16. ASSUME NEW i \in Jobs, LoseRun(i) \/ RedeliverFailed(i)
      PROVE  FALSE
  BY <1>16 DEF LoseRun, RedeliverFailed, Fault, Orderly
<1>17. ASSUME NEW r \in Requests, SendBackRaises(r)
      PROVE  GatesStand'
  BY <1>17, GatesKept DEF SendBackRaises
<1>18. CASE SelectStuck \/ MarkRetryable \/ RetireDomain \/ UNCHANGED vars
  BY <1>18, GatesKept DEF SelectStuck, MarkRetryable, RetireDomain, vars, jobVars
<1> QED
  BY <1>1, <1>2, <1>3, <1>4, <1>5, <1>6, <1>7, <1>9, <1>10, <1>11, <1>12, <1>13,
     <1>14, <1>15, <1>16, <1>17, <1>18 DEF Next, Handle, Work

\* A step that leaves the status and only ever ends a pause by halting the thread.
LEMMA AgreesStay ==
  ASSUME PauseAgreesOrRaised, UNCHANGED status,
         thread' = thread \/ thread'.halt,
         \A r \in Requests : req[r].at \in {"driving", "paused"} => req'[r].at \in {"driving", "paused"}
  PROVE  PauseAgreesOrRaised'
  BY DEF PauseAgreesOrRaised

\* A step keeps the row and the thread in agreement.
LEMMA AgreesStep ==
  ASSUME Orderly, IInv, OrderlyInv, [Next]_vars
  PROVE  PauseAgreesOrRaised'
<1> USE DEF IInv, OrderlyInv
<1>0. req \in [Requests -> Request] /\ thread \in Thread
  BY DEF TypeOK
<1>1. ASSUME \A g \in Gates : status' # Paused(g)
      PROVE  PauseAgreesOrRaised'
  BY <1>1 DEF PauseAgreesOrRaised
<1>2. CASE ProcessCase \/ RestartCase \/ MarkRetryable
  BY <1>1, <1>2 DEF ProcessCase, RestartCase, Start, MarkRetryable, Plain, Paused
<1>3. ASSUME NEW r \in Requests, QueueDecision(r) \/ HaltAtGate(r)
      PROVE  PauseAgreesOrRaised'
  BY <1>1, <1>3 DEF QueueDecision, HaltAtGate, Plain, Paused
<1>4. ASSUME NEW r \in Requests, NEW op, ReadPause(r, op)
      PROVE  PauseAgreesOrRaised'
  <2>1. UNCHANGED <<status, thread>> /\ req[r].at \notin {"driving", "paused"}
    BY <1>4 DEF ReadPause, Idle, NumbersOK
  <2>2. \A k \in Requests : k # r => req'[k] = req[k]
    BY <1>0, <1>4 DEF ReadPause
  <2> QED
    BY <2>1, <2>2, AgreesStay
<1>5. ASSUME NEW r \in Requests, ReadProcessing(r)
      PROVE  PauseAgreesOrRaised'
  BY <1>1, <1>5 DEF ReadProcessing, Plain, Paused
<1>6. ASSUME NEW r \in Requests, CancelViaHalt(r)
      PROVE  PauseAgreesOrRaised'
  BY <1>0, <1>6 DEF CancelViaHalt, Thread, PauseAgreesOrRaised
<1>7. ASSUME NEW r \in Requests, SendBack(r)
      PROVE  PauseAgreesOrRaised'
  <2>1. CASE req[r].n \in thread.seen
    <3>1. req'[r].at = "driving"
      BY <1>0, <1>7, <2>1 DEF SendBack, Request
    <3> QED
      BY <3>1 DEF PauseAgreesOrRaised
  <2>2. CASE req[r].n \notin thread.seen
    <3>1. UNCHANGED <<status, thread>> /\ req[r].at = "read"
      BY <1>7, <2>2 DEF SendBack
    <3>2. \A k \in Requests : k # r => req'[k] = req[k]
      BY <1>0, <1>7, <2>2 DEF SendBack, Finish
    <3> QED
      BY <3>1, <3>2, AgreesStay
  <2> QED
    BY <2>1, <2>2
<1>8. ASSUME NEW r \in Requests, SentBack(r)
      PROVE  PauseAgreesOrRaised'
  <2>1. req'[r].at = "paused"
    BY <1>0, <1>8 DEF SentBack, Request
  <2> QED
    BY <2>1 DEF PauseAgreesOrRaised
<1>9. ASSUME NEW r \in Requests, CommitSendBack(r)
      PROVE  PauseAgreesOrRaised'
  <2>1. req[r].op = "send_back" /\ thread.at = "gate"
    BY <1>9 DEF CommitSendBack, NumbersOK, ReadsStand
  <2>2. status = Paused(req[r].gate)
    BY <2>1 DEF ReadsStand
  <2>3. status' = Paused(thread.n) /\ thread' = thread
    BY <1>9, <2>1, <2>2 DEF CommitSendBack
  <2> QED
    BY <2>1, <2>3 DEF PauseAgreesOrRaised, Paused
<1>10. ASSUME NEW i \in Jobs,
              \/ BeginJob(i) \/ StartGraph(i) \/ CheckResume(i) \/ Resume(i) \/ PhaseEnds(i)
              \/ ReadOutcome(i) \/ PersistFails(i) \/ UpsertFails(i) \/ GraphRaises(i)
       PROVE  PauseAgreesOrRaised'
  <2>1. GraphStatus # Plain("processing")
    BY DEF GraphStatus, Plain
  <2>2. UNCHANGED status \/ status' = Plain("failed")
    BY <1>10, <2>1 DEF BeginJob, StartGraph, CheckResume, Resume, PhaseEnds, ReadOutcome,
                       PersistFails, UpsertFails, GraphRaises
  <2>3. Live(i)
    BY <1>10 DEF BeginJob, StartGraph, CheckResume, Resume, PhaseEnds, ReadOutcome,
                 PersistFails, UpsertFails, GraphRaises, Live, Queued, Busy, Outbox!Begin
  <2>4. \A g : status # Paused(g)
    BY <2>3, LiveExcludes
  <2> QED
    BY <1>1, <2>2, <2>4 DEF Plain, Paused
<1>11. ASSUME NEW i \in Jobs, Persist(i)
       PROVE  PauseAgreesOrRaised'
  BY <1>1, <1>11 DEF Persist, GraphStatus, Plain, Paused
<1>12. ASSUME NEW i \in Jobs, Publish(i)
       PROVE  PauseAgreesOrRaised'
  <2>1. task[i].at = "publishing" /\ status' = Paused(task[i].n) /\ thread' = thread
    BY <1>12 DEF Publish
  <2>2. task[i].n \in Gates /\ task[i].n # 0
    BY <2>1 DEF NumbersOK, Gates
  <2>3. (thread.at = "gate" /\ thread.n = task[i].n) \/ thread.halt
    BY <2>1, <2>2 DEF GatesStand
  <2> QED
    BY <2>1, <2>3 DEF PauseAgreesOrRaised, Paused
<1>13. ASSUME NEW i \in Jobs, SettleJob(i)
       PROVE  PauseAgreesOrRaised'
  BY <1>13, AgreesStay DEF SettleJob
<1>14. ASSUME NEW i \in Jobs, LoseRun(i) \/ RedeliverFailed(i)
       PROVE  FALSE
  BY <1>14 DEF LoseRun, RedeliverFailed, Fault, Orderly
<1>15. ASSUME NEW r \in Requests, SendBackRaises(r)
       PROVE  PauseAgreesOrRaised'
  <2>1. thread.at = "phase" /\ "graph" \in Faults /\ thread' = thread
    BY <1>15 DEF SendBackRaises, Fault, ReadsStand
  <2> QED
    BY <2>1 DEF PauseAgreesOrRaised
<1>16. CASE SelectStuck \/ RetireDomain \/ UNCHANGED vars
  BY <1>16, AgreesStay DEF SelectStuck, RetireDomain, vars
<1> QED
  BY <1>2, <1>3, <1>4, <1>5, <1>6, <1>7, <1>8, <1>9, <1>10, <1>11, <1>12, <1>13,
     <1>14, <1>15, <1>16 DEF Next, Handle, Work

\* OrderlyInv holds in every reachable state of an orderly review.
LEMMA OrderlyInvariant ==
  ASSUME Orderly
  PROVE  Spec => [](IInv /\ OrderlyInv)
<1>1. Init => OrderlyInv
  BY DEF Init, IdleTask, IdleRequest, Outbox!LedgerInit, OrderlyInv, LiveAlone, ReadsStand,
         GatesStand, PauseAgreesOrRaised, DecidesAlone, Live, Queued, Busy, Plain, Paused
<1>2. IInv /\ OrderlyInv /\ [Next]_vars => OrderlyInv'
  BY DecidesStep, AloneStep, ReadsStep, GatesStep, AgreesStep DEF OrderlyInv
<1> QED
  BY <1>1, <1>2, ReviewInvariant, PTL DEF Spec

\* While the row says that the case waits at a gate, the thread does wait there,
\* unless a cancellation ended it or a send_back is rewinding it just now
\* (publish_interrupt, send_back_to_phase, cancel_via_halt).  A graph that raises within a
\* send_back leaves the row behind, so that no graph may raise here.
THEOREM PausesAgree ==
  ASSUME Orderly, "graph" \notin Faults
  PROVE  Spec => []PauseAgrees
<1>1. OrderlyInv => PauseAgrees
  BY DEF OrderlyInv, PauseAgreesOrRaised, PauseAgrees
<1> QED
  BY <1>1, OrderlyInvariant, PTL

\* The thread of a case has at most one driver, be it a worker or a send_back
\* that runs in its request (thread_id = case_id in runner.py and resume.py).
THEOREM DriversAreAlone ==
  ASSUME Orderly
  PROVE  Spec => []OneDriver
<1>1. IInv /\ OrderlyInv => OneDriver
  <2> SUFFICES ASSUME IInv, OrderlyInv PROVE OneDriver
    OBVIOUS
  <2> USE DEF OrderlyInv
  <2>1. \A j \in Driving : Live(j)
    BY DEF Driving, Live, Busy
  <2>2. \A i, j \in Driving : i = j
    BY <2>1 DEF LiveAlone, Driving
  <2>3. \A r, s \in SendingBack : r = s
    BY DEF SendingBack, IInv, NumbersOK, DecidesAlone
  <2>4. Driving = {} \/ \E j : Driving = {j}
    BY <2>2
  <2>5. SendingBack = {} \/ \E r : SendingBack = {r}
    BY <2>3
  <2>6. Driving = {} \/ SendingBack = {}
    BY <2>1, LiveExcludes DEF Driving, SendingBack
  <2>7. Cardinality(Driving) \in {0, 1} /\ (Driving = {} => Cardinality(Driving) = 0)
    BY <2>4, FS_EmptySet, FS_Singleton
  <2>8. Cardinality(SendingBack) \in {0, 1} /\ (SendingBack = {} => Cardinality(SendingBack) = 0)
    BY <2>5, FS_EmptySet, FS_Singleton
  <2> QED
    BY <2>6, <2>7, <2>8 DEF OneDriver
<1> QED
  BY <1>1, OrderlyInvariant, PTL

\* A decision is applied to the gate the judge was looking at, although the job
\* that applies it asks the saver for whatever interrupt is pending (drive_resume).
THEOREM DecisionsLandOnTheirGates ==
  ASSUME Orderly
  PROVE  Spec => DecisionLandsOnItsGate
<1>1. IInv /\ OrderlyInv /\ [Next]_vars => [\A j \in Jobs : applied'[j] # applied[j] => task[j].n = job[j].gate]_vars
  <2> SUFFICES ASSUME IInv, OrderlyInv, Next, NEW j \in Jobs, applied'[j] # applied[j]
               PROVE  task[j].n = job[j].gate
    OBVIOUS
  <2>1. PICK i \in Jobs : Resume(i)
    BY DEF Next, Handle, Work, ProcessCase, RestartCase, Start, ReadPause, ReadProcessing,
           QueueDecision, HaltAtGate, CancelViaHalt, SendBack, SentBack, CommitSendBack,
           SendBackRaises, BeginJob, StartGraph, CheckResume, PhaseEnds, ReadOutcome, Persist,
           Publish, SettleJob, GraphRaises, PersistFails, UpsertFails, LoseRun, RedeliverFailed,
           SelectStuck, MarkRetryable, RetireDomain
  <2>2. i = j
    BY <2>1 DEF Resume, IInv, TypeOK
  <2> QED
    BY <2>1, <2>2 DEF Resume, OrderlyInv, GatesStand
<1> QED
  BY <1>1, OrderlyInvariant, PTL DEF Spec, DecisionLandsOnItsGate

\* The reviews use the outbox and never their rows otherwise: whatever the judge, the
\* watchdog and two drivers of one thread do, the jobs behave as JobLedger promises.
THEOREM ReviewKeepsTheLedger == Spec => Outbox!LedgerSpec
<1>1. Init => Outbox!LedgerInit
  BY DEF Init
<1>2. [Next]_vars => [Outbox!LedgerNext]_<<ledger, running>>
  <2> SUFFICES ASSUME [Next]_vars PROVE [Outbox!LedgerNext]_<<ledger, running>>
    OBVIOUS
  <2>1. CASE Quiet
    BY <2>1 DEF Quiet
  <2>2. ASSUME NEW payload, EnqueueJob(payload) PROVE Outbox!LedgerNext
    BY <2>2 DEF EnqueueJob, Outbox!LedgerNext
  <2>3. ASSUME NEW j \in Jobs, BeginJob(j) \/ RedeliverFailed(j) PROVE Outbox!LedgerNext
    BY <2>3 DEF BeginJob, RedeliverFailed, Outbox!LedgerNext
  <2>4. ASSUME NEW j \in Jobs, SettleJob(j) PROVE Outbox!LedgerNext
    BY <2>4 DEF SettleJob, Outbox!LedgerNext
  <2>5. ASSUME NEW j \in Jobs, LoseRun(j) PROVE Outbox!LedgerNext
    <3>1. Outbox!Abandon({j}) /\ {j} \in SUBSET running
      BY <2>5 DEF LoseRun
    <3> QED
      BY <3>1 DEF Outbox!LedgerNext
  <2>6. ASSUME NEW j \in Jobs,
               \/ StartGraph(j) \/ CheckResume(j) \/ Resume(j) \/ PhaseEnds(j) \/ ReadOutcome(j)
               \/ Persist(j) \/ Publish(j) \/ GraphRaises(j) \/ PersistFails(j) \/ UpsertFails(j)
        PROVE  UNCHANGED <<ledger, running>>
    BY <2>6 DEF StartGraph, CheckResume, Resume, PhaseEnds, ReadOutcome, Persist, Publish,
       GraphRaises, PersistFails, UpsertFails, jobVars
  <2> QED
    BY <2>1, <2>2, <2>3, <2>4, <2>5, <2>6, StepKinds
<1> QED
  BY <1>1, <1>2, PTL DEF Spec, Outbox!LedgerSpec, Outbox!ledgerVars
=================================================================================
