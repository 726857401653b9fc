----------------------------- MODULE CaseDeskProofs -----------------------------
(***************************************************************************)
(* Proofs about CaseDesk, for any documents, jobs, gates, requests, menus  *)
(* and bounds on what the judge does and on what fails.  What the pages    *)
(* say of a closed case is proved for runs that do not overlap.            *)
(***************************************************************************)
EXTENDS CaseDesk, FiniteSetTheorems, TLAPS

USE DeskAssumption

--------------------------------------------------------------------------------
(* Values *)

\* The initial values of the records have their types.
LEMMA ValuesTyped ==
    /\ IdleTask \in Task /\ IdleTask.at = "idle"
    /\ IdleRequest \in Asked /\ IdleRequest.op = "none"
    /\ NoDoc \in Doc /\ NoClaim \in Claim /\ NoFact \in Fact /\ NoNote \in Note
    /\ Processing \in Status /\ Plain("pending") \in Status /\ Plain("failed") \in Status
    /\ Plain("closed") \in Status /\ \A g \in Gates : Paused(g) \in Status
    /\ At(0, FALSE) \in GateState /\ At(1, FALSE) \in GateState
    /\ \A g \in Gates : At(g, TRUE) \in GateState
  <1>1. IdleTask \in Task /\ IdleTask.at = "idle"
    BY DEF IdleTask, Worker, Task, Stage
  <1>2. /\ Processing \in Status /\ Plain("pending") \in Status /\ Plain("failed") \in Status
        /\ Plain("closed") \in Status /\ \A g \in Gates : Paused(g) \in Status
    BY DEF Processing, Status
  <1>3. /\ At(0, FALSE) \in GateState /\ At(1, FALSE) \in GateState
        /\ \A g \in Gates : At(g, TRUE) \in GateState
    BY DEF At, GateState, Gates
  <1>4. IdleRequest \in Asked /\ IdleRequest.op = "none"
    BY <1>2, <1>3 DEF IdleRequest, Request, Asked
  <1>5. NoDoc \in Doc /\ NoFact \in Fact /\ NoNote \in Note
    BY DEF NoDoc, Doc, NoFact, Fact, NoNote, Note
  <1>6. NoClaim \in Claim
    <2>1. /\ NoClaim.status = "unknown" /\ NoClaim.corroboration = {} /\ NoClaim.reason = FALSE
          /\ NoClaim = [status |-> NoClaim.status, corroboration |-> NoClaim.corroboration,
                        reason |-> NoClaim.reason]
      BY DEF NoClaim
    <2>2. NoClaim \in [status : {"unknown", "agreed", "disputed"},
                      corroboration : SUBSET {"conflicts"}, reason : BOOLEAN]
      BY <2>1
    <2> QED
      BY <2>1, <2>2 DEF Claim
  <1> QED
    BY <1>1, <1>2, <1>3, <1>4, <1>5, <1>6

\* A worker that goes on is typed.
LEMMA WorkerTyped ==
    ASSUME NEW at \in Stage, NEW n \in 0 .. LastGate + 1
    PROVE  /\ Worker(at, n) \in Task
           /\ Worker(at, n).at = at /\ Worker(at, n).n = n
  BY DEF Worker, Task

\* A request that has read what it needs is typed.
LEMMA RequestTyped ==
    ASSUME NEW op \in Ops, NEW s \in Status, NEW g \in GateState,
           NEW n \in {"none", "open", "locked"}
    PROVE  /\ Request(op, s, g, n) \in Asked
           /\ Request(op, s, g, n).op = op /\ Request(op, s, g, n).note = n
  BY DEF Request, Asked

\* The row an agent's claim becomes.
LEMMA NormalizedTyped ==
    ASSUME NEW c \in Claim
    PROVE  [status |-> Normalized(c), corroboration |-> c.corroboration, by |-> "nobody"] \in Fact
  <1>1. /\ c.status \in {"unknown", "agreed", "disputed"}
        /\ c.corroboration \subseteq {"conflicts"}
    BY DEF Claim
  <1>2. Normalized(c) \in {"absent", "unknown", "agreed", "disputed"}
    BY <1>1 DEF Normalized
  <1> QED
    BY <1>1, <1>2 DEF Fact

\* Queueing a job changes rows that are absent, and no run.
LEMMA Enqueued ==
    ASSUME TypeOK, NEW kind \in {"pipeline", "gate1", "resume"}, EnqueueJob(kind)
    PROVE  \E j \in Jobs :
             /\ ledger[j] = "absent"
             /\ ledger' = [ledger EXCEPT ![j] = "owed"]
             /\ job' = [job EXCEPT ![j] = kind]
             /\ running' = running
             /\ Outbox!LedgerTypeOK'
             /\ job' \in [Jobs -> {"pipeline", "gate1", "resume"}]
  <1>1. PICK j \in Jobs : Outbox!Submit(j) /\ job' = [job EXCEPT ![j] = kind]
    BY DEF EnqueueJob
  <1>2. /\ ledger \in [Jobs -> Outbox!LedgerStatus] /\ running \subseteq Jobs
        /\ job \in [Jobs -> {"pipeline", "gate1", "resume"}]
    BY DEF TypeOK, Outbox!LedgerTypeOK
  <1>3. /\ ledger[j] = "absent"
        /\ ledger' = [ledger EXCEPT ![j] = "owed"]
        /\ running' = running
    BY <1>1 DEF Outbox!Submit
  <1>4. ledger' \in [Jobs -> Outbox!LedgerStatus] /\ running' \subseteq Jobs
    BY <1>2, <1>3 DEF Outbox!LedgerStatus
  <1>5. job' \in [Jobs -> {"pipeline", "gate1", "resume"}]
    BY <1>1, <1>2
  <1> QED
    BY <1>1, <1>3, <1>4, <1>5 DEF Outbox!LedgerTypeOK

--------------------------------------------------------------------------------
(* Types *)

\* A worker that goes on keeps its gate, unless it is told another.
LEMMA GotoTyped ==
    ASSUME TypeOK, NEW j \in Jobs, NEW stage \in Stage, Goto(j, stage)
    PROVE  task' \in [Jobs -> Task]
  <1>1. task[j].n \in 0 .. LastGate + 1 /\ task \in [Jobs -> Task]
    BY DEF TypeOK, Task
  <1>2. Worker(stage, task[j].n) \in Task
    BY <1>1, WorkerTyped
  <1> QED
    BY <1>1, <1>2 DEF Goto

\* A request that ends or reads keeps the types.
LEMMA RequestsTyped ==
    ASSUME TypeOK, NEW r \in Requests, NEW x \in Asked, req' = [req EXCEPT ![r] = x]
    PROVE  req' \in [Requests -> Asked]
  BY DEF TypeOK

\* What the ORM writes is the value or what is there.
LEMMA SetsTyped ==
    ASSUME NEW S, NEW loaded, NEW now \in S, NEW value \in S
    PROVE  Sets(loaded, now, value) \in S
  BY DEF Sets

\* What the documents of a run become.
LEMMA DocsTyped ==
    ASSUME TypeOK, NEW failed, NEW missing,
           doc' = [d \in Docs |-> [doc[d] EXCEPT !.text = @ \/ d \in missing \ failed]]
    PROVE  doc' \in [Docs -> Doc]
  <1>1. ASSUME NEW d \in Docs
        PROVE  [doc[d] EXCEPT !.text = @ \/ d \in missing \ failed] \in Doc
    <2>1. doc[d] \in Doc
      BY DEF TypeOK
    <2> QED
      BY <2>1 DEF Doc
  <1> QED
    BY <1>1

\* Storing a document keeps the types.
LEMMA StoreTyped ==
    ASSUME TypeOK, NEW d \in Docs, NEW via \in {"evidence", "supplement"}, Store(d, via)
    PROVE  doc' \in [Docs -> Doc]
  BY DEF TypeOK, Store, Doc

\* Counting acts and faults stays within the bounds.
LEMMA ActTyped ==
    ASSUME TypeOK, NEW a, Act(a)
    PROVE  menu' \in Menus /\ acts' \in 0 .. MaxActs
  BY DEF TypeOK, Act

\* A lost run or a failed call is counted within the bound.
LEMMA FaultTyped == TypeOK /\ Fault => faults' \in 0 .. MaxFaults
  BY DEF TypeOK, Fault

\* A case that leaves the intake has the types.
LEMMA DeskInitTyped == Init => TypeOK
  <1> SUFFICES ASSUME Init PROVE TypeOK
    OBVIOUS
  <1> USE ValuesTyped
  <1>1. status \in Status /\ gateState \in GateState
    BY DEF Init
  <1>2. thread \in Thread
    BY DEF Init, Thread
  <1>3. doc \in [Docs -> Doc]
    <2>1. FiledDoc \in Doc
      BY DEF FiledDoc, Doc
    <2> QED
      BY <2>1 DEF Init
  <1>4. Outbox!LedgerTypeOK
    BY DEF Init, Outbox!LedgerInit, Outbox!LedgerTypeOK, Outbox!LedgerStatus
  <1>5. task \in [Jobs -> Task] /\ req \in [Requests -> Asked]
    BY DEF Init
  <1>6. fact \in Fact /\ note \in Note
    BY DEF Init
  <1>9. reopen \in {"none", "pending", "approved", "rejected"} /\ audited \in BOOLEAN
    BY DEF Init
  <1>7. job \in [Jobs -> {"pipeline", "gate1", "resume"}]
    BY DEF Init
  <1>8. unread \subseteq Docs /\ menu \in Menus /\ acts \in 0 .. MaxActs /\ faults \in 0 .. MaxFaults
    BY DEF Init
  <1> QED
    BY <1>1, <1>2, <1>3, <1>4, <1>5, <1>6, <1>7, <1>8, <1>9 DEF TypeOK

\* Every step keeps the types, but for the numbers of the gates (GatesSeen): a phase
\* ends at its gate, and the gate announced is one of the graph's.
LEMMA DeskTypeStep ==
    ASSUME TypeOK, GatesSeen, [Next]_vars
    PROVE  TypeOK'
  <1> USE ValuesTyped
  <1>0. /\ status \in Status /\ gateState \in GateState /\ thread \in Thread
        /\ doc \in [Docs -> Doc] /\ Outbox!LedgerTypeOK
        /\ job \in [Jobs -> {"pipeline", "gate1", "resume"}] /\ task \in [Jobs -> Task]
        /\ fact \in Fact /\ audited \in BOOLEAN /\ note \in Note
        /\ reopen \in {"none", "pending", "approved", "rejected"}
        /\ req \in [Requests -> Asked] /\ unread \subseteq Docs /\ menu \in Menus
        /\ acts \in 0 .. MaxActs /\ faults \in 0 .. MaxFaults
    BY DEF TypeOK
  <1> USE DEF caseVars, jobVars, rowVars, actVars
  <1>1. ASSUME ProcessCase \/ AdvanceGate
        PROVE  TypeOK'
    <2>1. \E kind \in {"pipeline", "gate1", "resume"} : EnqueueJob(kind)
      BY <1>1 DEF ProcessCase, AdvanceGate
    <2>2. Outbox!LedgerTypeOK' /\ job' \in [Jobs -> {"pipeline", "gate1", "resume"}]
      BY <2>1, Enqueued
    <2>3. /\ status' = Processing
          /\ UNCHANGED <<gateState, thread, doc, task, rowVars, req, unread, actVars, faults>>
      BY <1>1 DEF ProcessCase, AdvanceGate
    <2> QED
      BY <1>0, <2>2, <2>3 DEF TypeOK
  <1>2. CASE CreateNote
    <2>1. note' \in Note
      BY <1>0, <1>2 DEF CreateNote, Note
    <2> QED
      BY <1>0, <1>2, <2>1 DEF CreateNote, TypeOK, Outbox!LedgerTypeOK
  <1>3. CASE CreateReopenRequest
    BY <1>0, <1>3 DEF CreateReopenRequest, TypeOK, Outbox!LedgerTypeOK
  <1>4. ASSUME NEW d \in Docs, UploadEvidence(d)
        PROVE  TypeOK'
    <2>1. doc' \in [Docs -> Doc]
      BY <1>4, StoreTyped DEF UploadEvidence
    <2>2. menu' \in Menus /\ acts' \in 0 .. MaxActs
      BY <1>4, ActTyped DEF UploadEvidence
    <2> QED
      BY <1>0, <1>4, <2>1, <2>2 DEF UploadEvidence, TypeOK, Outbox!LedgerTypeOK
  <1>5. ASSUME NEW d \in Docs, ParseJob(d)
        PROVE  TypeOK'
    <2>1. doc' \in [Docs -> Doc]
      <3>1. doc[d] \in Doc
        BY <1>0
      <3>2. PICK x : x \in Doc /\ doc' = [doc EXCEPT ![d] = x]
        BY <1>5, <3>1 DEF ParseJob, Doc
      <3> QED
        BY <1>0, <3>2
    <2>2. faults' \in 0 .. MaxFaults
      BY <1>0, <1>5, FaultTyped DEF ParseJob
    <2> QED
      BY <1>0, <1>5, <2>1, <2>2 DEF ParseJob, TypeOK, Outbox!LedgerTypeOK
  <1>6. ASSUME NEW r \in Requests, Ask(r)
        PROVE  TypeOK'
    <2>1. PICK op \in Ops, s \in Status, g \in GateState, n \in {"none", "open", "locked"} :
            req' = [req EXCEPT ![r] = Request(op, s, g, n)]
      <3>1. note.state \in {"none", "open", "locked"}
        BY <1>0 DEF Note
      <3>2. CASE SupplementReads(r)
        BY <1>0, <3>2 DEF SupplementReads, Ops
      <3>3. CASE DisputeReads(r)
        BY <3>3 DEF DisputeReads, Ops
      <3>4. ASSUME NEW op \in {"edit", "lock", "delete"}, NoteReads(r, op)
            PROVE  \E s \in Status, g \in GateState, n \in {"none", "open", "locked"} :
                     req' = [req EXCEPT ![r] = Request(op, s, g, n)]
        BY <3>1, <3>4 DEF NoteReads
      <3>5. CASE ReviewReads(r)
        BY <1>0, <3>5 DEF ReviewReads, Ops
      <3> QED
        BY <1>6, <3>2, <3>3, <3>4, <3>5 DEF Ask, Ops
    <2>2. req' \in [Requests -> Asked]
      BY <1>0, <2>1, RequestTyped
    <2>3. /\ menu' \in Menus /\ acts' \in 0 .. MaxActs
          /\ UNCHANGED <<caseVars, doc, jobVars, task, rowVars, unread, faults>>
      BY <1>6, ActTyped DEF Ask, SupplementReads, DisputeReads, NoteReads, ReviewReads
    <2> QED
      BY <1>0, <2>2, <2>3 DEF TypeOK, Outbox!LedgerTypeOK
  <1>7. ASSUME NEW r \in Requests, SupplementWrites(r)
        PROVE  TypeOK'
    <2>1. doc' \in [Docs -> Doc]
      BY <1>7, StoreTyped DEF SupplementWrites
    <2>2. status' \in Status /\ gateState' \in GateState
      BY <1>0, <1>7, SetsTyped DEF SupplementWrites
    <2>3. Outbox!LedgerTypeOK' /\ job' \in [Jobs -> {"pipeline", "gate1", "resume"}]
      BY <1>7, Enqueued DEF SupplementWrites
    <2>4. req' \in [Requests -> Asked]
      BY <1>7, RequestsTyped DEF SupplementWrites, Finish
    <2> QED
      BY <1>0, <1>7, <2>1, <2>2, <2>3, <2>4 DEF SupplementWrites, TypeOK
  <1>8. ASSUME NEW r \in Requests, DisputeWrites(r)
        PROVE  TypeOK'
    <2>1. fact' \in Fact
      BY <1>0, <1>8 DEF DisputeWrites, Fact
    <2>2. req' \in [Requests -> Asked]
      BY <1>8, RequestsTyped DEF DisputeWrites, Finish
    <2> QED
      BY <1>0, <1>8, <2>1, <2>2 DEF DisputeWrites, TypeOK, Outbox!LedgerTypeOK
  <1>9. ASSUME NEW r \in Requests, NoteWrites(r)
        PROVE  TypeOK'
    <2>1. note' \in Note
      <3>1. /\ [note EXCEPT !.edits = 1 - @] \in Note
            /\ [note EXCEPT !.state = "locked"] \in Note
        BY <1>0 DEF Note
      <3> QED
        BY <1>0, <1>9, <3>1 DEF NoteWrites
    <2>2. req' \in [Requests -> Asked]
      BY <1>9, RequestsTyped DEF NoteWrites, Finish
    <2> QED
      BY <1>0, <1>9, <2>1, <2>2 DEF NoteWrites, TypeOK, Outbox!LedgerTypeOK
  <1>10. ASSUME NEW r \in Requests, Reject(r)
         PROVE  TypeOK'
    <2>1. req' \in [Requests -> Asked]
      BY <1>10, RequestsTyped DEF Reject, Finish
    <2> QED
      BY <1>0, <1>10, <2>1 DEF Reject, TypeOK, Outbox!LedgerTypeOK
  <1>11. ASSUME NEW r \in Requests, Approve(r)
         PROVE  TypeOK'
    <2>1. req' \in [Requests -> Asked]
      BY <1>11, RequestsTyped DEF Approve, Finish
    <2>2. status' \in Status
      BY <1>0, <1>11, SetsTyped DEF Approve
    <2>3. Outbox!LedgerTypeOK' /\ job' \in [Jobs -> {"pipeline", "gate1", "resume"}]
      BY <1>11, Enqueued DEF Approve
    <2>4. unread' \subseteq Docs
      BY <1>0, <1>11 DEF Approve, Stored
    <2> QED
      BY <1>0, <1>11, <2>1, <2>2, <2>3, <2>4 DEF Approve, TypeOK
  <1>12. ASSUME NEW j \in Jobs, BeginJob(j)
         PROVE  TypeOK'
    <2>1. Outbox!LedgerTypeOK'
      BY <1>0, <1>12 DEF BeginJob, Outbox!Begin, Outbox!LedgerTypeOK
    <2>2. thread.n \in 0 .. LastGate
      BY <1>0 DEF Thread
    <2>3. doc' \in [Docs -> Doc] /\ faults' \in 0 .. MaxFaults
      <3>1. CASE LoadDocuments(j)
        <4> DEFINE missing == {d \in Stored : doc[d].file /\ ~doc[d].text}
        <4>1. PICK failed \in SUBSET missing :
                doc' = [d \in Docs |-> [doc[d] EXCEPT !.text = @ \/ d \in missing \ failed]]
          BY <3>1, Zenon DEF LoadDocuments
        <4>2. doc' \in [Docs -> Doc]
          BY <4>1, DocsTyped
        <4>3. Fault \/ UNCHANGED faults
          BY <3>1 DEF LoadDocuments
        <4> QED
          BY <1>0, <4>2, <4>3, FaultTyped
      <3>2. CASE LoadThread(j)
        BY <1>0, <3>2 DEF LoadThread
      <3> QED
        BY <1>12, <3>1, <3>2 DEF BeginJob
    <2>4. task' \in [Jobs -> Task]
      <3>1. PICK x : x \in Task /\ task' = [task EXCEPT ![j] = x]
        <4>1. CASE LoadDocuments(j)
          <5>1. [at |-> "loaded", n |-> 1, docs |-> Stored] \in Task
            BY DEF Task, Stage, Stored
          <5> QED
            BY <4>1, <5>1 DEF LoadDocuments
        <4>2. CASE LoadThread(j)
          <5>1. Worker("loaded", 1) \in Task /\ Worker("loaded", thread.n + 1) \in Task
                /\ Worker("raised", thread.n + 1) \in Task
            BY <2>2 DEF Worker, Task, Stage
          <5> QED
            BY <4>2, <5>1 DEF LoadThread
        <4> QED
          BY <1>12, <4>1, <4>2 DEF BeginJob
      <3> QED
        BY <1>0, <3>1
    <2> QED
      BY <1>0, <1>12, <2>1, <2>3, <2>4 DEF BeginJob, TypeOK
  <1>13. ASSUME NEW j \in Jobs, StartGraph(j)
         PROVE  TypeOK'
    <2>1. thread' \in Thread
      <3>1. task[j].docs \subseteq Docs
        BY <1>0 DEF Task
      <3>2. Merge(thread.docs, task[j].docs) \subseteq Docs
        BY <1>0, <3>1 DEF Merge, Thread
      <3>3. /\ [thread EXCEPT !.at = "phase"] \in Thread
            /\ [thread EXCEPT !.at = "end"] \in Thread
        BY <1>0 DEF Thread
      <3>4. [thread EXCEPT !.at = "phase", !.docs = Merge(@, task[j].docs)] \in Thread
        BY <1>0, <3>2 DEF Thread
      <3> QED
        BY <1>13, <3>3, <3>4 DEF StartGraph
    <2>2. task' \in [Jobs -> Task]
      BY <1>13, GotoTyped DEF StartGraph, Stage
    <2>3. unread' \subseteq Docs
      BY <1>0, <1>13 DEF StartGraph
    <2> QED
      BY <1>0, <1>13, <2>1, <2>2, <2>3 DEF StartGraph, TypeOK, Outbox!LedgerTypeOK
  <1>14. ASSUME NEW j \in Jobs, PhaseEnds(j)
         PROVE  TypeOK'
    <2>1. task[j].n \in Gates
      BY <1>14 DEF PhaseEnds, GatesSeen
    <2>2. PICK claim \in Claim :
            thread' = [at |-> "gate", n |-> task[j].n, seen |-> thread.seen \union {task[j].n},
                       docs |-> thread.docs, claim |-> claim]
      BY <1>0, <1>14 DEF PhaseEnds, Thread
    <2>3. thread' \in Thread
      BY <1>0, <2>1, <2>2 DEF Thread, Gates
    <2>4. task' \in [Jobs -> Task]
      BY <1>14, GotoTyped DEF PhaseEnds, Stage
    <2> QED
      BY <1>0, <1>14, <2>3, <2>4 DEF PhaseEnds, TypeOK, Outbox!LedgerTypeOK
  <1>15. ASSUME NEW j \in Jobs, GraphRaises(j)
         PROVE  TypeOK'
    <2>1. task' \in [Jobs -> Task]
      BY <1>15, GotoTyped DEF GraphRaises, Stage
    <2>2. faults' \in 0 .. MaxFaults /\ status' \in Status
      BY <1>0, <1>15, FaultTyped DEF GraphRaises
    <2> QED
      BY <1>0, <1>15, <2>1, <2>2 DEF GraphRaises, TypeOK, Outbox!LedgerTypeOK
  <1>16. ASSUME NEW j \in Jobs, Persist(j)
         PROVE  TypeOK'
    <2>1. Pending \in 0 .. LastGate /\ (Pending # 0 => Pending \in Gates)
      BY <1>0 DEF Pending, Thread, Gates
    <2>2. fact' \in Fact
      <3>1. thread.claim \in Claim
        BY <1>0 DEF Thread
      <3> QED
        BY <1>16, <3>1, NormalizedTyped DEF Persist
    <2>3. status' \in Status
      BY <1>16 DEF Persist, StatusAfter, Gates
    <2>4. gateState' \in GateState
      <3>1. 1 \in Gates
        BY DEF Gates
      <3> QED
        BY <1>0, <1>16, <2>1, <3>1 DEF Persist, GateStateOf
    <2>5. task' \in [Jobs -> Task]
      <3>1. Worker("returned", Pending) \in Task /\ Worker("publishing", Pending) \in Task
        BY <2>1 DEF Worker, Task, Stage
      <3> QED
        BY <1>0, <1>16, <3>1 DEF Persist
    <2> QED
      BY <1>0, <1>16, <2>2, <2>3, <2>4, <2>5 DEF Persist, TypeOK, Outbox!LedgerTypeOK
  <1>17. ASSUME NEW j \in Jobs, PersistFails(j)
         PROVE  TypeOK'
    <2>1. task' \in [Jobs -> Task] /\ faults' \in 0 .. MaxFaults
      BY <1>17, GotoTyped, FaultTyped DEF PersistFails, Stage
    <2> QED
      BY <1>0, <1>17, <2>1 DEF PersistFails, TypeOK, Outbox!LedgerTypeOK
  <1>18. ASSUME NEW j \in Jobs, Publish(j)
         PROVE  TypeOK'
    <2>1. task[j].n \in Gates
      BY <1>0, <1>18 DEF Publish, GatesSeen, Thread
    <2>2. status' \in Status /\ gateState' \in GateState /\ audited' \in BOOLEAN
      BY <1>0, <1>18, <2>1 DEF Publish, GateStateOf
    <2>3. task' \in [Jobs -> Task]
      BY <1>18, GotoTyped DEF Publish, Stage
    <2> QED
      BY <1>0, <1>18, <2>2, <2>3 DEF Publish, TypeOK, Outbox!LedgerTypeOK
  <1>19. ASSUME NEW j \in Jobs, SettleJob(j)
         PROVE  TypeOK'
    <2>1. Outbox!LedgerTypeOK'
      BY <1>0, <1>19 DEF SettleJob, Outbox!Settle, Outbox!LedgerTypeOK, Outbox!LedgerStatus
    <2>2. task' \in [Jobs -> Task]
      BY <1>0, <1>19 DEF SettleJob
    <2> QED
      BY <1>0, <1>19, <2>1, <2>2 DEF SettleJob, TypeOK
  <1>20. ASSUME NEW j \in Jobs, LoseRun(j)
         PROVE  TypeOK'
    <2>1. Outbox!LedgerTypeOK' /\ faults' \in 0 .. MaxFaults
      BY <1>0, <1>20, FaultTyped DEF LoseRun, Outbox!Abandon, Outbox!LedgerTypeOK
    <2>2. task' \in [Jobs -> Task]
      BY <1>0, <1>20 DEF LoseRun
    <2> QED
      BY <1>0, <1>20, <2>1, <2>2 DEF LoseRun, TypeOK
  <1>21. CASE UNCHANGED vars
    BY <1>0, <1>21 DEF vars, TypeOK, Outbox!LedgerTypeOK
  <1> QED
    BY <1>1, <1>2, <1>3, <1>4, <1>5, <1>6, <1>7, <1>8, <1>9, <1>10, <1>11, <1>12, <1>13,
       <1>14, <1>15, <1>16, <1>17, <1>18, <1>19, <1>20, <1>21 DEF Next, Handle, Work

--------------------------------------------------------------------------------
(* Workers and rows *)

\* The jobs, their rows and their workers are left alone.
Others == UNCHANGED <<ledger, running, job, task>>

\* What the judge does and what is parsed either leaves the jobs alone or queues one.
LEMMA DeskKeepsJobs ==
    ASSUME TypeOK,
           \/ ProcessCase \/ AdvanceGate \/ CreateNote \/ CreateReopenRequest
           \/ \E d \in Docs : UploadEvidence(d) \/ ParseJob(d)
           \/ \E r \in Requests : Ask(r) \/ Handle(r)
    PROVE  /\ UNCHANGED <<thread, audited>>
           /\ \/ Others
              \/ /\ UNCHANGED <<running, task>>
                 /\ \E j \in Jobs, kind \in {"pipeline", "gate1", "resume"} :
                      /\ ledger[j] = "absent" /\ ledger' = [ledger EXCEPT ![j] = "owed"]
                      /\ job' = [job EXCEPT ![j] = kind]
  <1> DEFINE Queued == \E j \in Jobs, kind \in {"pipeline", "gate1", "resume"} :
                         /\ ledger[j] = "absent" /\ ledger' = [ledger EXCEPT ![j] = "owed"]
                         /\ job' = [job EXCEPT ![j] = kind] /\ running' = running
  <1>1. ASSUME NEW kind \in {"pipeline", "gate1", "resume"}, EnqueueJob(kind) PROVE Queued
    BY <1>1, Enqueued
  <1> HIDE DEF Queued
  <1> USE DEF Others, caseVars, jobVars, rowVars, actVars
  <1>2. CASE ProcessCase \/ AdvanceGate
    BY <1>1, <1>2 DEF ProcessCase, AdvanceGate, Queued
  <1>3. CASE CreateNote \/ CreateReopenRequest
    BY <1>3 DEF CreateNote, CreateReopenRequest
  <1>4. ASSUME NEW d \in Docs, UploadEvidence(d) \/ ParseJob(d)
        PROVE  UNCHANGED <<thread, audited>> /\ Others
    BY <1>4 DEF UploadEvidence, ParseJob
  <1>5. ASSUME NEW r \in Requests, Ask(r)
        PROVE  UNCHANGED <<thread, audited>> /\ Others
    BY <1>5 DEF Ask, SupplementReads, DisputeReads, NoteReads, ReviewReads
  <1>6. ASSUME NEW r \in Requests, DisputeWrites(r) \/ NoteWrites(r) \/ Reject(r)
        PROVE  UNCHANGED <<thread, audited>> /\ Others
    BY <1>6 DEF DisputeWrites, NoteWrites, Reject
  <1>7. ASSUME NEW r \in Requests, SupplementWrites(r) \/ Approve(r)
        PROVE  UNCHANGED <<thread, audited, task>> /\ Queued
    BY <1>1, <1>7 DEF SupplementWrites, Approve
  <1> QED
    BY <1>2, <1>3, <1>4, <1>5, <1>6, <1>7 DEF Handle, Queued

\* A worker's step moves its own task from a stage it has begun to another.
LEMMA Moved ==
    ASSUME TypeOK, NEW j \in Jobs, NEW at \in Stage, NEW n,
           task' = [task EXCEPT ![j] = Worker(at, n)]
    PROVE  /\ task'[j].at = at /\ task'[j].n = n
           /\ \A k \in Jobs : k # j => task'[k] = task[k]
  BY DEF TypeOK, Worker

\* The steps between the beginning of a run and its outcome.
Between(j) == StartGraph(j) \/ PhaseEnds(j) \/ GraphRaises(j) \/ Persist(j) \/ PersistFails(j)
                \/ Publish(j)

\* In those steps a worker moves from a stage it has begun to another, and no row changes.
LEMMA BetweenMoves ==
    ASSUME TypeOK, NEW j \in Jobs, Between(j)
    PROVE  /\ task[j].at # "idle" /\ task'[j].at # "idle"
           /\ \A k \in Jobs : k # j => task'[k] = task[k]
           /\ UNCHANGED jobVars
  <1> USE DEF caseVars, rowVars, actVars
  <1>1. PICK at \in Stage \ {"idle"} : \E n : task' = [task EXCEPT ![j] = Worker(at, n)]
    BY DEF Between, StartGraph, PhaseEnds, GraphRaises, Persist, PersistFails, Publish, Goto, Stage
  <1>2. task[j].at # "idle" /\ UNCHANGED jobVars
    BY DEF Between, StartGraph, PhaseEnds, GraphRaises, Persist, PersistFails, Publish
  <1>3. PICK n : task' = [task EXCEPT ![j] = Worker(at, n)]
    BY <1>1
  <1> QED
    BY <1>2, <1>3, Moved DEF Stage

\* A row is being run exactly while its worker is at some stage: begin, settle and abandon
\* change both.
LEMMA TasksRunStep ==
    ASSUME TypeOK, TasksRun, [Next]_vars
    PROVE  TasksRun'
  <1> USE DEF TasksRun
  <1>0. /\ ledger \in [Jobs -> Outbox!LedgerStatus] /\ task \in [Jobs -> Task]
        /\ running \subseteq Jobs
    BY DEF TypeOK, Outbox!LedgerTypeOK
  <1>1. CASE \/ ProcessCase \/ AdvanceGate \/ CreateNote \/ CreateReopenRequest
             \/ \E d \in Docs : UploadEvidence(d) \/ ParseJob(d)
             \/ \E r \in Requests : Ask(r) \/ Handle(r)
    BY <1>0, <1>1, DeskKeepsJobs DEF Others
  <1>2. ASSUME NEW j \in Jobs, BeginJob(j) PROVE TasksRun'
    <2>1. task'[j].at # "idle" /\ \A k \in Jobs : k # j => task'[k] = task[k]
      BY <1>0, <1>2 DEF BeginJob, LoadDocuments, LoadThread, Worker
    <2>2. running' = running \union {j} /\ ledger' = ledger /\ ledger[j] = "owed"
      BY <1>2 DEF BeginJob, Outbox!Begin
    <2> QED
      BY <2>1, <2>2
  <1>3. ASSUME NEW j \in Jobs, Between(j) PROVE TasksRun'
    BY <1>3, BetweenMoves DEF jobVars
  <1>4. ASSUME NEW j \in Jobs, SettleJob(j) PROVE TasksRun'
    <2>1. PICK outcome \in {"done", "failed"} : Outbox!Settle(j, outcome)
      BY <1>4 DEF SettleJob
    <2>2. task' = [task EXCEPT ![j] = IdleTask]
      BY <1>4 DEF SettleJob
    <2> QED
      BY <1>0, <2>1, <2>2, ValuesTyped DEF Outbox!Settle
  <1>5. ASSUME NEW j \in Jobs, LoseRun(j) PROVE TasksRun'
    BY <1>0, <1>5, ValuesTyped DEF LoseRun, Outbox!Abandon
  <1>6. CASE UNCHANGED vars
    BY <1>6 DEF vars, jobVars
  <1> QED
    BY <1>1, <1>2, <1>3, <1>4, <1>5, <1>6 DEF Next, Work, Between

--------------------------------------------------------------------------------
(* Gates *)

\* A pause that was reached stays in the history of the thread.
LEMMA SeenGrows ==
    ASSUME TypeOK, [Next]_vars
    PROVE  thread.seen \subseteq thread'.seen
  <1> USE DEF caseVars
  <1>0. thread \in Thread
    BY DEF TypeOK
  <1>1. CASE \/ ProcessCase \/ AdvanceGate \/ CreateNote \/ CreateReopenRequest
             \/ \E d \in Docs : UploadEvidence(d) \/ ParseJob(d)
             \/ \E r \in Requests : Ask(r) \/ Handle(r)
    BY <1>1, DeskKeepsJobs
  <1>2. ASSUME NEW j \in Jobs, StartGraph(j) PROVE thread'.seen = thread.seen
    BY <1>0, <1>2 DEF StartGraph, Thread
  <1>3. ASSUME NEW j \in Jobs, PhaseEnds(j) PROVE thread.seen \subseteq thread'.seen
    BY <1>3 DEF PhaseEnds
  <1>4. ASSUME NEW j \in Jobs,
               \/ BeginJob(j) \/ GraphRaises(j) \/ Persist(j) \/ PersistFails(j) \/ Publish(j)
               \/ SettleJob(j) \/ LoseRun(j)
        PROVE  thread' = thread
    BY <1>4 DEF BeginJob, GraphRaises, Persist, PersistFails, Publish, SettleJob, LoseRun
  <1>5. CASE UNCHANGED vars
    BY <1>5 DEF vars
  <1> QED
    BY <1>1, <1>2, <1>3, <1>4, <1>5 DEF Next, Work

\* What the row may announce: gate 1 before its work is done, a gate that was reached, or
\* what it announced before.
LEMMA AnnouncedSeen ==
    ASSUME TypeOK, GatesSeen, [Next]_vars, gateState' = At(LastGate, TRUE)
    PROVE  LastGate \in thread.seen
  <1> USE DEF caseVars, rowVars
  <1>1. CASE gateState' = gateState
    BY <1>1 DEF GatesSeen
  <1>2. At(1, FALSE) # At(LastGate, TRUE)
    BY DEF At
  <1>3. ASSUME NEW g, gateState' = At(g, TRUE) PROVE g = LastGate
    BY <1>3 DEF At
  <1>4. ASSUME NEW r \in Requests, Handle(r) PROVE gateState' \in {gateState, At(1, FALSE)}
    BY <1>4 DEF Handle, SupplementWrites, DisputeWrites, NoteWrites, Reject, Approve, Sets
  <1>5. ASSUME NEW j \in Jobs, Persist(j) PROVE LastGate \in thread.seen
    <2>1. CASE job[j] = "gate1"
      <3>1. gateState' = GateStateOf(1)
        BY <1>5, <2>1 DEF Persist
      <3>2. gateState' = At(1, TRUE)
        BY <3>1 DEF GateStateOf
      <3> QED
        BY <1>3, <3>2
    <2>2. CASE job[j] # "gate1" /\ Pending = 0
      <3>1. gateState' = gateState
        BY <1>5, <2>2 DEF Persist
      <3> QED
        BY <1>1, <3>1
    <2>3. CASE job[j] # "gate1" /\ Pending # 0
      <3>1. gateState' = At(Pending, TRUE)
        BY <1>5, <2>3 DEF Persist, GateStateOf
      <3>2. Pending = LastGate
        BY <1>3, <3>1
      <3> QED
        BY <2>3, <3>2 DEF Pending, GatesSeen
    <2> QED
      BY <2>1, <2>2, <2>3
  <1>6. ASSUME NEW j \in Jobs, Publish(j) PROVE LastGate \in thread.seen
    BY <1>3, <1>6 DEF Publish, GateStateOf, GatesSeen
  <1>7. ASSUME \/ ProcessCase \/ AdvanceGate \/ CreateNote \/ CreateReopenRequest
               \/ \E d \in Docs : UploadEvidence(d) \/ ParseJob(d)
               \/ \E r \in Requests : Ask(r)
               \/ \E j \in Jobs : \/ BeginJob(j) \/ StartGraph(j) \/ PhaseEnds(j) \/ SettleJob(j)
                                  \/ GraphRaises(j) \/ PersistFails(j) \/ LoseRun(j)
        PROVE  gateState' = gateState
    BY <1>7 DEF ProcessCase, AdvanceGate, CreateNote, CreateReopenRequest, UploadEvidence, ParseJob,
       Ask, SupplementReads, DisputeReads, NoteReads, ReviewReads, BeginJob, StartGraph, PhaseEnds,
       SettleJob, GraphRaises, PersistFails, LoseRun
  <1>8. CASE UNCHANGED vars
    BY <1>1, <1>8 DEF vars
  <1> QED
    BY <1>1, <1>2, <1>4, <1>5, <1>6, <1>7, <1>8 DEF Next, Work

\* A task at its stage: its gate is known.
TaskPlaced(j) ==
    /\ task[j].at = "loaded" => task[j].n # 0
    /\ task[j].at = "loaded" /\ job[j] # "resume" => task[j].n = 1
    /\ task[j].at = "driving" => task[j].n \in Gates
    /\ task[j].at = "publishing" => task[j].n \in thread.seen

\* gate_state, the worker and the stored events keep to gates the thread has paused at.
LEMMA GatesSeenStep ==
    ASSUME TypeOK, TasksRun, GatesSeen, [Next]_vars
    PROVE  GatesSeen'
  <1> USE DEF caseVars, rowVars
  <1>0. /\ thread \in Thread /\ task \in [Jobs -> Task] /\ 1 \in Gates
        /\ job \in [Jobs -> {"pipeline", "gate1", "resume"}]
        /\ \A j \in Jobs : task[j].n \in 0 .. LastGate + 1 /\ task[j].at \in Stage
    BY DEF TypeOK, Gates, Task
  <1>1. \A j \in Jobs : TaskPlaced(j)
    BY DEF GatesSeen, TaskPlaced
  <1>2. thread.seen \subseteq thread'.seen
    BY SeenGrows
  <1>3. gateState' = At(LastGate, TRUE) => LastGate \in thread'.seen
    BY <1>2, AnnouncedSeen
  <1>4. ASSUME thread'.at = "gate" => thread'.n \in thread'.seen,
               \A k \in Jobs : TaskPlaced(k)',
               audited' => LastGate \in thread'.seen
        PROVE  GatesSeen'
    BY <1>3, <1>4 DEF GatesSeen, TaskPlaced
  <1>5. CASE \/ ProcessCase \/ AdvanceGate \/ CreateNote \/ CreateReopenRequest
             \/ \E d \in Docs : UploadEvidence(d) \/ ParseJob(d)
             \/ \E r \in Requests : Ask(r) \/ Handle(r)
    <2>1. UNCHANGED <<thread, audited, task>>
      BY <1>5, DeskKeepsJobs DEF Others
    <2>2. \A j \in Jobs : task[j].at # "idle" => job'[j] = job[j]
      BY <1>0, <1>5, DeskKeepsJobs DEF Others, TasksRun
    <2>3. \A j \in Jobs : TaskPlaced(j)'
      BY <1>1, <2>1, <2>2 DEF TaskPlaced
    <2>4. /\ thread'.at = "gate" => thread'.n \in thread'.seen
          /\ audited' => LastGate \in thread'.seen
      BY <2>1 DEF GatesSeen
    <2> QED
      BY <1>4, <2>3, <2>4
  <1> DEFINE Works(j) == \/ BeginJob(j) \/ StartGraph(j) \/ PhaseEnds(j) \/ GraphRaises(j)
                         \/ Persist(j) \/ PersistFails(j) \/ Publish(j) \/ SettleJob(j) \/ LoseRun(j)
  <1>6. ASSUME NEW j \in Jobs, Works(j)
        PROVE  /\ job' = job
               /\ \A k \in Jobs : k # j => task'[k] = task[k]
               /\ ~ Publish(j) => audited' = audited
    <2>1. job' = job /\ (~ Publish(j) => audited' = audited)
      BY <1>6 DEF BeginJob, StartGraph, PhaseEnds, GraphRaises, Persist, PersistFails, Publish,
         SettleJob, LoseRun, jobVars
    <2>2. CASE Between(j)
      BY <2>1, <2>2, BetweenMoves
    <2>3. CASE BeginJob(j) \/ SettleJob(j) \/ LoseRun(j)
      BY <1>0, <2>1, <2>3 DEF BeginJob, LoadDocuments, LoadThread, SettleJob, LoseRun
    <2> QED
      BY <1>6, <2>1, <2>2, <2>3 DEF Between
  <1>7. ASSUME NEW j \in Jobs, Works(j), TaskPlaced(j)',
               thread'.at = "gate" => thread'.n \in thread'.seen,
               Publish(j) => (audited' => LastGate \in thread'.seen)
        PROVE  GatesSeen'
    <2>1. \A k \in Jobs : TaskPlaced(k)'
      BY <1>1, <1>2, <1>6, <1>7 DEF TaskPlaced
    <2>2. audited' => LastGate \in thread'.seen
      BY <1>2, <1>6, <1>7 DEF GatesSeen
    <2> QED
      BY <1>4, <1>7, <2>1, <2>2
  <1>8. ASSUME NEW j \in Jobs, NEW at \in Stage \ {"loaded", "driving", "publishing"}, NEW n,
               task' = [task EXCEPT ![j] = Worker(at, n)]
        PROVE  TaskPlaced(j)'
    BY <1>0, <1>8 DEF TaskPlaced, Worker
  <1>9. ASSUME NEW j \in Jobs, BeginJob(j) PROVE GatesSeen'
    <2>1. thread' = thread
      BY <1>9 DEF BeginJob
    <2>2. TaskPlaced(j)'
      <3>1. CASE LoadDocuments(j)
        BY <1>0, <3>1 DEF LoadDocuments, TaskPlaced
      <3>2. CASE LoadThread(j) /\ job[j] = "gate1"
        <4>1. task'[j] = Worker("loaded", 1)
          BY <1>0, <3>2 DEF LoadThread
        <4> QED
          BY <4>1 DEF TaskPlaced, Worker
      <3>3. CASE LoadThread(j) /\ job[j] = "resume"
        <4>1. PICK at \in {"loaded", "raised"} : task'[j] = Worker(at, thread.n + 1)
          BY <1>0, <3>3 DEF LoadThread
        <4>2. job'[j] = "resume" /\ thread.n + 1 # 0
          BY <1>0, <1>6, <1>9, <3>3 DEF Thread
        <4> QED
          BY <4>1, <4>2 DEF TaskPlaced, Worker
      <3> QED
        BY <1>9, <3>1, <3>2, <3>3 DEF BeginJob, LoadThread
    <2>3. ~ Publish(j)
      BY <1>9 DEF BeginJob, Publish, Outbox!Begin, TasksRun
    <2>4. thread'.at = "gate" => thread'.n \in thread'.seen
      BY <2>1 DEF GatesSeen
    <2> QED
      BY <1>7, <1>9, <2>2, <2>3, <2>4
  <1>10. ASSUME NEW j \in Jobs, StartGraph(j) PROVE GatesSeen'
    <2>1. thread'.at # "gate"
      BY <1>0, <1>10 DEF StartGraph, Thread
    <2>2. task[j].at = "loaded"
      BY <1>10 DEF StartGraph
    <2>3. TaskPlaced(j)'
      <3>1. CASE task[j].n > LastGate
        BY <1>8, <1>10, <3>1 DEF StartGraph, Goto, Stage
      <3>2. CASE ~ (task[j].n > LastGate)
        <4>1. task[j].n \in Gates
          BY <1>0, <1>1, <2>2, <3>2 DEF TaskPlaced, Gates
        <4>2. task'[j] = Worker("driving", task[j].n)
          BY <1>0, <1>10, <3>2 DEF StartGraph, Goto
        <4> QED
          BY <4>1, <4>2 DEF TaskPlaced, Worker, Gates
      <3> QED
        BY <3>1, <3>2
    <2>4. ~ Publish(j)
      BY <2>2 DEF Publish
    <2> QED
      BY <1>7, <1>10, <2>1, <2>3, <2>4
  <1>11. ASSUME NEW j \in Jobs, PhaseEnds(j) PROVE GatesSeen'
    <2>1. thread'.n \in thread'.seen
      BY <1>11 DEF PhaseEnds
    <2>2. TaskPlaced(j)'
      BY <1>8, <1>11 DEF PhaseEnds, Goto, Stage
    <2>3. ~ Publish(j)
      BY <1>11 DEF PhaseEnds, Publish
    <2> QED
      BY <1>7, <1>11, <2>1, <2>2, <2>3
  <1>12. ASSUME NEW j \in Jobs, GraphRaises(j) \/ PersistFails(j) PROVE GatesSeen'
    <2>1. TaskPlaced(j)'
      BY <1>8, <1>12 DEF GraphRaises, PersistFails, Goto, Stage
    <2>2. thread' = thread /\ audited' = audited
      BY <1>12 DEF GraphRaises, PersistFails
    <2>3. /\ thread'.at = "gate" => thread'.n \in thread'.seen
          /\ audited' => LastGate \in thread'.seen
      BY <2>2 DEF GatesSeen
    <2> QED
      BY <1>7, <1>12, <2>1, <2>2, <2>3
  <1>13. ASSUME NEW j \in Jobs, Persist(j) PROVE GatesSeen'
    <2>1. thread' = thread /\ audited' = audited
      BY <1>13 DEF Persist
    <2>2. TaskPlaced(j)'
      <3>1. CASE job[j] = "gate1" \/ Pending = 0
        BY <1>8, <1>13, <3>1 DEF Persist, Stage
      <3>2. CASE ~ (job[j] = "gate1" \/ Pending = 0)
        <4>1. task'[j] = Worker("publishing", Pending)
          BY <1>0, <1>13, <3>2 DEF Persist
        <4>2. Pending \in thread.seen
          BY <3>2 DEF Pending, GatesSeen
        <4> QED
          BY <2>1, <4>1, <4>2 DEF TaskPlaced, Worker
      <3> QED
        BY <3>1, <3>2
    <2>3. /\ thread'.at = "gate" => thread'.n \in thread'.seen
          /\ audited' => LastGate \in thread'.seen
      BY <2>1 DEF GatesSeen
    <2> QED
      BY <1>7, <1>13, <2>1, <2>2, <2>3
  <1>14. ASSUME NEW j \in Jobs, Publish(j) PROVE GatesSeen'
    <2>1. TaskPlaced(j)'
      BY <1>8, <1>14 DEF Publish, Goto, Stage
    <2>2. thread' = thread
      BY <1>14 DEF Publish
    <2>3. audited' => LastGate \in thread.seen
      BY <1>14, Zenon DEF Publish, GatesSeen
    <2>4. thread'.at = "gate" => thread'.n \in thread'.seen
      BY <2>2 DEF GatesSeen
    <2> QED
      BY <1>7, <1>14, <2>1, <2>2, <2>3, <2>4
  <1>15. ASSUME NEW j \in Jobs, SettleJob(j) \/ LoseRun(j) PROVE GatesSeen'
    <2>1. TaskPlaced(j)'
      BY <1>8, <1>15 DEF SettleJob, LoseRun, IdleTask, Stage
    <2>2. thread' = thread /\ audited' = audited
      BY <1>15 DEF SettleJob, LoseRun
    <2>3. /\ thread'.at = "gate" => thread'.n \in thread'.seen
          /\ audited' => LastGate \in thread'.seen
      BY <2>2 DEF GatesSeen
    <2> QED
      BY <1>7, <1>15, <2>1, <2>2, <2>3
  <1>16. CASE UNCHANGED vars
    <2>1. UNCHANGED <<thread, audited, task, job>>
      BY <1>16 DEF vars, jobVars
    <2>2. \A k \in Jobs : TaskPlaced(k)'
      BY <1>1, <2>1 DEF TaskPlaced
    <2>3. /\ thread'.at = "gate" => thread'.n \in thread'.seen
          /\ audited' => LastGate \in thread'.seen
      BY <2>1 DEF GatesSeen
    <2> QED
      BY <1>4, <2>2, <2>3
  <1> QED
    BY <1>5, <1>9, <1>10, <1>11, <1>12, <1>13, <1>14, <1>15, <1>16 DEF Next, Work

--------------------------------------------------------------------------------
(* The judge's word *)

\* The steps that neither are a request's nor write facts or notes.
Quiet ==
    \/ ProcessCase \/ AdvanceGate \/ CreateReopenRequest
    \/ \E d \in Docs : UploadEvidence(d) \/ ParseJob(d)
    \/ \E j \in Jobs : \/ BeginJob(j) \/ StartGraph(j) \/ PhaseEnds(j) \/ Publish(j) \/ SettleJob(j)
                       \/ GraphRaises(j) \/ PersistFails(j) \/ LoseRun(j)

\* Of what the judge asked for and wrote, those steps change nothing.
LEMMA QuietKeepsWords ==
    ASSUME Quiet \/ UNCHANGED vars
    PROVE  UNCHANGED <<req, fact, note>>
  <1> USE DEF rowVars
  <1>1. CASE ProcessCase \/ AdvanceGate \/ CreateReopenRequest
    BY <1>1 DEF ProcessCase, AdvanceGate, CreateReopenRequest
  <1>2. CASE \E d \in Docs : UploadEvidence(d) \/ ParseJob(d)
    BY <1>2 DEF UploadEvidence, ParseJob
  <1>3. CASE \E j \in Jobs : \/ BeginJob(j) \/ StartGraph(j) \/ PhaseEnds(j) \/ Publish(j)
                             \/ SettleJob(j) \/ GraphRaises(j) \/ PersistFails(j) \/ LoseRun(j)
    BY <1>3 DEF BeginJob, StartGraph, PhaseEnds, Publish, SettleJob, GraphRaises, PersistFails, LoseRun
  <1>4. CASE UNCHANGED vars
    BY <1>4 DEF vars
  <1> QED
    BY <1>1, <1>2, <1>3, <1>4 DEF Quiet

\* A request that begins notes the operation, and what it read of the note; the facts and
\* the note stay as they are.
LEMMA Reading ==
    ASSUME TypeOK, NEW r \in Requests, Ask(r)
    PROVE  /\ UNCHANGED <<fact, note>>
           /\ \A s \in Requests : s # r => req'[s] = req[s]
           /\ req'[r].op = "dispute" => FactFree /\ fact.status \in {"unknown", "agreed"}
           /\ req'[r].op \in {"edit", "delete"} => req'[r].note = "open"
  <1> USE DEF rowVars
  <1>0. /\ req \in [Requests -> Asked] /\ status \in Status /\ gateState \in GateState
        /\ note.state \in {"none", "open", "locked"}
    BY DEF TypeOK, Note
  <1>1. CASE SupplementReads(r)
    <2>1. req' = [req EXCEPT ![r] = Request("supplement", status, gateState, "none")]
      BY <1>1 DEF SupplementReads
    <2>2. req'[r].op = "supplement"
      BY <1>0, <2>1, RequestTyped DEF Ops
    <2> QED
      BY <1>0, <1>1, <2>1, <2>2 DEF SupplementReads
  <1>2. CASE DisputeReads(r)
    <2>1. PICK s \in Status, g \in GateState : req' = [req EXCEPT ![r] = Request("dispute", s, g, "none")]
      BY <1>2, ValuesTyped, Zenon DEF DisputeReads
    <2>2. req'[r].op = "dispute"
      BY <1>0, <2>1, RequestTyped DEF Ops
    <2> QED
      BY <1>0, <1>2, <2>1, <2>2 DEF DisputeReads
  <1>3. CASE ReviewReads(r)
    <2>1. PICK g \in GateState : req' = [req EXCEPT ![r] = Request("review", status, g, "none")]
      BY <1>3, ValuesTyped, Zenon DEF ReviewReads
    <2>2. req'[r].op = "review"
      BY <1>0, <2>1, RequestTyped DEF Ops
    <2> QED
      BY <1>0, <1>3, <2>1, <2>2 DEF ReviewReads
  <1>4. ASSUME NEW op \in {"edit", "lock", "delete"}, NoteReads(r, op)
        PROVE  /\ UNCHANGED <<fact, note>>
               /\ \A s \in Requests : s # r => req'[s] = req[s]
               /\ req'[r].op = op
               /\ op # "lock" => req'[r].note = "open"
    <2>1. PICK s \in Status, g \in GateState : req' = [req EXCEPT ![r] = Request(op, s, g, note.state)]
      BY <1>4, ValuesTyped, Zenon DEF NoteReads
    <2>2. req'[r].op = op /\ req'[r].note = note.state
      BY <1>0, <2>1, RequestTyped DEF Ops
    <2> QED
      BY <1>0, <1>4, <2>1, <2>2 DEF NoteReads
  <1> QED
    BY <1>1, <1>2, <1>3, <1>4 DEF Ask

\* A request that answers is done.
LEMMA Answering ==
    ASSUME TypeOK, NEW r \in Requests, Handle(r)
    PROVE  /\ req'[r] = IdleRequest /\ req'[r].op = "none"
           /\ \A s \in Requests : s # r => req'[s] = req[s]
           /\ ~ DisputeWrites(r) => fact' = fact
           /\ ~ NoteWrites(r) => note' = note
  <1> USE DEF rowVars
  <1>1. Finish(r)
    BY DEF Handle, SupplementWrites, DisputeWrites, NoteWrites, Reject, Approve
  <1>2. req' = [req EXCEPT ![r] = IdleRequest] /\ req \in [Requests -> Asked]
    BY <1>1 DEF Finish, TypeOK
  <1>3. (~ DisputeWrites(r) => fact' = fact) /\ (~ NoteWrites(r) => note' = note)
    BY DEF Handle, SupplementWrites, DisputeWrites, NoteWrites, Reject, Approve
  <1> QED
    BY <1>2, <1>3, ValuesTyped

\* The facts are not replaced while a dispute holds the row, and a second dispute waits.
LEMMA DisputesAloneStep ==
    ASSUME TypeOK, DisputesAlone, [Next]_vars
    PROVE  DisputesAlone'
  <1> USE DEF rowVars
  <1>1. CASE Quiet \/ CreateNote \/ UNCHANGED vars
    <2>1. UNCHANGED <<req, fact>>
      BY <1>1, QuietKeepsWords DEF CreateNote
    <2> QED
      BY <2>1 DEF DisputesAlone
  <1>2. ASSUME NEW r \in Requests, Ask(r) PROVE DisputesAlone'
    <2>1. CASE req'[r].op = "dispute"
      BY <1>2, <2>1, Reading DEF DisputesAlone, FactFree
    <2>2. CASE req'[r].op # "dispute"
      BY <1>2, <2>2, Reading DEF DisputesAlone
    <2> QED
      BY <2>1, <2>2
  <1>3. ASSUME NEW r \in Requests, Handle(r) PROVE DisputesAlone'
    <2>1. CASE DisputeWrites(r)
      <3>1. \A s \in Requests : req'[s].op # "dispute"
        BY <1>3, <2>1, Answering DEF DisputesAlone, DisputeWrites
      <3>2. fact'.status = "disputed" /\ "dispute_reason" \in fact'.corroboration
        BY <2>1 DEF DisputeWrites
      <3> QED
        BY <3>1, <3>2 DEF DisputesAlone
    <2>2. CASE ~ DisputeWrites(r)
      BY <1>3, <2>2, Answering DEF DisputesAlone
    <2> QED
      BY <2>1, <2>2
  <1>4. ASSUME NEW j \in Jobs, Persist(j) PROVE DisputesAlone'
    <2>1. \A s \in Requests : req'[s].op # "dispute"
      BY <1>4 DEF Persist, FactFree
    <2>2. fact'.by = "nobody"
      BY <1>4 DEF Persist, NoFact
    <2> QED
      BY <2>1, <2>2 DEF DisputesAlone
  <1> QED
    BY <1>1, <1>2, <1>3, <1>4 DEF Next, Work, Quiet

\* A request that edits or deletes a note has found it unlocked.
LEMMA NotesReadStep ==
    ASSUME TypeOK, NotesRead, [Next]_vars
    PROVE  NotesRead'
  <1> USE DEF NotesRead
  <1>1. CASE Quiet \/ CreateNote \/ UNCHANGED vars
    <2>1. req' = req
      BY <1>1, QuietKeepsWords DEF CreateNote
    <2> QED
      BY <2>1
  <1>2. ASSUME NEW r \in Requests, Ask(r) PROVE NotesRead'
    BY <1>2, Reading
  <1>3. ASSUME NEW r \in Requests, Handle(r) PROVE NotesRead'
    BY <1>3, Answering
  <1>4. ASSUME NEW j \in Jobs, Persist(j) PROVE NotesRead'
    BY <1>4 DEF Persist
  <1> QED
    BY <1>1, <1>2, <1>3, <1>4 DEF Next, Work, Quiet

--------------------------------------------------------------------------------
(* Theorems *)

\* The invariant is inductive: it holds of a case that leaves the intake, and every step of
\* the judge, of a worker and of the parser keeps it.
LEMMA DeskInductive ==
    /\ Init => DeskInv
    /\ DeskInv /\ [Next]_vars => DeskInv'
  <1>1. ASSUME Init PROVE DeskInv
    <2>1. TypeOK
      BY <1>1, DeskInitTyped
    <2>2. TasksRun
      BY <1>1, ValuesTyped DEF Init, TasksRun, Outbox!LedgerInit
    <2>3. GatesSeen
      <3>1. gateState = At(0, FALSE) /\ At(0, FALSE) # At(LastGate, TRUE)
        BY <1>1, Zenon DEF Init, At
      <3>2. \A j \in Jobs : task[j].at = "idle"
        BY <1>1, ValuesTyped DEF Init
      <3>3. thread.at = "none" /\ audited = FALSE
        BY <1>1 DEF Init
      <3> QED
        BY <3>1, <3>2, <3>3 DEF GatesSeen
    <2>4. \A r \in Requests : req[r].op = "none"
      BY <1>1, ValuesTyped DEF Init
    <2>5. fact.by = "nobody"
      BY <1>1 DEF Init, NoFact
    <2> QED
      BY <2>1, <2>2, <2>3, <2>4, <2>5 DEF DeskInv, DisputesAlone, NotesRead
  <1>2. ASSUME DeskInv, [Next]_vars PROVE DeskInv'
    BY <1>2, DeskTypeStep, TasksRunStep, GatesSeenStep, DisputesAloneStep, NotesReadStep DEF DeskInv
  <1> QED
    BY <1>1, <1>2

\* Every row, every request and every worker of the case stays in its type, whatever the
\* runs, requests and faults that interleave (cases.py, case_data.py, hearing_notes.py).
THEOREM DeskTypeCorrect == Spec => []TypeOK
  <1>1. DeskInv => TypeOK
    BY DEF DeskInv
  <1> QED
    BY DeskInductive, <1>1, PTL DEF Spec

\* The judge's word stands, for any number of requests and of runs: only a run that replaces
\* the facts undoes a dispute, and a locked note only changes through a request that had read
\* it unlocked (dispute_fact, and the update and delete of hearing_notes.py).
THEOREM JudgesWordIsKept == Spec => JudgesWordStands
  <1> USE DEF rowVars
  <1> DEFINE Step == /\ fact.by # "nobody" /\ fact' # fact => fact'.by = "nobody"
                     /\ note.state = "locked" /\ note' # note =>
                           \E r \in Requests : req[r].note = "open" /\ req'[r] = IdleRequest
  <1>1. ASSUME DeskInv, [Next]_vars PROVE Step \/ UNCHANGED vars
    <2>1. TypeOK /\ DisputesAlone /\ NotesRead
      BY <1>1 DEF DeskInv
    <2>2. CASE Quiet \/ UNCHANGED vars
      BY <2>2, QuietKeepsWords
    <2>3. CASE CreateNote
      BY <2>3 DEF CreateNote
    <2>4. ASSUME NEW r \in Requests, Ask(r) PROVE Step
      BY <2>1, <2>4, Reading
    <2>5. ASSUME NEW r \in Requests, Handle(r) PROVE Step
      <3>1. fact.by # "nobody" => fact' = fact
        BY <2>1, <2>5, Answering DEF DisputesAlone, DisputeWrites
      <3>2. CASE NoteWrites(r)
        <4>1. note \in Note
          BY <2>1 DEF TypeOK
        <4>2. CASE req[r].op \in {"edit", "delete"}
          BY <2>1, <2>5, <3>1, <4>2, Answering DEF NotesRead
        <4>3. CASE req[r].op = "lock"
          <5>1. note.state = "locked" => note' = note
            BY <3>2, <4>1, <4>3 DEF NoteWrites, Note
          <5> QED
            BY <3>1, <5>1
        <4> QED
          BY <3>2, <4>2, <4>3 DEF NoteWrites
      <3>3. CASE ~ NoteWrites(r)
        BY <2>1, <2>5, <3>1, <3>3, Answering
      <3> QED
        BY <3>2, <3>3
    <2>6. ASSUME NEW j \in Jobs, Persist(j) PROVE Step
      <3>1. fact'.by = "nobody" /\ note' = note
        BY <2>6 DEF Persist, NoFact
      <3> QED
        BY <3>1
    <2> QED
      BY <1>1, <2>2, <2>3, <2>4, <2>5, <2>6 DEF Next, Work, Quiet
  <1>2. DeskInv /\ [Next]_vars => [Step]_vars
    BY <1>1
  <1> QED
    BY DeskInductive, <1>2, PTL DEF Spec, JudgesWordStands

--------------------------------------------------------------------------------
(* Pages *)

\* Only a resumed run whose graph is not paused closes the case.
LEMMA ClosedBy ==
    ASSUME [Next]_vars, status' = Plain("closed"), status # Plain("closed")
    PROVE  \E j \in Jobs : Persist(j) /\ job[j] = "resume" /\ Pending = 0
  <1> USE DEF caseVars
  <1>0. /\ Plain("closed") # Processing /\ Plain("closed") # Plain("failed")
        /\ Plain("closed") # Plain("pending") /\ \A g : Plain("closed") # Paused(g)
    BY DEF Plain, Processing, Paused
  <1>1. ~ ProcessCase /\ ~ AdvanceGate
    BY <1>0 DEF ProcessCase, AdvanceGate
  <1>2. ~ CreateNote /\ ~ CreateReopenRequest
    BY DEF CreateNote, CreateReopenRequest
  <1>3. ASSUME NEW d \in Docs, UploadEvidence(d) \/ ParseJob(d) PROVE FALSE
    BY <1>3 DEF UploadEvidence, ParseJob
  <1>4. ASSUME NEW r \in Requests, Ask(r) PROVE FALSE
    BY <1>4 DEF Ask, SupplementReads, DisputeReads, NoteReads, ReviewReads
  <1>5. ASSUME NEW r \in Requests, Handle(r) PROVE FALSE
    BY <1>0, <1>5 DEF Handle, SupplementWrites, DisputeWrites, NoteWrites, Reject, Approve, Sets
  <1>6. ASSUME NEW j \in Jobs,
               \/ BeginJob(j) \/ StartGraph(j) \/ PhaseEnds(j) \/ SettleJob(j)
               \/ PersistFails(j) \/ LoseRun(j)
        PROVE  FALSE
    BY <1>6 DEF BeginJob, StartGraph, PhaseEnds, SettleJob, PersistFails, LoseRun
  <1>7. ASSUME NEW j \in Jobs, GraphRaises(j) \/ Publish(j) PROVE FALSE
    BY <1>0, <1>7 DEF GraphRaises, Publish
  <1>8. ASSUME NEW j \in Jobs, Persist(j) PROVE job[j] = "resume" /\ Pending = 0
    <2>1. status' = StatusAfter(j)
      BY <1>8 DEF Persist
    <2> QED
      BY <1>0, <2>1 DEF StatusAfter
  <1>9. ~ UNCHANGED vars
    BY DEF vars
  <1> QED
    BY <1>1, <1>2, <1>3, <1>4, <1>5, <1>6, <1>7, <1>8, <1>9 DEF Next, Work

\* Where a resumed run is, the thread is too.
ResumePlaced(j) ==
    job[j] = "resume" => /\ task[j].at = "loaded" => thread.at = "gate" /\ task[j].n = thread.n + 1
                         /\ task[j].at = "persisting" => thread.at = "gate" \/ LastGate \in thread.seen

\* Runs that do not overlap leave the thread to each other.
LEMMA ClosedAtEndStep ==
    ASSUME MaxRuns <= 1, DeskInv, ClosedAtEnd, [Next]_vars
    PROVE  ClosedAtEnd'
  <1> USE DEF caseVars
  <1>0. /\ thread \in Thread /\ task \in [Jobs -> Task] /\ running \subseteq Jobs
        /\ job \in [Jobs -> {"pipeline", "gate1", "resume"}]
        /\ ledger \in [Jobs -> Outbox!LedgerStatus]
        /\ TypeOK /\ TasksRun /\ GatesSeen
    BY DEF DeskInv, TypeOK, Outbox!LedgerTypeOK
  <1>1. \A j \in Jobs : ResumePlaced(j)
    BY DEF ClosedAtEnd, ResumePlaced
  <1>2. thread.seen \subseteq thread'.seen
    BY <1>0, SeenGrows
  <1>3. status' = Plain("closed") => LastGate \in thread'.seen
    <2>1. SUFFICES ASSUME status' = Plain("closed"), status # Plain("closed")
                   PROVE  LastGate \in thread'.seen
      BY <1>2 DEF ClosedAtEnd
    <2>2. PICK j \in Jobs : Persist(j) /\ job[j] = "resume" /\ Pending = 0
      BY <2>1, ClosedBy
    <2>3. thread.at = "gate" \/ LastGate \in thread.seen
      BY <1>1, <2>2 DEF Persist, ResumePlaced
    <2>4. thread.at # "gate"
      BY <1>0, <2>2 DEF Pending, GatesSeen, Thread, Gates
    <2> QED
      BY <1>2, <2>3, <2>4
  <1>4. ASSUME \A i, j \in running' : i = j, \A j \in Jobs : ResumePlaced(j)'
        PROVE  ClosedAtEnd'
    BY <1>3, <1>4 DEF ClosedAtEnd, ResumePlaced
  <1>5. CASE \/ ProcessCase \/ AdvanceGate \/ CreateNote \/ CreateReopenRequest
             \/ \E d \in Docs : UploadEvidence(d) \/ ParseJob(d)
             \/ \E r \in Requests : Ask(r) \/ Handle(r)
    <2>1. UNCHANGED <<thread, task, running>>
      BY <1>0, <1>5, DeskKeepsJobs DEF Others
    <2>2. \A j \in Jobs : task[j].at # "idle" => job'[j] = job[j]
      BY <1>0, <1>5, DeskKeepsJobs DEF Others, TasksRun
    <2>3. \A j \in Jobs : ResumePlaced(j)'
      BY <1>1, <2>1, <2>2 DEF ResumePlaced
    <2> QED
      BY <1>4, <2>1, <2>3 DEF ClosedAtEnd
  <1>6. ASSUME NEW j \in Jobs, BeginJob(j) PROVE ClosedAtEnd'
    <2>1. running = {}
      <3>1. IsFiniteSet(running)
        <4>1. IsFiniteSet(Jobs)
          BY FS_Interval DEF Jobs
        <4> QED
          BY <1>0, <4>1, FS_Subset
      <3>2. Cardinality(running) = 0
        BY <1>6, <3>1, FS_CardinalityType DEF BeginJob
      <3> QED
        BY <3>1, <3>2, FS_EmptySet
    <2>2. running' = {j} /\ thread' = thread /\ job' = job
      BY <1>6, <2>1 DEF BeginJob, Outbox!Begin
    <2>3. \A k \in Jobs : k # j => task'[k] = task[k]
      BY <1>0, <1>6 DEF BeginJob, LoadDocuments, LoadThread
    <2>4. ResumePlaced(j)'
      <3>1. CASE LoadDocuments(j)
        BY <2>2, <3>1 DEF LoadDocuments, ResumePlaced
      <3>2. CASE LoadThread(j) /\ job[j] = "gate1"
        <4>1. job'[j] = "gate1"
          BY <2>2, <3>2
        <4> QED
          BY <4>1 DEF ResumePlaced
      <3>3. CASE LoadThread(j) /\ job[j] = "resume"
        <4>1. task'[j] = Worker(IF thread.at = "gate" THEN "loaded" ELSE "raised", thread.n + 1)
          BY <1>0, <3>3 DEF LoadThread
        <4> QED
          BY <2>2, <4>1 DEF ResumePlaced, Worker
      <3> QED
        BY <1>6, <3>1, <3>2, <3>3 DEF BeginJob, LoadThread
    <2>5. \A k \in Jobs : ResumePlaced(k)'
      BY <1>1, <2>2, <2>3, <2>4 DEF ResumePlaced
    <2> QED
      BY <1>4, <2>2, <2>5
  <1>7. ASSUME NEW j \in Jobs, task[j].at # "idle"
        PROVE  j \in running /\ \A k \in Jobs : k # j => task[k].at = "idle"
    BY <1>0, <1>7 DEF TasksRun, ClosedAtEnd
  <1>8. ASSUME NEW j \in Jobs, UNCHANGED jobVars, \A k \in Jobs : k # j => task'[k] = task[k],
               task[j].at # "idle", ResumePlaced(j)'
        PROVE  ClosedAtEnd'
    <2>1. \A k \in Jobs : k # j => ResumePlaced(k)'
      BY <1>7, <1>8 DEF ResumePlaced
    <2>2. running' = running
      BY <1>8 DEF jobVars
    <2> QED
      BY <1>4, <1>8, <2>1, <2>2 DEF ClosedAtEnd
  <1>9. ASSUME NEW j \in Jobs, StartGraph(j) PROVE ClosedAtEnd'
    <2>1. task[j].at = "loaded"
      BY <1>9 DEF StartGraph
    <2>2. job' = job
      BY <1>9 DEF StartGraph, jobVars
    <2>3. ASSUME job[j] = "resume", task[j].n > LastGate PROVE ResumePlaced(j)'
      <3>1. thread.at = "gate" /\ thread.n + 1 > LastGate
        BY <1>1, <2>1, <2>3 DEF ResumePlaced
      <3>2. thread.n = LastGate
        BY <1>0, <3>1 DEF Thread
      <3>3. LastGate \in thread'.seen
        BY <1>0, <1>2, <3>1, <3>2 DEF GatesSeen
      <3>4. task'[j].at = "persisting"
        BY <1>0, <1>9, <2>3 DEF StartGraph, Goto, Worker
      <3> QED
        BY <3>3, <3>4 DEF ResumePlaced
    <2>4. ASSUME job[j] # "resume" PROVE ResumePlaced(j)'
      <3>1. job'[j] # "resume"
        BY <2>2, <2>4
      <3> QED
        BY <3>1 DEF ResumePlaced
    <2>5. ASSUME ~ (task[j].n > LastGate) PROVE ResumePlaced(j)'
      <3>1. task' = [task EXCEPT ![j] = Worker("driving", task[j].n)]
        BY <1>9, <2>5 DEF StartGraph, Goto
      <3>2. task'[j].at = "driving"
        BY <1>0, <3>1 DEF Worker
      <3> QED
        BY <3>2 DEF ResumePlaced
    <2>6. ResumePlaced(j)'
      BY <2>3, <2>4, <2>5
    <2> QED
      BY <1>0, <1>8, <1>9, <2>1, <2>6, BetweenMoves DEF Between
  <1>10. ASSUME NEW j \in Jobs, PhaseEnds(j) PROVE ClosedAtEnd'
    <2>1. thread'.at = "gate" /\ task'[j] = Worker("persisting", task[j].n)
      BY <1>0, <1>10 DEF PhaseEnds, Goto
    <2>2. ResumePlaced(j)'
      BY <2>1 DEF ResumePlaced, Worker
    <2> QED
      BY <1>0, <1>8, <1>10, <2>2, BetweenMoves DEF Between
  <1>11. ASSUME NEW j \in Jobs, GraphRaises(j) \/ PersistFails(j) \/ Persist(j) \/ Publish(j)
         PROVE  ClosedAtEnd'
    <2>1. PICK at \in Stage \ {"loaded", "persisting"} : \E n : task' = [task EXCEPT ![j] = Worker(at, n)]
      BY <1>11 DEF GraphRaises, PersistFails, Persist, Publish, Goto, Stage
    <2>2. task'[j].at \notin {"loaded", "persisting"}
      BY <1>0, <2>1 DEF Worker
    <2>3. ResumePlaced(j)'
      BY <2>2 DEF ResumePlaced
    <2> QED
      BY <1>0, <1>8, <1>11, <2>3, BetweenMoves DEF Between
  <1>12. ASSUME NEW j \in Jobs, SettleJob(j) \/ LoseRun(j) PROVE ClosedAtEnd'
    <2>1. running' \subseteq running /\ task' = [task EXCEPT ![j] = IdleTask] /\ UNCHANGED <<job, thread>>
      BY <1>12 DEF SettleJob, LoseRun, Outbox!Settle, Outbox!Abandon
    <2>2. \A k \in Jobs : ResumePlaced(k)'
      BY <1>0, <1>1, <2>1, ValuesTyped DEF ResumePlaced
    <2> QED
      BY <1>4, <2>1, <2>2 DEF ClosedAtEnd
  <1>13. CASE UNCHANGED vars
    <2>1. UNCHANGED <<running, job, task, thread>>
      BY <1>13 DEF vars, jobVars
    <2> QED
      BY <1>1, <1>4, <2>1 DEF ResumePlaced, ClosedAtEnd
  <1> QED
    BY <1>5, <1>6, <1>9, <1>10, <1>11, <1>12, <1>13 DEF Next, Work

\* A fact the judge disputed is contested on every page, whatever the runs do.
LEMMA DisputeIsShown ==
    DisputesAlone => DisputeShows
  BY DEF DisputesAlone, DisputeShows, Facts, Contradictions, DisputedIssues, EvidenceGaps, PackGaps

\* What a poll says of a case that is not closed comes from gate_state, and the audit phase
\* is the one the audit log knows nothing of (_derive_agent_status).
LEMMA OpenIsSeen ==
    ASSUME DeskInv
    PROVE  OpenPagesAgree
  <1>1. DisputeShows
    BY DisputeIsShown DEF DeskInv
  <1>2. AuditShown => LastGate \in thread.seen
    BY DEF DeskInv, GatesSeen, AuditShown
  <1>3. ASSUME "completed" \in Polled, status # Plain("closed") PROVE LastGate \in thread.seen
    <2>1. PICK called \in SUBSET (1 .. LastGate - 1) : OverallStatus(called) = "completed"
      BY <1>3 DEF Polled
    <2>2. Completed(called) = Gates
      BY <1>3, <2>1 DEF OverallStatus
    <2>3. gateState \in GateState
      BY DEF DeskInv, TypeOK
    <2>4. LastGate \in 1 .. (IF gateState.awaiting THEN gateState.gate
                             ELSE IF gateState.gate = 0 THEN 0 ELSE gateState.gate - 1)
      BY <1>3, <2>1, <2>2 DEF Completed, Gates
    <2>5. gateState.gate = LastGate /\ gateState.awaiting = TRUE
      BY <2>3, <2>4 DEF GateState
    <2>6. gateState = At(LastGate, TRUE)
      BY <2>3, <2>5 DEF GateState, At
    <2> QED
      BY <2>6 DEF DeskInv, GatesSeen
  <1> QED
    BY <1>1, <1>2, <1>3 DEF OpenPagesAgree

\* The status of a closed case says that its analysis is complete, on every page
\* (_derive_overall_status, _build_pipeline_progress).
LEMMA CompleteIsSeen ==
    ASSUME OpenPagesAgree, status = Plain("closed") => LastGate \in thread.seen
    PROVE  PagesAgree
  BY DEF OpenPagesAgree, PagesAgree, CompleteIsAudited, ListedAsComplete

\* However many runs of the case overlap, and whatever is lost: a disputed fact shows as
\* contested, a fairness audit is shown only when the audit has run, and a case that is not
\* closed is not polled as complete before that (get_fairness_audit, get_pipeline_status
\* and the evidence pages of case_data.py).
THEOREM OpenPagesTellTheTruth == Spec => []OpenPagesAgree
  <1>1. DeskInv => OpenPagesAgree
    BY OpenIsSeen
  <1> QED
    BY DeskInductive, <1>1, PTL DEF Spec

\* Without overlapping runs of the case, no page announces the analysis as complete, nor
\* shows a fairness audit, before the audit has run, and every disputed fact shows as
\* contested (_derive_overall_status, _build_pipeline_progress, get_fairness_audit and the
\* evidence pages of case_data.py).
THEOREM PagesTellTheTruth ==
    ASSUME MaxRuns <= 1
    PROVE  Spec => []PagesAgree
  <1>1. Init => ClosedAtEnd
    <2>1. SUFFICES ASSUME Init PROVE ClosedAtEnd
      OBVIOUS
    <2>2. running = {} /\ status # Plain("closed")
      BY <2>1 DEF Init, Outbox!LedgerInit, Plain
    <2>3. \A j \in Jobs : job[j] = "pipeline"
      BY <2>1 DEF Init
    <2> QED
      BY <2>2, <2>3 DEF ClosedAtEnd
  <1>2. DeskInv /\ ClosedAtEnd /\ [Next]_vars => ClosedAtEnd'
    BY ClosedAtEndStep
  <1>3. DeskInv /\ ClosedAtEnd => PagesAgree
    BY OpenIsSeen, CompleteIsSeen DEF ClosedAtEnd
  <1> QED
    BY DeskInductive, <1>1, <1>2, <1>3, PTL DEF Spec

--------------------------------------------------------------------------------
(* Reopenings *)

\* Documents are never taken from a case.
LEMMA StoredGrows ==
    ASSUME TypeOK, [Next]_vars
    PROVE  Stored \subseteq Stored'
  <1> USE DEF Stored
  <1>0. doc \in [Docs -> Doc]
    BY DEF TypeOK
  <1>1. ASSUME NEW d \in Docs, NEW via \in {"evidence", "supplement"}, Store(d, via)
        PROVE  Stored \subseteq Stored'
    BY <1>0, <1>1 DEF Store
  <1>2. CASE ProcessCase \/ AdvanceGate \/ CreateNote \/ CreateReopenRequest
    BY <1>2 DEF ProcessCase, AdvanceGate, CreateNote, CreateReopenRequest
  <1>3. ASSUME NEW d \in Docs, UploadEvidence(d) PROVE Stored \subseteq Stored'
    BY <1>1, <1>3 DEF UploadEvidence
  <1>4. ASSUME NEW d \in Docs, ParseJob(d) PROVE Stored \subseteq Stored'
    <2>1. \A e \in Docs : doc'[e].via = doc[e].via
      BY <1>0, <1>4 DEF ParseJob, Doc
    <2> QED
      BY <2>1
  <1>5. ASSUME NEW r \in Requests, Ask(r) PROVE doc' = doc
    BY <1>5 DEF Ask, SupplementReads, DisputeReads, NoteReads, ReviewReads
  <1>6. ASSUME NEW r \in Requests, SupplementWrites(r) PROVE Stored \subseteq Stored'
    BY <1>1, <1>6 DEF SupplementWrites
  <1>7. ASSUME NEW r \in Requests, Handle(r), ~ SupplementWrites(r) PROVE doc' = doc
    BY <1>7 DEF Handle, DisputeWrites, NoteWrites, Reject, Approve
  <1>8. ASSUME NEW j \in Jobs, LoadDocuments(j) PROVE Stored \subseteq Stored'
    <2>1. \A e \in Docs : doc'[e].via = doc[e].via
      BY <1>0, <1>8 DEF LoadDocuments, Doc
    <2> QED
      BY <2>1
  <1>9. ASSUME NEW j \in Jobs, BeginJob(j) PROVE Stored \subseteq Stored'
    BY <1>8, <1>9 DEF BeginJob, LoadThread
  <1>10. ASSUME NEW j \in Jobs, Between(j) \/ SettleJob(j) \/ LoseRun(j) PROVE doc' = doc
    BY <1>10 DEF Between, StartGraph, PhaseEnds, GraphRaises, Persist, PersistFails, Publish,
                 SettleJob, LoseRun
  <1>11. CASE UNCHANGED vars
    BY <1>11 DEF vars
  <1> QED
    BY <1>2, <1>3, <1>4, <1>5, <1>6, <1>7, <1>9, <1>10, <1>11 DEF Next, Work, Between

\* A reopening stands: only an approval adds what is to be read, together with the job that
\* reads it, and what a worker takes off the list is what it gives to the graph.
LEMMA ReopeningStep ==
    ASSUME TypeOK, TasksRun, ReopeningStands, [Next]_vars
    PROVE  ReopeningStands'
  <1>0. /\ ledger \in [Jobs -> Outbox!LedgerStatus] /\ task \in [Jobs -> Task]
        /\ running \subseteq Jobs /\ job \in [Jobs -> {"pipeline", "gate1", "resume"}]
    BY DEF TypeOK, Outbox!LedgerTypeOK
  <1>1. Stored \subseteq Stored'
    BY StoredGrows
  <1>2. /\ \A j \in running : ledger[j] = "owed"
        /\ unread \subseteq Stored
        /\ \A d \in unread : \E j \in Jobs : WillRead(j, d)
    BY DEF ReopeningStands, ReopeningIsOwed
  <1>3. ASSUME \A j \in running' : ledger'[j] = "owed",
               unread' \subseteq unread,
               NEW j \in Jobs,
               \A k \in Jobs : k # j /\ ledger[k] # "absent" =>
                  /\ job'[k] = job[k] /\ ledger'[k] = ledger[k] /\ task'[k] = task[k],
               \A d \in unread' : WillRead(j, d) => WillRead(j, d)'
        PROVE  ReopeningStands'
    <2>1. unread' \subseteq Stored'
      BY <1>1, <1>2, <1>3
    <2>2. ASSUME NEW d \in unread' PROVE \E k \in Jobs : WillRead(k, d)'
      <3>1. PICK k \in Jobs : WillRead(k, d)
        BY <1>2, <1>3, <2>2
      <3>2. CASE k = j
        BY <1>3, <2>2, <3>1, <3>2
      <3>3. CASE k # j
        <4>1. job'[k] = job[k] /\ ledger'[k] = ledger[k] /\ task'[k] = task[k]
          BY <1>3, <3>1, <3>3 DEF WillRead
        <4> QED
          BY <3>1, <4>1 DEF WillRead
      <3> QED
        BY <3>2, <3>3
    <2> QED
      BY <1>3, <2>1, <2>2 DEF ReopeningStands, ReopeningIsOwed
  <1>4. ASSUME UNCHANGED <<running, task>>,
               \/ Others
               \/ \E j \in Jobs, kind \in {"pipeline", "gate1", "resume"} :
                     /\ ledger[j] = "absent" /\ ledger' = [ledger EXCEPT ![j] = "owed"]
                     /\ job' = [job EXCEPT ![j] = kind]
        PROVE  /\ \A k \in running' : ledger'[k] = "owed"
               /\ \A k \in Jobs : ledger[k] # "absent" =>
                     job'[k] = job[k] /\ ledger'[k] = ledger[k] /\ task'[k] = task[k]
    BY <1>0, <1>2, <1>4 DEF Others
  <1>5. CASE /\ \/ ProcessCase \/ AdvanceGate \/ CreateNote \/ CreateReopenRequest
                \/ \E d \in Docs : UploadEvidence(d) \/ ParseJob(d)
                \/ \E r \in Requests : Ask(r) \/ Handle(r)
             /\ unread' = unread
    <2>1. /\ \A k \in running' : ledger'[k] = "owed"
          /\ \A k \in Jobs : ledger[k] # "absent" =>
                job'[k] = job[k] /\ ledger'[k] = ledger[k] /\ task'[k] = task[k]
      BY <1>4, <1>5, DeskKeepsJobs DEF Others
    <2>2. ASSUME NEW d \in unread, NEW k \in Jobs, WillRead(k, d) PROVE WillRead(k, d)'
      <3>1. job'[k] = job[k] /\ ledger'[k] = ledger[k] /\ task'[k] = task[k]
        BY <2>1, <2>2 DEF WillRead
      <3> QED
        BY <2>2, <3>1 DEF WillRead
    <2> QED
      BY <1>1, <1>2, <1>5, <2>1, <2>2 DEF ReopeningStands, ReopeningIsOwed
  <1>6. ASSUME NEW r \in Requests, Approve(r) PROVE ReopeningStands'
    <2>1. EnqueueJob("pipeline") /\ task' = task /\ doc' = doc /\ unread' = unread \union Stored
      BY <1>6 DEF Approve
    <2>2. PICK j \in Jobs : /\ ledger[j] = "absent" /\ ledger' = [ledger EXCEPT ![j] = "owed"]
                           /\ job' = [job EXCEPT ![j] = "pipeline"] /\ running' = running
      BY <2>1, Enqueued
    <2>3. task[j].at = "idle"
      BY <2>2 DEF TasksRun
    <2>4. \A d \in unread' : WillRead(j, d)'
      BY <1>0, <2>1, <2>2, <2>3 DEF WillRead
    <2>5. \A k \in running' : ledger'[k] = "owed"
      BY <1>0, <1>2, <2>2
    <2>6. unread' \subseteq Stored'
      BY <1>1, <1>2, <2>1
    <2> QED
      BY <2>4, <2>5, <2>6 DEF ReopeningStands, ReopeningIsOwed
  <1>7. ASSUME NEW j \in Jobs, BeginJob(j) PROVE ReopeningStands'
    <2>1. /\ ledger[j] = "owed" /\ ledger' = ledger /\ running' = running \union {j}
          /\ job' = job /\ unread' = unread /\ j \notin running
      BY <1>7 DEF BeginJob, Outbox!Begin
    <2>2. \A k \in Jobs : k # j => task'[k] = task[k]
      BY <1>0, <1>7 DEF BeginJob, LoadDocuments, LoadThread
    <2>3. ASSUME NEW d \in unread', WillRead(j, d) PROVE WillRead(j, d)'
      <3>1. job[j] = "pipeline"
        BY <2>3 DEF WillRead
      <3>2. LoadDocuments(j)
        BY <1>7, <3>1 DEF BeginJob, LoadThread
      <3>3. task'[j].at = "loaded" /\ task'[j].docs = Stored
        BY <1>0, <3>2 DEF LoadDocuments
      <3>4. d \in Stored
        BY <1>2, <2>1, <2>3
      <3> QED
        BY <2>1, <3>1, <3>3, <3>4 DEF WillRead
    <2>4. \A k \in running' : ledger'[k] = "owed"
      BY <1>2, <2>1
    <2> QED
      BY <1>3, <2>1, <2>2, <2>3, <2>4
  <1>8. ASSUME NEW j \in Jobs, StartGraph(j) PROVE ReopeningStands'
    <2>1. /\ UNCHANGED jobVars /\ \A k \in Jobs : k # j => task'[k] = task[k]
      BY <1>8, BetweenMoves DEF Between
    <2>2. /\ task[j].at = "loaded"
          /\ unread' = unread \ (IF job[j] = "pipeline" THEN task[j].docs ELSE {})
      BY <1>8 DEF StartGraph
    <2>3. ledger[j] = "owed"
      BY <1>2, <2>2 DEF TasksRun
    <2>4. \A d \in unread' : ~ WillRead(j, d)
      BY <2>2, <2>3 DEF WillRead
    <2>5. unread' \subseteq unread
      BY <2>2
    <2> QED
      BY <1>2, <1>3, <2>1, <2>4, <2>5 DEF jobVars
  <1>9. ASSUME NEW j \in Jobs, task[j].at \notin {"idle", "loaded"}, NEW d
        PROVE  ~ WillRead(j, d)
    <2>1. ledger[j] = "owed"
      BY <1>2, <1>9 DEF TasksRun
    <2> QED
      BY <1>9, <2>1 DEF WillRead
  <1>10. ASSUME NEW j \in Jobs, Between(j), ~ StartGraph(j) PROVE ReopeningStands'
    <2>1. /\ UNCHANGED jobVars /\ \A k \in Jobs : k # j => task'[k] = task[k]
      BY <1>10, BetweenMoves
    <2>2. task[j].at \notin {"idle", "loaded"} /\ unread' = unread
      BY <1>10 DEF Between, PhaseEnds, GraphRaises, Persist, PersistFails, Publish
    <2> QED
      BY <1>2, <1>3, <1>9, <2>1, <2>2 DEF jobVars
  <1>11. ASSUME NEW j \in Jobs, SettleJob(j) PROVE ReopeningStands'
    <2>1. PICK outcome \in {"done", "failed"} : Outbox!Settle(j, outcome)
      BY <1>11 DEF SettleJob
    <2>2. /\ task' = [task EXCEPT ![j] = IdleTask] /\ job' = job /\ unread' = unread
          /\ task[j].at \notin {"idle", "loaded"}
      BY <1>11 DEF SettleJob
    <2>3. ledger' = [ledger EXCEPT ![j] = outcome] /\ running' = running \ {j}
      BY <2>1 DEF Outbox!Settle
    <2>4. \A k \in running' : ledger'[k] = "owed"
      BY <1>0, <1>2, <2>3
    <2>5. \A k \in Jobs : k # j => ledger'[k] = ledger[k] /\ task'[k] = task[k]
      BY <1>0, <2>2, <2>3
    <2> QED
      BY <1>3, <1>9, <2>2, <2>4, <2>5
  <1>12. ASSUME NEW j \in Jobs, LoseRun(j) PROVE ReopeningStands'
    <2>1. /\ task' = [task EXCEPT ![j] = IdleTask] /\ job' = job /\ unread' = unread
          /\ ledger' = ledger /\ running' = running \ {j}
      BY <1>12 DEF LoseRun, Outbox!Abandon
    <2>2. task'[j].at = "idle"
      BY <1>0, <2>1, ValuesTyped
    <2>3. \A d \in unread' : WillRead(j, d) => WillRead(j, d)'
      BY <2>1, <2>2 DEF WillRead
    <2>4. \A k \in Jobs : k # j => task'[k] = task[k]
      BY <1>0, <2>1
    <2> QED
      BY <1>2, <1>3, <2>1, <2>3, <2>4
  <1>13. CASE UNCHANGED vars
    <2>1. UNCHANGED <<unread, running, ledger, job, task, doc>>
      BY <1>13 DEF vars, jobVars
    <2> QED
      BY <2>1 DEF ReopeningStands, ReopeningIsOwed, WillRead, Stored
  <1>14. ASSUME \/ ProcessCase \/ AdvanceGate \/ CreateNote \/ CreateReopenRequest
                \/ \E d \in Docs : UploadEvidence(d) \/ ParseJob(d)
                \/ \E r \in Requests : Ask(r) \/ Handle(r),
                \A r \in Requests : ~ Approve(r)
         PROVE  unread' = unread
    BY <1>14 DEF ProcessCase, AdvanceGate, CreateNote, CreateReopenRequest, UploadEvidence,
         ParseJob, Ask, SupplementReads, DisputeReads, NoteReads, ReviewReads, Handle,
         SupplementWrites, DisputeWrites, NoteWrites, Reject
  <1> QED
    BY <1>5, <1>6, <1>7, <1>8, <1>10, <1>11, <1>12, <1>13, <1>14 DEF Next, Work, Between

\* No reopening is forgotten: for any number of approvals, runs that overlap and runs that are
\* lost, a document that was on file when a reopening was approved and that no run has been
\* given since is owed by a run that will load it, or its job has failed
\* (review_reopen_request, _run_case_pipeline and the outbox).
THEOREM NoReopeningIsForgotten == Spec => []ReopeningIsOwed
  <1>1. Init => ReopeningStands
    BY DEF Init, ReopeningStands, ReopeningIsOwed, Outbox!LedgerInit
  <1>2. DeskInv /\ ReopeningStands /\ [Next]_vars => ReopeningStands'
    BY ReopeningStep DEF DeskInv
  <1>3. ReopeningStands => ReopeningIsOwed
    BY DEF ReopeningStands
  <1> QED
    BY DeskInductive, <1>1, <1>2, <1>3, PTL DEF Spec

\* The desk uses the outbox and never its rows otherwise: the runs an upload, an advance or
\* an approved reopening queues behave as JobLedger promises.
THEOREM DeskKeepsTheLedger == Spec => Outbox!LedgerSpec
  <1>1. Init => Outbox!LedgerInit
    BY DEF Init
  <1>2. DeskInv /\ [Next]_vars => [Outbox!LedgerNext]_<<ledger, running>>
    <2> SUFFICES ASSUME DeskInv, [Next]_vars PROVE [Outbox!LedgerNext]_<<ledger, running>>
      OBVIOUS
    <2>0. TypeOK
      BY DEF DeskInv
    <2>1. CASE \/ ProcessCase \/ AdvanceGate \/ CreateNote \/ CreateReopenRequest
               \/ \E d \in Docs : UploadEvidence(d) \/ ParseJob(d)
               \/ \E r \in Requests : Ask(r) \/ Handle(r)
      BY <2>0, <2>1, DeskKeepsJobs DEF Others, Outbox!LedgerNext, Outbox!Submit
    <2>2. ASSUME NEW j \in Jobs, BeginJob(j) PROVE Outbox!LedgerNext
      BY <2>2 DEF BeginJob, Outbox!LedgerNext
    <2>3. ASSUME NEW j \in Jobs, Between(j) PROVE UNCHANGED <<ledger, running>>
      BY <2>0, <2>3, BetweenMoves DEF jobVars
    <2>4. ASSUME NEW j \in Jobs, SettleJob(j) PROVE Outbox!LedgerNext
      BY <2>4 DEF SettleJob, Outbox!LedgerNext
    <2>5. ASSUME NEW j \in Jobs, LoseRun(j) PROVE Outbox!LedgerNext
      <3>1. Outbox!Abandon({j}) /\ {j} \in SUBSET running
        BY <2>5 DEF LoseRun
      <3> QED
        BY <3>1 DEF Outbox!LedgerNext
    <2>6. CASE UNCHANGED vars
      BY <2>6 DEF vars, jobVars
    <2> QED
      BY <2>1, <2>2, <2>3, <2>4, <2>5, <2>6 DEF Next, Work, Between
  <1> QED
    BY DeskInductive, <1>1, <1>2, PTL DEF Spec, Outbox!LedgerSpec, Outbox!ledgerVars
=================================================================================
