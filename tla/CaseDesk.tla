-------------------------------- MODULE CaseDesk --------------------------------
(***************************************************************************)
(* What the judge of one case works with while the pipeline runs: the      *)
(* documents of the case, the facts it rests on, hearing notes, requests   *)
(* to reopen it, and the pages that show all of this.                      *)
(*                                                                         *)
(* Documents are parsed by a job of their own and reach the graph only     *)
(* through the initial state of a run.  A run replaces the facts the judge *)
(* is working on.  GateReview has the gates themselves: cancellations,     *)
(* send_back, the watchdog and the races between two decisions are there,  *)
(* and here the judge only advances.                                       *)
(***************************************************************************)
EXTENDS Naturals, FiniteSets

CONSTANTS Docs,         \* documents
          Filed,        \* those the case has when it leaves the intake
          NumJobs,      \* bound: rows that drive the graph
          MaxRuns,      \* bound: those that are run at the same time
          Requests,     \* API requests that can be in progress at a time
          LastGate,     \* gates of the graph (four in the code)
          Menus,        \* bound: the judge's acts in one behaviour are from one of these
          MaxActs,      \* bound: number of them, creating a note or a request aside
          MaxFaults     \* bound: lost runs and failed calls

Jobs == 1 .. NumJobs
Gates == 1 .. LastGate

Acts == {"supplement", "evidence", "dispute", "note", "reopen"}

ASSUME DeskAssumption ==
    /\ Filed \subseteq Docs
    /\ Menus \subseteq SUBSET Acts
    /\ NumJobs \in Nat /\ MaxRuns \in Nat
    /\ LastGate \in Nat \ {0, 1}
    /\ MaxActs \in Nat /\ MaxFaults \in Nat

VARIABLES
    status,     \* cases.status
    gateState,  \* cases.gate_state: the gate, and whether it awaits the judge
    thread,     \* newest checkpoint: where it is, gates paused at, raw_documents, and
                \* the fact research came to
    doc,        \* the documents rows
    ledger,     \* JobLedger
    running,    \* JobLedger
    job,        \* what each row runs
    task,       \* progress of the worker that runs it
    fact,       \* the row of the fact
    audited,    \* the gate-4 interrupt is among the stored pipeline events
    note,       \* a hearing note
    reopen,     \* a reopen request
    req,        \* progress of each API request
    unread,     \* observer: documents of an approved reopening no run has read since
    menu, acts, faults

actVars  == <<menu, acts>>
caseVars == <<status, gateState, thread>>
jobVars  == <<ledger, running, job>>
rowVars  == <<fact, audited, note, reopen>>
vars     == <<caseVars, doc, jobVars, task, rowVars, req, unread, actVars, faults>>

Outbox == INSTANCE JobLedger

-----------------------------------------------------------------------------
(* Values.                                                                 *)

Plain(s) == [is |-> s, gate |-> 0]
Paused(g) == [is |-> "awaiting_review", gate |-> g]
Status == {Plain(s) : s \in {"pending", "processing", "failed", "closed"}}
              \union {Paused(g) : g \in Gates}
Processing == Plain("processing")

GateState == [gate : 0 .. LastGate, awaiting : BOOLEAN]
At(g, awaiting) == [gate |-> g, awaiting |-> awaiting]

Doc == [via : {"none", "filed", "evidence", "supplement"}, file : BOOLEAN, text : BOOLEAN,
        parse : {"none", "owed", "settled"}]
NoDoc == [via |-> "none", file |-> FALSE, text |-> FALSE, parse |-> "none"]
FiledDoc == [via |-> "filed", file |-> TRUE, text |-> FALSE, parse |-> "settled"]
Stored == {d \in Docs : doc[d].via # "none"}

\* The phase whose output is the facts.
Research == 2

\* A fact as an agent states it, and the row: by is the request that disputed it.
Claim == {c \in [status : {"unknown", "agreed", "disputed"}, corroboration : SUBSET {"conflicts"},
                 reason : BOOLEAN] : c.reason => c.status = "disputed" /\ c.corroboration = {}}
Thread == [at : {"none", "phase", "gate", "end"}, n : 0 .. LastGate, seen : SUBSET Gates,
           docs : SUBSET Docs, claim : Claim]
NoClaim == [status |-> "unknown", corroboration |-> {}, reason |-> FALSE]
Fact == [status : {"absent", "unknown", "agreed", "disputed"},
         corroboration : SUBSET {"conflicts", "dispute_reason"},
         by : Requests \union {"nobody"}]
NoFact == [status |-> "absent", corroboration |-> {}, by |-> "nobody"]

Note == [state : {"none", "open", "locked"}, edits : {0, 1}]
NoNote == [state |-> "none", edits |-> 0]

Stage == {"idle", "loaded", "driving", "persisting", "publishing", "raised", "returned"}
Task == [at : Stage, n : 0 .. LastGate + 1, docs : SUBSET Docs]
Worker(at, n) == [at |-> at, n |-> n, docs |-> {}]
IdleTask == Worker("idle", 0)

Ops == {"supplement", "dispute", "edit", "lock", "delete", "review"}
Asked == [op : Ops \union {"none"}, status : Status, gateState : GateState,
          note : {"none", "open", "locked"}]
Request(op, s, g, n) == [op |-> op, status |-> s, gateState |-> g, note |-> n]
IdleRequest == Request("none", Plain("pending"), At(0, FALSE), "none")

Init ==
    /\ status = Plain("pending") /\ gateState = At(0, FALSE)
    /\ thread = [at |-> "none", n |-> 0, seen |-> {}, docs |-> {}, claim |-> NoClaim]
    /\ doc = [d \in Docs |-> IF d \in Filed
                             THEN FiledDoc ELSE NoDoc]
    /\ Outbox!LedgerInit
    /\ job = [j \in Jobs |-> "pipeline"]
    /\ task = [j \in Jobs |-> IdleTask]
    /\ fact = NoFact /\ audited = FALSE /\ note = NoNote /\ reopen = "none"
    /\ req = [r \in Requests |-> IdleRequest]
    /\ unread = {} /\ menu \in Menus /\ acts = 0 /\ faults = 0

Act(a) == a \in menu /\ acts < MaxActs /\ acts' = acts + 1 /\ UNCHANGED menu
Fault == faults < MaxFaults /\ faults' = faults + 1

-----------------------------------------------------------------------------
(* Starting and advancing a run (see GateReview).                          *)

EnqueueJob(kind) ==
    \E j \in Jobs : /\ \A i \in Jobs : i < j => ledger[i] # "absent"
                    /\ Outbox!Submit(j)
                    /\ job' = [job EXCEPT ![j] = kind]

ProcessCase ==
    /\ status = Plain("pending") /\ Stored # {}
    /\ status' = Processing
    /\ EnqueueJob("pipeline")
    /\ UNCHANGED <<gateState, thread, doc, task, rowVars, req, unread, actVars, faults>>

AdvanceGate ==
    /\ \E g \in 1 .. LastGate - 1 : status = Paused(g)
    /\ status' = Processing
    /\ EnqueueJob("resume")
    /\ UNCHANGED <<gateState, thread, doc, task, rowVars, req, unread, actVars, faults>>

-----------------------------------------------------------------------------
(* Documents.                                                              *)

\* A row, and a parse job if the file reached OpenAI.
Store(d, via) ==
    \E file \in BOOLEAN :
      doc' = [doc EXCEPT ![d] = [via |-> via, file |-> file, text |-> FALSE,
                                 parse |-> IF file THEN "owed" ELSE "none"]]

\* Bound: every request that uploads has a document of its own.
DocToUpload ==
    Cardinality({r \in Requests : req[r].op = "supplement"}) < Cardinality(Docs \ Stored)

\* upload_documents of a case that has left the intake.
UploadEvidence(d) ==
    /\ d \notin Stored /\ DocToUpload /\ Act("evidence")
    /\ Store(d, "evidence")
    /\ UNCHANGED <<caseVars, jobVars, task, rowVars, req, unread, faults>>

\* run_document_parse_job: a document that cannot be parsed keeps no text and settles
\* the job; any other exception fails the job.  Either way nothing retries it.
ParseJob(d) ==
    /\ doc[d].parse = "owed"
    /\ \/ doc' = [doc EXCEPT ![d].parse = "settled", ![d].text = TRUE] /\ UNCHANGED faults
       \/ doc' = [doc EXCEPT ![d].parse = "settled"] /\ Fault
    /\ UNCHANGED <<caseVars, jobVars, task, rowVars, req, unread, actVars>>

\* The requests that act on what they have read: one step reads, one writes.
Idle(r) == req[r].op = "none"
Finish(r) == req' = [req EXCEPT ![r] = IdleRequest]

\* The ORM writes a column only if it differs from what the request loaded.
Sets(loaded, now, value) == IF loaded = value THEN now ELSE value

\* upload_supplementary_documents reads the case, then uploads the files.
SupplementReads(r) ==
    /\ Idle(r) /\ Act("supplement")
    /\ status # Plain("closed") /\ DocToUpload
    /\ req' = [req EXCEPT ![r] = Request("supplement", status, gateState, "none")]
    /\ UNCHANGED <<caseVars, doc, jobVars, task, rowVars, unread, faults>>

\* One commit: the documents, processing, gate 1, and a gate_run row whose payload has
\* no resume_action.
SupplementWrites(r) ==
    /\ req[r].op = "supplement"
    /\ \E d \in Docs \ Stored : Store(d, "supplement")
    /\ status' = Sets(req[r].status, status, Processing)
    /\ gateState' = Sets(req[r].gateState, gateState, At(1, FALSE))
    /\ EnqueueJob("gate1")
    /\ Finish(r)
    /\ UNCHANGED <<thread, task, rowVars, unread, actVars, faults>>

-----------------------------------------------------------------------------
(* A worker runs job j.                                                    *)

\* _run_case_pipeline: loads the documents, and parses those that have a file and no
\* text; one that fails goes on with an empty text.
LoadDocuments(j) ==
    LET missing == {d \in Stored : doc[d].file /\ ~doc[d].text}
    IN  /\ job[j] = "pipeline"
        /\ \E failed \in SUBSET missing :
             /\ IF failed = {} THEN UNCHANGED faults ELSE Fault
             /\ doc' = [d \in Docs |-> [doc[d] EXCEPT !.text = @ \/ d \in missing \ failed]]
             /\ task' = [task EXCEPT ![j] = [at |-> "loaded", n |-> 1, docs |-> Stored]]

\* _run_gate_via_legacy: the CaseState it builds has no documents.  _run_gate_via_resume:
\* raises unless an interrupt is pending.
LoadThread(j) ==
    /\ \/ /\ job[j] = "gate1"
          /\ task' = [task EXCEPT ![j] = Worker("loaded", 1)]
       \/ /\ job[j] = "resume"
          /\ task' = [task EXCEPT ![j] = Worker(IF thread.at = "gate" THEN "loaded" ELSE "raised",
                                                thread.n + 1)]
    /\ UNCHANGED <<doc, faults>>

BeginJob(j) ==
    /\ ledger[j] = "owed" /\ Cardinality(running) < MaxRuns
    /\ Outbox!Begin(j)
    /\ LoadDocuments(j) \/ LoadThread(j)
    /\ UNCHANGED <<caseVars, job, rowVars, req, unread, actVars>>

Goto(j, stage) == task' = [task EXCEPT ![j] = Worker(stage, task[j].n)]

\* _merge_case: an empty list leaves what the thread had.
Merge(old, new) == IF new = {} THEN old ELSE new

\* Mutant: a resume of the last gate enters a phase.
StartPastEnd(j) ==
    /\ task[j].at = "loaded"
    /\ thread' = IF job[j] = "resume" THEN [thread EXCEPT !.at = "phase"]
                 ELSE [thread EXCEPT !.at = "phase", !.docs = Merge(@, task[j].docs)]
    /\ unread' = unread \ (IF job[j] = "pipeline" THEN task[j].docs ELSE {})
    /\ Goto(j, "driving")
    /\ UNCHANGED <<status, gateState, doc, jobVars, rowVars, req, actVars, faults>>

\* The graph is fed an initial state, or resumed; a resume of the last gate ends it.
StartGraph(j) ==
    /\ task[j].at = "loaded"
    /\ thread' = IF job[j] = "resume"
                 THEN [thread EXCEPT !.at = IF task[j].n > LastGate THEN "end" ELSE "phase"]
                 ELSE [thread EXCEPT !.at = "phase", !.docs = Merge(@, task[j].docs)]
    /\ unread' = unread \ (IF job[j] = "pipeline" THEN task[j].docs ELSE {})
    /\ Goto(j, IF task[j].n > LastGate THEN "persisting" ELSE "driving")
    /\ UNCHANGED <<status, gateState, doc, jobVars, rowVars, req, actVars, faults>>

\* Intake keeps the claim of an earlier research: nothing empties it.
PhaseEnds(j) ==
    /\ task[j].at = "driving"
    /\ \E claim \in IF task[j].n = Research THEN Claim ELSE {thread.claim} :
         thread' = [at |-> "gate", n |-> task[j].n, seen |-> thread.seen \union {task[j].n},
                    docs |-> thread.docs, claim |-> claim]
    /\ Goto(j, "persisting")
    /\ UNCHANGED <<status, gateState, doc, jobVars, rowVars, req, unread, actVars, faults>>

\* Only _run_case_pipeline catches an exception of the graph.
GraphRaises(j) ==
    /\ task[j].at = "driving" /\ Fault
    /\ IF job[j] = "pipeline" THEN status' = Plain("failed") /\ Goto(j, "returned")
       ELSE Goto(j, "raised") /\ UNCHANGED status
    /\ UNCHANGED <<gateState, thread, doc, jobVars, rowVars, req, unread, actVars>>

\* _normalize_fact_status: disputed only with a reason or a conflict.
Normalized(c) ==
    IF c.status = "disputed" /\ ~c.reason /\ "conflicts" \notin c.corroboration
    THEN "agreed" ELSE c.status

\* Mutant: the row is read without its lock.
NoRowLock == TRUE

\* SELECT ... FOR UPDATE of dispute_fact.
FactFree == \A r \in Requests : req[r].op # "dispute"

Pending == IF thread.at = "gate" THEN thread.n ELSE 0

\* Mutant: the gate that follows is announced.
StateOfNextGate(p) == At(IF p < LastGate THEN p + 1 ELSE p, TRUE)

GateStateOf(p) == At(p, TRUE)

\* The legacy runner announces its gate with the results; the resumed graph is paused
\* or over, and until the pause is published the case is pending.
StatusAfter(j) ==
    CASE job[j] = "gate1"                 -> Paused(1)
      [] job[j] = "resume" /\ Pending = 0 -> Plain("closed")
      [] OTHER                            -> Plain("pending")

\* persist_case_results: the facts of the case are deleted and inserted again.
Persist(j) ==
    /\ task[j].at = "persisting" /\ FactFree
    /\ fact' = IF Research \in thread.seen
               THEN [status |-> Normalized(thread.claim),
                     corroboration |-> thread.claim.corroboration, by |-> "nobody"]
               ELSE NoFact
    /\ status' = StatusAfter(j)
    /\ gateState' = IF job[j] = "gate1" THEN GateStateOf(1)
                    ELSE IF Pending = 0 THEN gateState ELSE GateStateOf(Pending)
    /\ task' = [task EXCEPT ![j] = Worker(IF job[j] = "gate1" \/ Pending = 0 THEN "returned"
                                          ELSE "publishing", Pending)]
    /\ UNCHANGED <<thread, doc, jobVars, audited, note, reopen, req, unread, actVars, faults>>

PersistFails(j) ==
    /\ task[j].at = "persisting" /\ Fault
    /\ Goto(j, "raised")
    /\ UNCHANGED <<caseVars, doc, jobVars, rowVars, req, unread, actVars>>

\* publish_interrupt: the event is stored by a task nobody waits for.
Publish(j) ==
    /\ task[j].at = "publishing"
    /\ status' = Paused(task[j].n) /\ gateState' = GateStateOf(task[j].n)
    /\ audited' \in {audited, audited \/ task[j].n = LastGate}
    /\ Goto(j, "returned")
    /\ UNCHANGED <<thread, doc, jobVars, fact, note, reopen, req, unread, actVars, faults>>

SettleJob(j) ==
    /\ \/ task[j].at = "returned" /\ Outbox!Settle(j, "done")
       \/ task[j].at = "raised" /\ Outbox!Settle(j, "failed")
    /\ task' = [task EXCEPT ![j] = IdleTask]
    /\ UNCHANGED <<caseVars, doc, job, rowVars, req, unread, actVars, faults>>

LoseRun(j) ==
    /\ Fault
    /\ j \in running
    /\ Outbox!Abandon({j})
    /\ task' = [task EXCEPT ![j] = IdleTask]
    /\ UNCHANGED <<caseVars, doc, job, rowVars, req, unread, actVars>>

-----------------------------------------------------------------------------
(* What the judge writes.                                                  *)

\* dispute_fact: 404 without the row, 409 when it is disputed already, by an agent too.
DisputeReads(r) ==
    /\ Idle(r) /\ Act("dispute")
    /\ FactFree /\ fact.status \in {"unknown", "agreed"}
    /\ req' = [req EXCEPT ![r] = Request("dispute", Plain("pending"), At(0, FALSE), "none")]
    /\ UNCHANGED <<caseVars, doc, jobVars, task, rowVars, unread, faults>>

DisputeWrites(r) ==
    /\ req[r].op = "dispute"
    /\ fact' = [status |-> "disputed", corroboration |-> fact.corroboration \union {"dispute_reason"},
                by |-> r]
    /\ Finish(r)
    /\ UNCHANGED <<caseVars, doc, jobVars, task, audited, note, reopen, unread, actVars, faults>>

CreateNote ==
    /\ note.state = "none" /\ "note" \in menu
    /\ note' = [note EXCEPT !.state = "open"]
    /\ UNCHANGED <<caseVars, doc, jobVars, task, fact, audited, reopen, req, unread, actVars, faults>>

\* update, lock and delete read the note; the first and the last refuse a locked one.
NoteReads(r, op) ==
    /\ Idle(r) /\ Act("note")
    /\ note.state = "open" \/ (op = "lock" /\ note.state = "locked")
    /\ req' = [req EXCEPT ![r] = Request(op, Plain("pending"), At(0, FALSE), note.state)]
    /\ UNCHANGED <<caseVars, doc, jobVars, task, rowVars, unread, faults>>

\* They write by id whatever the note is by then; a row that is gone fails the request.
NoteWrites(r) ==
    /\ req[r].op \in {"edit", "lock", "delete"}
    /\ IF note.state = "none" THEN UNCHANGED note
       ELSE note' = CASE req[r].op = "edit"   -> [note EXCEPT !.edits = 1 - @]
                      [] req[r].op = "lock"   -> [note EXCEPT !.state = "locked"]
                      [] req[r].op = "delete" -> NoNote
    /\ Finish(r)
    /\ UNCHANGED <<caseVars, doc, jobVars, task, fact, audited, reopen, unread, actVars, faults>>

CreateReopenRequest ==
    /\ status # Processing /\ reopen = "none" /\ "reopen" \in menu
    /\ reopen' = "pending"
    /\ UNCHANGED <<caseVars, doc, jobVars, task, fact, audited, note, req, unread, actVars, faults>>

\* review_reopen_request: whatever the request and the case are by now.
ReviewReads(r) ==
    /\ Idle(r) /\ Act("reopen")
    /\ reopen # "none"
    /\ req' = [req EXCEPT ![r] = Request("review", status, At(0, FALSE), "none")]
    /\ UNCHANGED <<caseVars, doc, jobVars, task, rowVars, unread, faults>>

Reject(r) ==
    /\ req[r].op = "review"
    /\ reopen' = "rejected"
    /\ Finish(r)
    /\ UNCHANGED <<caseVars, doc, jobVars, task, fact, audited, note, unread, actVars, faults>>

\* Mutant: an approval only changes the status.
ApproveOnly(r) ==
    /\ req[r].op = "review"
    /\ reopen' = "approved"
    /\ status' = Sets(req[r].status, status, Processing)
    /\ unread' = unread \union Stored
    /\ Finish(r)
    /\ UNCHANGED <<gateState, thread, doc, jobVars, task, fact, audited, note, actVars, faults>>

Approve(r) ==
    /\ req[r].op = "review"
    /\ reopen' = "approved"
    /\ status' = Sets(req[r].status, status, Processing)
    /\ EnqueueJob("pipeline")
    /\ unread' = unread \union Stored
    /\ Finish(r)
    /\ UNCHANGED <<gateState, thread, doc, task, fact, audited, note, actVars, faults>>

-----------------------------------------------------------------------------

Work(j) == BeginJob(j) \/ StartGraph(j) \/ PhaseEnds(j) \/ Persist(j) \/ Publish(j) \/ SettleJob(j)

Ask(r) == \/ SupplementReads(r) \/ DisputeReads(r) \/ ReviewReads(r)
          \/ \E op \in {"edit", "lock", "delete"} : NoteReads(r, op)

Handle(r) == SupplementWrites(r) \/ DisputeWrites(r) \/ NoteWrites(r) \/ Reject(r) \/ Approve(r)

Next ==
    \/ ProcessCase \/ AdvanceGate \/ CreateNote \/ CreateReopenRequest
    \/ \E d \in Docs : UploadEvidence(d) \/ ParseJob(d)
    \/ \E r \in Requests : Ask(r) \/ Handle(r)
    \/ \E j \in Jobs : Work(j) \/ GraphRaises(j) \/ PersistFails(j) \/ LoseRun(j)

Spec == Init /\ [][Next]_vars

\* Requests that have begun are carried through and owed jobs are run (JobLedger).
FairSpec == /\ Spec
            /\ \A r \in Requests : WF_vars(Handle(r))
            /\ \A j \in Jobs : WF_vars(Work(j))

-----------------------------------------------------------------------------
(* The pages.                                                              *)

Facts == IF fact.status = "absent" THEN {} ELSE {fact}

\* get_evidence_gaps: in SQL, an unknown status is not "other than disputed".
EvidenceGaps == {f \in Facts : f.status \notin {"disputed", "unknown"} /\ f.corroboration = {}}

\* get_evidence_dashboard.
Contradictions == {f \in Facts : f.status = "disputed" \/ "contradicts" \in f.corroboration}

\* generate_hearing_pack.
PackGaps == {f \in Facts : f.corroboration = {}}
DisputedIssues == {f \in Facts : f.status = "disputed"}

\* _derive_agent_status, a phase for its agents: done by gate_state or by its own rows
\* in the audit log (called), which the audit phase, having no tools, never writes.
Completed(called) ==
    IF status = Plain("closed") THEN Gates
    ELSE called \union 1 .. (IF gateState.awaiting THEN gateState.gate
                             ELSE IF gateState.gate = 0 THEN 0 ELSE gateState.gate - 1)

\* _derive_overall_status.
OverallStatus(called) ==
    CASE status = Plain("failed")        -> "failed"
      [] status = Plain("closed")        -> "completed"
      [] status.is = "awaiting_review"   -> "awaiting_review"
      [] OTHER -> IF Completed(called) = Gates THEN "completed"
                  ELSE IF status = Processing THEN "processing" ELSE "pending"

\* get_pipeline_status: what a poll may say, the audit log being what it is.
Polled == {OverallStatus(called) : called \in SUBSET (1 .. LastGate - 1)}

\* _build_pipeline_progress: the case list tells an agent that is done by the wording of
\* its last audit row, and "tool_call", the middleware's only one, is not among the words.
ListedAsComplete == status = Plain("closed")

\* get_fairness_audit: the stored gate-4 interrupt is the record of the audit.
AuditShown == audited

-----------------------------------------------------------------------------
(* Properties.                                                             *)

TypeOK ==
    /\ status \in Status
    /\ gateState \in GateState
    /\ thread \in Thread
    /\ doc \in [Docs -> Doc]
    /\ Outbox!LedgerTypeOK
    /\ job \in [Jobs -> {"pipeline", "gate1", "resume"}]
    /\ task \in [Jobs -> Task]
    /\ fact \in Fact /\ audited \in BOOLEAN
    /\ note \in Note
    /\ reopen \in {"none", "pending", "approved", "rejected"}
    /\ req \in [Requests -> Asked]
    /\ unread \subseteq Docs
    /\ menu \in Menus /\ acts \in 0 .. MaxActs /\ faults \in 0 .. MaxFaults

\* The judge's word stands: a dispute is only ever undone by a run that replaces the
\* facts, never by another request, and a locked note only changes through a request
\* that had read it before it was locked (the row lock of dispute_fact, the checks of
\* hearing_notes.py).
JudgesWordStands ==
    [][/\ fact.by # "nobody" /\ fact' # fact => fact'.by = "nobody"
       /\ note.state = "locked" /\ note' # note =>
             \E r \in Requests : req[r].note = "open" /\ req'[r] = IdleRequest]_vars

\* A fact the judge disputed shows as contested on every page and as a gap on none.
DisputeShows ==
    \A f \in Facts : f.by # "nobody" => /\ f \in Contradictions \intersect DisputedIssues
                                        /\ f \notin EvidenceGaps \union PackGaps

\* No page announces the analysis as complete, or shows a fairness audit, before the
\* audit has been run on the thread, whatever the audit log says of the other phases.
CompleteIsAudited ==
    AuditShown \/ ListedAsComplete \/ "completed" \in Polled => LastGate \in thread.seen

\* What the pages derive from several rows agrees with what happened.
PagesAgree == DisputeShows /\ CompleteIsAudited

\* An approved reopening leads to a run that is given every document the case had, or
\* to a failed job (review_reopen_request and the outbox).
ReopeningIsRead ==
    \A d \in Docs : d \in unread ~> (d \notin unread \/ \E j \in Jobs : ledger[j] = "failed")

-----------------------------------------------------------------------------
(* What comments say, and the code does not keep.                          *)

\* src/api/routes/case_data.py:64-66 and 524-526: a supplementary document of a
\* case that was analysed triggers a re-run, which is given its text.
SupplementIsRead ==
    \A d \in Docs :
      (/\ Filed \subseteq thread.docs
       /\ doc[d].via = "supplement" /\ doc[d].text
       /\ \A j \in Jobs : ledger[j] \in {"absent", "done"}) => d \in thread.docs
-----------------------------------------------------------------------------
(* The inductive strengthening the proofs use (see CaseDeskProofs).        *)

\* A job that is being worked on has a task, and is a row.
TasksRun == \A j \in Jobs : /\ j \in running <=> task[j].at # "idle"
                            /\ ledger[j] = "absent" => j \notin running

\* The gate a run is about to reach, or has reached, is one of the graph's; the row,
\* the worker and the stored events only know gates the thread has paused at.
GatesSeen ==
    /\ thread.at = "gate" => thread.n \in thread.seen
    /\ \A j \in Jobs : /\ task[j].at = "loaded" => task[j].n # 0
                       /\ task[j].at = "loaded" /\ job[j] # "resume" => task[j].n = 1
                       /\ task[j].at = "driving" => task[j].n \in Gates
                       /\ task[j].at = "publishing" => task[j].n \in thread.seen
    /\ audited => LastGate \in thread.seen
    /\ gateState = At(LastGate, TRUE) => LastGate \in thread.seen

\* One dispute at a time, of a fact nobody has disputed.
DisputesAlone ==
    /\ \A r, s \in Requests : req[r].op = "dispute" /\ req[s].op = "dispute" => r = s
    /\ \A r \in Requests : req[r].op = "dispute" => fact.status # "disputed"
    /\ fact.by # "nobody" => fact.status = "disputed" /\ "dispute_reason" \in fact.corroboration

\* A note is only edited or deleted by a request that found it unlocked.
NotesRead == \A r \in Requests : req[r].op \in {"edit", "delete"} => req[r].note = "open"

DeskInv == TypeOK /\ TasksRun /\ GatesSeen /\ DisputesAlone /\ NotesRead

\* What is left of PagesAgree when runs of the case overlap: the pages of a case that is
\* not closed (only the status of the row can be ahead of the audit).
OpenPagesAgree ==
    /\ DisputeShows
    /\ AuditShown \/ (status # Plain("closed") /\ "completed" \in Polled) => LastGate \in thread.seen

\* If the runs of the case do not overlap, a resumed run finds the thread where it left
\* it, and only the resume of the last gate closes the case.
ClosedAtEnd ==
    /\ \A i, j \in running : i = j
    /\ \A j \in Jobs : job[j] = "resume" =>
          /\ task[j].at = "loaded" => thread.at = "gate" /\ task[j].n = thread.n + 1
          /\ task[j].at = "persisting" => thread.at = "gate" \/ LastGate \in thread.seen
    /\ status = Plain("closed") => LastGate \in thread.seen

\* A run of job j will be given document d, or the job has failed.
WillRead(j, d) ==
    /\ job[j] = "pipeline"
    /\ \/ ledger[j] = "failed"
       \/ ledger[j] = "owed" /\ (task[j].at = "idle" \/ (task[j].at = "loaded" /\ d \in task[j].docs))

\* What ReopeningIsRead rests on: a document of an approved reopening that no run has
\* read is owed by a run that begins with every document, unless its job has failed.
ReopeningIsOwed == \A d \in unread : \E j \in Jobs : WillRead(j, d)

\* A row that is being run is owed, and a document that is awaited is stored.
ReopeningStands == /\ \A j \in running : ledger[j] = "owed"
                   /\ unread \subseteq Stored
                   /\ ReopeningIsOwed
=============================================================================
