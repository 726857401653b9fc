---------------------------- MODULE DomainDocuments ----------------------------
(***************************************************************************)
(* The knowledge base of a legal domain: a vector store at OpenAI, the     *)
(* domain row that names it, and the documents an administrator uploads.   *)
(*                                                                         *)
(* An upload is answered with 202 and ingested by a background task of the *)
(* API process: upload, parse and sanitise, index, one commit per stage.   *)
(* Nothing repeats a task that is lost; a cron job of the worker, the      *)
(* reconciler, decides what becomes of the row from what OpenAI says.      *)
(* Meanwhile stores disappear, and administrators delete documents and     *)
(* domains.                                                                *)
(*                                                                         *)
(* A store is its number, in the order they are made.  A document's text   *)
(* is its name: of its two files at OpenAI only the sanitised one's place  *)
(* in the stores matters here.                                             *)
(***************************************************************************)
EXTENDS Naturals, FiniteSets

CONSTANTS
    Docs,           \* the uploads
    MaxStores,      \* bound: stores made
    MaxEvents       \* bound: stores deleted behind the domain's back, crashes, and
                    \* an administrator's edits and deletions of the domain

ASSUME BoundsAssumption ==
    MaxStores \in Nat \ {0} /\ MaxEvents \in Nat

VARIABLES
    domain,     \* the committed row: whether it exists, its store (0: none), is_active
    made,       \* stores made so far
    lost,       \* stores that no longer exist
    content,    \* store -> document -> the state of its sanitised file in the store
    row,        \* document -> its row: status, and whether it has a sanitised file
    task,       \* document -> its request and then its background task
    lock,       \* the document whose session holds the domain's row lock
    removal,    \* document -> a request to delete it: none, running or interrupted
    old,        \* documents uploaded longer ago than _STUCK_THRESHOLD_MINUTES
    todo,       \* stuck documents the reconciler has selected
    check,      \* the document it is looking at, and what it read of it
    recreated,  \* observer: a task replaced the domain's store
    events

store  == <<made, lost, content>>
recon  == <<old, todo, check>>
vars   == <<domain, store, row, task, lock, removal, recon, recreated, events>>

-----------------------------------------------------------------------------
(* Values.                                                                 *)

Stores == 1 .. MaxStores
NoStore == 0
Free == "free"

ASSUME DocsAssumption == Free \notin Docs

Stuck  == {"uploading", "parsed", "indexing"}
Status == {"absent", "pending", "indexed", "failed"} \cup Stuck
Row    == [status : Status, sanitized : BOOLEAN]
NoRow  == [status |-> "absent", sanitized |-> FALSE]

FileState == {"out", "working", "completed", "failed"}

Pc == {"none", "provision", "insert", "upload", "parse", "sanitize", "add", "poll",
       "recreate", "readd", "repoll", "over"}
\* fresh: a store the session has set on the domain and not committed.
Task == [pc : Pc, store : Stores \cup {NoStore}, fresh : Stores \cup {NoStore}]

NoCheck == [doc |-> Free, status |-> "absent", sanitized |-> FALSE, store |-> NoStore]
Checks  == [doc : Docs \cup {Free}, status : Status, sanitized : BOOLEAN,
            store : Stores \cup {NoStore}]

Init ==
    /\ domain = [exists |-> FALSE, store |-> NoStore, active |-> FALSE]
    /\ made = 0 /\ lost = {} /\ events = 0
    /\ content = [s \in Stores |-> [d \in Docs |-> "out"]]
    /\ row = [d \in Docs |-> NoRow]
    /\ task = [d \in Docs |-> [pc |-> "none", store |-> NoStore, fresh |-> NoStore]]
    /\ lock = Free /\ removal = [d \in Docs |-> "none"]
    /\ old = {} /\ todo = {} /\ check = NoCheck
    /\ recreated = FALSE

-----------------------------------------------------------------------------
(* The domain row.  Its writers wait for its row lock.                     *)

Lockable(d) == lock \in {Free, d}

Serving(s) == [exists |-> TRUE, store |-> s, active |-> TRUE]

\* vector_stores.create
Make == made < MaxStores /\ made' = made + 1

\* create_domain: provisioned inline; a failure is swallowed and leaves the domain
\* inactive, without a store.
CreateDomain ==
    /\ ~domain.exists /\ made = 0
    /\ \/ /\ Make
          /\ domain' = Serving(made')
       \/ /\ domain' = [domain EXCEPT !.exists = TRUE]
          /\ UNCHANGED made
    /\ UNCHANGED <<lost, content, row, task, lock, removal, recon, recreated, events>>

Event == events < MaxEvents /\ events' = events + 1

\* update_domain and retire_domain: is_active alone, whether there is a store or not.
SetActive(a) ==
    /\ domain.exists /\ lock = Free /\ domain.active # a
    /\ Event
    /\ domain' = [domain EXCEPT !.active = a]
    /\ UNCHANGED <<store, row, task, lock, removal, recon, recreated>>

\* retire_domain with hard=true, of a domain without cases: the store goes, as far as
\* OpenAI agrees, and the rows of the documents go with the domain's.
HardDelete ==
    /\ domain.exists /\ lock = Free
    /\ Event
    /\ domain' = [exists |-> FALSE, store |-> NoStore, active |-> FALSE]
    /\ lost' \in {lost, (lost \cup {domain.store}) \ {NoStore}}
    /\ row' = [d \in Docs |-> NoRow]
    /\ UNCHANGED <<made, content, task, lock, removal, recon, recreated>>

\* provision_domain_stores.py, run before uploads: adopts a store of the domain's
\* tag, or makes one.
ProvisionScript ==
    /\ domain.exists /\ domain.store = NoStore
    /\ \A d \in Docs : task[d].pc \in {"none", "over"}
    /\ \/ \E s \in (1 .. made) \ lost :
            /\ domain' = Serving(s)
            /\ UNCHANGED made
       \/ /\ (1 .. made) \subseteq lost
          /\ Make
          /\ domain' = Serving(made')
    /\ UNCHANGED <<lost, content, row, task, lock, removal, recon, recreated, events>>

-----------------------------------------------------------------------------
(* The upload request.                                                     *)

Over == [pc |-> "over", store |-> NoStore, fresh |-> NoStore]
Holds(d, pc, s, f) == task' = [task EXCEPT ![d] = [pc |-> pc, store |-> s, fresh |-> f]]
Goes(d, pc) == task' = [task EXCEPT ![d] = IF pc = "over" THEN Over ELSE [@ EXCEPT !.pc = pc]]

\* upload_domain_document, to the first await: reads the domain.
UploadStarts(d) ==
    /\ task[d].pc = "none" /\ domain.exists
    /\ Holds(d, IF domain.store = NoStore THEN "provision" ELSE "insert", domain.store, NoStore)
    /\ UNCHANGED <<domain, store, row, lock, removal, recon, recreated, events>>

\* Mutant: the domain as the request read it, without populate_existing.
StoreAsRead(d) == task[d].store

\* ensure_domain_vector_store: what the row says once it is locked counts, not what
\* the request read before.
StoreUnderLock(d) == domain.store

\* ... called by the upload of a domain it read no store of.
Provision(d) ==
    /\ task[d].pc = "provision" /\ Lockable(d)
    /\ \/ /\ domain.exists /\ StoreUnderLock(d) # NoStore
          /\ Holds(d, "insert", StoreUnderLock(d), NoStore)
          /\ lock' = d
          /\ UNCHANGED made
       \/ /\ domain.exists /\ StoreUnderLock(d) = NoStore
          /\ Make
          /\ Holds(d, "insert", made', made')
          /\ lock' = d
       \/ /\ Goes(d, "over")                    \* 503, nothing committed
          /\ UNCHANGED <<made, lock>>
    /\ UNCHANGED <<domain, lost, content, row, removal, recon, recreated, events>>

Released(d) == IF lock = d THEN Free ELSE lock

\* A commit of d's session: its row, and what it set on the domain.
Commits(d, r) ==
    /\ row' = [row EXCEPT ![d] = r]
    /\ domain' = IF lock = d
                 THEN Serving(IF task[d].fresh = NoStore THEN domain.store ELSE task[d].fresh)
                 ELSE domain
    /\ lock' = Released(d)

\* The row is inserted as pending and the task is queued; or the file is refused, or
\* the domain is gone, and the session is rolled back.
Insert(d) ==
    /\ task[d].pc = "insert" /\ Lockable(d)
    /\ \/ /\ domain.exists
          /\ Commits(d, [status |-> "pending", sanitized |-> FALSE])
          /\ Holds(d, "upload", task[d].store, NoStore)
       \/ /\ Goes(d, "over")
          /\ lock' = Released(d)
          /\ UNCHANGED <<row, domain>>
    /\ UNCHANGED <<store, removal, recon, recreated, events>>

-----------------------------------------------------------------------------
(* _ingest_domain_document.  It holds the row as an object: a commit writes *)
(* its own status over whatever the row reads by then, and fails, undoing   *)
(* the session, when the row is gone.                                       *)

Writes(d, r, pc) ==
    /\ IF row[d].status = "absent"
       THEN /\ Goes(d, "over")
            /\ lock' = Released(d)
            /\ UNCHANGED <<row, domain>>
       ELSE /\ Commits(d, r)
            /\ Goes(d, pc)
    /\ UNCHANGED <<store, removal, recon, recreated, events>>

Sets(d, st, pc) == Writes(d, [row[d] EXCEPT !.status = st], pc)

\* Each stage ends the task when its call to OpenAI raises.
Upload(d) ==
    /\ task[d].pc = "upload"
    /\ Sets(d, "uploading", "parse") \/ Sets(d, "failed", "over")

Parse(d) ==
    /\ task[d].pc = "parse"
    /\ Sets(d, "parsed", "sanitize") \/ Sets(d, "failed", "over")

Sanitize(d) ==
    /\ task[d].pc = "sanitize"
    /\ \/ Writes(d, [status |-> "indexing", sanitized |-> TRUE], "add")
       \/ Sets(d, "failed", "over")

Target(d) == IF task[d].pc \in {"readd", "repoll"} THEN task[d].fresh ELSE task[d].store

\* create_and_poll, the first call: NotFound for a store, or a file, that is gone.
AddFile(d) ==
    /\ task[d].pc \in {"add", "readd"}
    /\ LET s == Target(d)
           FileGone == removal[d] # "none" \/ row[d].status = "absent"
       IN \/ /\ s \notin lost
             /\ content' = [content EXCEPT ![s][d] = "working"]
             /\ Goes(d, IF task[d].pc = "add" THEN "poll" ELSE "repoll")
             /\ UNCHANGED <<domain, made, lost, row, lock, removal, recon, recreated, events>>
          \/ /\ s \in lost \/ FileGone
             /\ task[d].pc = "add"
             /\ Goes(d, "recreate")
             /\ UNCHANGED <<domain, store, row, lock, removal, recon, recreated, events>>
          \/ Sets(d, "failed", "over")

\* create_and_poll, the answer.  A file that was removed from the store is NotFound
\* as well, and only the first attempt treats NotFound apart.
PollEnds(d) ==
    /\ task[d].pc \in {"poll", "repoll"}
    /\ LET s == Target(d)
           NotFound == s \in lost \/ content[s][d] = "out"
       IN \/ ~NotFound /\ content[s][d] = "completed" /\ Sets(d, "indexed", "over")
          \/ /\ NotFound /\ task[d].pc = "poll"
             /\ Goes(d, "recreate")
             /\ UNCHANGED <<domain, store, row, lock, removal, recon, recreated, events>>
          \/ Sets(d, "failed", "over")          \* reported failed, or the call raised

\* ensure_domain_vector_store(force_recreate=True).  When making the store fails, the
\* commit of the failure commits the erased store id too.
Recreate(d) ==
    /\ task[d].pc = "recreate" /\ Lockable(d)
    /\ \/ /\ domain.exists
          /\ Make
          /\ lock' = d
          /\ recreated' = TRUE
          /\ Holds(d, "readd", task[d].store, made')
          /\ UNCHANGED <<domain, row>>
       \/ /\ Goes(d, "over")
          /\ IF row[d].status # "absent"
             THEN /\ domain' = [domain EXCEPT !.store = NoStore]
                  /\ row' = [row EXCEPT ![d].status = "failed"]
             ELSE UNCHANGED <<domain, row>>
          /\ recreated' = TRUE
          /\ UNCHANGED <<made, lock>>
    /\ UNCHANGED <<lost, content, removal, recon, events>>

Ingest(d) ==
    Upload(d) \/ Parse(d) \/ Sanitize(d) \/ AddFile(d) \/ PollEnds(d) \/ Recreate(d)

-----------------------------------------------------------------------------
(* delete_domain_document: takes the file out of the domain's store as far  *)
(* as OpenAI agrees, then deletes the row.                                  *)

RemoveStarts(d) ==
    /\ row[d].status # "absent" /\ removal[d] # "running"
    /\ removal' = [removal EXCEPT ![d] = "running"]
    /\ \/ /\ row[d].sanitized /\ domain.store # NoStore
          /\ content' = [content EXCEPT ![domain.store][d] = "out"]
       \/ UNCHANGED content
    /\ UNCHANGED <<domain, made, lost, row, task, lock, recon, recreated, events>>

RemoveEnds(d) ==
    /\ removal[d] = "running"
    /\ removal' = [removal EXCEPT ![d] = "none"]
    /\ row' = [row EXCEPT ![d] = NoRow]
    /\ UNCHANGED <<domain, store, task, lock, recon, recreated, events>>

-----------------------------------------------------------------------------
(* reconcile_domain_documents, every ten minutes.                          *)

\* Fifteen minutes after the upload; it matters to a document that is stuck.
Ages(d) ==
    /\ row[d].status \in Stuck /\ d \notin old
    /\ old' = old \cup {d}
    /\ UNCHANGED <<domain, store, row, task, lock, removal, todo, check, recreated, events>>

ReconcileStarts ==
    /\ todo = {} /\ check = NoCheck
    /\ todo' = {d \in old : row[d].status \in Stuck}
    /\ todo' # {}
    /\ UNCHANGED <<domain, store, row, task, lock, removal, old, check, recreated, events>>

\* _reconcile_one: reads the row again, and the domain's store.
Reads(d) ==
    /\ check = NoCheck /\ d \in todo
    /\ todo' = todo \ {d}
    /\ check' = IF row[d].status \in Stuck
                THEN [doc |-> d, status |-> row[d].status, sanitized |-> row[d].sanitized,
                      store |-> IF domain.exists THEN domain.store ELSE NoStore]
                ELSE NoCheck
    /\ UNCHANGED <<domain, store, row, task, lock, removal, old, recreated, events>>

\* Mutant: the row takes OpenAI's status as it is.
RawStatus(d, s) ==
    IF s = NoStore \/ s \in lost \/ content[s][d] = "out" THEN {"failed"} ELSE {content[s][d]}

\* What _check_vector_store_file makes of the file; a call that raises fails the row.
FileVerdicts(d, s) ==
    IF s = NoStore \/ s \in lost \/ content[s][d] = "out" THEN {"failed"}
    ELSE {"failed"} \cup
         CASE content[s][d] = "completed" -> {"indexed"}
           [] content[s][d] = "failed"    -> {"failed"}
           [] OTHER                       -> {"indexing"}

\* Mutant: a document whose file is still there is left to be retried.
LeavesUploads(c) ==
    IF c.status = "indexing" /\ c.sanitized THEN FileVerdicts(c.doc, c.store)
    ELSE {c.status, "failed"}

\* An uploading or parsed document fails, whether its file is still there or not.
Verdicts(c) ==
    IF c.status = "indexing"
    THEN IF c.sanitized THEN FileVerdicts(c.doc, c.store) ELSE {"indexing"}
    ELSE {"failed"}

\* A verdict that is the status it read writes nothing; any other is written over
\* whatever the row reads by now.
Decides ==
    /\ check # NoCheck
    /\ check' = NoCheck
    /\ \E v \in Verdicts(check) :
         row' = IF v = check.status \/ row[check.doc].status = "absent" THEN row
                ELSE [row EXCEPT ![check.doc].status = v]
    /\ UNCHANGED <<domain, store, task, lock, removal, old, todo, recreated, events>>

-----------------------------------------------------------------------------
(* OpenAI, and crashes.                                                    *)

StoreFinishes(s, d) ==
    /\ s \notin lost /\ content[s][d] = "working"
    /\ \E f \in {"completed", "failed"} : content' = [content EXCEPT ![s][d] = f]
    /\ UNCHANGED <<domain, made, lost, row, task, lock, removal, recon, recreated, events>>

\* A store is deleted out of band.
LoseStore(s) ==
    /\ s <= made /\ s \notin lost /\ Event
    /\ lost' = lost \cup {s}
    /\ UNCHANGED <<domain, made, content, row, task, lock, removal, recon, recreated>>

\* The API process dies with its requests and its background tasks: their sessions
\* are rolled back and nothing starts them again.
ApiCrashes ==
    /\ Event
    /\ \E d \in Docs : task[d].pc \notin {"none", "over"} \/ removal[d] = "running"
    /\ task' = [d \in Docs |-> IF task[d].pc = "none" THEN task[d] ELSE Over]
    /\ lock' = Free
    /\ removal' = [d \in Docs |-> IF removal[d] = "running" THEN "interrupted" ELSE removal[d]]
    /\ UNCHANGED <<domain, store, row, recon, recreated>>

WorkerCrashes ==
    /\ Event /\ (todo # {} \/ check # NoCheck)
    /\ todo' = {} /\ check' = NoCheck
    /\ UNCHANGED <<domain, store, row, task, lock, removal, old, recreated>>

-----------------------------------------------------------------------------

Admin ==
    \/ CreateDomain \/ HardDelete \/ ProvisionScript
    \/ \E a \in BOOLEAN : SetActive(a)
    \/ \E d \in Docs : UploadStarts(d) \/ Provision(d) \/ Insert(d)
                       \/ RemoveStarts(d) \/ RemoveEnds(d)

Reconciler == ReconcileStarts \/ (\E d \in Docs : Reads(d)) \/ Decides

Outside ==
    \/ \E s \in Stores : LoseStore(s) \/ \E d \in Docs : StoreFinishes(s, d)
    \/ \E d \in Docs : Ages(d)
    \/ ApiCrashes \/ WorkerCrashes

Next == Admin \/ Reconciler \/ Outside \/ \E d \in Docs : Ingest(d)

\* The cron job keeps running, time passes and OpenAI finishes what it accepted.
\* Nothing is assumed of the background tasks.
Spec ==
    /\ Init /\ [][Next]_vars
    /\ WF_vars(Reconciler)
    /\ \A d \in Docs : WF_vars(Ages(d))
    /\ \A d \in Docs, s \in Stores : WF_vars(StoreFinishes(s, d))

-----------------------------------------------------------------------------

TypeOK ==
    /\ domain \in [exists : BOOLEAN, store : Stores \cup {NoStore}, active : BOOLEAN]
    /\ made \in 0 .. MaxStores /\ lost \subseteq 1 .. made
    /\ content \in [Stores -> [Docs -> FileState]]
    /\ row \in [Docs -> Row] /\ task \in [Docs -> Task]
    /\ lock \in Docs \cup {Free} /\ removal \in [Docs -> {"none", "running", "interrupted"}]
    /\ old \subseteq Docs /\ todo \subseteq old /\ check \in Checks
    /\ recreated \in BOOLEAN
    /\ events \in 0 .. MaxEvents

\* While no store was lost and no task replaced one, every document the administrator
\* sees as indexed is in the store the domain's agents search, unless its deletion has
\* begun: two uploads that both found no store share one, and neither the task nor the
\* reconciler calls a document indexed that OpenAI has not completed.
IndexedIsSearchable ==
    (lost = {} /\ ~recreated) =>
        \A d \in Docs : row[d].status = "indexed" /\ removal[d] = "none" =>
            domain.store # NoStore /\ content[domain.store][d] = "completed"

\* A document never stays in one of the stages of its ingestion, whatever became of
\* the task: the reconciler settles it.
IngestionSettles ==
    \A d \in Docs : (row[d].status \in Stuck) ~> (row[d].status \notin Stuck)

-----------------------------------------------------------------------------
(* The inductive strengthening the proofs use (see DomainDocumentsProofs). *)

\* Whoever has set a store on the domain and not committed it holds the domain's row.
LockHeld ==
    \A d \in Docs :
        /\ lock = d => domain.exists /\ task[d].pc \in {"insert", "readd", "repoll"}
        /\ task[d].fresh # NoStore => lock = d
        /\ task[d].pc = "insert" /\ task[d].fresh # NoStore =>
              domain.store = NoStore /\ task[d].store = task[d].fresh
        /\ task[d].pc \in {"readd", "repoll"} => recreated

\* No store is named before it is made, and a task that has passed provisioning has one.
StoresKnown ==
    /\ domain.store <= made /\ check.store <= made
    /\ \A d \in Docs :
          /\ task[d].store <= made /\ task[d].fresh <= made
          /\ task[d].pc \in {"insert", "upload", "parse", "sanitize", "add", "poll"} =>
                task[d].store # NoStore

\* A document has a row only from its insertion on, and a file in a store only once
\* its task has added it.
RowsInserted ==
    /\ check.doc \in old \cup {Free}
    /\ \A d \in Docs :
          /\ task[d].pc \in {"none", "provision", "insert"} =>
                row[d].status = "absent" /\ d \notin old
          /\ task[d].pc \in {"none", "provision", "insert", "upload", "parse", "sanitize", "add"} =>
                \A s \in Stores : content[s][d] = "out"

\* As long as no store was lost or replaced there is one: whoever works on a document
\* that has a row works with the domain's.
OneStore ==
    (lost = {} /\ ~recreated) =>
        /\ \A d \in Docs :
              /\ row[d].status # "absent" => domain.exists
              /\ task[d].pc = "insert" /\ domain.exists =>
                    task[d].store = domain.store \/ task[d].fresh # NoStore
              /\ task[d].pc \in {"upload", "parse", "sanitize", "add", "poll"}
                    /\ row[d].status # "absent" => task[d].store = domain.store
        /\ check.doc \in Docs /\ check.store # NoStore =>
              row[check.doc].status = "absent" \/ check.store = domain.store

IInv ==
    TypeOK /\ LockHeld /\ StoresKnown /\ RowsInserted /\ OneStore /\ IndexedIsSearchable
=============================================================================
