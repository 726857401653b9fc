-------------------------- MODULE DomainDocumentsProofs --------------------------
(***************************************************************************)
(* Proofs about DomainDocuments, for any number of documents, of stores    *)
(* and of losses, crashes and edits.                                       *)
(***************************************************************************)
EXTENDS DomainDocuments, TLAPS

USE BoundsAssumption, DocsAssumption

--------------------------------------------------------------------------------
(* Values *)

DomainRow == [exists : BOOLEAN, store : Stores \cup {NoStore}, active : BOOLEAN]

\* The values that mean nothing have the types.
LEMMA ValuesTyped ==
    /\ Over \in Task /\ NoRow \in Row /\ NoCheck \in Checks
    /\ Over.pc = "over" /\ Over.store = NoStore /\ Over.fresh = NoStore
    /\ NoRow.status = "absent" /\ NoCheck.doc = Free /\ NoCheck.store = NoStore
  BY DEF Over, Task, Pc, NoRow, Row, Status, NoCheck, Checks

\* A number up to the bound names a store, or none.
LEMMA StoreNumbers ==
    ASSUME NEW n \in Nat, n <= MaxStores
    PROVE  n \in Stores \cup {NoStore} /\ (n # NoStore => n \in Stores)
  BY DEF Stores, NoStore

\* The updates of a task's record.
LEMMA TaskUpdates ==
    ASSUME NEW t \in Task, NEW p \in Pc
    PROVE  /\ [t EXCEPT !.pc = p] \in Task
           /\ t.pc \in Pc /\ t.store \in Stores \cup {NoStore} /\ t.fresh \in Stores \cup {NoStore}
  BY DEF Task

\* What a task holds has its type.
LEMMA HoldsType ==
    ASSUME task \in [Docs -> Task], NEW d \in Docs, NEW p \in Pc,
           NEW s \in Stores \cup {NoStore}, NEW f \in Stores \cup {NoStore}, Holds(d, p, s, f)
    PROVE  task' \in [Docs -> Task]
  <1>1. [pc |-> p, store |-> s, fresh |-> f] \in Task
    BY DEF Task
  <1> QED
    BY <1>1 DEF Holds

\* The updates of the domain's record.
LEMMA DomainUpdates ==
    ASSUME NEW x \in DomainRow, NEW b \in BOOLEAN
    PROVE  /\ [x EXCEPT !.exists = b] \in DomainRow /\ [x EXCEPT !.active = b] \in DomainRow
           /\ [x EXCEPT !.store = NoStore] \in DomainRow
           /\ x.store \in Stores \cup {NoStore}
  BY DEF DomainRow

\* The domain is a row.
LEMMA DomainTyped == TypeOK => domain \in DomainRow
  BY DEF TypeOK, DomainRow

\* So is a domain that has been provisioned.
LEMMA ServingType == ASSUME NEW s \in Stores \cup {NoStore} PROVE Serving(s) \in DomainRow
  BY DEF Serving, DomainRow

--------------------------------------------------------------------------------
(* Shapes of the ingestion's steps *)

Working == {"upload", "parse", "sanitize", "add", "poll"}

\* A commit of a task that holds no store of its own.
PlainWrite(d) ==
    /\ task[d].pc \in Working
    /\ \E p \in {"parse", "sanitize", "add", "over"} :
          /\ p # "over" => task[d].pc \in {"upload", "parse", "sanitize"}
          /\ task' = [task EXCEPT ![d] = IF p = "over" THEN Over ELSE [task[d] EXCEPT !.pc = p]]
    /\ \/ row[d].status = "absent" /\ row' = row
       \/ /\ row[d].status # "absent"
          /\ \E r \in Row :
               /\ r.status # "absent" /\ row' = [row EXCEPT ![d] = r]
               /\ r.status = "indexed" =>
                     task[d].pc = "poll" /\ content[task[d].store][d] = "completed"
    /\ UNCHANGED <<domain, lock, store, removal, recon, recreated, events>>

\* The end of a task that has replaced the domain's store.
LateWrite(d) ==
    /\ task[d].pc \in {"readd", "repoll"} /\ recreated
    /\ task' = [task EXCEPT ![d] = Over]
    /\ lock' = Released(d)
    /\ \/ row' = row /\ domain' = domain
       \/ /\ row[d].status # "absent"
          /\ \E r \in Row : row' = [row EXCEPT ![d] = r]
          /\ \/ domain' = domain
             \/ lock = d /\ \E s \in {domain.store, task[d].fresh} : domain' = Serving(s)
    /\ UNCHANGED <<store, removal, recon, recreated, events>>

FileAdded(d) ==
    /\ \/ /\ task[d].pc = "add" /\ task' = [task EXCEPT ![d] = [task[d] EXCEPT !.pc = "poll"]]
          /\ content' = [content EXCEPT ![task[d].store][d] = "working"]
       \/ /\ task[d].pc = "readd" /\ task' = [task EXCEPT ![d] = [task[d] EXCEPT !.pc = "repoll"]]
          /\ content' = [content EXCEPT ![task[d].fresh][d] = "working"]
    /\ UNCHANGED <<domain, made, lost, row, lock, removal, recon, recreated, events>>

FileGone(d) ==
    /\ task[d].pc \in {"add", "poll"}
    /\ task' = [task EXCEPT ![d] = [task[d] EXCEPT !.pc = "recreate"]]
    /\ UNCHANGED <<domain, store, row, lock, removal, recon, recreated, events>>

\* A commit of the ingestion, before or after the document was removed.
LEMMA WriteShape ==
    ASSUME TypeOK, LockHeld, NEW d \in Docs, NEW r \in Row, NEW p \in {"parse", "sanitize", "add", "over"},
           Writes(d, r, p), r.status # "absent",
           p # "over" => task[d].pc \in {"upload", "parse", "sanitize"},
           task[d].pc \in Working \cup {"readd", "repoll"},
           task[d].pc \in Working /\ r.status = "indexed" =>
               task[d].pc = "poll" /\ content[task[d].store][d] = "completed"
    PROVE  PlainWrite(d) \/ LateWrite(d)
  <1>1. CASE task[d].pc \in Working
    <2>1. lock # d
      BY <1>1 DEF LockHeld, Working
    <2>2. row[d].status = "absent" => /\ Goes(d, "over") /\ UNCHANGED <<lock, row, domain>>
      BY <2>1 DEF Writes, Released
    <2>3. row[d].status # "absent" =>
            /\ Goes(d, p) /\ row' = [row EXCEPT ![d] = r] /\ UNCHANGED <<lock, domain>>
      BY <2>1 DEF Writes, Commits, Released
    <2>4. UNCHANGED <<store, removal, recon, recreated, events>>
      BY DEF Writes
    <2> QED
      BY <1>1, <2>2, <2>3, <2>4 DEF PlainWrite, Goes
  <1>2. CASE task[d].pc \in {"readd", "repoll"}
    <2>1. p = "over" /\ recreated
      BY <1>2 DEF LockHeld
    <2>2. Goes(d, "over") /\ lock' = Released(d)
      BY <2>1 DEF Writes, Commits
    <2>3. row[d].status = "absent" => UNCHANGED <<row, domain>>
      BY DEF Writes
    <2>4. row[d].status # "absent" =>
            /\ row' = [row EXCEPT ![d] = r]
            /\ \/ domain' = domain
               \/ lock = d /\ \E s \in {domain.store, task[d].fresh} : domain' = Serving(s)
      BY DEF Writes, Commits
    <2>5. UNCHANGED <<store, removal, recon, recreated, events>>
      BY DEF Writes
    <2> QED
      BY <1>2, <2>1, <2>2, <2>3, <2>4, <2>5 DEF LateWrite, Goes
  <1> QED
    BY <1>1, <1>2

\* The same for a commit of the status alone.
LEMMA SetsShape ==
    ASSUME TypeOK, LockHeld, NEW d \in Docs, NEW p \in {"parse", "sanitize", "add", "over"},
           NEW st \in {"uploading", "parsed", "failed", "indexed"}, Sets(d, st, p),
           p # "over" => task[d].pc \in {"upload", "parse", "sanitize"},
           task[d].pc \in Working \cup {"readd", "repoll"},
           task[d].pc \in Working /\ st = "indexed" =>
               task[d].pc = "poll" /\ content[task[d].store][d] = "completed"
    PROVE  PlainWrite(d) \/ LateWrite(d)
  <1> DEFINE r == [row[d] EXCEPT !.status = st]
  <1>1. r \in Row /\ r.status = st
    BY SMTT(30) DEF TypeOK, Row, Status, Stuck
  <1>2. Writes(d, r, p)
    BY DEF Sets
  <1> HIDE DEF r
  <1> QED
    BY <1>1, <1>2, WriteShape

\* Every step of an ingestion has one of the shapes.
LEMMA IngestShape ==
    ASSUME TypeOK, LockHeld, NEW d \in Docs, Ingest(d)
    PROVE  PlainWrite(d) \/ LateWrite(d) \/ FileAdded(d) \/ FileGone(d) \/ Recreate(d)
  <1>1. CASE Upload(d)
    BY <1>1, SetsShape DEF Upload, Working
  <1>2. CASE Parse(d)
    BY <1>2, SetsShape DEF Parse, Working
  <1>3. CASE Sanitize(d)
    <2>1. CASE Sets(d, "failed", "over")
      BY <1>3, <2>1, SetsShape DEF Sanitize, Working
    <2>2. CASE Writes(d, [status |-> "indexing", sanitized |-> TRUE], "add")
      <3>1. [status |-> "indexing", sanitized |-> TRUE] \in Row
        BY DEF Row, Status, Stuck
      <3> QED
        BY <1>3, <2>2, <3>1, WriteShape DEF Sanitize, Working
    <2> QED
      BY <1>3, <2>1, <2>2 DEF Sanitize
  <1>4. CASE AddFile(d)
    <2>1. task[d].pc \in {"add", "readd"}
      BY <1>4 DEF AddFile
    <2>2. CASE Sets(d, "failed", "over")
      BY <2>1, <2>2, SetsShape DEF Working
    <2>3. CASE ~ Sets(d, "failed", "over")
      <3>1. CASE task[d].pc = "add"
        BY <1>4, <2>3, <3>1 DEF AddFile, FileAdded, FileGone, Goes, Target
      <3>2. CASE task[d].pc = "readd"
        BY <1>4, <2>3, <3>2 DEF AddFile, FileAdded, Goes, Target
      <3> QED
        BY <2>1, <3>1, <3>2
    <2> QED
      BY <2>2, <2>3
  <1>5. CASE PollEnds(d)
    <2>1. task[d].pc \in {"poll", "repoll"}
      BY <1>5 DEF PollEnds
    <2>2. CASE Sets(d, "failed", "over")
      BY <2>1, <2>2, SetsShape DEF Working
    <2>3. CASE content[Target(d)][d] = "completed" /\ Sets(d, "indexed", "over")
      BY <2>1, <2>3, SetsShape DEF Working, Target
    <2>4. CASE ~ Sets(d, "failed", "over") /\ ~ (content[Target(d)][d] = "completed" /\ Sets(d, "indexed", "over"))
      BY <1>5, <2>4 DEF PollEnds, FileGone, Goes
    <2> QED
      BY <2>2, <2>3, <2>4
  <1> QED
    BY <1>1, <1>2, <1>3, <1>4, <1>5 DEF Ingest

--------------------------------------------------------------------------------
(* The inductive invariant *)

\* A new store is one more.
LEMMA MakeType ==
    ASSUME TypeOK, Make
    PROVE  made' \in Stores /\ made' \in 0 .. MaxStores /\ made < made'
  BY DEF TypeOK, Make, Stores

\* A file changes its state in one store.
LEMMA ContentUpdate ==
    ASSUME TypeOK, NEW s, NEW d \in Docs, NEW f \in FileState
    PROVE  [content EXCEPT ![s][d] = f] \in [Stores -> [Docs -> FileState]]
  <1>1. CASE s \in Stores
    BY <1>1 DEF TypeOK
  <1>2. CASE s \notin Stores
    <2>1. [content EXCEPT ![s][d] = f] = content
      BY <1>2 DEF TypeOK
    <2> QED
      BY <2>1 DEF TypeOK
  <1> QED
    BY <1>1, <1>2

\* A store that is named has been made.
LEMMA NamedStore ==
    ASSUME NEW m \in 0 .. MaxStores, NEW s \in Stores \cup {NoStore}, s <= m, s # NoStore
    PROVE  s \in 1 .. m
  BY DEF Stores

\* A store a domain or a session names may serve the domain.
LEMMA StoreTypes ==
    ASSUME TypeOK, NEW d \in Docs, NEW s \in {domain.store, task[d].fresh}
    PROVE  Serving(s) \in DomainRow
  <1>1. task[d] \in Task
    BY DEF TypeOK
  <1> QED
    BY <1>1, DomainTyped, DomainUpdates, TaskUpdates, ServingType DEF Pc

\* A commit leaves a domain row.
LEMMA CommitType ==
    ASSUME TypeOK, NEW d \in Docs, NEW r, Commits(d, r) PROVE domain' \in DomainRow
  BY StoreTypes, DomainTyped DEF Commits

\* So does a commit after the removal.
LEMMA LateType ==
    ASSUME TypeOK, NEW d \in Docs, LateWrite(d) PROVE domain' \in DomainRow
  BY StoreTypes, DomainTyped DEF LateWrite

\* A file that is added has a state.
LEMMA AddedType ==
    ASSUME TypeOK, NEW d \in Docs, FileAdded(d)
    PROVE  content' \in [Stores -> [Docs -> FileState]]
  <1>0. "working" \in FileState
    BY DEF FileState
  <1>1. [content EXCEPT ![task[d].store][d] = "working"] \in [Stores -> [Docs -> FileState]]
    BY <1>0, ContentUpdate
  <1>2. [content EXCEPT ![task[d].fresh][d] = "working"] \in [Stores -> [Docs -> FileState]]
    BY <1>0, ContentUpdate
  <1> QED
    BY <1>1, <1>2 DEF FileAdded

\* A step keeps the types.
LEMMA TypedNext == ASSUME IInv, Next PROVE TypeOK'
  <1> USE DEF IInv, TypeOK, store, recon
  <1>1. CASE CreateDomain
    <2>1. domain' \in DomainRow /\ made' \in 0 .. MaxStores /\ made <= made'
      <3>1. CASE Make /\ domain' = Serving(made')
        BY <3>1, MakeType, ServingType
      <3>2. CASE UNCHANGED made /\ domain' = [domain EXCEPT !.exists = TRUE]
        <4>1. domain \in DomainRow
          BY DomainTyped
        <4>2. domain' \in DomainRow
          BY <3>2, <4>1, DomainUpdates
        <4> QED
          BY <3>2, <4>2
      <3> QED
        BY <1>1, <3>1, <3>2 DEF CreateDomain
    <2> QED
      BY <1>1, <2>1 DEF CreateDomain, DomainRow
  <1>2. CASE HardDelete
    <2>1. lost' \subseteq 1 .. made
      <3>1. domain.store \in Stores \cup {NoStore} /\ domain.store <= made /\ made \in 0 .. MaxStores
        BY DomainTyped, DomainUpdates DEF StoresKnown
      <3>2. domain.store # NoStore => domain.store \in 1 .. made
        BY <3>1, NamedStore
      <3>3. lost' \in {lost, (lost \cup {domain.store}) \ {NoStore}}
        BY <1>2 DEF HardDelete
      <3> QED
        BY <3>2, <3>3
    <2>2. row' \in [Docs -> Row]
      BY <1>2, ValuesTyped DEF HardDelete
    <2>3. events' \in 0 .. MaxEvents
      BY <1>2 DEF HardDelete, Event
    <2> QED
      BY <1>2, <2>1, <2>2, <2>3 DEF HardDelete
  <1>3. CASE ProvisionScript
    <2>1. domain' \in DomainRow /\ made' \in 0 .. MaxStores /\ made <= made'
      <3>1. CASE Make /\ domain' = Serving(made')
        BY <3>1, MakeType, ServingType
      <3>2. ASSUME NEW s \in (1 .. made) \ lost, UNCHANGED made, domain' = Serving(s)
            PROVE  domain' \in DomainRow /\ made' \in 0 .. MaxStores /\ made <= made'
        BY <3>2, ServingType DEF Stores
      <3> QED
        BY <1>3, <3>1, <3>2 DEF ProvisionScript
    <2> QED
      BY <1>3, <2>1 DEF ProvisionScript, DomainRow
  <1>4. ASSUME NEW a \in BOOLEAN, SetActive(a) PROVE TypeOK'
    BY <1>4 DEF SetActive, Event
  <1>5. ASSUME NEW d \in Docs, UploadStarts(d) PROVE TypeOK'
    <2>1. task' \in [Docs -> Task]
      <3>1. domain.store \in Stores \cup {NoStore} /\ {"provision", "insert"} \subseteq Pc
        BY DEF Pc
      <3> QED
        BY <1>5, <3>1, HoldsType DEF UploadStarts
    <2> QED
      BY <1>5, <2>1 DEF UploadStarts
  <1>6. ASSUME NEW d \in Docs, Provision(d) PROVE TypeOK'
    <2>1. made' \in 0 .. MaxStores /\ made <= made'
      BY <1>6, MakeType DEF Provision
    <2>2. task' \in [Docs -> Task]
      <3>0. domain.store \in Stores \cup {NoStore} /\ "insert" \in Pc
        BY DEF Pc
      <3>1. CASE Holds(d, "insert", StoreUnderLock(d), NoStore)
        BY <3>0, <3>1, HoldsType DEF StoreUnderLock
      <3>2. CASE Make /\ Holds(d, "insert", made', made')
        BY <3>0, <3>2, MakeType, HoldsType
      <3>3. CASE Goes(d, "over")
        BY <3>3, ValuesTyped DEF Goes
      <3> QED
        BY <1>6, <3>1, <3>2, <3>3 DEF Provision
    <2>3. lock' \in Docs \cup {Free}
      BY <1>6 DEF Provision
    <2> QED
      BY <1>6, <2>1, <2>2, <2>3 DEF Provision
  <1>7. ASSUME NEW d \in Docs, Insert(d) PROVE TypeOK'
    <2>1. [status |-> "pending", sanitized |-> FALSE] \in Row
      BY DEF Row, Status
    <2>2. CASE domain.exists /\ Commits(d, [status |-> "pending", sanitized |-> FALSE])
               /\ Holds(d, "upload", task[d].store, NoStore)
      <3>1. task' \in [Docs -> Task]
        BY <2>2, HoldsType, TaskUpdates DEF Pc
      <3>2. domain' \in DomainRow
        BY <2>2, CommitType
      <3>3. row' \in [Docs -> Row] /\ lock' \in Docs \cup {Free}
        BY <2>1, <2>2 DEF Commits, Released
      <3> QED
        BY <1>7, <3>1, <3>2, <3>3 DEF Insert, DomainRow
    <2>3. CASE Goes(d, "over") /\ lock' = Released(d) /\ UNCHANGED <<row, domain>>
      BY <1>7, <2>3, ValuesTyped DEF Insert, Goes, Released
    <2> QED
      BY <1>7, <2>2, <2>3 DEF Insert
  <1>8. ASSUME NEW d \in Docs, RemoveStarts(d) PROVE TypeOK'
    <2>1. content' \in [Stores -> [Docs -> FileState]]
      <3>1. [content EXCEPT ![domain.store][d] = "out"] \in [Stores -> [Docs -> FileState]]
        BY ContentUpdate DEF FileState
      <3> QED
        BY <1>8, <3>1 DEF RemoveStarts
    <2> QED
      BY <1>8, <2>1 DEF RemoveStarts
  <1>9. ASSUME NEW d \in Docs, RemoveEnds(d) PROVE TypeOK'
    BY <1>9, ValuesTyped DEF RemoveEnds
  <1>10. ASSUME NEW d \in Docs, Ingest(d) PROVE TypeOK'
    <2>1. \A p \in {"parse", "sanitize", "add", "over", "poll", "repoll", "recreate"} :
            [task[d] EXCEPT !.pc = p] \in Task
      BY TaskUpdates DEF Pc
    <2>2. CASE PlainWrite(d)
      <3>1. task' \in [Docs -> Task]
        BY <2>1, <2>2, ValuesTyped DEF PlainWrite
      <3>2. row' \in [Docs -> Row]
        BY <2>2 DEF PlainWrite
      <3> QED
        BY <2>2, <3>1, <3>2 DEF PlainWrite
    <2>3. CASE LateWrite(d)
      <3>1. task' \in [Docs -> Task] /\ lock' \in Docs \cup {Free} /\ row' \in [Docs -> Row]
        BY <2>3, ValuesTyped DEF LateWrite, Released
      <3>2. domain' \in DomainRow
        BY <2>3, LateType
      <3> QED
        BY <2>3, <3>1, <3>2 DEF LateWrite, DomainRow
    <2>4. CASE FileAdded(d)
      <3>1. task' \in [Docs -> Task]
        BY <2>1, <2>4 DEF FileAdded
      <3>2. content' \in [Stores -> [Docs -> FileState]]
        BY <2>4, AddedType
      <3> QED
        BY <2>4, <3>1, <3>2 DEF FileAdded
    <2>5. CASE FileGone(d)
      BY <2>1, <2>5 DEF FileGone
    <2>6. CASE Recreate(d)
      <3>1. made' \in 0 .. MaxStores /\ made <= made'
        BY <2>6 DEF Recreate, Make
      <3>2. lock' \in Docs \cup {Free} /\ recreated' \in BOOLEAN
        BY <2>6 DEF Recreate
      <3>3. task' \in [Docs -> Task]
        <4>1. CASE Make /\ Holds(d, "readd", task[d].store, made')
          BY <4>1, MakeType, HoldsType, TaskUpdates DEF Pc
        <4>2. CASE Goes(d, "over")
          BY <4>2, ValuesTyped DEF Goes
        <4> QED
          BY <2>6, <4>1, <4>2 DEF Recreate
      <3>4. row' \in [Docs -> Row]
        <4>1. [row[d] EXCEPT !.status = "failed"] \in Row
          BY DEF Row, Status
        <4> QED
          BY <2>6, <4>1 DEF Recreate
      <3>5. domain' \in DomainRow
        BY <2>6 DEF Recreate, DomainRow
      <3> QED
        BY <2>6, <3>1, <3>2, <3>3, <3>4, <3>5 DEF Recreate, DomainRow
    <2> QED
      BY <1>10, <2>2, <2>3, <2>4, <2>5, <2>6, IngestShape
  <1>11. ASSUME NEW d \in Docs, Ages(d) PROVE TypeOK'
    BY <1>11 DEF Ages
  <1>12. CASE ReconcileStarts
    BY <1>12 DEF ReconcileStarts
  <1>13. ASSUME NEW d \in Docs, Reads(d) PROVE TypeOK'
    <2>1. check' \in Checks
      <3>1. row[d].status \in Status /\ row[d].sanitized \in BOOLEAN
        BY DEF Row
      <3> QED
        BY <1>13, <3>1, ValuesTyped DEF Reads, Checks
    <2> QED
      BY <1>13, <2>1 DEF Reads
  <1>14. CASE Decides
    <2>1. \A v \in Verdicts(check) : v \in Status
      BY DEF Verdicts, FileVerdicts, Status, Stuck
    <2>2. \A v \in Status, d \in Docs : [row[d] EXCEPT !.status = v] \in Row
      BY DEF Row
    <2>3. row' \in [Docs -> Row]
      <3>1. PICK v \in Verdicts(check) :
              row' = IF v = check.status \/ row[check.doc].status = "absent" THEN row
                     ELSE [row EXCEPT ![check.doc].status = v]
        BY <1>14 DEF Decides
      <3>2. CASE check.doc \in Docs
        BY <2>1, <2>2, <3>1, <3>2
      <3>3. CASE check.doc \notin Docs
        BY <3>1, <3>3
      <3> QED
        BY <3>2, <3>3
    <2> QED
      BY <1>14, <2>3, ValuesTyped DEF Decides
  <1>15. ASSUME NEW s \in Stores, LoseStore(s) PROVE TypeOK'
    <2>1. lost' \subseteq 1 .. made
      BY <1>15 DEF LoseStore, Stores
    <2>2. events' \in 0 .. MaxEvents
      BY <1>15 DEF LoseStore, Event
    <2> QED
      BY <1>15, <2>1, <2>2 DEF LoseStore
  <1>16. ASSUME NEW s \in Stores, NEW d \in Docs, StoreFinishes(s, d) PROVE TypeOK'
    BY <1>16 DEF StoreFinishes, FileState
  <1>17. CASE ApiCrashes
    BY <1>17, ValuesTyped DEF ApiCrashes, Event
  <1>18. CASE WorkerCrashes
    BY <1>18, ValuesTyped DEF WorkerCrashes, Event
  <1> QED
    BY <1>1, <1>2, <1>3, <1>4, <1>5, <1>6, <1>7, <1>8, <1>9, <1>10, <1>11, <1>12, <1>13, <1>14,
       <1>15, <1>16, <1>17, <1>18 DEF Next, Admin, Reconciler, Outside

--------------------------------------------------------------------------------
(* Locks *)

\* What LockHeld says of one document.
LockOf(d) ==
    /\ lock = d => domain.exists /\ task[d].pc \in {"insert", "readd", "repoll"}
    /\ task[d].fresh # NoStore => lock = d
    /\ task[d].pc = "insert" /\ task[d].fresh # NoStore =>
          domain.store = NoStore /\ task[d].store = task[d].fresh
    /\ task[d].pc \in {"readd", "repoll"} => recreated

\* A document whose task is left alone keeps what LockHeld says of it, unless the lock
\* becomes its own or the domain changes under it.
LEMMA LockKept ==
    ASSUME NEW k \in Docs, LockOf(k), task'[k] = task[k], recreated => recreated',
           lock # k, lock' # k
    PROVE  LockOf(k)'
  BY DEF LockOf

\* A step that touches neither tasks, lock nor domain keeps LockHeld.
LEMMA LockSame ==
    ASSUME LockHeld, task' = task, lock' = lock, domain' = domain, recreated' = recreated
    PROVE  LockHeld'
  BY DEF LockHeld

\* The effect of Holds and Goes on the tasks.
LEMMA HoldsEffect ==
    ASSUME TypeOK, NEW d \in Docs, NEW p, NEW s, NEW f, Holds(d, p, s, f)
    PROVE  /\ task'[d] = [pc |-> p, store |-> s, fresh |-> f]
           /\ task'[d].pc = p /\ task'[d].store = s /\ task'[d].fresh = f
           /\ \A k \in Docs : k # d => task'[k] = task[k]
  BY DEF Holds, TypeOK

\* A task that is over holds no store.
LEMMA OverEffect ==
    ASSUME TypeOK, NEW d \in Docs, Goes(d, "over") \/ task' = [task EXCEPT ![d] = Over]
    PROVE  /\ task'[d].pc = "over" /\ task'[d].store = NoStore /\ task'[d].fresh = NoStore
           /\ \A k \in Docs : k # d => task'[k] = task[k]
  BY ValuesTyped DEF Goes, TypeOK

\* A task that goes on keeps its stores.
LEMMA GoesEffect ==
    ASSUME TypeOK, NEW d \in Docs, NEW p \in Pc, task' = [task EXCEPT ![d] = [task[d] EXCEPT !.pc = p]]
    PROVE  /\ task'[d].pc = p /\ task'[d].store = task[d].store /\ task'[d].fresh = task[d].fresh
           /\ \A k \in Docs : k # d => task'[k] = task[k]
  BY DEF TypeOK, Task

\* The fields of a provisioned domain.
LEMMA ServingValue ==
    ASSUME NEW s PROVE Serving(s).exists = TRUE /\ Serving(s).store = s
  BY DEF Serving

\* A step keeps an uncommitted store under the row lock.
LEMMA LockNext == ASSUME TypeOK, LockHeld, Next PROVE LockHeld'
  <1> USE DEF store, recon
  <1>0. (LockHeld <=> \A d \in Docs : LockOf(d)) /\ (LockHeld' <=> \A d \in Docs : LockOf(d)')
    BY DEF LockHeld, LockOf
  <1>1. CASE CreateDomain
    <2>1. \A k \in Docs : lock # k
      BY <1>1 DEF CreateDomain, LockHeld
    <2> QED
      BY <1>0, <1>1, <2>1, LockKept DEF CreateDomain
  <1>2. CASE HardDelete
    <2>1. \A k \in Docs : lock # k
      BY <1>2 DEF HardDelete
    <2> QED
      BY <1>0, <1>2, <2>1, LockKept DEF HardDelete
  <1>3. CASE ProvisionScript
    <2>1. \A k \in Docs : lock # k
      BY <1>3 DEF ProvisionScript, LockHeld
    <2> QED
      BY <1>0, <1>3, <2>1, LockKept DEF ProvisionScript
  <1>4. ASSUME NEW a \in BOOLEAN, SetActive(a) PROVE LockHeld'
    <2>1. \A k \in Docs : lock # k
      BY <1>4 DEF SetActive
    <2> QED
      BY <1>0, <1>4, <2>1, LockKept DEF SetActive
  <1>5. ASSUME NEW d \in Docs, UploadStarts(d) PROVE LockHeld'
    <2>1. /\ task'[d].pc \in {"provision", "insert"} /\ task'[d].fresh = NoStore
          /\ \A k \in Docs : k # d => task'[k] = task[k]
      BY <1>5, HoldsEffect DEF UploadStarts
    <2>2. lock # d /\ UNCHANGED <<lock, domain, recreated>>
      BY <1>5 DEF UploadStarts, LockHeld
    <2>3. LockOf(d)'
      BY <2>1, <2>2 DEF LockOf
    <2>4. \A k \in Docs : k # d => LockOf(k)'
      BY <1>0, <2>1, <2>2 DEF LockOf
    <2> QED
      BY <1>0, <2>3, <2>4
  <1>6. ASSUME NEW d \in Docs, Provision(d) PROVE LockHeld'
    <2>1. lock # d /\ lock = Free /\ domain' = domain /\ recreated' = recreated
      BY <1>6 DEF Provision, Lockable, LockHeld
    <2> DEFINE Others == \A k \in Docs : k # d => task'[k] = task[k]
    <2>3. ASSUME domain.exists, Holds(d, "insert", StoreUnderLock(d), NoStore), lock' = d
          PROVE  LockOf(d)' /\ Others
      <3>1. task'[d].pc = "insert" /\ task'[d].fresh = NoStore /\ Others
        BY <2>3, HoldsEffect
      <3>2. domain'.exists
        BY <2>1, <2>3
      <3> QED
        BY <2>3, <3>1, <3>2 DEF LockOf
    <2>4. ASSUME domain.exists, StoreUnderLock(d) = NoStore, Holds(d, "insert", made', made'), lock' = d
          PROVE  LockOf(d)' /\ Others
      <3>1. /\ task'[d].pc = "insert" /\ task'[d].store = made' /\ task'[d].fresh = made'
            /\ Others
        BY <2>4, HoldsEffect
      <3>2. domain'.exists /\ domain'.store = NoStore
        BY <2>1, <2>4 DEF StoreUnderLock
      <3> QED
        BY <2>4, <3>1, <3>2 DEF LockOf
    <2>5. ASSUME Goes(d, "over"), lock' = lock
          PROVE  LockOf(d)' /\ Others
      BY <2>1, <2>5, OverEffect DEF LockOf
    <2>6. LockOf(d)' /\ Others /\ lock' \in {d, Free}
      <3> HIDE DEF Others
      <3> QED
        BY <1>6, <2>1, <2>3, <2>4, <2>5 DEF Provision
    <2>7. \A k \in Docs : k # d => LockOf(k)'
      BY <1>0, <2>1, <2>6, LockKept
    <2> QED
      BY <1>0, <2>6, <2>7
  <1>7. ASSUME NEW d \in Docs, Insert(d) PROVE LockHeld'
    <2>1. lock \in {Free, d} /\ lock' = Free /\ recreated' = recreated
      BY <1>7 DEF Insert, Lockable, Commits, Released
    <2>2. /\ task'[d].fresh = NoStore /\ task'[d].pc \in {"upload", "over"}
          /\ \A k \in Docs : k # d => task'[k] = task[k]
      BY <1>7, HoldsEffect, OverEffect DEF Insert
    <2>3. LockOf(d)'
      BY <2>1, <2>2 DEF LockOf
    <2>4. \A k \in Docs : k # d => LockOf(k)'
      BY <1>0, <2>1, <2>2, LockKept
    <2> QED
      BY <1>0, <2>3, <2>4
  <1>8. ASSUME NEW d \in Docs, RemoveStarts(d) \/ RemoveEnds(d) \/ Ages(d) \/ Reads(d) PROVE LockHeld'
    BY <1>8, LockSame DEF RemoveStarts, RemoveEnds, Ages, Reads
  <1>9. ASSUME NEW d \in Docs, Ingest(d) PROVE LockHeld'
    <2>1. CASE PlainWrite(d)
      <3>1. task'[d].pc \in {"parse", "sanitize", "add", "over"} /\ task'[d].fresh \in {task[d].fresh, NoStore}
            /\ \A k \in Docs : k # d => task'[k] = task[k]
        BY <2>1, OverEffect, GoesEffect DEF PlainWrite, Pc
      <3>2. lock # d /\ UNCHANGED <<lock, domain, recreated>>
        BY <2>1 DEF PlainWrite, Working, LockHeld
      <3>3. LockOf(d)'
        BY <1>0, <3>1, <3>2 DEF LockOf
      <3>4. \A k \in Docs : k # d => LockOf(k)'
        BY <1>0, <3>1, <3>2 DEF LockOf
      <3> QED
        BY <1>0, <3>3, <3>4
    <2>2. CASE LateWrite(d)
      <3>1. /\ task'[d].pc = "over" /\ task'[d].fresh = NoStore
            /\ \A k \in Docs : k # d => task'[k] = task[k]
        BY <2>2, OverEffect DEF LateWrite
      <3>2. lock' = Released(d) /\ (lock # d => domain' = domain) /\ recreated' = recreated
        BY <2>2 DEF LateWrite
      <3>3. LockOf(d)'
        BY <3>1, <3>2 DEF LockOf, Released
      <3>4. ASSUME NEW k \in Docs, k # d PROVE LockOf(k)'
        <4>1. CASE lock = d
          BY <1>0, <3>1, <3>2, <3>4, <4>1, LockKept DEF Released
        <4>2. CASE lock # d
          BY <1>0, <3>1, <3>2, <3>4, <4>2 DEF LockOf, Released
        <4> QED
          BY <4>1, <4>2
      <3> QED
        BY <1>0, <3>3, <3>4
    <2>3. CASE FileAdded(d)
      <3>1. /\ \/ task[d].pc = "add" /\ task'[d].pc = "poll"
               \/ task[d].pc = "readd" /\ task'[d].pc = "repoll"
            /\ task'[d].fresh = task[d].fresh /\ \A k \in Docs : k # d => task'[k] = task[k]
        BY <2>3, GoesEffect DEF FileAdded, Pc
      <3>2. UNCHANGED <<lock, domain, recreated>>
        BY <2>3 DEF FileAdded
      <3> QED
        BY <1>0, <3>1, <3>2 DEF LockOf
    <2>4. CASE FileGone(d)
      <3>1. /\ task[d].pc \in {"add", "poll"} /\ task'[d].pc = "recreate"
            /\ task'[d].fresh = task[d].fresh /\ \A k \in Docs : k # d => task'[k] = task[k]
        BY <2>4, GoesEffect DEF FileGone, Pc
      <3>2. UNCHANGED <<lock, domain, recreated>>
        BY <2>4 DEF FileGone
      <3> QED
        BY <1>0, <3>1, <3>2 DEF LockOf
    <2>5. CASE Recreate(d)
      <3>1. lock = Free /\ task[d].fresh = NoStore
        BY <2>5 DEF Recreate, Lockable, LockHeld
      <3> DEFINE Others == \A k \in Docs : k # d => task'[k] = task[k]
      <3>2. recreated'
        BY <2>5 DEF Recreate
      <3>3. ASSUME domain.exists, lock' = d, Holds(d, "readd", task[d].store, made'), domain' = domain
            PROVE  LockOf(d)' /\ Others
        BY <3>2, <3>3, HoldsEffect DEF LockOf
      <3>4. ASSUME Goes(d, "over"), lock' = lock
            PROVE  LockOf(d)' /\ Others
        BY <3>1, <3>4, OverEffect DEF LockOf
      <3>5. LockOf(d)' /\ Others /\ lock' \in {d, Free}
        <4> HIDE DEF Others
        <4> QED
          BY <2>5, <3>1, <3>3, <3>4 DEF Recreate
      <3>6. \A k \in Docs : k # d => LockOf(k)'
        BY <1>0, <3>1, <3>2, <3>5, LockKept
      <3> QED
        BY <1>0, <3>5, <3>6
    <2> QED
      BY <1>9, <2>1, <2>2, <2>3, <2>4, <2>5, IngestShape
  <1>10. CASE ReconcileStarts \/ Decides \/ WorkerCrashes
    BY <1>10, LockSame DEF ReconcileStarts, Decides, WorkerCrashes
  <1>11. ASSUME NEW s \in Stores, LoseStore(s) \/ \E d \in Docs : StoreFinishes(s, d) PROVE LockHeld'
    BY <1>11, LockSame DEF LoseStore, StoreFinishes
  <1>12. CASE ApiCrashes
    <2>1. lock' = Free
      BY <1>12 DEF ApiCrashes
    <2>2. ASSUME NEW k \in Docs PROVE LockOf(k)'
      <3>1. task'[k] = IF task[k].pc = "none" THEN task[k] ELSE Over
        BY <1>12 DEF ApiCrashes
      <3>2. task[k].pc = "none" => task[k].fresh = NoStore
        BY DEF LockHeld
      <3>3. task'[k].fresh = NoStore /\ task'[k].pc \in {"none", "over"}
        BY <3>1, <3>2, ValuesTyped
      <3> QED
        BY <2>1, <3>3 DEF LockOf
    <2> QED
      BY <1>0, <2>2
  <1> QED
    BY <1>1, <1>2, <1>3, <1>4, <1>5, <1>6, <1>7, <1>8, <1>9, <1>10, <1>11, <1>12
    DEF Next, Admin, Reconciler, Outside

--------------------------------------------------------------------------------
(* What a step does to a task, to a row, to the files and to the domain *)

Early == {"none", "provision", "insert"}

\* A step leaves a task alone, ends it, or takes it one stage on.
TaskStep(k) ==
    \/ task'[k] = task[k]
    \/ task'[k].pc = "over" /\ task'[k].store = NoStore /\ task'[k].fresh = NoStore
    \/ /\ UploadStarts(k) /\ task'[k].pc \in {"provision", "insert"}
       /\ task'[k].store = domain.store /\ task'[k].fresh = NoStore
       /\ task'[k].pc = "insert" => domain.store # NoStore
    \/ /\ Provision(k) /\ task'[k].pc = "insert" /\ task'[k].store # NoStore
       /\ \/ task'[k].store = domain.store /\ task'[k].fresh = NoStore
          \/ task'[k].store = made' /\ task'[k].fresh = made'
    \/ /\ Insert(k) /\ task[k].pc = "insert" /\ task'[k].pc = "upload"
       /\ task'[k].store = task[k].store /\ task'[k].fresh = NoStore
    \/ /\ task[k].pc \in Working /\ task'[k].pc \in (Working \ {"upload"}) \cup {"recreate"}
       /\ task'[k].pc = "add" => task[k].pc \in {"upload", "parse", "sanitize"}
       /\ task'[k].pc \in {"parse", "sanitize"} => task[k].pc \in {"upload", "parse", "sanitize"}
       /\ task'[k].store = task[k].store /\ task'[k].fresh = task[k].fresh
       /\ domain' = domain
    \/ /\ task[k].pc \in {"recreate", "readd"} /\ task'[k].pc \in {"readd", "repoll"} /\ recreated'
       /\ task'[k].store = task[k].store /\ task'[k].fresh \in {made', task[k].fresh}

\* What any step does to one task.
LEMMA TaskSteps == ASSUME TypeOK, LockHeld, Next, NEW k \in Docs PROVE TaskStep(k)
  <1>1. ASSUME task' = task PROVE TaskStep(k)
    BY <1>1 DEF TaskStep
  <1>2. CASE \/ CreateDomain \/ HardDelete \/ ProvisionScript \/ Reconciler
             \/ \E a \in BOOLEAN : SetActive(a)
             \/ \E d \in Docs : RemoveStarts(d) \/ RemoveEnds(d) \/ Ages(d)
             \/ \E s \in Stores : LoseStore(s) \/ \E d \in Docs : StoreFinishes(s, d)
             \/ WorkerCrashes
    BY <1>1, <1>2 DEF CreateDomain, HardDelete, ProvisionScript, Reconciler, ReconcileStarts, Reads,
       Decides, SetActive, RemoveStarts, RemoveEnds, Ages, LoseStore, StoreFinishes, WorkerCrashes
  <1>3. ASSUME NEW d \in Docs, UploadStarts(d) PROVE TaskStep(k)
    <2>1. /\ task'[d].pc = IF domain.store = NoStore THEN "provision" ELSE "insert"
          /\ task'[d].store = domain.store /\ task'[d].fresh = NoStore
          /\ \A e \in Docs : e # d => task'[e] = task[e]
      BY <1>3, HoldsEffect DEF UploadStarts
    <2> QED
      BY <1>3, <2>1 DEF TaskStep
  <1>4. ASSUME NEW d \in Docs, Provision(d) PROVE TaskStep(k)
    <2> DEFINE Others == \A e \in Docs : e # d => task'[e] = task[e]
    <2>1. ASSUME StoreUnderLock(d) # NoStore, Holds(d, "insert", StoreUnderLock(d), NoStore) PROVE TaskStep(k)
      <3>1. /\ task'[d].pc = "insert" /\ task'[d].store = StoreUnderLock(d)
            /\ task'[d].fresh = NoStore /\ Others
        BY <2>1, HoldsEffect
      <3>2. StoreUnderLock(d) = domain.store
        BY DEF StoreUnderLock
      <3> QED
        BY <1>4, <2>1, <3>1, <3>2 DEF TaskStep
    <2>2. ASSUME Make, Holds(d, "insert", made', made') PROVE TaskStep(k)
      <3>1. /\ task'[d].pc = "insert" /\ task'[d].store = made' /\ task'[d].fresh = made' /\ Others
        BY <2>2, HoldsEffect
      <3>2. made' # NoStore
        BY <2>2, MakeType DEF Stores, NoStore
      <3> QED
        BY <1>4, <3>1, <3>2 DEF TaskStep
    <2>3. ASSUME Goes(d, "over") PROVE TaskStep(k)
      BY <2>3, OverEffect DEF TaskStep
    <2> QED
      BY <1>4, <2>1, <2>2, <2>3 DEF Provision
  <1>5. ASSUME NEW d \in Docs, Insert(d) PROVE TaskStep(k)
    <2>1. ASSUME Holds(d, "upload", task[d].store, NoStore) PROVE TaskStep(k)
      <3>1. /\ task'[d].pc = "upload" /\ task'[d].store = task[d].store /\ task'[d].fresh = NoStore
            /\ \A e \in Docs : e # d => task'[e] = task[e]
        BY <2>1, HoldsEffect, ZenonT(40)
      <3>2. task[d].pc = "insert"
        BY <1>5 DEF Insert
      <3> QED
        BY <1>5, <3>1, <3>2 DEF TaskStep
    <2>2. ASSUME Goes(d, "over") PROVE TaskStep(k)
      BY <2>2, OverEffect DEF TaskStep
    <2> QED
      BY <1>5, <2>1, <2>2 DEF Insert
  <1>6. ASSUME NEW d \in Docs, Ingest(d) PROVE TaskStep(k)
    <2>1. ASSUME Goes(d, "over") \/ task' = [task EXCEPT ![d] = Over] PROVE TaskStep(k)
      BY <2>1, OverEffect DEF TaskStep
    <2>2. CASE PlainWrite(d)
      <3>1. PICK p \in {"parse", "sanitize", "add", "over"} :
              /\ p # "over" => task[d].pc \in {"upload", "parse", "sanitize"}
              /\ task' = [task EXCEPT ![d] = IF p = "over" THEN Over ELSE [task[d] EXCEPT !.pc = p]]
        BY <2>2 DEF PlainWrite
      <3>2. CASE p = "over"
        BY <2>1, <3>1, <3>2
      <3>3. CASE p # "over"
        <4>1. /\ task'[d].pc = p /\ task'[d].store = task[d].store /\ task'[d].fresh = task[d].fresh
              /\ \A e \in Docs : e # d => task'[e] = task[e]
          BY <3>1, <3>3, GoesEffect DEF Pc
        <4>2. domain' = domain
          BY <2>2 DEF PlainWrite
        <4> QED
          BY <3>1, <3>3, <4>1, <4>2 DEF TaskStep, Working
      <3> QED
        BY <3>2, <3>3
    <2>3. CASE LateWrite(d)
      BY <2>1, <2>3 DEF LateWrite
    <2>4. CASE FileAdded(d)
      <3>1. /\ \/ task[d].pc = "add" /\ task'[d].pc = "poll"
               \/ task[d].pc = "readd" /\ task'[d].pc = "repoll"
            /\ task'[d].store = task[d].store /\ task'[d].fresh = task[d].fresh
            /\ \A e \in Docs : e # d => task'[e] = task[e]
        BY <2>4, GoesEffect DEF FileAdded, Pc
      <3>2. domain' = domain /\ recreated' = recreated /\ (task[d].pc = "readd" => recreated)
        BY <2>4 DEF FileAdded, LockHeld
      <3> QED
        BY <3>1, <3>2 DEF TaskStep, Working
    <2>5. CASE FileGone(d)
      <3>1. /\ task[d].pc \in {"add", "poll"} /\ task'[d].pc = "recreate"
            /\ task'[d].store = task[d].store /\ task'[d].fresh = task[d].fresh
            /\ \A e \in Docs : e # d => task'[e] = task[e]
        BY <2>5, GoesEffect DEF FileGone, Pc
      <3>2. domain' = domain
        BY <2>5 DEF FileGone
      <3> QED
        BY <3>1, <3>2 DEF TaskStep, Working
    <2>6. CASE Recreate(d)
      <3>1. ASSUME Holds(d, "readd", task[d].store, made') PROVE TaskStep(k)
        <4>1. /\ task'[d].pc = "readd" /\ task'[d].store = task[d].store /\ task'[d].fresh = made'
              /\ \A e \in Docs : e # d => task'[e] = task[e]
          BY <3>1, HoldsEffect, ZenonT(40)
        <4>2. task[d].pc = "recreate" /\ recreated'
          BY <2>6 DEF Recreate
        <4> QED
          BY <4>1, <4>2 DEF TaskStep
      <3> QED
        BY <2>1, <2>6, <3>1 DEF Recreate
    <2> QED
      BY <1>6, <2>2, <2>3, <2>4, <2>5, <2>6, IngestShape
  <1>7. CASE ApiCrashes
    <2>1. task'[k] = IF task[k].pc = "none" THEN task[k] ELSE Over
      BY <1>7 DEF ApiCrashes
    <2> QED
      BY <2>1, ValuesTyped DEF TaskStep
  <1> QED
    BY <1>2, <1>3, <1>4, <1>5, <1>6, <1>7 DEF Next, Admin, Outside

\* A row appears with its insertion, and becomes indexed only by a task or a check that
\* saw its file completed.
RowStep(k) ==
    /\ row[k].status = "absent" =>
          \/ row'[k].status = "absent"
          \/ /\ Insert(k) /\ domain.exists /\ task'[k].pc = "upload"
             /\ Commits(k, [status |-> "pending", sanitized |-> FALSE])
    /\ row'[k].status = "indexed" /\ row[k].status # "indexed" =>
          \/ recreated'
          \/ /\ task[k].pc = "poll" /\ content[task[k].store][k] = "completed"
             /\ UNCHANGED <<domain, content, removal>>
          \/ /\ check.doc = k /\ check.store # NoStore /\ content[check.store][k] = "completed"
             /\ UNCHANGED <<domain, content, removal>>

\* What any step does to one row.
LEMMA RowSteps == ASSUME TypeOK, LockHeld, Next, NEW k \in Docs PROVE RowStep(k)
  <1> USE DEF store
  <1>0. row \in [Docs -> Row]
    BY DEF TypeOK
  <1>1. ASSUME row' = row \/ row'[k] = row[k] \/ row'[k].status = "absent" PROVE RowStep(k)
    BY <1>1 DEF RowStep
  <1>2. CASE \/ CreateDomain \/ ProvisionScript \/ ReconcileStarts \/ (\E d \in Docs : Reads(d))
             \/ \E a \in BOOLEAN : SetActive(a)
             \/ \E d \in Docs : UploadStarts(d) \/ Provision(d) \/ RemoveStarts(d) \/ Ages(d)
             \/ \E s \in Stores : LoseStore(s) \/ \E d \in Docs : StoreFinishes(s, d)
             \/ ApiCrashes \/ WorkerCrashes
    BY <1>1, <1>2 DEF CreateDomain, ProvisionScript, ReconcileStarts, Reads, UploadStarts, Provision,
       SetActive, RemoveStarts, Ages, LoseStore, StoreFinishes, ApiCrashes, WorkerCrashes
  <1>3. CASE HardDelete
    BY <1>1, <1>3, ValuesTyped DEF HardDelete
  <1>4. ASSUME NEW d \in Docs, RemoveEnds(d) PROVE RowStep(k)
    BY <1>0, <1>1, <1>4, ValuesTyped DEF RemoveEnds
  <1>5. ASSUME NEW d \in Docs, Insert(d) PROVE RowStep(k)
    <2>1. ASSUME domain.exists, Commits(d, [status |-> "pending", sanitized |-> FALSE]),
                 Holds(d, "upload", task[d].store, NoStore)
          PROVE  RowStep(k)
      <3>1. row' = [row EXCEPT ![d] = [status |-> "pending", sanitized |-> FALSE]]
        BY <2>1 DEF Commits
      <3>2. task'[d].pc = "upload"
        BY <2>1, HoldsEffect
      <3>3. row'[d].status = "pending" /\ (k # d => row'[k] = row[k])
        BY <1>0, <3>1
      <3> QED
        BY <1>1, <1>5, <2>1, <3>2, <3>3 DEF RowStep
    <2> QED
      BY <1>1, <1>5, <2>1 DEF Insert
  <1>6. ASSUME NEW d \in Docs, Ingest(d) PROVE RowStep(k)
    <2>1. CASE PlainWrite(d)
      <3>1. CASE row' = row
        BY <1>1, <3>1
      <3>2. CASE row' # row
        <4>1. row[d].status # "absent"
          BY <2>1, <3>2 DEF PlainWrite
        <4>2. PICK r \in Row :
                 /\ row' = [row EXCEPT ![d] = r]
                 /\ r.status = "indexed" =>
                       task[d].pc = "poll" /\ content[task[d].store][d] = "completed"
          BY <2>1, <3>2 DEF PlainWrite
        <4>3. row'[d] = r /\ (k # d => row'[k] = row[k])
          BY <1>0, <4>2
        <4>4. UNCHANGED <<domain, content, removal>>
          BY <2>1 DEF PlainWrite
        <4> QED
          BY <1>1, <4>1, <4>2, <4>3, <4>4 DEF RowStep
      <3> QED
        BY <3>1, <3>2
    <2>2. CASE LateWrite(d)
      <3>1. row' = row \/ (row[d].status # "absent" /\ \E r \in Row : row' = [row EXCEPT ![d] = r])
        BY <2>2 DEF LateWrite
      <3>2. recreated'
        BY <2>2 DEF LateWrite
      <3>3. k # d => row'[k] = row[k]
        BY <1>0, <3>1
      <3> QED
        BY <1>1, <3>1, <3>2, <3>3 DEF RowStep
    <2>3. CASE FileAdded(d) \/ FileGone(d)
      BY <1>1, <2>3 DEF FileAdded, FileGone
    <2>4. CASE Recreate(d)
      <3>1. recreated' /\ (row' = row \/ (row[d].status # "absent" /\ row' = [row EXCEPT ![d].status = "failed"]))
        BY <2>4 DEF Recreate
      <3>2. k # d => row'[k] = row[k]
        BY <1>0, <3>1
      <3> QED
        BY <1>1, <3>1, <3>2 DEF RowStep
    <2> QED
      BY <1>6, <2>1, <2>2, <2>3, <2>4, IngestShape
  <1>7. CASE Decides
    <2>1. PICK v \in Verdicts(check) :
            row' = IF v = check.status \/ row[check.doc].status = "absent" THEN row
                   ELSE [row EXCEPT ![check.doc].status = v]
      BY <1>7 DEF Decides
    <2>2. CASE check.doc # k \/ row' = row
      <3>1. row'[k] = row[k]
        BY <1>0, <2>1, <2>2
      <3> QED
        BY <1>1, <3>1
    <2>3. CASE check.doc = k /\ row' # row
      <3>1. row[k].status # "absent" /\ row'[k] = [row[k] EXCEPT !.status = v]
        BY <1>0, <2>1, <2>3
      <3>2. row'[k].status = v
        BY <1>0, <3>1 DEF Row
      <3>3. v = "indexed" => check.store # NoStore /\ content[check.store][check.doc] = "completed"
        <4>1. v # check.status
          BY <2>1, <2>3
        <4> QED
          BY <2>1, <4>1 DEF Verdicts, FileVerdicts
      <3>4. UNCHANGED <<domain, content, removal>>
        BY <1>7 DEF Decides
      <3> QED
        BY <2>3, <3>1, <3>2, <3>3, <3>4 DEF RowStep
    <2> QED
      BY <2>2, <2>3
  <1> QED
    BY <1>2, <1>3, <1>4, <1>5, <1>6, <1>7 DEF Next, Admin, Reconciler, Outside

\* A file comes into a store through its own task, and its state there changes only when
\* the store finishes it, or when a deletion takes it out.
ContentStep(k) ==
    \A s \in Stores :
        \/ content'[s][k] = content[s][k]
        \/ content'[s][k] = "out" /\ removal'[k] = "running"
        \/ task[k].pc = "add" /\ task'[k].pc = "poll"
        \/ task[k].pc = "readd" /\ task'[k].pc = "repoll" /\ recreated'
        \/ content[s][k] = "working"

\* What any step does to one document's file in one store.
LEMMA ContentSteps == ASSUME TypeOK, LockHeld, Next, NEW k \in Docs PROVE ContentStep(k)
  <1> USE DEF store
  <1>0. content \in [Stores -> [Docs -> FileState]] /\ removal \in [Docs -> {"none", "running", "interrupted"}]
    BY DEF TypeOK
  <1>1. ASSUME content' = content PROVE ContentStep(k)
    BY <1>1 DEF ContentStep
  <1>2. CASE Admin /\ ~ (\E d \in Docs : RemoveStarts(d))
    BY <1>1, <1>2 DEF Admin, CreateDomain, HardDelete, ProvisionScript, SetActive, UploadStarts,
       Provision, Insert, RemoveEnds
  <1>3. ASSUME NEW d \in Docs, RemoveStarts(d) PROVE ContentStep(k)
    <2>1. removal'[d] = "running"
      BY <1>0, <1>3 DEF RemoveStarts
    <2>2. content' = [content EXCEPT ![domain.store][d] = "out"] \/ content' = content
      BY <1>3 DEF RemoveStarts
    <2> QED
      BY <1>0, <2>1, <2>2 DEF ContentStep
  <1>4. ASSUME NEW d \in Docs, Ingest(d) PROVE ContentStep(k)
    <2>1. CASE PlainWrite(d) \/ LateWrite(d) \/ FileGone(d) \/ Recreate(d)
      BY <1>1, <2>1 DEF PlainWrite, LateWrite, FileGone, Recreate
    <2>2. CASE FileAdded(d)
      <3>1. k # d => \A s \in Stores : content'[s][k] = content[s][k]
        BY <1>0, <2>2 DEF FileAdded
      <3>2. \/ task[d].pc = "add" /\ task'[d].pc = "poll"
            \/ task[d].pc = "readd" /\ task'[d].pc = "repoll"
        BY <2>2, GoesEffect DEF FileAdded, Pc
      <3>3. recreated' = recreated /\ (task[d].pc = "readd" => recreated)
        BY <2>2 DEF FileAdded, LockHeld
      <3> QED
        BY <3>1, <3>2, <3>3 DEF ContentStep
    <2> QED
      BY <1>4, <2>1, <2>2, IngestShape
  <1>5. CASE Reconciler
    BY <1>1, <1>5 DEF Reconciler, ReconcileStarts, Reads, Decides
  <1>6. ASSUME NEW s \in Stores, NEW d \in Docs, StoreFinishes(s, d) PROVE ContentStep(k)
    BY <1>0, <1>6 DEF StoreFinishes, ContentStep
  <1>7. CASE Outside /\ ~ (\E s \in Stores, d \in Docs : StoreFinishes(s, d))
    BY <1>1, <1>7 DEF Outside, LoseStore, Ages, ApiCrashes, WorkerCrashes
  <1> QED
    BY <1>2, <1>3, <1>4, <1>5, <1>6, <1>7 DEF Next

\* The domain's store changes only when it has none, or by a task that replaces it.
DomainStep ==
    \/ domain'.exists = domain.exists /\ domain'.store = domain.store
    \/ ~ domain.exists /\ made = 0 /\ domain'.store \in {domain.store, made'}
    \/ ~ domain'.exists /\ domain'.store = NoStore /\ \A k \in Docs : row'[k].status = "absent"
    \/ /\ domain'.exists /\ domain.exists /\ domain.store = NoStore /\ domain'.store \in 1 .. made'
       /\ \A k \in Docs : task[k].pc \in {"none", "over"} /\ task'[k] = task[k]
    \/ /\ domain'.exists /\ domain.exists /\ domain.store = NoStore
       /\ \E k \in Docs : /\ Insert(k) /\ lock = k /\ task'[k].pc = "upload"
                          /\ task[k].fresh # NoStore /\ domain'.store = task[k].fresh
    \/ recreated' /\ domain'.store \in {NoStore, domain.store} \cup {task[k].fresh : k \in Docs}

\* What any step does to the domain.
LEMMA DomainSteps == ASSUME IInv, Next PROVE DomainStep
  <1> USE DEF store
  <1>0. TypeOK /\ LockHeld /\ domain \in DomainRow
    BY DomainTyped DEF IInv
  <1>1. ASSUME domain' = domain PROVE DomainStep
    BY <1>1 DEF DomainStep
  <1>2. CASE CreateDomain
    <2>1. CASE domain' = Serving(made')
      BY <1>2, <2>1, ServingValue DEF CreateDomain, DomainStep
    <2>2. CASE domain' = [domain EXCEPT !.exists = TRUE]
      <3>1. domain'.store = domain.store
        BY <1>0, <2>2 DEF DomainRow
      <3> QED
        BY <1>2, <3>1 DEF CreateDomain, DomainStep
    <2> QED
      BY <1>2, <2>1, <2>2 DEF CreateDomain
  <1>3. CASE HardDelete
    <2>1. \A k \in Docs : row'[k].status = "absent"
      BY <1>3, ValuesTyped DEF HardDelete
    <2> QED
      BY <1>3, <2>1 DEF HardDelete, DomainStep
  <1>4. CASE ProvisionScript
    <2>1. \E s \in 1 .. made' : domain' = Serving(s)
      <3>1. CASE Make /\ domain' = Serving(made')
        <4>1. made' \in 1 .. made'
          BY <1>0, <3>1, MakeType DEF Stores
        <4> QED
          BY <3>1, <4>1
      <3>2. CASE \E s \in (1 .. made) \ lost : domain' = Serving(s) /\ UNCHANGED made
        BY <3>2
      <3> QED
        BY <1>4, <3>1, <3>2 DEF ProvisionScript
    <2>2. domain'.exists /\ domain'.store \in 1 .. made'
      BY <2>1, ServingValue
    <2>3. domain.exists /\ domain.store = NoStore
          /\ \A k \in Docs : task[k].pc \in {"none", "over"} /\ task'[k] = task[k]
      BY <1>4 DEF ProvisionScript
    <2> QED
      BY <2>2, <2>3 DEF DomainStep
  <1>5. ASSUME NEW a \in BOOLEAN, SetActive(a) PROVE DomainStep
    <2>1. domain'.exists = domain.exists /\ domain'.store = domain.store
      BY <1>0, <1>5 DEF SetActive, DomainRow
    <2> QED
      BY <2>1 DEF DomainStep
  <1>6. ASSUME NEW d \in Docs, Insert(d) PROVE DomainStep
    <2>1. CASE lock # d
      BY <1>1, <1>6, <2>1 DEF Insert, Commits
    <2>2. CASE lock = d /\ domain' # domain
      <3>1. /\ domain.exists /\ Commits(d, [status |-> "pending", sanitized |-> FALSE])
            /\ Holds(d, "upload", task[d].store, NoStore) /\ task[d].pc = "insert"
        BY <1>6, <2>2 DEF Insert
      <3>2. domain' = Serving(IF task[d].fresh = NoStore THEN domain.store ELSE task[d].fresh)
        BY <2>2, <3>1 DEF Commits
      <3>3. domain'.exists /\ domain'.store = IF task[d].fresh = NoStore THEN domain.store ELSE task[d].fresh
        BY <3>2, ServingValue
      <3>4. task[d].fresh # NoStore => domain.store = NoStore
        BY <1>0, <3>1 DEF LockHeld
      <3>5. task'[d].pc = "upload"
        BY <1>0, <3>1, HoldsEffect
      <3>6. domain.exists = TRUE /\ domain'.exists = TRUE
        BY <3>1, <3>2, <1>0 DEF DomainRow, Serving
      <3> QED
        BY <1>6, <2>2, <3>3, <3>4, <3>5, <3>6 DEF DomainStep
    <2> QED
      BY <1>1, <2>1, <2>2
  <1>7. ASSUME NEW d \in Docs, Ingest(d) PROVE DomainStep
    <2>1. CASE PlainWrite(d) \/ FileAdded(d) \/ FileGone(d)
      BY <1>1, <2>1 DEF PlainWrite, FileAdded, FileGone
    <2>2. CASE LateWrite(d)
      <3>1. recreated'
        BY <2>2 DEF LateWrite
      <3>2. domain' = domain \/ \E s \in {domain.store, task[d].fresh} : domain' = Serving(s)
        BY <2>2 DEF LateWrite
      <3> QED
        BY <1>1, <3>1, <3>2, ServingValue DEF DomainStep
    <2>3. CASE Recreate(d)
      <3>1. recreated' /\ (domain' = domain \/ domain' = [domain EXCEPT !.store = NoStore])
        BY <2>3 DEF Recreate
      <3>2. domain' = [domain EXCEPT !.store = NoStore] => domain'.store = NoStore
        BY <1>0 DEF DomainRow
      <3> QED
        BY <1>1, <3>1, <3>2 DEF DomainStep
    <2> QED
      BY <1>0, <1>7, <2>1, <2>2, <2>3, IngestShape
  <1>8. CASE \/ Reconciler \/ Outside
             \/ \E d \in Docs : UploadStarts(d) \/ Provision(d) \/ RemoveStarts(d) \/ RemoveEnds(d)
    BY <1>1, <1>8 DEF Reconciler, ReconcileStarts, Reads, Decides, UploadStarts, Provision, RemoveStarts,
       RemoveEnds, Outside, LoseStore, StoreFinishes, Ages, ApiCrashes, WorkerCrashes
  <1> QED
    BY <1>2, <1>3, <1>4, <1>5, <1>6, <1>7, <1>8 DEF Next, Admin

\* Stores are only made, lost and replaced; what the reconciler read it keeps to its verdict.
StoresStep == made <= made' /\ lost \subseteq lost' /\ (recreated => recreated')

CheckStep ==
    \/ check'.doc = Free /\ check'.store = NoStore
    \/ check'.doc = check.doc /\ check'.store = check.store /\ old \subseteq old'
    \/ /\ check'.doc \in old /\ old' = old /\ domain' = domain /\ made' = made
       /\ check'.store \in {NoStore, domain.store}

RemovalStep ==
    \A k \in Docs : /\ k \in old' => k \in old \/ (row[k].status \in Stuck /\ task' = task)
                    /\ removal'[k] = "none" => removal[k] = "none" \/ row'[k].status = "absent"

GlobalStep == StoresStep /\ CheckStep /\ RemovalStep

\* What any step does to the stores, the reconciler's reads and the removals.
LEMMA GlobalSteps == ASSUME TypeOK, LockHeld, Next PROVE GlobalStep
  <1> USE DEF store, recon
  <1>0. made \in Nat /\ removal \in [Docs -> {"none", "running", "interrupted"}] /\ row \in [Docs -> Row]
        /\ todo \subseteq old
    BY DEF TypeOK
  <1>1. ASSUME made <= made', lost \subseteq lost', recreated => recreated', old' = old, check' = check,
               \A k \in Docs : removal'[k] = "none" => removal[k] = "none" \/ row'[k].status = "absent"
        PROVE  GlobalStep
    <2>1. made <= made' /\ lost \subseteq lost' /\ (recreated => recreated')
      BY <1>1
    <2>2. check'.doc = check.doc /\ check'.store = check.store /\ old \subseteq old'
      BY <1>1
    <2>3. \A k \in Docs : /\ k \in old' => k \in old \/ (row[k].status \in Stuck /\ task' = task)
                          /\ removal'[k] = "none" => removal[k] = "none" \/ row'[k].status = "absent"
      BY <1>1
    <2>4. StoresStep
      BY <2>1 DEF StoresStep
    <2>5. CheckStep
      BY <2>2 DEF CheckStep
    <2>6. RemovalStep
      BY <2>3 DEF RemovalStep
    <2> QED
      BY <2>4, <2>5, <2>6 DEF GlobalStep
  <1>m. made' = made \/ Make => made <= made'
    BY <1>0 DEF Make
  <1>2. CASE CreateDomain \/ HardDelete \/ ProvisionScript \/ \E a \in BOOLEAN : SetActive(a)
    <2>1. (made' = made \/ Make) /\ UNCHANGED <<recreated, old, check, removal>>
      BY <1>2 DEF CreateDomain, HardDelete, ProvisionScript, SetActive
    <2>2. lost \subseteq lost'
      <3>1. CASE HardDelete
        <4>1. NoStore \notin lost
          BY DEF TypeOK, NoStore
        <4> QED
          BY <3>1, <4>1 DEF HardDelete
      <3> QED
        BY <1>2, <3>1 DEF CreateDomain, ProvisionScript, SetActive
    <2> QED
      BY <1>1, <1>m, <2>1, <2>2
  <1>3. ASSUME NEW d \in Docs, UploadStarts(d) \/ Provision(d) \/ Insert(d) PROVE GlobalStep
    <2>1. (made' = made \/ Make) /\ UNCHANGED <<lost, recreated, recon, removal>>
      BY <1>3 DEF UploadStarts, Provision, Insert
    <2> QED
      BY <1>1, <1>m, <2>1
  <1>4. ASSUME NEW d \in Docs, RemoveStarts(d) \/ RemoveEnds(d) PROVE GlobalStep
    <2>1. \A k \in Docs : removal'[k] = "none" => removal[k] = "none" \/ row'[k].status = "absent"
      BY <1>0, <1>4, ValuesTyped DEF RemoveStarts, RemoveEnds
    <2> QED
      BY <1>0, <1>1, <1>4, <2>1 DEF RemoveStarts, RemoveEnds
  <1>5. ASSUME NEW d \in Docs, Ingest(d) PROVE GlobalStep
    <2>1. /\ (made' = made \/ Make) /\ UNCHANGED <<lost, recon, removal>>
          /\ recreated => recreated'
      BY <1>5, IngestShape DEF PlainWrite, LateWrite, FileAdded, FileGone, Recreate
    <2> QED
      BY <1>1, <1>m, <2>1
  <1>6. CASE Reconciler
    <2>1. ASSUME NEW d \in Docs, Reads(d) PROVE GlobalStep
      BY <1>0, <2>1, ValuesTyped DEF Reads, GlobalStep, StoresStep, CheckStep, RemovalStep
    <2>2. CASE ReconcileStarts
      BY <1>0, <2>2 DEF ReconcileStarts, GlobalStep, StoresStep, CheckStep, RemovalStep
    <2>3. CASE Decides
      BY <1>0, <2>3, ValuesTyped DEF Decides, GlobalStep, StoresStep, CheckStep, RemovalStep
    <2> QED
      BY <1>6, <2>1, <2>2, <2>3 DEF Reconciler
  <1>7. CASE Outside
    <2>1. ASSUME NEW d \in Docs, Ages(d) PROVE GlobalStep
      BY <1>0, <2>1 DEF Ages, GlobalStep, StoresStep, CheckStep, RemovalStep
    <2>2. CASE WorkerCrashes
      BY <1>0, <2>2, ValuesTyped DEF WorkerCrashes, GlobalStep, StoresStep, CheckStep, RemovalStep
    <2>3. CASE ApiCrashes
      <3>1. \A k \in Docs : removal'[k] = "none" => removal[k] = "none"
        BY <1>0, <2>3 DEF ApiCrashes
      <3> QED
        BY <1>0, <1>1, <2>3, <3>1 DEF ApiCrashes
    <2>4. ASSUME NEW s \in Stores, LoseStore(s) \/ \E d \in Docs : StoreFinishes(s, d) PROVE GlobalStep
      BY <1>0, <1>1, <2>4 DEF LoseStore, StoreFinishes
    <2> QED
      BY <1>7, <2>1, <2>2, <2>3, <2>4 DEF Outside
  <1> QED
    BY <1>2, <1>3, <1>4, <1>5, <1>6, <1>7 DEF Next, Admin

--------------------------------------------------------------------------------
(* The other parts of the inductive invariant *)

\* All of these at once.
LEMMA Facts ==
    ASSUME IInv, Next
    PROVE  /\ TypeOK /\ LockHeld /\ GlobalStep /\ DomainStep
           /\ \A k \in Docs : TaskStep(k) /\ RowStep(k) /\ ContentStep(k)
           /\ made \in Nat /\ made' \in Nat /\ domain.store \in Nat /\ domain'.store \in Nat
           /\ check.store \in Nat /\ check'.store \in Nat
           /\ \A k \in Docs : /\ task[k].store \in Nat /\ task[k].fresh \in Nat /\ task[k].pc \in Pc
                              /\ task'[k].store \in Nat /\ task'[k].fresh \in Nat /\ task'[k].pc \in Pc
  <1>1. TypeOK /\ LockHeld /\ TypeOK'
    BY TypedNext DEF IInv
  <1>2. Stores \cup {NoStore} \subseteq Nat
    BY DEF Stores, NoStore
  <1>3. domain.store \in Nat /\ check.store \in Nat /\ made \in Nat
    BY <1>1, <1>2 DEF TypeOK, Checks
  <1>4. domain'.store \in Nat /\ check'.store \in Nat /\ made' \in Nat
    BY <1>1, <1>2 DEF TypeOK, Checks
  <1>5. \A k \in Docs : task[k].store \in Nat /\ task[k].fresh \in Nat /\ task[k].pc \in Pc
    BY <1>1, <1>2 DEF TypeOK, Task
  <1>6. \A k \in Docs : task'[k].store \in Nat /\ task'[k].fresh \in Nat /\ task'[k].pc \in Pc
    BY <1>1, <1>2 DEF TypeOK, Task
  <1> QED
    BY <1>1, <1>3, <1>4, <1>5, <1>6, GlobalSteps, DomainSteps, TaskSteps, RowSteps, ContentSteps

\* A step names no store that has not been made.
LEMMA StoresNext == ASSUME IInv, Next PROVE StoresKnown'
  <1>0. StoresKnown /\ made <= made'
    BY Facts DEF IInv, GlobalStep, StoresStep
  <1>1. domain'.store <= made'
    <2>1. \A k \in Docs : task[k].fresh <= made
      BY <1>0 DEF StoresKnown
    <2>2. domain.store <= made
      BY <1>0 DEF StoresKnown
    <2> QED
      BY <1>0, <2>1, <2>2, Facts DEF DomainStep, NoStore
  <1>2. check'.store <= made'
    BY <1>0, Facts DEF StoresKnown, GlobalStep, CheckStep, NoStore
  <1>3. ASSUME NEW k \in Docs
        PROVE  /\ task'[k].store <= made' /\ task'[k].fresh <= made'
               /\ task'[k].pc \in {"insert"} \cup Working => task'[k].store # NoStore
    <2>1. TaskStep(k) /\ task[k].store <= made /\ task[k].fresh <= made /\ domain.store <= made
          /\ (task[k].pc \in {"insert"} \cup Working => task[k].store # NoStore)
      BY <1>0, Facts DEF StoresKnown, Working
    <2>2. task'[k].store <= made' /\ task'[k].fresh <= made'
      BY <1>0, <2>1, Facts DEF TaskStep, NoStore
    <2>3. task'[k].pc \in {"insert"} \cup Working => task'[k].store # NoStore
      BY <2>1 DEF TaskStep, Working
    <2> QED
      BY <2>2, <2>3
  <1> QED
    BY <1>1, <1>2, <1>3 DEF StoresKnown, Working

\* A step keeps tasks and reads to documents that have a row.
LEMMA RowsNext == ASSUME IInv, Next PROVE RowsInserted'
  <1>0. RowsInserted /\ GlobalStep
    BY Facts DEF IInv
  <1>1. check'.doc \in old' \cup {Free}
    BY <1>0 DEF RowsInserted, GlobalStep, CheckStep
  <1>2. ASSUME NEW k \in Docs, task'[k].pc \in Early
        PROVE  row'[k].status = "absent" /\ k \notin old'
    <2>1. TaskStep(k) /\ RowStep(k)
      BY Facts
    <2>2. task[k].pc \in Early
      BY <1>2, <2>1 DEF TaskStep, Early, Working, UploadStarts, Provision
    <2>3. row[k].status = "absent" /\ k \notin old
      BY <1>0, <2>2 DEF RowsInserted, Early
    <2>4. row'[k].status = "absent"
      BY <1>2, <2>1, <2>3 DEF RowStep, Early
    <2>5. k \notin old'
      BY <1>0, <2>3 DEF GlobalStep, RemovalStep, Stuck
    <2> QED
      BY <2>4, <2>5
  <1>3. ASSUME NEW k \in Docs, task'[k].pc \in Early \cup {"upload", "parse", "sanitize", "add"},
               NEW s \in Stores
        PROVE  content'[s][k] = "out"
    <2>1. TaskStep(k) /\ ContentStep(k)
      BY Facts
    <2>2. task[k].pc \in Early \cup {"upload", "parse", "sanitize", "add"}
      BY <1>3, <2>1 DEF TaskStep, Early, Working, UploadStarts, Provision
    <2>3. content[s][k] = "out"
      BY <1>0, <2>2 DEF RowsInserted, Early
    <2> QED
      BY <1>3, <2>1, <2>3 DEF ContentStep, Early
  <1> QED
    BY <1>1, <1>2, <1>3 DEF RowsInserted, Early

\* While stores are neither lost nor replaced, a document with a row keeps the domain
\* and its store.
LEMMA StoreStays ==
    ASSUME IInv, Next, lost' = {}, ~ recreated', NEW k \in Docs, row[k].status # "absent",
           row'[k].status # "absent"
    PROVE  /\ domain.exists /\ domain'.exists
           /\ domain.store # NoStore => domain'.store = domain.store
  <1>1. lost = {} /\ ~ recreated
    BY Facts DEF GlobalStep, StoresStep
  <1>2. domain.exists
    BY <1>1 DEF IInv, OneStore
  <1> QED
    BY <1>2, Facts DEF DomainStep

\* A step keeps one store for every task of a domain whose store was never replaced.
LEMMA OneStoreNext == ASSUME IInv, Next PROVE OneStore'
  <1> SUFFICES ASSUME lost' = {}, ~ recreated'
               PROVE  /\ \A k \in Docs :
                            /\ row'[k].status # "absent" => domain'.exists
                            /\ task'[k].pc = "insert" /\ domain'.exists =>
                                  task'[k].store = domain'.store \/ task'[k].fresh # NoStore
                            /\ task'[k].pc \in Working /\ row'[k].status # "absent" =>
                                  task'[k].store = domain'.store
                      /\ check'.doc \in Docs /\ check'.store # NoStore =>
                            row'[check'.doc].status = "absent" \/ check'.store = domain'.store
    BY DEF OneStore, Working
  <1>0. /\ lost = {} /\ ~ recreated
        /\ StoresKnown /\ RowsInserted /\ LockHeld /\ DomainStep /\ GlobalStep
    BY Facts DEF IInv, GlobalStep, StoresStep
  <1>1. /\ \A k \in Docs :
              /\ row[k].status # "absent" => domain.exists
              /\ task[k].pc = "insert" /\ domain.exists =>
                    task[k].store = domain.store \/ task[k].fresh # NoStore
              /\ task[k].pc \in Working /\ row[k].status # "absent" => task[k].store = domain.store
        /\ check.doc \in Docs /\ check.store # NoStore =>
              row[check.doc].status = "absent" \/ check.store = domain.store
    BY <1>0 DEF IInv, OneStore, Working
  <1>2. ASSUME NEW k \in Docs, Insert(k), domain.exists, Commits(k, [status |-> "pending", sanitized |-> FALSE])
        PROVE  domain'.exists /\ task[k].store = domain'.store
    <2>1. task[k].pc = "insert" /\ (task[k].store = domain.store \/ task[k].fresh # NoStore)
      BY <1>1, <1>2 DEF Insert
    <2>2. task[k].fresh # NoStore => lock = k /\ task[k].store = task[k].fresh
      BY <1>0, <2>1 DEF LockHeld
    <2>3. CASE lock = k
      <3>1. domain' = Serving(IF task[k].fresh = NoStore THEN domain.store ELSE task[k].fresh)
        BY <1>2, <2>3 DEF Commits
      <3> QED
        BY <2>1, <2>2, <3>1, ServingValue
    <2>4. CASE lock # k
      BY <1>2, <2>1, <2>2, <2>4 DEF Commits
    <2> QED
      BY <2>3, <2>4
  <1>3. ASSUME NEW k \in Docs, row'[k].status # "absent" PROVE domain'.exists
    <2>1. CASE row[k].status # "absent"
      BY <1>3, <2>1, StoreStays
    <2>2. CASE row[k].status = "absent"
      BY <1>2, <1>3, <2>2, Facts DEF RowStep
    <2> QED
      BY <2>1, <2>2
  <1>4. ASSUME NEW k \in Docs, task'[k].pc = "insert", domain'.exists
        PROVE  task'[k].store = domain'.store \/ task'[k].fresh # NoStore
    <2>1. CASE task'[k] = task[k]
      <3>1. task[k].pc = "insert" /\ task[k].store # NoStore /\ task[k].store <= made
        BY <1>0, <1>4, <2>1 DEF StoresKnown
      <3>2. made # 0
        BY <3>1, Facts DEF NoStore
      <3>3. CASE domain'.exists = domain.exists /\ domain'.store = domain.store
        BY <1>1, <1>4, <2>1, <3>1, <3>3
      <3>4. CASE domain.exists /\ domain.store = NoStore
        BY <1>1, <2>1, <3>1, <3>4
      <3> QED
        BY <1>0, <1>4, <3>2, <3>3, <3>4 DEF DomainStep
    <2>2. CASE UploadStarts(k) /\ task'[k].store = domain.store
      BY <2>2 DEF UploadStarts
    <2>3. CASE Provision(k) /\ task'[k].store # NoStore
               /\ \/ task'[k].store = domain.store /\ task'[k].fresh = NoStore
                  \/ task'[k].store = made' /\ task'[k].fresh = made'
      BY <2>3 DEF Provision
    <2>4. TaskStep(k)
      BY Facts
    <2> QED
      BY <1>4, <2>1, <2>2, <2>3, <2>4 DEF TaskStep, Working
  <1>5. ASSUME NEW k \in Docs, task'[k].pc \in Working, row'[k].status # "absent"
        PROVE  task'[k].store = domain'.store
    <2>0. TaskStep(k) /\ RowStep(k)
      BY Facts
    <2>1. CASE Insert(k) /\ task[k].pc = "insert"
      <3>1. row[k].status = "absent"
        BY <1>0, <2>1 DEF RowsInserted
      <3>2. domain.exists /\ Commits(k, [status |-> "pending", sanitized |-> FALSE])
        BY <1>5, <2>0, <3>1 DEF RowStep
      <3>3. task'[k].store = task[k].store
        BY <1>5, <2>0, <2>1 DEF TaskStep, Working, UploadStarts, Provision
      <3> QED
        BY <1>2, <2>1, <3>2, <3>3
    <2>2. CASE task[k].pc \in Working /\ task'[k].store = task[k].store
      <3>1. row[k].status # "absent"
        BY <1>5, <2>0, <2>2 DEF RowStep, Insert, Working
      <3>2. task[k].store = domain.store /\ task[k].store # NoStore
        BY <1>0, <1>1, <2>2, <3>1 DEF StoresKnown, Working
      <3> QED
        BY <1>5, <2>2, <3>1, <3>2, StoreStays
    <2> QED
      BY <1>5, <2>0, <2>1, <2>2 DEF TaskStep, Working
  <1>6. ASSUME check'.doc \in Docs, check'.store # NoStore, row'[check'.doc].status # "absent"
        PROVE  check'.store = domain'.store
    <2>1. CASE check'.doc = check.doc /\ check'.store = check.store
      <3>1. check.doc \in old
        BY <1>0, <1>6, <2>1 DEF RowsInserted
      <3>2. task[check.doc].pc # "insert"
        BY <1>0, <1>6, <2>1, <3>1 DEF RowsInserted
      <3>3. row[check.doc].status # "absent"
        BY <1>6, <2>1, <3>2, Facts DEF RowStep, Insert
      <3> QED
        BY <1>1, <1>6, <2>1, <3>3, StoreStays
    <2>2. CASE domain' = domain /\ check'.store \in {NoStore, domain.store}
      BY <1>6, <2>2
    <2> QED
      BY <1>0, <1>6, <2>1, <2>2 DEF GlobalStep, CheckStep
  <1> QED
    BY <1>3, <1>4, <1>5, <1>6

\* A step keeps indexed documents in the domain's store.
LEMMA SearchableNext == ASSUME IInv, Next PROVE IndexedIsSearchable'
  <1> SUFFICES ASSUME lost' = {}, ~ recreated',
                      NEW k \in Docs, row'[k].status = "indexed", removal'[k] = "none"
               PROVE  domain'.store # NoStore /\ content'[domain'.store][k] = "completed"
    BY DEF IndexedIsSearchable
  <1>0. /\ lost = {} /\ ~ recreated /\ TypeOK /\ RowStep(k) /\ ContentStep(k)
        /\ StoresKnown /\ RowsInserted /\ OneStore /\ IndexedIsSearchable
    BY Facts DEF IInv, GlobalStep, StoresStep
  <1>1. CASE row[k].status = "indexed"
    <2>1. removal[k] = "none"
      BY Facts DEF GlobalStep, RemovalStep
    <2>2. domain.store # NoStore /\ content[domain.store][k] = "completed"
      BY <1>0, <1>1, <2>1 DEF IndexedIsSearchable
    <2>3. domain'.store = domain.store
      BY <1>1, <2>2, StoreStays
    <2>4. domain.store \in Stores
      BY <1>0, <2>2 DEF TypeOK
    <2>5. task[k].pc # "add"
      BY <1>0, <2>2, <2>4 DEF RowsInserted
    <2> QED
      BY <1>0, <2>2, <2>3, <2>4, <2>5 DEF ContentStep
  <1>2. CASE row[k].status # "indexed"
    <2>1. row[k].status # "absent"
      <3>1. ASSUME Commits(k, [status |-> "pending", sanitized |-> FALSE]) PROVE row'[k].status = "pending"
        BY <1>0, <3>1 DEF Commits, TypeOK
      <3> QED
        BY <1>0, <3>1 DEF RowStep
    <2>2. CASE /\ task[k].pc = "poll" /\ content[task[k].store][k] = "completed"
               /\ UNCHANGED <<domain, content, removal>>
      <3>1. task[k].store = domain.store /\ task[k].store # NoStore
        BY <1>0, <2>1, <2>2 DEF OneStore, StoresKnown
      <3> QED
        BY <2>2, <3>1
    <2>3. CASE /\ check.doc = k /\ check.store # NoStore /\ content[check.store][k] = "completed"
               /\ UNCHANGED <<domain, content, removal>>
      <3>1. check.store = domain.store
        BY <1>0, <2>1, <2>3 DEF OneStore
      <3> QED
        BY <2>3, <3>1
    <2> QED
      BY <1>0, <1>2, <2>2, <2>3 DEF RowStep
  <1> QED
    BY <1>1, <1>2

\* The invariant holds before there is a domain.
LEMMA InitInv == Init => IInv
  <1> SUFFICES ASSUME Init PROVE IInv
    OBVIOUS
  <1> DEFINE idle == [pc |-> "none", store |-> NoStore, fresh |-> NoStore]
  <1>1. /\ idle \in Task /\ idle.pc = "none" /\ idle.store = NoStore /\ idle.fresh = NoStore
        /\ domain = [exists |-> FALSE, store |-> NoStore, active |-> FALSE]
        /\ made = 0 /\ lost = {} /\ events = 0 /\ lock = Free /\ recreated = FALSE
        /\ old = {} /\ todo = {} /\ check = NoCheck
        /\ content = [s \in Stores |-> [d \in Docs |-> "out"]]
        /\ row = [d \in Docs |-> NoRow] /\ task = [d \in Docs |-> idle]
        /\ removal = [d \in Docs |-> "none"]
    BY DEF Init, Task, Pc
  <1> HIDE DEF idle
  <1>2. /\ domain.store = NoStore
        /\ domain \in [exists : BOOLEAN, store : Stores \cup {NoStore}, active : BOOLEAN]
    BY <1>1
  <1>3. TypeOK
    <2>1. content \in [Stores -> [Docs -> FileState]] /\ row \in [Docs -> Row] /\ task \in [Docs -> Task]
      BY <1>1, ValuesTyped DEF FileState
    <2>2. made \in 0 .. MaxStores /\ lost \subseteq 1 .. made /\ events \in 0 .. MaxEvents
      BY <1>1
    <2>3. check \in Checks /\ removal \in [Docs -> {"none", "running", "interrupted"}]
      BY <1>1, ValuesTyped
    <2> QED
      BY <1>1, <1>2, <2>1, <2>2, <2>3 DEF TypeOK
  <1>4. LockHeld
    BY <1>1, <1>2 DEF LockHeld
  <1>5. StoresKnown /\ RowsInserted
    BY <1>1, <1>2, ValuesTyped DEF StoresKnown, RowsInserted, NoStore
  <1>6. OneStore /\ IndexedIsSearchable
    BY <1>1, <1>2, ValuesTyped DEF OneStore, IndexedIsSearchable
  <1> QED
    BY <1>3, <1>4, <1>5, <1>6 DEF IInv

\* A stuttering step keeps the invariant.
LEMMA Stutter == ASSUME IInv, UNCHANGED vars PROVE IInv'
  <1>1. TypeOK'
    BY DEF IInv, vars, store, recon, TypeOK
  <1>2. LockHeld' /\ StoresKnown' /\ RowsInserted'
    BY DEF IInv, vars, store, recon, LockHeld, StoresKnown, RowsInserted
  <1>3. OneStore' /\ IndexedIsSearchable'
    BY DEF IInv, vars, store, recon, OneStore, IndexedIsSearchable
  <1> QED
    BY <1>1, <1>2, <1>3 DEF IInv

\* IInv holds in every reachable state.
LEMMA Inductive == Spec => []IInv
  <1>1. IInv /\ [Next]_vars => IInv'
    <2>1. ASSUME IInv, Next PROVE IInv'
      <3>1. TypeOK' /\ LockHeld'
        BY <2>1, TypedNext, LockNext DEF IInv
      <3> QED
        BY <2>1, <3>1, StoresNext, RowsNext, OneStoreNext, SearchableNext DEF IInv
    <2> QED
      BY <2>1, Stutter
  <1> QED
    BY <1>1, InitInv, PTL DEF Spec

--------------------------------------------------------------------------------
(* Theorems *)

\* Every variable keeps its type, for any number of uploads, stores and faults.
THEOREM DomainTypeCorrect == Spec => []TypeOK
  <1>1. IInv => TypeOK
    BY DEF IInv
  <1> QED
    BY <1>1, Inductive, PTL

\* While no store is lost or replaced, what the administrator sees as indexed is in the
\* store the agents search, for any number of uploads that race for the domain's first
\* store (ensure_domain_vector_store, _ingest_domain_document, the reconciler).
THEOREM IndexedDocumentsAreSearchable == Spec => []IndexedIsSearchable
  <1>1. IInv => IndexedIsSearchable
    BY DEF IInv
  <1> QED
    BY <1>1, Inductive, PTL

\* A store that is set and not committed is set under the domain's row lock: two
\* uploads never provision the domain at the same time.
THEOREM ProvisioningIsLocked ==
    Spec => [](\A d, e \in Docs :
                   task[d].fresh # NoStore /\ task[e].fresh # NoStore => d = e)
  <1>1. IInv => \A d, e \in Docs : task[d].fresh # NoStore /\ task[e].fresh # NoStore => d = e
    BY DEF IInv, LockHeld
  <1> QED
    BY <1>1, Inductive, PTL
=================================================================================
