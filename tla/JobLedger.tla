------------------------------- MODULE JobLedger -------------------------------
(***************************************************************************)
(* What the transactional outbox promises to the rest of the system, with  *)
(* no dispatcher, queue or worker in sight (docstrings of                  *)
(* src/workers/outbox.py, src/workers/dispatcher.py, src/workers/tasks.py):*)
(* a submitted job stays owed until a run of its work settles it, no two   *)
(* runs of one job overlap, and a job that is done is never run again.     *)
(* PipelineJobs is the detailed specification that implements this one.    *)
(***************************************************************************)

CONSTANT Jobs           \* the pipeline_jobs rows

VARIABLES ledger,       \* what is owed for each job
          running       \* the jobs whose work is being executed now

ledgerVars == <<ledger, running>>

LedgerStatus == {"absent", "owed", "done", "failed"}

LedgerTypeOK == /\ ledger \in [Jobs -> LedgerStatus]
                /\ running \subseteq Jobs

LedgerInit == /\ ledger = [j \in Jobs |-> "absent"]
              /\ running = {}

\* The row becomes visible together with the status flip it belongs to.
Submit(j) == /\ ledger[j] = "absent"
             /\ ledger' = [ledger EXCEPT ![j] = "owed"]
             /\ UNCHANGED running

\* A run of the work begins.  A failed job may run again: a worker that dies
\* between writing "failed" and acknowledging the delivery gets it back.
Begin(j) == /\ ledger[j] \in {"owed", "failed"}
            /\ j \notin running
            /\ running' = running \union {j}
            /\ UNCHANGED ledger

\* The run ends and its outcome is written.
Settle(j, outcome) == /\ j \in running
                      /\ ledger' = [ledger EXCEPT ![j] = outcome]
                      /\ running' = running \ {j}

\* Runs are lost (process crash, shutdown, job timeout): nothing is written.
Abandon(lostRuns) == /\ lostRuns # {}
                     /\ running' = running \ lostRuns
                     /\ UNCHANGED ledger

LedgerNext == \/ \E j \in Jobs : Submit(j) \/ Begin(j)
              \/ \E j \in Jobs, outcome \in {"done", "failed"} : Settle(j, outcome)
              \/ \E lostRuns \in SUBSET running : Abandon(lostRuns)

LedgerSpec == LedgerInit /\ [][LedgerNext]_ledgerVars

================================================================================
