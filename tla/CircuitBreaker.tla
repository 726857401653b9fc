----------------------------- MODULE CircuitBreaker -----------------------------
(***************************************************************************)
(* The PAIR Search circuit breaker: three Redis keys shared by every       *)
(* process, the callers that ask before they call (PrecedentSearch has the *)
(* whole search), and the health probe that calls without asking.          *)
(* record_success (a MULTI pipeline) and record_failure (a Lua script) are *)
(* atomic; check_recovery is three commands.  Time is whether              *)
(* recovery_timeout has passed since opened_at.                            *)
(***************************************************************************)
EXTENDS Naturals

CONSTANTS Callers,      \* concurrent calls of search_precedents and the probe
          Threshold,    \* failure_threshold
          MaxFailures   \* bound of the failure counter

ASSUME BreakerAssumption == /\ Threshold \in Nat \ {0}
                            /\ MaxFailures \in Nat
                            /\ Threshold <= MaxFailures

VARIABLES state,      \* vc:circuit:<service>:state
          failures,   \* vc:circuit:<service>:failures
          opened,     \* vc:circuit:<service>:opened_at: absent, recent, or due
          caller      \* what each caller is about to do

vars == <<state, failures, opened, caller>>

CircuitState == {"closed", "open", "half_open"}
Opened == {"absent", "recent", "due"}
CallerStep == {"idle", "saw_open", "saw_due", "calling"}

Init == /\ state = "closed"
        /\ failures = 0
        /\ opened = "absent"
        /\ caller = [c \in Callers |-> "idle"]

\* recovery_timeout seconds pass.
Elapse == /\ opened = "recent"
          /\ opened' = "due"
          /\ UNCHANGED <<state, failures, caller>>

--------------------------------------------------------------------------------
(* check_recovery *)

\* GET state: the search goes on to call PAIR unless the circuit is open.
GetState(c) ==
    /\ caller[c] = "idle"
    /\ caller' = [caller EXCEPT ![c] = IF state = "open" THEN "saw_open" ELSE "calling"]
    /\ UNCHANGED <<state, failures, opened>>

\* Mutant: the comparison with recovery_timeout is reversed.
GetOpenedAtReversed(c) ==
    /\ caller[c] = "saw_open"
    /\ caller' = [caller EXCEPT ![c] = IF opened = "recent" THEN "saw_due" ELSE "idle"]
    /\ UNCHANGED <<state, failures, opened>>

\* GET opened_at: without it, or too early, the search uses the vector store.
GetOpenedAt(c) ==
    /\ caller[c] = "saw_open"
    /\ caller' = [caller EXCEPT ![c] = IF opened = "due" THEN "saw_due" ELSE "idle"]
    /\ UNCHANGED <<state, failures, opened>>

\* SET state half_open, whatever it has become since.
SetHalfOpen(c) ==
    /\ caller[c] = "saw_due"
    /\ state' = "half_open"
    /\ caller' = [caller EXCEPT ![c] = "calling"]
    /\ UNCHANGED <<failures, opened>>

\* A command of check_recovery fails because Redis is unavailable: it answers closed.
CheckFails(c) == /\ caller[c] \in {"idle", "saw_open", "saw_due"}
                 /\ caller' = [caller EXCEPT ![c] = "calling"]
                 /\ UNCHANGED <<state, failures, opened>>

\* check_pair_health calls PAIR without asking the breaker.
Probe(c) == /\ caller[c] = "idle"
            /\ caller' = [caller EXCEPT ![c] = "calling"]
            /\ UNCHANGED <<state, failures, opened>>

--------------------------------------------------------------------------------
(* The call ends *)

\* Mutant: the threshold branch of the script forgets opened_at.
RecordFailureUntimed(c) ==
    /\ caller[c] = "calling"
    /\ failures' = IF failures < MaxFailures THEN failures + 1 ELSE failures
    /\ state' = IF state = "half_open" \/ failures' >= Threshold THEN "open" ELSE state
    /\ opened' = IF state = "half_open" THEN "recent" ELSE opened
    /\ caller' = [caller EXCEPT ![c] = "idle"]

\* record_failure: the script opens the circuit from half_open at once, and
\* from any state when the counter has reached the threshold.
RecordFailure(c) ==
    /\ caller[c] = "calling"
    /\ failures' = IF failures < MaxFailures THEN failures + 1 ELSE failures
    /\ IF state = "half_open" \/ failures' >= Threshold
       THEN state' = "open" /\ opened' = "recent"
       ELSE UNCHANGED <<state, opened>>
    /\ caller' = [caller EXCEPT ![c] = "idle"]

\* record_success.
RecordSuccess(c) ==
    /\ caller[c] = "calling"
    /\ state' = "closed"
    /\ failures' = 0
    /\ opened' = "absent"
    /\ caller' = [caller EXCEPT ![c] = "idle"]

\* The call ends with an exception that is not an httpx error, or its process dies,
\* or Redis is unavailable: nothing is recorded.
RecordNothing(c) ==
    /\ caller[c] = "calling"
    /\ caller' = [caller EXCEPT ![c] = "idle"]
    /\ UNCHANGED <<state, failures, opened>>

--------------------------------------------------------------------------------

Next == \/ Elapse
        \/ \E c \in Callers : \/ GetState(c) \/ GetOpenedAt(c) \/ SetHalfOpen(c)
                              \/ CheckFails(c) \/ Probe(c)
                              \/ RecordFailure(c) \/ RecordSuccess(c) \/ RecordNothing(c)

Spec == Init /\ [][Next]_vars

--------------------------------------------------------------------------------
(* Properties *)

TypeOK == /\ state \in CircuitState
          /\ failures \in 0 .. MaxFailures
          /\ opened \in Opened
          /\ caller \in [Callers -> CallerStep]

\* An open circuit knows since when: check_recovery never leaves the open state
\* without opened_at, and record_success deletes it while others are deciding.
OpenIsTimed == state = "open" => opened # "absent"

================================================================================
