\* One request at a time, and every fault but a lost run and a graph that raises;
\* the judge does not start a case that is still being run, and the watchdog is
\* patient.
CONSTANTS
    NumJobs = 4
    Requests = {r1}
    LastGate = 3
    Early = {"restart", "advance", "rerun", "halt", "send_back", "cancel"}
    Faults = {"persist", "upsert", "retire"}
    MaxFaults = 2
SPECIFICATION Spec
INVARIANTS
    
    PauseAgrees
PROPERTIES
    DecisionLandsOnItsGate
CHECK_DEADLOCK FALSE
