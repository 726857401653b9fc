\* Every operation at any time by two clients, an impatient watchdog, and one
\* fault of any kind at any moment.
CONSTANTS
    NumJobs = 2
    Requests = {r1, r2}
    LastGate = 2
    Early = {"process", "restart", "advance", "rerun", "halt", "send_back", "cancel", "watchdog"}
    Faults = {"loss", "graph", "persist", "upsert", "retire"}
    MaxFaults = 1
SPECIFICATION FairSpec
INVARIANTS
    TypeOK
    DecisionsAccounted
    PauseHappened
PROPERTIES
    ProcessingEnds
CHECK_DEADLOCK FALSE
