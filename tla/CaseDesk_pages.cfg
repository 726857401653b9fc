\* Two requests at a time; a run, its continuation and one more, whatever starts it.
CONSTANTS
    Docs = {"d1", "d2"}
    Filed = {"d1"}
    NumJobs = 3
    MaxRuns = 1
    Requests = {"r1", "r2"}
    LastGate = 2
    Menus = {{"note"}, {"dispute", "supplement"}, {"evidence", "reopen"}}
    MaxActs = 2
    MaxFaults = 1
SPECIFICATION FairSpec
INVARIANTS
    TypeOK
    
PROPERTIES
    JudgesWordStands
    ReopeningIsRead
CHECK_DEADLOCK FALSE
