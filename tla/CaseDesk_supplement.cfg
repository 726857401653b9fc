\* A supplementary document of a case at its first gate; nothing fails.
CONSTANTS
    Docs = {"d1", "d2"}
    Filed = {"d1"}
    NumJobs = 2
    MaxRuns = 1
    Requests = {"r1"}
    LastGate = 2
    Menus = {{"supplement"}}
    MaxActs = 1
    MaxFaults = 0
SPECIFICATION Spec
INVARIANTS
    SupplementIsRead
CHECK_DEADLOCK FALSE
