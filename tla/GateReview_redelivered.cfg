\* One client, nothing early, one run of a job is lost.
CONSTANTS
    NumJobs = 2
    Requests = {r1}
    LastGate = 3
    Early = {}
    Faults = {"loss"}
    MaxFaults = 1
SPECIFICATION Spec
PROPERTIES
    DecisionLandsOnItsGate
CHECK_DEADLOCK FALSE
