\* Two jobs that two processes claim in batches of two, with a slot for each
\* delivery, and two faults of any kind at any moment: a delivery can die twice,
\* after which arq gives it up.
CONSTANTS
    NumJobs = 2
    Procs = {w1, w2}
    Slots = {s1, s2}
    BatchSize = 2
    MaxJobs = 1
    MaxTries = 2
    MaxFaults = 2
    NoProc = NoProc
SPECIFICATION FairSpec
INVARIANTS
    TypeOK
    OneDelivery
    RunsBounded
PROPERTIES
    CompletedIsFinal
    ImplementsLedger
    EverySettled
CHECK_DEADLOCK FALSE
