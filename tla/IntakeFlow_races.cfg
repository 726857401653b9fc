\* Two clients; two extractions, or one and a pipeline; a fault of any kind at any
\* moment.
CONSTANTS
    NumJobs = 2
    Requests = {r1, r2}
    MaxDocs = 1
    Faults = {"model", "loss", "ack"}
    MaxFaults = 2
SPECIFICATION FairSpec
INVARIANTS
    TypeOK
    ProposalIsCurrent
    ProposalsAccounted
PROPERTIES
    ConfirmedStays
    ExtractionEnds
CHECK_DEADLOCK FALSE
