\* Two searches and the health probe, a threshold of two, two retries, and PAIR and Redis
\* failing and recovering at any moment.
CONSTANTS
    Callers = {"s1", "s2", "probe"}
    Searchers = {"s1", "s2"}
    Threshold = 2
    MaxFailures = 3
    MaxRetries = 2
SPECIFICATION FairSearchSpec
INVARIANTS
    SearchTypeOK
    OpenIsTimed
PROPERTIES
    DegradationEnds
