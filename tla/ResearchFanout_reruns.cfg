\* Two scopes, one source, three fan-outs: a scoped rerun, a rerun of the whole
\* gate and a restart can follow each other.
CONSTANTS
    Scopes = {"facts", "law"}
    Sources = {"s1"}
    MaxFans = 3
    MaxAttempts = 2
SPECIFICATION Spec
INVARIANTS
    TypeOK
    NothingInvented
    FanOutLands
    
    
CHECK_DEADLOCK FALSE
