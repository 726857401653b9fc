\* Two pieces of work, two pieces of prose in up to two attempts each.
CONSTANTS
    MaxCycles = 2
    MaxDeltas = 2
    MaxAttempts = 2
SPECIFICATION StreamSpec
INVARIANTS
    TokensKeepTheirMessage
    ProseIsDrained
PROPERTIES
    PauseIsSeen
