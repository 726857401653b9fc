\* Two uploads of a domain whose store may be replaced once: it disappears, or either
\* process crashes, or an administrator edits or deletes the domain, at any moment.
CONSTANTS
    Docs = {"d1", "d2"}
    MaxStores = 2
    MaxEvents = 1
SPECIFICATION Spec
INVARIANTS
    TypeOK
    IndexedIsSearchable
PROPERTIES
    IngestionSettles
CHECK_DEADLOCK FALSE
