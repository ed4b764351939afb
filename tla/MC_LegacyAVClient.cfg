\* Concurrent calls and up to two restarts, each possibly between two
\* storage writes.
CONSTANTS
    Served = {"valid", "noElection", "empty"}
    MaxCalls = 4
    MaxInFlight = 2
    MaxCrashes = 2
    None = None
SPECIFICATION Spec
INVARIANTS
    TypeOK
CHECK_DEADLOCK FALSE
