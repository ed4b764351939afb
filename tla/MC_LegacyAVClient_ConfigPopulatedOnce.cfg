\* Two calls in flight on an empty configuration both fetch it.
CONSTANTS
    Served = {"valid", "noElection"}
    MaxCalls = 2
    MaxInFlight = 2
    MaxCrashes = 0
    None = None
SPECIFICATION Spec
PROPERTIES
    ConfigPopulatedOnce
CHECK_DEADLOCK FALSE
