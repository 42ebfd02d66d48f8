CONSTANTS
    Window = 4
    Threshold = 3
    MaxTracked = 4
    Base = 1
    MaxBackoff = 5
    MaxRetries = 3
    MaxClock = 9
    MaxRequests = 4
    MaxFaults = 3
SPECIFICATION Spec
CHECK_DEADLOCK FALSE
INVARIANTS WarnExact ServedInTime
