SPECIFICATION Spec
CONSTANTS
    Replicas = {r1, r2}
    Grace = 0
    ForceFinalizer = {TRUE}
    AsyncDelete = FALSE
    StaleReads = TRUE
    Edits = {"delete"}
    Agent = FALSE
    MaxFaults = 2
CHECK_DEADLOCK FALSE
INVARIANT FinalizerFirst
SYMMETRY Symmetry
