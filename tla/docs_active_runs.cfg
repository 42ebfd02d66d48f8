SPECIFICATION FairSpec
CONSTANTS
    Replicas = {r1}
    Grace = 0
    ForceFinalizer = {TRUE}
    AsyncDelete = TRUE
    StaleReads = FALSE
    Edits = {"flip"}
    Agent = FALSE
    MaxFaults = 0
CHECK_DEADLOCK FALSE
PROPERTY ActiveRuns
