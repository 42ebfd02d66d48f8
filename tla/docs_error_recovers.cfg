SPECIFICATION FairSpec
CONSTANTS
    Replicas = {r1}
    Grace = 0
    ForceFinalizer = {TRUE}
    AsyncDelete = FALSE
    StaleReads = FALSE
    Edits = {"flip"}
    Agent = FALSE
    MaxFaults = 1
CHECK_DEADLOCK FALSE
PROPERTY ErrorRecovers
