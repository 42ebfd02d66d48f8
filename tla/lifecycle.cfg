SPECIFICATION FairSpec
CONSTANTS
    Replicas = {r1}
    Grace = 1
    ForceFinalizer = {TRUE, FALSE}
    AsyncDelete = TRUE
    StaleReads = FALSE
    Edits = {"flip", "enable", "disable", "kill", "unkill", "delete"}
    Agent = TRUE
    MaxFaults = 1
CHECK_DEADLOCK FALSE
INVARIANT ActiveMeansMachine
INVARIANT ParkedMeansNoMachine
PROPERTY GraceRespected
PROPERTY CleanupBeforeFinalizer
PROPERTY DisabledBeforeCleared
PROPERTY NoRejoinAfterReclaim
PROPERTY ImplementsContract
PROPERTY DeletionEnds
PROPERTY KillSwitchEnds
PROPERTY RunsWhenActive
PROPERTY ShutsDownWhenInactive
