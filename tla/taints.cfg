SPECIFICATION FairSpec
CONSTANTS
    Ids = {i1, i2}
    Values = {v1, v2}
    Absent = Absent
    MaxEdits = 4
    MaxFaults = 1
CHECK_DEADLOCK FALSE
INVARIANT AppliedMeansPresent
INVARIANT OursAreRecorded
PROPERTY OwnTaintsOnly
PROPERTY Converges
