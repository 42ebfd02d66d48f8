CONSTANTS
    Contents <- TwoContents
    MaxEdits = 3
    MaxFaults = 2
SPECIFICATION Spec
INVARIANTS CleanBeforeDeschedule RecordedIsLoaded
PROPERTIES Converges NoRestartLoop
CHECK_DEADLOCK FALSE
