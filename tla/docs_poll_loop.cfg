CONSTANTS
    Specs <- OneSpec
    Hour = 2
    DayHours = 4
    WeekDays = 2
    Horizon = 7
    Fallback = 4
    MaxPatch = 1
    MaxClock = 20
    MaxEdits = 0
    MaxFaults = 0
SPECIFICATION Spec
PROPERTY NotAPollLoop
