CONSTANTS
    Specs <- AllSpecs
    Hour = 2
    DayHours = 4
    WeekDays = 2
    Horizon = 7
    Fallback = 4
    MaxPatch = 1
    MaxClock = 20
    MaxEdits = 1
    MaxFaults = 1
SPECIFICATION Spec
INVARIANTS Covered RangesWrap
PROPERTY Corrects
