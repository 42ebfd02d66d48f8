CONSTANTS
    Commands <- TwoCommands
    MaxEdits = 2
    MaxExecs = 1
    MaxFaults = 1
SPECIFICATION Spec
INVARIANTS NoOverwrite ArmedTracks OwnNodeOnly
PROPERTIES BadEditKeepsArmed Provisioned PollDetects NetlinkDetects Exits
