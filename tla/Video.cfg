CONSTANTS
    Groups = {sheets, colours}
    Patient = TRUE
    MaxFrames = 2
    MaxSessions = 2
    MaxCalls = 1
SPECIFICATION FairSpec
INVARIANTS
    DrawnWithItsResources
    NoFrameStranded
    CleanStart
PROPERTIES
    ShowsLatestFrame
    TeardownEnds
CHECK_DEADLOCK FALSE
