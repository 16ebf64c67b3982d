SPECIFICATION Spec
CONSTANTS
    Inputs = {0, 1, 2}
    Neutral = 0
    Controls <- LapControls
    Delay = 1
    Ring = 5
    AgeLimit = 6
    Patient = FALSE
    QuitBefore = 0
    MaxFrame = 8
    MaxPolls = 1
    MaxLoss = 0
    MaxDup = 1
    MaxLate = 1
    MaxMenus = 0
INVARIANTS
    TypeOK
    OwnFrameInput
    Agreement
    Lead
    NoSilentDrift
PROPERTIES
    LostIsFinal
