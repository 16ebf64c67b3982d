SPECIFICATION FairSpec
CONSTANTS
    Inputs = {0, 1, 2}
    Neutral = 0
    Controls <- RestedLapControls
    Delay = 1
    Ring = 5
    AgeLimit = 6
    Patient = TRUE
    QuitBefore = 2
    MaxFrame = 3
    MaxPolls = 1
    MaxLoss = 1
    MaxDup = 0
    MaxLate = 0
    MaxMenus = 1
PROPERTIES
    CloseTogether
