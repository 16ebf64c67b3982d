SPECIFICATION Spec
CONSTANTS
    Inputs = {0, 1}
    Neutral = 0
    Controls <- AnyControls
    Delay = 1
    Ring = 5
    AgeLimit = 6
    Patient = TRUE
    QuitBefore = 0
    MaxFrame = 3
    MaxPolls = 1
    MaxLoss = 0
    MaxDup = 0
    MaxLate = 1
    MaxMenus = 0
INVARIANTS
    NoFalseLoss
