SPECIFICATION AwSpec
CONSTANTS
    Names = {"t", "u", "w"}
    Published = {"t", "u"}
    ByShortTitle = {"u"}
    FailureLimit = 2
    MaxRuns = 2
INVARIANTS
    MissesAreAnswers
CHECK_DEADLOCK FALSE
