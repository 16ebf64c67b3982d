SPECIFICATION Spec
CONSTANTS
    MaxScore = 3
    CheckEvery = 3
    MaxPowerOns = 4
    MaxContents = 2
    MaxOperations = 2
    Images = {1, 2}
    SceneSizes = {1, 2}
    RetryEvery = 2
    ImageFailures = {"board"}
    MaxVkCalls = 3
    Switches = {"vulkan", "software"}
    MaxFrames = 3
    MaxGames = 2
    OmGames = {"g", "h"}
    OmRows = 1
    OmValues = 3
    MaxPresses = 5
    MaxSessions = 2
    FrameSizes = {1, 2}
    KeyEvery = 2
    MaxSubmits = 4
    MaxConnects = 2
    MaxStreamFaults = 1
    Names = {"t", "u"}
    Published = {"t", "u"}
    ByShortTitle = {"u"}
    FailureLimit = 2
    MaxRuns = 2
    RomGames = {"ridgerac", "ridgera2", "raverace", "acedrive", "victlap", "cybrcomm", "timecris", "dirtdash", "aquajet", "srallyc", "vcop2", "vcop", "vformula", "vf", "swa", "wingwar", "phoenix", "galaxian", "mooncrst", "uniwars", "galaga", "pacmania", "gng", "shinobi4"}
    CiSlots = {"coin"}
    CiKeys = {"k1", "k2"}
    CiButtons = {"b1"}
    CiRescan = 2
    CiMaxPads = 2
    ImGames = {"g", "t"}
    ImPedalGames = {"t"}
    ImDevices = {"keyboard", "pad"}
    ImInputs = {"default", "a"}
    ImMaxEdits = 1
    WlCount = 2
    WlWidths = {100}
    WlUpsets = 1
    LmLibrary <- FourGames
    LmShelves = {{1, 2, 4}, {1, 2}, {3}}
    LmColumns = 2
    LmRows = 1
    LmLines = 3
    LmCapacity = 2
INVARIANTS
    DrawnFromWhatIsLive
    MenusTellTheTruth
    RomsHold
    ColumnsTile
    HeardIsPlayed
PROPERTIES
    FilesKept
    FramesAndTaps
CHECK_DEADLOCK FALSE
