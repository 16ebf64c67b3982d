SPECIFICATION Spec
CONSTANTS
    d1 = d1
    d2 = d2
    Folded = {"coin"}
    Unfolded = {"trigger"}
    QueueDepth = 2
    BootFrames = 1
    MaxFrames = 4
    MaxRequests = 1
    Drivers = {d1, d2}
    Credits = 2
    MaxAudioPackets = 2
    PacketParts = 2
    MaxSamples = 2
    MaxSubmits = 3
    MaxUnlocks = 1
    Polls = 2
    MaxGames = 2
    MaxCoins = 2
    MaxCaptures = 1
    MaxPauses = 1
    Receivers = {2}
    Silence = 1
    MaxExchanges = 4
    MaxLinkEvents = 2
    UsedSources = {2, 4}
    UsedLevels = {0, 1, 4}
    MaxPresses = 1
    RamWords = 70
    ListBase = 40
    MaxRecords = 2
    RenderWords = 1
    MaxPolygons = 1
    MaxPackets = 1
    Capacity = 2
    MaxCommands = 3
    M1FrameCycles = 7
    M1Slices = 2
    M1Instruction = 2
    M1RingSize = 3
    M1RxSize = 1
    M1PendingLimit = 2
    M1MaxFrames = 2
    M1MaxBytes = 4
    M1vMaxFrames = 2
    M1iSlices = 2
    M1iPeriods = {0, 1, 3}
    M1iMaxFrames = 1
    M1nValues = {v, w, x}
    M1nMaxChanges = 4
    AddressBits = 2
    DataBits = 1
    M1eMaxEdges = 12
    CtcChannels = {0, 1}
    CtcConstants = {1}
    CtcPrescales = {1}
    CtcMaxTime = 2
    DsbAddresses <- TwoAddresses
    DsbRomEnd <- EndOfRom
    DsbRxSize = 1
    DsbMaxCommands = 2
    StackWords = 2
    ProgramWords = 2
    TimerPeriods = {0}
    Masks = {{}, {"INT0", "TINT"}}
    Cycles = {1}
    Bits = {TRUE}
    MaxRepeat = 1
    HalfBits = 2
    MaxInstructions = 2
    GlBootFrames = 1
    GlStartFrames = 2
    GlCoinEvery = 2
    GlCoinFrames = 1
    GlPulseFrames = 1
    GlRetryEvery = 4
    GlRetryAt = 2
    GlCoinage = {2}
    GlMaxCredits = 1
    ScRing = 2
    ScFifo = 1
    ScSlots = {1, 2}
    ScTimers = {"A"}
    ScTicks = 1
    MuChar = 5
    MuSlices = {3, 7}
    MuFifo = 2
    MuBurst = 3
    MuReplies = 3
    MbSlices = {2, 3}
    MbCosts = {1, 4}
    MbBurst = 2
    MbFifo = 1
    MbTgpSteps = 2
    MbWords = 1
    MbMaxFree = 3
    MgWords = 22
    MgCommands = 2
    MgLinks = 2
    MgMaximum = 2
    MgViewports = {"left"}
    MgMantissa = 3
    MgKept = 1
    MgTop = 2
    MgDepths = {1}
    MgLists = 1
    MnValues = {"factory", "tuned"}
    MnEvery = 2
    MnFailures = 1
    MnEvents = 2
INVARIANTS
    NothingLostBetweenThreads
    InterruptsServed
    LinkKeepsFrames
    ChangesMarked
    GeometryHolds
    CommandsReachTheChips
    ArithmeticHolds
    BoardsKeepPace
PROPERTIES
    InOrder
    SettingsOnlyAsMeant
    HappensInTime
CHECK_DEADLOCK FALSE
