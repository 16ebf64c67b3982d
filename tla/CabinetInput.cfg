SPECIFICATION CiSpec
CONSTANTS
    CiSlots = {"coin"}
    CiKeys = {"k1", "k2"}
    CiButtons = {"b1"}
    CiRescan = 2
    CiMaxPads = 2
PROPERTIES
    NoMenuEdge
CHECK_DEADLOCK FALSE
