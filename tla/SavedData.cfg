SPECIFICATION SdSpec
CONSTANTS
    MaxContents = 2
    MaxOperations = 2
PROPERTIES
    EepromKept
CHECK_DEADLOCK FALSE
