CONSTANTS
    Slots = 3
    Discovery = 2
    Writers = {1}
    MaxWrites = 2
    MaxResets = 1
    MaxFaults = 2
    MaxWire = 2
    MaxInbox = 1
SPECIFICATION FairSpec
INVARIANTS
    RingAlternates
    OlderDownTheRing
    NothingFromBefore
PROPERTIES
    LinkForms
CHECK_DEADLOCK FALSE
