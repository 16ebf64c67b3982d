SPECIFICATION FairSpec
CONSTANTS
    Games = {"shared"}
    Installed <- SameLibrary
    Nonces <- Restarts
    MaxLaunch = 2
    MaxTrouble = 1
INVARIANTS
    OppositeRoles
    NeverAnOlderGame
    FollowedOnce
PROPERTIES
    LaunchArrives
CHECK_DEADLOCK FALSE
