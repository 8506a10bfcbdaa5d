CONSTANT Worlds <- MCWorlds
SPECIFICATION FairSpec
INVARIANTS
    FetchedForInterrupt
    FetchedForReset
PROPERTIES
    PauseParks
    StopEnds
    WithdrawnParkEnds
    InterruptTaken
CHECK_DEADLOCK FALSE
