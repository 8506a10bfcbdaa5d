SPECIFICATION MCSpec
CONSTANTS
    MaxTimers = 3
    NullInterval = 3
    U64Max = 6
    Owners = {pit, rtc}
    NullTimer = null
    Delays <- MCDelays
    Deadlines <- MCDeadlines
    Steps <- MCSteps
    MaxTime = 4
INVARIANTS WheelInv SnapshotAccepted
PROPERTIES FiresOnDeadline TicksConserved
SYMMETRY OwnerSymmetry
