SPECIFICATION ESpec
CONSTANTS
    NPins = 2
    Capacity = 6
    Vectors = {0, 2, 3, 4}
    Routes <- LevelAndEdge
    ClassSize = 2
    MaxVector = 7
    NoVector = NoVector
    Backend = FALSE
    MaxQueued = 2
INVARIANT LevelOwed
