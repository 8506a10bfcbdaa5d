SPECIFICATION HSpec
CONSTANTS
    ClassSize = 2
    MaxVector = 7
    Vectors = {1, 4, 5}
    NoVector = NoVector
    Ncpus = 2
    Commands <- KernelCommands
    Arrivals <- IoMessages
    TprValues = {2}
    LowestVector = 5
    MaxLowest = 2
INVARIANTS
    IpisArrive
    StartedAsTold
    LowestReachesOne
    BoundaryDrains
