SPECIFICATION FairSpecH
CONSTANTS
    ClassSize = 2
    MaxVector = 7
    Vectors = {1, 2, 3, 4, 5}
    NoVector = NoVector
    TprValues = {0, 3, 4}
    SpuriousValues = {3, 7}
    Extended = TRUE
INVARIANTS
    NoMissedInterrupt
    EoiEndsInnermost
    NoEoiLost
PROPERTIES
    TopServed
