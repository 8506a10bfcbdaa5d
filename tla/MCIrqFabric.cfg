\* Timer, a slave line and a bare pin, with edge and level ExtINT entries.
SPECIFICATION FabricSpec
CONSTANTS
    NLines = 3
    Cascade = 2
    DeviceLines <- MCLines
    MaskValues <- MCMasks
    LevelModes <- MCLevels
    Guests <- MCGuests
    NPins = 7
    Capacity = 1
    Vectors = {0}
    Routes <- MCRoutes
INVARIANTS
    LinesAgree
