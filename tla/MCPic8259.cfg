\* Edge and level lines above and below the cascade; each guest in turn.
SPECIFICATION HandlerSpec
CONSTANTS
    NLines = 3
    Cascade = 1
    DeviceLines <- FewLines
    MaskValues <- Masks
    LevelModes <- Modes
    Guests <- FewGuests
INVARIANTS
    CascadeWired
    RequestsBacked
    WinnerNotInService
    NoMissedRequest
PROPERTIES
    PinContract
    TimerServed
