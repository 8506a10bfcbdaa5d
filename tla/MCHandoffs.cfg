\* Three processors; an edge pin and a level pin with a queue that fills up; a
\* host with a timer, one whose timer may refuse, and one that has none.
SPECIFICATION AllSpec
CONSTANTS
    Ncpus = 3
    NPins = 2
    Capacity = 2
    Vectors = {0, 1, 2}
    Routes <- OneOfEach
    MaxEdges = 4
    MaxTime = 2
    Margin = 1
    StepSpan = 2
    Hosts = {"timer", "refusing", "none"}
    NoDeadline = NoDeadline
INVARIANTS
    EdgeAtMostOnce
    EdgeExactlyOnce
    NoChangeSleptThrough
PROPERTIES
    IntrReachesBsp
    EngineHearsFall
    InputServed
    DeviceThreadEnds
    PauseQuiets
