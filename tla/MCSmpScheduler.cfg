\* Two processors; a slice may cost less than a tick of the machine.
SPECIFICATION MCSpec
CONSTANTS
    Ncpus = 2
    Quantum = 1
    SliceTicks = {0, 2}
    Ops = {"nop", "sti", "cli", "hlt", "monitor", "mwait", "mwaitIf", "fault", "queue", "port", "reset"}
    Sends = {"lapic", "init", "sipi"}
INVARIANTS
    MasksMatchScan
    NoLostWakeup
    TicksConserved
PROPERTIES
    TimeAdvances
    TurnsUnlessBoundaries
