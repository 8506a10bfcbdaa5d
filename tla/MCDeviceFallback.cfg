\* A host that has no waitable timer.
SPECIFICATION WSpec
CONSTANTS
    MaxTime = 2
    Margin = 1
    StepSpan = 2
    Hosts = {"none"}
    NoDeadline = NoDeadline
INVARIANTS
    RingSeenByNextWait
