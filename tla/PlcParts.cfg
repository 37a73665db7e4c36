SPECIFICATION Spec
CONSTANTS
    Configs <- ConfigsDef
    DtMax = 2
    Wrap = 8
    AccMax = 3
    Long = 6
    DefaultMs = 5
    ClockWrap = 16
    GapMax = 8
    Events = {e1, e2, e3}
    Capacity = 3
    NoEvent = none
INVARIANTS
    PartsTypeOK
    TimersKeepTime
    CtudCounts
    ShowsSettled
PROPERTIES
    ImplementsQueue
