SPECIFICATION Spec
CONSTANTS
    Outputs = {o1}
    ProtoSafe = 2
    ProtoFault = 3
    ScanSafe = 2
    ScanFault = 3
    WatchdogFault = 2
    StreakMod = 5
    Capacity = 3
    MaxSequence = 5
INVARIANTS
    LatchBlocksRun
    AppliedFlagHonest
    EscalationSticks
PROPERTIES
    LatchReleasedStopped
    HistoryIsTheLog
