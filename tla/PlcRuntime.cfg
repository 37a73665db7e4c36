SPECIFICATION FairSpec
CONSTANTS
    Outputs <- MCOutputs
    ProtoSafe = 2
    ProtoFault = 3
    ScanSafe = 2
    ScanFault = 3
    WatchdogFault = 2
    StreakMod = 5
    MaxNodes = 3
    CycleMin = 2
    CycleMax = 3
    TimerMax = 5
    HwCount <- MCHwCount
    Preemptive = FALSE
    DiFilters = 1
    DefaultPeriod = 2
    Source <- MCSource
    Elapsed = {0, 5}
    HoldMs = {0, 3}
INVARIANTS
    TypeOK
    EnergisedOnlyInRun
    OnlyValidatedRuns
    ForceIsExplicit
PROPERTIES
    ForceKindStable
    ActivationSettles
    TimedForceEnds
