SPECIFICATION FairSpec
CONSTANTS
    CacheSize = 2
    ChunkNodes = 1
    MaxNodes = 3
    Versions = 2
INVARIANTS
    MixedOnlyByTwo
    PageIsWhole
PROPERTIES
    NodesRepaired
