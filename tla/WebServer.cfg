SPECIFICATION FairSpec
CONSTANTS
    ApiRoutes <- ApiRoutesDef
    Uris <- UrisDef
    UnderApi <- UnderApiDef
    Climbing = {"/../x"}
    TooLong = {"/long"}
    Stored <- StoredDef
    MaxChunks = 2
INVARIANTS
    FilesClosed
PROPERTIES
    ApiReached
    ComesUp
