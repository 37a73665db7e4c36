SPECIFICATION FairSpec
CONSTANTS
    Images = {}
    NoImage = NoImage
    UploadChunks = 1
    HttpJobs <- MCOther
    OtherBytes = OtherBytes
    NoRequest = NoRequest
    LineBound = 1
PROPERTIES
    StatusRepaired
    JobsEnd
