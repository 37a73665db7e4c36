SPECIFICATION Spec
CONSTANTS
    Images = {ImageA, ImageB}
    NoImage = NoImage
    UploadChunks = 2
    HttpJobs = {}
    OtherBytes = OtherBytes
    NoRequest = NoRequest
    LineBound = 2
SYMMETRY MCSymmetry
INVARIANTS
    UploadDelivered
