SPECIFICATION LinkFairSpec
CONSTANTS
    Tasks = {poll, http}
    Request <- MCRequest
    Reply <- MCReply
    TooLong <- MCTooLong
    NoRequest = NoRequest
    Noise = Noise
    LineBound = 2
    RxBound = 2
INVARIANTS
    LinkTypeOK
    QuietAnswerIsOwn
    MutexIsInUse
PROPERTIES
    ImplementsPlcLink
    RequestReturns
