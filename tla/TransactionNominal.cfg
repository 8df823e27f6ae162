SPECIFICATION FairSpec
CONSTANTS
    DefaultTimeout = 2
    BondTimeout = 4
    RequestSet <- MCRequests
    UserTimeouts <- MCUserTimeouts
    DefaultErrors <- MCDefaultErrors
    Refusals <- MCRefusals
    Estimates = {1, 3}
    ResponseCodes = {0, 1}
    MaxStale = 0
    MaxSpurious = 1
    MayAbort = TRUE
    MayFailToSend = TRUE
    Horizon = 5
INVARIANT TypeOK
INVARIANT NoTimeoutAfterResponse
PROPERTY FiniteReturns
PROPERTY ResponseEnds
PROPERTY AbortEnds
