SPECIFICATION Spec
CONSTANTS
    DefaultTimeout = 2
    BondTimeout = 4
    RequestSet <- MCRequests
    UserTimeouts <- MCStaleTimeouts
    DefaultErrors <- MCDefaultErrors
    Refusals <- MCRefusals
    Estimates = {1, 3}
    ResponseCodes = {0, 1}
    MaxStale = 2
    MaxSpurious = 0
    MayAbort = TRUE
    MayFailToSend = TRUE
    Horizon = 5
INVARIANT TimeoutNotEarly
INVARIANT NothingMissed
PROPERTY UndisturbedWaitIsFull
PROPERTY ImplementsContract
