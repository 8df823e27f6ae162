SPECIFICATION Spec
CONSTANTS
    DefaultTimeout = 2
    BondTimeout = 4
    RequestSet <- MCNodeRequests
    UserTimeouts <- MCNoUserTimeout
    DefaultErrors <- MCNoDefaultErrors
    Refusals <- MCRefusals
    Estimates = {1, 3}
    ResponseCodes = {0, 1}
    MaxStale = 0
    MaxSpurious = 0
    MayAbort = TRUE
    MayFailToSend = FALSE
    Horizon = 5
PROPERTY AbortNotOverwritten
