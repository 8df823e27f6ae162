SPECIFICATION FairSpec
CONSTANTS
    a = a
    b = b
    c = c
    d = d
    Ids <- MCIds
    Keys = {"k1", "k2", "k3"}
    Request <- MCDifferent
    DefaultTimeout = 2
    BondTimeout = 4
    QUEUE_MAX_LEN = 1
    ResponseCodes = {1}
    MayAbort = {}
    MayFailToSend = FALSE
    MayDestroy = TRUE
    EarlyMessages = 0
INVARIANT TypeOK
INVARIANT ResponseWins
PROPERTY Served
PROPERTY DestructorReturns
