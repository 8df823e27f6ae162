SPECIFICATION Spec
CONSTANTS
    a = a
    b = b
    c = c
    d = d
    Ids <- MCAndEmpty
    Keys = {"k1", "k2"}
    Request <- MCEqual
    DefaultTimeout = 2
    BondTimeout = 4
    QUEUE_MAX_LEN = 1
    ResponseCodes = {1}
    MayAbort = {b}
    MayFailToSend = TRUE
    MayDestroy = FALSE
    EarlyMessages = 1
INVARIANT AnswersMatch
INVARIANT NullOnlyEarly
PROPERTY KeepsContracts
