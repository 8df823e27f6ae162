SPECIFICATION FairSpec
CONSTANTS
    a = a
    b = b
    c = c
    d = d
    Ids <- MCIds
    Keys = {"k1", "k2", "k3"}
    Request <- MCInfinite
    DefaultTimeout = 2
    BondTimeout = 4
    QUEUE_MAX_LEN = 1
    ResponseCodes = {0}
    MayAbort = {}
    MayFailToSend = FALSE
    MayDestroy = FALSE
    EarlyMessages = 0
PROPERTY BusyReported
