SPECIFICATION Spec
CONSTANTS
    a = a
    b = b
    s1 = s1
    Services <- MCServices
    Raw <- MCRaw
    Verdicts <- MCVerdicts
    Sends <- MCSends
    MaxMessages = 2
    MaxCalls = 2
    MaxMischief = 0
    MaxAttempts = 2
    MaxUnregisters = 1
CHECK_DEADLOCK FALSE
INVARIANT UnregisterDiscards
