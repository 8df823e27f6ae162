SPECIFICATION FairSpec
CONSTANTS
    a = a
    b = b
    s1 = s1
    Services <- MCServices
    Raw <- MCRaw
    Verdicts <- MCVerdicts
    Sends <- MCSends
    MaxMessages = 2
    MaxCalls = 2
    MaxMischief = 3
    MaxAttempts = 2
    MaxUnregisters = 1
CHECK_DEADLOCK FALSE
ACTION_CONSTRAINT FirstCallIsA
INVARIANT TypeOK
INVARIANT CalledIsRegistered
INVARIANT SecondParseAgrees
INVARIANT ResultFits
INVARIANT StringFitsCode
INVARIANT SendTellsTruth
PROPERTY HarmOnlyWithin
PROPERTY CallsReturn
PROPERTY ReceiverReturns
