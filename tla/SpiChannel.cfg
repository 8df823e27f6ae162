SPECIFICATION FairSpec
CONSTANTS
    s1 = s1
    s2 = s2
    Sends <- MCSends
    ATTEMPTS = 2
    MaxIncoming = 2
    MaxFaults = 1
    MaxQueries = 1
CHECK_DEADLOCK FALSE
INVARIANT TypeOK
INVARIANT SentOnceOrDropped
INVARIANT NothingLost
PROPERTY QuietWhenGone
PROPERTY SendReturns
PROPERTY Received
PROPERTY DestructorReturns
