SPECIFICATION FairSpec
CONSTANTS
    p1 = p1
    p2 = p2
    Producers <- MCProducers
    MaxPushes = 2
INVARIANT TypeOK
INVARIANT NoLostWakeup
PROPERTY ImplementsFifo
PROPERTY DestructorReturns
