CONSTANTS
    NumTx = 3
    NumRx = 2
    Pool <- MCPool
    Heap <- MCHeap
    MaxChain = 2
    MaxRef = 2
    Environments <- MCEnvironments
SPECIFICATION FairSpec
INVARIANTS
    TypeOK
    BufferHasOneOwner
    NextIsOldest
    RingPartitioned
    RingHoldsQueued
    KeptWhileQueued
    StallsOnlyWhenDry
    StartsOnlyHalted
PROPERTIES
    PacketsAreSent
CHECK_DEADLOCK FALSE
