CONSTANTS
    NumTx = 3
    NumRx = 2
    Pool <- MCPool
    Heap <- MCHeap
    MaxChain = 2
    MaxRef = 2
    Environments <- SlowSends
SPECIFICATION Spec
INVARIANTS
    GivesUpOnlyAfterFailure
CHECK_DEADLOCK FALSE
