CONSTANTS
    NumTx = 3
    NumRx = 2
    Pool <- MCPool
    Heap <- MCHeap
    MaxChain = 2
    MaxRef = 2
    Environments <- SlowSends
SPECIFICATION FairSpec
PROPERTIES
    PacketsAreGivenBack
CHECK_DEADLOCK FALSE
