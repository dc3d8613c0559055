CONSTANTS
    NumTx = 3
    NumRx = 2
    Pool <- MCPool
    Heap <- MCHeap
    MaxChain = 2
    MaxRef = 2
    Environments <- ReceivesOnly
SPECIFICATION Spec
INVARIANTS
    NeverStalls
CHECK_DEADLOCK FALSE
