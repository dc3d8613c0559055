CONSTANTS
    NumTx = 3
    NumRx = 2
    Pool <- MCPool
    Heap <- MCHeap
    MaxChain = 2
    MaxRef = 2
    Environments <- SwiftReceives
SPECIFICATION Spec
INVARIANTS
    BufferHasOneOwner
CHECK_DEADLOCK FALSE
