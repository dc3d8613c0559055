SPECIFICATION FairSpec
CONSTANTS
    ulSize = 4
    MaxPacket = 2
    MaxWrite = 3
    MaxBytes = 10
    MaxConfigs = 1
    PreemptAt <- AtomicIndex
INVARIANTS TypeOK StreamIntact CompletionCountsAcked NoStrandedData
PROPERTY EveryByteDelivered
CHECK_DEADLOCK FALSE
