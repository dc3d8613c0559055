SPECIFICATION Spec
CONSTANTS
    ulSize = 3
    MaxPacket = 2
    MaxWrite = 2
    MaxBytes = 6
    MaxConfigs = 1
    PreemptAt <- SplitUpdate
INVARIANTS StreamIntact
CHECK_DEADLOCK FALSE
