SPECIFICATION Spec
CONSTANTS
    ulSize = 4
    MaxPacket = 2
    MaxWrite = 3
    MaxBytes = 7
    MaxConfigs = 2
    PreemptAt <- InterruptContext
INVARIANTS NoStrandedData NoDeadWait
CHECK_DEADLOCK FALSE
