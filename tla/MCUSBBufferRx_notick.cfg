SPECIFICATION FairSpec
CONSTANTS
    ulSize = 4
    MaxPacket = 3
    MaxRead = 3
    MaxBytes = 9
    PreemptAt <- InterruptContext
    TickRetries = FALSE
    Word = 64
CHECK_DEADLOCK FALSE
PROPERTY PacketIsRead
