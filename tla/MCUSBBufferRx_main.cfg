SPECIFICATION FairSpec
CONSTANTS
    ulSize = 4
    MaxPacket = 3
    MaxRead = 3
    MaxBytes = 10
    PreemptAt <- AtomicIndex
    TickRetries = TRUE
    Word = 64
CHECK_DEADLOCK FALSE
INVARIANTS TypeOK StreamIntact UnreadPacketIsFlagged
PROPERTY PacketIsRead
