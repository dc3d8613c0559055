SPECIFICATION FairSpec
CONSTANTS
    RxCapacity = 2
    MaxPacket = 2
    MaxSent = 4
    MaxResets = 1
    Durations <- MCDurations
INVARIANTS TypeOK DataWaitsForControl BlockedIsFlagged
PROPERTIES PacketIsRead ChangeIsDelivered BreakEnds
CHECK_DEADLOCK FALSE
