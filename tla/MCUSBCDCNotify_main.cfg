SPECIFICATION FairSpec
CONSTANTS
    Errors <- MCErrors
    Lines <- MCLines
    FromMainLoop = TRUE
    MaxReports = 3
    MaxConfigs = 2
INVARIANTS TypeOK NoDeadWait PacketIsNotification
PROPERTY PendingChangeIsSent
CHECK_DEADLOCK FALSE
