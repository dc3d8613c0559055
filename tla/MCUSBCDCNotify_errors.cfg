SPECIFICATION FairSpec
CONSTANTS
    Errors <- MCErrors
    Lines <- MCLines
    FromMainLoop = FALSE
    MaxReports = 3
    MaxConfigs = 2
INVARIANT ErrorsAreSent
CHECK_DEADLOCK FALSE
