CONSTANTS
    EP0_MAX_PACKET_SIZE = 2
    ConfDescSize = 1
    Configs <- MCConfigs
    DeviceDescSize = 3
    Strings <- MCStrings
    Languages <- MCLanguages
    StraySize = 2
    Alternates <- MCAlternates
    USB_MAX_INTERFACES_PER_DEVICE = 2
    NUM_USB_EP = 2
    HasDataSent = TRUE
    HasDataReceived = TRUE
    Menus <- MCStringBehind
    Abandons = TRUE
    LateSetups = FALSE
    ResetMidTransfer = FALSE
SPECIFICATION Spec
PROPERTY RefusesOnlyInvalid
