SPECIFICATION Spec
CONSTANTS
    USB_NAK_LIMIT = 2
    USB_RETRY_LIMIT = 2
    Settings <- MCSettings
INVARIANTS
    RequestDone
    DataWhole
PROPERTIES
    NoRepeat
    LossAnnounced
    TransferEnds
