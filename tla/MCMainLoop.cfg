SPECIFICATION LoopSpec
CONSTANTS
    USB_NUMDEVICES = 3
    Devices <- MCDevices
    Keys <- MCKeys
INVARIANTS
    TypeOK
    ResetBeforeTalk
    NoNullEndpoint
    RunsTheDevice
    DriverMatches
PROPERTIES
    HostIsService
    ServiceGoesOn
    
    KeysFromKeyboard
