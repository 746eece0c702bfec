SPECIFICATION Spec
CONSTANTS
    USB_NUMDEVICES = 3
    Devices <- MCDevices
INVARIANT DetachedIsClean
