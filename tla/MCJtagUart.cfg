SPECIFICATION UartSpec
CONSTANTS
    a = a
    b = b
    TIMEOUT = 2
    MAX_INACTIVE = 2
    Chars = {a, b}
    MaxRequest = 2
    Settings <- MCSettings
INVARIANTS
    WriteKicked
PROPERTIES
    IsLink
    WriteReturns
    ReadAnswered
