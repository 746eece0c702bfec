SPECIFICATION AllSpec
CONSTANTS
    MaxBytes = 64
    MaxDescr = 4
    Capacity = 3
    Bytes = {0, 9, 10, 99, 100, 127, 128, 129, 156, 255}
INVARIANTS
    OwnAnswers
    WholeCommand
    SetUpAsPolled
    RefusedForCause
    ReadsBack
PROPERTIES
    CommandReturns
