SPECIFICATION Spec
CONSTANTS
    Size = 4
    Turns = 2
    MaxChunk = 3
    MaxTake = 2
    MaxBytes = 17
INVARIANTS InOrder NoSharedCell
PROPERTY EverythingIsTaken
CHECK_DEADLOCK FALSE
