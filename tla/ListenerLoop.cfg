SPECIFICATION LoopSpec
CONSTANTS
    BurstLimit = 4
    CommandCap = 3
    CompletionCap = 5
INVARIANT
    BoundedOvertaking
