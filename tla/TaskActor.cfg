SPECIFICATION ActorSpec
CONSTANTS
    Actors = {"w", "s", "o"}
    Restart <- MCRestart
    MaxRetries <- MCMaxRetries
    HasTimeout <- MCHasTimeout
    Permits = 1
    U32Max = 1
    DefaultFirst = 2
    DefaultMax = 3
    MinNonzeroDelay = 1
INVARIANTS
    PermitsConserved
    ExitHonest
PROPERTIES
    ImplementsLife
