SPECIFICATION ActorFairSpec
CONSTANTS
    Actors = {"w", "s"}
    Restart <- MCRestart
    MaxRetries <- MCMaxRetries
    HasTimeout <- MCHasTimeout
    Permits = 1
    U32Max = 1
    DefaultFirst = 2
    DefaultMax = 3
    MinNonzeroDelay = 1
PROPERTIES
    ActorsProgress
