SPECIFICATION LifeFairSpec
CONSTANTS
    Runs = {r1, r2}
    Handles = {h1}
    Triggered = {r1}
    Signals = {r1}
    Controller = TRUE
    MaxFaults = 1
    Nobody = Nobody
INVARIANTS
    SharedAnswer
    OutcomeEarned
    LifecycleClaimed
    DrainUndisturbed
PROPERTY
    EveryoneAnswered
CHECK_DEADLOCK FALSE
