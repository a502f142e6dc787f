CONSTANTS
    Reasons = {r1}
    Handlers = {"force","move"}
    Faults = {"cancelRefused", "cancelLost", "placeRefused", "placeLost", "closeRefused", "closeLost", "closeUnfilled", "readFailed", "blankRead", "crash"}
    Backoff = 1
    Retry = 1
    MaxMoves = 1
    Grace = 2
    Lag = 1
SPECIFICATION FairSpec
INVARIANTS TypeOK ProtectedAtRest SingleBracket
PROPERTIES BackoffKeepsStop StopComesBack
