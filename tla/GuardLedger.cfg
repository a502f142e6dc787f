CONSTANTS
    Reasons = {r1}
    Handlers = {"preempt", "reconcile"}
    Faults = {"crash", "cancelRefused", "cancelLost", "closeRefused", "closeLost", "closeUnfilled", "placeRefused", "placeLost", "readFailed", "blankRead"}
    Backoff = 1
    Retry = 1
    MaxMoves = 1
    Grace = 2
    Lag = 1
SPECIFICATION FairSpec
INVARIANTS NoCloseIsLost
PROPERTIES LedgerSpec DecidedExitHappens ClosedIsBooked
