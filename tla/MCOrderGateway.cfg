CONSTANTS
    Calls = {c1, c2}
    LookupAttempts = 3
    Cooldown = 2
SPECIFICATION Spec
INVARIANTS NotFilledHoldsNothing
PROPERTIES AtMostOnceSpec UnresolvedIsAlerted
