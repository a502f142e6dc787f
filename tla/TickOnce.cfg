CONSTANTS
    a = a
    b = b
    c = c
    Symbols = {a, b}
    TrendSlots = 1
    WildcardSlots = 1
    TickEvery = 4
    EvalEvery = 2
    Grace = 2
    Defer = 1
    Clock = 4
    Horizon = 6
    Sources = {"tick", "natural", "off"}
    Faults = {"crash", "pause", "selectFails", "saveFails", "closeStuck", "cancelRefused", "slowOrder"}
SYMMETRY AnySymbols
SPECIFICATION Spec
INVARIANTS FillsTheTicksSlots WaitingLosesNoTick
PROPERTIES ScheduleSpec TrendFirst
CHECK_DEADLOCK FALSE
