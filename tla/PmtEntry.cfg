SPECIFICATION Spec
CONSTANTS
    Modes = {"off", "check", "ladder"}
    MinVol = 1
    MaxVol = 3
    MaxPolls = 3
    GuardAttempts = 2
    ConfirmAttempts = 2
    MaxLeft = 2
    Faults = {"unanswered", "cancelFails", "readFails", "crash"}
INVARIANTS EntryAnswered
PROPERTIES TakerAlone
