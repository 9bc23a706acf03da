SPECIFICATION Spec
CONSTANTS
    N = 2
    Entry <- MCEntry
    Caller = {c1, c2}
    MaxEntry = 5
INVARIANTS
    DeliveredInOrder
    DrainedAtExit
    SleepsOnlyByLostWake
PROPERTIES
    DestroyReturns
    ImplementsBoundedLog
CHECK_DEADLOCK FALSE
