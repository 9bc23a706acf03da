SPECIFICATION Spec
CONSTANTS
    Worker = {w1, w2}
    Caller = {c1}
    MaxJob = 3
    MaxWake = 2
    Watching = {2}
    Endless = {2}
INVARIANTS
    FiberAccounted
    JobEnteredOnce
    EventsFindTheirFiber
    OneThreadPerStack
    StateMatchesStack
PROPERTIES
    EveryJobStarts
