SPECIFICATION Spec
CONSTANTS
    Worker = {w1, w2}
    Caller = {c1}
    MaxJob = 2
    MaxWake = 2
    Watching = {1, 2}
    Endless = {}
INVARIANTS
    OneThreadPerStack
    StateMatchesStack
PROPERTIES
    EveryJobStarts
