SPECIFICATION Safety
CONSTANTS
    Worker = {w1, w2}
    Caller = {c1}
    MaxJob = 1
    MaxWake = 1
    Watching = {1}
    Endless = {}
INVARIANTS
    EventsFindTheirFiber
