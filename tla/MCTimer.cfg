SPECIFICATION Spec
CONSTANTS
    Caller = {c1, c2}
    V = 2
    Parts = 2
    Delay = {1, 2, 4}
    MaxTask = 2
    MaxTime = 6
INVARIANTS
    TypeOK
    NeverEarly
    TasksAccounted
PROPERTY EveryTaskRuns
CHECK_DEADLOCK FALSE
