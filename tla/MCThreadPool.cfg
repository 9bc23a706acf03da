SPECIFICATION Spec
CONSTANTS
    Worker = {w1, w2, w3}
    Client = {c1, c2}
    MaxTask = 3
INVARIANTS
    Accounted
    NoStrandedTask
    AllDoneWhenJoined
PROPERTIES
    EveryTaskRuns
    ShutdownCompletes
    ImplementsTaskPool
