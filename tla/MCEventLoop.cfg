SPECIFICATION Spec
CONSTANTS
    a1 = a1
    r1 = r1
    r2 = r2
    w1 = w1
    Fiber = {a1, r1}
    Role <- Roles
    Workers = 2
    CanHangUp = TRUE
    MaxFd = 2
    MaxOpen = 3
    MaxArrive = 2
    MaxWake = 2
INVARIANTS
    AddEventSucceeds
    HeldIsWatched
    OneWakePerWait
PROPERTIES
    ReadersServed
