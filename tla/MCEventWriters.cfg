SPECIFICATION Safety
CONSTANTS
    a1 = a1
    r1 = r1
    r2 = r2
    w1 = w1
    Fiber = {r1, w1}
    Role <- Roles
    Workers = 2
    CanHangUp = TRUE
    MaxFd = 2
    MaxOpen = 3
    MaxArrive = 1
    MaxWake = 2
INVARIANTS
    TypeOK
    AddEventSucceeds
    HeldIsWatched
    OneWakePerWait
