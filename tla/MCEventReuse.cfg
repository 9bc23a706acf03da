SPECIFICATION Safety
CONSTANTS
    a1 = a1
    r1 = r1
    r2 = r2
    w1 = w1
    Fiber = {r1, r2}
    Role <- Roles
    Workers = 2
    CanHangUp = FALSE
    MaxFd = 2
    MaxOpen = 3
    MaxArrive = 1
    MaxWake = 1
INVARIANTS
    NeverAddedTwice
