SPECIFICATION Spec
CONSTANTS
    a1 = a1
    r1 = r1
    r2 = r2
    w1 = w1
    Fiber = {a1}
    Role <- Roles
    Workers = 1
    CanHangUp = FALSE
    MaxFd = 1
    MaxOpen = 1
    MaxArrive = 2
    MaxWake = 1
PROPERTIES
    Served
