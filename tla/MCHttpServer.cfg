SPECIFICATION Spec
CONSTANTS
    Client = {c1, s1}
    Talker = {c1}
    Silent = {s1}
    Worker = {w1, w2}
    Request <- Requests
    Delim = 2
    Buf = 4
    SizeMax = 7
    Accepter = Accepter
    Wake = Wake
    Nobody = Nobody
    MaxAnswer = 2
    MaxError = 1
INVARIANTS
    OneTaskEach
    AnswersWholeRequests
    WholeRequestsAnswered
PROPERTIES
    EveryConnectionServed
CHECK_DEADLOCK FALSE
