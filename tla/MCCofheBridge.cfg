\* Three coroutines, and a process that dies twice.
CONSTANTS
    Callers = {c1, c2, c3}
    Nobody = nobody
    MaxDeaths = 2
SPECIFICATION FairBridgeSpec
INVARIANT
    AnswersMatch
PROPERTIES
    OnlyListenersHang
CHECK_DEADLOCK FALSE
