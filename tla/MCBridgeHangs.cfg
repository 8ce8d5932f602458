\* One coroutine, another that lets the process die, and its death.
CONSTANTS
    Callers = {c1, c2}
    Nobody = nobody
    MaxDeaths = 1
SPECIFICATION FairBridgeSpec
PROPERTIES
    EveryCallReturns
CHECK_DEADLOCK FALSE
