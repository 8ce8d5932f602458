\* A text request and a risk request, on the page of the chat, on the page of
\* a request and across the two.
SPECIFICATION FairSpec
CONSTANTS
    r1 = r1
    r2 = r2
    k = k
    m1 = m1
    m2 = m2
    none = none
    Requests = {r1, r2}
    RiskRequests = {k}
    Messages = {m1, m2}
    NoRequest = none
    Verifiers = 1
    Sessions <- Cases
CHECK_DEADLOCK FALSE
INVARIANTS
    JobsAreCovered
    HistoryRemembers
    TraceTruthful
PROPERTIES
    SettledStays
    EventuallyAnswered
    EventuallyRevealed
