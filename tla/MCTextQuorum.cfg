SPECIFICATION FairSpec
CONSTANTS
    l = l
    v1 = v1
    v2 = v2
    Leader = l
    Verifiers = {v1, v2}
    Outputs = {o1, o2}
    NoOutput = NoOutput
    MaxAnswers = 2
    LeaderPolls = 2
    Settings <- RetryExpireLose
CHECK_DEADLOCK FALSE
INVARIANTS
    OutcomesAgree
    SuccessHasQuorum
    NoLostDecision
PROPERTIES
    EventuallyDecided
