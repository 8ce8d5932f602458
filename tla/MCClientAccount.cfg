\* Credits bought and shown: every safety property, and that they are shown.
CONSTANTS
    starter = starter
    pro = pro
    none = none
    c1 = c1
    c2 = c2
    Packages = {starter, pro}
    NoPackage = none
    MaxTransfers = 2
    NotifyAttempts = 2
    Bounds <- Cases
    Calls = {c1, c2}
    MaxAttempts = 2
    MaxDisputes = 2
SPECIFICATION FairAccountSpec
INVARIANTS
    CreditsArePaidFor
    TruthfulMessages
    OneSealedJob
PROPERTIES
    CreditsAreShown
    EveryCallEnds
CHECK_DEADLOCK FALSE
