SPECIFICATION Spec
CONSTANTS
    Jobs = {j1}
    Deposit = 1
    Modes = {"credits"}
    Outcomes = {"success", "rejected", "timeout"}
    MaxCallbacks = 2
    Overlap = TRUE
    Faults = {}
SYMMETRY Symmetry
CHECK_DEADLOCK FALSE
INVARIANTS
    RewardedOnce
