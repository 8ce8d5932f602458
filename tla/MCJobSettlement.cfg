SPECIFICATION Spec
CONSTANTS
    Jobs = {j1, j2}
    Deposit = 1
    Modes = {"credits", "insured", "escrow"}
    Outcomes = {"success", "rejected"}
    MaxCallbacks = 2
    Overlap = FALSE
    Faults = {"script", "forward", "reply", "refund", "rewards", "crash"}
SYMMETRY Symmetry
CHECK_DEADLOCK FALSE
INVARIANTS
    NeverOverdrawn
    SettledSquare
    EscrowBacked
