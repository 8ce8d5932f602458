SPECIFICATION StakingSpec
CONSTANTS
    Nodes = {n1, n2}
    Owner = Owner
    Icl = Icl
    MinStake = 2
    UnbondingPeriod = 2
    StakeAmounts = {1, 2, 3}
    Endowment = 5
    MaxTime = 3
SYMMETRY Symmetry
CHECK_DEADLOCK FALSE
INVARIANTS
    BooksBalance
PROPERTIES
    UnbondingReturnsWhole
