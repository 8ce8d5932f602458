SPECIFICATION Spec
SYMMETRY Symmetry
CONSTANTS
    Subjects = {n1}
    MaxCycle = 1
    Callers = {c1}
    Escrows = {e1, e2}
    Amounts = {0, 1}
    minWorkPerCycle = 1
    minValidationPerCycle = 0
    MaxItems = 2
INVARIANTS
    ReleasedOnMerit
    PaidWhatWasReleased
PROPERTIES
    SettledOnce
