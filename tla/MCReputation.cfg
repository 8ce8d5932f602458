SPECIFICATION EscalatedSpec
CONSTANTS
    Invocations = {i1}
    Nodes = {n1, n2}
    Arbiters = {a1, a2, a3}
    Subjects = {n1, a1}
    Outputs = {o1, o2, ZeroHandle}
    MaxCycle = 2
    ZeroAddress = ZeroAddress
    Unbound = Unbound
    Unopenable = Unopenable
    ZeroHandle = ZeroHandle
CHECK_DEADLOCK FALSE
INVARIANTS
    NeverHonestAndGuilty
    OnlyLosersAreGuilty
PROPERTIES
    ImplementsConduct
