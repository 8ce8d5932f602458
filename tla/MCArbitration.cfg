SPECIFICATION ScenesSpec
SYMMETRY Symmetry
CONSTANTS
    Invocations = {i1, i2}
    Nodes = {n1, n2}
    Arbiters = {n2, a1, a2, a3}
    Outputs = {o1, o2}
    Salts = {s1}
    StakeValues = {1, 3}
    MinArbiterStake = 2
    CommitWindow = 1
    RevealWindow = 1
    CooldownBlocks = 2
    Ks = {1, 2, 3}
    MaxTime = 2
    ZeroAddress = ZeroAddress
    Unbound = Unbound
    Unopenable = Unopenable
    JunkDigest = JunkDigest
    ZeroHandle = ZeroHandle
INVARIANTS
    PoolExact
    PanelIsImpartial
    CooldownRespected
    RulingIsMajority
PROPERTIES
    BlindVoting
    ImplementsArbitration
