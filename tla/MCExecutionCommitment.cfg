SPECIFICATION Spec
SYMMETRY Symmetry
CONSTANTS
    Invocations = {i1}
    Nodes = {n1, n2, n3}
    Dispatchers = {d1, d2}
    Outputs = {o1, ZeroHandle}
    Salts = {s1, s2}
    ZeroAddress = ZeroAddress
    ZeroDigest = ZeroDigest
    JunkDigest = JunkDigest
    ZeroHandle = ZeroHandle
    Unbound = Unbound
    Unopenable = Unopenable
    MaxTime = 4
INVARIANTS
    VerifiedMeansAgreement
    EscalatedForCause
    NeverStuck
PROPERTIES
    BlindBinding
    DecisionIsFinal
    ImplementsCrossVerification
