CONSTANTS
    Ports = {p1, p2}
    Slots = {s1, s2}
    MaxTrouble = 1
    NoPort = NoPort
SPECIFICATION Spec
SYMMETRY Symmetry
INVARIANTS
    RetryAlwaysComing
