CONSTANTS
    Ports = {p1, p2, p3}
    Slots = {s1, s2}
    MaxTrouble = 2
    NoPort = NoPort
SPECIFICATION FairSpec
INVARIANTS
    OneLink
PROPERTIES
    NeverGivesUp
    OnlyTroubleDropsALink
    Recovers
