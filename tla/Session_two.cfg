SPECIFICATION StaleSpec
CONSTANTS
    b1 = b1
    b2 = b2
    c1 = c1
    c2 = c2
    Brokers = {b1, b2}
    Calls = {c1, c2}
    None = None
    MaxTrouble = 0
CHECK_DEADLOCK FALSE
INVARIANT OneBroker

