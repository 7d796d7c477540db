SPECIFICATION FairSpec
CONSTANTS
    q1 = q1
    q2 = q2
    Reqs = {q1, q2}
    Register = Register
    Frame = Frame
    BufferMax = 2
    PendingMax = 1
    MaxTrouble = 2
INVARIANTS
    NothingIsLostInSilence
PROPERTIES
    Registers
    RelayRecovers
