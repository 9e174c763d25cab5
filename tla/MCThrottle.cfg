SPECIFICATION ThrottleSpec
CONSTANTS
    Users = {u1}
    Messages = {m1, m2, m3, m4}
    Limit = 2
    Idle = 3
    MaxTime = 7
    MaxFaults = 1
SYMMETRY Symmetry
INVARIANTS
    ThrottleTypeOK
    NoFalseDrop
    CalmIsSpaced
PROPERTY ShutOutEnds
CHECK_DEADLOCK FALSE
