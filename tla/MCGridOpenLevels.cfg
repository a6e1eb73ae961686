SPECIFICATION Spec
CONSTANTS
    Thread = {t1, t2}
    NoThread = NoThread
    Node = {n1, n2}
    NoDomain = NoDomain
    NumLevels = 2
    MaxDimensions = 4
    Setup <- TwoGoodLevels
INVARIANTS AllLevelsUsable
CHECK_DEADLOCK FALSE
