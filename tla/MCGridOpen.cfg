SPECIFICATION FairSpec
CONSTANTS
    Thread = {t1, t2, t3}
    NoThread = NoThread
    Node = {n1, n2}
    NoDomain = NoDomain
    NumLevels = 2
    MaxDimensions = 4
    Setup <- Setups
INVARIANTS Inv NoLostWakeUp IdsAndMasters ReadyWhenUsed OpenedEverywhere ReturnsTheError
PROPERTIES EveryOpenReturns
CHECK_DEADLOCK FALSE
