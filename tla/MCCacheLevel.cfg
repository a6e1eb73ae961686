SPECIFICATION FairSpec
CONSTANTS
    Size = 1
    HandDiff <- DefaultSpread
    Block = {b1, b2}
    t1 = t1
    t2 = t2
    t3 = t3
    t4 = t4
    Thread = {t1, t2, t3, t4}
    NumDomains = 2
    DomainOf <- TwoEach
    NumaTransfer = TRUE
    NoThread = NoThread
    Torn = Torn
INVARIANTS Inv ReadsRequestedBlock
PROPERTIES SomeCallCompletes
