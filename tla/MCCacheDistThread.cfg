SPECIFICATION FairSpec
CONSTANTS
    NumRanks = 2
    Setup <- EvictAndFetch
    Anything = Anything
    DictSize = 2
    b1 = b1
    b2 = b2
    Block = {b1, b2}
    t1 = t1
    t2 = t2
    t3 = t3
    t4 = t4
    Thread = {t1, t2, t3}
    HomeOf <- TwoAndOne
    DictRankOf <- BlocksOnEach
    TagOffset = 0
    MaxQueue = 2
    Absent = Absent
    Torn = Torn
    CommThread = CommThread
    NoThread = NoThread
INVARIANTS Inv ReadsRequestedBlock RepliesFindTheirThread StalePlacesAreLeaving
PROPERTIES SomeCallCompletes QuestionsAnswered
CHECK_DEADLOCK FALSE
