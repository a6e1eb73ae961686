SPECIFICATION FairSpec
CONSTANTS
    NumRanks = 2
    Setup <- Evict
    Anything = Anything
    DictSize = 2
    b1 = b1
    b2 = b2
    Block = {b1, b2}
    t1 = t1
    t2 = t2
    t3 = t3
    t4 = t4
    Thread = {t1, t2}
    HomeOf <- OneEach
    DictRankOf <- BlocksOnEach
    TagOffset = 3
    MaxQueue = 2
    Absent = Absent
    Torn = Torn
    CommThread = CommThread
    NoThread = NoThread
PROPERTIES QuestionsAnswered
CHECK_DEADLOCK FALSE
