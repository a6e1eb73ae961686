SPECIFICATION FairSpec
CONSTANTS
    NumRanks = 2
    CacheSize = 1
    DictSize = 1
    Block = {b1, b2}
    t1 = t1
    t2 = t2
    t3 = t3
    t4 = t4
    Thread = {t1, t2, t3, t4}
    HomeOf <- TwoEach
    ThreadsafeMPI = TRUE
    Absent = Absent
    Torn = Torn
    NoThread = NoThread
INVARIANTS Inv SourceKept ReadsRequestedBlock DictionaryTruthful
PROPERTIES SomeCallCompletes
