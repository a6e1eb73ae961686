SPECIFICATION FairSpec
CONSTANTS
    NumRanks = 2
    NumDomains = 2
    CacheSize = 1
    t1 = t1
    t2 = t2
    t3 = t3
    Thread = {t1, t2, t3}
    HomeOf <- Homes
    DomainOf <- Domains
    Setup <- Setups
    Position <- Positions
    Sample <- Samples
    OpenBarrier = TRUE
    NoThread = NoThread
INVARIANTS Inv ReadsRequestedValue RangeIsRead RepliesFindTheirThread NothingDropped
PROPERTIES QuestionsAnswered ClosingEnds
CHECK_DEADLOCK FALSE
