SPECIFICATION OFairSpec
CONSTANTS
    NumRanks = 2
    NumThreads = 2
    l1 = l1
    l2 = l2
    Lock = {l1, l2}
    HostOf <- OneOnEach
    NoLock = NoLock
    OpenBarrier = TRUE
INVARIANTS MutualExclusion HandoffMatches ServedInOrder
PROPERTIES EveryWaiterServed
