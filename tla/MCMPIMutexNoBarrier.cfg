SPECIFICATION Spec
CONSTANTS
    NumRanks = 2
    NumThreads = 1
    l1 = l1
    Lock = {l1}
    HostOf <- OnFirst
    NoLock = NoLock
    OpenBarrier = FALSE
INVARIANTS MutualExclusion
