SPECIFICATION Spec
CONSTANTS
    t1 = t1
    t2 = t2
    Thread = {t1, t2}
    NoThread = NoThread
    Grid = {g1, g2}
    NoGrid = NoGrid
    NodeOf <- Nodes
    Upper <- Words
    Setup <- Setups
    ThreadsafeCounter = TRUE
    ThreadsafeMPI = FALSE
    MaxAccess <- Reads
INVARIANTS CountersAddUp TransfersMatchParameters GridsAccountedFor
CHECK_DEADLOCK FALSE
