SPECIFICATION FairSpec
CONSTANTS
    Threads = {t1, t2, t3}
    SeqMax = 2
    MaxClock = 1
    MaxCalls = 4
INVARIANTS WordInv
PROPERTIES NeverReissued RealTimeOrder CallsReturn
CHECK_DEADLOCK FALSE
