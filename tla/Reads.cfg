\* Two weather reads of two turns for one slot, beside a train read.
CONSTANTS
    w1 = w1
    w2 = w2
    n1 = n1
    t1 = t1
    t2 = t2
    Read = {w1, w2, n1}
    Weather = {w1, w2}
    Turn = {t1, t2}
    TurnOf <- TurnOfRead
    Limit = 1
    Quota = 1
    None = None
SPECIFICATION FairSpec
CONSTRAINT Bounds
INVARIANT SlotsExact
PROPERTIES
    ImplementsPromise
    ReadsEnd
\* Turns and reads are used once.
CHECK_DEADLOCK FALSE
