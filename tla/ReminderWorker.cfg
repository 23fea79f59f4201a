\* Two promised reminders, a worker that ends, and nobody who starts it again.
CONSTANTS
    o1 = o1
    t1 = t1
    t2 = t2
    Op = {o1, o2}
    Texts <- OneEach
    Relative = {}
    MaxPending = 2
    MaxTombstones = 2
    MaxDuePerTick = 1
    MaxRestarts = 1
    None = None
SPECIFICATION FairSpec
PROPERTY EventuallyAccepted
CHECK_DEADLOCK FALSE
