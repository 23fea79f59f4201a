\* The file the process writes against what the next process accepts.
CONSTANTS
    o1 = o1
    t1 = t1
    t2 = t2
    Op = {o1, o2}
    Texts <- OneEach
    Relative = {}
    MaxPending = 2
    MaxTombstones = 1
    MaxDuePerTick = 2
    MaxRestarts = 1
    None = None
SPECIFICATION Spec
INVARIANT StoreStaysReadable
CHECK_DEADLOCK FALSE
