\* Three operations, one of them relative and with two texts, compete for two
\* waiting rows, one tombstone and one delivery per tick: a reminder waits behind
\* another one, and completions can leave a file the next start refuses.
CONSTANTS
    o1 = o1
    t1 = t1
    t2 = t2
    Op = {o1, o2, o3}
    Texts <- OneEdited
    Relative = {o1}
    MaxPending = 2
    MaxTombstones = 1
    MaxDuePerTick = 1
    MaxRestarts = 1
    None = None
SPECIFICATION FairSpec
INVARIANTS
    TypeOK
    PromiseKept
    OneText
    TombstoneIsReceipt
    Bounded
PROPERTY EventuallyAcceptedOrStopped
\* An unreadable store stops the system (see ReminderOverflow.cfg).
CHECK_DEADLOCK FALSE
