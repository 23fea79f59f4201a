\* A call of a turn and a durable proactive one, over a phone and its replacement.
CONSTANTS
    Job = {j1, j2}
    Conn = {c1, c2}
    Turn = {t1}
    j1 = j1
    j2 = j2
    c1 = c1
    c2 = c2
    t1 = t1
    TurnOf <- TurnOrNone
    Durable = {j2}
    Mutating = {j1, j2}
    Says = {"ok", "bad"}
    None = None
CONSTRAINT Bounds
SPECIFICATION FairSpec
INVARIANTS
    RepliesAreTrue
    TableIsExact
PROPERTIES
    NoLateHandover
    ImplementsPromise
    JobsEnd
\* Connections, turns and jobs are used once.
CHECK_DEADLOCK FALSE
