\* Two attempts with two payloads on the default board, which is archived and created again;
\* fair threads.
CONSTANTS
    Op = {o1}
    Attempt = {a1, a2}
    Payload = {p1, p2}
    Board = {bd}
    DefaultBoard = bd
    Gen = {g1, g2}
    Restorable = {}
    None = None
SPECIFICATION FairSpec
INVARIANTS
    TypeOK
    AtMostOneCard
    NoCardAfterLostAuthority
    CardFollowsIntent
PROPERTIES
    ImplementsPromise
    LedgerForward
    LockEventuallyFree
\* The board may run out of fresh generations.
CHECK_DEADLOCK FALSE
