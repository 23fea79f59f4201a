\* Sessions end when their connection does: deadlock is not checked.
CONSTANTS
    MaxTurn = 2
    q1 = q1
    a1 = a1
    a2 = a2
    Ask = {q1, a1, a2}
    Kind <- KindOf
    Like <- LikeOf
    Displayable = {q1, a1}
    SmartDenied = {}
    FreeText = TRUE
    c1 = c1
    c2 = c2
    Cmd = {c1, c2}
    MaxSessions = 1
    MaxPending = 2
    MaxCommands = 2
    MaxShown = 1
    MaxNonce = 2
    Ends = {"completed"}
    CueReq = {r1, r2}
    None = None
CONSTRAINTS
    Few
    Separate
    TwoCommands
SPECIFICATION FairSpec
INVARIANTS
    Consistent
    OpenIsActive
    ReceiptIsTrue
    KnownIsVisible
    OneCueAnswer
PROPERTIES
    AnswersFit
    LanesEnd
CHECK_DEADLOCK FALSE
