\* Two connections with a voice request each, the same turn id or two, fair
\* coroutines.
CONSTANTS
    Sock = {s1, s2}
    Req = {r1}
    TurnId = {t1, t2}
    s1 = s1
    s2 = s2
    t1 = t1
    t2 = t2
    ChosenBy <- SameOrAnother
    MaxRequests = 2
    None = None
SPECIFICATION FairSpec
INVARIANTS
    TypeOK
    OneAnswer
    OneLane
PROPERTIES
    ForgetsOnlyItself
    ImplementsTurns
    ConnectionsEnd
    RequestsResolve
\* Connections are used once: the system stops when they are gone.
CHECK_DEADLOCK FALSE
