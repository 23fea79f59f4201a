\* Two connections: a slow drop and a turn of the next phone.
CONSTANTS
    Sock = {s1, s2}
    Req = {r1}
    TurnId = {t1, t2}
    s1 = s1
    s2 = s2
    t1 = t1
    t2 = t2
    ChosenBy <- SameOrAnother
    MaxRequests = 2
    None = None
SPECIFICATION Spec
INVARIANT ExactCancellation
\* Connections are used once: the system stops when they are gone.
CHECK_DEADLOCK FALSE
