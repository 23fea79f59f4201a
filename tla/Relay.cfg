\* Three calls of two turns whose task boards differ; the first capability has
\* two subcalls, which are retried, and the replay table holds one capability.
SPECIFICATION Spec
CONSTANTS
    Call = {c1, c2, c3}
    Cap = {k1, k2, k3, k4}
    Turn = {t1, t2}
    Dest = {d1, d2}
    Payload = {p1, p2}
    c1 = c1
    c2 = c2
    c3 = c3
    d1 = d1
    d2 = d2
    k1 = k1
    k2 = k2
    k3 = k3
    k4 = k4
    p1 = p1
    p2 = p2
    t1 = t1
    t2 = t2
    TurnOf <- TurnOfCap
    DestOf <- DestOfCap
    StepsOf <- StepsOfCap
    Sent <- SentPackets
    Denied = {k4}
    MaxSteps = 2
    MaxLive = 1
    None = None
SYMMETRY CallsAlike
INVARIANTS
    OneDestination
    NoReplay
    InSequence
    Bounded
PROPERTIES
    ImplementsPromise
\* Calls, turns and capabilities are used once.
CHECK_DEADLOCK FALSE
