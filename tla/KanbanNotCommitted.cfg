\* The wire answer "not_committed" against the ledger, two attempts.
CONSTANTS
    Op = {o1}
    Attempt = {a1, a2}
    Payload = {p1}
    Board = {bd}
    DefaultBoard = bd
    Gen = {g1, g2}
    Restorable = {}
    None = None
SPECIFICATION Spec
PROPERTY NotCommittedIsTrue
CHECK_DEADLOCK FALSE
