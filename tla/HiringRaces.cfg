SPECIFICATION Spec
CONSTANTS
    Apps = {a1, a2}
    Acceptors = {h1, h2}
    Cancellers = {c1, c2}
    Processors = {p1}
    Refusers = {r1}
    NumPass = 3
CHECK_DEADLOCK FALSE
SYMMETRY Symmetry
INVARIANTS AcceptedOnlyFields NoDanglingPass LockedReadIsFresh
