SPECIFICATION Spec
CONSTANTS
    Apps = {a1, a2}
    Acceptors = {h1, h2}
    Cancellers = {}
    Processors = {}
    Refusers = {}
    NumPass = 3
CHECK_DEADLOCK FALSE
SYMMETRY Symmetry
INVARIANT OneValidPass
