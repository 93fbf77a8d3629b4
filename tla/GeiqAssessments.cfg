SPECIFICATION GeiqSpec
CONSTANTS
    Contracts = {k1}
    Antennas = {x1, x2}
    Tabs = {t1, t2}
    Workers = {w1, w2}
    Versions = {1, 2}
    Overlap = 2
SYMMETRY Interchangeable
CHECK_DEADLOCK FALSE
INVARIANTS OneAssessmentPerAntenna SubmittedIsComplete
PROPERTY SubmittedIsFrozen
