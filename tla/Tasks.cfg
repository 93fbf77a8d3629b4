CONSTANTS
    Emails = {e1}
    Criteria = {c1}
    NumCopies = 2
    Workers = 2
    Retries = 1
    Spacing = 1
    MaxDay = 4
    MaxFaults = 2
SPECIFICATION Spec
INVARIANTS EmailIsCarried SentOnce OneTaskPerCriterion
PROPERTY EveryEmailEnds
CHECK_DEADLOCK FALSE
