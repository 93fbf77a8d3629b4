SPECIFICATION Spec
CONSTANTS
    NumPasses = 2
    OddKinds = {}
    Changing = {1}
    Runs = {r1, r2}
    BatchSize = 1
    MaxDates = 2
    MaxCrashes = 1
    MaxEdits = 1
INVARIANTS SuccessMeansKnown CancelledStays
PROPERTIES PendingIsAnswered
CHECK_DEADLOCK FALSE
