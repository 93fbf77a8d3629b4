SPECIFICATION Spec
CONSTANTS
    Workers = {w1, w2}
    NumSuspensions = 1
    NumProlongations = 2
    NumRequests = 1
    MaxDay = 2
    PassDays = 2
    HireWindow = 1
    OpenBefore = 1
    OpenAfter = 1
    SuspensionMax = 3
    Retroactivity = 1
    DirectMax = 1
    RequestMax = 1
    CumulativeMax = 1
INVARIANTS EndAddsUp ProlongationsWithinPass CumulativeBound GrantedIsProlonged
PROPERTIES EveryDayIsGiven
SYMMETRY Interchangeable
CHECK_DEADLOCK FALSE
