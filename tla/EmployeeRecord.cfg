SPECIFICATION FairSpec
CONSTANTS
    MaxDates = 1
    MaxFiles = 3
    CalmExtra = 1
CHECK_DEADLOCK FALSE
INVARIANTS CodeAnswersLastFile SentIsAnswered AspUpToDate
PROPERTY SentGetsAnswer
