SPECIFICATION FairSpec
CONSTANTS
    JobSeekers = {j1}
    Professionals = {p1, p2}
    INACTIVITY_PERIOD = 1
    GRACE_PERIOD = 1
    BATCH_SIZE = 1
    Runs = {1, 2}
    MaxDay = 3
CHECK_DEADLOCK FALSE

PROPERTY FreedIsDeleted
