CONSTANTS
    Siaes = {s1}
    Apps = {a1, a2}
    Crits = {c1, c2}
    AdversarialStart = 1
    ReminderDelay = 1
    LastDay = 2
SPECIFICATION CampaignSpec
SYMMETRY Interchangeable
INVARIANTS ClosedIsDecided TransitionExpected SanctionedIsRefused
PROPERTY DecisionIsFinal
CHECK_DEADLOCK FALSE
