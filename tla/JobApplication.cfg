SPECIFICATION Spec
CONSTANTS
    Apps = {a1, a2}
    Authorized = {a2}
    Iae = {iae}
    Geiq = {geiq}
    Others = {}
    NumPass = 2
    PassDays = 2
    WaitDays = 1
    HireWindow = 1
    OpenBefore = 0
    OpenAfter = 1
    SuspensionMax = 3
    ProlongationMax = 1
    NumRequests = 1
    PostponeDays = 1
    MaxDay = 3
    PeriodsDay = 2
    MaxPrior = 1
    Archivable = {a1}
    Commented = {a2}
    Cancellable = {a1}
    WithPeriods = {1}
    Scopes = {"wide", "long", "periods"}
CHECK_DEADLOCK FALSE
INVARIANTS CheckConstraints OneValidPassInTime  AcceptedHasPass NoOrphanPass
PROPERTY ObsoleteOnAccept
