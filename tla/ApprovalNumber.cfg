SPECIFICATION FairSpec
CONSTANTS
    Creators = {t1, t2, t3}
    Cancellers = {d1, d2}
    Initial <- MCInitial
    Old <- MCOld
    Anchor <- MCAnchor
    MaxNumber = 5
INVARIANTS TypeOK NoDuplicate NoHole
PROPERTIES NeverReissued RequestsEnd
