SPECIFICATION FairPortalSpec
CONSTANTS
    t1 = t1
    n1 = n1
    n2 = n2
    n3 = n3
    Tabs = {t1}
    Nullifiers = {n1, n2, n3}
    Covered = {n1, n2}
    MaxTries = 2
    MaxFaults = 1
    MaxBreaks = 2
INVARIANTS
    JourneyTruthful
PROPERTIES
    TabsComeToRest
CHECK_DEADLOCK FALSE
