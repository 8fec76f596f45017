SPECIFICATION OffChainSpec
CONSTANTS
    v1 = v1
    c1 = c1
    c2 = c2
    k1 = k1
    t1 = t1
    x1 = x1
    x2 = x2
    b1 = b1
    b2 = b2
    e1 = e1
    e2 = e2
    a1 = a1
    a2 = a2
    n1 = n1
    n2 = n2
    q1 = q1
    q2 = q2
    r1 = r1
    Voters = {v1}
    Calls = {c1, c2}
    Owner <- OneOwner
    Clerks = {k1}
    MaxSecrets = 1
    MaxEdits = 0
    MaxRequests = 0
    Elections = {e1, e2}
    Acts = {a1, a2}
    Events <- SomeEvents
    Files <- OneFile
    BoardActas <- OfTheBoard
    BATCH_SIZE = 2
    EXAMINED = 1
    MaxBlocks = 0
    MaxAnomalies = 1
    MaxDamages = 1
    MaxGaps = 1
    MaxLags = 0
    MaxCrashes = 1
    Editors = {b1}
    Candidates = {x1, x2}
    KeyOf <- OwnKeys
    EarlierRows <- OneRow
    Pages = {t1}
    NUM_CANDIDATES = 2
    DEPTH = 1
    SaveInputs <- Forms
    MaxSaves = 2
    MaxBallots = 1
    MaxCounts = 1
    MaxDeaths = 0
    Nullifiers = {n1, n2}
    Keys = {q1, q2}
    Covering <- SharedKey
    Runs = {r1}
    LIMIT = 1
    MaxPermits = 0
    MaxResets = 0
    MaxLost = 0
    MaxWalks = 0
INVARIANTS
    BallotsProvable
CHECK_DEADLOCK FALSE
