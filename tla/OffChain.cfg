SPECIFICATION Spec
CONSTANTS
    v1 = v1
    c1 = c1
    c2 = c2
    k1 = k1
    t1 = t1
    x1 = x1
    x2 = x2
    b1 = b1
    b2 = b2
    e1 = e1
    e2 = e2
    a1 = a1
    a2 = a2
    n1 = n1
    n2 = n2
    q1 = q1
    q2 = q2
    r1 = r1
    Voters = {v1}
    Calls = {c1, c2}
    Owner <- OneOwner
    Clerks = {k1}
    MaxSecrets = 3
    MaxEdits = 2
    MaxRequests = 2
    Elections = {e1, e2}
    Acts = {a1, a2}
    Events <- SomeEvents
    Files <- OneFile
    BoardActas <- OfTheBoard
    BATCH_SIZE = 2
    EXAMINED = 1
    MaxBlocks = 4
    MaxAnomalies = 1
    MaxDamages = 1
    MaxGaps = 1
    MaxLags = 0
    MaxCrashes = 1
    Editors = {b1, b2}
    Candidates = {x1, x2}
    KeyOf <- OwnKeys
    EarlierRows <- OneRow
    Pages = {t1}
    NUM_CANDIDATES = 2
    DEPTH = 1
    SaveInputs <- Forms
    MaxSaves = 2
    MaxBallots = 2
    MaxCounts = 1
    MaxDeaths = 1
    Nullifiers = {n1, n2}
    Keys = {q1, q2}
    Covering <- SharedKey
    Runs = {r1}
    LIMIT = 1
    MaxPermits = 1
    MaxResets = 1
    MaxLost = 1
    MaxWalks = 1
INVARIANTS
    OffChainTypeOK
    OneEnrolmentPerVoter
    EnrolmentsAuthorized
    AlarmsTruthful
    ReportsCurrent
    CustodyTruthful
    DuplicateOrdersReported
    TallyProofCloses
    ProvedPairAgrees
    RollShown
    AttemptsTruthful
PROPERTIES
    SoloSaveProjects
SYMMETRY Interchangeable
CHECK_DEADLOCK FALSE
