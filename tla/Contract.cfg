\* The implementation of DocumentContract, through ingestion and purge.
SPECIFICATION Spec
CONSTANTS
    Texts = {t1}
    Keys = {k1, k2}
    NoText = NoText
    Keep = Keep
    NoKey = NoKey
    Retention = 1
    Docs = {d1}
    Requests = {r1, r2}
    Seeds = {d1}
    SeedKey = k1
    BusySeeds = {d1}
    FaqDocs = {}
    Attempts = 1
    PurgeAttempts = 1
    MaxStalls = 0
    MaxFaults = 0
    MaxClock = 2
    Skew = 0
SYMMETRY RequestSymmetry
CHECK_DEADLOCK FALSE
PROPERTIES ImplementsContract
