\* One new document, three requests of any kind, two attempts per job, no faults.
SPECIFICATION Spec
CONSTANTS
    Texts = {t1}
    Keys = {k1, k2}
    NoText = NoText
    Keep = Keep
    NoKey = NoKey
    Retention = 1
    Docs = {d1}
    Requests = {r1, r2, r3}
    Seeds = {}
    SeedKey = k1
    BusySeeds = {}
    FaqDocs = {}
    Attempts = 2
    PurgeAttempts = 1
    MaxStalls = 1
    MaxFaults = 0
    MaxClock = 1
    Skew = 0
SYMMETRY RequestSymmetry
CHECK_DEADLOCK FALSE
INVARIANTS TypeOK ReadyMeansCurrent ProcessingIsPursued
PROPERTIES VersionsAdvance OutcomeStands
