\* An imported document with an unversioned job, two crashes, skewed clocks.
SPECIFICATION Spec
CONSTANTS
    Texts = {t1}
    Keys = {k1}
    NoText = NoText
    Keep = Keep
    NoKey = NoKey
    Retention = 1
    Docs = {d1}
    Requests = {r1, r2}
    Seeds = {d1}
    SeedKey = k1
    BusySeeds = {d1}
    FaqDocs = {}
    Attempts = 2
    PurgeAttempts = 1
    MaxStalls = 1
    MaxFaults = 2
    MaxClock = 1
    Skew = 1
SYMMETRY RequestSymmetry
CHECK_DEADLOCK FALSE
INVARIANTS ProcessingIsPursued
