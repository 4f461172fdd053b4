\* One import, attempts that fail and one worker that dies: the runs of its job.
SPECIFICATION Spec
CONSTANTS
    Texts = {t1}
    Keys = {k1}
    NoText = NoText
    Keep = Keep
    NoKey = NoKey
    Retention = 1
    Docs = {d1}
    Requests = {r1}
    Seeds = {d1}
    SeedKey = k1
    BusySeeds = {d1}
    FaqDocs = {}
    Attempts = 3
    PurgeAttempts = 1
    MaxStalls = 1
    MaxFaults = 1
    MaxClock = 1
    Skew = 0
SYMMETRY RequestSymmetry
CHECK_DEADLOCK FALSE
INVARIANTS RunsBounded
