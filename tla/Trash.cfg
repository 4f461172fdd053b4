\* Two imported documents sharing a file; deadlines pass and purges run.
SPECIFICATION Spec
CONSTANTS
    Texts = {}
    Keys = {k1, k2}
    NoText = NoText
    Keep = Keep
    NoKey = NoKey
    Retention = 1
    Docs = {d1, d2}
    Requests = {r1, r2, r3}
    Seeds = {d1, d2}
    SeedKey = k1
    BusySeeds = {}
    FaqDocs = {}
    Attempts = 1
    PurgeAttempts = 1
    MaxStalls = 0
    MaxFaults = 0
    MaxClock = 2
    Skew = 0
SYMMETRY RequestSymmetry
CHECK_DEADLOCK FALSE
INVARIANTS RecoverableKeepsFile TrashState KeysExclusive
PROPERTIES PurgeIsFinal
