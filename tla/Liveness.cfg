\* Progress under fairness; no symmetry, which would be unsound for it.
SPECIFICATION FairSpec
CONSTANTS
    Texts = {}
    Keys = {k1, k2}
    NoText = NoText
    Keep = Keep
    NoKey = NoKey
    Retention = 1
    Docs = {d1}
    Requests = {r1, r2}
    Seeds = {}
    SeedKey = k1
    BusySeeds = {}
    FaqDocs = {}
    Attempts = 2
    PurgeAttempts = 2
    MaxStalls = 1
    MaxFaults = 1
    MaxClock = 2
    Skew = 0

CHECK_DEADLOCK FALSE
PROPERTIES IngestionSettles TrashIsEmptied
