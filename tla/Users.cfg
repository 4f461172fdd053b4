\* Two users, four requests and three tokens of two lifetimes; five requests on
\* two addresses, from a registration to two recoveries; two questions on two
\* documents, with one change of the corpus.
SPECIFICATION PartsSpec
CONSTANTS
    Users = {u1, u2}
    MaxTokens = 3
    MaxRequests = 4
    Long = 2
    Short = 1
    MaxTime = 3
    MaxAtOnce = 2
    Passwords = {101, 102}
    Weak = {102}
    Docs = {d1, d2}
    MaxQuestions = 2
    MaxChanges = 1
    Similarity <- EqualSimilarity
    MinScore = 2
    TopK = 1
    Nobody = Nobody
    Unknown = Unknown
SYMMETRY Symmetry
CHECK_DEADLOCK FALSE
INVARIANTS NoFalseAlarm CutEndsSessions RecoveredByMailedCode
INVARIANTS SourcesWereReadable CacheIsTransparent
PROPERTIES ExchangedTwiceOnlyByRace SpentTwiceOnlyByRace
