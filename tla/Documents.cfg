\* Five versions: two outcomes, or one and edits, around two changes of one
\* user's membership, permission and connection.  The properties speak of each
\* user alone.  No symmetry: there is a liveness property.  Texts of up to ten
\* windows, in batches that do not divide each other.
SPECIFICATION PartsSpec
CONSTANTS
    Users = {u1}
    MaxVersion = 5
    MaxChanges = 2
    Size = 5
    Overlap = 2
    Batch = 3
    ClientBatch = 2
    MaxTokens = 30
    NoVector = NoVector
CHECK_DEADLOCK FALSE
INVARIANTS EventsWereEntitled ToldOnce PassagesStayWhole VectorsMatchChunks
PROPERTIES OutcomesAreTold
