\* Three requests on a space after its creation; three on one document with a
\* viewer and an editor; three on the two cached lists; pages of one or two out
\* of up to three rows, with two changes; four requests of one demo address, up
\* to three sessions and questions over three days.
SPECIFICATION PartsSpec
CONSTANTS
    Users = {u1, u2, u3}
    Accounts = {u1, u2}
    MaxRequests = 4
    Settings = {s1, s2}
    Acceptable = {s1}
    NoSettings = NoSettings
    Docs = {d1}
    Viewers = {v1}
    Editors = {w1}
    Matching = {d1}
    Handlers = {r1, r2, r3}
    Names = {n1, n2}
    NoVersion = NoVersion
    MaxId = 3
    MaxStamp = 3
    PageSizes = {1, 2}
    MaxWrites = 2
    MaxSessions = 3
    Ips = {i1}
    QuestionLimit = 1
    DailyLimit = 1
    Duration = 1
    Minute = 1
    Hour = 2
    Day = 3
    Timeout = 1
    KeepDays = 1
    PerMinute = 1
    PerHour = 2
    BatchSize = 1
    MaxTime = 6
SYMMETRY Symmetry
CHECK_DEADLOCK FALSE
INVARIANTS ListsAreCurrent ReadsAreEntitled StoredListIsFresh
INVARIANTS  BudgetIsExact AddressLimitHolds
PROPERTIES OwnerLostOnlyByRace RolesMoveOnPurpose AskedWhileActive
