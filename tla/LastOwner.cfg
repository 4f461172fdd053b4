\* guardLastOwner under concurrency: two owners remove each other, or both leave.
SPECIFICATION Spec
CONSTANTS
    Users = {u1, u2, u3}
    Accounts = {u1, u2}
    MaxRequests = 4
    Settings = {s1, s2}
    Acceptable = {s1}
    NoSettings = NoSettings
CHECK_DEADLOCK FALSE
INVARIANT HasOwner
