\* Two editors resolve one question each; nobody edits.
SPECIFICATION Spec
CONSTANTS
    Questions = {q1, q2}
    Requests = {r1, r2}
    MaxDocuments = 2
    NoRequest = NoRequest
    NoQuestion = NoQuestion
    MaxEdits = 0
CHECK_DEADLOCK FALSE
INVARIANTS AnswerIsInFaq
