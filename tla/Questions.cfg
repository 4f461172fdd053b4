\* Three requests that resolve two questions or delete a document, and an
\* author's edit; three turns of a member and a demo account in one session.
SPECIFICATION PartsSpec
CONSTANTS
    Questions = {q1, q2}
    Requests = {r1, r2, r3}
    MaxDocuments = 3
    NoRequest = NoRequest
    NoQuestion = NoQuestion
    MaxEdits = 1
    Users = {ann, guest}
    Demo = {guest}
    Sessions = {s1}
    DemoQuestions = 2
    Nobody = Nobody
    Untitled = Untitled
SYMMETRY Symmetry
CHECK_DEADLOCK FALSE
INVARIANTS FaqIsActive ResolvedOnce FaqIsQueued TitledUnlessFailed
PROPERTIES UndisturbedLosesNothing TitleSettles
