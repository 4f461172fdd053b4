------------------------ MODULE FaqResolution_proofs ------------------------
(***************************************************************************)
(* Proofs about FaqResolution and ChatTurn, the parts of MCFaqResolution:  *)
(* the FAQ document that is linked, what is written into it and who is     *)
(* told so, and the titles of sessions, for any number of questions,       *)
(* requests, documents, users and sessions.                                *)
(***************************************************************************)
EXTENDS MCFaqResolution, Sequences, TLAPS

Deleting == {"deleteLock", "deleteCheck", "deleteWrite"}

\* What a handler has established by the time it reaches its pc.
Reached(c) ==
    /\ c.pc \in {"newId", "linkLock", "link", "read", "update", "queue"} \cup Deleting
          => c.doc \in Documents
    /\ c.pc \notin Deleting => c.question \in Questions
    /\ c.pc \in {"newId", "linkLock", "link", "queue", "mark"} => c.id \in written
    /\ c.id \in issued

\* A handler that has locked a row can rely on what it has read of it.
Holding(c) ==
    /\ c.pc \in {"link", "deleteCheck", "deleteWrite"} => lock[c.doc] = c.id
    /\ c.pc = "link" => Active(c.doc)
    /\ c.pc = "deleteWrite" => faq # c.doc

OneHandlerEach == \A c, d \in calls : c.id = d.id => c = d

\* Who is told that it worked has closed the question, and only one has.
Answered ==
    /\ \A a \in accepted : a[2] \notin open
    /\ ResolvedOnce

(***************************************************************************)
(* The inductive invariant.  FaqIsActive alone is not inductive: that the  *)
(* document stays active between the lock and the link, and unlinked       *)
(* between the check and the deletion, is what the row lock is for.        *)
(***************************************************************************)
FaqInv ==
    /\ TypeOK
    /\ FaqIsActive
    /\ OneHandlerEach
    /\ \A c \in calls : Reached(c) /\ Holding(c)
    /\ Answered

-----------------------------------------------------------------------------
(* What a step leaves to the other handlers *)

\* d2 is d after a step of somebody else.
StaysAs(d2, d) ==
    d2 \in Call /\ d2.id = d.id /\ d2.pc = d.pc /\ d2.doc = d.doc /\ d2.question = d.question

\* What a step of r may change of the rows, the locks and the link.
KeepsLocks(r) ==
    /\ written \subseteq written' /\ issued \subseteq issued'
    /\ \A e \in Documents : lock[e] \notin {NoRequest, r} => lock'[e] = lock[e]
    /\ \A e \in Documents : Active(e) => Active(e)' \/ lock[e] = r
    /\ faq' = faq \/ lock[faq'] = r

\* The handlers after a step of c, which goes on as one of C2 or has ended.
OthersStay(c, C2) ==
    \A d2 \in calls' : d2 \in C2 \/ \E d \in calls : d # c /\ StaysAs(d2, d)

LEMMA OtherKeeps ==
    ASSUME FaqInv, NEW r, KeepsLocks(r), NEW d \in calls, d.id # r,
           NEW d2, StaysAs(d2, d)
    PROVE  Reached(d2)' /\ Holding(d2)'
<1>1. Reached(d) /\ Holding(d) /\ d.id \in Requests
  BY DEF FaqInv, TypeOK, Call
<1>2. d.id # NoRequest
  BY <1>1, FaqAssumption
<1>3. Reached(d2)'
  BY <1>1 DEF Reached, StaysAs, KeepsLocks
<1>4. CASE d.pc \in {"link", "deleteCheck", "deleteWrite"}
  <2>1. d.doc \in Documents /\ lock[d.doc] = d.id
    BY <1>1, <1>4 DEF Reached, Holding, Deleting
  <2>2. lock'[d.doc] = d.id
    BY <1>2, <2>1 DEF KeepsLocks
  <2>3. d.pc = "link" => Active(d.doc)'
    BY <1>1, <2>1 DEF Holding, KeepsLocks
  <2>4. d.pc = "deleteWrite" => faq' # d.doc
    BY <1>1, <2>1 DEF Holding, KeepsLocks
  <2> QED BY <1>3, <2>2, <2>3, <2>4 DEF Holding, StaysAs, Active
<1>5. CASE d.pc \notin {"link", "deleteCheck", "deleteWrite"}
  BY <1>3, <1>5 DEF Holding, StaysAs
<1> QED BY <1>4, <1>5

LEMMA MoveShape ==
    ASSUME calls \subseteq Call, NEW c \in calls, NEW c2, c2.id = c.id, OneHandlerEach,
           Move(c, c2) \/ MoveDisturbing(c, c2)
    PROVE  OthersStay(c, {c2}) /\ OneHandlerEach'
<1>1. CASE Move(c, c2)
  BY <1>1 DEF Move, OthersStay, StaysAs, OneHandlerEach
<1>2. CASE MoveDisturbing(c, c2)
  <2>1. calls' = Disturb(calls \ {c}) \cup {c2}
    BY <1>2 DEF MoveDisturbing
  <2> DEFINE F(d) == [d EXCEPT !.disturbed = TRUE]
  <2>2. \A d \in calls : StaysAs(F(d), d)
    BY DEF StaysAs, Call
  <2>3. \A d2 \in Disturb(calls \ {c}) : \E d \in calls : d # c /\ d2 = F(d)
    BY DEF Disturb
  <2> HIDE DEF F
  <2>4. OthersStay(c, {c2})
    BY <2>1, <2>2, <2>3 DEF OthersStay
  <2>5. \A d2 \in Disturb(calls \ {c}) : d2.id # c.id
    BY <2>2, <2>3 DEF StaysAs, OneHandlerEach
  <2>6. \A d2, e2 \in Disturb(calls \ {c}) : d2.id = e2.id => d2 = e2
    BY <2>2, <2>3 DEF StaysAs, OneHandlerEach
  <2> QED BY <2>1, <2>4, <2>5, <2>6 DEF OneHandlerEach
<1> QED BY <1>1, <1>2

LEMMA FinishShape ==
    ASSUME calls \subseteq Call, NEW c \in calls, OneHandlerEach, Finish(c)
    PROVE  OthersStay(c, {}) /\ OneHandlerEach'
BY DEF Finish, OthersStay, StaysAs, OneHandlerEach

\* A handler's step keeps the invariant when it keeps that of its own record.
LEMMA HandlerKeeps ==
    ASSUME FaqInv, TypeOK', NEW c \in calls, NEW C2, OthersStay(c, C2), OneHandlerEach',
           KeepsLocks(c.id), FaqIsActive', Answered',
           \A c2 \in C2 : Reached(c2)' /\ Holding(c2)'
    PROVE  FaqInv'
<1>1. \A d \in calls : d # c => d.id # c.id
  BY DEF FaqInv, OneHandlerEach
<1>2. \A d2 \in calls' : Reached(d2)' /\ Holding(d2)'
  <2> TAKE d2 \in calls'
  <2>1. CASE d2 \in C2
    BY <2>1
  <2>2. CASE \E d \in calls : d # c /\ StaysAs(d2, d)
    BY <1>1, <2>2, OtherKeeps
  <2> QED BY <2>1, <2>2 DEF OthersStay
<1> QED BY <1>2 DEF FaqInv

\* So does a step of nobody who holds a lock.
LEMMA OutsiderKeeps ==
    ASSUME FaqInv, TypeOK', KeepsLocks(NoRequest), FaqIsActive', Answered', OneHandlerEach',
           \A d2 \in calls' : (\E d \in calls : StaysAs(d2, d)) \/ (Reached(d2)' /\ Holding(d2)')
    PROVE  FaqInv'
<1>1. \A d \in calls : d.id # NoRequest
  BY FaqAssumption DEF FaqInv, TypeOK, Call
<1>2. \A d2 \in calls' : Reached(d2)' /\ Holding(d2)'
  BY <1>1, OtherKeeps
<1> QED BY <1>2 DEF FaqInv

\* What Unlocks gives back is the handler's own.
LEMMA UnlockKeeps ==
    ASSUME TypeOK, NEW c \in calls, Unlocks(c)
    PROVE  /\ lock' \in [Documents -> Requests \cup {NoRequest}]
           /\ \A e \in Documents : lock[e] \notin {NoRequest, c.id} => lock'[e] = lock[e]
BY DEF TypeOK, Unlocks

LEMMA LockKeeps ==
    ASSUME TypeOK, NEW c \in calls, c.doc \in Documents, LocksRow(c)
    PROVE  /\ lock' \in [Documents -> Requests \cup {NoRequest}]
           /\ \A e \in Documents : lock[e] \notin {NoRequest, c.id} => lock'[e] = lock[e]
           /\ lock'[c.doc] = c.id
BY DEF TypeOK, LocksRow, Call

\* Nobody's answer counts but by MarkResolveQuestion.
LEMMA AnsweredKeeps ==
    ASSUME Answered, UNCHANGED <<open, accepted>>, written \subseteq written'
    PROVE  Answered'
BY DEF Answered, ResolvedOnce

-----------------------------------------------------------------------------
(* One lemma for each kind of step *)

LEMMA IssueStep ==
    ASSUME FaqInv, NEW r \in Requests, NEW q \in Questions \cup {NoQuestion},
           NEW d \in Documents \cup {NoDocument}, NEW pc \in {"question", "deleteLock"},
           Issue(r, q, d, pc),
           pc = "question" => q \in Questions, pc = "deleteLock" => d \in Documents
    PROVE  FaqInv'
<1> DEFINE c == [id |-> r, question |-> q, doc |-> d, ver |-> 0,
                 content |-> {}, disturbed |-> FALSE, pc |-> pc]
<1>1. /\ calls' = calls \cup {c} /\ r \notin issued /\ issued' = issued \cup {r}
      /\ UNCHANGED <<open, category, docs, lock, faq, jobs, edits, patches, written, accepted, lost>>
  BY DEF Issue
<1>2. c \in Call /\ c.id = r /\ c.pc = pc /\ c.doc = d /\ c.question = q
  BY DEF Call
<1> HIDE DEF c
<1>3. TypeOK'
  BY <1>1, <1>2 DEF FaqInv, TypeOK, Row
<1>4. KeepsLocks(NoRequest)
  BY <1>1 DEF KeepsLocks, Active
<1>5. FaqIsActive' /\ Answered'
  BY <1>1 DEF FaqInv, FaqIsActive, Active, Answered, ResolvedOnce
<1>6. OneHandlerEach'
  BY <1>1, <1>2 DEF FaqInv, OneHandlerEach, Reached
<1>7. Reached(c)' /\ Holding(c)'
  BY <1>1, <1>2 DEF Reached, Holding, Deleting
<1>8. \A e \in calls : StaysAs(e, e)
  BY DEF FaqInv, TypeOK, StaysAs
<1> QED BY <1>1, <1>3, <1>4, <1>5, <1>6, <1>7, <1>8, OutsiderKeeps

\* A handler ends and changes nothing but what it had locked, and what it leaves
\* for nobody to queue.
LEMMA FinishStep ==
    ASSUME FaqInv, NEW c \in calls, Finish(c), Unlocks(c) \/ UNCHANGED lock,
           category' \in BOOLEAN, lost' \subseteq Documents \X Nat,
           UNCHANGED <<open, docs, faq, jobs, issued, edits, patches, written, accepted>>
    PROVE  FaqInv'
<1>1. calls \subseteq Call /\ OneHandlerEach /\ TypeOK
  BY DEF FaqInv, TypeOK
<1>2. OthersStay(c, {}) /\ OneHandlerEach'
  BY <1>1, FinishShape
<1>3. /\ lock' \in [Documents -> Requests \cup {NoRequest}]
      /\ \A e \in Documents : lock[e] \notin {NoRequest, c.id} => lock'[e] = lock[e]
  BY <1>1, UnlockKeeps DEF TypeOK
<1>4. TypeOK'
  BY <1>1, <1>3 DEF TypeOK, Finish, Row
<1>5. KeepsLocks(c.id)
  BY <1>3 DEF KeepsLocks, Active
<1>6. FaqIsActive' /\ Answered'
  BY DEF FaqInv, FaqIsActive, Active, Answered, ResolvedOnce
<1> QED BY <1>2, <1>4, <1>5, <1>6, HandlerKeeps

\* A handler goes on to its next await and has written nothing.
LEMMA MoveStep ==
    ASSUME FaqInv, NEW c \in calls, NEW c2 \in Call, c2.id = c.id, Move(c, c2),
           category' \in BOOLEAN,
           UNCHANGED <<open, docs, lock, faq, jobs, issued, edits, patches, written, accepted, lost>>,
           Reached(c2), Holding(c2)
    PROVE  FaqInv'
<1>1. calls \subseteq Call /\ OneHandlerEach /\ TypeOK
  BY DEF FaqInv, TypeOK
<1>2. OthersStay(c, {c2}) /\ OneHandlerEach'
  BY <1>1, MoveShape
<1>3. TypeOK'
  BY <1>1 DEF TypeOK, Move, Row
<1>4. KeepsLocks(c.id)
  BY DEF KeepsLocks, Active
<1>5. FaqIsActive' /\ Answered'
  BY DEF FaqInv, FaqIsActive, Active, Answered, ResolvedOnce
<1>6. Reached(c2)' /\ Holding(c2)'
  BY DEF Reached, Holding, Active
<1> QED BY <1>2, <1>3, <1>4, <1>5, <1>6, HandlerKeeps

LEMMA ReadSteps ==
    ASSUME FaqInv, NEW c \in calls,
           \/ ReadQuestion(c) \/ ReadCategory(c) \/ CreateFaqCategory(c)
           \/ GetFaqDocumentId(c) \/ GetDocumentIdByPublicId(c) \/ GetDocumentContentById(c)
    PROVE  FaqInv'
<1>1. c \in Call /\ TypeOK /\ Reached(c) /\ category \in BOOLEAN
  BY DEF FaqInv, TypeOK
<1>2. CASE Finish(c)
  <2>1. UNCHANGED <<open, docs, lock, faq, jobs, issued, edits, patches, written, accepted, lost>>
        /\ category' \in BOOLEAN /\ lost' \subseteq Documents \X Nat
    BY <1>1 DEF TypeOK, ReadQuestion, ReadCategory, CreateFaqCategory, GetFaqDocumentId,
                GetDocumentIdByPublicId, GetDocumentContentById
  <2> QED BY <1>2, <2>1, FinishStep
<1>3. CASE ReadQuestion(c) /\ ~Finish(c)
  <2> DEFINE c2 == [c EXCEPT !.pc = "category"]
  <2>1. /\ Move(c, c2) /\ category' = category
        /\ UNCHANGED <<open, docs, lock, faq, jobs, issued, edits, patches, written, accepted, lost>>
        /\ c.pc = "question"
    BY <1>3 DEF ReadQuestion
  <2>2. c2 \in Call /\ c2.id = c.id /\ Reached(c2) /\ Holding(c2)
    BY <1>1, <2>1 DEF Call, Reached, Holding, Deleting
  <2> HIDE DEF c2
  <2> QED BY <1>1, <2>1, <2>2, MoveStep
<1>4. CASE ReadCategory(c)
  <2>1. PICK pc \in {"faqId", "newCategory"} : Move(c, [c EXCEPT !.pc = pc])
    BY <1>4 DEF ReadCategory
  <2> DEFINE c2 == [c EXCEPT !.pc = pc]
  <2>2. /\ Move(c, c2) /\ category' = category
        /\ UNCHANGED <<open, docs, lock, faq, jobs, issued, edits, patches, written, accepted, lost>>
        /\ c.pc = "category"
    BY <1>4, <2>1 DEF ReadCategory
  <2>3. c2 \in Call /\ c2.id = c.id /\ Reached(c2) /\ Holding(c2)
    BY <1>1, <2>2 DEF Call, Reached, Holding, Deleting
  <2> HIDE DEF c2
  <2> QED BY <1>1, <2>2, <2>3, MoveStep
<1>5. CASE CreateFaqCategory(c) /\ ~Finish(c)
  <2> DEFINE c2 == [c EXCEPT !.pc = "faqId"]
  <2>1. /\ Move(c, c2) /\ category' \in BOOLEAN
        /\ UNCHANGED <<open, docs, lock, faq, jobs, issued, edits, patches, written, accepted, lost>>
        /\ c.pc = "newCategory"
    BY <1>5 DEF CreateFaqCategory
  <2>2. c2 \in Call /\ c2.id = c.id /\ Reached(c2) /\ Holding(c2)
    BY <1>1, <2>1 DEF Call, Reached, Holding, Deleting
  <2> HIDE DEF c2
  <2> QED BY <2>1, <2>2, MoveStep
<1>6. CASE GetFaqDocumentId(c)
  <2>1. PICK pc \in {"add", "read"} :
          /\ Move(c, [c EXCEPT !.doc = faq, !.disturbed = FALSE, !.pc = pc])
          /\ pc = "read" => faq # NoDocument
    BY <1>6 DEF GetFaqDocumentId
  <2> DEFINE c2 == [c EXCEPT !.doc = faq, !.disturbed = FALSE, !.pc = pc]
  <2>2. /\ Move(c, c2) /\ category' = category
        /\ UNCHANGED <<open, docs, lock, faq, jobs, issued, edits, patches, written, accepted, lost>>
        /\ c.pc = "faqId"
    BY <1>6, <2>1 DEF GetFaqDocumentId
  <2>3. faq \in Documents \cup {NoDocument} /\ (pc = "read" => faq \in Documents)
    BY <1>1, <2>1 DEF TypeOK
  <2>4. /\ c2 \in Call /\ c2.id = c.id /\ c2.pc = pc /\ c2.doc = faq
        /\ c2.question = c.question
    BY <1>1, <2>3 DEF Call
  <2> HIDE DEF c2
  <2>5. Reached(c2) /\ Holding(c2)
    BY <1>1, <2>2, <2>3, <2>4 DEF Reached, Holding, Deleting
  <2> QED BY <1>1, <2>2, <2>4, <2>5, MoveStep
<1>7. CASE GetDocumentIdByPublicId(c) /\ ~Finish(c)
  <2> DEFINE c2 == [c EXCEPT !.pc = "linkLock"]
  <2>1. /\ Move(c, c2) /\ category' = category
        /\ UNCHANGED <<open, docs, lock, faq, jobs, issued, edits, patches, written, accepted, lost>>
        /\ c.pc = "newId"
    BY <1>7 DEF GetDocumentIdByPublicId
  <2>2. c2 \in Call /\ c2.id = c.id /\ Reached(c2) /\ Holding(c2)
    BY <1>1, <2>1 DEF Call, Reached, Holding, Deleting
  <2> HIDE DEF c2
  <2> QED BY <1>1, <2>1, <2>2, MoveStep
<1>8. CASE GetDocumentContentById(c) /\ ~Finish(c)
  <2> DEFINE c2 == [c EXCEPT !.content = docs[c.doc].content, !.pc = "update"]
  <2>1. /\ Move(c, c2) /\ category' = category
        /\ UNCHANGED <<open, docs, lock, faq, jobs, issued, edits, patches, written, accepted, lost>>
        /\ c.pc = "read"
    BY <1>8 DEF GetDocumentContentById
  <2>2. docs[c.doc].content \in SUBSET Requests
    BY <1>1, <2>1 DEF Reached, TypeOK, Row
  <2>3. c2 \in Call /\ c2.id = c.id /\ c2.pc = "update" /\ c2.doc = c.doc
        /\ c2.question = c.question
    BY <1>1, <2>2 DEF Call
  <2> HIDE DEF c2
  <2>4. Reached(c2) /\ Holding(c2)
    BY <1>1, <2>1, <2>3 DEF Reached, Holding, Deleting
  <2> QED BY <1>1, <2>1, <2>3, <2>4, MoveStep
<1> QED BY <1>2, <1>3, <1>4, <1>5, <1>6, <1>7, <1>8

-----------------------------------------------------------------------------
(* The steps that write *)

LEMMA AddStep ==
    ASSUME FaqInv, NEW c \in calls, AddDocument(c)
    PROVE  FaqInv'
<1>1. c \in Call /\ c.id \in Requests /\ TypeOK /\ Reached(c) /\ OneHandlerEach /\ calls \subseteq Call
  BY DEF FaqInv, TypeOK, Call
<1>2. PICK d \in Documents :
        /\ docs[d] = Absent
        /\ docs' = [docs EXCEPT ![d] = [Absent EXCEPT !.status = "Processing",
                                            !.ver = 1, !.content = {c.id}]]
        /\ Move(c, [c EXCEPT !.doc = d, !.ver = 1, !.pc = "newId"])
  BY DEF AddDocument
<1>3. /\ UNCHANGED <<open, category, lock, faq, jobs, issued, edits, patches, accepted, lost>>
      /\ written' = written \cup {c.id} /\ c.pc = "add"
  BY DEF AddDocument
<1> DEFINE c2 == [c EXCEPT !.doc = d, !.ver = 1, !.pc = "newId"]
<1>4. /\ c2 \in Call /\ c2.id = c.id /\ c2.pc = "newId" /\ c2.doc = d
      /\ c2.question = c.question /\ Move(c, c2)
  BY <1>1, <1>2 DEF Call
<1> HIDE DEF c2
<1>5. OthersStay(c, {c2}) /\ OneHandlerEach'
  BY <1>1, <1>4, MoveShape
<1>6. docs' \in [Documents -> Row]
  BY <1>1, <1>2 DEF TypeOK, Row, Absent
<1>7. TypeOK'
  BY <1>1, <1>3, <1>4, <1>6 DEF TypeOK, Move
<1>8. \A e \in Documents : e # d => docs'[e] = docs[e]
  BY <1>1, <1>2 DEF TypeOK
<1>9. \A e \in Documents : Active(e) => Active(e)'
  BY <1>2, <1>8 DEF Active, Absent
<1>10. KeepsLocks(c.id)
  BY <1>3, <1>9 DEF KeepsLocks
<1>11. FaqIsActive' /\ Answered'
  BY <1>1, <1>3, <1>9, AnsweredKeeps DEF FaqInv, FaqIsActive, TypeOK
<1>12. Reached(c2)' /\ Holding(c2)'
  BY <1>1, <1>3, <1>4 DEF Reached, Holding, Deleting
<1> QED BY <1>5, <1>7, <1>10, <1>11, <1>12, HandlerKeeps

LEMMA UpdateStep ==
    ASSUME FaqInv, NEW c \in calls, UpdateDocument(c)
    PROVE  FaqInv'
<1>1. c \in Call /\ c.id \in Requests /\ TypeOK /\ Reached(c) /\ OneHandlerEach /\ calls \subseteq Call
  BY DEF FaqInv, TypeOK, Call
<1>2. /\ UNCHANGED <<open, category, lock, faq, jobs, issued, edits, patches, accepted, lost>>
      /\ c.pc = "update"
  BY DEF UpdateDocument
<1>3. CASE Finish(c) /\ UNCHANGED <<docs, written>>
  BY <1>1, <1>2, <1>3, FinishStep DEF TypeOK
<1>4. CASE ~(Finish(c) /\ UNCHANGED <<docs, written>>)
  <2>1. c.doc \in Documents /\ docs[c.doc] \in Row /\ NewContent(c) \in SUBSET Requests
    BY <1>1, <1>2 DEF Reached, TypeOK, NewContent, Call
  <2>2. PICK ver \in Nat : ver = docs[c.doc].ver + 1
    BY <2>1 DEF Row
  <2> DEFINE c2 == [c EXCEPT !.ver = ver, !.pc = "queue"]
             row == [docs[c.doc] EXCEPT !.content = NewContent(c), !.status = "Processing",
                                        !.ver = ver]
  <2>3. /\ Active(c.doc) /\ docs' = [docs EXCEPT ![c.doc] = row]
        /\ MoveDisturbing(c, c2) /\ written' = written \cup {c.id}
    BY <1>4, <2>2 DEF UpdateDocument
  <2>4. row \in Row /\ row.status = "Processing" /\ row.deleted = docs[c.doc].deleted
    BY <2>1 DEF Row
  <2>5. /\ c2 \in Call /\ c2.id = c.id /\ c2.pc = "queue" /\ c2.doc = c.doc
        /\ c2.question = c.question
    BY <1>1 DEF Call
  <2> HIDE DEF c2, row
  <2>6. OthersStay(c, {c2}) /\ OneHandlerEach'
    BY <1>1, <2>3, <2>5, MoveShape
  <2>7. calls' \subseteq Call
    BY <2>5, <2>6 DEF OthersStay, StaysAs
  <2>8. docs' \in [Documents -> Row] /\ docs'[c.doc] = row
        /\ \A e \in Documents : e # c.doc => docs'[e] = docs[e]
    BY <1>1, <2>1, <2>3, <2>4 DEF TypeOK
  <2>9. TypeOK'
    BY <1>1, <1>2, <2>3, <2>7, <2>8 DEF TypeOK
  <2>10. \A e \in Documents : Active(e) => Active(e)'
    BY <2>4, <2>8 DEF Active
  <2>11. KeepsLocks(c.id)
    BY <1>2, <2>3, <2>10 DEF KeepsLocks
  <2>12. FaqIsActive' /\ Answered'
    BY <1>1, <1>2, <2>3, <2>10, AnsweredKeeps DEF FaqInv, FaqIsActive, TypeOK
  <2>13. Reached(c2)' /\ Holding(c2)'
    BY <1>1, <1>2, <2>1, <2>3, <2>5 DEF Reached, Holding, Deleting
  <2> QED BY <2>6, <2>9, <2>11, <2>12, <2>13, HandlerKeeps
<1> QED BY <1>3, <1>4

LEMMA LockStep ==
    ASSUME FaqInv, NEW c \in calls, NEW pc \in {"link", "deleteCheck"},
           c.doc \in Documents, c.question \in Questions \/ pc = "deleteCheck",
           pc = "link" => c.id \in written /\ Active(c.doc),
           LocksRow(c), Move(c, [c EXCEPT !.pc = pc]),
           UNCHANGED <<open, category, docs, faq, jobs, issued, edits, patches, written, accepted, lost>>
    PROVE  FaqInv'
<1>1. c \in Call /\ TypeOK /\ Reached(c) /\ OneHandlerEach /\ calls \subseteq Call
  BY DEF FaqInv, TypeOK, Call
<1> DEFINE c2 == [c EXCEPT !.pc = pc]
<1>2. /\ c2 \in Call /\ c2.id = c.id /\ c2.pc = pc /\ c2.doc = c.doc
      /\ c2.question = c.question /\ Move(c, c2)
  BY <1>1 DEF Call
<1> HIDE DEF c2
<1>3. OthersStay(c, {c2}) /\ OneHandlerEach'
  BY <1>1, <1>2, MoveShape
<1>4. /\ lock' \in [Documents -> Requests \cup {NoRequest}]
      /\ \A e \in Documents : lock[e] \notin {NoRequest, c.id} => lock'[e] = lock[e]
      /\ lock'[c.doc] = c.id
  BY <1>1, LockKeeps
<1>5. TypeOK'
  BY <1>1, <1>2, <1>4 DEF TypeOK, Move, Row
<1>6. KeepsLocks(c.id)
  BY <1>4 DEF KeepsLocks, Active
<1>7. FaqIsActive' /\ Answered'
  BY AnsweredKeeps DEF FaqInv, FaqIsActive, Active
<1>8. Reached(c2)' /\ Holding(c2)'
  BY <1>1, <1>2, <1>4 DEF Reached, Holding, Deleting, Active
<1> QED BY <1>3, <1>5, <1>6, <1>7, <1>8, HandlerKeeps

LEMMA LinkStep ==
    ASSUME FaqInv, NEW c \in calls, SetFaqDocumentId(c)
    PROVE  FaqInv'
<1>1. /\ c \in Call /\ TypeOK /\ Reached(c) /\ Holding(c) /\ OneHandlerEach
      /\ calls \subseteq Call
  BY DEF FaqInv, TypeOK, Call
<1>2. /\ UNCHANGED <<open, category, docs, jobs, issued, edits, patches, written, accepted, lost>>
      /\ c.pc = "link" /\ faq' = c.doc /\ Unlocks(c)
  BY DEF SetFaqDocumentId
<1> DEFINE c2 == [c EXCEPT !.pc = "queue"]
<1>3. /\ c2 \in Call /\ c2.id = c.id /\ c2.pc = "queue" /\ c2.doc = c.doc
      /\ c2.question = c.question /\ MoveDisturbing(c, c2)
  BY <1>1 DEF Call, SetFaqDocumentId
<1> HIDE DEF c2
<1>4. OthersStay(c, {c2}) /\ OneHandlerEach'
  BY <1>1, <1>3, MoveShape
<1>5. c.doc \in Documents /\ lock[c.doc] = c.id /\ Active(c.doc)
  BY <1>1, <1>2 DEF Reached, Holding
<1>6. /\ lock' \in [Documents -> Requests \cup {NoRequest}]
      /\ \A e \in Documents : lock[e] \notin {NoRequest, c.id} => lock'[e] = lock[e]
  BY <1>1, <1>2, UnlockKeeps
<1>7. calls' \subseteq Call
  BY <1>3, <1>4 DEF OthersStay, StaysAs
<1>8. TypeOK'
  BY <1>1, <1>2, <1>5, <1>6, <1>7 DEF TypeOK
<1>9. KeepsLocks(c.id)
  BY <1>2, <1>5, <1>6 DEF KeepsLocks, Active
<1>10. FaqIsActive' /\ Answered'
  BY <1>2, <1>5, AnsweredKeeps DEF FaqInv, FaqIsActive, Active
<1>11. Reached(c2)' /\ Holding(c2)'
  BY <1>1, <1>2, <1>3, <1>5 DEF Reached, Holding, Deleting
<1> QED BY <1>4, <1>8, <1>9, <1>10, <1>11, HandlerKeeps

LEMMA EnqueueStep ==
    ASSUME FaqInv, NEW c \in calls, Enqueue(c)
    PROVE  FaqInv'
<1>1. c \in Call /\ TypeOK /\ Reached(c) /\ OneHandlerEach /\ calls \subseteq Call
  BY DEF FaqInv, TypeOK, Call
<1>2. /\ UNCHANGED <<open, category, docs, lock, faq, issued, edits, patches, written, accepted>>
      /\ c.pc = "queue"
  BY DEF Enqueue
<1>3. c.doc \in Documents /\ QueuedVersion(c) \in Nat
  BY <1>1, <1>2 DEF Reached, QueuedVersion, Call
<1> DEFINE c2 == [c EXCEPT !.pc = "mark"]
<1>4. /\ c2 \in Call /\ c2.id = c.id /\ c2.pc = "mark" /\ c2.doc = c.doc
      /\ c2.question = c.question /\ Move(c, c2)
  BY <1>1 DEF Call, Enqueue
<1> HIDE DEF c2
<1>5. OthersStay(c, {c2}) /\ OneHandlerEach'
  BY <1>1, <1>4, MoveShape
<1>6. jobs' \subseteq Documents \X Nat /\ lost' \subseteq Documents \X Nat
  BY <1>1, <1>3 DEF Enqueue, QueuedVersion, TypeOK
<1>7. TypeOK'
  BY <1>1, <1>2, <1>4, <1>6 DEF TypeOK, Move, Row
<1>8. KeepsLocks(c.id)
  BY <1>2 DEF KeepsLocks, Active
<1>9. FaqIsActive' /\ Answered'
  BY <1>2, AnsweredKeeps DEF FaqInv, FaqIsActive, Active
<1>10. Reached(c2)' /\ Holding(c2)'
  BY <1>1, <1>2, <1>4 DEF Reached, Holding, Deleting
<1> QED BY <1>5, <1>7, <1>8, <1>9, <1>10, HandlerKeeps

LEMMA MarkStep ==
    ASSUME FaqInv, NEW c \in calls, MarkResolveQuestion(c)
    PROVE  FaqInv'
<1>1. c \in Call /\ TypeOK /\ Reached(c) /\ OneHandlerEach /\ calls \subseteq Call
  BY DEF FaqInv, TypeOK, Call
<1>2. /\ UNCHANGED <<category, docs, lock, faq, jobs, issued, edits, patches, written, lost>>
      /\ c.pc = "mark" /\ Finish(c) /\ open' = open \ {c.question}
      /\ accepted' = IF c.question \in open
                     THEN accepted \cup {<<c.id, c.question>>} ELSE accepted
  BY DEF MarkResolveQuestion, CountsAsMarked
<1>3. c.question \in Questions /\ c.id \in written /\ c.id \in Requests
  BY <1>1, <1>2 DEF Reached, Deleting, Call
<1>4. OthersStay(c, {}) /\ OneHandlerEach'
  BY <1>1, <1>2, FinishShape
<1>5. TypeOK'
  BY <1>1, <1>2, <1>3 DEF TypeOK, Finish, Row
<1>6. KeepsLocks(c.id) /\ FaqIsActive'
  BY <1>2 DEF KeepsLocks, Active, FaqInv, FaqIsActive
<1>7. Answered'
  <2>1. \A a \in accepted : a[2] \notin open
    BY DEF FaqInv, Answered
  <2>2. CASE c.question \in open
    <3> DEFINE b == <<c.id, c.question>>
    <3>1. accepted' = accepted \cup {b} /\ b[2] = c.question /\ b[1] \in written
      BY <1>2, <1>3, <2>2
    <3> HIDE DEF b
    <3>2. \A a \in accepted' : a[2] \notin open'
      BY <1>2, <2>1, <3>1
    <3>3. \A a \in accepted' : a[2] = c.question => a = b
      BY <2>1, <2>2, <3>1
    <3>4. ResolvedOnce'
      BY <1>2, <2>2, <3>1, <3>3 DEF FaqInv, Answered, ResolvedOnce
    <3> QED BY <3>2, <3>4 DEF Answered
  <2>3. CASE c.question \notin open
    BY <1>2, <2>3 DEF FaqInv, Answered, ResolvedOnce
  <2> QED BY <2>2, <2>3
<1> QED BY <1>4, <1>5, <1>6, <1>7, HandlerKeeps

LEMMA FailStep ==
    ASSUME FaqInv, NEW c \in calls, Fail(c)
    PROVE  FaqInv'
<1>1. category \in BOOLEAN /\ c \in Call /\ Reached(c) /\ lost \subseteq Documents \X Nat
  BY DEF FaqInv, TypeOK
<1>2. c.pc = "queue" => c.doc \in Documents /\ c.ver \in Nat
  BY <1>1 DEF Reached, Call
<1>3. lost' \subseteq Documents \X Nat
  BY <1>1, <1>2 DEF Fail
<1> QED BY <1>1, <1>3, FinishStep DEF Fail

LEMMA LockSteps ==
    ASSUME FaqInv, NEW c \in calls, LockForLink(c) \/ LockForDelete(c)
    PROVE  FaqInv'
<1>1. category \in BOOLEAN /\ Reached(c) /\ lost \subseteq Documents \X Nat
  BY DEF FaqInv, TypeOK
<1>2. CASE Finish(c) /\ UNCHANGED lock
  BY <1>1, <1>2, FinishStep DEF LockForLink, LockForDelete
<1>3. CASE LockForLink(c) /\ ~(Finish(c) /\ UNCHANGED lock)
  <2>1. /\ c.pc = "linkLock" /\ Active(c.doc) /\ LocksRow(c) /\ Move(c, [c EXCEPT !.pc = "link"])
        /\ UNCHANGED <<open, category, docs, faq, jobs, issued, edits, patches, written, accepted, lost>>
    BY <1>3 DEF LockForLink
  <2>2. c.doc \in Documents /\ c.question \in Questions /\ c.id \in written
    BY <1>1, <2>1 DEF Reached, Deleting
  <2> QED BY <2>1, <2>2, LockStep
<1>4. CASE LockForDelete(c)
  <2>1. /\ c.pc = "deleteLock" /\ LocksRow(c) /\ Move(c, [c EXCEPT !.pc = "deleteCheck"])
        /\ UNCHANGED <<open, category, docs, faq, jobs, issued, edits, patches, written, accepted, lost>>
    BY <1>4 DEF LockForDelete
  <2>2. c.doc \in Documents
    BY <1>1, <2>1 DEF Reached, Deleting
  <2> QED BY <2>1, <2>2, LockStep
<1> QED BY <1>2, <1>3, <1>4

LEMMA CheckStep ==
    ASSUME FaqInv, NEW c \in calls, CheckDelete(c)
    PROVE  FaqInv'
<1>1. /\ c \in Call /\ category \in BOOLEAN /\ lost \subseteq Documents \X Nat
      /\ Reached(c) /\ Holding(c)
  BY DEF FaqInv, TypeOK
<1>2. CASE Finish(c) /\ Unlocks(c)
  BY <1>1, <1>2, FinishStep DEF CheckDelete
<1>3. CASE ~(Finish(c) /\ Unlocks(c))
  <2> DEFINE c2 == [c EXCEPT !.pc = "deleteWrite"]
  <2>1. /\ c.pc = "deleteCheck" /\ ~IsSystemFaq(c.doc) /\ Move(c, c2)
        /\ UNCHANGED <<open, category, docs, lock, faq, jobs, issued, edits, patches, written, accepted, lost>>
    BY <1>3 DEF CheckDelete
  <2>2. /\ c2 \in Call /\ c2.id = c.id /\ c2.pc = "deleteWrite" /\ c2.doc = c.doc
        /\ c2.question = c.question
    BY <1>1 DEF Call
  <2> HIDE DEF c2
  <2>3. Reached(c2) /\ Holding(c2)
    BY <1>1, <2>1, <2>2 DEF Reached, Holding, Deleting, IsSystemFaq
  <2> QED BY <1>1, <2>1, <2>2, <2>3, MoveStep
<1> QED BY <1>2, <1>3

LEMMA DeleteStep ==
    ASSUME FaqInv, NEW c \in calls, SoftDelete(c)
    PROVE  FaqInv'
<1>1. /\ c \in Call /\ TypeOK /\ Reached(c) /\ Holding(c) /\ OneHandlerEach
      /\ calls \subseteq Call
  BY DEF FaqInv, TypeOK, Call
<1>2. /\ UNCHANGED <<open, category, faq, jobs, issued, edits, patches, written, accepted, lost>>
      /\ c.pc = "deleteWrite" /\ Finish(c) /\ Unlocks(c)
      /\ docs' = [docs EXCEPT ![c.doc].deleted = TRUE, ![c.doc].ver = @ + 1]
  BY DEF SoftDelete
<1>3. c.doc \in Documents /\ lock[c.doc] = c.id /\ faq # c.doc
  BY <1>1, <1>2 DEF Reached, Holding, Deleting
<1>5. OthersStay(c, {}) /\ OneHandlerEach'
  BY <1>1, <1>2, FinishShape
<1>6. /\ lock' \in [Documents -> Requests \cup {NoRequest}]
      /\ \A e \in Documents : lock[e] \notin {NoRequest, c.id} => lock'[e] = lock[e]
  BY <1>1, <1>2, UnlockKeeps
<1>7. docs' \in [Documents -> Row] /\ \A e \in Documents : e # c.doc => docs'[e] = docs[e]
  BY <1>1, <1>2, <1>3 DEF TypeOK, Row
<1>8. TypeOK'
  BY <1>1, <1>2, <1>6, <1>7 DEF TypeOK, Finish
<1>9. \A e \in Documents : e # c.doc /\ Active(e) => Active(e)'
  BY <1>7 DEF Active
<1>10. KeepsLocks(c.id)
  BY <1>2, <1>3, <1>6, <1>9 DEF KeepsLocks
<1>11. FaqIsActive' /\ Answered'
  BY <1>1, <1>2, <1>3, <1>9, AnsweredKeeps DEF FaqInv, FaqIsActive, TypeOK
<1> QED BY <1>5, <1>8, <1>10, <1>11, HandlerKeeps

-----------------------------------------------------------------------------
(* The author and the worker *)

LEMMA EditStep ==
    ASSUME FaqInv, NEW d \in Documents, EditDocument(d)
    PROVE  FaqInv'
<1>1. TypeOK /\ OneHandlerEach /\ calls \subseteq Call /\ docs[d] \in Row
  BY DEF FaqInv, TypeOK
<1> DEFINE F(c) == [c EXCEPT !.disturbed = TRUE]
<1>2. /\ UNCHANGED <<open, category, lock, faq, jobs, issued, written, accepted, lost>>
      /\ edits < MaxEdits /\ edits' = edits + 1 /\ Active(d)
      /\ docs' = [docs EXCEPT ![d].content = {}, ![d].status = "Processing", ![d].ver = @ + 1]
      /\ patches' = patches \cup {<<d, docs[d].ver + 1>>} /\ calls' = Disturb(calls)
  BY DEF EditDocument
<1>3. docs[d].ver + 1 \in Nat
  BY <1>1 DEF Row
<1>5. \A c \in calls : StaysAs(F(c), c)
  BY <1>1 DEF StaysAs, Call
<1>6. \A d2 \in calls' : \E c \in calls : d2 = F(c)
  BY <1>2 DEF Disturb
<1> HIDE DEF F
<1>7. \A d2 \in calls' : \E c \in calls : StaysAs(d2, c)
  BY <1>5, <1>6
<1>8. OneHandlerEach'
  BY <1>1, <1>5, <1>6 DEF OneHandlerEach, StaysAs
<1>9. /\ docs' \in [Documents -> Row] /\ docs'[d].status = "Processing"
      /\ \A e \in Documents : /\ e # d => docs'[e] = docs[e]
                             /\ docs'[e].deleted = docs[e].deleted
  BY <1>1, <1>2 DEF TypeOK, Row
<1>10. calls' \subseteq Call
  BY <1>7 DEF StaysAs
<1>11. edits' \in 0 .. MaxEdits /\ patches' \subseteq Documents \X Nat
  BY <1>1, <1>2, <1>3, FaqAssumption DEF TypeOK
<1>12. TypeOK'
  BY <1>1, <1>2, <1>9, <1>10, <1>11 DEF TypeOK
<1>13. \A e \in Documents : Active(e) => Active(e)'
  BY <1>9 DEF Active
<1>14. KeepsLocks(NoRequest) /\ FaqIsActive' /\ Answered'
  BY <1>1, <1>2, <1>13, AnsweredKeeps DEF KeepsLocks, FaqInv, FaqIsActive, TypeOK
<1> QED BY <1>7, <1>8, <1>12, <1>14, OutsiderKeeps

\* A job, or an edit that could not be queued, settles the row or leaves it.
LEMMA SettleStep ==
    ASSUME FaqInv, NEW j, j[1] \in Documents,
           UNCHANGED <<open, category, lock, faq, calls, issued, edits, written, accepted>>,
           jobs' \cup patches' \cup lost' \subseteq jobs \cup patches \cup lost,
           \/ UNCHANGED docs
           \/ \E s \in {"Ready", "Failed"} :
                docs' = [docs EXCEPT ![j[1]].status = s, ![j[1]].ver = @ + 1]
    PROVE  FaqInv'
<1>1. TypeOK /\ OneHandlerEach
  BY DEF FaqInv, TypeOK
<1>3. /\ docs' \in [Documents -> Row]
      /\ \A e \in Documents : Active(e) => Active(e)'
  <2>1. CASE UNCHANGED docs
    BY <1>1, <2>1 DEF TypeOK, Active
  <2>2. CASE ~UNCHANGED docs
    <3>1. PICK s \in {"Ready", "Failed"} :
            docs' = [docs EXCEPT ![j[1]].status = s, ![j[1]].ver = @ + 1]
      BY <2>2
    <3>2. /\ docs' \in [Documents -> Row] /\ docs'[j[1]].status = s
          /\ \A e \in Documents : /\ e # j[1] => docs'[e] = docs[e]
                                  /\ docs'[e].deleted = docs[e].deleted
      BY <1>1, <3>1 DEF TypeOK, Row
    <3> QED BY <3>2 DEF Active
  <2> QED BY <2>1, <2>2
<1>4. TypeOK'
  BY <1>1, <1>3 DEF TypeOK
<1>5. KeepsLocks(NoRequest) /\ FaqIsActive' /\ Answered'
  BY <1>1, <1>3, AnsweredKeeps DEF KeepsLocks, FaqInv, FaqIsActive, TypeOK
<1>6. \A c \in calls : StaysAs(c, c)
  BY <1>1 DEF StaysAs, TypeOK
<1> QED BY <1>1, <1>4, <1>5, <1>6, OutsiderKeeps DEF OneHandlerEach

LEMMA IngestStep ==
    ASSUME FaqInv, NEW j \in jobs, Ingest(j)
    PROVE  FaqInv'
<1>1. j[1] \in Documents
  BY DEF FaqInv, TypeOK
<1>2. /\ UNCHANGED <<open, category, lock, faq, calls, issued, edits, patches, written, accepted, lost>>
      /\ jobs' = jobs \ {j}
      /\ \/ UNCHANGED docs
         \/ \E s \in {"Ready", "Failed"} :
              docs' = [docs EXCEPT ![j[1]].status = s, ![j[1]].ver = @ + 1]
  BY DEF Ingest
<1> QED BY <1>1, <1>2, SettleStep

LEMMA PatchSteps ==
    ASSUME FaqInv, NEW e \in patches, EnqueueEdit(e) \/ FailEnqueueSnapshot(e) \/ LoseEdit(e)
    PROVE  FaqInv'
<1>1. e[1] \in Documents
  BY DEF FaqInv, TypeOK
<1>2. UNCHANGED <<open, category, lock, faq, calls, issued, edits, written, accepted>>
  BY DEF EnqueueEdit, FailEnqueueSnapshot, LoseEdit
<1>3. jobs' \cup patches' \cup lost' \subseteq jobs \cup patches \cup lost
  BY DEF EnqueueEdit, FailEnqueueSnapshot, LoseEdit
<1>4. \/ UNCHANGED docs
      \/ docs' = [docs EXCEPT ![e[1]].status = "Failed", ![e[1]].ver = @ + 1]
  BY DEF EnqueueEdit, FailEnqueueSnapshot, LoseEdit
<1> QED BY <1>1, <1>2, <1>3, <1>4, SettleStep

-----------------------------------------------------------------------------
LEMMA FaqInit == Init => FaqInv
<1> SUFFICES ASSUME Init PROVE FaqInv
  OBVIOUS
<1>1. docs \in [Documents -> Row] /\ lock \in [Documents -> Requests \cup {NoRequest}]
  BY DEF Init, Row, Absent
<1>2. faq \in Documents \cup {NoDocument} /\ edits \in 0 .. MaxEdits
  BY FaqAssumption DEF Init
<1>3. TypeOK
  BY <1>1, <1>2 DEF Init, TypeOK
<1> QED BY <1>3 DEF Init, FaqInv, FaqIsActive, OneHandlerEach, Answered, ResolvedOnce

LEMMA FaqStep == FaqInv /\ [Next]_vars => FaqInv'
<1> SUFFICES ASSUME FaqInv, [Next]_vars PROVE FaqInv'
  OBVIOUS
<1>1. CASE \E r \in Requests : \E q \in Questions : StartResolve(r, q)
  BY <1>1, IssueStep DEF StartResolve
<1>2. CASE \E r \in Requests : \E d \in Documents : StartDelete(r, d)
  BY <1>2, IssueStep DEF StartDelete
<1>3. ASSUME NEW c \in calls,
             \/ ReadQuestion(c) \/ ReadCategory(c) \/ CreateFaqCategory(c)
             \/ GetFaqDocumentId(c) \/ AddDocument(c) \/ GetDocumentIdByPublicId(c)
             \/ LockForLink(c) \/ SetFaqDocumentId(c)
             \/ GetDocumentContentById(c) \/ UpdateDocument(c)
             \/ Enqueue(c) \/ MarkResolveQuestion(c) \/ Fail(c)
             \/ LockForDelete(c) \/ CheckDelete(c) \/ SoftDelete(c)
      PROVE  FaqInv'
  BY <1>3, ReadSteps, AddStep, UpdateStep, LinkStep, EnqueueStep, MarkStep, FailStep,
     LockSteps, CheckStep, DeleteStep
<1>4. CASE \E d \in Documents : EditDocument(d)
  BY <1>4, EditStep
<1>5. CASE \E j \in jobs : Ingest(j)
  BY <1>5, IngestStep
<1>7. CASE \E e \in patches : EnqueueEdit(e) \/ FailEnqueueSnapshot(e) \/ LoseEdit(e)
  BY <1>7, PatchSteps
<1>6. CASE UNCHANGED vars
  <2> USE <1>6 DEF vars
  <2>1. TypeOK' /\ FaqIsActive' /\ OneHandlerEach' /\ Answered'
    BY DEF FaqInv, TypeOK, FaqIsActive, Active, OneHandlerEach, Answered, ResolvedOnce
  <2>2. \A c \in calls : Reached(c)' /\ Holding(c)'
    BY DEF FaqInv, Reached, Holding, Active
  <2> QED BY <2>1, <2>2 DEF FaqInv
<1> QED BY <1>1, <1>2, <1>3, <1>4, <1>5, <1>6, <1>7 DEF Next

LEMMA FaqAlways == Spec => []FaqInv
BY FaqInit, FaqStep, PTL DEF Spec

(***************************************************************************)
(* Every variable keeps its type, whatever handlers, authors and the       *)
(* worker do.                                                              *)
(***************************************************************************)
THEOREM TypeCorrect == Spec => []TypeOK
<1>1. FaqInv => TypeOK
  BY DEF FaqInv
<1> QED BY <1>1, FaqAlways, PTL

(***************************************************************************)
(* The space never links a deleted document (setFaqDocumentId,             *)
(* softDeleteDocument): the row lock decides between the two.              *)
(***************************************************************************)
THEOREM LinkIsNeverDeleted == Spec => []FaqIsActive
<1>1. FaqInv => FaqIsActive
  BY DEF FaqInv
<1> QED BY <1>1, FaqAlways, PTL

(***************************************************************************)
(* A question that is closed was closed by one editor, who had written     *)
(* his answer (resolveUnansweredQuestionAsync, markResolveQuestion).       *)
(***************************************************************************)
THEOREM AnsweredByOne == Spec => []ResolvedOnce
<1>1. FaqInv => ResolvedOnce
  BY DEF FaqInv, Answered
<1> QED BY <1>1, FaqAlways, PTL

-----------------------------------------------------------------------------
(* The linked document is queued, and an undisturbed answer loses nothing. *)

Linking == {"newId", "linkLock", "link"}

\* Versions that are queued, are yet to be queued by who edited, or were lost.
Pending == jobs \cup patches \cup lost

\* An active document is not Processing for want of a job.
Queued(d) ==
    Active(d) /\ docs[d].status = "Processing" =>
        \/ <<d, docs[d].ver>> \in Pending
        \/ \E c \in calls : c.pc = "queue" /\ c.doc = d /\ c.ver = docs[d].ver

\* Until it is linked a new document may also be one whose creator has yet to queue it.
LinkRight(c) ==
    c.pc \in Linking => /\ docs[c.doc].status # "None"
                        /\ Queued(c.doc) \/ docs[c.doc].ver = c.ver

\* What an undisturbed handler knows of the link and the text is so.
ReadRight(c) ==
    c.pc \in {"read", "update"} /\ ~c.disturbed =>
        /\ faq \in Documents /\ c.doc = faq
        /\ c.pc = "update" => c.content = docs[faq].content

TextInv ==
    /\ FaqInv
    /\ faq # NoDocument => Queued(faq)
    /\ \A c \in calls : LinkRight(c) /\ ReadRight(c)

\* The same handler, but for what has disturbed it.
Alike(d2, d) ==
    /\ d2.id = d.id /\ d2.pc = d.pc /\ d2.doc = d.doc /\ d2.ver = d.ver /\ d2.content = d.content
    /\ d.disturbed => d2.disturbed

\* Each handler but those of C goes on, and none is new but those of C2.
GoOn(C, C2) ==
    /\ \A d \in calls \ C : \E d2 \in calls' : Alike(d2, d)
    /\ \A d2 \in calls' : d2 \in C2 \/ \E d \in calls : Alike(d2, d)

LEMMA MovesOn ==
    ASSUME calls \subseteq Call, NEW c \in calls, NEW c2, Move(c, c2) \/ MoveDisturbing(c, c2)
    PROVE  /\ GoOn({c}, {c2}) /\ c2 \in calls'
           /\ MoveDisturbing(c, c2) => \A d2 \in calls' : d2 = c2 \/ d2.disturbed
<1>1. CASE Move(c, c2) /\ ~MoveDisturbing(c, c2)
  BY <1>1 DEF Move, GoOn, Alike
<1>2. CASE MoveDisturbing(c, c2)
  <2> DEFINE F(d) == [d EXCEPT !.disturbed = TRUE]
  <2>1. \A d \in calls : Alike(F(d), d) /\ F(d).disturbed
    BY DEF Alike, Call
  <2>2. \A d2 : d2 \in calls' <=> d2 = c2 \/ \E d \in calls : d # c /\ d2 = F(d)
    BY <1>2 DEF MoveDisturbing, Disturb
  <2> HIDE DEF F
  <2> QED BY <2>1, <2>2 DEF GoOn
<1> QED BY <1>1, <1>2

\* What a step leaves of a document.
Stays(d) ==
    docs[d].status # "None" =>
        /\ docs'[d].status # "None"
        /\ Queued(d) => Queued(d)'
        /\ docs'[d].ver = docs[d].ver \/ Queued(d)'

LEMMA RowStays ==
    ASSUME NEW d \in Documents, docs'[d] = docs[d],
           <<d, docs[d].ver>> \in Pending => <<d, docs[d].ver>> \in Pending',
           \A c \in calls : c.pc = "queue" /\ c.doc = d =>
               (\E c2 \in calls' : Alike(c2, c)) \/ <<d, c.ver>> \in Pending'
    PROVE  Stays(d)
BY DEF Stays, Queued, Active, Alike

LEMMA TextKeeps ==
    ASSUME TextInv, FaqInv', NEW C2,
           \A d \in Documents : Stays(d),
           faq' = faq \/ Queued(faq)', NEW C, GoOn(C, C2),
           \A c2 \in C2 : LinkRight(c2)' /\ ReadRight(c2)',
           \/ faq' = faq /\ (faq \in Documents => docs'[faq].content = docs[faq].content)
           \/ \A d2 \in calls' : d2.disturbed \/ d2.pc \notin {"read", "update"}
    PROVE  TextInv'
<1>1. faq # NoDocument => faq \in Documents /\ docs[faq].status # "None"
  BY DEF TextInv, FaqInv, TypeOK, FaqIsActive, Active
<1>2. faq' # NoDocument => Queued(faq)'
  <2>1. CASE faq' = faq
    <3> SUFFICES ASSUME faq' # NoDocument PROVE Queued(faq)'
      OBVIOUS
    <3>1. PICK f \in Documents : f = faq /\ f = faq'
      BY <1>1, <2>1
    <3>2. Queued(f)'
      BY <1>1, <3>1 DEF TextInv, Stays
    <3> QED BY <3>1, <3>2 DEF Queued, Active
  <2>2. CASE Queued(faq)'
    BY <2>2
  <2> QED BY <2>1, <2>2
<1>3. ASSUME NEW d \in calls, NEW d2 \in calls', Alike(d2, d)
      PROVE  LinkRight(d2)' /\ ReadRight(d2)'
  <2>1. LinkRight(d) /\ ReadRight(d) /\ (d.pc \in Linking => d.doc \in Documents)
    BY DEF TextInv, FaqInv, Reached, Linking
  <2>2. LinkRight(d2)'
    <3> SUFFICES ASSUME d2.pc \in Linking
                 PROVE  docs'[d2.doc].status # "None" /\ (Queued(d2.doc)' \/ docs'[d2.doc].ver = d2.ver)
      BY DEF LinkRight
    <3>1. d.doc = d2.doc /\ d.ver = d2.ver /\ d.pc \in Linking
      BY <1>3 DEF Alike
    <3>2. Stays(d2.doc)
      BY <2>1, <3>1
    <3>3. docs[d2.doc].status # "None" /\ (Queued(d2.doc) \/ docs[d2.doc].ver = d2.ver)
      BY <2>1, <3>1 DEF LinkRight
    <3> QED BY <3>2, <3>3 DEF Stays
  <2>3. ReadRight(d2)'
    BY <1>3, <2>1 DEF ReadRight, Alike
  <2> QED BY <2>2, <2>3
<1>4. \A d2 \in calls' : LinkRight(d2)' /\ ReadRight(d2)'
  BY <1>3 DEF GoOn
<1> QED BY <1>2, <1>4 DEF TextInv

-----------------------------------------------------------------------------
\* Nothing but the handlers has changed.
LEMMA QuietKeeps ==
    ASSUME TextInv, FaqInv', NEW C, NEW C2, GoOn(C, C2), \A c \in C : c.pc # "queue",
           UNCHANGED <<docs, faq, jobs, patches, lost>>,
           \A c2 \in C2 : LinkRight(c2)' /\ ReadRight(c2)'
    PROVE  TextInv'
<1>1. \A d \in Documents : Stays(d)
  BY RowStays DEF GoOn, Pending
<1> QED BY <1>1, TextKeeps

LEMMA MoveQuiet ==
    ASSUME TextInv, FaqInv', NEW c \in calls, c.pc # "queue", NEW c2, Move(c, c2),
           UNCHANGED <<docs, faq, jobs, patches, lost>>,
           c2.pc \in Linking => c.pc \in Linking /\ c2.doc = c.doc /\ c2.ver = c.ver,
           ReadRight(c2)
    PROVE  TextInv'
<1>1. GoOn({c}, {c2})
  BY MovesOn DEF TextInv, FaqInv, TypeOK
<1>2. \A d \in Documents : Stays(d)
  BY <1>1, RowStays DEF GoOn, Pending
<1>3. LinkRight(c)
  BY DEF TextInv
<1>4. c.pc \in Linking => c.doc \in Documents
  BY DEF TextInv, FaqInv, Reached, Linking
<1>5. LinkRight(c2)'
  <2> SUFFICES ASSUME c2.pc \in Linking
               PROVE  docs'[c2.doc].status # "None" /\ (Queued(c2.doc)' \/ docs'[c2.doc].ver = c2.ver)
    BY DEF LinkRight
  <2>1. Stays(c2.doc)
    BY <1>2, <1>4
  <2>2. docs[c2.doc].status # "None" /\ (Queued(c2.doc) \/ docs[c2.doc].ver = c2.ver)
    BY <1>3 DEF LinkRight
  <2> QED BY <2>1, <2>2 DEF Stays
<1>6. ReadRight(c2)'
  BY DEF ReadRight
<1> QED BY <1>1, <1>5, <1>6, QuietKeeps

LEMMA FinishQuiet ==
    ASSUME TextInv, FaqInv', NEW c \in calls, c.pc # "queue", Finish(c),
           UNCHANGED <<docs, faq, jobs, patches, lost>>
    PROVE  TextInv'
<1>1. GoOn({c}, {})
  BY DEF GoOn, Finish, Alike
<1> QED BY <1>1, QuietKeeps

LEMMA IssueQuiet ==
    ASSUME TextInv, FaqInv', NEW r, NEW q, NEW d, NEW pc \in {"question", "deleteLock"},
           Issue(r, q, d, pc)
    PROVE  TextInv'
<1> DEFINE c == [id |-> r, question |-> q, doc |-> d, ver |-> 0,
                 content |-> {}, disturbed |-> FALSE, pc |-> pc]
<1>1. calls' = calls \cup {c} /\ UNCHANGED <<docs, faq, jobs, patches, lost>> /\ c.pc = pc
  BY DEF Issue
<1> HIDE DEF c
<1>2. GoOn({}, {c})
  BY <1>1 DEF GoOn, Alike
<1>3. LinkRight(c)' /\ ReadRight(c)'
  BY <1>1 DEF LinkRight, ReadRight, Linking
<1> QED BY <1>1, <1>2, <1>3, QuietKeeps

LEMMA HandlersRead ==
    ASSUME TextInv, FaqInv', NEW c \in calls,
           \/ ReadQuestion(c) \/ ReadCategory(c) \/ CreateFaqCategory(c) \/ GetFaqDocumentId(c)
           \/ GetDocumentIdByPublicId(c) \/ LockForLink(c) \/ GetDocumentContentById(c)
           \/ MarkResolveQuestion(c) \/ Fail(c) \/ LockForDelete(c) \/ CheckDelete(c)
    PROVE  TextInv'
<1>1. c \in Call /\ LinkRight(c) /\ ReadRight(c) /\ faq \in Documents \cup {NoDocument}
  BY DEF TextInv, FaqInv, TypeOK
<1>2. CASE Finish(c) /\ c.pc # "queue" /\ UNCHANGED <<docs, faq, jobs, patches, lost>>
  BY <1>2, FinishQuiet
<1>3. CASE ReadQuestion(c) \/ ReadCategory(c) \/ CreateFaqCategory(c)
  <2>1. \/ Finish(c) \/ Move(c, [c EXCEPT !.pc = "category"])
        \/ Move(c, [c EXCEPT !.pc = "faqId"]) \/ Move(c, [c EXCEPT !.pc = "newCategory"])
    BY <1>3 DEF ReadQuestion, ReadCategory, CreateFaqCategory
  <2>2. c.pc # "queue" /\ UNCHANGED <<docs, faq, jobs, patches, lost>>
    BY <1>3 DEF ReadQuestion, ReadCategory, CreateFaqCategory
  <2>3. ASSUME NEW p \in {"category", "faqId", "newCategory"}, Move(c, [c EXCEPT !.pc = p])
        PROVE  TextInv'
    <3> DEFINE c2 == [c EXCEPT !.pc = p]
    <3>1. c2.pc = p
      BY <1>1 DEF Call
    <3>2. Move(c, c2)
      BY <2>3
    <3> HIDE DEF c2
    <3> QED BY <2>2, <3>1, <3>2, MoveQuiet DEF Linking, ReadRight
  <2> QED BY <1>2, <2>1, <2>2, <2>3
<1>4. CASE GetFaqDocumentId(c)
  <2> DEFINE p == IF faq = NoDocument THEN "add" ELSE "read"
             c2 == [c EXCEPT !.doc = faq, !.disturbed = FALSE, !.pc = p]
  <2>1. c2.pc = p /\ c2.doc = faq
    BY <1>1 DEF Call
  <2>2. Move(c, c2) /\ c.pc # "queue" /\ UNCHANGED <<docs, faq, jobs, patches, lost>>
    BY <1>4 DEF GetFaqDocumentId
  <2> HIDE DEF c2
  <2>3. c2.pc \notin Linking /\ ReadRight(c2)
    BY <1>1, <2>1 DEF Linking, ReadRight
  <2> QED BY <2>2, <2>3, MoveQuiet
<1>5. CASE GetDocumentIdByPublicId(c) \/ LockForLink(c)
  <2>1. \/ Finish(c) \/ Move(c, [c EXCEPT !.pc = "linkLock"]) \/ Move(c, [c EXCEPT !.pc = "link"])
    BY <1>5 DEF GetDocumentIdByPublicId, LockForLink
  <2>2. c.pc \in Linking /\ UNCHANGED <<docs, faq, jobs, patches, lost>>
    BY <1>5 DEF GetDocumentIdByPublicId, LockForLink, Linking
  <2>3. ASSUME NEW p \in {"linkLock", "link"}, Move(c, [c EXCEPT !.pc = p])
        PROVE  TextInv'
    <3> DEFINE c2 == [c EXCEPT !.pc = p]
    <3>1. c2.pc = p /\ c2.doc = c.doc /\ c2.ver = c.ver
      BY <1>1 DEF Call
    <3>2. Move(c, c2)
      BY <2>3
    <3> HIDE DEF c2
    <3>3. c.pc # "queue" /\ ReadRight(c2)
      BY <2>2, <3>1 DEF Linking, ReadRight
    <3> QED BY <2>2, <3>1, <3>2, <3>3, MoveQuiet
  <2> QED BY <1>2, <2>1, <2>2, <2>3 DEF Linking
<1>6. CASE GetDocumentContentById(c)
  <2>1. c.pc = "read" /\ UNCHANGED <<docs, faq, jobs, patches, lost>>
    BY <1>6 DEF GetDocumentContentById
  <2>2. Finish(c) \/ Move(c, [c EXCEPT !.content = docs[c.doc].content, !.pc = "update"])
    BY <1>6 DEF GetDocumentContentById
  <2>3. CASE Move(c, [c EXCEPT !.content = docs[c.doc].content, !.pc = "update"])
    <3> DEFINE c2 == [c EXCEPT !.content = docs[c.doc].content, !.pc = "update"]
    <3>1. c2.pc = "update" /\ c2.doc = c.doc /\ c2.content = docs[c.doc].content
          /\ c2.disturbed = c.disturbed
      BY <1>1 DEF Call
    <3>2. Move(c, c2)
      BY <2>3
    <3> HIDE DEF c2
    <3>3. c2.pc \notin Linking /\ ReadRight(c2)
      BY <1>1, <2>1, <3>1 DEF Linking, ReadRight
    <3> QED BY <2>1, <3>2, <3>3, MoveQuiet
  <2> QED BY <1>2, <2>1, <2>2, <2>3
<1>7. CASE MarkResolveQuestion(c) \/ (Fail(c) /\ c.pc # "queue")
  BY <1>2, <1>7 DEF MarkResolveQuestion, Fail
<1>9. CASE Fail(c) /\ c.pc = "queue"
  <2>1. /\ Finish(c) /\ lost' = lost \cup {<<c.doc, c.ver>>}
        /\ UNCHANGED <<docs, faq, jobs, patches>>
    BY <1>9 DEF Fail
  <2>2. GoOn({c}, {})
    BY <2>1 DEF GoOn, Finish, Alike
  <2>3. \A d \in Documents : Stays(d)
    BY <2>1, <2>2, RowStays DEF GoOn, Pending
  <2> QED BY <2>1, <2>2, <2>3, TextKeeps
<1>8. CASE LockForDelete(c) \/ CheckDelete(c)
  <2>1. \/ Finish(c) \/ Move(c, [c EXCEPT !.pc = "deleteCheck"]) \/ Move(c, [c EXCEPT !.pc = "deleteWrite"])
    BY <1>8 DEF LockForDelete, CheckDelete
  <2>2. c.pc # "queue" /\ UNCHANGED <<docs, faq, jobs, patches, lost>>
    BY <1>8 DEF LockForDelete, CheckDelete
  <2>3. ASSUME NEW p \in {"deleteCheck", "deleteWrite"}, Move(c, [c EXCEPT !.pc = p])
        PROVE  TextInv'
    <3> DEFINE c2 == [c EXCEPT !.pc = p]
    <3>1. c2.pc = p
      BY <1>1 DEF Call
    <3>2. Move(c, c2)
      BY <2>3
    <3> HIDE DEF c2
    <3> QED BY <2>2, <3>1, <3>2, MoveQuiet DEF Linking, ReadRight
  <2> QED BY <1>2, <2>1, <2>2, <2>3
<1> QED BY <1>3, <1>4, <1>5, <1>6, <1>7, <1>8, <1>9

\* A document that is created is queued by its creator, once linked.
LEMMA CreatedIsRight ==
    ASSUME TextInv, FaqInv', NEW c \in calls, AddDocument(c)
    PROVE  TextInv'
<1>1. c \in Call /\ docs \in [Documents -> Row] /\ calls \subseteq Call
  BY DEF TextInv, FaqInv, TypeOK
<1>2. PICK d \in Documents :
        /\ docs[d] = Absent
        /\ docs' = [docs EXCEPT ![d] = [Absent EXCEPT !.status = "Processing", !.ver = 1,
                                            !.content = {c.id}]]
        /\ Move(c, [c EXCEPT !.doc = d, !.ver = 1, !.pc = "newId"])
  BY DEF AddDocument
<1>3. c.pc = "add" /\ UNCHANGED <<faq, jobs, patches, lost>>
  BY DEF AddDocument
<1>4. PICK c2 : c2 = [c EXCEPT !.doc = d, !.ver = 1, !.pc = "newId"]
  OBVIOUS
<1>5. Move(c, c2) /\ c2.doc = d /\ c2.ver = 1 /\ c2.pc = "newId"
  BY <1>1, <1>2, <1>4 DEF Call
<1>6. /\ docs[d].status = "None" /\ docs'[d].status = "Processing" /\ docs'[d].ver = 1
      /\ \A e \in Documents : e # d => docs'[e] = docs[e]
  BY <1>1, <1>2 DEF Absent
<1>7. GoOn({c}, {c2})
  BY <1>1, <1>5, MovesOn
<1>8. \A e \in Documents : Stays(e)
  <2>1. ASSUME NEW e \in Documents, e # d PROVE Stays(e)
    BY <1>3, <1>6, <1>7, <2>1, RowStays DEF GoOn, Pending
  <2> QED BY <1>6, <2>1 DEF Stays
<1>9. LinkRight(c2)' /\ ReadRight(c2)'
  BY <1>5, <1>6 DEF LinkRight, ReadRight
<1>10. faq \in Documents => faq # d
  BY <1>6, FaqAssumption DEF TextInv, FaqInv, FaqIsActive, Active, NoDocument, Documents
<1>11. faq' = faq /\ (faq \in Documents => docs'[faq].content = docs[faq].content)
  BY <1>3, <1>6, <1>10
<1> QED BY <1>7, <1>8, <1>9, <1>11, TextKeeps

\* The creator that links a document has its queueing before it.
LEMMA LinkedIsRight ==
    ASSUME TextInv, FaqInv', NEW c \in calls, SetFaqDocumentId(c)
    PROVE  TextInv'
<1>1. c \in Call /\ calls \subseteq Call /\ c.doc \in Documents /\ LinkRight(c) /\ c.pc = "link"
  BY DEF TextInv, FaqInv, TypeOK, Reached, SetFaqDocumentId
<1>0. PICK c2 : c2 = [c EXCEPT !.pc = "queue"]
  OBVIOUS
<1>2. c2.doc = c.doc /\ c2.ver = c.ver /\ c2.pc = "queue"
  BY <1>0, <1>1 DEF Call
<1>3. faq' = c.doc /\ MoveDisturbing(c, c2) /\ UNCHANGED <<docs, jobs, patches, lost>>
  BY <1>0 DEF SetFaqDocumentId
<1>4. GoOn({c}, {c2}) /\ c2 \in calls' /\ \A d2 \in calls' : d2 = c2 \/ d2.disturbed
  BY <1>1, <1>3, MovesOn
<1>5. \A d \in Documents : Stays(d)
  BY <1>1, <1>3, <1>4, RowStays DEF GoOn, Pending
<1>6. docs[c.doc].status # "None" /\ (Queued(c.doc) \/ docs[c.doc].ver = c.ver)
  BY <1>1 DEF LinkRight, Linking
<1>7. Queued(c.doc)'
  <2>1. CASE Queued(c.doc)
    BY <1>1, <1>5, <1>6, <2>1 DEF Stays
  <2>2. CASE docs[c.doc].ver = c.ver
    BY <1>2, <1>3, <1>4, <2>2 DEF Queued
  <2> QED BY <1>6, <2>1, <2>2
<1>8. Queued(faq)'
  BY <1>3, <1>7 DEF Queued, Active
<1>9. LinkRight(c2)' /\ ReadRight(c2)'
  BY <1>2 DEF LinkRight, ReadRight, Linking
<1>10. \A d2 \in calls' : d2.disturbed \/ d2.pc \notin {"read", "update"}
  BY <1>2, <1>4
<1> QED BY <1>4, <1>5, <1>8, <1>9, <1>10, TextKeeps

\* So has the handler that writes a later answer; and it disturbs the others.
LEMMA UpdatedIsRight ==
    ASSUME TextInv, FaqInv', NEW c \in calls, UpdateDocument(c)
    PROVE  TextInv'
<1>1. /\ c \in Call /\ calls \subseteq Call /\ docs \in [Documents -> Row]
      /\ c.doc \in Documents /\ c.pc = "update" /\ docs[c.doc] \in Row
  BY DEF TextInv, FaqInv, TypeOK, Reached, UpdateDocument
<1>2. CASE ~Active(c.doc)
  BY <1>1, <1>2, FinishQuiet DEF UpdateDocument
<1>3. CASE Active(c.doc)
  <2>0. PICK v, c2, r :
          /\ v = docs[c.doc].ver + 1
          /\ c2 = [c EXCEPT !.ver = v, !.pc = "queue"]
          /\ r = [docs[c.doc] EXCEPT !.content = NewContent(c), !.status = "Processing", !.ver = v]
    OBVIOUS
  <2>1. c2.doc = c.doc /\ c2.ver = v /\ c2.pc = "queue"
    BY <1>1, <2>0 DEF Call
  <2>2. r.status = "Processing" /\ r.ver = v
    BY <1>1, <2>0 DEF Row
  <2>3. docs' = [docs EXCEPT ![c.doc] = r] /\ MoveDisturbing(c, c2) /\ UNCHANGED <<faq, jobs, patches, lost>>
    BY <1>3, <2>0 DEF UpdateDocument
  <2>4. GoOn({c}, {c2}) /\ c2 \in calls' /\ \A d2 \in calls' : d2 = c2 \/ d2.disturbed
    BY <1>1, <2>3, MovesOn
  <2>5. docs'[c.doc] = r /\ \A e \in Documents : e # c.doc => docs'[e] = docs[e]
    BY <1>1, <2>3
  <2>6. Queued(c.doc)'
    BY <2>1, <2>2, <2>4, <2>5 DEF Queued
  <2>7. \A d \in Documents : Stays(d)
    <3>1. ASSUME NEW e \in Documents, e # c.doc PROVE Stays(e)
      BY <1>1, <2>3, <2>4, <2>5, <3>1, RowStays DEF GoOn, Pending
    <3> QED BY <2>2, <2>5, <2>6, <3>1 DEF Stays
  <2>8. LinkRight(c2)' /\ ReadRight(c2)'
    BY <2>1 DEF LinkRight, ReadRight, Linking
  <2>9. \A d2 \in calls' : d2.disturbed \/ d2.pc \notin {"read", "update"}
    BY <2>1, <2>4
  <2> QED BY <2>3, <2>4, <2>7, <2>8, <2>9, TextKeeps
<1> QED BY <1>2, <1>3

LEMMA QueuedIsRight ==
    ASSUME TextInv, FaqInv', NEW c \in calls, Enqueue(c)
    PROVE  TextInv'
<1>1. c \in Call /\ calls \subseteq Call /\ c.pc = "queue" /\ UNCHANGED <<docs, faq>>
  BY DEF TextInv, FaqInv, TypeOK, Enqueue
<1>0. PICK c2 : c2 = [c EXCEPT !.pc = "mark"]
  OBVIOUS
<1>2. c2.pc = "mark" /\ Move(c, c2)
  BY <1>0, <1>1 DEF Call, Enqueue
<1>3. GoOn({c}, {c2})
  BY <1>1, <1>2, MovesOn
<1>4. Pending \subseteq Pending' /\ <<c.doc, c.ver>> \in Pending'
  BY DEF Enqueue, QueuedVersion, Pending
<1>5. \A d \in Documents : Stays(d)
  BY <1>1, <1>3, <1>4, RowStays DEF GoOn, Pending
<1>6. LinkRight(c2)' /\ ReadRight(c2)'
  BY <1>2 DEF LinkRight, ReadRight, Linking
<1> QED BY <1>1, <1>3, <1>5, <1>6, TextKeeps

LEMMA DeletedIsRight ==
    ASSUME TextInv, FaqInv', NEW c \in calls, SoftDelete(c)
    PROVE  TextInv'
<1>1. /\ docs \in [Documents -> Row] /\ c.doc \in Documents /\ c.pc = "deleteWrite"
      /\ docs[c.doc] \in Row /\ Finish(c) /\ UNCHANGED <<faq, jobs, patches, lost>>
      /\ docs' = [docs EXCEPT ![c.doc].deleted = TRUE, ![c.doc].ver = @ + 1]
  BY DEF TextInv, FaqInv, TypeOK, Reached, Deleting, SoftDelete
<1>2. /\ docs'[c.doc].deleted /\ docs'[c.doc].status = docs[c.doc].status
      /\ docs'[c.doc].content = docs[c.doc].content
      /\ \A e \in Documents : e # c.doc => docs'[e] = docs[e]
  BY <1>1 DEF Row
<1>3. GoOn({c}, {})
  BY <1>1 DEF GoOn, Finish, Alike
<1>4. \A d \in Documents : Stays(d)
  <2>1. ASSUME NEW e \in Documents, e # c.doc PROVE Stays(e)
    BY <1>1, <1>2, <1>3, <2>1, RowStays DEF GoOn, Pending
  <2> QED BY <1>2, <2>1 DEF Stays, Queued, Active
<1>5. faq \in Documents => docs'[faq].content = docs[faq].content
  BY <1>2
<1> QED BY <1>1, <1>3, <1>4, <1>5, TextKeeps

LEMMA EditedIsRight ==
    ASSUME TextInv, FaqInv', NEW d \in Documents, EditDocument(d)
    PROVE  TextInv'
<1>1. /\ docs \in [Documents -> Row] /\ docs[d] \in Row /\ calls \subseteq Call
      /\ docs' = [docs EXCEPT ![d].content = {}, ![d].status = "Processing", ![d].ver = @ + 1]
      /\ patches' = patches \cup {<<d, docs[d].ver + 1>>} /\ calls' = Disturb(calls)
      /\ UNCHANGED <<faq, jobs, lost>>
  BY DEF TextInv, FaqInv, TypeOK, EditDocument
<1>2. /\ docs'[d].status = "Processing" /\ docs'[d].ver = docs[d].ver + 1
      /\ \A e \in Documents : e # d => docs'[e] = docs[e]
  BY <1>1 DEF Row
<1>3. GoOn({}, {}) /\ \A d2 \in calls' : d2.disturbed
  <2> DEFINE F(e) == [e EXCEPT !.disturbed = TRUE]
  <2>1. \A e \in calls : Alike(F(e), e) /\ F(e).disturbed
    BY <1>1 DEF Alike, Call
  <2>2. \A e2 : e2 \in calls' <=> \E e \in calls : e2 = F(e)
    BY <1>1 DEF Disturb
  <2> HIDE DEF F
  <2> QED BY <2>1, <2>2 DEF GoOn
<1>4. \A e \in Documents : Stays(e)
  <2>1. ASSUME NEW e \in Documents, e # d PROVE Stays(e)
    BY <1>1, <1>2, <1>3, <2>1, RowStays DEF GoOn, Pending
  <2>2. Queued(d)'
    BY <1>1, <1>2 DEF Queued, Pending
  <2> QED BY <1>2, <2>1, <2>2 DEF Stays
<1> QED BY <1>1, <1>3, <1>4, TextKeeps

\* One that fits the row settles it; one that does not was not what it needs.
LEMMA SettledIsRight ==
    ASSUME TextInv, FaqInv', NEW j \in Documents \X Nat, UNCHANGED <<faq, calls>>,
           Pending \subseteq Pending' \cup {j},
           IF JobFits(j)
           THEN \E s \in {"Ready", "Failed"} :
                    docs' = [docs EXCEPT ![j[1]].status = s, ![j[1]].ver = @ + 1]
           ELSE UNCHANGED docs
    PROVE  TextInv'
<1>1. docs \in [Documents -> Row] /\ j[1] \in Documents /\ docs[j[1]] \in Row
  BY DEF TextInv, FaqInv, TypeOK
<1>2. GoOn({}, {})
  BY <1>1 DEF GoOn, Alike
<1>3. ASSUME NEW d \in Documents, docs'[d] = docs[d], j # <<d, docs[d].ver>> PROVE Stays(d)
  BY <1>1, <1>2, <1>3, RowStays DEF GoOn
<1>4. CASE JobFits(j)
  <2>1. PICK s \in {"Ready", "Failed"} :
          docs' = [docs EXCEPT ![j[1]].status = s, ![j[1]].ver = @ + 1]
    BY <1>4
  <2>2. /\ docs'[j[1]].status = s /\ docs'[j[1]].content = docs[j[1]].content
        /\ \A e \in Documents : e # j[1] => docs'[e] = docs[e]
    BY <1>1, <2>1 DEF Row
  <2>3. \A d \in Documents : Stays(d)
    <3>1. ASSUME NEW e \in Documents, e # j[1] PROVE Stays(e)
      <4>1. j # <<e, docs[e].ver>>
        BY <3>1
      <4> QED BY <1>3, <2>2, <3>1, <4>1
    <3> QED BY <2>2, <3>1 DEF Stays, Queued
  <2>4. faq \in Documents => docs'[faq].content = docs[faq].content
    BY <2>2
  <2> QED BY <1>1, <1>2, <2>3, <2>4, TextKeeps
<1>5. CASE ~JobFits(j)
  <2>1. docs' = docs
    BY <1>5
  <2>2. \A d \in Documents : Stays(d)
    <3>1. ASSUME NEW e \in Documents, j = <<e, docs[e].ver>> PROVE Stays(e)
      <4>1. ~(Active(e) /\ docs[e].status = "Processing")
        BY <1>5, <3>1 DEF JobFits
      <4> QED BY <2>1, <4>1 DEF Stays, Queued, Active
    <3> QED BY <1>3, <2>1, <3>1
  <2> QED BY <1>1, <1>2, <2>1, <2>2, TextKeeps
<1> QED BY <1>4, <1>5

LEMMA IngestedIsRight ==
    ASSUME TextInv, FaqInv', NEW j \in jobs, Ingest(j)
    PROVE  TextInv'
<1>1. j \in Documents \X Nat
  BY DEF TextInv, FaqInv, TypeOK
<1>2. UNCHANGED <<faq, calls>> /\ Pending \subseteq Pending' \cup {j}
  BY DEF Ingest, Pending
<1> QED BY <1>1, <1>2, SettledIsRight DEF Ingest

\* An edit is queued, or its version settled, or lost.
LEMMA PatchedIsRight ==
    ASSUME TextInv, FaqInv', NEW e \in patches,
           EnqueueEdit(e) \/ FailEnqueueSnapshot(e) \/ LoseEdit(e)
    PROVE  TextInv'
<1>1. e \in Documents \X Nat
  BY DEF TextInv, FaqInv, TypeOK
<1>2. CASE FailEnqueueSnapshot(e)
  <2>1. UNCHANGED <<faq, calls>> /\ Pending \subseteq Pending' \cup {e}
    BY <1>2 DEF FailEnqueueSnapshot, Pending
  <2>2. IF JobFits(e)
        THEN docs' = [docs EXCEPT ![e[1]].status = "Failed", ![e[1]].ver = @ + 1]
        ELSE UNCHANGED docs
    BY <1>2 DEF FailEnqueueSnapshot
  <2> QED BY <1>1, <2>1, <2>2, SettledIsRight
<1>3. CASE EnqueueEdit(e) \/ LoseEdit(e)
  <2>1. UNCHANGED <<docs, faq, calls>> /\ Pending \subseteq Pending'
    BY <1>3 DEF EnqueueEdit, LoseEdit, Pending
  <2>2. GoOn({}, {})
    BY <2>1 DEF GoOn, Alike
  <2>3. \A d \in Documents : Stays(d)
    BY <2>1, <2>2, RowStays DEF GoOn
  <2> QED BY <2>1, <2>2, <2>3, TextKeeps
<1> QED BY <1>2, <1>3

LEMMA TextInit == Init => TextInv
BY FaqInit DEF Init, TextInv

LEMMA TextStep == TextInv /\ [Next]_vars => TextInv'
<1> SUFFICES ASSUME TextInv, [Next]_vars PROVE TextInv'
  OBVIOUS
<1>1. FaqInv'
  BY FaqStep DEF TextInv
<1>2. CASE \E r \in Requests : \E q \in Questions : StartResolve(r, q)
  BY <1>1, <1>2, IssueQuiet DEF StartResolve
<1>3. CASE \E r \in Requests : \E d \in Documents : StartDelete(r, d)
  BY <1>1, <1>3, IssueQuiet DEF StartDelete
<1>4. ASSUME NEW c \in calls,
             \/ ReadQuestion(c) \/ ReadCategory(c) \/ CreateFaqCategory(c)
             \/ GetFaqDocumentId(c) \/ AddDocument(c) \/ GetDocumentIdByPublicId(c)
             \/ LockForLink(c) \/ SetFaqDocumentId(c)
             \/ GetDocumentContentById(c) \/ UpdateDocument(c)
             \/ Enqueue(c) \/ MarkResolveQuestion(c) \/ Fail(c)
             \/ LockForDelete(c) \/ CheckDelete(c) \/ SoftDelete(c)
      PROVE  TextInv'
  BY <1>1, <1>4, HandlersRead, CreatedIsRight, LinkedIsRight, UpdatedIsRight, QueuedIsRight, DeletedIsRight
<1>5. CASE \E d \in Documents : EditDocument(d)
  BY <1>1, <1>5, EditedIsRight
<1>6. CASE \E j \in jobs : Ingest(j)
  BY <1>1, <1>6, IngestedIsRight
<1>8. CASE \E e \in patches : EnqueueEdit(e) \/ FailEnqueueSnapshot(e) \/ LoseEdit(e)
  BY <1>1, <1>8, PatchedIsRight
<1>7. CASE UNCHANGED vars
  <2>1. UNCHANGED <<docs, faq, jobs, patches, lost, calls>>
    BY <1>7 DEF vars
  <2>2. GoOn({}, {})
    BY <2>1 DEF GoOn, Alike
  <2> QED BY <1>1, <2>1, <2>2, QuietKeeps
<1> QED BY <1>2, <1>3, <1>4, <1>5, <1>6, <1>7, <1>8 DEF Next

LEMMA TextAlways == Spec => []TextInv
BY TextInit, TextStep, PTL DEF Spec

(***************************************************************************)
(* The space's FAQ document does not stay Processing for want of a job,    *)
(* unless that very version was lost between its commit and the queue,     *)
(* however creations, links, later answers, edits, their rollbacks and the *)
(* worker cross (ingestFaqDocument, failEnqueueSnapshot).                  *)
(***************************************************************************)
THEOREM LinkedIsQueued == Spec => []FaqIsQueued
<1>1. TextInv => FaqIsQueued
  BY DEF TextInv, FaqIsQueued, Queued, Pending, FaqInv, FaqIsActive
<1> QED BY <1>1, TextAlways, PTL

(***************************************************************************)
(* Between an undisturbed handler's look at the link and its write nothing *)
(* comes: the linked document then holds every answer it held, and the new *)
(* one (appendToFaqDocument, updateDocument).                              *)
(***************************************************************************)
THEOREM UndisturbedAddsItsAnswer == Spec => UndisturbedLosesNothing
<1> DEFINE Adds ==
      \A c \in calls :
        (c.pc = "update" /\ ~c.disturbed /\ c.id \in written' \ written)
        => docs'[faq'].content = docs[faq].content \cup {c.id}
<1>1. TextInv /\ [Next]_vars => [Adds]_vars
  <2> SUFFICES ASSUME TextInv, Next, NEW c \in calls,
                      c.pc = "update", ~c.disturbed, c.id \in written' \ written
               PROVE  docs'[faq'].content = docs[faq].content \cup {c.id}
    OBVIOUS
  <2>1. PICK e \in calls : AddDocument(e) \/ UpdateDocument(e)
    BY DEF Next, StartResolve, StartDelete, Issue, ReadQuestion, ReadCategory, CreateFaqCategory,
       GetFaqDocumentId, GetDocumentIdByPublicId, LockForLink, SetFaqDocumentId, GetDocumentContentById,
       Enqueue, MarkResolveQuestion, Fail, LockForDelete, CheckDelete, SoftDelete, EditDocument,
       EnqueueEdit, FailEnqueueSnapshot, LoseEdit, Ingest
  <2>2. written' \subseteq written \cup {e.id}
    BY <2>1 DEF AddDocument, UpdateDocument
  <2>3. e = c
    BY <2>2 DEF TextInv, FaqInv, OneHandlerEach
  <2>4. UpdateDocument(c) /\ Active(c.doc)
    BY <2>1, <2>3 DEF AddDocument, UpdateDocument
  <2>5. /\ faq \in Documents /\ c.doc = faq /\ c.content = docs[faq].content
        /\ docs \in [Documents -> Row] /\ docs[faq] \in Row
    BY DEF TextInv, ReadRight, FaqInv, TypeOK
  <2> DEFINE r == [docs[c.doc] EXCEPT !.content = NewContent(c), !.status = "Processing",
                                      !.ver = docs[c.doc].ver + 1]
  <2>6. docs' = [docs EXCEPT ![c.doc] = r]
    BY <2>4 DEF UpdateDocument
  <2>7. r.content = NewContent(c)
    BY <2>5 DEF Row
  <2> HIDE DEF r
  <2>8. docs'[faq'] = r
    BY <2>4, <2>5, <2>6 DEF UpdateDocument
  <2> QED BY <2>5, <2>7, <2>8 DEF NewContent
<1> QED BY <1>1, TextAlways, PTL DEF Spec, UndisturbedLosesNothing

-----------------------------------------------------------------------------
(* ChatTurn.                                                               *)
(*                                                                         *)
(* A turn that found no title goes on to ask for one, and one that found a *)
(* title found what stays; so the turn of each answer in a session without *)
(* a title pursues one, until it has failed.                               *)

TurnTypes ==
    /\ sessions \in [Sessions -> T!Row] /\ messages \in [Sessions -> Seq(T!Message)]
    /\ turnCalls \subseteq T!Call /\ titleJobs \subseteq T!Job

\* The session holds an answer of turn r.
AnswerOf(s, r) ==
    \E i \in DOMAIN messages[s] : messages[s][i].role = "Assistant" /\ messages[s][i].turn = r

AsksForTitle(c) == c.first /\ c.pc \in {"sources", "title"}

Pursues(s, r) ==
    \/ r \in untold
    \/ \E c \in turnCalls : c.session = s /\ c.id = r /\ AsksForTitle(c)
    \/ \E j \in titleJobs : j.session = s /\ j.turn = r

\* What a turn has read of its session.
TurnRight(c) ==
    c.pc # "session" => /\ c.first = c.early
                        /\ c.first \/ sessions[c.session].title # Untitled

TurnInv ==
    /\ TurnTypes
    /\ \A c \in turnCalls : TurnRight(c)
    /\ \A j \in titleJobs : j.early
    /\ \A s \in Sessions : \A r \in Requests :
          AnswerOf(s, r) /\ sessions[s].title = Untitled => Pursues(s, r)

TurnAssumption == Untitled \notin Requests /\ Nobody \notin Users

LEMMA TurnConstants == TurnAssumption
BY PartsAssumption DEF TurnAssumption, T!ChatAssumption

LEMMA TurnInit == T!Init => TurnInv
BY DEF T!Init, TurnInv, TurnTypes, T!Row, AnswerOf

\* A turn goes on, having said something or nothing.
LEMMA TurnMoves ==
    ASSUME TurnInv, NEW c \in turnCalls, NEW c2 \in T!Call, T!Move(c, c2),
           UNCHANGED <<sessions, titleJobs, untold>>,
           messages' \in [Sessions -> Seq(T!Message)],
           c2.session = c.session, c2.id = c.id, TurnRight(c2),
           AsksForTitle(c) => AsksForTitle(c2),
           \A s \in Sessions : \A r \in Requests : AnswerOf(s, r)' =>
               \/ AnswerOf(s, r)
               \/ /\ s = c.session /\ r = c2.id
                  /\ AsksForTitle(c2) \/ sessions[s].title # Untitled
    PROVE  TurnInv'
<1>1. TurnTypes'
  BY DEF TurnInv, TurnTypes, T!Move
<1>2. \A d \in turnCalls' : TurnRight(d)'
  BY DEF TurnInv, T!Move, TurnRight
<1>3. \A s \in Sessions : \A r \in Requests : Pursues(s, r) => Pursues(s, r)'
  BY DEF Pursues, T!Move
<1>4. AsksForTitle(c2) => Pursues(c.session, c2.id)'
  BY DEF Pursues, T!Move
<1>5. ASSUME NEW s \in Sessions, NEW r \in Requests, AnswerOf(s, r)', sessions'[s].title = Untitled
      PROVE  Pursues(s, r)'
  <2>1. CASE AnswerOf(s, r)
    BY <1>3, <1>5, <2>1 DEF TurnInv
  <2>2. CASE ~AnswerOf(s, r)
    BY <1>4, <1>5, <2>2
  <2> QED BY <2>1, <2>2
<1> QED BY <1>1, <1>2, <1>5 DEF TurnInv

LEMMA TurnMovesSilently ==
    ASSUME TurnInv, NEW c \in turnCalls, NEW c2 \in T!Call, T!Move(c, c2),
           UNCHANGED <<sessions, messages, titleJobs, untold>>,
           c2.session = c.session, c2.id = c.id, TurnRight(c2),
           AsksForTitle(c) => AsksForTitle(c2)
    PROVE  TurnInv'
<1>1. \A s \in Sessions : \A r \in Requests : AnswerOf(s, r)' => AnswerOf(s, r)
  BY DEF AnswerOf
<1>2. messages' \in [Sessions -> Seq(T!Message)]
  BY DEF TurnInv, TurnTypes
<1> QED BY <1>1, <1>2, TurnMoves

\* One that ends while it asks for a title has failed.
LEMMA TurnEnds ==
    ASSUME TurnInv, NEW c \in turnCalls, T!Finish(c), UNCHANGED <<sessions, messages>>,
           titleJobs \subseteq titleJobs', titleJobs' \subseteq T!Job, \A j \in titleJobs' : j.early,
           untold \subseteq untold',
           \/ ~AsksForTitle(c) \/ c.id \in untold'
           \/ \E j \in titleJobs' : j.session = c.session /\ j.turn = c.id
    PROVE  TurnInv'
<1>1. TurnTypes' /\ \A d \in turnCalls' : TurnRight(d)'
  BY DEF TurnInv, TurnTypes, T!Finish, TurnRight
<1>2. \A s \in Sessions : \A r \in Requests :
        (AnswerOf(s, r)' => AnswerOf(s, r)) /\ (Pursues(s, r) => Pursues(s, r)')
  BY DEF AnswerOf, Pursues, T!Finish
<1> QED BY <1>1, <1>2 DEF TurnInv

\* Sessions come and go; titles stay.
LEMMA SessionsChange ==
    ASSUME TurnInv, NEW u \in Users, NEW s \in Sessions,
           T!CreateSession(u, s) \/ T!SoftDeleteSession(u, s)
    PROVE  TurnInv'
<1>1. /\ UNCHANGED <<messages, turnCalls, titleJobs, untold>>
      /\ sessions' = [sessions EXCEPT ![s].owner = u] \/ sessions' = [sessions EXCEPT ![s].deleted = TRUE]
  BY DEF T!CreateSession, T!SoftDeleteSession
<1>2. /\ sessions' \in [Sessions -> T!Row]
      /\ \A t \in Sessions : sessions'[t].title = sessions[t].title
  <2>0. sessions \in [Sessions -> T!Row] /\ sessions[s] \in T!Row
    BY DEF TurnInv, TurnTypes
  <2>1. CASE sessions' = [sessions EXCEPT ![s].owner = u]
    BY <2>0, <2>1 DEF T!Row
  <2>2. CASE sessions' = [sessions EXCEPT ![s].deleted = TRUE]
    BY <2>0, <2>2 DEF T!Row
  <2> QED BY <1>1, <2>1, <2>2
<1>3. TurnTypes'
  BY <1>1, <1>2 DEF TurnInv, TurnTypes
<1>4. \A c \in turnCalls' : TurnRight(c)'
  BY <1>1, <1>2 DEF TurnInv, TurnTypes, TurnRight, T!Call
<1>5. \A t \in Sessions : \A r \in Requests :
        (AnswerOf(t, r)' => AnswerOf(t, r)) /\ (Pursues(t, r) => Pursues(t, r)')
  BY <1>1 DEF AnswerOf, Pursues
<1> QED BY <1>1, <1>2, <1>3, <1>4, <1>5 DEF TurnInv

LEMMA TurnComes ==
    ASSUME TurnInv, NEW r \in Requests, NEW u \in Users, NEW s \in Sessions, T!StartTurn(r, u, s)
    PROVE  TurnInv'
<1>1. PICK c : c = [id |-> r, user |-> u, session |-> s, first |-> FALSE,
                    early |-> FALSE, kind |-> "none", pc |-> "session"]
  OBVIOUS
<1>2. c \in T!Call /\ c.pc = "session"
  BY <1>1 DEF T!Call
<1>3. turnCalls' = turnCalls \cup {c} /\ UNCHANGED <<sessions, messages, titleJobs, untold>>
  BY <1>1 DEF T!StartTurn
<1>4. TurnTypes' /\ \A d \in turnCalls' : TurnRight(d)'
  BY <1>2, <1>3 DEF TurnInv, TurnTypes, TurnRight
<1>5. \A t \in Sessions : \A q \in Requests :
        (AnswerOf(t, q)' => AnswerOf(t, q)) /\ (Pursues(t, q) => Pursues(t, q)')
  BY <1>3 DEF AnswerOf, Pursues
<1> QED BY <1>3, <1>4, <1>5 DEF TurnInv

LEMMA TurnReads ==
    ASSUME TurnInv, NEW c \in turnCalls,
           \/ T!ReadSession(c) \/ T!ReserveQuestion(c) \/ T!Answer(c) \/ T!AddUnansweredQuestion(c)
           \/ T!AddAnswerSources(c) \/ T!FailTurn(c)
    PROVE  TurnInv'
<1>1. c \in T!Call /\ TurnRight(c)
  BY DEF TurnInv, TurnTypes
<1>11. titleJobs \subseteq T!Job /\ \A j \in titleJobs : j.early
  BY DEF TurnInv, TurnTypes
<1>2. CASE T!ReadSession(c)
  <2>0. UNCHANGED <<sessions, messages, titleJobs, untold>> /\ c.pc = "session"
    BY <1>2 DEF T!ReadSession
  <2>1. PICK b, c2 : /\ b = (sessions[c.session].title = Untitled)
                     /\ c2 = [c EXCEPT !.first = b, !.pc = "reserve", !.early = b]
    OBVIOUS
  <2>2. b \in BOOLEAN
    BY <2>1
  <2>3. /\ c2 \in T!Call /\ c2.session = c.session /\ c2.id = c.id /\ c2.pc = "reserve"
        /\ c2.first = b /\ c2.early = b
    BY <1>1, <2>1, <2>2 DEF T!Call
  <2>4. CASE T!Move(c, c2)
    <3>1. TurnRight(c2) /\ ~AsksForTitle(c)
      BY <2>0, <2>1, <2>3 DEF TurnRight, AsksForTitle
    <3> QED BY <2>0, <2>3, <2>4, <3>1, TurnMovesSilently
  <2>5. CASE T!Finish(c)
    BY <1>11, <2>0, <2>5, TurnEnds DEF AsksForTitle
  <2> QED BY <1>2, <2>1, <2>4, <2>5 DEF T!ReadSession, T!IsFirstTurn
<1>3. ASSUME NEW k \in {"none", "smallTalk", "answered", "noContext"},
             NEW p \in {"question", "record", "reply", "title"},
             T!Move(c, [c EXCEPT !.kind = k, !.pc = p]), c.pc # "session",
             UNCHANGED <<sessions, messages, titleJobs, untold>>, AsksForTitle(c) => p = "title"
      PROVE  TurnInv'
  <2>1. PICK c2 : c2 = [c EXCEPT !.kind = k, !.pc = p]
    OBVIOUS
  <2>2. /\ c2 \in T!Call /\ c2.session = c.session /\ c2.id = c.id /\ c2.pc = p
        /\ c2.first = c.first /\ c2.early = c.early
    BY <1>1, <2>1 DEF T!Call
  <2>3. TurnRight(c2) /\ (AsksForTitle(c) => AsksForTitle(c2))
    BY <1>1, <1>3, <2>2 DEF TurnRight, AsksForTitle
  <2> QED BY <1>3, <2>1, <2>2, <2>3, TurnMovesSilently
<1>4. \A p : [c EXCEPT !.pc = p] = [c EXCEPT !.kind = c.kind, !.pc = p]
  BY <1>1 DEF T!Call
<1>5. c.kind \in {"none", "smallTalk", "answered", "noContext"}
  BY <1>1 DEF T!Call
<1>6. CASE T!ReserveQuestion(c)
  <2>1. UNCHANGED <<sessions, messages, titleJobs, untold>> /\ c.pc = "reserve" /\ ~AsksForTitle(c)
    BY <1>6 DEF T!ReserveQuestion, AsksForTitle
  <2>2. T!Move(c, [c EXCEPT !.pc = "question"]) \/ T!Finish(c)
    BY <1>6 DEF T!ReserveQuestion
  <2>3. CASE T!Move(c, [c EXCEPT !.pc = "question"])
    <3>1. T!Move(c, [c EXCEPT !.kind = c.kind, !.pc = "question"])
      BY <1>4, <2>3
    <3> QED BY <1>3, <1>5, <2>1, <3>1
  <2> QED BY <1>11, <2>1, <2>2, <2>3, TurnEnds
<1>7. CASE T!Answer(c)
  <2>1. UNCHANGED <<sessions, messages, titleJobs, untold>> /\ c.pc = "answer" /\ ~AsksForTitle(c)
    BY <1>7 DEF T!Answer, AsksForTitle
  <2>2. PICK k \in {"smallTalk", "answered", "noContext"}, p \in {"record", "reply"} :
          T!Move(c, [c EXCEPT !.kind = k, !.pc = p])
    BY <1>7 DEF T!Answer
  <2> QED BY <1>3, <2>1, <2>2
<1>8. CASE T!AddUnansweredQuestion(c)
  <2>1. UNCHANGED <<sessions, messages, titleJobs, untold>> /\ c.pc = "record" /\ ~AsksForTitle(c)
    BY <1>8 DEF T!AddUnansweredQuestion, AsksForTitle
  <2>2. T!Move(c, [c EXCEPT !.kind = c.kind, !.pc = "reply"])
    BY <1>4, <1>8 DEF T!AddUnansweredQuestion
  <2> QED BY <1>3, <1>5, <2>1, <2>2
<1>9. CASE T!AddAnswerSources(c)
  <2>1. UNCHANGED <<sessions, messages, titleJobs, untold>> /\ c.pc = "sources"
    BY <1>9 DEF T!AddAnswerSources
  <2>2. T!Move(c, [c EXCEPT !.kind = c.kind, !.pc = "title"])
    BY <1>4, <1>9 DEF T!AddAnswerSources
  <2> QED BY <1>3, <1>5, <2>1, <2>2
<1>10. CASE T!FailTurn(c)
  <2>1. /\ T!Finish(c) /\ UNCHANGED <<sessions, messages, titleJobs>> /\ untold \subseteq untold'
        /\ AsksForTitle(c) => c.id \in untold'
    BY <1>10 DEF T!FailTurn, AsksForTitle
  <2> QED BY <1>11, <2>1, TurnEnds
<1> QED BY <1>2, <1>6, <1>7, <1>8, <1>9, <1>10

\* What is said is said in the session of the turn.
LEMMA Saying ==
    ASSUME TurnTypes, NEW c \in turnCalls, NEW role \in {"User", "Assistant"}, T!Said(c, role)
    PROVE  /\ messages' \in [Sessions -> Seq(T!Message)]
           /\ \A s \in Sessions : \A r \in Requests : AnswerOf(s, r)' =>
                AnswerOf(s, r) \/ (s = c.session /\ r = c.id /\ role = "Assistant")
<1>1. c.session \in Sessions /\ c.id \in Requests /\ messages \in [Sessions -> Seq(T!Message)]
  BY DEF TurnTypes, T!Call
<1>2. PICK m : m = [turn |-> c.id, role |-> role]
  OBVIOUS
<1>3. m \in T!Message /\ m.role = role /\ m.turn = c.id
  BY <1>1, <1>2 DEF T!Message
<1>4. messages' = [messages EXCEPT ![c.session] = Append(messages[c.session], m)]
  BY <1>2 DEF T!Said
<1>5. messages[c.session] \in Seq(T!Message) /\ Append(messages[c.session], m) \in Seq(T!Message)
  BY <1>1, <1>3
<1>6. messages' \in [Sessions -> Seq(T!Message)]
  BY <1>1, <1>4, <1>5
<1>7. ASSUME NEW s \in Sessions, NEW r \in Requests, AnswerOf(s, r)', s # c.session
      PROVE  AnswerOf(s, r)
  BY <1>1, <1>4, <1>7 DEF AnswerOf
<1>8. ASSUME NEW r \in Requests, AnswerOf(c.session, r)', role # "Assistant" \/ r # c.id
      PROVE  AnswerOf(c.session, r)
  <2>1. messages'[c.session] = Append(messages[c.session], m)
    BY <1>1, <1>4
  <2>2. PICK i \in DOMAIN messages'[c.session] :
          messages'[c.session][i].role = "Assistant" /\ messages'[c.session][i].turn = r
    BY <1>8 DEF AnswerOf
  <2>3. i \in 1 .. Len(messages[c.session]) + 1 /\ i # Len(messages[c.session]) + 1
    BY <1>3, <1>5, <1>8, <2>1, <2>2
  <2>4. i \in DOMAIN messages[c.session] /\ messages'[c.session][i] = messages[c.session][i]
    BY <1>3, <1>5, <2>1, <2>3
  <2> QED BY <2>2, <2>4 DEF AnswerOf
<1> QED BY <1>6, <1>7, <1>8

LEMMA TurnSays ==
    ASSUME TurnInv, NEW c \in turnCalls, T!AddQuestion(c) \/ T!AddReply(c)
    PROVE  TurnInv'
<1>1. c \in T!Call /\ TurnRight(c) /\ TurnTypes
  BY DEF TurnInv, TurnTypes
<1>2. CASE T!AddQuestion(c)
  <2>1. c.pc = "question" /\ T!Said(c, "User") /\ UNCHANGED <<sessions, titleJobs, untold>>
    BY <1>2 DEF T!AddQuestion
  <2>2. PICK c2 : c2 = [c EXCEPT !.pc = "answer"]
    OBVIOUS
  <2>3. /\ c2 \in T!Call /\ c2.session = c.session /\ c2.id = c.id /\ c2.pc = "answer"
        /\ c2.first = c.first /\ c2.early = c.early /\ T!Move(c, c2)
    BY <1>1, <1>2, <2>2 DEF T!Call, T!AddQuestion
  <2>4. TurnRight(c2) /\ ~AsksForTitle(c)
    BY <1>1, <2>1, <2>3 DEF TurnRight, AsksForTitle
  <2>5. /\ messages' \in [Sessions -> Seq(T!Message)]
        /\ \A s \in Sessions : \A r \in Requests : AnswerOf(s, r)' => AnswerOf(s, r)
    BY <1>1, <2>1, Saying
  <2> QED BY <2>1, <2>3, <2>4, <2>5, TurnMoves
<1>3. CASE T!AddReply(c)
  <2>1. c.pc = "reply" /\ T!Said(c, "Assistant") /\ UNCHANGED <<sessions, titleJobs, untold>>
    BY <1>3 DEF T!AddReply
  <2>2. PICK p, c2 : /\ p = (IF c.kind = "answered" THEN "sources" ELSE "title")
                     /\ c2 = [c EXCEPT !.pc = p]
    OBVIOUS
  <2>3. T!Move(c, c2)
    BY <1>3, <2>2 DEF T!AddReply
  <2>4. /\ c2 \in T!Call /\ c2.session = c.session /\ c2.id = c.id /\ c2.pc \in {"sources", "title"}
        /\ c2.first = c.first /\ c2.early = c.early
    BY <1>1, <2>2 DEF T!Call
  <2>5. /\ TurnRight(c2) /\ ~AsksForTitle(c)
        /\ AsksForTitle(c2) \/ sessions[c.session].title # Untitled
    BY <1>1, <2>1, <2>4 DEF TurnRight, AsksForTitle
  <2>6. /\ messages' \in [Sessions -> Seq(T!Message)]
        /\ \A s \in Sessions : \A r \in Requests :
             AnswerOf(s, r)' => AnswerOf(s, r) \/ (s = c.session /\ r = c.id)
    BY <1>1, <2>1, Saying
  <2>7. \A s \in Sessions : \A r \in Requests : AnswerOf(s, r)' =>
          \/ AnswerOf(s, r)
          \/ s = c.session /\ r = c2.id /\ (AsksForTitle(c2) \/ sessions[s].title # Untitled)
    BY <2>4, <2>5, <2>6
  <2> QED BY <2>1, <2>3, <2>4, <2>5, <2>6, <2>7, TurnMoves
<1> QED BY <1>2, <1>3

\* A title is set: the others of the session are only more right.
LEMMA TitleIsSet ==
    ASSUME TurnInv, NEW s \in Sessions, NEW r \in Requests,
           sessions' = [sessions EXCEPT ![s].title = r],
           turnCalls' \subseteq turnCalls, titleJobs' \subseteq titleJobs,
           \A c \in turnCalls \ turnCalls' : c.session = s,
           \A j \in titleJobs \ titleJobs' : j.session = s,
           UNCHANGED <<messages, untold>>
    PROVE  TurnInv'
<1>1. sessions \in [Sessions -> T!Row] /\ sessions[s] \in T!Row
  BY DEF TurnInv, TurnTypes
<1>2. /\ sessions' \in [Sessions -> T!Row] /\ sessions'[s].title # Untitled
      /\ \A t \in Sessions : t # s => sessions'[t] = sessions[t]
  BY <1>1, TurnConstants DEF T!Row, TurnAssumption
<1>3. TurnTypes'
  BY <1>2 DEF TurnInv, TurnTypes
<1>4. \A c \in turnCalls' : TurnRight(c)'
  BY <1>2 DEF TurnInv, TurnTypes, TurnRight, T!Call
<1>5. \A t \in Sessions : \A q \in Requests :
        (AnswerOf(t, q)' => AnswerOf(t, q)) /\ (t # s /\ Pursues(t, q) => Pursues(t, q)')
  BY DEF AnswerOf, Pursues
<1> QED BY <1>2, <1>3, <1>4, <1>5 DEF TurnInv

LEMMA TurnTitles ==
    ASSUME TurnInv, NEW c \in turnCalls, T!TriggerTitle(c)
    PROVE  TurnInv'
<1>1. /\ c \in T!Call /\ TurnRight(c) /\ TurnTypes /\ c.pc = "title"
      /\ turnCalls' = turnCalls \ {c} /\ UNCHANGED messages
      /\ c.id \in Requests /\ c.session \in Sessions
  BY DEF TurnInv, TurnTypes, T!TriggerTitle, T!Finish, T!Call
<1>2. titleJobs \subseteq T!Job /\ (\A i \in titleJobs : i.early) /\ T!Finish(c)
  BY <1>1 DEF TurnInv, TurnTypes, T!Finish
<1>3. CASE ~c.first /\ UNCHANGED <<sessions, titleJobs, untold>>
  BY <1>1, <1>2, <1>3, TurnEnds DEF AsksForTitle
<1>4. CASE sessions' = [sessions EXCEPT ![c.session].title = c.id] /\ UNCHANGED <<titleJobs, untold>>
  BY <1>1, <1>4, TitleIsSet
<1>5. CASE c.first /\ titleJobs' = titleJobs \cup {T!NewJob(c)} /\ UNCHANGED <<sessions, untold>>
  <2>1. PICK j : j = T!NewJob(c)
    OBVIOUS
  <2>2. j \in T!Job /\ j.session = c.session /\ j.turn = c.id /\ j.early
    BY <1>1, <1>5, <2>1 DEF T!NewJob, T!Job, T!Call, TurnRight
  <2>3. titleJobs' = titleJobs \cup {j}
    BY <1>5, <2>1
  <2> QED BY <1>1, <1>2, <1>5, <2>2, <2>3, TurnEnds
<1>6. CASE untold' = untold \cup {c.id} /\ UNCHANGED <<sessions, titleJobs>>
  BY <1>1, <1>2, <1>6, TurnEnds
<1> QED BY <1>3, <1>4, <1>5, <1>6 DEF T!TriggerTitle

LEMMA JobSteps ==
    ASSUME TurnInv, NEW j \in titleJobs, T!TitleStep(j)
    PROVE  TurnInv'
<1>1. j \in T!Job /\ j.early /\ j.session \in Sessions /\ j.turn \in Requests
  BY DEF TurnInv, TurnTypes, T!Job
<1>2. UNCHANGED messages =>
        \A s \in Sessions : \A r \in Requests : AnswerOf(s, r)' => AnswerOf(s, r)
  BY DEF AnswerOf
<1>3. ASSUME NEW p \in {"messages", "update"}, T!MoveJob(j, [j EXCEPT !.pc = p]),
             UNCHANGED <<sessions, messages, turnCalls, untold>>
      PROVE  TurnInv'
  <2>1. PICK j2 : j2 = [j EXCEPT !.pc = p]
    OBVIOUS
  <2>2. j2 \in T!Job /\ j2.session = j.session /\ j2.turn = j.turn /\ j2.early
    BY <1>1, <2>1 DEF T!Job
  <2>3. titleJobs' = (titleJobs \ {j}) \cup {j2}
    BY <1>3, <2>1 DEF T!MoveJob
  <2>4. TurnTypes' /\ (\A i \in titleJobs' : i.early) /\ \A c \in turnCalls' : TurnRight(c)'
    BY <1>3, <2>2, <2>3 DEF TurnInv, TurnTypes, TurnRight
  <2>5. \A s \in Sessions : \A r \in Requests : Pursues(s, r) => Pursues(s, r)'
    BY <1>3, <2>2, <2>3 DEF Pursues
  <2> QED BY <1>2, <1>3, <2>4, <2>5 DEF TurnInv
<1>4. CASE T!JobReadSession(j) \/ T!JobReadMessages(j)
  BY <1>3, <1>4 DEF T!JobReadSession, T!JobReadMessages
<1>5. CASE T!UpdateSessionTitle(j)
  <2>1. /\ sessions' = [sessions EXCEPT ![j.session].title = j.turn]
        /\ titleJobs' = titleJobs \ {j} /\ UNCHANGED <<messages, turnCalls, untold>>
    BY <1>5 DEF T!UpdateSessionTitle
  <2> QED BY <1>1, <2>1, TitleIsSet
<1>6. CASE T!FailJob(j)
  <2>1. /\ untold' = untold \cup {j.turn} /\ titleJobs' = titleJobs \ {j}
        /\ UNCHANGED <<sessions, messages, turnCalls>>
    BY <1>6 DEF T!FailJob
  <2>2. TurnTypes' /\ (\A i \in titleJobs' : i.early) /\ \A c \in turnCalls' : TurnRight(c)'
    BY <2>1 DEF TurnInv, TurnTypes, TurnRight
  <2>3. \A s \in Sessions : \A r \in Requests : Pursues(s, r) => Pursues(s, r)'
    BY <2>1 DEF Pursues
  <2> QED BY <1>2, <2>1, <2>2, <2>3 DEF TurnInv
<1> QED BY <1>4, <1>5, <1>6 DEF T!TitleStep

LEMMA TurnStep == TurnInv /\ T!Next => TurnInv'
<1> SUFFICES ASSUME TurnInv, T!Next PROVE TurnInv'
  OBVIOUS
<1>1. ASSUME NEW c \in turnCalls, T!ChatStep(c) PROVE TurnInv'
  BY <1>1, TurnReads, TurnSays, TurnTitles DEF T!ChatStep
<1> QED BY <1>1, SessionsChange, TurnComes, JobSteps DEF T!Next

LEMMA TurnIdle == TurnInv /\ UNCHANGED turnVars => TurnInv'
<1> SUFFICES ASSUME TurnInv, UNCHANGED turnVars PROVE TurnInv'
  OBVIOUS
<1>1. UNCHANGED <<sessions, messages, turnCalls, titleJobs, untold>>
  BY DEF turnVars
<1>2. TurnTypes' /\ (\A j \in titleJobs' : j.early) /\ \A c \in turnCalls' : TurnRight(c)'
  BY <1>1 DEF TurnInv, TurnTypes, TurnRight
<1>3. \A s \in Sessions : \A r \in Requests :
        (AnswerOf(s, r)' => AnswerOf(s, r)) /\ (Pursues(s, r) => Pursues(s, r)')
  BY <1>1 DEF AnswerOf, Pursues
<1> QED BY <1>1, <1>2, <1>3 DEF TurnInv

LEMMA PartsTurns == PartsSpec => []TurnInv
<1>1. PartsInit => TurnInv
  BY TurnInit DEF PartsInit
<1>2. TurnInv /\ [PartsNext]_<<part, vars, turnVars>> => TurnInv'
  BY TurnStep, TurnIdle DEF PartsNext
<1> QED BY <1>1, <1>2, PTL DEF PartsSpec

(***************************************************************************)
(* Each answer in a session without a title is of a turn that is under way *)
(* or whose title job is, or that has failed itself: turns, their stops    *)
(* after any write and title jobs may cross as they will (chatAsync,       *)
(* GenerationTitleService).                                                *)
(***************************************************************************)
THEOREM AnsweredAreTitled == PartsSpec => []TitledUnlessFailed
<1>1. ASSUME TurnInv PROVE TitledUnlessFailed
  <2> SUFFICES ASSUME NEW s \in Sessions, NEW i \in DOMAIN messages[s],
                      messages[s][i].role = "Assistant", sessions[s].title = Untitled
               PROVE  \/ messages[s][i].turn \in untold
                      \/ (\E c \in turnCalls : c.id = messages[s][i].turn)
                      \/ \E j \in titleJobs : j.turn = messages[s][i].turn
    BY DEF TitledUnlessFailed, T!TitledUnlessFailed
  <2>1. messages[s] \in Seq(T!Message)
    BY <1>1 DEF TurnInv, TurnTypes
  <2>2. messages[s][i] \in T!Message
    BY <2>1
  <2>3. PICK r \in Requests : r = messages[s][i].turn
    BY <2>2 DEF T!Message
  <2>4. AnswerOf(s, r)
    BY <2>3 DEF AnswerOf
  <2>5. Pursues(s, r)
    BY <1>1, <2>4 DEF TurnInv
  <2> QED BY <2>3, <2>5 DEF Pursues
<1> QED BY <1>1, PartsTurns, PTL

(***************************************************************************)
(* Only a turn that read the session while it had no title, or its job,    *)
(* replaces a title (checkIdResult.value.title, updateSessionTitle).       *)
(***************************************************************************)
THEOREM LaterTurnsKeepTheTitle == PartsSpec => TitleSettles
<1> DEFINE Settled ==
      \A s \in Sessions :
        sessions[s].title # Untitled /\ sessions'[s].title # sessions[s].title =>
            \E t \in (turnCalls \ turnCalls') \cup (titleJobs \ titleJobs') : t.session = s /\ t.early
<1>1. ASSUME TurnInv, [PartsNext]_<<part, vars, turnVars>>
      PROVE  [Settled]_(T!vars)
  <2>1. [T!Next]_(T!vars)
    BY <1>1 DEF PartsNext, turnVars, T!vars
  <2> SUFFICES ASSUME T!Next, NEW s \in Sessions, sessions'[s].title # sessions[s].title
               PROVE  \E t \in (turnCalls \ turnCalls') \cup (titleJobs \ titleJobs') :
                        t.session = s /\ t.early
    BY <2>1 DEF T!vars
  <2>2. sessions \in [Sessions -> T!Row] /\ sessions[s] \in T!Row
    BY <1>1 DEF TurnInv, TurnTypes
  <2>3. CASE \E u \in Users, t \in Sessions : T!CreateSession(u, t) \/ T!SoftDeleteSession(u, t)
    <3>1. PICK u \in Users, t \in Sessions :
            sessions' = [sessions EXCEPT ![t].owner = u] \/ sessions' = [sessions EXCEPT ![t].deleted = TRUE]
      BY <2>3 DEF T!CreateSession, T!SoftDeleteSession
    <3>2. sessions'[s].title = sessions[s].title
      BY <2>2, <3>1 DEF T!Row
    <3> QED BY <3>2
  <2>4. CASE \E c \in turnCalls : T!ChatStep(c)
    <3>1. PICK c \in turnCalls : T!TriggerTitle(c)
      BY <2>4 DEF T!ChatStep, T!ReadSession, T!ReserveQuestion, T!AddQuestion, T!Answer,
         T!AddUnansweredQuestion, T!AddReply, T!AddAnswerSources, T!FailTurn
    <3>2. /\ sessions' = [sessions EXCEPT ![c.session].title = c.id] /\ c.first
          /\ turnCalls' = turnCalls \ {c} /\ c.pc = "title"
      BY <3>1 DEF T!TriggerTitle, T!Finish
    <3>3. c.session = s /\ c.early
      BY <1>1, <2>2, <3>2 DEF TurnInv, TurnRight
    <3> QED BY <3>2, <3>3
  <2>5. CASE \E j \in titleJobs : T!TitleStep(j)
    <3>1. PICK j \in titleJobs : T!UpdateSessionTitle(j)
      BY <2>5 DEF T!TitleStep, T!JobReadSession, T!JobReadMessages, T!FailJob
    <3>2. /\ sessions' = [sessions EXCEPT ![j.session].title = j.turn]
          /\ titleJobs' = titleJobs \ {j} /\ j.early
      BY <1>1, <3>1 DEF T!UpdateSessionTitle, TurnInv
    <3>3. j.session = s
      BY <2>2, <3>2
    <3> QED BY <3>2, <3>3
  <2> QED BY <2>3, <2>4, <2>5 DEF T!Next, T!StartTurn
<1>2. TurnInv /\ [PartsNext]_<<part, vars, turnVars>> => [Settled]_(T!vars)
  BY <1>1
<1> QED BY <1>2, PartsTurns, PTL DEF PartsSpec, TitleSettles, T!TitleSettles
=============================================================================
