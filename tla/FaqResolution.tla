--------------------------- MODULE FaqResolution ---------------------------
(***************************************************************************)
(* Resolving unanswered questions of one knowledge space: the answer is    *)
(* written into the space's FAQ document, the document is queued for       *)
(* ingestion and the question is marked resolved.  Authors may edit or     *)
(* delete the document meanwhile.                                          *)
(*                                                                         *)
(* Each statement is one step; so is each transaction, except that linking *)
(* and deleting lock the row and go on in steps of their own.              *)
(***************************************************************************)
EXTENDS Integers, FiniteSets

CONSTANTS
    Questions,   \* unanswered questions of the space
    Requests,    \* requests; each is issued once, so this bounds them
    NoRequest,   \* nobody holds the row lock
    MaxDocuments, \* bound: FAQ documents, numbered as they are created
    NoQuestion,  \* a handler that deletes
    MaxEdits     \* bound: edits of a document's text by its author

ASSUME FaqAssumption ==
    /\ NoRequest \notin Requests /\ NoQuestion \notin Questions
    /\ MaxDocuments \in Nat /\ MaxEdits \in Nat

VARIABLES
    open,      \* questions with resolved_at IS NULL
    category,  \* the FAQ category exists
    docs,      \* rows of the FAQ documents
    lock,      \* holder of the row lock of each document
    faq,       \* the document linked to the space
    jobs,      \* ingestion jobs: <<document, expected version>>
    calls,     \* handlers in flight
    issued, edits,
    patches,   \* edits committed and yet to be queued: <<document, version>>
    written,   \* history: requests whose answer was committed to a document
    accepted,  \* history: <<request, question>> answered with success
    lost       \* history: <<document, version>> that nobody could queue

vars == <<open, category, docs, lock, faq, jobs, calls, issued, edits, patches,
          written, accepted, lost>>

Documents == 1 .. MaxDocuments
NoDocument == 0  \* faq_document_id IS NULL

\* A block of the text is named by the request whose answer it holds.
Row == [status: {"None", "Processing", "Ready", "Failed"}, ver: Nat,
        deleted: BOOLEAN, content: SUBSET Requests]
Absent == [status |-> "None", ver |-> 0, deleted |-> FALSE, content |-> {}]
Active(d) == docs[d].status # "None" /\ ~docs[d].deleted

\* disturbed (history): since this handler read it, another one has changed
\* the link or a text.
Call == [id: Requests, question: Questions \cup {NoQuestion},
         doc: Documents \cup {NoDocument}, ver: Nat,
         content: SUBSET Requests, disturbed: BOOLEAN,
         pc: {"question", "category", "newCategory", "faqId", "add", "newId",
              "linkLock", "link", "read", "update", "queue", "mark",
              "deleteLock", "deleteCheck", "deleteWrite"}]

Move(c, c2) == calls' = (calls \ {c}) \cup {c2}
Finish(c) == calls' = calls \ {c}

\* The step changes the link or a text: the other handlers' reads are stale.
Disturb(cs) == {[d EXCEPT !.disturbed = TRUE] : d \in cs}
MoveDisturbing(c, c2) == calls' = Disturb(calls \ {c}) \cup {c2}

Issue(r, q, d, pc) ==
    /\ r \notin issued /\ issued' = issued \cup {r}
    /\ calls' = calls \cup {[id |-> r, question |-> q, doc |-> d, ver |-> 0,
                             content |-> {}, disturbed |-> FALSE, pc |-> pc]}
    /\ UNCHANGED <<open, category, docs, lock, faq, jobs, edits, patches, written,
                   accepted, lost>>

Init ==
    /\ open = Questions /\ category = FALSE
    /\ docs = [d \in Documents |-> Absent] /\ lock = [d \in Documents |-> NoRequest]
    /\ faq = NoDocument /\ jobs = {} /\ calls = {} /\ issued = {} /\ edits = 0 /\ patches = {}
    /\ written = {} /\ accepted = {} /\ lost = {}

-----------------------------------------------------------------------------
\* An editor resolves a question; others are refused and touch nothing.
StartResolve(r, q) == Issue(r, q, NoDocument, "question")

ReadQuestion(c) ==
    /\ c.pc = "question"
    /\ IF c.question \in open THEN Move(c, [c EXCEPT !.pc = "category"]) ELSE Finish(c)
    /\ UNCHANGED <<open, category, docs, lock, faq, jobs, issued, edits, patches, written,
                   accepted, lost>>

ReadCategory(c) ==
    /\ c.pc = "category"
    /\ Move(c, [c EXCEPT !.pc = IF category THEN "faqId" ELSE "newCategory"])
    /\ UNCHANGED <<open, category, docs, lock, faq, jobs, issued, edits, patches, written,
                   accepted, lost>>

\* A category that has appeared meanwhile violates the unique index.
CreateFaqCategory(c) ==
    /\ c.pc = "newCategory"
    /\ IF category THEN Finish(c) ELSE Move(c, [c EXCEPT !.pc = "faqId"])
    /\ category' = TRUE
    /\ UNCHANGED <<open, docs, lock, faq, jobs, issued, edits, patches, written, accepted, lost>>

GetFaqDocumentId(c) ==
    /\ c.pc = "faqId"
    /\ Move(c, [c EXCEPT !.doc = faq, !.disturbed = FALSE,
                         !.pc = IF faq = NoDocument THEN "add" ELSE "read"])
    /\ UNCHANGED <<open, category, docs, lock, faq, jobs, issued, edits, patches, written,
                   accepted, lost>>

-----------------------------------------------------------------------------
(* The first resolution *)

AddDocument(c) ==
    /\ c.pc = "add"
    /\ \E d \in Documents :
        /\ docs[d] = Absent /\ (\A e \in 1 .. d - 1 : docs[e] # Absent)
        /\ docs' = [docs EXCEPT ![d] = [Absent EXCEPT !.status = "Processing",
                                            !.ver = 1, !.content = {c.id}]]
        /\ Move(c, [c EXCEPT !.doc = d, !.ver = 1, !.pc = "newId"])
    /\ written' = written \cup {c.id}
    /\ UNCHANGED <<open, category, lock, faq, jobs, issued, edits, patches, accepted, lost>>

GetDocumentIdByPublicId(c) ==
    /\ c.pc = "newId"
    /\ IF Active(c.doc) THEN Move(c, [c EXCEPT !.pc = "linkLock"]) ELSE Finish(c)
    /\ UNCHANGED <<open, category, docs, lock, faq, jobs, issued, edits, patches, written,
                   accepted, lost>>

\* Mutant of LocksRow: the row is only read.
LocksRowNever(c) == UNCHANGED lock

LocksRow(c) == lock[c.doc] = NoRequest /\ lock' = [lock EXCEPT ![c.doc] = c.id]

Unlocks(c) ==
    lock' = [d \in Documents |-> IF lock[d] = c.id THEN NoRequest ELSE lock[d]]

\* SELECT ... WHERE is_deleted = false FOR UPDATE
LockForLink(c) ==
    /\ c.pc = "linkLock"
    /\ IF Active(c.doc)
       THEN LocksRow(c) /\ Move(c, [c EXCEPT !.pc = "link"])
       ELSE lock[c.doc] = NoRequest /\ Finish(c) /\ UNCHANGED lock
    /\ UNCHANGED <<open, category, docs, faq, jobs, issued, edits, patches, written,
                   accepted, lost>>

SetFaqDocumentId(c) ==
    /\ c.pc = "link"
    /\ faq' = c.doc /\ Unlocks(c)
    /\ MoveDisturbing(c, [c EXCEPT !.pc = "queue"])
    /\ UNCHANGED <<open, category, docs, jobs, issued, edits, patches, written, accepted, lost>>

-----------------------------------------------------------------------------
(* Later resolutions *)

GetDocumentContentById(c) ==
    /\ c.pc = "read"
    /\ IF Active(c.doc)
       THEN Move(c, [c EXCEPT !.content = docs[c.doc].content, !.pc = "update"])
       ELSE Finish(c)
    /\ UNCHANGED <<open, category, docs, lock, faq, jobs, issued, edits, patches, written,
                   accepted, lost>>

\* Mutant of NewContent: the block replaces the text.
NewContentReplaced(c) == {c.id}

\* The text that was read, with the block after it.
NewContent(c) == c.content \cup {c.id}

\* updateDocument locks the active row; it does not compare the version.
UpdateDocument(c) ==
    /\ c.pc = "update" /\ lock[c.doc] = NoRequest
    /\ IF Active(c.doc)
       THEN LET ver == docs[c.doc].ver + 1
            IN  /\ docs' = [docs EXCEPT ![c.doc] = [@ EXCEPT !.content = NewContent(c),
                                                    !.status = "Processing", !.ver = ver]]
                /\ MoveDisturbing(c, [c EXCEPT !.ver = ver, !.pc = "queue"])
                /\ written' = written \cup {c.id}
       ELSE Finish(c) /\ UNCHANGED <<docs, written>>
    /\ UNCHANGED <<open, category, lock, faq, jobs, issued, edits, patches, accepted, lost>>

-----------------------------------------------------------------------------
\* Mutant of QueuedVersion: the version before the handler's own update.
QueuedVersionBefore(c) == c.ver - 1

\* What the write has returned, not what the row holds by now.
QueuedVersion(c) == c.ver

\* "Failed to enqueue FAQ document ingestion" is logged and the handler goes on.
Enqueue(c) ==
    /\ c.pc = "queue"
    /\ \/ jobs' = jobs \cup {<<c.doc, QueuedVersion(c)>>} /\ UNCHANGED lost
       \/ lost' = lost \cup {<<c.doc, c.ver>>} /\ UNCHANGED jobs
    /\ Move(c, [c EXCEPT !.pc = "mark"])
    /\ UNCHANGED <<open, category, docs, lock, faq, issued, edits, patches, written, accepted>>

\* Mutant of CountsAsMarked: the number of updated rows is not looked at.
CountsAsMarkedAlways(q) == TRUE

\* updateMany ... resolved_at IS NULL: count > 0
CountsAsMarked(q) == q \in open

MarkResolveQuestion(c) ==
    /\ c.pc = "mark"
    /\ open' = open \ {c.question}
    /\ accepted' = IF CountsAsMarked(c.question)
                   THEN accepted \cup {<<c.id, c.question>>} ELSE accepted
    /\ Finish(c)
    /\ UNCHANGED <<category, docs, lock, faq, jobs, issued, edits, patches, written, lost>>

\* A call to the database that fails ends the handler, and a transaction rolls
\* back; or the process dies, which leaves the write that it had yet to queue.
Fail(c) ==
    /\ Finish(c) /\ Unlocks(c)
    /\ lost' = IF c.pc = "queue" THEN lost \cup {<<c.doc, c.ver>>} ELSE lost
    /\ UNCHANGED <<open, category, docs, faq, jobs, issued, edits, patches, written,
                   accepted>>

-----------------------------------------------------------------------------
(* The document's author, and the worker *)

StartDelete(r, d) ==
    /\ docs[d].status # "None"
    /\ Issue(r, NoQuestion, d, "deleteLock")

LockForDelete(c) ==
    /\ c.pc = "deleteLock" /\ LocksRow(c)
    /\ Move(c, [c EXCEPT !.pc = "deleteCheck"])
    /\ UNCHANGED <<open, category, docs, faq, jobs, issued, edits, patches, written,
                   accepted, lost>>

\* "The system FAQ document cannot be deleted"
IsSystemFaq(d) == faq = d

CheckDelete(c) ==
    /\ c.pc = "deleteCheck"
    /\ IF IsSystemFaq(c.doc) \/ docs[c.doc].deleted
       THEN Finish(c) /\ Unlocks(c)
       ELSE Move(c, [c EXCEPT !.pc = "deleteWrite"]) /\ UNCHANGED lock
    /\ UNCHANGED <<open, category, docs, faq, jobs, issued, edits, patches, written,
                   accepted, lost>>

SoftDelete(c) ==
    /\ c.pc = "deleteWrite"
    /\ docs' = [docs EXCEPT ![c.doc].deleted = TRUE, ![c.doc].ver = @ + 1]
    /\ Finish(c) /\ Unlocks(c)
    /\ UNCHANGED <<open, category, faq, jobs, issued, edits, patches, written, accepted, lost>>

\* The author replaces the text: PATCH commits, and queues what it has committed.
EditDocument(d) ==
    /\ edits < MaxEdits /\ edits' = edits + 1
    /\ Active(d) /\ lock[d] = NoRequest
    /\ docs' = [docs EXCEPT ![d].content = {}, ![d].status = "Processing", ![d].ver = @ + 1]
    /\ patches' = patches \cup {<<d, docs[d].ver + 1>>}
    /\ calls' = Disturb(calls)
    /\ UNCHANGED <<open, category, lock, faq, jobs, issued, written, accepted, lost>>

EnqueueEdit(e) ==
    /\ patches' = patches \ {e} /\ jobs' = jobs \cup {e}
    /\ UNCHANGED <<open, category, docs, lock, faq, calls, issued, edits, written,
                   accepted, lost>>

\* Whether a row is still at the version e names, and waits for its job.
JobFits(e) ==
    Active(e[1]) /\ docs[e[1]].status = "Processing" /\ docs[e[1]].ver = e[2]

\* The queue has refused: the version that was committed becomes Failed, if the
\* row is still at it.
FailEnqueueSnapshot(e) ==
    /\ lock[e[1]] = NoRequest
    /\ patches' = patches \ {e}
    /\ docs' = IF JobFits(e)
               THEN [docs EXCEPT ![e[1]].status = "Failed", ![e[1]].ver = @ + 1] ELSE docs
    /\ UNCHANGED <<open, category, lock, faq, jobs, calls, issued, edits, written,
                   accepted, lost>>

\* That fails too, or the process dies after its commit.
LoseEdit(e) ==
    /\ patches' = patches \ {e} /\ lost' = lost \cup {e}
    /\ UNCHANGED <<open, category, docs, lock, faq, jobs, calls, issued, edits, written,
                   accepted>>

\* The worker indexes the version the job names, or drops the job.
Ingest(j) ==
    /\ lock[j[1]] = NoRequest
    /\ jobs' = jobs \ {j}
    /\ IF JobFits(j)
       THEN \E s \in {"Ready", "Failed"} :
              docs' = [docs EXCEPT ![j[1]].status = s, ![j[1]].ver = @ + 1]
       ELSE UNCHANGED docs
    /\ UNCHANGED <<open, category, lock, faq, calls, issued, edits, patches, written,
                   accepted, lost>>

-----------------------------------------------------------------------------
Next ==
    \/ \E r \in Requests :
        \/ \E q \in Questions : StartResolve(r, q)
        \/ \E d \in Documents : StartDelete(r, d)
    \/ \E c \in calls :
        \/ ReadQuestion(c) \/ ReadCategory(c) \/ CreateFaqCategory(c)
        \/ GetFaqDocumentId(c) \/ AddDocument(c) \/ GetDocumentIdByPublicId(c)
        \/ LockForLink(c) \/ SetFaqDocumentId(c)
        \/ GetDocumentContentById(c) \/ UpdateDocument(c)
        \/ Enqueue(c) \/ MarkResolveQuestion(c) \/ Fail(c)
        \/ LockForDelete(c) \/ CheckDelete(c) \/ SoftDelete(c)
    \/ \E d \in Documents : EditDocument(d)
    \/ \E e \in patches : EnqueueEdit(e) \/ FailEnqueueSnapshot(e) \/ LoseEdit(e)
    \/ \E j \in jobs : Ingest(j)

Spec == Init /\ [][Next]_vars

-----------------------------------------------------------------------------
TypeOK ==
    /\ open \subseteq Questions /\ category \in BOOLEAN
    /\ docs \in [Documents -> Row] /\ lock \in [Documents -> Requests \cup {NoRequest}]
    /\ faq \in Documents \cup {NoDocument} /\ jobs \subseteq Documents \X Nat
    /\ calls \subseteq Call /\ issued \subseteq Requests /\ edits \in 0 .. MaxEdits
    /\ written \subseteq Requests /\ accepted \subseteq Requests \X Questions
    /\ patches \subseteq Documents \X Nat /\ lost \subseteq Documents \X Nat

(***************************************************************************)
(* The document linked to the space is never one that has been deleted:    *)
(* setFaqDocumentId and softDeleteDocument lock the same row, whichever    *)
(* comes first (knowledgeSpace.repo.ts, document.repo.ts).                 *)
(***************************************************************************)
FaqIsActive == faq # NoDocument => Active(faq)

(***************************************************************************)
(* A question is answered once: of the editors who resolve it at the same  *)
(* time one is told that it worked, and that one's answer was committed to *)
(* a document before (resolveUnansweredQuestionAsync).                     *)
(***************************************************************************)
ResolvedOnce ==
    \A q \in Questions \ open :
        \E a \in accepted : /\ a[2] = q /\ a[1] \in written
                            /\ \A b \in accepted : b[2] = q => b = a

(***************************************************************************)
(* A resolution with whose link and text nobody interferes, from its look  *)
(* at the link to its write, leaves every answer in the linked document    *)
(* and adds its own (appendToFaqDocument).                                 *)
(***************************************************************************)
UndisturbedLosesNothing ==
    [][\A c \in calls :
        (c.pc = "update" /\ ~c.disturbed /\ c.id \in written' \ written)
        => docs'[faq'].content = docs[faq].content \cup {c.id}]_vars

(***************************************************************************)
(* The linked document does not stay Processing for want of a job: the one *)
(* for its version is queued, or who wrote that version has yet to queue   *)
(* it or to take it back - unless that very version was lost: the queue    *)
(* refused it, which a resolution only logs, the row could not be marked,  *)
(* or the process died between the commit and the queue.                   *)
(***************************************************************************)
FaqIsQueued ==
    faq # NoDocument /\ docs[faq].status = "Processing" =>
        \/ <<faq, docs[faq].ver>> \in jobs \cup patches \cup lost
        \/ \E c \in calls : c.doc = faq /\ c.ver = docs[faq].ver /\ c.pc = "queue"

(***************************************************************************)
(* "The answer is folded into the knowledge space's FAQ document"          *)
(* (unanswered-question.controller.ts): when no author edits or deletes,   *)
(* the answer of a resolved question is in the linked document.            *)
(***************************************************************************)
AnswerIsInFaq ==
    edits = 0 => \A a \in accepted : faq # NoDocument /\ a[1] \in docs[faq].content
=============================================================================
