---------------------- MODULE DocumentLifecycle_proofs ----------------------
(***************************************************************************)
(* The safety of DocumentLifecycle, for every set of documents, keys,      *)
(* texts and requests and every value of the bounds.                       *)
(*                                                                         *)
(* The argument has two halves.  Every step leaves the rows and the chunks *)
(* alone or is one of nine transactions on one row (Transaction), and the  *)
(* properties of rows follow from those nine.  That a worker publishes the *)
(* current text is about the messages in flight: no handler or job knows a *)
(* version the row has not reached, so a snapshot whose version still      *)
(* matches is still the text of the row (VersionsKnown, SnapshotsHold).    *)
(***************************************************************************)
EXTENDS DocumentLifecycle, TLAPS

-----------------------------------------------------------------------------
(* The row transactions return rows. *)

LEMMA NextVersionType ==
    ASSUME NEW prev \in Nat, NEW now \in Nat
    PROVE  NextVersion(prev, now) \in Nat /\ NextVersion(prev, now) > prev
BY DEF NextVersion

LEMMA CreatedType ==
    ASSUME NEW k \in Keys, NEW text \in Texts \cup {NoText}, NEW now \in Nat
    PROVE  Created(k, text, now) \in Row
BY DEF Created, Absent, Row, Status

LEMMA TransitionedType ==
    ASSUME NEW row \in Row, NEW status \in Status, NEW now \in Nat
    PROVE  Transitioned(row, status, now) \in Row
<1>1. NextVersion(row.ver, now) \in Nat
  BY NextVersionType DEF Row
<1> QED BY <1>1 DEF Transitioned, Row

LEMMA EditedType ==
    ASSUME NEW row \in Row, NEW text \in Texts \cup {NoText, Keep},
           NEW k \in Keys \cup {NoKey}, NEW now \in Nat
    PROVE  Edited(row, text, k, now) \in Row
<1>1. NextVersion(row.ver, now) \in Nat
  BY NextVersionType DEF Row
<1> QED BY <1>1 DEF Edited, Row, Status

LEMMA SoftDeletedType ==
    ASSUME NEW row \in Row, NEW now \in Nat
    PROVE  SoftDeleted(row, now) \in Row
<1>1. NextVersion(row.ver, now) \in Nat
  BY NextVersionType DEF Row
<1>2. now + Retention \in Nat
  BY RetentionAssumption
<1> QED BY <1>1, <1>2 DEF SoftDeleted, Row

LEMMA RestoredType ==
    ASSUME NEW row \in Row, NEW now \in Nat
    PROVE  Restored(row, now) \in Row
<1>1. NextVersion(row.ver, now) \in Nat
  BY NextVersionType DEF Row
<1> QED BY <1>1 DEF Restored, Row, Status

LEMMA ClaimedType ==
    ASSUME NEW row \in Row, NEW now \in Nat
    PROVE  Claimed(row, now) \in Row
<1>1. NextVersion(row.ver, now) \in Nat
  BY NextVersionType DEF Row
<1> QED BY <1>1 DEF Claimed, Row

LEMMA PurgedType ==
    ASSUME NEW row \in Row, NEW now \in Nat
    PROVE  Purged(row, now) \in Row
<1>1. NextVersion(row.ver, now) \in Nat
  BY NextVersionType DEF Row
<1> QED BY <1>1 DEF Purged, Row

-----------------------------------------------------------------------------
(* Type correctness *)

LEMMA InitType == Init => TypeOK
<1> SUFFICES ASSUME Init PROVE TypeOK
  OBVIOUS
<1>1. \A status \in Status : SeedRow(status) \in Row
  BY SeedsAssumption DEF SeedRow, Created, Absent, Row, Status
<1>2. Absent \in Row
  BY DEF Absent, Row, Status
<1>3. rows \in [Docs -> Row]
  BY <1>1, <1>2 DEF Init, Status
<1>4. chunks \in [Docs -> Texts \cup Keys \cup {NoText, NoKey}]
  BY SeedsAssumption DEF Init
<1>5. \A d \in Docs : NewJob(d, 0) \in Job
  BY DEF NewJob, Job
<1>6. jobs \subseteq Job
  BY <1>5, SeedsAssumption DEF Init, LegacyJob
<1>7. registered \subseteq Keys \cup {NoKey}
  BY SeedsAssumption DEF Init
<1> QED BY <1>3, <1>4, <1>6, <1>7 DEF Init, TypeOK

LEMMA AppTimesType ==
    ASSUME TypeOK
    PROVE  AppTimes \subseteq Nat \ {0}
BY BoundsAssumption DEF AppTimes, TypeOK

LEMMA RequestType ==
    ASSUME TypeOK, NEW r \in Requests, NEW d \in Docs, Request(r, d)
    PROVE  TypeOK'
<1> USE DEF TypeOK
<1>1. ASSUME NEW k \in Keys, NEW text \in Texts \cup {NoText}, CreateDocument(r, d, k, text)
      PROVE  TypeOK'
  <2>1. PICK now \in AppTimes :
            /\ rows' = [rows EXCEPT ![d] = Created(k, text, now)]
            /\ calls' = calls \cup {[id |-> r, doc |-> d, ver |-> now, pc |-> "enqueue",
                                     old |-> NoKey, new |-> NoKey]}
    BY <1>1 DEF CreateDocument
  <2>2. now \in Nat
    BY AppTimesType
  <2>3. rows' \in [Docs -> Row]
    BY <2>1, <2>2, CreatedType
  <2>4. calls' \subseteq Call
    BY <2>1, <2>2 DEF Call
  <2> QED BY <1>1, <2>3, <2>4 DEF CreateDocument, Issue
<1>2. ASSUME NEW k \in Keys \cup {NoKey}, UpdateRead(r, d, k)
      PROVE  TypeOK'
  <2>1. rows[d].key \in Keys \cup {NoKey}
    BY DEF Row
  <2>2. calls' \subseteq Call
    BY <1>2, <2>1 DEF UpdateRead, Call
  <2> QED BY <1>2, <2>2 DEF UpdateRead, Issue
<1>3. CASE RetryRead(r, d)
  <2>1. rows[d].ver \in Nat
    BY DEF Row
  <2>2. calls' \subseteq Call
    BY <1>3, <2>1 DEF RetryRead, Call
  <2> QED BY <1>3, <2>2 DEF RetryRead, Issue
<1>4. CASE DeleteDocument(r, d)
  <2>1. rows' \in [Docs -> Row]
    BY <1>4, SoftDeletedType DEF DeleteDocument
  <2> QED BY <1>4, <2>1 DEF DeleteDocument, Issue
<1>5. CASE RestoreDocument(r, d)
  <2>1. rows' \in [Docs -> Row]
    BY <1>5, RestoredType DEF RestoreDocument
  <2> QED BY <1>5, <2>1 DEF RestoreDocument, Issue
<1> QED BY <1>1, <1>2, <1>3, <1>4, <1>5 DEF Request

LEMMA AfterEnqueueType ==
    ASSUME TypeOK, NEW c \in calls
    PROVE  AfterEnqueue(c) \subseteq Call
BY DEF AfterEnqueue, Move, TypeOK, Call

LEMMA CallType ==
    ASSUME TypeOK, NEW c \in calls, CallStep(c) \/ LoseCall(c)
    PROVE  TypeOK'
<1> USE DEF TypeOK
<1>0. /\ c \in Call /\ c.doc \in Docs /\ rows[c.doc] \in Row
      /\ NewJob(c.doc, c.ver) \in Job
  BY DEF Call, NewJob, Job
<1>1. ASSUME NEW text \in Texts \cup {NoText, Keep}, UpdateCommit(c, text)
      PROVE  TypeOK'
  <2> DEFINE new == Edited(rows[c.doc], text, c.new, clock)
  <2>1. c.new \in Keys \cup {NoKey} /\ c.old \in Keys \cup {NoKey}
    BY <1>0 DEF Call
  <2>2. new \in Row
    BY <1>0, <2>1, EditedType
  <2>3. rows' \in [Docs -> Row]
    BY <1>1, <2>2 DEF UpdateCommit
  <2>4. registered' \subseteq Keys \cup {NoKey}
    BY <1>0, <1>1, <2>1 DEF UpdateCommit, Row
  <2>5. new.ver \in Nat
    BY <2>2 DEF Row
  <2> DEFINE stale == IF c.new \in {NoKey, c.old} THEN NoKey ELSE c.old
             next == [c EXCEPT !.pc = "enqueue", !.ver = new.ver, !.old = stale, !.new = NoKey]
  <2>6. next \in Call
    <3> HIDE DEF new
    <3> QED BY <1>0, <2>1, <2>5 DEF Call
  <2>7. calls' \subseteq calls \cup {next}
    BY <1>1 DEF UpdateCommit, Move
  <2>8. calls' \subseteq Call
    BY <2>6, <2>7
  <2> QED BY <1>1, <2>3, <2>4, <2>8 DEF UpdateCommit
<1>2. CASE UpdateReject(c)
  BY <1>2 DEF UpdateReject
<1>3. CASE RetryClaim(c)
  <2>1. PICK now \in AppTimes :
            LET new == Transitioned(rows[c.doc], "Processing", now)
            IN  /\ rows' = [rows EXCEPT ![c.doc] = new]
                /\ calls' = Move(calls, c, [c EXCEPT !.pc = "enqueue", !.ver = new.ver])
    BY <1>3 DEF RetryClaim
  <2>2. Transitioned(rows[c.doc], "Processing", now) \in Row
    BY <1>0, AppTimesType, TransitionedType DEF Status
  <2>3. Transitioned(rows[c.doc], "Processing", now).ver \in Nat
    BY <2>2 DEF Row
  <2>4. calls' \subseteq Call
    BY <1>0, <2>1, <2>3 DEF Move, Call
  <2> QED BY <1>3, <2>1, <2>2, <2>4 DEF RetryClaim
<1>4. CASE RetryLost(c)
  BY <1>4 DEF RetryLost
<1>5. CASE Enqueue(c)
  BY <1>0, <1>5, AfterEnqueueType DEF Enqueue
<1>6. CASE EnqueueError(c)
  <2>1. calls' \subseteq Call
    BY <1>0, <1>6 DEF EnqueueError, Move, Call
  <2>2. jobs' \subseteq Job
    BY <1>0, <1>6 DEF EnqueueError
  <2> QED BY <1>6, <2>1, <2>2 DEF EnqueueError
<1>7. CASE EnqueueRollback(c)
  <2>1. \A now \in AppTimes : Transitioned(rows[c.doc], "Failed", now) \in Row
    BY <1>0, AppTimesType, TransitionedType DEF Status
  <2>2. rows' \in [Docs -> Row]
    BY <1>0, <1>7, <2>1 DEF EnqueueRollback
  <2> QED BY <1>7, <2>2, AfterEnqueueType DEF EnqueueRollback
<1>8. CASE CheckReplaced(c)
  <2>1. calls' \subseteq Call
    BY <1>0, <1>8 DEF CheckReplaced, Move, Call
  <2> QED BY <1>8, <2>1 DEF CheckReplaced
<1>9. CASE UnlinkReplaced(c)
  BY <1>9 DEF UnlinkReplaced
<1>10. CASE LoseCall(c)
  <2>1. <<c.doc, c.ver>> \in Docs \X Nat
    BY <1>0 DEF Call
  <2> QED BY <1>10, <2>1 DEF LoseCall, Lose
<1> QED BY <1>1, <1>2, <1>3, <1>4, <1>5, <1>6, <1>7, <1>8, <1>9, <1>10 DEF CallStep

LEMMA JobType ==
    ASSUME TypeOK, NEW j \in jobs, JobStep(j) \/ JobStall(j) \/ JobLost(j)
    PROVE  TypeOK'
<1> USE DEF TypeOK
<1>0. /\ j \in Job /\ j.doc \in Docs /\ rows[j.doc] \in Row
      /\ j.ver \in Nat /\ j.made \in Nat /\ j.stalls \in Nat
      /\ j.text \in Texts \cup Keys \cup {NoText, NoKey}
  BY DEF Job
<1>e. Expected(j) \in Nat
  BY <1>0 DEF Expected, Row
<1>1. CASE JobRead(j)
  <2>1. Source(rows[j.doc]) \in Texts \cup Keys \cup {NoText, NoKey}
    BY <1>0 DEF Source, Row
  <2>2. [j EXCEPT !.pc = "indexing", !.ver = Expected(j), !.text = Source(rows[j.doc])] \in Job
    BY <1>0, <1>e, <2>1 DEF Job
  <2> QED BY <1>1, <2>2 DEF JobRead, Move
<1>2. CASE JobSkip(j)
  BY <1>2 DEF JobSkip
<1>3. CASE JobCommit(j)
  <2>1. Transitioned(rows[j.doc], "Ready", clock) \in Row
    BY <1>0, TransitionedType DEF Status
  <2>2. rows' \in [Docs -> Row]
    BY <1>0, <1>3, <2>1 DEF JobCommit
  <2>3. chunks' \in [Docs -> Texts \cup Keys \cup {NoText, NoKey}]
    BY <1>0, <1>3 DEF JobCommit
  <2>4. [j EXCEPT !.pc = "committed", !.text = NoText] \in Job
    BY <1>0 DEF Job
  <2>5. jobs' \subseteq Job
    BY <1>3, <2>4 DEF JobCommit, Move
  <2> QED BY <1>3, <2>2, <2>3, <2>5 DEF JobCommit
<1>4. CASE JobAck(j)
  BY <1>4 DEF JobAck
<1>5. CASE JobAttemptFails(j)
  <2> DEFINE made == j.made + 1
             pc == IF made < Attempts THEN "waiting" ELSE "failed"
  <2>0. made \in Nat /\ pc \in {"waiting", "failed"}
    BY <1>0
  <2>1. [j EXCEPT !.made = made, !.text = NoText, !.pc = pc] \in Job
    <3> HIDE DEF made, pc
    <3> QED BY <1>0, <2>0 DEF Job
  <2> QED BY <1>5, <2>1 DEF JobAttemptFails, Move
<1>6. CASE JobGiveUp(j)
  <2>1. \A now \in AppTimes : Transitioned(rows[j.doc], "Failed", now) \in Row
    BY <1>0, AppTimesType, TransitionedType DEF Status
  <2>2. rows' \in [Docs -> Row]
    BY <1>0, <1>6, <2>1 DEF JobGiveUp
  <2>3. orphaned' \subseteq Docs \X Nat
    BY <1>0, <1>6 DEF JobGiveUp, Row
  <2> QED BY <1>6, <2>2, <2>3 DEF JobGiveUp
<1>7. CASE JobStall(j)
  <2> DEFINE stalls == j.stalls + 1
  <2>0. stalls \in Nat
    BY <1>0
  <2>1. [j EXCEPT !.pc = "waiting", !.stalls = stalls, !.text = NoText] \in Job
    <3> HIDE DEF stalls
    <3> QED BY <1>0, <2>0 DEF Job
  <2> QED BY <1>7, <2>1 DEF JobStall, Move
<1>8. CASE JobLost(j)
  BY <1>0, <1>e, <1>8 DEF JobLost, Lose
<1> QED BY <1>1, <1>2, <1>3, <1>4, <1>5, <1>6, <1>7, <1>8 DEF JobStep

LEMMA ScanType ==
    ASSUME TypeOK, NEW d \in Docs, Scan(d)
    PROVE  TypeOK'
<1>1. rows[d].deletedAt \in Nat
  BY DEF TypeOK, Row
<1>2. [doc |-> d, at |-> rows[d].deletedAt, made |-> 0, key |-> NoKey, pc |-> "waiting"] \in Purge
  BY <1>1 DEF Purge
<1> QED BY <1>2 DEF Scan, TypeOK

LEMMA PurgeType ==
    ASSUME TypeOK, NEW p \in purges, PurgeStep(p) \/ PurgeError(p)
    PROVE  TypeOK'
<1> USE DEF TypeOK
<1>0. /\ p \in Purge /\ p.doc \in Docs /\ rows[p.doc] \in Row /\ p.made \in Nat
      /\ rows[p.doc].key \in Keys \cup {NoKey}
  BY DEF Purge, Row
<1>1. CASE PurgeClaim(p)
  <2>1. rows' \in [Docs -> Row]
    BY <1>0, <1>1, ClaimedType DEF PurgeClaim
  <2>2. [p EXCEPT !.pc = "claimed", !.key = rows[p.doc].key] \in Purge
    BY <1>0 DEF Purge
  <2>3. purges' \subseteq Purge
    BY <1>1, <2>2 DEF PurgeClaim, Move
  <2> QED BY <1>1, <2>1, <2>3 DEF PurgeClaim
<1>2. CASE PurgeCheck(p)
  <2>1. [p EXCEPT !.pc = IF CanDelete(p.key) THEN "unlink" ELSE "finalize"] \in Purge
    BY <1>0 DEF Purge
  <2> QED BY <1>2, <2>1 DEF PurgeCheck, Move
<1>3. CASE PurgeUnlink(p)
  <2>1. [p EXCEPT !.pc = "finalize"] \in Purge
    BY <1>0 DEF Purge
  <2> QED BY <1>3, <2>1 DEF PurgeUnlink, Move
<1>4. CASE PurgeFinalize(p)
  <2>1. rows' \in [Docs -> Row]
    BY <1>0, <1>4, PurgedType DEF PurgeFinalize
  <2>2. chunks' \in [Docs -> Texts \cup Keys \cup {NoText, NoKey}]
    BY <1>0, <1>4 DEF PurgeFinalize
  <2> QED BY <1>4, <2>1, <2>2 DEF PurgeFinalize
<1>5. CASE PurgeError(p)
  <2> DEFINE made == p.made + 1
  <2>0. made \in Nat
    BY <1>0
  <2>1. [p EXCEPT !.made = made, !.pc = "waiting", !.key = NoKey] \in Purge
    <3> HIDE DEF made
    <3> QED BY <1>0, <2>0 DEF Purge
  <2> QED BY <1>5, <2>1 DEF PurgeError, Move
<1> QED BY <1>1, <1>2, <1>3, <1>4, <1>5 DEF PurgeStep

LEMMA TypeStep == TypeOK /\ [Next]_vars => TypeOK'
<1> SUFFICES ASSUME TypeOK, [Next]_vars PROVE TypeOK'
  OBVIOUS
<1>1. CASE Tick
  BY <1>1 DEF Tick, TypeOK
<1>2. CASE UNCHANGED vars
  BY <1>2 DEF vars, TypeOK
<1> QED BY <1>1, <1>2, RequestType, CallType, JobType, ScanType, PurgeType DEF Next

(***************************************************************************)
(* Type correctness: no transaction writes a row, and no handler a record, *)
(* outside its declared shape.                                             *)
(***************************************************************************)
THEOREM TypeCorrect == Spec => []TypeOK
BY InitType, TypeStep, PTL DEF Spec

-----------------------------------------------------------------------------
(* The inductive invariant *)

AbsentIsBlank == \A d \in Docs : ~Exists(rows[d]) => rows[d] = Absent

VersionsKnown ==
    /\ \A c \in calls : c.ver <= rows[c.doc].ver
    /\ \A j \in jobs : j.ver <= rows[j.doc].ver

SnapshotsHold ==
    \A j \in jobs :
        j.pc = "indexing" /\ j.ver = rows[j.doc].ver => j.text = Source(rows[j.doc])

PurgedIsBlank ==
    \A d \in Docs : rows[d].purged => chunks[d] = NoText /\ rows[d].content = NoText

IInv == /\ TypeOK /\ AbsentIsBlank /\ VersionsKnown /\ SnapshotsHold
        /\ TrashState /\ PurgedIsBlank /\ ReadyMeansCurrent

-----------------------------------------------------------------------------
(* The transactions on one row *)

Write(d, row, index) ==
    rows' = [rows EXCEPT ![d] = row] /\ chunks' = [chunks EXCEPT ![d] = index]

Creates(d) ==
    /\ ~Exists(rows[d])
    /\ \E k \in Keys, text \in Texts \cup {NoText}, now \in Nat \ {0} :
            Write(d, Created(k, text, now), chunks[d])

Edits(d) ==
    /\ Active(rows[d])
    /\ \E k \in Keys \cup {NoKey}, text \in Texts \cup {NoText, Keep}, now \in Nat :
            Write(d, Edited(rows[d], text, k, now), chunks[d])

Shifts(d, from, to, index) ==
    /\ Active(rows[d]) /\ rows[d].status = from
    /\ \E now \in Nat : Write(d, Transitioned(rows[d], to, now), index)

Publishes(d) == Shifts(d, "Processing", "Ready", Source(rows[d]))
Fails(d) == Shifts(d, "Processing", "Failed", chunks[d])
Retries(d) == Shifts(d, "Failed", "Processing", chunks[d])

Deletes(d) == Active(rows[d]) /\ Write(d, SoftDeleted(rows[d], clock), chunks[d])

Restores(d) ==
    Restorable(rows[d], clock) /\ Write(d, Restored(rows[d], clock), chunks[d])

Claims(d) == Expired(rows[d], clock) /\ Write(d, Claimed(rows[d], clock), chunks[d])

Erases(d) ==
    /\ rows[d].deleted /\ rows[d].purgeStarted /\ ~rows[d].purged
    /\ Write(d, Purged(rows[d], clock), NoText)

Transaction(d) ==
    \/ Creates(d) \/ Edits(d) \/ Publishes(d) \/ Fails(d) \/ Retries(d)
    \/ Deletes(d) \/ Restores(d) \/ Claims(d) \/ Erases(d)

Quiet == UNCHANGED <<rows, chunks>>

LEMMA RequestTransaction ==
    ASSUME IInv, NEW r \in Requests, NEW d \in Docs, Request(r, d)
    PROVE  Quiet \/ \E e \in Docs : Transaction(e)
<1> USE DEF Write
<1>t. /\ TypeOK /\ clock \in Nat
      /\ \A e \in Docs : chunks = [chunks EXCEPT ![e] = chunks[e]]
  BY DEF IInv, TypeOK
<1>1. ASSUME NEW k \in Keys, NEW text \in Texts \cup {NoText}, CreateDocument(r, d, k, text)
      PROVE  Creates(d)
  BY <1>t, <1>1, AppTimesType DEF CreateDocument, Creates
<1>2. ASSUME NEW k \in Keys \cup {NoKey}, UpdateRead(r, d, k) PROVE Quiet
  BY <1>2 DEF UpdateRead, Quiet
<1>3. CASE RetryRead(r, d)
  BY <1>3 DEF RetryRead, Quiet
<1>4. ASSUME DeleteDocument(r, d) PROVE Deletes(d)
  BY <1>t, <1>4 DEF DeleteDocument, Deletes
<1>5. ASSUME RestoreDocument(r, d) PROVE Restores(d)
  BY <1>t, <1>5 DEF RestoreDocument, Restores
<1> QED BY <1>1, <1>2, <1>3, <1>4, <1>5 DEF Request, Transaction

LEMMA CallTransaction ==
    ASSUME IInv, NEW c \in calls, CallStep(c) \/ LoseCall(c)
    PROVE  Quiet \/ \E e \in Docs : Transaction(e)
<1> USE DEF Write
<1>t. /\ TypeOK /\ clock \in Nat /\ c.doc \in Docs /\ c.new \in Keys \cup {NoKey}
      /\ chunks = [chunks EXCEPT ![c.doc] = chunks[c.doc]]
  BY DEF IInv, TypeOK, Call
<1>1. ASSUME NEW text \in Texts \cup {NoText, Keep}, UpdateCommit(c, text)
      PROVE  Edits(c.doc)
  <2>1. rows' = [rows EXCEPT ![c.doc] = Edited(rows[c.doc], text, c.new, clock)]
    BY <1>1 DEF UpdateCommit
  <2>2. Active(rows[c.doc]) /\ chunks' = chunks
    BY <1>1 DEF UpdateCommit, UpdateRefused
  <2> QED BY <1>t, <2>1, <2>2 DEF Edits
<1>2. ASSUME RetryClaim(c) PROVE Retries(c.doc)
  BY <1>t, <1>2, AppTimesType DEF RetryClaim, Matches, Retries, Shifts
<1>3. ASSUME EnqueueRollback(c) PROVE Quiet \/ Fails(c.doc)
  BY <1>t, <1>3, AppTimesType DEF EnqueueRollback, Matches, Fails, Shifts, Quiet
<1>4. CASE UpdateReject(c)
  BY <1>4 DEF UpdateReject, Quiet
<1>5. CASE RetryLost(c)
  BY <1>5 DEF RetryLost, Quiet
<1>6. CASE Enqueue(c)
  BY <1>6 DEF Enqueue, Quiet
<1>7. CASE EnqueueError(c)
  BY <1>7 DEF EnqueueError, Quiet
<1>8. CASE CheckReplaced(c)
  BY <1>8 DEF CheckReplaced, Quiet
<1>9. CASE UnlinkReplaced(c)
  BY <1>9 DEF UnlinkReplaced, Quiet
<1>10. CASE LoseCall(c)
  BY <1>10 DEF LoseCall, Quiet
<1> QED BY <1>t, <1>1, <1>2, <1>3, <1>4, <1>5, <1>6, <1>7, <1>8, <1>9, <1>10
        DEF CallStep, Transaction

\* The one step that needs SnapshotsHold: a commit publishes the current text.
LEMMA JobTransaction ==
    ASSUME IInv, NEW j \in jobs, JobStep(j) \/ JobStall(j) \/ JobLost(j)
    PROVE  Quiet \/ \E e \in Docs : Transaction(e)
<1> USE DEF Write
<1>t. /\ TypeOK /\ clock \in Nat /\ j.doc \in Docs
      /\ chunks = [chunks EXCEPT ![j.doc] = chunks[j.doc]]
  BY DEF IInv, TypeOK, Job
<1>1. ASSUME JobCommit(j) PROVE Quiet \/ Publishes(j.doc)
  <2>1. CASE Matches(rows[j.doc], "Processing", j.ver)
    <3>1. j.text = Source(rows[j.doc])
      BY <1>1, <2>1 DEF IInv, SnapshotsHold, JobCommit, Matches
    <3> QED BY <1>t, <1>1, <2>1, <3>1 DEF JobCommit, Matches, Publishes, Shifts
  <2>2. CASE ~Matches(rows[j.doc], "Processing", j.ver)
    BY <1>1, <2>2 DEF JobCommit, Quiet
  <2> QED BY <2>1, <2>2
<1>2. ASSUME JobGiveUp(j) PROVE Quiet \/ Fails(j.doc)
  BY <1>t, <1>2, AppTimesType DEF JobGiveUp, Matches, Fails, Shifts, Quiet
<1>3. CASE JobRead(j)
  BY <1>3 DEF JobRead, Quiet
<1>4. CASE JobSkip(j)
  BY <1>4 DEF JobSkip, Quiet
<1>5. CASE JobAck(j)
  BY <1>5 DEF JobAck, Quiet
<1>6. CASE JobAttemptFails(j)
  BY <1>6 DEF JobAttemptFails, Quiet
<1>7. CASE JobStall(j)
  BY <1>7 DEF JobStall, Quiet
<1>8. CASE JobLost(j)
  BY <1>8 DEF JobLost, Quiet
<1> QED BY <1>t, <1>1, <1>2, <1>3, <1>4, <1>5, <1>6, <1>7, <1>8 DEF JobStep, Transaction

LEMMA PurgeTransaction ==
    ASSUME IInv, NEW p \in purges, PurgeStep(p) \/ PurgeError(p)
    PROVE  Quiet \/ \E e \in Docs : Transaction(e)
<1> USE DEF Write
<1>t. /\ p.doc \in Docs
      /\ chunks = [chunks EXCEPT ![p.doc] = chunks[p.doc]]
  BY DEF IInv, TypeOK, Purge
<1>1. ASSUME PurgeClaim(p) PROVE Quiet \/ Claims(p.doc)
  BY <1>t, <1>1 DEF PurgeClaim, Claims, Quiet
<1>2. ASSUME PurgeFinalize(p) PROVE Quiet \/ Erases(p.doc)
  BY <1>2 DEF PurgeFinalize, Erases, Quiet
<1>3. CASE PurgeCheck(p)
  BY <1>3 DEF PurgeCheck, Quiet
<1>4. CASE PurgeUnlink(p)
  BY <1>4 DEF PurgeUnlink, Quiet
<1>5. CASE PurgeError(p)
  BY <1>5 DEF PurgeError, Quiet
<1> QED BY <1>t, <1>1, <1>2, <1>3, <1>4, <1>5 DEF PurgeStep, Transaction

LEMMA EveryStep ==
    ASSUME IInv, [Next]_vars
    PROVE  Quiet \/ \E d \in Docs : Transaction(d)
<1>1. CASE Tick
  BY <1>1 DEF Tick, Quiet
<1>2. CASE UNCHANGED vars
  BY <1>2 DEF vars, Quiet
<1>3. ASSUME NEW d \in Docs, Scan(d) PROVE Quiet
  BY <1>3 DEF Scan, Quiet
<1> QED BY <1>1, <1>2, <1>3, RequestTransaction, CallTransaction, JobTransaction,
           PurgeTransaction DEF Next

-----------------------------------------------------------------------------
(* What the transactions preserve *)

\* A transaction moves the version of its row and touches no other row; only
\* a claim that is already recorded changes nothing.
LEMMA Advance ==
    ASSUME IInv, NEW d \in Docs, Transaction(d), NEW e \in Docs
    PROVE  rows'[e] = rows[e] \/ rows'[e].ver > rows[e].ver
<1> USE DEF Write
<1>t. /\ rows \in [Docs -> Row] /\ rows[d] \in Row /\ rows[d].ver \in Nat
      /\ clock \in Nat
  BY DEF IInv, TypeOK, Row
<1>n. \A now \in Nat : NextVersion(rows[d].ver, now) > rows[d].ver
  BY <1>t, NextVersionType
<1>1. CASE e # d
  BY <1>1, <1>t DEF Transaction, Creates, Edits, Shifts, Publishes, Fails, Retries,
     Deletes, Restores, Claims, Erases
<1>2. CASE e = d
  <2>1. CASE Creates(d)
    <3>1. rows[d].ver = 0
      BY <2>1 DEF Creates, IInv, AbsentIsBlank, Absent
    <3> QED BY <1>t, <1>2, <2>1, <3>1 DEF Creates, Created, Absent
  <2>2. CASE Edits(d)
    BY <1>t, <1>n, <1>2, <2>2 DEF Edits, Edited, Row
  <2>3. ASSUME NEW from \in Status, NEW to \in Status, NEW index, Shifts(d, from, to, index)
        PROVE  rows'[e].ver > rows[e].ver
    BY <1>t, <1>n, <1>2, <2>3 DEF Shifts, Transitioned, Row
  <2>4. CASE Deletes(d)
    BY <1>t, <1>n, <1>2, <2>4 DEF Deletes, SoftDeleted, Row
  <2>5. CASE Restores(d)
    BY <1>t, <1>n, <1>2, <2>5 DEF Restores, Restored, Row
  <2>6. CASE Claims(d)
    BY <1>t, <1>n, <1>2, <2>6 DEF Claims, Claimed, Row
  <2>7. CASE Erases(d)
    BY <1>t, <1>n, <1>2, <2>7 DEF Erases, Purged, Row
  <2> QED BY <2>1, <2>2, <2>3, <2>4, <2>5, <2>6, <2>7
          DEF Transaction, Publishes, Fails, Retries, Status
<1> QED BY <1>1, <1>2

LEMMA RowsAdvance ==
    ASSUME IInv, [Next]_vars, NEW d \in Docs
    PROVE  /\ rows'[d] = rows[d] \/ rows'[d].ver > rows[d].ver
           /\ rows'[d].ver \in Nat /\ rows[d].ver \in Nat
           /\ rows'[d].ver >= rows[d].ver
<1>1. rows'[d] = rows[d] \/ rows'[d].ver > rows[d].ver
  BY EveryStep, Advance DEF Quiet
<1>2. TypeOK /\ TypeOK'
  BY TypeStep DEF IInv
<1>3. rows'[d].ver \in Nat /\ rows[d].ver \in Nat
  BY <1>2 DEF TypeOK, Row
<1> QED BY <1>1, <1>3

\* The part of the invariant that speaks of one row and its chunks.
RowInv(row, index, now) ==
    /\ ~Exists(row) => row = Absent
    /\ ~row.deleted => /\ row.deletedAt = 0 /\ row.purgeAfter = 0
                       /\ ~row.purgeStarted /\ ~row.purged
    /\ row.deleted => row.deletedAt # 0 /\ row.purgeAfter # 0
    /\ row.purged => row.purgeStarted
    /\ row.purgeStarted => row.purgeAfter <= now
    /\ row.purged => index = NoText /\ row.content = NoText
    /\ row.status = "Ready" /\ ~row.purged => index = Source(row)

LEMMA RowInvMeaning ==
    (\A d \in Docs : RowInv(rows[d], chunks[d], clock))
        <=> AbsentIsBlank /\ TrashState /\ PurgedIsBlank /\ ReadyMeansCurrent
BY DEF RowInv, AbsentIsBlank, TrashState, PurgedIsBlank, ReadyMeansCurrent

LEMMA RowInvTransaction ==
    ASSUME IInv, NEW d \in Docs, Transaction(d), NEW e \in Docs
    PROVE  RowInv(rows'[e], chunks'[e], clock)
<1> USE DEF Write
<1>t. /\ rows \in [Docs -> Row] /\ rows[d] \in Row /\ rows[d].ver \in Nat
      /\ rows[d].purgeAfter \in Nat
      /\ chunks \in [Docs -> Texts \cup Keys \cup {NoText, NoKey}]
      /\ clock \in Nat \ {0}
  BY DEF IInv, TypeOK, Row
<1>i. \A f \in Docs : RowInv(rows[f], chunks[f], clock)
  BY RowInvMeaning DEF IInv
<1>1. CASE e # d
  BY <1>1, <1>t, <1>i DEF Transaction, Creates, Edits, Shifts, Publishes, Fails, Retries,
     Deletes, Restores, Claims, Erases
<1>2. CASE e = d
  <2> DEFINE row == rows[d]
  <2>i. RowInv(row, chunks[d], clock)
    BY <1>i
  <2>1. CASE Creates(d)
    BY <1>t, <1>2, <2>1 DEF Creates, Created, Absent, RowInv, Exists
  <2>2. CASE Edits(d)
    BY <1>t, <1>2, <2>i, <2>2 DEF Edits, Edited, Active, Exists, RowInv, Source, Row
  <2>3. CASE Publishes(d)
    BY <1>t, <1>2, <2>i, <2>3 DEF Publishes, Shifts, Transitioned, Active, Exists,
       RowInv, Source, Row
  <2>4. CASE Fails(d)
    BY <1>t, <1>2, <2>i, <2>4 DEF Fails, Shifts, Transitioned, Active, Exists,
       RowInv, Source, Row
  <2>5. CASE Retries(d)
    BY <1>t, <1>2, <2>i, <2>5 DEF Retries, Shifts, Transitioned, Active, Exists,
       RowInv, Source, Row
  <2>6. CASE Deletes(d)
    <3>1. clock + Retention \in Nat \ {0}
      BY <1>t, RetentionAssumption
    <3> QED BY <1>t, <1>2, <2>i, <2>6, <3>1 DEF Deletes, SoftDeleted, Active, Exists,
            RowInv, Source, Row
  <2>7. CASE Restores(d)
    BY <1>t, <1>2, <2>i, <2>7 DEF Restores, Restored, Restorable, Exists, RowInv,
       Source, Row, Absent
  <2>8. CASE Claims(d)
    BY <1>t, <1>2, <2>i, <2>8 DEF Claims, Claimed, Expired, Exists, RowInv,
       Source, Row, Absent
  <2>9. CASE Erases(d)
    BY <1>t, <1>2, <2>i, <2>9 DEF Erases, Purged, Exists, RowInv, Row, Absent
  <2> QED BY <2>1, <2>2, <2>3, <2>4, <2>5, <2>6, <2>7, <2>8, <2>9 DEF Transaction
<1> QED BY <1>1, <1>2

\* Only Tick moves the clock, and it leaves the rows alone.
LEMMA ClockStep ==
    ASSUME TypeOK, [Next]_vars
    PROVE  clock' = clock \/ (clock' = clock + 1 /\ Quiet)
<1>1. CASE Tick
  BY <1>1 DEF Tick, Quiet
<1>2. CASE UNCHANGED vars
  BY <1>2 DEF vars
<1>3. ASSUME NEW r \in Requests, NEW d \in Docs, Request(r, d) PROVE clock' = clock
  <2>1. ASSUME NEW k \in Keys, NEW text \in Texts \cup {NoText}, CreateDocument(r, d, k, text)
        PROVE  clock' = clock
    BY <2>1 DEF CreateDocument
  <2>2. ASSUME NEW k \in Keys \cup {NoKey}, UpdateRead(r, d, k) PROVE clock' = clock
    BY <2>2 DEF UpdateRead
  <2>3. CASE RetryRead(r, d)
    BY <2>3 DEF RetryRead
  <2>4. CASE DeleteDocument(r, d)
    BY <2>4 DEF DeleteDocument
  <2>5. CASE RestoreDocument(r, d)
    BY <2>5 DEF RestoreDocument
  <2> QED BY <1>3, <2>1, <2>2, <2>3, <2>4, <2>5 DEF Request
<1>4. ASSUME NEW c \in calls, CallStep(c) \/ LoseCall(c) PROVE clock' = clock
  <2>1. ASSUME NEW text \in Texts \cup {NoText, Keep}, UpdateCommit(c, text)
        PROVE  clock' = clock
    BY <2>1 DEF UpdateCommit
  <2>2. CASE UpdateReject(c) \/ RetryClaim(c) \/ RetryLost(c)
    BY <2>2 DEF UpdateReject, RetryClaim, RetryLost
  <2>3. CASE Enqueue(c) \/ EnqueueError(c) \/ EnqueueRollback(c)
    BY <2>3 DEF Enqueue, EnqueueError, EnqueueRollback
  <2>4. CASE CheckReplaced(c) \/ UnlinkReplaced(c) \/ LoseCall(c)
    BY <2>4 DEF CheckReplaced, UnlinkReplaced, LoseCall
  <2> QED BY <1>4, <2>1, <2>2, <2>3, <2>4 DEF CallStep
<1>5. ASSUME NEW j \in jobs, JobStep(j) \/ JobStall(j) \/ JobLost(j) PROVE clock' = clock
  <2>1. CASE JobRead(j) \/ JobSkip(j) \/ JobCommit(j) \/ JobAck(j)
    BY <2>1 DEF JobRead, JobSkip, JobCommit, JobAck
  <2>2. CASE JobAttemptFails(j) \/ JobGiveUp(j) \/ JobStall(j) \/ JobLost(j)
    BY <2>2 DEF JobAttemptFails, JobGiveUp, JobStall, JobLost
  <2> QED BY <1>5, <2>1, <2>2 DEF JobStep
<1>6. ASSUME NEW d \in Docs, Scan(d) PROVE clock' = clock
  BY <1>6 DEF Scan
<1>7. ASSUME NEW p \in purges, PurgeStep(p) \/ PurgeError(p) PROVE clock' = clock
  <2>1. CASE PurgeClaim(p) \/ PurgeCheck(p) \/ PurgeUnlink(p)
    BY <2>1 DEF PurgeClaim, PurgeCheck, PurgeUnlink
  <2>2. CASE PurgeFinalize(p) \/ PurgeError(p)
    BY <2>2 DEF PurgeFinalize, PurgeError
  <2> QED BY <1>7, <2>1, <2>2 DEF PurgeStep
<1> QED BY <1>1, <1>2, <1>3, <1>4, <1>5, <1>6, <1>7 DEF Next

LEMMA RowsStep ==
    ASSUME IInv, [Next]_vars
    PROVE  (AbsentIsBlank /\ TrashState /\ PurgedIsBlank /\ ReadyMeansCurrent)'
<1>t. TypeOK /\ clock \in Nat
  BY DEF IInv, TypeOK
<1>i. \A d \in Docs : RowInv(rows[d], chunks[d], clock)
  BY RowInvMeaning DEF IInv
<1>1. ASSUME NEW d \in Docs PROVE RowInv(rows'[d], chunks'[d], clock')
  <2>1. CASE Quiet
    <3>1. rows[d].purgeAfter \in Nat
      BY <1>t DEF TypeOK, Row
    <3>2. clock' = clock \/ clock' = clock + 1
      BY <1>t, ClockStep
    <3> QED BY <1>t, <1>i, <2>1, <3>1, <3>2 DEF Quiet, RowInv
  <2>2. CASE ~Quiet
    BY <1>t, <2>2, EveryStep, RowInvTransaction, ClockStep
  <2> QED BY <2>1, <2>2
<1> QED BY <1>1 DEF RowInv, AbsentIsBlank, TrashState, PurgedIsBlank, ReadyMeansCurrent

-----------------------------------------------------------------------------
(* What handlers and jobs know *)

KnownCall(c, table) == c.ver <= table[c.doc].ver

KnownJob(j, table) ==
    /\ j.ver <= table[j.doc].ver
    /\ j.pc = "indexing" /\ j.ver = table[j.doc].ver => j.text = Source(table[j.doc])

InFlight == /\ \A c \in calls : KnownCall(c, rows)
            /\ \A j \in jobs : KnownJob(j, rows)

LEMMA InFlightMeaning == InFlight <=> VersionsKnown /\ SnapshotsHold
BY DEF InFlight, KnownCall, KnownJob, VersionsKnown, SnapshotsHold

\* What was known before a step is known after it: a version that still
\* matches means that the row has not changed.
LEMMA KnowledgeStays ==
    ASSUME IInv, [Next]_vars
    PROVE  /\ \A c \in calls : KnownCall(c, rows')
           /\ \A j \in jobs : KnownJob(j, rows')
<1>t. InFlight /\ calls \subseteq Call /\ jobs \subseteq Job
  BY InFlightMeaning DEF IInv, TypeOK
<1>1. ASSUME NEW c \in calls PROVE KnownCall(c, rows')
  <2>1. c.doc \in Docs /\ c.ver \in Nat /\ KnownCall(c, rows)
    BY <1>t DEF Call, InFlight
  <2> QED BY <2>1, RowsAdvance DEF KnownCall
<1>2. ASSUME NEW j \in jobs PROVE KnownJob(j, rows')
  <2>1. j.doc \in Docs /\ j.ver \in Nat /\ KnownJob(j, rows)
    BY <1>t DEF Job, InFlight
  <2> QED BY <2>1, RowsAdvance DEF KnownJob
<1> QED BY <1>1, <1>2

LEMMA RequestKnows ==
    ASSUME IInv, [Next]_vars, NEW r \in Requests, NEW d \in Docs, Request(r, d)
    PROVE  InFlight'
<1>s. /\ \A c \in calls : KnownCall(c, rows')
      /\ \A j \in jobs : KnownJob(j, rows')
  BY KnowledgeStays
<1>t. rows \in [Docs -> Row] /\ rows[d].ver \in Nat
  BY DEF IInv, TypeOK, Row
<1>1. ASSUME NEW k \in Keys, NEW text \in Texts \cup {NoText}, CreateDocument(r, d, k, text)
      PROVE  InFlight'
  <2>1. PICK now \in AppTimes :
            /\ rows' = [rows EXCEPT ![d] = Created(k, text, now)]
            /\ calls' = calls \cup {[id |-> r, doc |-> d, ver |-> now, pc |-> "enqueue",
                                     old |-> NoKey, new |-> NoKey]}
    BY <1>1 DEF CreateDocument
  <2>2. now \in Nat /\ rows'[d].ver = now
    BY <1>t, <2>1, AppTimesType DEF Created, Absent, IInv
  <2> DEFINE x == [id |-> r, doc |-> d, ver |-> now, pc |-> "enqueue",
                   old |-> NoKey, new |-> NoKey]
  <2>3. x.doc = d /\ x.ver = now /\ now <= now
    BY <2>2
  <2>4. KnownCall(x, rows')
    <3> HIDE DEF x
    <3> QED BY <2>2, <2>3 DEF KnownCall
  <2>5. calls' = calls \cup {x} /\ jobs' = jobs
    BY <1>1, <2>1 DEF CreateDocument
  <2> HIDE DEF x
  <2> QED BY <1>s, <2>4, <2>5 DEF InFlight
<1>2. ASSUME NEW k \in Keys \cup {NoKey}, UpdateRead(r, d, k) PROVE InFlight'
  BY <1>s, <1>t, <1>2 DEF UpdateRead, InFlight, KnownCall
<1>3. CASE RetryRead(r, d)
  BY <1>s, <1>t, <1>3 DEF RetryRead, InFlight, KnownCall
<1>4. CASE DeleteDocument(r, d)
  BY <1>s, <1>4 DEF DeleteDocument, InFlight
<1>5. CASE RestoreDocument(r, d)
  BY <1>s, <1>5 DEF RestoreDocument, InFlight
<1> QED BY <1>1, <1>2, <1>3, <1>4, <1>5 DEF Request

LEMMA CallKnows ==
    ASSUME IInv, [Next]_vars, NEW c \in calls, CallStep(c) \/ LoseCall(c)
    PROVE  InFlight'
<1>s. /\ \A x \in calls : KnownCall(x, rows')
      /\ \A j \in jobs : KnownJob(j, rows')
  BY KnowledgeStays
<1>t. /\ TypeOK /\ rows \in [Docs -> Row] /\ c \in Call /\ c.doc \in Docs
      /\ c.ver \in Nat /\ rows[c.doc] \in Row
  BY DEF IInv, TypeOK, Call
<1>j. KnownCall(c, rows') => KnownJob(NewJob(c.doc, c.ver), rows')
  BY DEF KnownCall, KnownJob, NewJob
<1>c. ASSUME NEW pc
      PROVE  KnownCall(c, rows') => KnownCall([c EXCEPT !.pc = pc], rows')
  BY <1>t DEF KnownCall, Call
<1>a. \A x \in AfterEnqueue(c) : KnownCall(x, rows')
  BY <1>s, <1>c DEF AfterEnqueue, Move
<1>n. ASSUME NEW row, rows' = [rows EXCEPT ![c.doc] = row], NEW old, NEW new, row.ver \in Nat
      PROVE  KnownCall([c EXCEPT !.pc = "enqueue", !.ver = row.ver, !.old = old,
                                 !.new = new], rows')
  <2> DEFINE ver == row.ver
  <2> DEFINE x == [c EXCEPT !.pc = "enqueue", !.ver = ver, !.old = old, !.new = new]
  <2>1. rows'[c.doc].ver = ver
    BY <1>t, <1>n
  <2>2. x.ver = ver /\ x.doc = c.doc
    BY <1>t DEF Call
  <2>3. ver <= ver
    BY <1>n
  <2> QED BY <2>1, <2>2, <2>3 DEF KnownCall
<1>1. ASSUME NEW text \in Texts \cup {NoText, Keep}, UpdateCommit(c, text)
      PROVE  InFlight'
  <2> DEFINE row == Edited(rows[c.doc], text, c.new, clock)
             stale == IF c.new \in {NoKey, c.old} THEN NoKey ELSE c.old
             x == [c EXCEPT !.pc = "enqueue", !.ver = row.ver, !.old = stale, !.new = NoKey]
  <2>1. row \in Row /\ row.ver \in Nat
    BY <1>t, EditedType DEF Call, IInv, TypeOK, Row
  <2>2. rows' = [rows EXCEPT ![c.doc] = row] /\ calls' \subseteq calls \cup {x}
        /\ jobs' = jobs
    BY <1>1 DEF UpdateCommit, Move
  <2>3. KnownCall(x, rows')
    <3> HIDE DEF row, stale
    <3> QED BY <1>n, <2>1, <2>2
  <2> QED BY <1>s, <2>2, <2>3 DEF InFlight
<1>2. CASE RetryClaim(c)
  <2>1. PICK now \in AppTimes :
            LET new == Transitioned(rows[c.doc], "Processing", now)
            IN  /\ rows' = [rows EXCEPT ![c.doc] = new]
                /\ calls' = Move(calls, c, [c EXCEPT !.pc = "enqueue", !.ver = new.ver])
    BY <1>2 DEF RetryClaim
  <2> DEFINE row == Transitioned(rows[c.doc], "Processing", now)
             ver == row.ver
             x == [c EXCEPT !.pc = "enqueue", !.ver = ver]
  <2>2. row \in Row /\ ver \in Nat
    BY <1>t, AppTimesType, TransitionedType DEF Status, Row
  <2>3. rows'[c.doc].ver = ver
    BY <1>t, <2>1
  <2>4. x.ver = ver /\ x.doc = c.doc
    <3> HIDE DEF ver
    <3> QED BY <1>t DEF Call
  <2>5. KnownCall(x, rows')
    <3> HIDE DEF x, ver
    <3> QED BY <2>2, <2>3, <2>4 DEF KnownCall
  <2>6. calls' \subseteq calls \cup {x} /\ jobs' = jobs
    BY <1>2, <2>1 DEF RetryClaim, Move
  <2> QED BY <1>s, <2>5, <2>6 DEF InFlight
<1>3. CASE Enqueue(c)
  BY <1>s, <1>j, <1>a, <1>3 DEF Enqueue, InFlight
<1>4. CASE EnqueueError(c)
  BY <1>s, <1>j, <1>c, <1>4 DEF EnqueueError, Move, InFlight
<1>5. CASE EnqueueRollback(c)
  BY <1>s, <1>a, <1>5 DEF EnqueueRollback, InFlight
<1>6. CASE UpdateReject(c) \/ RetryLost(c) \/ LoseCall(c) \/ UnlinkReplaced(c)
  BY <1>s, <1>6 DEF UpdateReject, RetryLost, LoseCall, UnlinkReplaced, InFlight
<1>7. CASE CheckReplaced(c)
  BY <1>s, <1>c, <1>7 DEF CheckReplaced, Move, InFlight
<1> QED BY <1>1, <1>2, <1>3, <1>4, <1>5, <1>6, <1>7 DEF CallStep

LEMMA JobKnows ==
    ASSUME IInv, [Next]_vars, NEW j \in jobs, JobStep(j) \/ JobStall(j) \/ JobLost(j)
    PROVE  InFlight'
<1>s. /\ \A c \in calls : KnownCall(c, rows')
      /\ \A x \in jobs : KnownJob(x, rows')
  BY KnowledgeStays
<1>t. /\ rows \in [Docs -> Row] /\ j \in Job /\ j.doc \in Docs /\ j.ver \in Nat
      /\ rows[j.doc].ver \in Nat
  BY DEF IInv, TypeOK, Job, Row
<1>k. j.ver <= rows'[j.doc].ver
  BY <1>s DEF KnownJob
<1>i. ASSUME NEW x \in Job, x.doc = j.doc, x.ver = j.ver, x.pc # "indexing"
      PROVE  KnownJob(x, rows')
  BY <1>k, <1>i DEF KnownJob
<1>1. CASE JobRead(j)
  <2> DEFINE x == [j EXCEPT !.pc = "indexing", !.ver = Expected(j),
                            !.text = Source(rows[j.doc])]
  <2>1. Expected(j) = rows[j.doc].ver
    BY <1>1 DEF JobRead, Matches
  <2>2. /\ x.ver = Expected(j) /\ x.doc = j.doc
        /\ x.text = Source(rows[j.doc])
    BY <1>t DEF Job
  <2>3. rows' = rows /\ calls' = calls /\ jobs' \subseteq jobs \cup {x}
    BY <1>1 DEF JobRead, Move
  <2>4. KnownJob(x, rows')
    <3> HIDE DEF x
    <3> QED BY <1>t, <2>1, <2>2, <2>3 DEF KnownJob
  <2> QED BY <1>s, <2>3, <2>4 DEF InFlight
<1>2. CASE JobSkip(j) \/ JobAck(j) \/ JobGiveUp(j) \/ JobLost(j)
  BY <1>s, <1>2 DEF JobSkip, JobAck, JobGiveUp, JobLost, InFlight
<1>3. CASE JobCommit(j)
  <2> DEFINE x == [j EXCEPT !.pc = "committed", !.text = NoText]
  <2>1. x \in Job /\ x.doc = j.doc /\ x.ver = j.ver /\ x.pc # "indexing"
    BY <1>t DEF Job
  <2>2. calls' = calls /\ jobs' \subseteq jobs \cup {x}
    BY <1>3 DEF JobCommit, Move
  <2> QED BY <1>s, <1>i, <2>1, <2>2 DEF InFlight
<1>4. CASE JobAttemptFails(j)
  <2> DEFINE made == j.made + 1
             pc == IF made < Attempts THEN "waiting" ELSE "failed"
             x == [j EXCEPT !.made = made, !.text = NoText, !.pc = pc]
  <2>1. made \in Nat /\ pc \in {"waiting", "failed"}
    BY <1>t DEF Job
  <2>2. x \in Job /\ x.doc = j.doc /\ x.ver = j.ver /\ x.pc # "indexing"
    <3> HIDE DEF made, pc
    <3> QED BY <1>t, <2>1 DEF Job
  <2>3. calls' = calls /\ jobs' \subseteq jobs \cup {x}
    BY <1>4 DEF JobAttemptFails, Move
  <2> QED BY <1>s, <1>i, <2>2, <2>3 DEF InFlight
<1>5. CASE JobStall(j)
  <2> DEFINE stalls == j.stalls + 1
             x == [j EXCEPT !.pc = "waiting", !.stalls = stalls, !.text = NoText]
  <2>1. stalls \in Nat
    BY <1>t DEF Job
  <2>2. x \in Job /\ x.doc = j.doc /\ x.ver = j.ver /\ x.pc # "indexing"
    <3> HIDE DEF stalls
    <3> QED BY <1>t, <2>1 DEF Job
  <2>3. calls' = calls /\ jobs' \subseteq jobs \cup {x}
    BY <1>5 DEF JobStall, Move
  <2> QED BY <1>s, <1>i, <2>2, <2>3 DEF InFlight
<1> QED BY <1>1, <1>2, <1>3, <1>4, <1>5 DEF JobStep

LEMMA InFlightStep == ASSUME IInv, [Next]_vars PROVE InFlight'
<1>1. ASSUME calls' = calls, jobs' = jobs PROVE InFlight'
  BY <1>1, KnowledgeStays DEF InFlight
<1>2. ASSUME NEW p \in purges, PurgeStep(p) \/ PurgeError(p)
      PROVE  calls' = calls /\ jobs' = jobs
  <2>1. CASE PurgeClaim(p) \/ PurgeCheck(p) \/ PurgeUnlink(p)
    BY <2>1 DEF PurgeClaim, PurgeCheck, PurgeUnlink
  <2>2. CASE PurgeFinalize(p) \/ PurgeError(p)
    BY <2>2 DEF PurgeFinalize, PurgeError
  <2> QED BY <1>2, <2>1, <2>2 DEF PurgeStep
<1>3. CASE Tick
  BY <1>1, <1>3 DEF Tick
<1>4. CASE UNCHANGED vars
  BY <1>1, <1>4 DEF vars
<1>5. ASSUME NEW d \in Docs, Scan(d) PROVE InFlight'
  BY <1>1, <1>5 DEF Scan
<1> QED BY <1>1, <1>2, <1>3, <1>4, <1>5, RequestKnows, CallKnows, JobKnows DEF Next

-----------------------------------------------------------------------------
(* The theorems *)

LEMMA InitIInv == Init => IInv
<1> SUFFICES ASSUME Init PROVE IInv
  OBVIOUS
<1>1. TypeOK
  BY InitType
<1>2. ASSUME NEW d \in Docs PROVE RowInv(rows[d], chunks[d], clock)
  <2>1. CASE d \in Seeds
    BY <2>1 DEF Init, SeedRow, Created, Absent, Exists, RowInv, Source
  <2>2. CASE d \notin Seeds
    BY <2>2 DEF Init, Absent, Exists, RowInv
  <2> QED BY <2>1, <2>2
<1>3. InFlight
  <2>1. \A d \in BusySeeds : KnownJob(NewJob(d, 0), rows)
    BY <1>1, SeedsAssumption DEF KnownJob, NewJob, TypeOK, Row
  <2> QED BY <2>1 DEF Init, LegacyJob, InFlight
<1> QED BY <1>1, <1>2, <1>3, RowInvMeaning, InFlightMeaning DEF IInv

LEMMA IInvStep == IInv /\ [Next]_vars => IInv'
<1> SUFFICES ASSUME IInv, [Next]_vars PROVE IInv'
  OBVIOUS
<1>1. TypeOK'
  BY TypeStep DEF IInv
<1>2. (VersionsKnown /\ SnapshotsHold)'
  BY InFlightStep DEF InFlight, KnownCall, KnownJob, VersionsKnown, SnapshotsHold
<1> QED BY <1>1, <1>2, RowsStep DEF IInv

LEMMA Invariance == Spec => []IInv
BY InitIInv, IInvStep, PTL DEF Spec

(***************************************************************************)
(* Whatever edits, retries, deletions and late workers interleave, the     *)
(* chunks of a Ready document are those of its present text (addChunks).   *)
(***************************************************************************)
THEOREM ReadyIsCurrent == Spec => []ReadyMeansCurrent
<1>1. IInv => ReadyMeansCurrent
  BY DEF IInv
<1> QED BY <1>1, Invariance, PTL

(***************************************************************************)
(* The CHECK constraint on the trash columns is never what stops a         *)
(* transaction, and a purge is claimed only after the deadline.            *)
(***************************************************************************)
THEOREM TrashIsConsistent == Spec => []TrashState
<1>1. IInv => TrashState
  BY DEF IInv
<1> QED BY <1>1, Invariance, PTL

(***************************************************************************)
(* Every transaction that changes a row moves its version forward, for any *)
(* skew of the two clocks (nextDocumentVersion).                           *)
(***************************************************************************)
THEOREM VersionsMonotone == Spec => VersionsAdvance
<1>1. IInv /\ [Next]_vars => [\A d \in Docs : rows'[d] # rows[d] => rows'[d].ver > rows[d].ver]_vars
  BY RowsAdvance
<1> QED BY <1>1, Invariance, PTL DEF Spec, VersionsAdvance

LEMMA OutcomeTransaction ==
    ASSUME IInv, NEW d \in Docs, Transaction(d), NEW e \in Docs,
           rows[e].status \in {"Ready", "Failed"}
    PROVE  rows'[e].status \in {rows[e].status, "Processing"}
<1> USE DEF Write
<1>t. rows \in [Docs -> Row] /\ rows[d] \in Row
  BY DEF IInv, TypeOK
<1>1. CASE e # d
  BY <1>1, <1>t DEF Transaction, Creates, Edits, Shifts, Publishes, Fails, Retries,
     Deletes, Restores, Claims, Erases
<1>2. CASE e = d
  <2>1. CASE Creates(d)
    BY <1>2, <2>1 DEF Creates, Exists
  <2>5. CASE Edits(d)
    BY <1>t, <1>2, <2>5 DEF Edits, Edited, Row
  <2>2. CASE Publishes(d) \/ Fails(d) \/ Retries(d)
    BY <1>t, <1>2, <2>2 DEF Publishes, Fails, Retries, Shifts, Transitioned, Row
  <2>3. CASE Deletes(d) \/ Restores(d)
    BY <1>t, <1>2, <2>3 DEF Deletes, SoftDeleted, Restores, Restored, Row
  <2>4. CASE Claims(d)
    BY <1>t, <1>2, <2>4 DEF Claims, Claimed, Row
  <2>6. CASE Erases(d)
    BY <1>t, <1>2, <2>6 DEF Erases, Purged, Row
  <2> QED BY <2>1, <2>2, <2>3, <2>4, <2>5, <2>6 DEF Transaction
<1> QED BY <1>1, <1>2

(***************************************************************************)
(* No late worker, rollback or cleanup overturns a settled outcome.        *)
(***************************************************************************)
THEOREM OutcomesStand == Spec => OutcomeStands
<1>1. IInv /\ [Next]_vars =>
        [\A d \in Docs : rows[d].status \in {"Ready", "Failed"}
            => rows'[d].status \in {rows[d].status, "Processing"}]_vars
  BY EveryStep, OutcomeTransaction DEF Quiet
<1> QED BY <1>1, Invariance, PTL DEF Spec, OutcomeStands

LEMMA PurgedStays ==
    ASSUME IInv, NEW d \in Docs, Transaction(d), NEW e \in Docs, rows[e].purged
    PROVE  rows'[e] = rows[e]
<1> USE DEF Write
<1>t. rows \in [Docs -> Row]
  BY DEF IInv, TypeOK
<1>1. CASE e # d
  BY <1>1, <1>t DEF Transaction, Creates, Edits, Shifts, Publishes, Fails, Retries,
     Deletes, Restores, Claims, Erases
<1>2. CASE e = d
  <2>1. Exists(rows[d]) /\ rows[d].deleted
    BY <1>2 DEF IInv, AbsentIsBlank, TrashState, Absent
  <2> QED BY <1>2, <2>1 DEF Transaction, Creates, Edits, Shifts, Publishes, Fails,
          Retries, Deletes, Restores, Claims, Erases, Active, Restorable, Expired
<1> QED BY <1>1, <1>2

(***************************************************************************)
(* Nothing touches a purged document, and a purge leaves no text behind.   *)
(***************************************************************************)
THEOREM PurgesAreFinal == Spec => PurgeIsFinal
<1>1. ASSUME IInv, [Next]_vars, NEW d \in Docs
      PROVE  /\ rows[d].purged => rows'[d] = rows[d]
             /\ rows'[d].purged => chunks'[d] = NoText /\ rows'[d].content = NoText
  <2>1. PurgedIsBlank'
    BY <1>1, RowsStep
  <2> QED BY <1>1, <2>1, EveryStep, PurgedStays DEF Quiet, PurgedIsBlank
<1>2. IInv /\ [Next]_vars =>
        [\A d \in Docs :
            /\ rows[d].purged => rows'[d] = rows[d]
            /\ rows'[d].purged => chunks'[d] = NoText /\ rows'[d].content = NoText]_vars
  BY <1>1
<1> QED BY <1>2, Invariance, PTL DEF Spec, PurgeIsFinal

-----------------------------------------------------------------------------
(* The contract *)

LEMMA InitContract == Init => Contract!Init
<1> SUFFICES ASSUME Init PROVE Contract!Init
  OBVIOUS
<1>1. IInv
  BY InitIInv
<1>2. \A d \in Docs : /\ rows[d].status \in {"None", "Processing", "Ready"}
                       /\ TrashOf(rows[d]) = "active"
                       /\ Source(rows[d]) \in Texts \cup Keys \cup {NoKey}
                       /\ chunks[d] = IF rows[d].status = "Ready" THEN Source(rows[d])
                                      ELSE NoText
  <2>1. ASSUME NEW d \in Seeds
        PROVE  /\ rows[d].status \in {"Processing", "Ready"}
               /\ rows[d].status = "Ready" <=> d \notin BusySeeds
               /\ rows[d].content = NoText /\ rows[d].key = SeedKey
               /\ ~rows[d].deleted /\ ~rows[d].purged /\ ~rows[d].purgeStarted
    BY <2>1, SeedsAssumption DEF Init, SeedRow, Created, Absent
  <2>2. ASSUME NEW d \in Docs \ Seeds
        PROVE  rows[d] = Absent /\ chunks[d] = NoText
    BY <2>2 DEF Init
  <2>3. \A d \in Seeds : chunks[d] = IF d \in BusySeeds THEN NoText ELSE SeedKey
    BY SeedsAssumption DEF Init
  <2> QED BY <2>1, <2>2, <2>3, SeedsAssumption DEF TrashOf, Source, Absent
<1>3. chunks = [d \in Docs |-> chunks[d]]
  BY <1>1 DEF IInv, TypeOK
<1> QED BY <1>2, <1>3 DEF Contract!Init

\* What a write of one row changes of the contract's variables.
LEMMA ContractWrite ==
    ASSUME IInv, NEW d \in Docs, NEW row, NEW index, Write(d, row, index)
    PROVE  /\ [e \in Docs |-> rows'[e].status]
                = [[e \in Docs |-> rows[e].status] EXCEPT ![d] = row.status]
           /\ [e \in Docs |-> TrashOf(rows'[e])]
                = [[e \in Docs |-> TrashOf(rows[e])] EXCEPT ![d] = TrashOf(row)]
           /\ [e \in Docs |-> Source(rows'[e])]
                = [[e \in Docs |-> Source(rows[e])] EXCEPT ![d] = Source(row)]
           /\ chunks' = [chunks EXCEPT ![d] = index]
<1>1. rows \in [Docs -> Row]
  BY DEF IInv, TypeOK
<1>2. rows'[d] = row /\ \A e \in Docs \ {d} : rows'[e] = rows[e]
  BY <1>1 DEF Write
<1>3. [e \in Docs |-> rows'[e].status]
        = [[e \in Docs |-> rows[e].status] EXCEPT ![d] = row.status]
  BY <1>2
<1>4. [e \in Docs |-> TrashOf(rows'[e])]
        = [[e \in Docs |-> TrashOf(rows[e])] EXCEPT ![d] = TrashOf(row)]
  BY <1>2
<1>5. [e \in Docs |-> Source(rows'[e])]
        = [[e \in Docs |-> Source(rows[e])] EXCEPT ![d] = Source(row)]
  BY <1>2
<1> QED BY <1>3, <1>4, <1>5 DEF Write

LEMMA ContractTransaction ==
    ASSUME IInv, NEW d \in Docs, Transaction(d)
    PROVE  Contract!Next \/ UNCHANGED Contract!vars
<1> DEFINE row == rows[d]
           Change(status, trash, source, index) ==
             /\ [e \in Docs |-> rows'[e].status]
                  = [[e \in Docs |-> rows[e].status] EXCEPT ![d] = status]
             /\ [e \in Docs |-> TrashOf(rows'[e])]
                  = [[e \in Docs |-> TrashOf(rows[e])] EXCEPT ![d] = trash]
             /\ [e \in Docs |-> Source(rows'[e])]
                  = [[e \in Docs |-> Source(rows[e])] EXCEPT ![d] = source]
             /\ chunks' = [chunks EXCEPT ![d] = index]
<1>t. row \in Row /\ chunks = [chunks EXCEPT ![d] = chunks[d]]
  BY DEF IInv, TypeOK
<1>i. RowInv(row, chunks[d], clock)
  BY RowInvMeaning DEF IInv
<1>a. ~row.deleted => TrashOf(row) = "active"
  BY <1>i DEF RowInv, TrashOf
<1>v. Source(row) \in Texts \cup Keys \cup {NoKey}
  BY <1>t DEF Source, Row
<1>w. ASSUME NEW new, NEW index, Write(d, new, index)
      PROVE  Change(new.status, TrashOf(new), Source(new), index)
  BY <1>w, ContractWrite DEF Write
<1>s. ASSUME Change(row.status, TrashOf(row), Source(row), chunks[d])
      PROVE  UNCHANGED Contract!vars
  BY <1>t, <1>s DEF Contract!vars
<1>1. ASSUME NEW value \in Texts \cup Keys \cup {NoKey}, ~row.deleted,
             Change("Processing", "active", value, chunks[d])
      PROVE  Contract!Submit(d)
  BY <1>t, <1>a, <1>1 DEF Contract!Submit
<1>2. CASE Creates(d)
  <2>1. PICK k \in Keys, text \in Texts \cup {NoText}, now \in Nat \ {0} :
            Write(d, Created(k, text, now), chunks[d])
    BY <1>2 DEF Creates
  <2> DEFINE new == Created(k, text, now)
  <2>2. new.status = "Processing" /\ TrashOf(new) = "active"
    BY DEF Created, Absent, TrashOf
  <2>3. Source(new) \in Texts \cup Keys \cup {NoKey}
    BY DEF Created, Absent, Source
  <2>4. ~row.deleted
    BY <1>2, <1>i DEF Creates, RowInv, Absent
  <2>5. Change("Processing", "active", Source(new), chunks[d])
    BY <1>w, <2>1, <2>2
  <2> HIDE DEF new
  <2> QED BY <1>1, <2>3, <2>4, <2>5 DEF Contract!Next
<1>3. CASE Edits(d)
  <2>1. PICK k \in Keys \cup {NoKey}, text \in Texts \cup {NoText, Keep}, now \in Nat :
            Write(d, Edited(row, text, k, now), chunks[d])
    BY <1>3 DEF Edits
  <2> DEFINE new == Edited(row, text, k, now)
  <2>2. ~row.deleted
    BY <1>3 DEF Edits, Active
  <2>3. TrashOf(new) = TrashOf(row)
    BY <1>t DEF Edited, TrashOf, Row
  <2>4. Change(new.status, TrashOf(new), Source(new), chunks[d])
    BY <1>w, <2>1
  <2>5. CASE text = Keep /\ k = NoKey
    <3>1. new.status = row.status /\ Source(new) = Source(row)
      BY <1>t, <2>5 DEF Edited, Source, Row
    <3> QED BY <1>s, <2>3, <2>4, <3>1
  <2>6. CASE ~(text = Keep /\ k = NoKey)
    <3>1. new.status = "Processing"
      BY <1>t, <2>6 DEF Edited, Row
    <3>2. Source(new) \in Texts \cup Keys \cup {NoKey}
      BY <1>t DEF Edited, Source, Row
    <3> HIDE DEF new
    <3> QED BY <1>1, <1>a, <2>2, <2>3, <2>4, <3>1, <3>2 DEF Contract!Next
  <2> QED BY <2>5, <2>6
<1>4. ASSUME NEW from \in Status, NEW to \in Status, NEW index, Shifts(d, from, to, index)
      PROVE  /\ row.status = from /\ TrashOf(row) = "active"
             /\ Change(to, "active", Source(row), index)
  <2>1. PICK now \in Nat : Write(d, Transitioned(row, to, now), index)
    BY <1>4 DEF Shifts
  <2> DEFINE new == Transitioned(row, to, now)
  <2>2. TrashOf(row) = "active"
    BY <1>a, <1>4 DEF Shifts, Active
  <2>3. new.status = to /\ TrashOf(new) = TrashOf(row) /\ Source(new) = Source(row)
    BY <1>t DEF Transitioned, TrashOf, Source, Row
  <2>4. Change(new.status, TrashOf(new), Source(new), index)
    BY <1>w, <2>1
  <2> QED BY <1>4, <2>2, <2>3, <2>4 DEF Shifts
<1>5. CASE Publishes(d)
  <2>1. row.status = "Processing" /\ TrashOf(row) = "active"
        /\ Change("Ready", "active", Source(row), Source(row))
    BY <1>4, <1>5 DEF Publishes, Status
  <2>2. Contract!Publish(d)
    BY <2>1 DEF Contract!Publish
  <2> QED BY <2>2 DEF Contract!Next
<1>6. CASE Fails(d)
  <2>1. row.status = "Processing" /\ TrashOf(row) = "active"
        /\ Change("Failed", "active", Source(row), chunks[d])
    BY <1>4, <1>6 DEF Fails, Status
  <2>2. Contract!GiveUp(d)
    BY <1>t, <2>1 DEF Contract!GiveUp
  <2> QED BY <2>2 DEF Contract!Next
<1>7. CASE Retries(d)
  <2>1. row.status = "Failed" /\ TrashOf(row) = "active"
        /\ Change("Processing", "active", Source(row), chunks[d])
    BY <1>4, <1>7 DEF Retries, Status
  <2>2. Contract!Retry(d)
    BY <1>t, <2>1 DEF Contract!Retry
  <2> QED BY <2>2 DEF Contract!Next
<1>8. CASE Deletes(d)
  <2> DEFINE new == SoftDeleted(row, clock)
  <2>1. row.status # "None" /\ TrashOf(row) = "active" /\ ~row.purged /\ ~row.purgeStarted
    BY <1>a, <1>i, <1>8 DEF Deletes, Active, Exists, RowInv
  <2>2. /\ new.status = row.status /\ TrashOf(new) = "trashed"
        /\ Source(new) = Source(row)
    BY <1>t, <2>1 DEF SoftDeleted, TrashOf, Source, Row
  <2>3. Change(new.status, TrashOf(new), Source(new), chunks[d])
    BY <1>w, <1>8 DEF Deletes
  <2>4. Change(row.status, "trashed", Source(row), chunks[d])
    BY <2>2, <2>3
  <2>5. Contract!Discard(d)
    BY <1>t, <2>1, <2>4 DEF Contract!Discard
  <2> QED BY <2>5 DEF Contract!Next
<1>9. CASE Restores(d)
  <2> DEFINE new == Restored(row, clock)
             status == IF row.status = "Processing" THEN "Failed" ELSE row.status
  <2>1. TrashOf(row) = "trashed"
    BY <1>9 DEF Restores, Restorable, TrashOf
  <2>2. new.status = status /\ TrashOf(new) = "active" /\ Source(new) = Source(row)
    BY <1>t DEF Restored, TrashOf, Source, Row
  <2>3. Change(new.status, TrashOf(new), Source(new), chunks[d])
    BY <1>w, <1>9 DEF Restores
  <2>4. Change(status, "active", Source(row), chunks[d])
    BY <2>2, <2>3
  <2>5. Contract!Recover(d)
    BY <1>t, <2>1, <2>4 DEF Contract!Recover
  <2> QED BY <2>5 DEF Contract!Next
<1>10. CASE Claims(d)
  <2> DEFINE new == Claimed(row, clock)
  <2>1. Change(new.status, TrashOf(new), Source(new), chunks[d])
    BY <1>w, <1>10 DEF Claims
  <2>2. CASE row.purgeStarted
    BY <1>s, <2>1, <2>2 DEF Claimed
  <2>3. CASE ~row.purgeStarted
    <3>1. TrashOf(row) = "trashed"
      BY <1>10, <2>3 DEF Claims, Expired, TrashOf
    <3>2. /\ new.status = row.status /\ TrashOf(new) = "doomed"
          /\ Source(new) = Source(row)
      BY <1>t, <1>10, <2>3 DEF Claims, Expired, Claimed, TrashOf, Source, Row
    <3>3. Change(row.status, "doomed", Source(row), chunks[d])
      BY <2>1, <3>2
    <3>4. Contract!Doom(d)
      BY <1>t, <3>1, <3>3 DEF Contract!Doom
    <3> QED BY <3>4 DEF Contract!Next
  <2> QED BY <2>2, <2>3
<1>11. CASE Erases(d)
  <2> DEFINE new == Purged(row, clock)
  <2>1. TrashOf(row) = "doomed"
    BY <1>11 DEF Erases, TrashOf
  <2>2. new.status = row.status /\ TrashOf(new) = "purged" /\ Source(new) = row.key
    BY <1>t DEF Purged, TrashOf, Source, Row
  <2>3. Change(new.status, TrashOf(new), Source(new), NoText)
    BY <1>w, <1>11 DEF Erases
  <2>4. Change(row.status, "purged", row.key, NoText) /\ row.key \in Keys \cup {NoKey}
    BY <1>t, <2>2, <2>3 DEF Row
  <2>5. Contract!Erase(d)
    BY <1>t, <2>1, <2>4 DEF Contract!Erase
  <2> QED BY <2>5 DEF Contract!Next
<1> QED BY <1>2, <1>3, <1>5, <1>6, <1>7, <1>8, <1>9, <1>10, <1>11 DEF Transaction

(***************************************************************************)
(* The handlers, jobs, versions and compare-and-sets implement the         *)
(* contract: what a client can see of a document is what an atomic index,  *)
(* submit, publish, give up, discard, recover and erase would show.        *)
(***************************************************************************)
THEOREM Implementation == Spec => ImplementsContract
<1>1. IInv /\ [Next]_vars => [Contract!Next]_(Contract!vars)
  <2> SUFFICES ASSUME IInv, [Next]_vars PROVE Contract!Next \/ UNCHANGED Contract!vars
    OBVIOUS
  <2>1. CASE Quiet
    BY <2>1 DEF Quiet, Contract!vars
  <2> QED BY <2>1, EveryStep, ContractTransaction
<1> QED BY <1>1, InitContract, Invariance, PTL DEF Spec, ImplementsContract, Contract!Spec

=============================================================================
