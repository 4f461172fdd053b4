------------------------ MODULE DocumentFiles_proofs ------------------------
(***************************************************************************)
(* The files and the pursuit of documents, for every value of the          *)
(* constants.  That nobody removes the file of a document that can still   *)
(* be used is a matter of several actors: who is about to remove an object *)
(* looked for its users awaits ago, and who is about to use a key looked   *)
(* for its object awaits ago.  Both are right because a key that has been  *)
(* taken once stays taken (TakenStays), so that nobody can become a user   *)
(* of a key nobody could use (FreeStays).                                  *)
(***************************************************************************)
EXTENDS DocumentLifecycle_proofs

-----------------------------------------------------------------------------
(* The inductive invariant *)

Usable(row, now) == ~row.deleted \/ (~row.purged /\ row.purgeAfter > now)
Recoverable(row, now) == Active(row) \/ Restorable(row, now)

KeysHeld == \A d \in Docs : Exists(rows[d]) <=> rows[d].key # NoKey

GoneIsTaken == \A k \in Keys \ objects : KeyTaken(k)

\* What a handler knows of the file it has replaced, or is about to.
OldIsTaken(c) ==
    /\ \/ c.old \in registered \cup {NoKey}
       \/ c.pc = "update" /\ rows[c.doc].key = c.old
    /\ c.pc \in {"cleanup", "unlink"} => c.old # NoKey
    /\ c.pc = "unlink" => CanDelete(c.old)

Doomed(row, k, now) == row.key = k /\ row.deleted /\ row.purgeAfter <= now

\* A purge in progress is of a row nothing but a purge can change.
IsDoomed(p) ==
    /\ p.pc # "waiting" => Doomed(rows[p.doc], p.key, clock)
    /\ p.pc = "unlink" => CanDelete(p.key)

FilesInv ==
    /\ IInv /\ KeysHeld /\ KeysExclusive /\ RecoverableKeepsFile /\ GoneIsTaken
    /\ \A c \in calls : OldIsTaken(c)
    /\ \A p \in purges : IsDoomed(p)

-----------------------------------------------------------------------------
(* Keys *)

KeysSteady == \A d \in Docs : rows'[d].key = rows[d].key

\* The document d, and no other, gets a key that nobody has had.
Rekeyed(d) ==
    /\ \A e \in Docs \ {d} : rows'[e] = rows[e]
    /\ rows'[d].key \in Keys /\ ~KeyTaken(rows'[d].key)
    /\ rows[d].key \in registered' \cup {NoKey}

KeyStep == registered \subseteq registered' /\ (KeysSteady \/ \E d \in Docs : Rekeyed(d))

LEMMA RequestKeys ==
    ASSUME IInv, NEW r \in Requests, NEW d \in Docs, Request(r, d)
    PROVE  KeyStep
<1>t. rows \in [Docs -> Row] /\ rows[d] \in Row
  BY DEF IInv, TypeOK
<1>1. ASSUME NEW k \in Keys, NEW text \in Texts \cup {NoText}, CreateDocument(r, d, k, text)
      PROVE  KeyStep
  <2>1. rows[d] = Absent /\ ~KeyTaken(k) /\ registered \subseteq registered'
    BY <1>1 DEF CreateDocument, IInv, AbsentIsBlank
  <2>2. PICK now \in AppTimes : rows' = [rows EXCEPT ![d] = Created(k, text, now)]
    BY <1>1 DEF CreateDocument
  <2>3. rows'[d].key = k /\ \A e \in Docs \ {d} : rows'[e] = rows[e]
    BY <1>t, <2>2 DEF Created, Absent
  <2>4. rows[d].key = NoKey
    BY <2>1 DEF Absent
  <2>5. Rekeyed(d)
    BY <2>1, <2>3, <2>4 DEF Rekeyed
  <2> QED BY <2>1, <2>5 DEF KeyStep
<1>2. ASSUME NEW k \in Keys \cup {NoKey}, UpdateRead(r, d, k) PROVE KeyStep
  BY <1>2 DEF UpdateRead, KeyStep, KeysSteady
<1>3. CASE RetryRead(r, d)
  BY <1>3 DEF RetryRead, KeyStep, KeysSteady
<1>4. CASE DeleteDocument(r, d)
  BY <1>t, <1>4 DEF DeleteDocument, SoftDeleted, KeyStep, KeysSteady, Row
<1>5. CASE RestoreDocument(r, d)
  BY <1>t, <1>5 DEF RestoreDocument, Restored, KeyStep, KeysSteady, Row
<1> QED BY <1>1, <1>2, <1>3, <1>4, <1>5 DEF Request

LEMMA CallKeys ==
    ASSUME IInv, NEW c \in calls, CallStep(c) \/ LoseCall(c)
    PROVE  KeyStep
<1>t. /\ rows \in [Docs -> Row] /\ c.doc \in Docs /\ rows[c.doc] \in Row
      /\ c.new \in Keys \cup {NoKey}
  BY DEF IInv, TypeOK, Call
<1>1. ASSUME NEW text \in Texts \cup {NoText, Keep}, UpdateCommit(c, text)
      PROVE  KeyStep
  <2>1. /\ ~UpdateRefused(c)
        /\ rows' = [rows EXCEPT ![c.doc] = Edited(rows[c.doc], text, c.new, clock)]
        /\ registered' = IF c.new \in {NoKey, rows[c.doc].key} THEN registered
                         ELSE registered \cup {rows[c.doc].key, c.new}
    BY <1>1 DEF UpdateCommit
  <2>2. /\ rows'[c.doc].key = IF c.new = NoKey THEN rows[c.doc].key ELSE c.new
        /\ \A e \in Docs \ {c.doc} : rows'[e] = rows[e]
    BY <1>t, <2>1 DEF Edited, Row
  <2>3. CASE c.new \in {NoKey, rows[c.doc].key}
    BY <2>1, <2>2, <2>3 DEF KeyStep, KeysSteady
  <2>4. CASE c.new \notin {NoKey, rows[c.doc].key}
    <3>1. ~KeyTaken(c.new) /\ c.new \in Keys
      BY <1>t, <2>1, <2>4 DEF UpdateRefused
    <3>2. Rekeyed(c.doc)
      BY <2>1, <2>2, <2>4, <3>1 DEF Rekeyed
    <3> QED BY <1>t, <2>1, <2>4, <3>2 DEF KeyStep
  <2> QED BY <2>3, <2>4
<1>2. \A status, now : Transitioned(rows[c.doc], status, now).key = rows[c.doc].key
  BY <1>t DEF Transitioned, Row
<1>3. CASE RetryClaim(c)
  BY <1>t, <1>2, <1>3 DEF RetryClaim, KeyStep, KeysSteady
<1>4. CASE EnqueueRollback(c)
  BY <1>t, <1>2, <1>4 DEF EnqueueRollback, KeyStep, KeysSteady
<1>5. CASE UpdateReject(c) \/ RetryLost(c) \/ Enqueue(c)
  BY <1>5 DEF UpdateReject, RetryLost, Enqueue, KeyStep, KeysSteady
<1>6. CASE EnqueueError(c) \/ CheckReplaced(c) \/ UnlinkReplaced(c) \/ LoseCall(c)
  BY <1>6 DEF EnqueueError, CheckReplaced, UnlinkReplaced, LoseCall, KeyStep, KeysSteady
<1> QED BY <1>1, <1>3, <1>4, <1>5, <1>6 DEF CallStep

LEMMA JobKeys ==
    ASSUME IInv, NEW j \in jobs, JobStep(j) \/ JobStall(j) \/ JobLost(j)
    PROVE  KeyStep
<1>t. rows \in [Docs -> Row] /\ j.doc \in Docs /\ rows[j.doc] \in Row
  BY DEF IInv, TypeOK, Job
<1>1. \A status, now : Transitioned(rows[j.doc], status, now).key = rows[j.doc].key
  BY <1>t DEF Transitioned, Row
<1>2. CASE JobCommit(j)
  <2>1. registered' = registered
    BY <1>2 DEF JobCommit
  <2>2. \/ rows' = rows
        \/ rows' = [rows EXCEPT ![j.doc] = Transitioned(rows[j.doc], "Ready", clock)]
    BY <1>2 DEF JobCommit
  <2>3. KeysSteady
    BY <1>t, <1>1, <2>2 DEF KeysSteady
  <2> QED BY <2>1, <2>3 DEF KeyStep
<1>3. CASE JobGiveUp(j)
  <2>1. registered' = registered
    BY <1>3 DEF JobGiveUp
  <2>2. \/ rows' = rows
        \/ \E now : rows' = [rows EXCEPT ![j.doc] = Transitioned(rows[j.doc], "Failed", now)]
    BY <1>3 DEF JobGiveUp
  <2>3. KeysSteady
    BY <1>t, <1>1, <2>2 DEF KeysSteady
  <2> QED BY <2>1, <2>3 DEF KeyStep
<1>4. CASE JobRead(j) \/ JobSkip(j) \/ JobAck(j)
  BY <1>4 DEF JobRead, JobSkip, JobAck, KeyStep, KeysSteady
<1>5. CASE JobAttemptFails(j) \/ JobStall(j) \/ JobLost(j)
  BY <1>5 DEF JobAttemptFails, JobStall, JobLost, KeyStep, KeysSteady
<1> QED BY <1>2, <1>3, <1>4, <1>5 DEF JobStep

LEMMA PurgeKeys ==
    ASSUME IInv, NEW p \in purges, PurgeStep(p) \/ PurgeError(p)
    PROVE  KeyStep
<1>t. rows \in [Docs -> Row] /\ p.doc \in Docs /\ rows[p.doc] \in Row
  BY DEF IInv, TypeOK, Purge
<1>0. /\ Claimed(rows[p.doc], clock).key = rows[p.doc].key
      /\ Purged(rows[p.doc], clock).key = rows[p.doc].key
  BY <1>t DEF Claimed, Purged, Row
<1>1. CASE PurgeClaim(p)
  BY <1>t, <1>0, <1>1 DEF PurgeClaim, KeyStep, KeysSteady
<1>2. CASE PurgeFinalize(p)
  BY <1>t, <1>0, <1>2 DEF PurgeFinalize, KeyStep, KeysSteady
<1>3. CASE PurgeCheck(p) \/ PurgeUnlink(p) \/ PurgeError(p)
  BY <1>3 DEF PurgeCheck, PurgeUnlink, PurgeError, KeyStep, KeysSteady
<1> QED BY <1>1, <1>2, <1>3 DEF PurgeStep

LEMMA EveryKeyStep ==
    ASSUME IInv, [Next]_vars
    PROVE  KeyStep
<1>1. CASE Tick
  BY <1>1 DEF Tick, KeyStep, KeysSteady
<1>2. CASE UNCHANGED vars
  BY <1>2 DEF vars, KeyStep, KeysSteady
<1>3. ASSUME NEW d \in Docs, Scan(d) PROVE KeyStep
  BY <1>3 DEF Scan, KeyStep, KeysSteady
<1> QED BY <1>1, <1>2, <1>3, RequestKeys, CallKeys, JobKeys, PurgeKeys DEF Next

LEMMA TakenStays ==
    ASSUME IInv, [Next]_vars, NEW k \in Keys, KeyTaken(k)
    PROVE  KeyTaken(k)'
<1>1. KeyStep
  BY EveryKeyStep
<1>2. k # NoKey
  BY ValuesAssumption
<1>3. CASE k \in registered
  BY <1>1, <1>3 DEF KeyStep, KeyTaken
<1>4. ASSUME NEW d \in Docs, rows[d].key = k PROVE KeyTaken(k)'
  BY <1>1, <1>2, <1>4 DEF KeyStep, KeysSteady, Rekeyed, KeyTaken
<1> QED BY <1>3, <1>4 DEF KeyTaken

LEMMA ChangedRow ==
    ASSUME IInv, [Next]_vars, NEW d \in Docs, rows'[d] # rows[d]
    PROVE  Transaction(d) /\ clock' = clock
<1>t. rows \in [Docs -> Row] /\ TypeOK
  BY DEF IInv, TypeOK
<1>1. clock' = clock /\ \E e \in Docs : Transaction(e)
  BY <1>t, ClockStep, EveryStep DEF Quiet
<1>2. PICK e \in Docs : Transaction(e)
  BY <1>1
<1>3. e = d
  BY <1>t, <1>2 DEF Transaction, Creates, Edits, Shifts, Publishes, Fails, Retries,
     Deletes, Restores, Claims, Erases, Write
<1> QED BY <1>1, <1>2, <1>3

\* The file that is used after a step was used before it, unless the row or
\* its key is new.
LEMMA UsersStay ==
    ASSUME IInv, [Next]_vars, NEW d \in Docs
    PROVE  /\ Usable(rows'[d], clock') => Usable(rows[d], clock)
           /\ Recoverable(rows'[d], clock') /\ rows'[d].key = rows[d].key
                 => Recoverable(rows[d], clock)
           /\ \A k : Doomed(rows[d], k, clock) => Doomed(rows'[d], k, clock')
<1>t. /\ rows \in [Docs -> Row] /\ rows[d] \in Row /\ clock \in Nat /\ TypeOK
      /\ rows[d].purgeAfter \in Nat /\ rows[d].deleted \in BOOLEAN
  BY DEF IInv, TypeOK, Row
<1>0. (clock' = clock \/ clock' = clock + 1) /\ (clock' # clock => Quiet)
  BY <1>t, ClockStep
<1>1. CASE rows'[d] = rows[d]
  BY <1>t, <1>0, <1>1 DEF Usable, Recoverable, Restorable, Doomed
<1>2. CASE rows'[d] # rows[d]
  <2>0. clock' = clock
    BY <1>2, ChangedRow
  <2>1. Transaction(d)
    BY <1>2, ChangedRow
  <2> USE DEF Write
  <2>2. CASE Creates(d)
    <3>1. rows[d] = Absent /\ rows'[d].key \in Keys
      BY <1>t, <2>2 DEF Creates, Created, Absent, IInv, AbsentIsBlank
    <3>2. ~rows[d].deleted /\ rows[d].key = NoKey /\ rows'[d].key # NoKey
      BY <3>1, ValuesAssumption DEF Absent
    <3> QED BY <3>2 DEF Usable, Doomed
  <2>3. CASE Edits(d) \/ Publishes(d) \/ Fails(d) \/ Retries(d) \/ Deletes(d)
    <3>1. Active(rows[d])
      BY <2>3 DEF Edits, Publishes, Fails, Retries, Shifts, Deletes
    <3> QED BY <3>1 DEF Usable, Recoverable, Doomed, Active
  <2>4. CASE Restores(d)
    BY <1>t, <2>4 DEF Restores, Restorable, Recoverable, Usable, Doomed
  <2>5. CASE Claims(d)
    <3>1. rows'[d] = Claimed(rows[d], clock) /\ Expired(rows[d], clock)
      BY <1>t, <2>5 DEF Claims
    <3>2. /\ rows'[d].key = rows[d].key /\ rows'[d].deleted = rows[d].deleted
          /\ rows'[d].purgeAfter = rows[d].purgeAfter /\ rows'[d].purged = rows[d].purged
      BY <1>t, <3>1 DEF Claimed, Row
    <3> QED BY <1>t, <2>0, <3>1, <3>2 DEF Expired, Usable, Recoverable, Restorable, Active, Doomed
  <2>6. CASE Erases(d)
    <3>1. rows'[d] = Purged(rows[d], clock) /\ rows[d].deleted /\ rows[d].purgeStarted
      BY <1>t, <2>6 DEF Erases
    <3>2. /\ rows'[d].key = rows[d].key /\ rows'[d].deleted = rows[d].deleted
          /\ rows'[d].purgeAfter = rows[d].purgeAfter /\ rows'[d].purged
      BY <1>t, <3>1 DEF Purged, Row
    <3> QED BY <1>t, <2>0, <3>1, <3>2 DEF Usable, Recoverable, Restorable, Active, Doomed
  <2> QED BY <2>1, <2>2, <2>3, <2>4, <2>5, <2>6 DEF Transaction
<1> QED BY <1>1, <1>2

\* A key that has been taken and that nobody can use stays so.
LEMMA FreeStays ==
    ASSUME IInv, [Next]_vars, NEW k, KeyTaken(k), CanDelete(k)
    PROVE  CanDelete(k)'
<1> SUFFICES ASSUME NEW d \in Docs, rows'[d].key = k, Usable(rows'[d], clock')
             PROVE  FALSE
  BY DEF CanDelete, Usable
<1>1. KeyStep
  BY EveryKeyStep
<1>2. Usable(rows[d], clock)
  BY UsersStay
<1>3. rows[d].key = k
  BY <1>1 DEF KeyStep, KeysSteady, Rekeyed
<1> QED BY <1>2, <1>3 DEF CanDelete, Usable

-----------------------------------------------------------------------------
(* Objects *)

LEMMA EveryObjectStep ==
    ASSUME [Next]_vars
    PROVE  \/ objects' = objects
           \/ \E c \in calls : c.pc = "unlink" /\ objects' = objects \ {c.old}
           \/ \E p \in purges : p.pc = "unlink" /\ objects' = objects \ {p.key}
<1>1. ASSUME NEW r \in Requests, NEW d \in Docs, Request(r, d) PROVE objects' = objects
  BY <1>1 DEF Request, CreateDocument, UpdateRead, RetryRead, DeleteDocument, RestoreDocument
<1>2. ASSUME NEW c \in calls, CallStep(c) \/ LoseCall(c), objects' # objects
      PROVE  c.pc = "unlink" /\ objects' = objects \ {c.old}
  <2>1. CASE UnlinkReplaced(c)
    BY <1>2, <2>1 DEF UnlinkReplaced
  <2>2. CASE \/ UpdateReject(c) \/ RetryLost(c) \/ Enqueue(c) \/ CheckReplaced(c)
             \/ EnqueueError(c) \/ LoseCall(c)
    BY <1>2, <2>2 DEF UpdateReject, RetryLost, Enqueue, CheckReplaced, EnqueueError, LoseCall
  <2>3. CASE RetryClaim(c) \/ EnqueueRollback(c)
             \/ \E text \in Texts \cup {NoText, Keep} : UpdateCommit(c, text)
    BY <1>2, <2>3 DEF RetryClaim, EnqueueRollback, UpdateCommit
  <2> QED BY <1>2, <2>1, <2>2, <2>3 DEF CallStep
<1>3. ASSUME NEW j \in jobs, JobStep(j) \/ JobStall(j) \/ JobLost(j) PROVE objects' = objects
  BY <1>3 DEF JobStep, JobRead, JobSkip, JobCommit, JobAck, JobAttemptFails, JobGiveUp,
     JobStall, JobLost
<1>4. ASSUME NEW p \in purges, PurgeStep(p) \/ PurgeError(p), objects' # objects
      PROVE  p.pc = "unlink" /\ objects' = objects \ {p.key}
  BY <1>4 DEF PurgeStep, PurgeClaim, PurgeCheck, PurgeUnlink, PurgeFinalize, PurgeError
<1>5. CASE Tick \/ UNCHANGED vars \/ \E d \in Docs : Scan(d)
  BY <1>5 DEF Tick, vars, Scan
<1> QED BY <1>1, <1>2, <1>3, <1>4, <1>5 DEF Next

\* Whoever is about to remove an object has made sure that nobody uses it.
LEMMA RemovedIsFree ==
    ASSUME FilesInv, [Next]_vars, NEW k \in objects, k \notin objects'
    PROVE  KeyTaken(k) /\ CanDelete(k)
<1>1. CASE \E c \in calls : c.pc = "unlink" /\ objects' = objects \ {c.old}
  <2>1. PICK c \in calls : c.pc = "unlink" /\ objects' = objects \ {c.old}
    BY <1>1
  <2>2. c.old = k /\ OldIsTaken(c)
    BY <2>1 DEF FilesInv
  <2> QED BY <2>1, <2>2 DEF OldIsTaken, KeyTaken
<1>2. CASE \E p \in purges : p.pc = "unlink" /\ objects' = objects \ {p.key}
  <2>1. PICK p \in purges : p.pc = "unlink" /\ objects' = objects \ {p.key}
    BY <1>2
  <2>2. p.key = k /\ IsDoomed(p) /\ p.doc \in Docs
    BY <2>1 DEF FilesInv, IInv, TypeOK, Purge
  <2> QED BY <2>1, <2>2 DEF IsDoomed, Doomed, KeyTaken
<1> QED BY <1>1, <1>2, EveryObjectStep

LEMMA GoneStep == ASSUME FilesInv, [Next]_vars PROVE GoneIsTaken'
<1> SUFFICES ASSUME NEW k \in Keys, k \notin objects' PROVE KeyTaken(k)'
  BY DEF GoneIsTaken
<1>1. KeyTaken(k)
  BY RemovedIsFree DEF FilesInv, GoneIsTaken
<1> QED BY <1>1, TakenStays DEF FilesInv

LEMMA HeldStep == ASSUME FilesInv, [Next]_vars PROVE KeysHeld'
<1> SUFFICES ASSUME NEW d \in Docs PROVE Exists(rows'[d]) <=> rows'[d].key # NoKey
  BY DEF KeysHeld
<1>1. CASE rows'[d] = rows[d]
  BY <1>1 DEF FilesInv, KeysHeld
<1>2. CASE rows'[d] # rows[d]
  <2>1. Transaction(d) /\ rows \in [Docs -> Row] /\ rows[d] \in Row
    BY <1>2, ChangedRow DEF FilesInv, IInv, TypeOK
  <2> USE DEF Write
  <2>2. CASE Creates(d)
    <3>1. PICK k \in Keys, text \in Texts \cup {NoText}, now \in Nat \ {0} :
              rows' = [rows EXCEPT ![d] = Created(k, text, now)]
      BY <2>2 DEF Creates
    <3>2. rows'[d].key = k /\ rows'[d].status = "Processing"
      BY <2>1, <3>1 DEF Created, Absent
    <3> QED BY <3>2, ValuesAssumption DEF Exists
  <2>3. rows[d].key # NoKey \/ ~Exists(rows[d])
    BY DEF FilesInv, KeysHeld
  <2>4. CASE ~Creates(d)
    <3>1. Exists(rows[d])
      BY <2>1, <2>4 DEF Transaction, Edits, Publishes, Fails, Retries, Shifts, Deletes,
         Restores, Restorable, Claims, Expired, Erases, Active, FilesInv, IInv,
         AbsentIsBlank, Absent
    <3>2. rows'[d].key # NoKey
      BY <2>3, <3>1, EveryKeyStep, ValuesAssumption
         DEF KeyStep, KeysSteady, Rekeyed, FilesInv
    <3>3. Exists(rows'[d])
      <4>1. CASE Edits(d)
        BY <2>1, <3>1, <4>1 DEF Edits, Edited, Exists, Row
      <4>2. CASE Publishes(d) \/ Fails(d) \/ Retries(d)
        BY <2>1, <4>2 DEF Publishes, Fails, Retries, Shifts, Transitioned, Exists, Row
      <4>3. CASE Deletes(d)
        BY <2>1, <3>1, <4>3 DEF Deletes, SoftDeleted, Exists, Row
      <4>4. CASE Restores(d)
        BY <2>1, <3>1, <4>4 DEF Restores, Restored, Exists, Row
      <4>5. CASE Claims(d)
        BY <2>1, <3>1, <4>5 DEF Claims, Claimed, Exists, Row
      <4>6. CASE Erases(d)
        BY <2>1, <3>1, <4>6 DEF Erases, Purged, Exists, Row
      <4> QED BY <2>1, <2>4, <4>1, <4>2, <4>3, <4>4, <4>5, <4>6 DEF Transaction
    <3> QED BY <3>2, <3>3
  <2> QED BY <2>2, <2>4
<1> QED BY <1>1, <1>2

LEMMA ExclusiveStep == ASSUME FilesInv, [Next]_vars PROVE KeysExclusive'
<1>h. \A d \in Docs : Exists(rows'[d]) => rows'[d].key # NoKey
  BY HeldStep DEF KeysHeld
<1>1. CASE KeysSteady
  BY <1>1, <1>h DEF KeysSteady, FilesInv, KeysExclusive, KeysHeld
<1>2. ASSUME NEW f \in Docs, Rekeyed(f) PROVE KeysExclusive'
  BY <1>2, <1>h DEF Rekeyed, KeyTaken, FilesInv, KeysExclusive
<1> QED BY <1>1, <1>2, EveryKeyStep DEF KeyStep, FilesInv

LEMMA RecoverableStep == ASSUME FilesInv, [Next]_vars PROVE RecoverableKeepsFile'
<1> SUFFICES ASSUME NEW d \in Docs, Recoverable(rows'[d], clock')
             PROVE  rows'[d].key \in objects'
  BY DEF RecoverableKeepsFile, Recoverable
<1> IInv
  BY DEF FilesInv
<1>1. CASE rows'[d].key = rows[d].key
  <2>1. Recoverable(rows[d], clock)
    BY <1>1, UsersStay
  <2>2. rows[d].key \in objects
    BY <2>1 DEF FilesInv, RecoverableKeepsFile, Recoverable
  <2>3. ~CanDelete(rows[d].key)
    BY <2>1 DEF CanDelete, Recoverable, Active, Restorable
  <2> QED BY <1>1, <2>2, <2>3, RemovedIsFree
<1>2. CASE rows'[d].key # rows[d].key
  <2>1. rows'[d].key \in Keys /\ ~KeyTaken(rows'[d].key)
    BY <1>2, EveryKeyStep DEF KeyStep, KeysSteady, Rekeyed
  <2>2. rows'[d].key \in objects
    BY <2>1 DEF FilesInv, GoneIsTaken
  <2> QED BY <2>1, <2>2, RemovedIsFree
<1> QED BY <1>1, <1>2

-----------------------------------------------------------------------------
(* What the handlers in flight know *)

LEMMA OldStays ==
    ASSUME FilesInv, [Next]_vars, NEW c \in calls
    PROVE  OldIsTaken(c)'
<1> IInv /\ OldIsTaken(c) /\ c.doc \in Docs
  BY DEF FilesInv, IInv, TypeOK, Call
<1>1. KeyStep
  BY EveryKeyStep
<1>2. c.pc = "unlink" => KeyTaken(c.old)
  BY DEF OldIsTaken, KeyTaken
<1>3. c.pc = "unlink" => CanDelete(c.old)'
  BY <1>2, FreeStays DEF OldIsTaken
<1>4. \/ c.old \in registered' \cup {NoKey}
      \/ c.pc = "update" /\ rows'[c.doc].key = c.old
  BY <1>1 DEF OldIsTaken, KeyStep, KeysSteady, Rekeyed
<1> QED BY <1>3, <1>4 DEF OldIsTaken

LEMMA RequestOld ==
    ASSUME FilesInv, NEW r \in Requests, NEW d \in Docs, Request(r, d)
    PROVE  \A c \in calls' : c \in calls \/ OldIsTaken(c)'
<1>1. ASSUME NEW k \in Keys, NEW text \in Texts \cup {NoText}, CreateDocument(r, d, k, text),
             NEW c \in calls'
      PROVE  c \in calls \/ (c.old = NoKey /\ c.pc = "enqueue")
  BY <1>1 DEF CreateDocument
<1>2. ASSUME NEW k \in Keys \cup {NoKey}, UpdateRead(r, d, k), NEW c \in calls'
      PROVE  c \in calls \/ (c.pc = "update" /\ rows'[c.doc].key = c.old)
  BY <1>2 DEF UpdateRead
<1>3. ASSUME RetryRead(r, d), NEW c \in calls'
      PROVE  c \in calls \/ (c.old = NoKey /\ c.pc = "retry")
  BY <1>3 DEF RetryRead
<1>4. CASE DeleteDocument(r, d) \/ RestoreDocument(r, d)
  BY <1>4 DEF DeleteDocument, RestoreDocument
<1> QED BY <1>1, <1>2, <1>3, <1>4 DEF Request, OldIsTaken

LEMMA CallOld ==
    ASSUME FilesInv, [Next]_vars, NEW c \in calls, CallStep(c) \/ LoseCall(c)
    PROVE  \A m \in calls' : m \in calls \/ OldIsTaken(m)'
<1>c. IInv /\ OldIsTaken(c) /\ c \in Call /\ c.doc \in Docs
  BY DEF FilesInv, IInv, TypeOK, Call
<1>o. OldIsTaken(c)'
  BY OldStays
<1>1. ASSUME NEW text \in Texts \cup {NoText, Keep}, UpdateCommit(c, text), NEW m \in calls'
      PROVE  m \in calls \/ OldIsTaken(m)'
  <2> DEFINE stale == IF c.new \in {NoKey, c.old} THEN NoKey ELSE c.old
  <2>1. m \in calls \/ (m.pc = "enqueue" /\ m.old = stale)
    BY <1>c, <1>1 DEF UpdateCommit, Move, Call
  <2>2. /\ registered' = IF c.new \in {NoKey, rows[c.doc].key} THEN registered
                         ELSE registered \cup {rows[c.doc].key, c.new}
    BY <1>1 DEF UpdateCommit
  <2>3. stale \in registered' \cup {NoKey}
    BY <1>c, <2>2 DEF OldIsTaken
  <2> QED BY <2>1, <2>3 DEF OldIsTaken
<1>2. ASSUME RetryClaim(c), NEW m \in calls' PROVE m \in calls \/ OldIsTaken(m)'
  <2>1. m \in calls \/ (m.pc = "enqueue" /\ m.old = c.old)
    BY <1>c, <1>2 DEF RetryClaim, Move, Call
  <2> QED BY <1>o, <1>2, <2>1 DEF OldIsTaken, RetryClaim
<1>3. ASSUME calls' = AfterEnqueue(c), c.pc # "update", NEW m \in calls'
      PROVE  m \in calls \/ OldIsTaken(m)'
  <2>1. m \in calls \/ (m.pc = "cleanup" /\ m.old = c.old /\ c.old # NoKey)
    BY <1>c, <1>3 DEF AfterEnqueue, Move, Call
  <2> QED BY <1>o, <1>3, <2>1 DEF OldIsTaken
<1>4. CASE Enqueue(c)
  BY <1>3, <1>4 DEF Enqueue
<1>5. CASE EnqueueRollback(c)
  BY <1>3, <1>5 DEF EnqueueRollback
<1>6. ASSUME EnqueueError(c), NEW m \in calls' PROVE m \in calls \/ OldIsTaken(m)'
  <2>1. m \in calls \/ (m.pc = "rollback" /\ m.old = c.old)
    BY <1>c, <1>6 DEF EnqueueError, Move, Call
  <2> QED BY <1>o, <1>6, <2>1 DEF OldIsTaken, EnqueueError
<1>7. ASSUME CheckReplaced(c), NEW m \in calls' PROVE m \in calls \/ OldIsTaken(m)'
  <2>1. m \in calls \/ (m.pc = "unlink" /\ m.old = c.old /\ CanDelete(c.old))
    BY <1>c, <1>7 DEF CheckReplaced, Move, Call
  <2>2. CanDelete(c.old) => CanDelete(c.old)'
    BY <1>7 DEF CheckReplaced, CanDelete
  <2> QED BY <1>o, <1>7, <2>1, <2>2 DEF OldIsTaken, CheckReplaced
<1>8. CASE UpdateReject(c) \/ RetryLost(c) \/ UnlinkReplaced(c) \/ LoseCall(c)
  BY <1>8 DEF UpdateReject, RetryLost, UnlinkReplaced, LoseCall
<1> QED BY <1>1, <1>2, <1>4, <1>5, <1>6, <1>7, <1>8 DEF CallStep

LEMMA OldStep == ASSUME FilesInv, [Next]_vars PROVE (\A c \in calls : OldIsTaken(c))'
<1>1. ASSUME NEW j \in jobs, JobStep(j) \/ JobStall(j) \/ JobLost(j) PROVE calls' = calls
  BY <1>1 DEF JobStep, JobRead, JobSkip, JobCommit, JobAck, JobAttemptFails, JobGiveUp,
     JobStall, JobLost
<1>2. ASSUME NEW p \in purges, PurgeStep(p) \/ PurgeError(p) PROVE calls' = calls
  BY <1>2 DEF PurgeStep, PurgeClaim, PurgeCheck, PurgeUnlink, PurgeFinalize, PurgeError
<1>3. ASSUME Tick \/ UNCHANGED vars \/ \E d \in Docs : Scan(d) PROVE calls' = calls
  BY <1>3 DEF Tick, vars, Scan
<1>4. \A m \in calls' : m \in calls \/ OldIsTaken(m)'
  BY <1>1, <1>2, <1>3, RequestOld, CallOld DEF Next
<1> QED BY <1>4, OldStays

LEMMA DoomStays ==
    ASSUME FilesInv, [Next]_vars, NEW p \in purges
    PROVE  IsDoomed(p)'
<1> IInv /\ IsDoomed(p) /\ p.doc \in Docs
  BY DEF FilesInv, IInv, TypeOK, Purge
<1>1. p.pc # "waiting" => Doomed(rows[p.doc], p.key, clock)'
  BY UsersStay DEF IsDoomed, Doomed
<1>2. p.pc = "unlink" => KeyTaken(p.key)
  BY DEF IsDoomed, Doomed, KeyTaken
<1>3. p.pc = "unlink" => CanDelete(p.key)'
  BY <1>2, FreeStays DEF IsDoomed
<1> QED BY <1>1, <1>3 DEF IsDoomed

LEMMA PurgeDoomed ==
    ASSUME FilesInv, [Next]_vars, NEW p \in purges, PurgeStep(p) \/ PurgeError(p)
    PROVE  \A m \in purges' : m \in purges \/ IsDoomed(m)'
<1>p. IInv /\ IsDoomed(p) /\ p \in Purge /\ p.doc \in Docs
  BY DEF FilesInv, IInv, TypeOK, Purge
<1>d. IsDoomed(p)'
  BY DoomStays
<1>1. ASSUME PurgeClaim(p), NEW m \in purges' PROVE m \in purges \/ IsDoomed(m)'
  <2> DEFINE n == [p EXCEPT !.pc = "claimed", !.key = rows[p.doc].key]
  <2>0. \/ purges' = purges \ {p}
        \/ Expired(rows[p.doc], clock) /\ purges' = (purges \ {p}) \cup {n}
    BY <1>1 DEF PurgeClaim, Move
  <2>n. n.pc = "claimed" /\ n.doc = p.doc /\ n.key = rows[p.doc].key
    BY <1>p DEF Purge
  <2> HIDE DEF n
  <2>1. \/ m \in purges
        \/ /\ Expired(rows[p.doc], clock)
           /\ m.pc = "claimed" /\ m.doc = p.doc /\ m.key = rows[p.doc].key
    BY <1>1, <2>0, <2>n
  <2>2. Expired(rows[p.doc], clock) => Doomed(rows[p.doc], rows[p.doc].key, clock)
    BY DEF Expired, Doomed
  <2>3. Expired(rows[p.doc], clock) => Doomed(rows'[p.doc], rows[p.doc].key, clock')
    BY <1>p, <2>2, UsersStay
  <2> QED BY <2>1, <2>3 DEF IsDoomed
<1>2. ASSUME PurgeCheck(p), NEW m \in purges' PROVE m \in purges \/ IsDoomed(m)'
  <2>1. \/ m \in purges
        \/ /\ m.doc = p.doc /\ m.key = p.key /\ m.pc \in {"unlink", "finalize"}
           /\ m.pc = "unlink" => CanDelete(p.key)
    BY <1>p, <1>2 DEF PurgeCheck, Move, Purge
  <2>2. CanDelete(p.key) => CanDelete(p.key)'
    BY <1>2 DEF PurgeCheck, CanDelete
  <2> QED BY <1>d, <1>2, <2>1, <2>2 DEF IsDoomed, PurgeCheck
<1>3. ASSUME PurgeUnlink(p), NEW m \in purges' PROVE m \in purges \/ IsDoomed(m)'
  <2>1. m \in purges \/ (m.doc = p.doc /\ m.key = p.key /\ m.pc = "finalize")
    BY <1>p, <1>3 DEF PurgeUnlink, Move, Purge
  <2> QED BY <1>d, <1>3, <2>1 DEF IsDoomed, PurgeUnlink
<1>4. ASSUME PurgeError(p), NEW m \in purges' PROVE m \in purges \/ m.pc = "waiting"
  BY <1>p, <1>4 DEF PurgeError, Move, Purge
<1>5. CASE PurgeFinalize(p)
  BY <1>5 DEF PurgeFinalize
<1> QED BY <1>1, <1>2, <1>3, <1>4, <1>5 DEF PurgeStep, IsDoomed

LEMMA DoomedStep == ASSUME FilesInv, [Next]_vars PROVE (\A p \in purges : IsDoomed(p))'
<1>1. ASSUME NEW r \in Requests, NEW d \in Docs, Request(r, d) PROVE purges' = purges
  BY <1>1 DEF Request, CreateDocument, UpdateRead, RetryRead, DeleteDocument, RestoreDocument
<1>2. ASSUME NEW c \in calls, CallStep(c) \/ LoseCall(c) PROVE purges' = purges
  BY <1>2 DEF CallStep, UpdateCommit, UpdateReject, RetryClaim, RetryLost, Enqueue,
     EnqueueError, EnqueueRollback, CheckReplaced, UnlinkReplaced, LoseCall
<1>3. ASSUME NEW j \in jobs, JobStep(j) \/ JobStall(j) \/ JobLost(j) PROVE purges' = purges
  BY <1>3 DEF JobStep, JobRead, JobSkip, JobCommit, JobAck, JobAttemptFails, JobGiveUp,
     JobStall, JobLost
<1>4. ASSUME Tick \/ UNCHANGED vars PROVE purges' = purges
  BY <1>4 DEF Tick, vars
<1>5. ASSUME NEW d \in Docs, Scan(d), NEW m \in purges' PROVE m \in purges \/ m.pc = "waiting"
  BY <1>5 DEF Scan
<1>6. \A m \in purges' : m \in purges \/ IsDoomed(m)'
  BY <1>1, <1>2, <1>3, <1>4, <1>5, PurgeDoomed DEF Next, IsDoomed
<1> QED BY <1>6, DoomStays

-----------------------------------------------------------------------------
(* The theorems about files *)

LEMMA InitFiles == Init => FilesInv
<1> SUFFICES ASSUME Init PROVE FilesInv
  OBVIOUS
<1>1. IInv
  BY InitIInv
<1>2. calls = {} /\ purges = {} /\ objects = Keys
  BY DEF Init
<1>3. \A d \in Docs : \/ d \notin Seeds /\ rows[d] = Absent
                      \/ /\ d \in Seeds /\ rows[d].key = SeedKey
                         /\ rows[d].status \in {"Processing", "Ready"}
  <2>1. \A status : SeedRow(status).key = SeedKey /\ SeedRow(status).status = status
    BY DEF SeedRow, Created, Absent
  <2> QED BY <2>1 DEF Init
<1>4. \A d \in Docs : Exists(rows[d]) => d \in Seeds /\ rows[d].key = SeedKey
  BY <1>3 DEF Exists, Absent
<1>5. KeysHeld
  BY <1>3, SeedsAssumption, ValuesAssumption DEF KeysHeld, Exists, Absent
<1>6. \A d \in Docs : Recoverable(rows[d], clock) => Exists(rows[d])
  BY <1>3 DEF Recoverable, Active, Restorable, Exists, Absent
<1> QED BY <1>1, <1>2, <1>4, <1>5, <1>6, SeedsAssumption
     DEF FilesInv, KeysExclusive, RecoverableKeepsFile, GoneIsTaken, Recoverable

LEMMA FilesStep == FilesInv /\ [Next]_vars => FilesInv'
<1> SUFFICES ASSUME FilesInv, [Next]_vars PROVE FilesInv'
  OBVIOUS
<1>1. IInv'
  BY IInvStep DEF FilesInv
<1> QED BY <1>1, HeldStep, ExclusiveStep, RecoverableStep, GoneStep, OldStep, DoomedStep
     DEF FilesInv

LEMMA FilesInvariance == Spec => []FilesInv
<1> QED BY InitFiles, FilesStep, PTL DEF Spec

(***************************************************************************)
(* A document that is active or can still be restored has its file,        *)
(* whatever replacements and purges are under way (the cleanup after an    *)
(* update, canDeleteStorageObject and the purge of the trash worker).      *)
(***************************************************************************)
THEOREM FilesAreKept == Spec => []RecoverableKeepsFile
<1>1. FilesInv => RecoverableKeepsFile
  BY DEF FilesInv
<1> QED BY <1>1, FilesInvariance, PTL

(***************************************************************************)
(* Two documents never come to own one storage key, however uploads and    *)
(* edits interleave: the key is looked up and registered in the            *)
(* transaction that holds its advisory lock.                               *)
(***************************************************************************)
THEOREM KeysAreExclusive == Spec => []KeysExclusive
<1>1. FilesInv => KeysExclusive
  BY DEF FilesInv
<1> QED BY <1>1, FilesInvariance, PTL

-----------------------------------------------------------------------------
(* The pursuit of Processing documents *)

VersionsCount == \A d \in Docs : Exists(rows[d]) => rows[d].ver # 0
IndexersKnow == \A j \in jobs : j.pc = "indexing" => j.ver # 0

PursuitInv == IInv /\ VersionsCount /\ IndexersKnow /\ ProcessingIsPursued

Wanted(d) == Active(rows[d]) /\ rows[d].status = "Processing"
Owed(d) == Pursued(d) \/ <<d, rows[d].ver>> \in orphaned

CallFor(c, d) == c.doc = d /\ c.ver = rows[d].ver /\ c.pc \in {"enqueue", "rollback"}
JobFor(j, d) == /\ j.doc = d /\ Expected(j) = rows[d].ver
                /\ j.pc \in {"waiting", "indexing", "failed"}

\* Whoever pursues a document that a step leaves alone still does, or hands
\* it to another.
LEMMA PursuitStays ==
    ASSUME PursuitInv, NEW d \in Docs, Wanted(d), rows'[d] = rows[d],
           \A c \in calls : CallFor(c, d) => c \in calls' \/ Owed(d)',
           \A j \in jobs : JobFor(j, d) => j \in jobs' \/ Owed(d)',
           orphaned \subseteq orphaned'
    PROVE  Owed(d)'
<1>1. Owed(d)
  BY DEF PursuitInv, ProcessingIsPursued, Wanted, Owed
<1>2. ASSUME NEW c \in calls, CallFor(c, d) PROVE Owed(d)'
  <2>1. CASE c \in calls'
    BY <1>2, <2>1 DEF CallFor, Owed, Pursued
  <2> QED BY <1>2, <2>1
<1>3. ASSUME NEW j \in jobs, JobFor(j, d) PROVE Owed(d)'
  <2>1. CASE j \in jobs'
    <3>1. Expected(j)' = Expected(j)
      BY <1>3 DEF JobFor, Expected
    <3> QED BY <1>3, <2>1, <3>1 DEF JobFor, Owed, Pursued
  <2> QED BY <1>3, <2>1
<1>4. CASE <<d, rows[d].ver>> \in orphaned
  BY <1>4 DEF Owed
<1> QED BY <1>1, <1>2, <1>3, <1>4 DEF Owed, Pursued, CallFor, JobFor

\* A handler that has made its document Processing goes on to enqueue it.
LEMMA NewPursuit ==
    ASSUME NEW d \in Docs, NEW c \in calls', c.doc = d, c.ver = rows'[d].ver,
           c.pc \in {"enqueue", "rollback"}
    PROVE  Owed(d)'
<1> QED BY DEF Owed, Pursued

LEMMA RequestPursues ==
    ASSUME PursuitInv, NEW r \in Requests, NEW e \in Docs, Request(r, e),
           NEW d \in Docs, Wanted(d)'
    PROVE  Owed(d)'
<1>t. rows \in [Docs -> Row] /\ rows[e] \in Row
  BY DEF PursuitInv, IInv, TypeOK
<1>1. ASSUME calls \subseteq calls', jobs' = jobs, orphaned' = orphaned, rows'[d] = rows[d]
      PROVE  Owed(d)'
  <2>1. Wanted(d)
    BY <1>1 DEF Wanted
  <2> QED BY <1>1, <2>1, PursuitStays
<1>2. ASSUME NEW k \in Keys, NEW text \in Texts \cup {NoText}, CreateDocument(r, e, k, text)
      PROVE  Owed(d)'
  <2>1. PICK now \in AppTimes :
            /\ rows' = [rows EXCEPT ![e] = Created(k, text, now)]
            /\ calls' = calls \cup {[id |-> r, doc |-> e, ver |-> now, pc |-> "enqueue",
                                     old |-> NoKey, new |-> NoKey]}
    BY <1>2 DEF CreateDocument
  <2>2. CASE d = e
    <3>1. rows'[d].ver = now
      BY <1>t, <2>1, <2>2 DEF Created, Absent
    <3> DEFINE c == [id |-> r, doc |-> e, ver |-> now, pc |-> "enqueue",
                     old |-> NoKey, new |-> NoKey]
    <3>2. c \in calls' /\ c.doc = d /\ c.ver = rows'[d].ver /\ c.pc = "enqueue"
      BY <2>1, <2>2, <3>1
    <3> HIDE DEF c
    <3> QED BY <3>2, NewPursuit
  <2>3. CASE d # e
    BY <1>t, <1>1, <1>2, <2>1, <2>3 DEF CreateDocument
  <2> QED BY <2>2, <2>3
<1>3. ASSUME NEW k \in Keys \cup {NoKey}, UpdateRead(r, e, k) PROVE Owed(d)'
  BY <1>1, <1>3 DEF UpdateRead
<1>4. CASE RetryRead(r, e)
  BY <1>1, <1>4 DEF RetryRead
<1>5. CASE DeleteDocument(r, e)
  <2>1. d # e
    BY <1>t, <1>5 DEF DeleteDocument, SoftDeleted, Wanted, Active, Row
  <2> QED BY <1>t, <1>1, <1>5, <2>1 DEF DeleteDocument
<1>6. CASE RestoreDocument(r, e)
  <2>1. d # e
    BY <1>t, <1>6 DEF RestoreDocument, Restored, Wanted, Row
  <2> QED BY <1>t, <1>1, <1>6, <2>1 DEF RestoreDocument
<1> QED BY <1>2, <1>3, <1>4, <1>5, <1>6 DEF Request

LEMMA CallPursues ==
    ASSUME PursuitInv, NEW c \in calls, CallStep(c) \/ LoseCall(c),
           NEW d \in Docs, Wanted(d)'
    PROVE  Owed(d)'
<1>t. /\ rows \in [Docs -> Row] /\ c \in Call /\ c.doc \in Docs /\ rows[c.doc] \in Row
  BY DEF PursuitInv, IInv, TypeOK, Call
<1>0. ASSUME rows'[d] = rows[d], orphaned \subseteq orphaned', jobs \subseteq jobs',
             calls \ {c} \subseteq calls', CallFor(c, d) => Owed(d)'
      PROVE  Owed(d)'
  <2>1. Wanted(d)
    BY <1>0 DEF Wanted
  <2>2. \A m \in calls : CallFor(m, d) => m \in calls' \/ Owed(d)'
    BY <1>0
  <2> QED BY <1>0, <2>1, <2>2, PursuitStays
<1>1. ASSUME NEW text \in Texts \cup {NoText, Keep}, UpdateCommit(c, text)
      PROVE  Owed(d)'
  <2> DEFINE new == Edited(rows[c.doc], text, c.new, clock)
             stale == IF c.new \in {NoKey, c.old} THEN NoKey ELSE c.old
             m == [c EXCEPT !.pc = "enqueue", !.ver = new.ver, !.old = stale, !.new = NoKey]
  <2>1. /\ rows' = [rows EXCEPT ![c.doc] = new] /\ orphaned' = orphaned /\ jobs' = jobs
        /\ calls' = IF new.status = "Processing" THEN (calls \ {c}) \cup {m} ELSE calls \ {c}
        /\ c.pc = "update"
    BY <1>1 DEF UpdateCommit, Move
  <2>2. m.doc = c.doc /\ m.pc = "enqueue" /\ m.ver = new.ver
    BY <1>t DEF Call
  <2> HIDE DEF m, new
  <2>3. CASE d = c.doc
    <3>1. rows'[d] = new /\ new.status = "Processing"
      BY <1>t, <2>1, <2>3 DEF Wanted
    <3> QED BY <2>1, <2>2, <2>3, <3>1, NewPursuit
  <2>4. CASE d # c.doc
    BY <1>t, <1>0, <2>1, <2>4 DEF CallFor
  <2> QED BY <2>3, <2>4
<1>2. CASE RetryClaim(c)
  <2>1. PICK now \in AppTimes :
          /\ rows' = [rows EXCEPT ![c.doc] = Transitioned(rows[c.doc], "Processing", now)]
          /\ calls' = Move(calls, c, [c EXCEPT !.pc = "enqueue",
                              !.ver = Transitioned(rows[c.doc], "Processing", now).ver])
    BY <1>2 DEF RetryClaim
  <2> DEFINE new == Transitioned(rows[c.doc], "Processing", now)
             m == [c EXCEPT !.pc = "enqueue", !.ver = new.ver]
  <2>2. /\ rows' = [rows EXCEPT ![c.doc] = new] /\ orphaned' = orphaned /\ jobs' = jobs
        /\ calls' = (calls \ {c}) \cup {m} /\ c.pc = "retry"
    BY <1>2, <2>1 DEF RetryClaim, Move
  <2>3. m.doc = c.doc /\ m.pc = "enqueue" /\ m.ver = new.ver
    BY <1>t DEF Call
  <2> HIDE DEF m, new
  <2>4. CASE d = c.doc
    BY <1>t, <2>2, <2>3, <2>4, NewPursuit
  <2>5. CASE d # c.doc
    BY <1>t, <1>0, <2>2, <2>5 DEF CallFor
  <2> QED BY <2>4, <2>5
<1>3. CASE UpdateReject(c) \/ RetryLost(c) \/ CheckReplaced(c) \/ UnlinkReplaced(c)
  BY <1>0, <1>3 DEF UpdateReject, RetryLost, CheckReplaced, UnlinkReplaced, Move, CallFor
<1>4. CASE Enqueue(c)
  <2>1. /\ rows' = rows /\ orphaned' = orphaned /\ jobs' = jobs \cup {NewJob(c.doc, c.ver)}
        /\ calls \ {c} \subseteq calls'
    BY <1>4 DEF Enqueue, AfterEnqueue, Move
  <2>2. ASSUME CallFor(c, d) PROVE Owed(d)'
    <3> DEFINE j == NewJob(c.doc, c.ver)
    <3>1. /\ j.doc = d /\ j.ver = rows[d].ver /\ j.pc = "waiting" /\ j \in jobs'
      BY <2>1, <2>2 DEF NewJob, CallFor
    <3>2. rows[d].ver # 0
      BY <2>1 DEF Wanted, Active, PursuitInv, VersionsCount
    <3> HIDE DEF j
    <3> QED BY <2>1, <3>1, <3>2 DEF Owed, Pursued, Expected
  <2> QED BY <1>0, <2>1, <2>2
<1>5. CASE EnqueueError(c)
  <2> DEFINE m == [c EXCEPT !.pc = "rollback"]
  <2>1. /\ rows' = rows /\ orphaned' = orphaned /\ jobs \subseteq jobs'
        /\ calls' = (calls \ {c}) \cup {m}
    BY <1>5 DEF EnqueueError, Move
  <2>2. m.doc = c.doc /\ m.pc = "rollback" /\ m.ver = c.ver
    BY <1>t DEF Call
  <2> HIDE DEF m
  <2>3. ASSUME CallFor(c, d) PROVE Owed(d)'
    BY <2>1, <2>2, <2>3, NewPursuit DEF CallFor
  <2> QED BY <1>0, <2>1, <2>3
<1>6. CASE EnqueueRollback(c)
  <2>1. /\ orphaned' = orphaned /\ jobs' = jobs /\ calls \ {c} \subseteq calls'
    BY <1>6 DEF EnqueueRollback, AfterEnqueue, Move
  <2>2. CASE Matches(rows[c.doc], "Processing", c.ver)
    <3>1. PICK now : rows' = [rows EXCEPT ![c.doc] = Transitioned(rows[c.doc], "Failed", now)]
      BY <1>6, <2>2 DEF EnqueueRollback
    <3>2. d # c.doc
      BY <1>t, <3>1 DEF Transitioned, Wanted, Row
    <3> QED BY <1>t, <1>0, <2>1, <3>1, <3>2 DEF CallFor
  <2>3. CASE ~Matches(rows[c.doc], "Processing", c.ver)
    <3>1. rows' = rows
      BY <1>6, <2>3 DEF EnqueueRollback
    <3>2. ~CallFor(c, d)
      BY <2>3, <3>1 DEF CallFor, Wanted, Matches
    <3> QED BY <1>0, <2>1, <3>1, <3>2
  <2> QED BY <2>2, <2>3
<1>7. CASE LoseCall(c)
  <2>1. /\ rows' = rows /\ jobs' = jobs /\ calls' = calls \ {c} /\ orphaned \subseteq orphaned'
        /\ c.pc \in {"enqueue", "rollback"} => <<c.doc, c.ver>> \in orphaned'
    BY <1>7 DEF LoseCall, Lose
  <2>2. CallFor(c, d) => Owed(d)'
    BY <2>1 DEF CallFor, Owed
  <2> QED BY <1>0, <2>1, <2>2
<1> QED BY <1>1, <1>2, <1>3, <1>4, <1>5, <1>6, <1>7 DEF CallStep

LEMMA JobPursues ==
    ASSUME PursuitInv, NEW j \in jobs, JobStep(j) \/ JobStall(j) \/ JobLost(j),
           NEW d \in Docs, Wanted(d)'
    PROVE  Owed(d)'
<1>t. /\ rows \in [Docs -> Row] /\ j \in Job /\ j.doc \in Docs /\ rows[j.doc] \in Row
  BY DEF PursuitInv, IInv, TypeOK, Job
<1>0. ASSUME rows'[d] = rows[d], orphaned \subseteq orphaned', calls' = calls,
             jobs \ {j} \subseteq jobs', JobFor(j, d) => Owed(d)'
      PROVE  Owed(d)'
  <2>1. Wanted(d)
    BY <1>0 DEF Wanted
  <2>2. \A m \in jobs : JobFor(m, d) => m \in jobs' \/ Owed(d)'
    BY <1>0
  <2> QED BY <1>0, <2>1, <2>2, PursuitStays
\* The job goes on, for the version it has been for.
<1>m. ASSUME NEW m, jobs' = (jobs \ {j}) \cup {m}, rows' = rows, calls' = calls,
             orphaned \subseteq orphaned', m.doc = j.doc, m.ver \in {j.ver, Expected(j)},
             m.pc \in {"waiting", "indexing", "failed"}
      PROVE  Owed(d)'
  <2>1. ASSUME JobFor(j, d) PROVE Owed(d)'
    <3>1. Expected(m)' = rows'[d].ver
      BY <1>m, <2>1 DEF JobFor, Expected
    <3> QED BY <1>m, <2>1, <3>1 DEF JobFor, Owed, Pursued
  <2> QED BY <1>0, <1>m, <2>1
<1>1. CASE JobRead(j)
  <2> DEFINE m == [j EXCEPT !.pc = "indexing", !.ver = Expected(j), !.text = Source(rows[j.doc])]
  <2>1. /\ jobs' = (jobs \ {j}) \cup {m}
        /\ rows' = rows /\ calls' = calls /\ orphaned' = orphaned
    BY <1>1 DEF JobRead, Move
  <2>2. m.doc = j.doc /\ m.ver = Expected(j) /\ m.pc = "indexing"
    BY <1>t DEF Job
  <2> HIDE DEF m
  <2> QED BY <1>m, <2>1, <2>2
<1>2. CASE JobSkip(j)
  <2>1. /\ jobs' = jobs \ {j} /\ rows' = rows /\ calls' = calls /\ orphaned' = orphaned
        /\ ~Matches(rows[j.doc], "Processing", Expected(j))
    BY <1>2 DEF JobSkip
  <2>2. ~JobFor(j, d)
    BY <2>1 DEF JobFor, Matches, Wanted
  <2> QED BY <1>0, <2>1, <2>2
<1>3. CASE JobCommit(j)
  <2>1. calls' = calls /\ orphaned' = orphaned /\ jobs \ {j} \subseteq jobs' /\ j.pc = "indexing"
    BY <1>3 DEF JobCommit, Move
  <2>2. CASE Matches(rows[j.doc], "Processing", j.ver)
    <3>1. rows' = [rows EXCEPT ![j.doc] = Transitioned(rows[j.doc], "Ready", clock)]
      BY <1>3, <2>2 DEF JobCommit
    <3>2. d # j.doc
      BY <1>t, <3>1 DEF Transitioned, Wanted, Row
    <3> QED BY <1>t, <1>0, <2>1, <3>1, <3>2 DEF JobFor
  <2>3. CASE ~Matches(rows[j.doc], "Processing", j.ver)
    <3>1. rows' = rows
      BY <1>3, <2>3 DEF JobCommit
    <3>2. j.ver # 0
      BY <2>1 DEF PursuitInv, IndexersKnow
    <3>3. ~JobFor(j, d)
      BY <2>3, <3>1, <3>2 DEF JobFor, Expected, Wanted, Matches
    <3> QED BY <1>0, <2>1, <3>1, <3>3
  <2> QED BY <2>2, <2>3
<1>4. CASE JobAck(j)
  BY <1>0, <1>4 DEF JobAck, JobFor
<1>5. CASE JobAttemptFails(j)
  <2> DEFINE m == [j EXCEPT !.made = @ + 1, !.text = NoText,
                            !.pc = IF j.made + 1 < Attempts THEN "waiting" ELSE "failed"]
  <2>1. /\ jobs' = (jobs \ {j}) \cup {m}
        /\ rows' = rows /\ calls' = calls /\ orphaned' = orphaned
    BY <1>5 DEF JobAttemptFails, Move
  <2>2. m.doc = j.doc /\ m.ver = j.ver /\ m.pc \in {"waiting", "failed"}
    BY <1>t DEF Job
  <2> HIDE DEF m
  <2> QED BY <1>m, <2>1, <2>2
<1>6. CASE JobGiveUp(j)
  <2>1. /\ calls' = calls /\ orphaned \subseteq orphaned' /\ jobs' = jobs \ {j}
        /\ j.ver = 0 => <<j.doc, rows[j.doc].ver>> \in orphaned'
    BY <1>6 DEF JobGiveUp
  <2>2. CASE j.ver # 0 /\ Matches(rows[j.doc], "Processing", j.ver)
    <3>1. PICK now : rows' = [rows EXCEPT ![j.doc] = Transitioned(rows[j.doc], "Failed", now)]
      BY <1>6, <2>2 DEF JobGiveUp
    <3>2. d # j.doc
      BY <1>t, <3>1 DEF Transitioned, Wanted, Row
    <3> QED BY <1>t, <1>0, <2>1, <3>1, <3>2 DEF JobFor
  <2>3. CASE j.ver = 0 \/ ~Matches(rows[j.doc], "Processing", j.ver)
    <3>1. rows' = rows
      BY <1>6, <2>3 DEF JobGiveUp
    <3>2. JobFor(j, d) => Owed(d)'
      BY <2>1, <2>3, <3>1 DEF JobFor, Expected, Wanted, Matches, Owed
    <3> QED BY <1>0, <2>1, <3>1, <3>2
  <2> QED BY <2>2, <2>3
<1>7. CASE JobStall(j)
  <2> DEFINE m == [j EXCEPT !.pc = "waiting", !.stalls = @ + 1, !.text = NoText]
  <2>1. /\ jobs' = (jobs \ {j}) \cup {m}
        /\ rows' = rows /\ calls' = calls /\ orphaned' = orphaned
    BY <1>7 DEF JobStall, Move
  <2>2. m.doc = j.doc /\ m.ver = j.ver /\ m.pc = "waiting"
    BY <1>t DEF Job
  <2> HIDE DEF m
  <2> QED BY <1>m, <2>1, <2>2
<1>8. CASE JobLost(j)
  <2>1. /\ rows' = rows /\ calls' = calls /\ jobs' = jobs \ {j} /\ orphaned \subseteq orphaned'
        /\ <<j.doc, Expected(j)>> \in orphaned'
    BY <1>8 DEF JobLost, Lose
  <2>2. JobFor(j, d) => Owed(d)'
    BY <2>1 DEF JobFor, Owed
  <2> QED BY <1>0, <2>1, <2>2
<1> QED BY <1>1, <1>2, <1>3, <1>4, <1>5, <1>6, <1>7, <1>8 DEF JobStep

LEMMA PurgePursues ==
    ASSUME PursuitInv, NEW p \in purges, PurgeStep(p) \/ PurgeError(p),
           NEW d \in Docs, Wanted(d)'
    PROVE  Owed(d)'
<1>t. rows \in [Docs -> Row] /\ p.doc \in Docs /\ rows[p.doc] \in Row
  BY DEF PursuitInv, IInv, TypeOK, Purge
<1>1. calls' = calls /\ jobs' = jobs /\ orphaned' = orphaned
  BY DEF PurgeStep, PurgeClaim, PurgeCheck, PurgeUnlink, PurgeFinalize, PurgeError
<1>2. rows'[d] = rows[d]
  <2>1. CASE PurgeClaim(p)
    <3>1. CASE Expired(rows[p.doc], clock) /\ rows[p.doc].deletedAt = p.at
      <4>1. rows' = [rows EXCEPT ![p.doc] = Claimed(rows[p.doc], clock)]
        BY <2>1, <3>1 DEF PurgeClaim
      <4>2. Claimed(rows[p.doc], clock).deleted
        BY <1>t, <3>1 DEF Claimed, Expired, Row
      <4> QED BY <1>t, <4>1, <4>2 DEF Wanted, Active
    <3> QED BY <2>1, <3>1 DEF PurgeClaim
  <2>2. CASE PurgeFinalize(p)
    <3>1. CASE rows' = [rows EXCEPT ![p.doc] = Purged(rows[p.doc], clock)] /\ rows[p.doc].deleted
      <4>1. Purged(rows[p.doc], clock).deleted
        BY <1>t, <3>1 DEF Purged, Row
      <4> QED BY <1>t, <3>1, <4>1 DEF Wanted, Active
    <3> QED BY <2>2, <3>1 DEF PurgeFinalize
  <2>3. CASE PurgeCheck(p) \/ PurgeUnlink(p) \/ PurgeError(p)
    BY <2>3 DEF PurgeCheck, PurgeUnlink, PurgeError
  <2> QED BY <2>1, <2>2, <2>3 DEF PurgeStep
<1>3. Wanted(d)
  BY <1>2 DEF Wanted
<1> QED BY <1>1, <1>2, <1>3, PursuitStays

LEMMA PursuedStep == ASSUME PursuitInv, [Next]_vars PROVE ProcessingIsPursued'
<1> SUFFICES ASSUME NEW d \in Docs, Wanted(d)' PROVE Owed(d)'
  BY DEF ProcessingIsPursued, Wanted, Owed
<1>1. ASSUME UNCHANGED <<rows, calls, jobs, orphaned>> PROVE Owed(d)'
  <2>1. Wanted(d)
    BY <1>1 DEF Wanted
  <2> QED BY <1>1, <2>1, PursuitStays
<1>2. CASE Tick \/ UNCHANGED vars \/ \E e \in Docs : Scan(e)
  BY <1>1, <1>2 DEF Tick, vars, Scan
<1> QED BY <1>2, RequestPursues, CallPursues, JobPursues, PurgePursues DEF Next

LEMMA VersionsCountStep == ASSUME PursuitInv, [Next]_vars PROVE VersionsCount'
<1> SUFFICES ASSUME NEW d \in Docs, Exists(rows'[d]) PROVE rows'[d].ver # 0
  BY DEF VersionsCount
<1>t. IInv /\ rows[d].ver \in Nat
  BY DEF PursuitInv, IInv, TypeOK, Row
<1>1. CASE rows'[d] = rows[d]
  BY <1>1 DEF PursuitInv, VersionsCount
<1>2. CASE rows'[d] # rows[d]
  BY <1>t, <1>2, RowsAdvance
<1> QED BY <1>1, <1>2

LEMMA IndexersStep == ASSUME PursuitInv, [Next]_vars PROVE IndexersKnow'
<1> SUFFICES ASSUME NEW m \in jobs', m.pc = "indexing" PROVE m.ver # 0
  BY DEF IndexersKnow
<1>1. CASE m \in jobs
  BY <1>1 DEF PursuitInv, IndexersKnow
<1>2. CASE m \notin jobs
  <2>1. CASE jobs' \subseteq jobs
    BY <1>2, <2>1
  <2>2. ASSUME NEW c \in calls, CallStep(c) \/ LoseCall(c) PROVE FALSE
    <3>1. jobs' \subseteq jobs \/ jobs' = jobs \cup {NewJob(c.doc, c.ver)}
      BY <2>2 DEF CallStep, UpdateCommit, UpdateReject, RetryClaim, RetryLost, Enqueue,
         EnqueueError, EnqueueRollback, CheckReplaced, UnlinkReplaced, LoseCall
    <3> QED BY <1>2, <3>1 DEF NewJob
  <2>3. ASSUME NEW j \in jobs, JobStep(j) \/ JobStall(j) \/ JobLost(j) PROVE m.ver # 0
    <3>t. j \in Job /\ j.doc \in Docs
      BY DEF PursuitInv, IInv, TypeOK, Job
    <3>1. CASE JobRead(j)
      <4> DEFINE n == [j EXCEPT !.pc = "indexing", !.ver = Expected(j),
                                !.text = Source(rows[j.doc])]
      <4>1. m = n /\ Matches(rows[j.doc], "Processing", Expected(j))
        BY <1>2, <3>1 DEF JobRead, Move
      <4>2. n.ver = Expected(j)
        BY <3>t DEF Job
      <4> HIDE DEF n
      <4>3. Expected(j) # 0
        BY <3>t, <4>1 DEF Matches, Active, PursuitInv, VersionsCount
      <4> QED BY <4>1, <4>2, <4>3
    <3>2. CASE JobCommit(j)
      <4> DEFINE n == [j EXCEPT !.pc = "committed", !.text = NoText]
      <4>1. m = n
        BY <1>2, <3>2 DEF JobCommit, Move
      <4>2. n.pc = "committed"
        BY <3>t DEF Job
      <4> QED BY <4>1, <4>2
    <3>3. CASE JobAttemptFails(j)
      <4> DEFINE n == [j EXCEPT !.made = @ + 1, !.text = NoText,
                                !.pc = IF j.made + 1 < Attempts THEN "waiting" ELSE "failed"]
      <4>1. m = n
        BY <1>2, <3>3 DEF JobAttemptFails, Move
      <4>2. n.pc \in {"waiting", "failed"}
        BY <3>t DEF Job
      <4> QED BY <4>1, <4>2
    <3>4. CASE JobStall(j)
      <4> DEFINE n == [j EXCEPT !.pc = "waiting", !.stalls = @ + 1, !.text = NoText]
      <4>1. m = n
        BY <1>2, <3>4 DEF JobStall, Move
      <4>2. n.pc = "waiting"
        BY <3>t DEF Job
      <4> QED BY <4>1, <4>2
    <3>5. CASE JobSkip(j) \/ JobAck(j) \/ JobGiveUp(j) \/ JobLost(j)
      BY <2>1, <3>5 DEF JobSkip, JobAck, JobGiveUp, JobLost
    <3> QED BY <2>3, <3>1, <3>2, <3>3, <3>4, <3>5 DEF JobStep
  <2>4. ASSUME NEW r \in Requests, NEW d \in Docs, Request(r, d) PROVE jobs' = jobs
    BY <2>4 DEF Request, CreateDocument, UpdateRead, RetryRead, DeleteDocument, RestoreDocument
  <2>5. ASSUME NEW p \in purges, PurgeStep(p) \/ PurgeError(p) PROVE jobs' = jobs
    BY <2>5 DEF PurgeStep, PurgeClaim, PurgeCheck, PurgeUnlink, PurgeFinalize, PurgeError
  <2>6. ASSUME Tick \/ UNCHANGED vars \/ \E d \in Docs : Scan(d) PROVE jobs' = jobs
    BY <2>6 DEF Tick, vars, Scan
  <2> QED BY <2>1, <2>2, <2>3, <2>4, <2>5, <2>6 DEF Next
<1> QED BY <1>1, <1>2

LEMMA InitPursuit == Init => PursuitInv
<1> SUFFICES ASSUME Init PROVE PursuitInv
  OBVIOUS
<1>1. \A status : /\ SeedRow(status).status = status /\ SeedRow(status).ver = 1
                  /\ ~SeedRow(status).deleted
  BY DEF SeedRow, Created, Absent
<1>2. \A d \in Docs : \/ rows[d] = Absent
                      \/ d \in Seeds \ BusySeeds /\ rows[d].status = "Ready" /\ rows[d].ver = 1
                      \/ d \in BusySeeds /\ rows[d].status = "Processing" /\ rows[d].ver = 1
  BY <1>1 DEF Init
<1>3. jobs = {LegacyJob(d) : d \in BusySeeds}
  BY DEF Init
<1>4. VersionsCount /\ IndexersKnow
  BY <1>2, <1>3 DEF VersionsCount, IndexersKnow, LegacyJob, NewJob, Exists, Absent
<1>5. ASSUME NEW d \in BusySeeds PROVE Pursued(d)
  <2> DEFINE j == LegacyJob(d)
  <2>1. j \in jobs /\ j.doc = d /\ j.ver = 0 /\ j.pc = "waiting"
    BY <1>3 DEF LegacyJob, NewJob
  <2> HIDE DEF j
  <2> QED BY <2>1 DEF Pursued, Expected
<1>6. ProcessingIsPursued
  BY <1>2, <1>5 DEF ProcessingIsPursued, Active, Exists, Absent
<1> QED BY <1>4, <1>6, InitIInv DEF PursuitInv

(***************************************************************************)
(* Nobody forgets a Processing document (updateDocumentAsync,              *)
(* failEnqueueSnapshot, retryIngestDocumentAsync and onFailed together):   *)
(* with any number of edits, retries, stalled workers and lost enqueues,   *)
(* one that is pursued by nobody was orphaned by a fault.                  *)
(***************************************************************************)
THEOREM ProcessingPursued == Spec => []ProcessingIsPursued
<1>1. PursuitInv /\ [Next]_vars => PursuitInv'
  BY IInvStep, PursuedStep, VersionsCountStep, IndexersStep DEF PursuitInv
<1>2. PursuitInv => ProcessingIsPursued
  BY DEF PursuitInv
<1> QED BY InitPursuit, <1>1, <1>2, PTL DEF Spec

=============================================================================
