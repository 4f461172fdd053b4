------------------------- MODULE DocumentLifecycle -------------------------
(***************************************************************************)
(* The life of a document: API handlers (create, update, retry, delete,    *)
(* restore), the BullMQ ingestion worker and the trash cleanup worker, all *)
(* running concurrently over the document table, the chunk table, the      *)
(* registry of storage keys and the object store.                          *)
(*                                                                         *)
(* A database transaction is one step.  Between two awaits of a handler    *)
(* any other handler may run, so a handler is a record in `calls` (API),   *)
(* `jobs` (ingestion) or `purges` (cleanup) whose pc names the await it    *)
(* has reached.  The bumps of the two cache version keys and the socket    *)
(* event that follow a commit touch no state of this module.               *)
(***************************************************************************)
EXTENDS DocumentRow, FiniteSets

CONSTANTS
    Docs,           \* documents
    Requests,       \* API requests; each is issued once, so this bounds them
    Seeds,          \* documents imported before the key registry existed
    SeedKey,        \* the storage key those imports share
    BusySeeds,      \* imports still waiting for a job that carries no version
    FaqDocs,        \* documents some knowledge space links as its FAQ
    Attempts,       \* attempts of an ingestion job (3 in the code)
    PurgeAttempts,  \* attempts of a purge job (5 in the code)
    MaxStalls,      \* BullMQ's maxStalledCount (1 by default)
    MaxFaults,      \* bound: crashes and database errors that lose an actor
    MaxClock,       \* bound of the clock
    Skew            \* how far the application's clock may run ahead

ASSUME SeedsAssumption ==
    Seeds \subseteq Docs /\ BusySeeds \subseteq Seeds /\ SeedKey \in Keys
ASSUME BoundsAssumption ==
    /\ Attempts \in Nat \ {0} /\ PurgeAttempts \in Nat \ {0}
    /\ MaxStalls \in Nat /\ MaxFaults \in Nat /\ MaxClock \in Nat /\ Skew \in Nat

VARIABLES
    rows,        \* document table
    chunks,      \* document_chunk: the text each document's chunks were cut from
    registered,  \* document_storage_key: keys that have ever been claimed
    objects,     \* keys with an object in the store
    calls,       \* API handlers in flight
    issued,      \* requests already issued
    jobs,        \* ingestion jobs, waiting or being processed
    purges,      \* purge jobs, waiting or being processed
    clock,       \* database clock
    faults,      \* lost actors so far
    orphaned     \* <<document, version>> whose ingestion was lost with an actor

vars == <<rows, chunks, registered, objects, calls, issued, jobs, purges,
          clock, faults, orphaned>>

Call == [id: Requests, doc: Docs, ver: Nat,
         pc: {"update", "retry", "enqueue", "rollback", "cleanup", "unlink"},
         old: Keys \cup {NoKey}, new: Keys \cup {NoKey}]

\* enq identifies the job (the version it was enqueued for); ver is
\* job.data.expectedUpdatedAt, 0 when the job predates that field.
Job == [doc: Docs, enq: Nat, ver: Nat, made: Nat, stalls: Nat,
        pc: {"waiting", "indexing", "committed", "failed"},
        text: Texts \cup Keys \cup {NoText, NoKey}]

\* <<doc, at>> is the jobId purge-<publicId>-<deletedAt>.
Purge == [doc: Docs, at: Nat, made: Nat, key: Keys \cup {NoKey},
          pc: {"waiting", "claimed", "unlink", "finalize"}]

Move(S, x, y) == (S \ {x}) \cup {y}

\* Application servers stamp with their own clock, the database with its own.
AppTimes == {clock, clock + Skew}

-----------------------------------------------------------------------------
NewJob(d, v) == [doc |-> d, enq |-> v, ver |-> v, made |-> 0, stalls |-> 0,
                 pc |-> "waiting", text |-> NoText]

LegacyJob(d) == NewJob(d, 0)

SeedRow(status) == [Created(SeedKey, NoText, 1) EXCEPT !.status = status]

\* Imported documents share one file, which the migration may or may not have
\* registered; some are still waiting for a job enqueued before
\* expectedUpdatedAt existed.  Every key is an upload that has finished.
Init ==
    /\ rows = [d \in Docs |->
                 IF d \notin Seeds THEN Absent
                 ELSE SeedRow(IF d \in BusySeeds THEN "Processing" ELSE "Ready")]
    /\ chunks = [d \in Docs |-> IF d \in Seeds \ BusySeeds THEN SeedKey ELSE NoText]
    /\ registered \in {{}, IF Seeds = {} THEN {} ELSE {SeedKey}}
    /\ objects = Keys
    /\ calls = {} /\ issued = {}
    /\ jobs = {LegacyJob(d) : d \in BusySeeds}
    /\ purges = {}
    /\ clock = 1 /\ faults = 0 /\ orphaned = {}

KeyTaken(k) == k \in registered \/ \E d \in Docs : rows[d].key = k

\* Mutant of CanDelete: the trash does not protect a file.
CanDeleteIgnoringTrash(k) == ~ \E d \in Docs : rows[d].key = k /\ ~rows[d].deleted

\* No active document and no document that could still be restored uses k.
CanDelete(k) ==
    ~ \E d \in Docs :
        /\ rows[d].key = k
        /\ ~rows[d].deleted \/ (~rows[d].purged /\ rows[d].purgeAfter > clock)

\* One more fault, which takes with it the ingestion of these snapshots.
Lose(snapshots) ==
    /\ faults < MaxFaults
    /\ faults' = faults + 1
    /\ orphaned' = orphaned \cup snapshots

-----------------------------------------------------------------------------
(* API handlers *)

Issue(r) == r \notin issued /\ issued' = issued \cup {r}

\* createDocumentAsync up to the commit of addDocument.
CreateDocument(r, d, k, text) ==
    /\ Issue(r)
    /\ ~Exists(rows[d])
    /\ k \in objects /\ ~KeyTaken(k)
    /\ \E now \in AppTimes :
        /\ rows' = [rows EXCEPT ![d] = Created(k, text, now)]
        /\ calls' = calls \cup {[id |-> r, doc |-> d, ver |-> now, pc |-> "enqueue",
                                 old |-> NoKey, new |-> NoKey]}
    /\ registered' = registered \cup {k}
    /\ UNCHANGED <<chunks, objects, jobs, purges, clock, faults, orphaned>>

\* updateDocumentAsync reads the row and checks the new upload, then awaits.
UpdateRead(r, d, k) ==
    /\ Issue(r)
    /\ Active(rows[d])
    /\ k \in objects \cup {NoKey}
    /\ calls' = calls \cup {[id |-> r, doc |-> d, ver |-> 0, pc |-> "update",
                             old |-> rows[d].key, new |-> k]}
    /\ UNCHANGED <<rows, chunks, registered, objects, jobs, purges, clock, faults, orphaned>>

\* Mutant of UpdateRefused: the transaction trusts the new key.
UpdateRefusedKeyUnchecked(c) == ~Active(rows[c.doc])

UpdateRefused(c) ==
    \/ ~Active(rows[c.doc])
    \/ c.new \notin {NoKey, rows[c.doc].key} /\ KeyTaken(c.new)

\* Mutant of UpdateCommit: only a new text or file is enqueued.
UpdateCommitTitleNotEnqueued(c, text) ==
    LET new == Edited(rows[c.doc], text, c.new, clock)
    IN  /\ c.pc = "update" /\ ~UpdateRefused(c)
        /\ rows' = [rows EXCEPT ![c.doc] = new]
        /\ calls' = IF text # Keep \/ c.new # NoKey
                    THEN Move(calls, c, [c EXCEPT !.pc = "enqueue", !.ver = new.ver])
                    ELSE calls \ {c}
        /\ UNCHANGED <<chunks, registered, objects, issued, jobs, purges, clock,
                       faults, orphaned>>

\* The transaction of updateDocument.  A document that is Processing after it
\* is enqueued again, whatever the edit was, because its version has moved.
UpdateCommit(c, text) ==
    LET row == rows[c.doc]
        new == Edited(row, text, c.new, clock)
        stale == IF c.new \in {NoKey, c.old} THEN NoKey ELSE c.old
    IN  /\ c.pc = "update" /\ ~UpdateRefused(c)
        /\ rows' = [rows EXCEPT ![c.doc] = new]
        /\ registered' = IF c.new \in {NoKey, row.key} THEN registered
                         ELSE registered \cup {row.key, c.new}
        /\ calls' = IF new.status = "Processing"
                    THEN Move(calls, c, [c EXCEPT !.pc = "enqueue", !.ver = new.ver,
                                                  !.old = stale, !.new = NoKey])
                    ELSE calls \ {c}
        /\ UNCHANGED <<chunks, objects, issued, jobs, purges, clock, faults, orphaned>>

UpdateReject(c) ==
    /\ c.pc = "update" /\ UpdateRefused(c)
    /\ calls' = calls \ {c}
    /\ UNCHANGED <<rows, chunks, registered, objects, issued, jobs, purges, clock,
                   faults, orphaned>>

\* retryIngestDocumentAsync reads a Failed snapshot, then awaits.
RetryRead(r, d) ==
    /\ Issue(r)
    /\ Active(rows[d]) /\ rows[d].status = "Failed"
    /\ calls' = calls \cup {[id |-> r, doc |-> d, ver |-> rows[d].ver, pc |-> "retry",
                             old |-> NoKey, new |-> NoKey]}
    /\ UNCHANGED <<rows, chunks, registered, objects, jobs, purges, clock, faults, orphaned>>

RetryClaim(c) ==
    /\ c.pc = "retry"
    /\ Matches(rows[c.doc], "Failed", c.ver)
    /\ \E now \in AppTimes :
        LET new == Transitioned(rows[c.doc], "Processing", now)
        IN  /\ rows' = [rows EXCEPT ![c.doc] = new]
            /\ calls' = Move(calls, c, [c EXCEPT !.pc = "enqueue", !.ver = new.ver])
    /\ UNCHANGED <<chunks, registered, objects, issued, jobs, purges, clock, faults, orphaned>>

RetryLost(c) ==
    /\ c.pc = "retry"
    /\ ~Matches(rows[c.doc], "Failed", c.ver)
    /\ calls' = calls \ {c}
    /\ UNCHANGED <<rows, chunks, registered, objects, issued, jobs, purges, clock,
                   faults, orphaned>>

\* Only a replaced file leaves something to do after the queue answered.
AfterEnqueue(c) == IF c.old = NoKey THEN calls \ {c}
                   ELSE Move(calls, c, [c EXCEPT !.pc = "cleanup"])

Enqueue(c) ==
    /\ c.pc = "enqueue"
    /\ jobs' = jobs \cup {NewJob(c.doc, c.ver)}
    /\ calls' = AfterEnqueue(c)
    /\ UNCHANGED <<rows, chunks, registered, objects, issued, purges, clock, faults, orphaned>>

\* queue.add rejects; the job may have reached Redis all the same.
EnqueueError(c) ==
    /\ c.pc = "enqueue"
    /\ jobs' \in {jobs, jobs \cup {NewJob(c.doc, c.ver)}}
    /\ calls' = Move(calls, c, [c EXCEPT !.pc = "rollback"])
    /\ UNCHANGED <<rows, chunks, registered, objects, issued, purges, clock, faults, orphaned>>

\* failEnqueueSnapshot, and the rollback of a retry: give up only on the
\* snapshot this handler wrote.
EnqueueRollback(c) ==
    /\ c.pc = "rollback"
    /\ IF Matches(rows[c.doc], "Processing", c.ver)
       THEN \E now \in AppTimes :
                rows' = [rows EXCEPT ![c.doc] = Transitioned(@, "Failed", now)]
       ELSE rows' = rows
    /\ calls' = AfterEnqueue(c)
    /\ UNCHANGED <<chunks, registered, objects, issued, jobs, purges, clock, faults, orphaned>>

\* The object a replaced file leaves behind, as far as this handler knows it.
CheckReplaced(c) ==
    /\ c.pc = "cleanup"
    /\ calls' = IF CanDelete(c.old) THEN Move(calls, c, [c EXCEPT !.pc = "unlink"])
                ELSE calls \ {c}
    /\ UNCHANGED <<rows, chunks, registered, objects, issued, jobs, purges, clock,
                   faults, orphaned>>

\* Best effort: an error is logged and the object stays.
UnlinkReplaced(c) ==
    /\ c.pc = "unlink"
    /\ objects' \in {objects, objects \ {c.old}}
    /\ calls' = calls \ {c}
    /\ UNCHANGED <<rows, chunks, registered, issued, jobs, purges, clock, faults, orphaned>>

DeleteDocument(r, d) ==
    /\ Issue(r)
    /\ Active(rows[d]) /\ d \notin FaqDocs
    /\ rows' = [rows EXCEPT ![d] = SoftDeleted(@, clock)]
    /\ UNCHANGED <<chunks, registered, objects, calls, jobs, purges, clock, faults, orphaned>>

RestoreDocument(r, d) ==
    /\ Issue(r)
    /\ Restorable(rows[d], clock)
    /\ rows' = [rows EXCEPT ![d] = Restored(@, clock)]
    /\ UNCHANGED <<chunks, registered, objects, calls, jobs, purges, clock, faults, orphaned>>

\* The server dies in the middle of a handler, or the database refuses the
\* rollback: whatever the handler still owed the document is lost.
LoseCall(c) ==
    /\ Lose(IF c.pc \in {"enqueue", "rollback"} THEN {<<c.doc, c.ver>>} ELSE {})
    /\ calls' = calls \ {c}
    /\ UNCHANGED <<rows, chunks, registered, objects, issued, jobs, purges, clock>>

-----------------------------------------------------------------------------
(* Ingestion worker *)

\* The version a job works for; a job without one adopts the current row.
Expected(j) == IF j.ver = 0 THEN rows[j.doc].ver ELSE j.ver

JobRead(j) ==
    /\ j.pc = "waiting"
    /\ Matches(rows[j.doc], "Processing", Expected(j))
    /\ jobs' = Move(jobs, j, [j EXCEPT !.pc = "indexing", !.ver = Expected(j),
                                       !.text = Source(rows[j.doc])])
    /\ UNCHANGED <<rows, chunks, registered, objects, calls, issued, purges, clock,
                   faults, orphaned>>

\* Deleted, no longer Processing, or edited since: the job has nothing to do.
JobSkip(j) ==
    /\ j.pc = "waiting"
    /\ ~Matches(rows[j.doc], "Processing", Expected(j))
    /\ jobs' = jobs \ {j}
    /\ UNCHANGED <<rows, chunks, registered, objects, calls, issued, purges, clock,
                   faults, orphaned>>

\* Mutants of JobCommit: the snapshot is not compared again; nothing but the
\* status is.
JobCommitStale(j) ==
    /\ j.pc = "indexing"
    /\ IF Active(rows[j.doc]) /\ rows[j.doc].status = "Processing"
       THEN /\ chunks' = [chunks EXCEPT ![j.doc] = j.text]
            /\ rows' = [rows EXCEPT ![j.doc] = Transitioned(@, "Ready", clock)]
            /\ jobs' = Move(jobs, j, [j EXCEPT !.pc = "committed", !.text = NoText])
       ELSE jobs' = jobs \ {j} /\ UNCHANGED <<rows, chunks>>
    /\ UNCHANGED <<registered, objects, calls, issued, purges, clock, faults, orphaned>>

JobCommitDeleted(j) ==
    /\ j.pc = "indexing"
    /\ rows[j.doc].status = "Processing"
    /\ chunks' = [chunks EXCEPT ![j.doc] = j.text]
    /\ rows' = [rows EXCEPT ![j.doc] = Transitioned(@, "Ready", clock)]
    /\ jobs' = Move(jobs, j, [j EXCEPT !.pc = "committed", !.text = NoText])
    /\ UNCHANGED <<registered, objects, calls, issued, purges, clock, faults, orphaned>>

\* The transaction of addChunks re-checks the snapshot under the row lock.
JobCommit(j) ==
    /\ j.pc = "indexing"
    /\ IF Matches(rows[j.doc], "Processing", j.ver)
       THEN /\ chunks' = [chunks EXCEPT ![j.doc] = j.text]
            /\ rows' = [rows EXCEPT ![j.doc] = Transitioned(@, "Ready", clock)]
            /\ jobs' = Move(jobs, j, [j EXCEPT !.pc = "committed", !.text = NoText])
       ELSE jobs' = jobs \ {j} /\ UNCHANGED <<rows, chunks>>
    /\ UNCHANGED <<registered, objects, calls, issued, purges, clock, faults, orphaned>>

JobAck(j) ==
    /\ j.pc = "committed"
    /\ jobs' = jobs \ {j}
    /\ UNCHANGED <<rows, chunks, registered, objects, calls, issued, purges, clock,
                   faults, orphaned>>

\* Mutants of JobAttemptFails: the last failure drops the job without onFailed;
\* an attempt is not counted.
JobAttemptFailsSilently(j) ==
    /\ j.pc \in {"waiting", "indexing"}
    /\ jobs' = IF j.made + 1 < Attempts
               THEN Move(jobs, j, [j EXCEPT !.made = @ + 1, !.text = NoText, !.pc = "waiting"])
               ELSE jobs \ {j}
    /\ UNCHANGED <<rows, chunks, registered, objects, calls, issued, purges, clock,
                   faults, orphaned>>

JobAttemptFailsUncounted(j) ==
    /\ j.pc \in {"waiting", "indexing"}
    /\ jobs' = Move(jobs, j, [j EXCEPT !.text = NoText, !.pc = "waiting"])
    /\ UNCHANGED <<rows, chunks, registered, objects, calls, issued, purges, clock,
                   faults, orphaned>>

\* process() throws: reading the row, extracting the file, no chunk, the
\* embedding service or the transaction.
JobAttemptFails(j) ==
    /\ j.pc \in {"waiting", "indexing"}
    /\ jobs' = Move(jobs, j,
                    [j EXCEPT !.made = @ + 1, !.text = NoText,
                              !.pc = IF j.made + 1 < Attempts THEN "waiting" ELSE "failed"])
    /\ UNCHANGED <<rows, chunks, registered, objects, calls, issued, purges, clock,
                   faults, orphaned>>

\* onFailed after the last attempt.  A job that never learnt its version
\* cannot mark anything.
JobGiveUp(j) ==
    /\ j.pc = "failed"
    /\ IF j.ver # 0 /\ Matches(rows[j.doc], "Processing", j.ver)
       THEN \E now \in AppTimes :
                rows' = [rows EXCEPT ![j.doc] = Transitioned(@, "Failed", now)]
       ELSE rows' = rows
    /\ orphaned' = IF j.ver = 0 THEN orphaned \cup {<<j.doc, rows[j.doc].ver>>} ELSE orphaned
    /\ jobs' = jobs \ {j}
    /\ UNCHANGED <<chunks, registered, objects, calls, issued, purges, clock, faults>>

\* The worker dies while it holds the job: BullMQ hands it out again.
JobStall(j) ==
    /\ j.pc \in {"indexing", "committed"} /\ j.stalls < MaxStalls
    /\ faults < MaxFaults
    /\ faults' = faults + 1
    /\ jobs' = Move(jobs, j, [j EXCEPT !.pc = "waiting", !.stalls = @ + 1, !.text = NoText])
    /\ UNCHANGED <<rows, chunks, registered, objects, calls, issued, purges, clock, orphaned>>

\* It stalled too often, in which case onFailed sees unspent attempts and
\* returns, or the worker dies, or the database fails, inside onFailed.
JobLost(j) ==
    /\ \/ j.pc \in {"indexing", "committed"} /\ j.stalls >= MaxStalls
       \/ j.pc = "failed"
    /\ Lose({<<j.doc, Expected(j)>>})
    /\ jobs' = jobs \ {j}
    /\ UNCHANGED <<rows, chunks, registered, objects, calls, issued, purges, clock>>

-----------------------------------------------------------------------------
(* Trash cleanup worker *)

\* One document of the hourly scan; the jobId drops a duplicate.
Scan(d) ==
    /\ Expired(rows[d], clock)
    /\ ~ \E p \in purges : p.doc = d /\ p.at = rows[d].deletedAt
    /\ purges' = purges \cup {[doc |-> d, at |-> rows[d].deletedAt, made |-> 0,
                               key |-> NoKey, pc |-> "waiting"]}
    /\ UNCHANGED <<rows, chunks, registered, objects, calls, issued, jobs, clock,
                   faults, orphaned>>

\* Mutant of PurgeClaim: a claim that was interrupted is not taken up again.
PurgeClaimOnce(p) ==
    LET row == rows[p.doc]
    IN  /\ p.pc = "waiting"
        /\ IF Expired(row, clock) /\ row.deletedAt = p.at /\ ~row.purgeStarted
           THEN /\ rows' = [rows EXCEPT ![p.doc] = Claimed(@, clock)]
                /\ purges' = Move(purges, p, [p EXCEPT !.pc = "claimed", !.key = row.key])
           ELSE rows' = rows /\ purges' = purges \ {p}
        /\ UNCHANGED <<chunks, registered, objects, calls, issued, jobs, clock,
                       faults, orphaned>>

PurgeClaim(p) ==
    LET row == rows[p.doc]
    IN  /\ p.pc = "waiting"
        /\ IF Expired(row, clock) /\ row.deletedAt = p.at
           THEN /\ rows' = [rows EXCEPT ![p.doc] = Claimed(@, clock)]
                /\ purges' = Move(purges, p, [p EXCEPT !.pc = "claimed", !.key = row.key])
           ELSE rows' = rows /\ purges' = purges \ {p}
        /\ UNCHANGED <<chunks, registered, objects, calls, issued, jobs, clock,
                       faults, orphaned>>

PurgeCheck(p) ==
    /\ p.pc = "claimed"
    /\ purges' = Move(purges, p, [p EXCEPT !.pc = IF CanDelete(p.key) THEN "unlink"
                                                                      ELSE "finalize"])
    /\ UNCHANGED <<rows, chunks, registered, objects, calls, issued, jobs, clock,
                   faults, orphaned>>

\* An object that is already gone counts as deleted.
PurgeUnlink(p) ==
    /\ p.pc = "unlink"
    /\ objects' = objects \ {p.key}
    /\ purges' = Move(purges, p, [p EXCEPT !.pc = "finalize"])
    /\ UNCHANGED <<rows, chunks, registered, calls, issued, jobs, clock, faults, orphaned>>

PurgeFinalize(p) ==
    LET row == rows[p.doc]
    IN  /\ p.pc = "finalize"
        /\ IF row.deleted /\ row.deletedAt = p.at /\ row.purgeStarted /\ ~row.purged
           THEN /\ rows' = [rows EXCEPT ![p.doc] = Purged(@, clock)]
                /\ chunks' = [chunks EXCEPT ![p.doc] = NoText]
           ELSE UNCHANGED <<rows, chunks>>
        /\ purges' = purges \ {p}
        /\ UNCHANGED <<registered, objects, calls, issued, jobs, clock, faults, orphaned>>

\* A step throws or the worker dies: the job runs again from the start until
\* its attempts are spent; the next scan adds it anew.
PurgeError(p) ==
    /\ purges' = IF p.made + 1 < PurgeAttempts
                 THEN Move(purges, p, [p EXCEPT !.made = @ + 1, !.pc = "waiting", !.key = NoKey])
                 ELSE purges \ {p}
    /\ UNCHANGED <<rows, chunks, registered, objects, calls, issued, jobs, clock,
                   faults, orphaned>>

Tick ==
    /\ clock < MaxClock
    /\ clock' = clock + 1
    /\ UNCHANGED <<rows, chunks, registered, objects, calls, issued, jobs, purges,
                   faults, orphaned>>

-----------------------------------------------------------------------------
CallStep(c) ==
    \/ \E text \in Texts \cup {NoText, Keep} : UpdateCommit(c, text)
    \/ UpdateReject(c)
    \/ RetryClaim(c) \/ RetryLost(c)
    \/ Enqueue(c) \/ EnqueueError(c) \/ EnqueueRollback(c)
    \/ CheckReplaced(c) \/ UnlinkReplaced(c)

JobStep(j) == JobRead(j) \/ JobSkip(j) \/ JobCommit(j) \/ JobAck(j)
              \/ JobAttemptFails(j) \/ JobGiveUp(j)

PurgeStep(p) == PurgeClaim(p) \/ PurgeCheck(p) \/ PurgeUnlink(p) \/ PurgeFinalize(p)

Request(r, d) ==
    \/ \E k \in Keys, text \in Texts \cup {NoText} : CreateDocument(r, d, k, text)
    \/ \E k \in Keys \cup {NoKey} : UpdateRead(r, d, k)
    \/ RetryRead(r, d) \/ DeleteDocument(r, d) \/ RestoreDocument(r, d)

Next ==
    \/ \E r \in Requests, d \in Docs : Request(r, d)
    \/ \E c \in calls : CallStep(c) \/ LoseCall(c)
    \/ \E j \in jobs : JobStep(j) \/ JobStall(j) \/ JobLost(j)
    \/ \E d \in Docs : Scan(d)
    \/ \E p \in purges : PurgeStep(p) \/ PurgeError(p)
    \/ Tick

Spec == Init /\ [][Next]_vars

(***************************************************************************)
(* Handlers that have started keep running, BullMQ keeps handing out jobs, *)
(* the hourly scheduler keeps scanning and time passes.  A purge attempt   *)
(* that is made again and again does not fail forever.                     *)
(***************************************************************************)
Fairness ==
    /\ WF_vars(Tick)
    /\ WF_vars(\E c \in calls : CallStep(c))
    /\ WF_vars(\E j \in jobs : JobStep(j))
    /\ \A d \in Docs :
        /\ WF_vars(Scan(d))
        /\ SF_vars(\E p \in purges : p.doc = d /\ PurgeClaim(p))
        /\ SF_vars(\E p \in purges : p.doc = d /\ PurgeCheck(p))
        /\ SF_vars(\E p \in purges : p.doc = d /\ PurgeUnlink(p))
        /\ SF_vars(\E p \in purges : p.doc = d /\ PurgeFinalize(p))

FairSpec == Spec /\ Fairness

-----------------------------------------------------------------------------
(* Properties *)

TypeOK ==
    /\ rows \in [Docs -> Row]
    /\ chunks \in [Docs -> Texts \cup Keys \cup {NoText, NoKey}]
    /\ registered \subseteq Keys \cup {NoKey}
    /\ objects \subseteq Keys
    /\ calls \subseteq Call
    /\ issued \subseteq Requests
    /\ jobs \subseteq Job
    /\ purges \subseteq Purge
    /\ clock \in Nat \ {0}
    /\ faults \in Nat
    /\ orphaned \subseteq Docs \X Nat

(***************************************************************************)
(* What retrieval answers from: the chunks of a Ready document were cut    *)
(* from the text the document has now, whatever edits, retries, deletions  *)
(* and late workers came in between (the snapshot check of addChunks).     *)
(***************************************************************************)
ReadyMeansCurrent ==
    \A d \in Docs :
        rows[d].status = "Ready" /\ ~rows[d].purged => chunks[d] = Source(rows[d])

(***************************************************************************)
(* A document that is active, or that restoreDocument would still accept,  *)
(* has its file: neither a replaced file's best-effort cleanup nor a purge *)
(* of another document sharing the key removes it (canDeleteStorageObject, *)
(* the key registry and the deadline together).                            *)
(***************************************************************************)
RecoverableKeepsFile ==
    \A d \in Docs :
        Active(rows[d]) \/ Restorable(rows[d], clock) => rows[d].key \in objects

(***************************************************************************)
(* Nobody forgets a Processing document: a handler is about to enqueue or  *)
(* to give up on exactly this version, or a job for it is alive, unless    *)
(* that very actor was lost to a fault (updateDocumentAsync re-enqueues    *)
(* whatever edit moved the version; failEnqueueSnapshot; onFailed).        *)
(***************************************************************************)
Pursued(d) ==
    \/ \E c \in calls : /\ c.doc = d /\ c.ver = rows[d].ver
                        /\ c.pc \in {"enqueue", "rollback"}
    \/ \E j \in jobs : /\ j.doc = d /\ Expected(j) = rows[d].ver
                       /\ j.pc \in {"waiting", "indexing", "failed"}

ProcessingIsPursued ==
    \A d \in Docs :
        Active(rows[d]) /\ rows[d].status = "Processing"
            => Pursued(d) \/ <<d, rows[d].ver>> \in orphaned

(***************************************************************************)
(* What docs/frontend-realtime-ingestion.md promises: a job is run at most *)
(* as often as it has attempts, whatever happens to its workers (a stalled *)
(* run does not count as an attempt in BullMQ, so the code runs it again). *)
(***************************************************************************)
RunsBounded == \A j \in jobs : j.pc = "indexing" => j.made + j.stalls < Attempts

(***************************************************************************)
(* The CHECK constraint document_trash_state_check of the migration, which *)
(* would abort a transaction that broke it, and the reason a purge cannot  *)
(* meet a restore: a claim exists only once the deadline has passed.       *)
(***************************************************************************)
TrashState ==
    \A d \in Docs : LET row == rows[d] IN
        /\ ~row.deleted => /\ row.deletedAt = 0 /\ row.purgeAfter = 0
                           /\ ~row.purgeStarted /\ ~row.purged
        /\ row.deleted => row.deletedAt # 0 /\ row.purgeAfter # 0
        /\ row.purged => row.purgeStarted
        /\ row.purgeStarted => row.purgeAfter <= clock

(***************************************************************************)
(* No two documents come to own one storage key; only imports that shared  *)
(* it from the start do (addDocument and updateDocument under the advisory *)
(* lock of the key).                                                       *)
(***************************************************************************)
KeysExclusive ==
    \A d, e \in Docs :
        d # e /\ Exists(rows[d]) /\ Exists(rows[e]) /\ rows[d].key = rows[e].key
            => rows[d].key = SeedKey /\ {d, e} \subseteq Seeds

(***************************************************************************)
(* Every transaction that changes a document moves its version forward,    *)
(* whichever clock stamped it and however many fall into one tick: the     *)
(* compare-and-sets and the staleness checks rest on it.                   *)
(***************************************************************************)
VersionsAdvance ==
    [][\A d \in Docs : rows'[d] # rows[d] => rows'[d].ver > rows[d].ver]_vars

(***************************************************************************)
(* A settled outcome is not overturned by a late answer: from Ready or     *)
(* Failed a document only goes back to Processing.                         *)
(***************************************************************************)
OutcomeStands ==
    [][\A d \in Docs : rows[d].status \in {"Ready", "Failed"}
            => rows'[d].status \in {rows[d].status, "Processing"}]_vars

(***************************************************************************)
(* A purge is final: nothing restores, re-indexes or edits a purged        *)
(* document, and none of its text stays behind.                            *)
(***************************************************************************)
PurgeIsFinal ==
    [][\A d \in Docs :
        /\ rows[d].purged => rows'[d] = rows[d]
        /\ rows'[d].purged => chunks'[d] = NoText /\ rows'[d].content = NoText]_vars

(***************************************************************************)
(* The handlers, jobs and versions implement the contract: each commit is  *)
(* one step of DocumentContract or invisible to it.  In particular a       *)
(* worker publishes the text the document has at that very moment, though  *)
(* it read it several awaits earlier.                                      *)
(***************************************************************************)
TrashOf(row) ==
    IF row.purged THEN "purged"
    ELSE IF row.purgeStarted THEN "doomed"
    ELSE IF row.deleted THEN "trashed" ELSE "active"

Contract == INSTANCE DocumentContract WITH
    Values <- Texts \cup Keys \cup {NoKey},
    Nothing <- NoText,
    phase <- [d \in Docs |-> rows[d].status],
    trash <- [d \in Docs |-> TrashOf(rows[d])],
    source <- [d \in Docs |-> Source(rows[d])],
    index <- chunks

ImplementsContract == Contract!Spec

(***************************************************************************)
(* Every ingestion whose actors survive comes to an end: a Processing      *)
(* document becomes Ready or Failed, or is deleted, or was orphaned.       *)
(***************************************************************************)
Pending(d) ==
    /\ Active(rows[d]) /\ rows[d].status = "Processing"
    /\ <<d, rows[d].ver>> \notin orphaned

IngestionSettles == \A d \in Docs : Pending(d) ~> ~Pending(d)

(***************************************************************************)
(* A document left in the trash past its deadline is purged in the end,    *)
(* through failing attempts, crashes and spent jobs.                       *)
(***************************************************************************)
TrashIsEmptied == \A d \in Docs : Expired(rows[d], clock) ~> rows[d].purged

=============================================================================
