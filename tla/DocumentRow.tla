---------------------------- MODULE DocumentRow ----------------------------
(***************************************************************************)
(* One row of the document table and what each transaction of the          *)
(* repositories writes into it.  Every operator takes the row the          *)
(* transaction has locked (or compared) and the time it has read, and      *)
(* returns the row it commits.  Title, description, category, visibility   *)
(* and file size do not steer any of them and are left out.                *)
(***************************************************************************)
EXTENDS Integers

CONSTANTS
    Texts,      \* values of the content column
    Keys,       \* object-storage keys
    NoText,     \* content IS NULL, and "no chunks" for the index
    Keep,       \* an edit that does not mention content
    NoKey,      \* an edit that does not replace the file
    Retention   \* DOCUMENT_TRASH_RETENTION_DAYS, in ticks of the clock

ASSUME RetentionAssumption == Retention \in Nat \ {0}
ASSUME ValuesAssumption ==
    /\ NoText \notin Texts \cup Keys
    /\ Keep \notin Texts \cup {NoText}
    /\ NoKey \notin Keys

Status == {"None", "Processing", "Ready", "Failed"}

\* Timestamps and versions (updated_at) are naturals; 0 stands for NULL.
Row == [status: Status, ver: Nat, content: Texts \cup {NoText},
        key: Keys \cup {NoKey}, deleted: BOOLEAN, deletedAt: Nat,
        purgeAfter: Nat, purgeStarted: BOOLEAN, purged: BOOLEAN]

Absent == [status |-> "None", ver |-> 0, content |-> NoText, key |-> NoKey,
           deleted |-> FALSE, deletedAt |-> 0, purgeAfter |-> 0,
           purgeStarted |-> FALSE, purged |-> FALSE]

Exists(row) == row.status # "None"
Active(row) == Exists(row) /\ ~row.deleted

\* What the worker indexes: the content column wins over the stored file.
Source(row) == IF row.content # NoText THEN row.content ELSE row.key

Restorable(row, now) ==
    /\ row.deleted
    /\ row.purgeAfter > now
    /\ ~row.purgeStarted
    /\ ~row.purged

Expired(row, now) == row.deleted /\ row.purgeAfter <= now /\ ~row.purged

-----------------------------------------------------------------------------
\* Mutant of NextVersion: the clock alone.
NextVersionClockOnly(prev, now) == now

\* Math.max(previous + 1, now).
NextVersion(prev, now) == IF now > prev THEN now ELSE prev + 1

\* A row as Document.createDocument builds it, stamped by the application.
Created(key, text, now) ==
    [Absent EXCEPT !.status = "Processing", !.ver = now,
                   !.content = text, !.key = key]

\* Mutant of Matches: an unconditional update of an active row.
MatchesAnything(row, status, ver) == Active(row)

\* The compare of the compare-and-set in transitionDocumentStatus.
Matches(row, status, ver) == Active(row) /\ row.status = status /\ row.ver = ver

Transitioned(row, status, now) ==
    [row EXCEPT !.status = status, !.ver = NextVersion(@, now)]

\* Mutant of Edited: an absent content overwrites the stored one.
EditedUndefined(row, text, key, now) ==
    [row EXCEPT !.ver = NextVersion(@, now), !.content = text,
                !.key = IF key = NoKey THEN @ ELSE key, !.status = "Processing"]

\* content or a file in the request sends the document back to Processing.
Edited(row, text, key, now) ==
    [row EXCEPT
        !.ver = NextVersion(@, now),
        !.content = IF text = Keep THEN @ ELSE text,
        !.key = IF key = NoKey THEN @ ELSE key,
        !.status = IF text # Keep \/ key # NoKey THEN "Processing" ELSE @]

SoftDeleted(row, now) ==
    [row EXCEPT !.deleted = TRUE, !.deletedAt = now,
                !.purgeAfter = now + Retention, !.ver = NextVersion(@, now)]

\* Mutant of Restored: the deadline stays on the row.
RestoredKeepsDeadline(row, now) ==
    [row EXCEPT !.deleted = FALSE, !.deletedAt = 0,
                !.status = IF @ = "Processing" THEN "Failed" ELSE @,
                !.ver = NextVersion(@, now)]

\* A document deleted while its ingestion was running comes back Failed.
Restored(row, now) ==
    [row EXCEPT !.deleted = FALSE, !.deletedAt = 0, !.purgeAfter = 0,
                !.purgeStarted = FALSE, !.purged = FALSE,
                !.status = IF @ = "Processing" THEN "Failed" ELSE @,
                !.ver = NextVersion(@, now)]

\* The claim is recorded once; a second claim leaves the row as it is.
Claimed(row, now) ==
    IF row.purgeStarted
    THEN row
    ELSE [row EXCEPT !.purgeStarted = TRUE, !.ver = NextVersion(@, now)]

Purged(row, now) ==
    [row EXCEPT !.content = NoText, !.purged = TRUE,
                !.ver = NextVersion(@, now)]

=============================================================================
