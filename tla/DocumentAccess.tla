--------------------------- MODULE DocumentAccess ---------------------------
(***************************************************************************)
(* Who sees which document of a knowledge space: the cached document list, *)
(* search, detail and download, running against edits, deletions, restores *)
(* and changes of the documents' permissions.                              *)
(*                                                                         *)
(* Each statement, transaction and cache call is one step; a handler is a  *)
(* record in `calls` whose pc names the await it has reached.  The list    *)
(* cache is keyed by user and by a version that every writer replaces      *)
(* after its commit; every call of the cache may fail.                     *)
(***************************************************************************)
EXTENDS Integers, FiniteSets

CONSTANTS
    Docs,          \* documents of the space
    Viewers,       \* members who only read
    Editors,       \* members who also write
    Requests,      \* requests; each is issued once, so this bounds them
    Matching,      \* documents whose title contains the searched name
    NoVersion      \* the version key could not be read

Members == Viewers \cup Editors

AccessAssumption ==
    Matching \subseteq Docs /\ NoVersion \notin Nat

VARIABLES
    docs,      \* document: version, visibility and deletion mark of each row
    grants,    \* document_permission: the users each document is shared with
    version,   \* document-list:<space>:version, 0 while it was never set
    pages,     \* cached lists: <<user, version, page>>
    calls,     \* handlers in flight, and those that have answered
    issued     \* requests already issued

vars == <<docs, grants, version, pages, calls, issued>>

Row == [ver: Nat \ {0}, restricted: BOOLEAN, deleted: BOOLEAN]

\* A page tells the version under which each document is listed, 0 if it is not.
Page == [Docs -> Nat]
NoPage == [d \in Docs |-> 0]

\* seen (history): the lists the caller was entitled to while the handler ran;
\* overtaken (history): a write came between what was checked and what is shown.
Call == [id: Requests, user: Members,
         op: {"list", "search", "detail", "download", "edit", "delete",
              "restore", "setGrants", "addGrants"},
         doc: Docs, version: Nat \cup {NoVersion}, page: Page, seen: SUBSET Page,
         to: SUBSET Members, restrict: BOOLEAN, overtaken: BOOLEAN,
         pc: {"version", "cached", "validate", "query", "store", "row",
              "permission", "reply", "write", "bump", "answered"}]

\* Public, or restricted and shared with the user.
CanSee(row, g, u) == ~row.deleted /\ (row.restricted => u \in g)

Listing(ds, gs, u) ==
    [d \in Docs |-> IF CanSee(ds[d], gs[d], u) THEN ds[d].ver ELSE 0]

\* What a caller is entitled to, stated without the code's own predicate.
Entitled(ds, gs, u) ==
    [d \in Docs |-> IF ds[d].deleted \/ (ds[d].restricted /\ u \notin gs[d])
                    THEN 0 ELSE ds[d].ver]

Found(page) == [d \in Docs |-> IF d \in Matching THEN page[d] ELSE 0]

\* This step takes the document of a detail that is already permitted from its
\* reader's sight, or replaces the path that a download still to be permitted
\* has read.
Overtakes(c) ==
    \/ /\ c.op = "detail" /\ c.pc = "reply"
       /\ Entitled(docs, grants, c.user)[c.doc] # 0
       /\ Entitled(docs', grants', c.user)[c.doc] = 0
    \/ c.op = "download" /\ c.pc = "permission" /\ docs'[c.doc].ver # docs[c.doc].ver

Watch(cs) ==
    {IF c.pc = "answered" THEN c
     ELSE [c EXCEPT !.seen = @ \cup {Entitled(docs', grants', c.user)},
                    !.overtaken = @ \/ Overtakes(c)] : c \in cs}

\* The handler c becomes c2, and all handlers in flight observe the new state.
Move(c, c2) == calls' = Watch((calls \ {c}) \cup {c2})
Drop(c) == calls' = Watch(calls \ {c})
Answer(c, page) == Move(c, [c EXCEPT !.page = page, !.pc = "answered"])

Start(r, u, op, d, pc, to, restrict) ==
    /\ r \notin issued /\ issued' = issued \cup {r}
    /\ UNCHANGED <<docs, grants, version, pages>>
    /\ calls' = Watch(calls \cup {[id |-> r, user |-> u, op |-> op, doc |-> d,
                                   version |-> NoVersion, page |-> NoPage, seen |-> {},
                                   to |-> to, restrict |-> restrict, overtaken |-> FALSE,
                                   pc |-> pc]})

Init ==
    /\ docs \in [Docs -> {[ver |-> 1, restricted |-> b, deleted |-> FALSE] : b \in BOOLEAN}]
    /\ grants = [d \in Docs |-> {}]
    /\ version = 0 /\ pages = {} /\ calls = {} /\ issued = {}

-----------------------------------------------------------------------------
(* Readers.  Every member may read. *)

StartRead(r, u, d) ==
    \/ Start(r, u, "list", d, "version", {}, FALSE)
    \/ Start(r, u, "search", d, "query", {}, FALSE)
    \/ \E op \in {"detail", "download"} : Start(r, u, op, d, "row", {}, FALSE)

\* Without a version nothing is looked up and nothing will be stored.
ReadListVersion(c) ==
    /\ c.pc = "version"
    /\ UNCHANGED <<docs, grants, version, pages, issued>>
    /\ \/ Move(c, [c EXCEPT !.version = version, !.pc = "cached"])
       \/ Move(c, [c EXCEPT !.pc = "query"])

\* A miss and a failing cache both lead to the database.
ReadCachedPage(c) ==
    /\ c.pc = "cached"
    /\ UNCHANGED <<docs, grants, version, pages, issued>>
    /\ \/ \E p \in pages :
            /\ p[1] = c.user /\ p[2] = c.version
            /\ Move(c, [c EXCEPT !.page = p[3], !.pc = "validate"])
       \/ Move(c, [c EXCEPT !.pc = "query"])

\* Mutant of CachedPageHolds: a page found in the cache is trusted.
CachedPageHoldsUnchecked(c) == TRUE

\* validateCachedDocumentList runs the query again and compares the pages.
CachedPageHolds(c) == c.page = Listing(docs, grants, c.user)

ValidatePage(c) ==
    /\ c.pc = "validate"
    /\ UNCHANGED <<docs, grants, version, pages, issued>>
    /\ IF CachedPageHolds(c) THEN Answer(c, c.page)
       ELSE Move(c, [c EXCEPT !.pc = "query"])

QueryList(c) ==
    /\ c.pc = "query" /\ c.op = "list"
    /\ UNCHANGED <<docs, grants, version, pages, issued>>
    /\ LET page == Listing(docs, grants, c.user)
       IN  IF c.version = NoVersion THEN Answer(c, page)
           ELSE Move(c, [c EXCEPT !.page = page, !.pc = "store"])

\* Stored under the version read before the query, whatever it is by now.
StorePage(c) ==
    /\ c.pc = "store"
    /\ \/ pages' = {p \in pages : <<p[1], p[2]>> # <<c.user, c.version>>}
                     \cup {<<c.user, c.version, c.page>>}
       \/ pages' = pages
    /\ UNCHANGED <<docs, grants, version, issued>>
    /\ Answer(c, c.page)

SearchDocuments(c) ==
    /\ c.pc = "query" /\ c.op = "search"
    /\ UNCHANGED <<docs, grants, version, pages, issued>>
    /\ Answer(c, Found(Listing(docs, grants, c.user)))

Keeping(c, v) == [c EXCEPT !.page = [NoPage EXCEPT ![c.doc] = v]]

\* Detail and download read the row's visibility first; 404 if it is deleted.
ReadStorageData(c) ==
    /\ c.pc = "row"
    /\ UNCHANGED <<docs, grants, version, pages, issued>>
    /\ LET row == docs[c.doc]
       IN  IF row.deleted THEN Drop(c)
           ELSE Move(c, [Keeping(c, row.ver) EXCEPT
                            !.pc = IF row.restricted THEN "permission" ELSE "reply"])

HasPermission(c) == c.user \in grants[c.doc] /\ ~docs[c.doc].deleted

CheckDocumentPermission(c) ==
    /\ c.pc = "permission"
    /\ UNCHANGED <<docs, grants, version, pages, issued>>
    /\ IF HasPermission(c) THEN Move(c, [c EXCEPT !.pc = "reply"]) ELSE Drop(c)

\* Mutant of GetDownloadUrl: the path is read once more before it is signed.
GetDownloadUrlAgain(c) ==
    /\ c.pc = "reply" /\ c.op = "download"
    /\ UNCHANGED <<docs, grants, version, pages, issued>>
    /\ Answer(c, Keeping(c, docs[c.doc].ver).page)

\* A download signs the path it has read; a detail reads the row again.
GetDownloadUrl(c) ==
    /\ c.pc = "reply" /\ c.op = "download"
    /\ UNCHANGED <<docs, grants, version, pages, issued>>
    /\ Answer(c, c.page)

GetDocumentDetail(c) ==
    /\ c.pc = "reply" /\ c.op = "detail"
    /\ UNCHANGED <<docs, grants, version, pages, issued>>
    /\ IF docs[c.doc].deleted THEN Drop(c)
       ELSE Answer(c, Keeping(c, docs[c.doc].ver).page)

\* The cache drops entries when it likes.
Evict(p) ==
    /\ pages' = pages \ {p}
    /\ UNCHANGED <<docs, grants, version, calls, issued>>

-----------------------------------------------------------------------------
(* Writers.  Editors edit and share; the row is locked while it is changed. *)

StartWrite(r, u, d) ==
    /\ u \in Editors
    /\ \/ \E b \in BOOLEAN : Start(r, u, "edit", d, "write", {}, b)
       \/ \E op \in {"delete", "restore"} : Start(r, u, op, d, "write", {}, FALSE)
       \/ \E op \in {"setGrants", "addGrants"}, S \in SUBSET Members :
            ~docs[d].deleted /\ Start(r, u, op, d, "write", S, FALSE)

Written(c, row) ==
    CASE c.op = "edit" -> [row EXCEPT !.ver = @ + 1, !.restricted = c.restrict]
      [] c.op = "delete" -> [row EXCEPT !.ver = @ + 1, !.deleted = TRUE]
      [] c.op = "restore" -> [row EXCEPT !.ver = @ + 1, !.deleted = FALSE]
      [] OTHER -> row

\* updateDocumentPermission replaces the grants, addDocumentPermission adds.
Granted(c) ==
    CASE c.op = "setGrants" -> c.to
      [] c.op = "addGrants" -> grants[c.doc] \cup c.to
      [] OTHER -> grants[c.doc]

Refused(c) == docs[c.doc].deleted # (c.op = "restore")

CommitWrite(c) ==
    /\ c.pc = "write"
    /\ UNCHANGED <<version, pages, issued>>
    /\ IF Refused(c)
       THEN UNCHANGED <<docs, grants>> /\ Drop(c)
       ELSE /\ docs' = [docs EXCEPT ![c.doc] = Written(c, @)]
            /\ grants' = [grants EXCEPT ![c.doc] = Granted(c)]
            /\ Move(c, [c EXCEPT !.pc = "bump"])

\* A random version: one that no page is stored under and no handler holds.
FreshVersion ==
    LET used == {version} \cup {p[2] : p \in pages} \cup {c.version : c \in calls}
    IN  CHOOSE n \in 1 .. (2 * Cardinality(Requests) + 2) : n \notin used

\* A failure is only logged.
InvalidateDocumentCaches(c) ==
    /\ c.pc = "bump"
    /\ version' \in {version, FreshVersion}
    /\ UNCHANGED <<docs, grants, pages, issued>>
    /\ Drop(c)

-----------------------------------------------------------------------------
Next ==
    \/ \E r \in Requests, u \in Members, d \in Docs : StartRead(r, u, d) \/ StartWrite(r, u, d)
    \/ \E c \in calls :
        \/ ReadListVersion(c) \/ ReadCachedPage(c) \/ ValidatePage(c) \/ QueryList(c)
        \/ StorePage(c) \/ SearchDocuments(c) \/ ReadStorageData(c)
        \/ CheckDocumentPermission(c) \/ GetDownloadUrl(c) \/ GetDocumentDetail(c)
        \/ CommitWrite(c) \/ InvalidateDocumentCaches(c)
    \/ \E p \in pages : Evict(p)

Spec == Init /\ [][Next]_vars

-----------------------------------------------------------------------------
TypeOK ==
    /\ docs \in [Docs -> Row] /\ grants \in [Docs -> SUBSET Members]
    /\ version \in Nat /\ issued \subseteq Requests
    /\ pages \subseteq Members \X Nat \X Page
    /\ calls \subseteq Call

(***************************************************************************)
(* A list answered from the cache is as good as one read from the          *)
(* database: every answer is the list the caller was entitled to at some   *)
(* moment while the request was handled, even when every invalidation was  *)
(* lost or came late (getDocumentListAsync, validateCachedDocumentList).   *)
(***************************************************************************)
ListsAreCurrent ==
    \A c \in calls : c.pc = "answered" =>
        /\ c.op = "list" => c.page \in c.seen
        /\ c.op = "search" => c.page \in {Found(p) : p \in c.seen}

(***************************************************************************)
(* A detail or a download is answered only to a member who could see the   *)
(* document at some moment while the request was handled, although         *)
(* visibility, permission and content are read in separate statements; and *)
(* what it shows is a version its reader could see, with two exceptions    *)
(* and no other: a detail shows the latest version although the document   *)
(* was taken from its reader between the check and the second read, and a  *)
(* download signs a path that was replaced between the read and the check  *)
(* (getDocumentDetailAsync, getDownloadUrl).                               *)
(***************************************************************************)
ReadsAreEntitled ==
    \A c \in calls : c.pc = "answered" /\ c.op \in {"detail", "download"} =>
        /\ \E p \in c.seen : p[c.doc] # 0
        /\ c.overtaken \/ \E p \in c.seen : p[c.doc] # 0 /\ p[c.doc] = c.page[c.doc]
=============================================================================
