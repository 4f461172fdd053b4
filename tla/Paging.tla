------------------------------- MODULE Paging -------------------------------
(***************************************************************************)
(* Reading a list page by page while its rows come, go and move.           *)
(*                                                                         *)
(* Every list of the service is read by skip and take, together with a     *)
(* count from which the page's flags are computed.  The lists differ in    *)
(* two ways: whether rows with equal timestamps are ordered by id, and     *)
(* whether rows and count are read from one snapshot.                      *)
(***************************************************************************)
EXTENDS Integers, FiniteSets, Sequences

CONSTANTS
    MaxId,      \* bound: rows ever inserted
    MaxStamp,   \* bound of the clock that stamps the rows
    PageSizes,  \* page sizes a client may ask for
    MaxWrites   \* bound: changes of the table

PagingAssumption ==
    /\ MaxId \in Nat /\ MaxStamp \in Nat /\ MaxWrites \in Nat
    /\ PageSizes \subseteq Nat \ {0}

VARIABLES
    rows,     \* rows that satisfy the list's filter: id |-> stamp, 0 if absent
    clock, writes,
    list,     \* the list that is read
    size,     \* page size of the reader
    reader    \* the reader going through the pages

vars == <<rows, clock, writes, list, size, reader>>

Ids == 1 .. MaxId

-----------------------------------------------------------------------------
(* The lists.  Their filters decide what is a row and are not modelled here. *)
DocumentList == [name |-> "documents", byId |-> TRUE, oneSnapshot |-> TRUE]
DocumentSearch == [name |-> "search", byId |-> TRUE, oneSnapshot |-> TRUE]
TrashList == [name |-> "trash", byId |-> TRUE, oneSnapshot |-> TRUE]
MemberList == [name |-> "members", byId |-> TRUE, oneSnapshot |-> FALSE]
SpaceList == [name |-> "spaces", byId |-> FALSE, oneSnapshot |-> FALSE]
SessionList == [name |-> "sessions", byId |-> FALSE, oneSnapshot |-> FALSE]
MessageList == [name |-> "messages", byId |-> FALSE, oneSnapshot |-> FALSE]
QuestionList == [name |-> "questions", byId |-> FALSE, oneSnapshot |-> FALSE]

Lists == {DocumentList, DocumentSearch, TrashList, MemberList, SpaceList,
          SessionList, MessageList, QuestionList}

Present == {i \in Ids : rows[i] # 0}

\* Newest first; where the id does not decide, equal stamps come in any order.
Before(l, i, j) ==
    rows[i] > rows[j] \/ (rows[i] = rows[j] /\ (l.byId => i > j))

Orders(l) ==
    LET places == 1 .. Cardinality(Present)
    IN  {s \in [places -> Present] :
            \A m, n \in places : m < n => s[m] # s[n] /\ Before(l, s[m], s[n])}

\* Mutant of Skipped: pages are counted from zero.
SkippedFromZero(pageNumber, pageSize) == pageNumber * pageSize

Skipped(pageNumber, pageSize) == (pageNumber - 1) * pageSize

Slice(s, pageNumber, pageSize) ==
    SubSeq(s, Skipped(pageNumber, pageSize) + 1,
           IF Skipped(pageNumber, pageSize) + pageSize < Len(s)
           THEN Skipped(pageNumber, pageSize) + pageSize ELSE Len(s))

\* Math.ceil(totalItems / pageSize)
TotalPages(total, pageSize) == (total + pageSize - 1) \div pageSize

\* new PageResult(items, totalItems, pageNumber, currentPage, pageSize)
PageResult(items, total, pageNumber, pageSize) ==
    [items |-> items, pageNumber |-> pageNumber,
     totalPages |-> TotalPages(total, pageSize),
     hasPrevious |-> pageNumber > 1,
     hasNext |-> pageNumber < TotalPages(total, pageSize)]

NoPage == PageResult(<<>>, 0, 1, 1)

-----------------------------------------------------------------------------
\* The rows listed before i.
Ahead(i) == {j \in Present \ {i} : Before(list, j, i)}

\* The order leaves i one place only.
Decided(i) == list.byId \/ \A j \in Present \ {i} : rows[j] # rows[i]

\* pc: about to read the rows, to count them, or through with the list.
\* Histories of the reader's way through the list:
\*   settled: rows it has found, unchanged since, whose place was always decided;
\*   pushed, pulled: rows that another one has come ahead of, or has left from ahead of.
StartReader == [pc |-> "rows", next |-> 1, items |-> <<>>, page |-> NoPage, got |-> <<>>,
                settled |-> {i \in Present : Decided(i)}, pushed |-> {}, pulled |-> {}]

Init ==
    /\ clock \in 1 .. MaxStamp /\ rows \in [Ids -> 0 .. clock]
    /\ writes = 0
    /\ list \in Lists /\ size \in PageSizes
    /\ reader = StartReader

\* The reader takes the page and asks for the next one while there is one.
Turn(items, total) ==
    LET page == PageResult(items, total, reader.next, size)
    IN  reader' = [reader EXCEPT !.page = page, !.items = <<>>,
                                 !.got = @ \o items, !.next = @ + 1,
                                 !.pc = IF page.hasNext THEN "rows" ELSE "done"]

\* RepeatableRead: rows and count of one snapshot.
ReadPage ==
    /\ reader.pc = "rows" /\ list.oneSnapshot
    /\ \E s \in Orders(list) : Turn(Slice(s, reader.next, size), Len(s))
    /\ UNCHANGED <<rows, clock, writes, list, size>>

\* Two statements, each with a snapshot of its own.
ReadRows ==
    /\ reader.pc = "rows" /\ ~list.oneSnapshot
    /\ \E s \in Orders(list) :
        reader' = [reader EXCEPT !.items = Slice(s, reader.next, size), !.pc = "count"]
    /\ UNCHANGED <<rows, clock, writes, list, size>>

CountRows ==
    /\ reader.pc = "count"
    /\ Turn(reader.items, Cardinality(Present))
    /\ UNCHANGED <<rows, clock, writes, list, size>>

\* A row is inserted, changed (and stamped again) or removed.
Write(i) ==
    /\ writes < MaxWrites /\ writes' = writes + 1
    /\ rows' \in {[rows EXCEPT ![i] = s] : s \in {0, clock}}
    /\ rows' # rows /\ UNCHANGED <<clock, list, size>>
    /\ reader' = IF reader.pc = "done" THEN reader
                 ELSE [reader EXCEPT !.settled = {j \in @ \ {i} : Decided(j)'},
                                     !.pushed = @ \cup {j \in Ids : i \in Ahead(j)' \ Ahead(j)},
                                     !.pulled = @ \cup {j \in Ids : i \in Ahead(j) \ Ahead(j)'}]

Tick ==
    /\ clock < MaxStamp /\ clock' = clock + 1
    /\ UNCHANGED <<rows, writes, list, size, reader>>

Next == ReadPage \/ ReadRows \/ CountRows \/ Tick \/ \E i \in Ids : Write(i)

Spec == Init /\ [][Next]_vars

-----------------------------------------------------------------------------
TypeOK ==
    /\ rows \in [Ids -> 0 .. MaxStamp] /\ clock \in 1 .. MaxStamp
    /\ writes \in 0 .. MaxWrites /\ list \in Lists /\ size \in PageSizes
    /\ reader.pc \in {"rows", "count", "done"} /\ reader.next \in Nat
    /\ reader.got \in Seq(Ids) /\ reader.items \in Seq(Ids)
    /\ reader.page.totalPages \in 0 .. MaxId

(***************************************************************************)
(* What a client who follows hasNext misses or reads twice while the list  *)
(* changes under it, every page and every count being a statement of its   *)
(* own.  A row that was there from the start and is left alone is missed   *)
(* only if a row ahead of it has gone, and read twice only if a row has    *)
(* come ahead of it; in a list without an id in its order this is promised *)
(* of the rows that share their timestamp with no other (skip and take,    *)
(* PageResult, chat-session.repo.ts and its siblings).                     *)
(***************************************************************************)
MissedOrRepeatedForCause ==
    reader.pc = "done" => \A i \in reader.settled :
        LET times == {n \in DOMAIN reader.got : reader.got[n] = i}
        IN  /\ i \notin reader.pulled => times # {}
            /\ i \notin reader.pushed => \A m, n \in times : m = n
=============================================================================
