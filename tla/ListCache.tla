----------------------------- MODULE ListCache -----------------------------
(***************************************************************************)
(* The two lists that are served from the cache without asking the         *)
(* database: the types of knowledge space and the categories of a space.   *)
(*                                                                         *)
(* A reader looks up a version, then the list stored under it; on a miss   *)
(* it queries and stores the result under the version it read.  A writer   *)
(* looks the name up, inserts, replaces the version and deletes the list   *)
(* of the version it found.  Every cache call may fail and is only logged. *)
(***************************************************************************)
EXTENDS Integers

CONSTANTS
    Names,       \* names a type or a category may have
    Requests,    \* requests; each is issued once, so this bounds them
    NoVersion    \* the version could not be read

ListCacheAssumption == 0 \notin Requests /\ NoVersion \notin Requests \cup {0}

VARIABLES
    table,     \* rows of each list: <<request that inserted it, name>>
    version,   \* the version key of each list, 0 while it was never set
    stored,    \* cached lists: <<list, version, names>>
    calls,     \* handlers in flight
    issued,    \* requests already issued
    lost       \* history: lists an invalidation of which has come to nothing

vars == <<table, version, stored, calls, issued, lost>>

Lists == {"types", "categories"}

\* A version is the random one that a request has set, or 0.
Versions == Requests \cup {0}

Call == [id: Requests, list: Lists, name: Names, version: Versions \cup {NoVersion},
         names: SUBSET Names, failed: BOOLEAN,
         pc: {"version", "cached", "query", "store",
              "lookup", "insert", "old", "set", "delete"}]

NamesOf(l) == {row[2] : row \in table[l]}

Move(c, c2) == calls' = (calls \ {c}) \cup {c2}
Finish(c) == calls' = calls \ {c}

Start(r, l, n, pc) ==
    /\ r \notin issued /\ issued' = issued \cup {r}
    /\ calls' = calls \cup {[id |-> r, list |-> l, name |-> n, version |-> NoVersion,
                             names |-> {}, failed |-> FALSE, pc |-> pc]}
    /\ UNCHANGED <<table, version, stored, lost>>

Init ==
    /\ table = [l \in Lists |-> {}] /\ version = [l \in Lists |-> 0]
    /\ stored = {} /\ calls = {} /\ issued = {} /\ lost = {}

-----------------------------------------------------------------------------
(* Reading *)

ReadVersion(c) ==
    /\ c.pc = "version"
    /\ \/ Move(c, [c EXCEPT !.version = version[c.list], !.pc = "cached"])
       \/ Move(c, [c EXCEPT !.pc = "query"])
    /\ UNCHANGED <<table, version, stored, issued, lost>>

\* A list found under the version is the answer.
ReadStored(c) ==
    /\ c.pc = "cached"
    /\ \/ (\E s \in stored : s[1] = c.list /\ s[2] = c.version) /\ Finish(c)
       \/ Move(c, [c EXCEPT !.pc = "query"])
    /\ UNCHANGED <<table, version, stored, issued, lost>>

QueryNames(c) ==
    /\ c.pc = "query"
    /\ IF c.version = NoVersion THEN Finish(c)
       ELSE Move(c, [c EXCEPT !.names = NamesOf(c.list), !.pc = "store"])
    /\ UNCHANGED <<table, version, stored, issued, lost>>

StoredUnder(c) == c.version

\* "Retain the version read before the query, including during invalidation."
StoreNames(c) ==
    /\ c.pc = "store"
    /\ \/ stored' = {s \in stored : <<s[1], s[2]>> # <<c.list, StoredUnder(c)>>}
                       \cup {<<c.list, StoredUnder(c), c.names>>}
       \/ stored' = stored
    /\ Finish(c)
    /\ UNCHANGED <<table, version, issued, lost>>

Expire(s) ==
    /\ stored' = stored \ {s}
    /\ UNCHANGED <<table, version, calls, issued, lost>>

GetTypes(c) ==
    /\ c.list = "types"
    /\ ReadVersion(c) \/ ReadStored(c) \/ QueryNames(c) \/ StoreNames(c)

\* Members below Editor are refused and touch nothing.
GetCategoryList(c) ==
    /\ c.list = "categories"
    /\ ReadVersion(c) \/ ReadStored(c) \/ QueryNames(c) \/ StoreNames(c)

-----------------------------------------------------------------------------
(* Writing *)

\* 409 when the name is there.
LookUpName(c) ==
    /\ c.pc = "lookup"
    /\ IF c.name \in NamesOf(c.list) THEN Finish(c)
       ELSE Move(c, [c EXCEPT !.pc = "insert"])
    /\ UNCHANGED <<table, version, stored, issued, lost>>

\* The unique index refuses whoever comes second.
UniqueViolation(c) == c.name \in NamesOf(c.list)

Insert(c) ==
    /\ c.pc = "insert"
    /\ IF UniqueViolation(c)
       THEN Finish(c) /\ UNCHANGED table
       ELSE /\ table' = [table EXCEPT ![c.list] = @ \cup {<<c.id, c.name>>}]
            /\ Move(c, [c EXCEPT !.pc = "old"])
    /\ UNCHANGED <<version, stored, issued, lost>>

ReadOldVersion(c) ==
    /\ c.pc = "old"
    /\ \/ Move(c, [c EXCEPT !.version = version[c.list], !.pc = "set"])
       \/ Move(c, [c EXCEPT !.pc = "set"])
    /\ UNCHANGED <<table, version, stored, issued, lost>>

\* A random version: one that only this request sets, and only once.
FreshVersion(c) == c.id

\* Mutant of DeletesOld: the old list is deleted only when the version was set.
DeletesOldOnlyIfSet(c, ok) == ok /\ c.version # NoVersion

\* finally: whether or not the version was set.
DeletesOld(c, ok) == c.version # NoVersion

SetVersion(c) ==
    /\ c.pc = "set"
    /\ \E ok \in BOOLEAN :
        /\ version' = IF ok THEN [version EXCEPT ![c.list] = FreshVersion(c)] ELSE version
        /\ IF DeletesOld(c, ok)
           THEN Move(c, [c EXCEPT !.failed = ~ok, !.pc = "delete"]) /\ UNCHANGED lost
           ELSE Finish(c) /\ lost' = IF ok \/ c.version # NoVersion THEN lost
                                     ELSE lost \cup {c.list}
    /\ UNCHANGED <<table, stored, issued>>

\* A reader that has queried under the old version may still store its list.
StoreUnderWay(c) ==
    \E d \in calls : d.list = c.list /\ d.pc = "store" /\ d.version = c.version

DeleteStored(c) ==
    /\ c.pc = "delete"
    /\ \E ok \in BOOLEAN :
        /\ stored' = IF ok THEN {s \in stored : <<s[1], s[2]>> # <<c.list, c.version>>}
                     ELSE stored
        /\ lost' = IF c.failed /\ (~ok \/ StoreUnderWay(c)) THEN lost \cup {c.list} ELSE lost
    /\ Finish(c)
    /\ UNCHANGED <<table, version, issued>>

InvalidateList(c) == ReadOldVersion(c) \/ SetVersion(c) \/ DeleteStored(c)

AddNewType(c) ==
    /\ c.list = "types"
    /\ LookUpName(c) \/ Insert(c) \/ InvalidateList(c)

\* Only an owner gets here, or the FAQ flow on behalf of an editor.
CreateCategory(c) ==
    /\ c.list = "categories"
    /\ LookUpName(c) \/ Insert(c) \/ InvalidateList(c)

-----------------------------------------------------------------------------
Next ==
    \/ \E r \in Requests, l \in Lists, n \in Names :
        Start(r, l, n, "version") \/ Start(r, l, n, "lookup")
    \/ \E c \in calls : \/ GetTypes(c) \/ GetCategoryList(c)
                        \/ AddNewType(c) \/ CreateCategory(c)
    \/ \E s \in stored : Expire(s)

Spec == Init /\ [][Next]_vars

-----------------------------------------------------------------------------
TypeOK ==
    /\ table \in [Lists -> SUBSET (Requests \X Names)]
    /\ version \in [Lists -> Versions]
    /\ stored \subseteq Lists \X Versions \X SUBSET Names
    /\ calls \subseteq Call /\ issued \subseteq Requests /\ lost \subseteq Lists

(***************************************************************************)
(* "A concurrent mutation changes the version, making this snapshot        *)
(* unreachable" (knowledgeSpace-type.service.ts): while no writer is on    *)
(* its way from its insert to the end of its invalidation, the list a      *)
(* reader would find is the list of the table.  Replacing the version or   *)
(* deleting the old list is enough, the latter unless a reader was about   *)
(* to store what it had queried.                                           *)
(***************************************************************************)
StoredListIsFresh ==
    \A s \in stored :
        (/\ s[2] = version[s[1]] /\ s[1] \notin lost
         /\ \A c \in calls : c.list = s[1] => c.pc \notin {"old", "set", "delete"})
        => s[3] = NamesOf(s[1])
=============================================================================
