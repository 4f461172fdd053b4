---------------------------- MODULE MCMembership ----------------------------
(***************************************************************************)
(* Membership, DocumentAccess, ListCache, Paging and DemoQuota in one run: *)
(* what a knowledge space shows, and to whom.  They share no state, so     *)
(* each behaviour is of one of them, its part, while the others stay as    *)
(* they were.                                                              *)
(***************************************************************************)
EXTENDS Membership, TLC

CONSTANTS
    Docs, Viewers, Editors, Matching, Handlers, Names, NoVersion,
    MaxId, MaxStamp, PageSizes, MaxWrites,
    MaxSessions, Ips, QuestionLimit, DailyLimit, Duration, Minute, Hour, Day, Timeout,
    KeepDays, PerMinute, PerHour, BatchSize, MaxTime

VARIABLES
    part,
    docs, grants, pagesVersion, pages, accessCalls, accessIssued,
    table, listVersion, stored, listCalls, listIssued, lost,
    rows, clock, writes, list, size, reader,
    demoClock, session, usage, ipLock, dayLock, demoCalls, demoIssued, granted

accessVars == <<docs, grants, pagesVersion, pages, accessCalls, accessIssued>>
listVars == <<table, listVersion, stored, listCalls, listIssued, lost>>
pagingVars == <<rows, clock, writes, list, size, reader>>
demoVars == <<demoClock, session, usage, ipLock, dayLock, demoCalls, demoIssued, granted>>

A == INSTANCE DocumentAccess WITH Requests <- Handlers, version <- pagesVersion,
                                  calls <- accessCalls, issued <- accessIssued
L == INSTANCE ListCache WITH Requests <- Handlers, version <- listVersion,
                             calls <- listCalls, issued <- listIssued
P == INSTANCE Paging
D == INSTANCE DemoQuota WITH clock <- demoClock, calls <- demoCalls, issued <- demoIssued

ASSUME PartsAssumption ==
    /\ A!AccessAssumption /\ L!ListCacheAssumption
    /\ P!PagingAssumption /\ D!DemoQuotaAssumption

\* A part that sleeps starts in one state only.
PartsInit ==
    /\ part \in {"members", "access", "lists", "paging", "demo"}
    /\ Init /\ A!Init /\ L!Init /\ P!Init /\ D!Init
    /\ part # "access" => \A d \in Docs : ~docs[d].restricted
    /\ part # "paging" => P!Present = {} /\ clock = 1 /\ list = P!TrashList /\ size = 1

PartsNext ==
    /\ UNCHANGED part
    /\ \/ part = "members" /\ Next /\ UNCHANGED <<accessVars, listVars, pagingVars, demoVars>>
       \/ part = "access" /\ A!Next /\ UNCHANGED <<vars, listVars, pagingVars, demoVars>>
       \/ part = "lists" /\ L!Next /\ UNCHANGED <<vars, accessVars, pagingVars, demoVars>>
       \/ part = "paging" /\ P!Next /\ UNCHANGED <<vars, accessVars, listVars, demoVars>>
       \/ part = "demo" /\ D!Next /\ UNCHANGED <<vars, accessVars, listVars, pagingVars>>

PartsSpec ==
    PartsInit /\ [][PartsNext]_<<part, vars, accessVars, listVars, pagingVars, demoVars>>

Symmetry == Permutations(Handlers) \cup Permutations(Accounts)

\* Of DocumentAccess: a list from the cache is one its reader was entitled to.
ListsAreCurrent == A!ListsAreCurrent

\* Of DocumentAccess: a detail or a download is of a document one could see.
ReadsAreEntitled == A!ReadsAreEntitled

\* Of ListCache: a list that can be found is the table's.
StoredListIsFresh == L!StoredListIsFresh

\* Of Paging: rows left alone are read once unless others come or go ahead of them.
MissedOrRepeatedForCause == P!MissedOrRepeatedForCause

\* Of DemoQuota: what is counted is what was granted, and fits the budget.
BudgetIsExact == D!BudgetIsExact

\* Of DemoQuota: the limits of an address hold.
AddressLimitHolds == D!AddressLimitHolds

\* Of DemoQuota: only the user of an active session asks.
AskedWhileActive == D!AskedWhileActive
=============================================================================
