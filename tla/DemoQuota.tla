----------------------------- MODULE DemoQuota -----------------------------
(***************************************************************************)
(* Demo sessions: how they are handed out to an address, what they let     *)
(* their user ask, and how they end.  A question is paid for twice in one  *)
(* transaction, from the budget of the day and from that of the session.   *)
(*                                                                         *)
(* A transaction is the sequence of its locking statements: the advisory   *)
(* lock of an address, the row of a day, and the row of a session, which   *)
(* is its last statement.  Two addresses never wait for each other.        *)
(***************************************************************************)
EXTENDS Integers, FiniteSets

CONSTANTS
    MaxSessions,    \* bound: demo sessions, each with its own user
    Ips,            \* addresses (their keyed hashes)
    MaxRequests,    \* bound: questions and creations
    QuestionLimit,  \* DEMO_SESSION_QUESTION_LIMIT
    DailyLimit,     \* DEMO_DAILY_QUESTION_LIMIT
    Duration,       \* DEMO_SESSION_TTL_SECONDS, in ticks
    Minute, Hour, Day, \* ticks
    Timeout,        \* ticks a transaction may wait for its connection and last
    KeepDays,       \* days a day's usage is kept
    PerMinute, PerHour, \* sessions an address gets in a minute and in an hour
    BatchSize,      \* sessions purged by one transaction
    MaxTime         \* bound of the clock

DemoQuotaAssumption ==
    /\ {QuestionLimit, DailyLimit, Duration, Minute, Hour, Day, Timeout, KeepDays,
        PerMinute, PerHour, BatchSize, MaxTime, MaxSessions, MaxRequests} \subseteq Nat \ {0}
    /\ Minute <= Hour /\ Hour + Timeout <= Day

VARIABLES
    clock,
    session,   \* demo_session, and the state of its user
    usage,     \* demo_daily_usage: questions of each day
    ipLock,    \* holder of the advisory lock of each address
    dayLock,   \* holder of the row of each day, which it has incremented
    calls,     \* handlers in flight
    issued,    \* requests so far
    granted    \* history: questions paid for, <<request, session, day>>

vars == <<clock, session, usage, ipLock, dayLock, calls, issued, granted>>

\* Requests and sessions are numbered as they come.
Requests == 1 .. MaxRequests
NoRequest == 0
Sessions == 1 .. MaxSessions
NoSession == 0

Days == 0 .. (MaxTime \div Day)
Today == clock \div Day

Row == [state: {"none", "there", "purged"}, ip: Ips, created: Nat, expires: Nat,
        revoked: Nat, asked: Nat]

\* now: the clock the handler has read.
\* since: when it passed the guard, and then when its transaction began.
Call == [id: Requests, session: Sessions \cup {NoSession}, ip: Ips, now: Nat,
         day: Days, since: Nat,
         pc: {"lock", "check", "insert", "read", "daily", "session", "chat"}]

There(s) == session[s].state = "there"
IsDemoActive(s) == There(s) /\ session[s].revoked = 0 /\ session[s].expires > clock

Move(c, c2) == calls' = (calls \ {c}) \cup {c2}
Finish(c) == calls' = calls \ {c}

Issue(c) ==
    /\ issued < MaxRequests /\ issued' = issued + 1
    /\ calls' = calls \cup {c}
    /\ UNCHANGED <<clock, session, usage, ipLock, dayLock, granted>>

Init ==
    /\ clock = 1
    /\ session \in [Sessions -> {[state |-> "none", ip |-> i, created |-> 0, expires |-> 0,
                                  revoked |-> 0, asked |-> 0] : i \in Ips}]
    /\ usage = [d \in Days |-> 0]
    /\ ipLock = [i \in Ips |-> NoRequest] /\ dayLock = [d \in Days |-> NoRequest]
    /\ calls = {} /\ issued = 0 /\ granted = {}

-----------------------------------------------------------------------------
(* create *)

StartCreate(i) ==
    Issue([id |-> issued + 1, session |-> NoSession, ip |-> i, now |-> 0, day |-> 0,
           since |-> clock, pc |-> "lock"])

\* Mutant of LocksIp: sessions of one address are created side by side.
LocksIpNever(c) == UNCHANGED ipLock

\* pg_advisory_xact_lock(ipHash)
LocksIp(c) == ipLock[c.ip] = NoRequest /\ ipLock' = [ipLock EXCEPT ![c.ip] = c.id]

UnlocksIp(c) ==
    ipLock' = [i \in Ips |-> IF ipLock[i] = c.id THEN NoRequest ELSE ipLock[i]]

LockIp(c) ==
    /\ c.pc = "lock" /\ LocksIp(c)
    /\ Move(c, [c EXCEPT !.now = clock, !.pc = "check"])
    /\ UNCHANGED <<clock, session, usage, dayLock, issued, granted>>

CreatedAfter(i, t) ==
    {s \in Sessions : session[s].state # "none" /\ session[s].ip = i /\ session[s].created > t}
Recent(c, window) == {s \in CreatedAfter(c.ip, c.now - window) : There(s)}

\* "Too many demo sessions."  A session whose space is missing is refused too.
CountRecent(c) ==
    /\ c.pc = "check"
    /\ IF \/ Cardinality(Recent(c, Hour)) >= PerHour
          \/ Cardinality(Recent(c, Minute)) >= PerMinute
       THEN Finish(c) /\ UnlocksIp(c)
       ELSE Move(c, [c EXCEPT !.pc = "insert"]) /\ UNCHANGED ipLock
    /\ UNCHANGED <<clock, session, usage, dayLock, issued, granted>>

\* The user, the membership as a Viewer and the session; then the commit.
InsertSession(c) ==
    /\ c.pc = "insert"
    /\ \E s \in Sessions :
        /\ session[s].state = "none" /\ (\A t \in 1 .. s - 1 : session[t].state # "none")
        /\ session' = [session EXCEPT ![s] =
                          [state |-> "there", ip |-> c.ip, created |-> clock,
                           expires |-> c.now + Duration, revoked |-> 0, asked |-> 0]]
    /\ Finish(c) /\ UnlocksIp(c)
    /\ UNCHANGED <<clock, usage, dayLock, issued, granted>>

-----------------------------------------------------------------------------
(* A question *)

\* DemoAccessGuard, and the checks of chatAsync up to the reservation.
StartQuestion(s) ==
    /\ IsDemoActive(s)
    /\ Issue([id |-> issued + 1, session |-> s, ip |-> session[s].ip, now |-> 0, day |-> 0,
              since |-> clock, pc |-> "read"])

\* findFirst; a user without a session is no demo user and is not counted.
ReadSession(c) ==
    /\ c.pc = "read"
    /\ IF ~There(c.session) THEN Move(c, [c EXCEPT !.pc = "chat"])
       ELSE IF IsDemoActive(c.session)
            THEN Move(c, [c EXCEPT !.day = Today, !.since = clock, !.pc = "daily"])
            ELSE Finish(c)
    /\ UNCHANGED <<clock, session, usage, ipLock, dayLock, issued, granted>>

DayHasRoom(d) == usage[d] < DailyLimit

\* upsert, then updateMany ... question_count < limit, which keeps the row;
\* then the handler reads the clock for the statement that follows.
TakeFromDay(c) ==
    /\ c.pc = "daily" /\ dayLock[c.day] = NoRequest
    /\ IF DayHasRoom(c.day)
       THEN /\ usage' = [usage EXCEPT ![c.day] = @ + 1]
            /\ dayLock' = [dayLock EXCEPT ![c.day] = c.id]
            /\ Move(c, [c EXCEPT !.now = clock, !.pc = "session"])
       ELSE Finish(c) /\ UNCHANGED <<usage, dayLock>>
    /\ UNCHANGED <<clock, session, ipLock, issued, granted>>

UnlocksDay(c) ==
    dayLock' = [d \in Days |-> IF dayLock[d] = c.id THEN NoRequest ELSE dayLock[d]]

\* Mutant of DayAfterRollback: the day's count is not given back.
DayAfterRollbackKept(c) == usage

\* The transaction rolls back with everything it has written.
DayAfterRollback(c) ==
    IF c.pc = "session" THEN [usage EXCEPT ![c.day] = @ - 1] ELSE usage

\* Mutant of SessionHasRoom: the state read at the start is relied upon.
SessionHasRoomUnchecked(s, now) == There(s) /\ session[s].asked < QuestionLimit

\* The statement may wait for the row: the session can have expired since now.
SessionHasRoom(s, now) ==
    /\ There(s) /\ session[s].expires > now /\ session[s].revoked = 0
    /\ session[s].asked < QuestionLimit

TakeFromSession(c) ==
    /\ c.pc = "session"
    /\ IF SessionHasRoom(c.session, c.now)
       THEN /\ session' = [session EXCEPT ![c.session].asked = @ + 1]
            /\ granted' = granted \cup {<<c.id, c.session, c.day>>}
            /\ Move(c, [c EXCEPT !.pc = "chat"])
            /\ UNCHANGED usage
       ELSE Finish(c) /\ usage' = DayAfterRollback(c) /\ UNCHANGED <<session, granted>>
    /\ UnlocksDay(c)
    /\ UNCHANGED <<clock, ipLock, issued>>

\* The question is answered; what follows is not the demo's concern.
Ask(c) ==
    /\ c.pc = "chat" /\ Finish(c)
    /\ UNCHANGED <<clock, session, usage, ipLock, dayLock, issued, granted>>

\* A transaction that fails or times out.
Fail(c) ==
    /\ c.pc # "chat" /\ Finish(c)
    /\ UnlocksIp(c) /\ UnlocksDay(c) /\ usage' = DayAfterRollback(c)
    /\ UNCHANGED <<clock, session, issued, granted>>

-----------------------------------------------------------------------------
(* The end of a session *)

\* The guard and status() require an active session; revoke sets revoked_at.
Revoke(s) ==
    /\ IsDemoActive(s)
    /\ session' = [session EXCEPT ![s].revoked = clock]
    /\ UNCHANGED <<clock, usage, ipLock, dayLock, calls, issued, granted>>

\* Expired or revoked for more than a day.
Dead(s) ==
    /\ There(s)
    /\ \/ session[s].expires < clock - Day
       \/ session[s].revoked # 0 /\ session[s].revoked < clock - Day

\* One transaction deletes a batch with all the users left behind; the job
\* goes on while the batches are full, so one that is not is the last.
Cleanup ==
    /\ \E S \in SUBSET {s \in Sessions : Dead(s)} :
        /\ Cardinality(S) = BatchSize \/ S = {s \in Sessions : Dead(s)}
        /\ Cardinality(S) <= BatchSize
        /\ session' = [s \in Sessions |-> IF s \in S THEN [session[s] EXCEPT !.state = "purged"]
                                          ELSE session[s]]
    /\ \A d \in Days : Today - d > KeepDays => dayLock[d] = NoRequest
    /\ usage' = [d \in Days |-> IF Today - d > KeepDays THEN 0 ELSE usage[d]]
    /\ UNCHANGED <<clock, ipLock, dayLock, calls, issued, granted>>

\* A request takes less than a day, its transaction fails after Timeout.
TimeFor(c) == IF c.pc \in {"read", "chat"} THEN Day ELSE Timeout

Tick ==
    /\ clock < MaxTime /\ clock' = clock + 1
    /\ \A c \in calls : clock < c.since + TimeFor(c)
    /\ UNCHANGED <<session, usage, ipLock, dayLock, calls, issued, granted>>

-----------------------------------------------------------------------------
Next ==
    \/ \E i \in Ips : StartCreate(i)
    \/ \E s \in Sessions : StartQuestion(s)
    \/ \E c \in calls :
        \/ LockIp(c) \/ CountRecent(c) \/ InsertSession(c)
        \/ ReadSession(c) \/ TakeFromDay(c) \/ TakeFromSession(c) \/ Ask(c) \/ Fail(c)
    \/ \E s \in Sessions : Revoke(s)
    \/ Cleanup \/ Tick

Spec == Init /\ [][Next]_vars

-----------------------------------------------------------------------------
TypeOK ==
    /\ clock \in 1 .. MaxTime /\ session \in [Sessions -> Row]
    /\ usage \in [Days -> Nat]
    /\ ipLock \in [Ips -> Requests \cup {NoRequest}]
    /\ dayLock \in [Days -> Requests \cup {NoRequest}]
    /\ calls \subseteq Call /\ issued \in 0 .. MaxRequests
    /\ granted \subseteq Requests \X Sessions \X Days

(***************************************************************************)
(* No question is paid for twice or not at all: what the day and the       *)
(* session have counted is what was granted, whichever statement of a      *)
(* reservation refuses or fails; and no day grants more than its budget to *)
(* all the sessions together (reserveQuestion).                            *)
(***************************************************************************)
BudgetIsExact ==
    /\ \A d \in Days : Today - d <= KeepDays =>
        usage[d] = Cardinality({g \in granted : g[3] = d})
                     + (IF dayLock[d] = NoRequest THEN 0 ELSE 1)
    /\ \A s \in Sessions : session[s].asked = Cardinality({g \in granted : g[2] = s})
    /\ \A d \in Days : Cardinality({g \in granted : g[3] = d}) <= DailyLimit

(***************************************************************************)
(* A question reaches the chat only from a session that is not revoked     *)
(* when it is counted, and that has not been expired for longer than a     *)
(* transaction lasts, although the session is first read without a lock;   *)
(* and no demo user asks uncounted (reserveQuestion).                      *)
(***************************************************************************)
AskedWhileActive ==
    [][\A c \in calls' : c.pc = "chat" /\ c \notin calls =>
        /\ There(c.session) /\ session[c.session].revoked = 0
        /\ session[c.session].expires + Timeout > clock
        /\ \E g \in granted' : g[1] = c.id]_vars

(***************************************************************************)
(* An address gets no more sessions in any minute or hour than it may,     *)
(* however many it asks for at the same time (create).                     *)
(***************************************************************************)
AddressLimitHolds ==
    \A i \in Ips :
        /\ Cardinality(CreatedAfter(i, clock - Hour)) <= PerHour
        /\ Cardinality(CreatedAfter(i, clock - Minute)) <= PerMinute
=============================================================================
