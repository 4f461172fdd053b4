------------------------- MODULE StatusNotification -------------------------
(***************************************************************************)
(* What clients are told about one document.  Whoever settles a Processing *)
(* version - the worker, or the handler whose enqueue was refused - tells  *)
(* those who may read the document, after its commit and in two awaits:    *)
(* the audience is queried, then the event is emitted to their rooms.      *)
(*                                                                         *)
(* DocumentLifecycle has the commits in full; here they are what an event  *)
(* can be overtaken by, along with changes of members and permissions.     *)
(***************************************************************************)
EXTENDS Integers, FiniteSets

CONSTANTS
    Users,
    MaxVersion,   \* bound: versions of the document
    MaxChanges    \* bound: changes of members, permissions and connections

ASSUME StatusAssumption == MaxVersion \in Nat \ {0} /\ MaxChanges \in Nat

VARIABLES
    row,        \* the document
    members,    \* members of its space
    grants,     \* those a restricted document is shared with
    rooms,      \* users with a connected socket in their room
    joining,    \* sockets whose token is verified, but who are in no room yet
    calls,      \* those who settle a version, and then notify
    changes,
    outcomes,   \* history: versions that a settled ingestion wrote
    entitled,   \* history: who could read each version while it was current
    received,   \* history: <<user, version, status>> of each event
    repeated,   \* history: a user has received one event twice
    dropped,    \* history: versions whose notification failed
    due         \* history: <<user, version>>: in their room when it was written, and
                \* since then able to read it, but not told

vars == <<row, members, grants, rooms, joining, calls, changes,
          outcomes, entitled, received, repeated, dropped, due>>

Versions == 1 .. MaxVersion
Outcomes == {"Ready", "Failed"}

Row == [ver: Versions, status: Outcomes \cup {"Processing"},
        deleted: BOOLEAN, restricted: BOOLEAN]

\* expects: the snapshot.  ver, status: those of the payload.
Call == [op: {"worker", "handler"}, expects: Versions, ver: 0 .. MaxVersion,
         status: Outcomes, to: SUBSET Users, pc: {"settle", "query", "emit"}]

\* Mutant of MayRead: a restricted document has no audience.
MayReadPublic(u) == u \in members /\ ~row.deleted /\ ~row.restricted

\* Restricted holds for owners and editors, too.
MayRead(u) == u \in members /\ ~row.deleted /\ (row.restricted => u \in grants)

\* Who may read the version that is current, stated on its own.
Entitled == {u \in members : ~row.deleted /\ (row.restricted => u \in grants)}

\* After each step.
Watch ==
    /\ entitled' = [entitled EXCEPT ![row'.ver] = @ \cup Entitled']
    /\ due' = {p \in due \cup (Users \X (outcomes' \ outcomes)) :
                 /\ p[2] = row'.ver /\ p[1] \in rooms' \cap Entitled'
                 /\ p[2] \notin dropped' /\ \A e \in received' : <<e[1], e[2]>> # p}

Move(c, c2) == calls' = (calls \ {c}) \cup {c2}
Finish(c) == calls' = calls \ {c}

Init ==
    /\ row \in [ver: {1}, status: Outcomes, deleted: {FALSE}, restricted: BOOLEAN]
    /\ members = Users /\ grants \in {{}, Users}
    /\ rooms = {} /\ joining = {} /\ calls = {} /\ changes = 0
    /\ outcomes = {} /\ received = {} /\ repeated = FALSE /\ dropped = {}
    /\ entitled = [v \in Versions |-> IF v = 1 THEN Entitled ELSE {}]
    /\ due = {}

-----------------------------------------------------------------------------
(* The document *)

\* An edit with new content, one of a document that is being ingested, or a
\* retry.  queue.add may refuse although the job is there, so that a worker and
\* a handler both set out to settle the version.
Submit ==
    /\ row.ver < MaxVersion /\ ~row.deleted
    /\ \E b \in BOOLEAN :
         row' = [row EXCEPT !.ver = @ + 1, !.status = "Processing", !.restricted = b]
    /\ \E ops \in {{"worker"}, {"handler"}, {"worker", "handler"}} :
         calls' = calls \cup {[op |-> o, expects |-> row'.ver, ver |-> 0,
                               status |-> "Failed", to |-> {}, pc |-> "settle"] : o \in ops}
    /\ UNCHANGED <<members, grants, rooms, joining, changes, outcomes, received,
                   repeated, dropped>>

\* A title or a visibility of a document that is settled.
Edit ==
    /\ row.ver < MaxVersion /\ ~row.deleted /\ row.status # "Processing"
    /\ \E b \in BOOLEAN : row' = [row EXCEPT !.ver = @ + 1, !.restricted = b]
    /\ UNCHANGED <<members, grants, rooms, joining, calls, changes, outcomes, received,
                   repeated, dropped>>

SoftDelete ==
    /\ row.ver < MaxVersion /\ ~row.deleted
    /\ row' = [row EXCEPT !.ver = @ + 1, !.deleted = TRUE]
    /\ UNCHANGED <<members, grants, rooms, joining, calls, changes, outcomes, received,
                   repeated, dropped>>

\* Nobody is told of the Failed that a restore writes.
Restore ==
    /\ row.ver < MaxVersion /\ row.deleted
    /\ row' = [row EXCEPT !.ver = @ + 1, !.deleted = FALSE,
                          !.status = IF @ = "Processing" THEN "Failed" ELSE @]
    /\ UNCHANGED <<members, grants, rooms, joining, calls, changes, outcomes, received,
                   repeated, dropped>>

Change ==
    /\ changes < MaxChanges /\ changes' = changes + 1
    /\ UNCHANGED <<row, calls, outcomes, received, repeated, dropped>>

ChangeMembers(u) ==
    /\ Change /\ UNCHANGED <<rooms, joining>>
    /\ \/ /\ members' = IF u \in members THEN members \ {u} ELSE members \cup {u}
          /\ UNCHANGED grants
       \/ /\ grants' = IF u \in grants THEN grants \ {u} ELSE grants \cup {u}
          /\ UNCHANGED members

-----------------------------------------------------------------------------
(* Sockets: a user's room is joined some awaits after the connection.      *)

Connect(u) ==
    /\ u \notin rooms \cup joining
    /\ joining' = joining \cup {u}
    /\ Change /\ UNCHANGED <<members, grants, rooms>>

JoinRoom(u) ==
    /\ u \in joining
    /\ joining' = joining \ {u} /\ rooms' = rooms \cup {u}
    /\ UNCHANGED <<row, members, grants, calls, changes, outcomes, received,
                   repeated, dropped>>

Disconnect(u) ==
    /\ u \in rooms \cup joining
    /\ rooms' = rooms \ {u} /\ joining' = joining \ {u}
    /\ Change /\ UNCHANGED <<members, grants>>

-----------------------------------------------------------------------------
(* Settling and telling *)

\* Mutant of Notifies: whoever lost tells of the outcome that is there.
NotifiesAlways(won) == TRUE

\* A transition that matched no row is not told of.
Notifies(won) == won

Transitioned(s) == [row EXCEPT !.ver = @ + 1, !.status = s]

\* addChunks writes Ready; transitionDocumentStatus writes Failed.  Each compares
\* status and version and writes a new version.
Settle(c) ==
    /\ c.pc = "settle" /\ row.ver < MaxVersion
    /\ LET won == row.status = "Processing" /\ row.ver = c.expects /\ ~row.deleted
       IN  \E s \in IF c.op = "worker" THEN Outcomes ELSE {"Failed"} :
             /\ row' = IF won THEN Transitioned(s) ELSE row
             /\ outcomes' = IF won THEN outcomes \cup {row'.ver} ELSE outcomes
             /\ IF Notifies(won)
                THEN Move(c, [c EXCEPT !.ver = row'.ver, !.status = s, !.pc = "query"])
                ELSE Finish(c)
    /\ UNCHANGED <<members, grants, rooms, joining, changes, received, repeated, dropped>>

\* Mutant of IsCurrent: events of versions that are gone have an audience, too.
IsCurrentAnyway(c) == TRUE

IsCurrent(c) == row.ver = c.ver /\ row.status = c.status

\* One statement gives version, membership and permissions one snapshot.
GetRecipientUserIds(c) ==
    /\ c.pc = "query"
    /\ LET to == {u \in Users : IsCurrent(c) /\ MayRead(u)}
       IN  IF to = {} THEN Finish(c) ELSE Move(c, [c EXCEPT !.to = to, !.pc = "emit"])
    /\ UNCHANGED <<row, members, grants, rooms, joining, changes, outcomes,
                   received, repeated, dropped>>

Emit(c) ==
    /\ c.pc = "emit"
    /\ LET events == {<<u, c.ver, c.status>> : u \in c.to \cap rooms}
       IN  /\ received' = received \cup events
           /\ repeated' = (repeated \/ events \cap received # {})
    /\ Finish(c)
    /\ UNCHANGED <<row, members, grants, rooms, joining, changes, outcomes, dropped>>

\* The query or the emit fails, or the process dies: there is no replay.
DropEvent(c) ==
    /\ c.pc \in {"query", "emit"}
    /\ Finish(c) /\ dropped' = dropped \cup {c.ver}
    /\ UNCHANGED <<row, members, grants, rooms, joining, changes, outcomes,
                   received, repeated>>

NotifyDocumentStatus(c) == GetRecipientUserIds(c) \/ Emit(c)

-----------------------------------------------------------------------------
Next ==
    /\ \/ Submit \/ Edit \/ SoftDelete \/ Restore
       \/ \E u \in Users : ChangeMembers(u) \/ Connect(u) \/ JoinRoom(u) \/ Disconnect(u)
       \/ \E c \in calls : Settle(c) \/ NotifyDocumentStatus(c) \/ DropEvent(c)
    /\ Watch

\* Handlers that have started run on.
NotifyStep == (\E c \in calls : NotifyDocumentStatus(c)) /\ Watch

Spec == Init /\ [][Next]_vars
FairSpec == Spec /\ WF_vars(NotifyStep)

-----------------------------------------------------------------------------
TypeOK ==
    /\ row \in Row /\ members \subseteq Users /\ grants \subseteq Users
    /\ rooms \subseteq Users /\ joining \subseteq Users /\ calls \subseteq Call
    /\ changes \in 0 .. MaxChanges /\ outcomes \subseteq Versions
    /\ entitled \in [Versions -> SUBSET Users]
    /\ received \subseteq Users \X Versions \X Outcomes
    /\ repeated \in BOOLEAN /\ dropped \subseteq Versions
    /\ due \subseteq Users \X Versions

(***************************************************************************)
(* A client hears only of outcomes that were written, and only if its user *)
(* could read that very version while it was current - whatever happens    *)
(* between the commit, the query and the emit ("stale terminal             *)
(* notifications have no audience").                                       *)
(***************************************************************************)
EventsWereEntitled ==
    \A e \in received : e[2] \in outcomes /\ e[1] \in entitled[e[2]]

(***************************************************************************)
(* No user is told of one outcome twice, though a worker and a handler     *)
(* whose enqueue was refused may both set out to settle it                 *)
(* (failEnqueueSnapshot, onFailed).                                        *)
(***************************************************************************)
ToldOnce == ~repeated

(***************************************************************************)
(* An outcome reaches everyone who was in their room when it was written   *)
(* and can still read it, unless it is overtaken or dropped on the way     *)
(* (notifyDocumentStatus).                                                 *)
(***************************************************************************)
OutcomesAreTold ==
    \A p \in Users \X Versions : p \in due ~> p \notin due
=============================================================================
