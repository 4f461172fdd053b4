----------------------------- MODULE Membership -----------------------------
(***************************************************************************)
(* The members of one knowledge space: its creation, invitations, kicks,   *)
(* departures, changes of role and of the space's settings, and the worker *)
(* that mails the invited.                                                 *)
(*                                                                         *)
(* Each SQL statement is one step.  A handler is a record in `calls` whose *)
(* pc names the await it has reached: it reads its authority, then (for a  *)
(* kick, a departure or a demotion) the role of every target and the count *)
(* of the owners, and only then writes.  Nothing is locked in between.     *)
(***************************************************************************)
EXTENDS Integers, FiniteSets

CONSTANTS
    Users,          \* people
    Accounts,       \* those who have an account
    MaxRequests,    \* bound: requests, numbered as they come
    Settings,       \* name, description and type of a space, as one value
    Acceptable,     \* those that pass validateInformation and name a type
    NoSettings

Roles == {"Owner", "Editor", "Viewer"}
NoRole == "none"

ASSUME MembershipAssumption ==
    /\ Accounts \subseteq Users /\ IsFiniteSet(Users)
    /\ Acceptable \subseteq Settings
    /\ MaxRequests \in Nat
    /\ NoSettings \notin Settings

VARIABLES
    role,        \* user_workspace: the role of each user, NoRole for a non-member
    settings,    \* the row of the space, NoSettings before it exists
    calls,       \* handlers in flight
    issued,      \* requests so far
    mails        \* jobs of the e-mail queue

vars == <<role, settings, calls, issued, mails>>

Requests == 1 .. MaxRequests

\* todo, removing: targets guardLastOwner has yet to read, owners among those read.
\* disturbed (history): another handler has changed a role since this one started.
Call == [id: Requests, op: {"add", "kick", "leave", "assign", "settings"},
         actor: Users, targets: SUBSET Users, as: Roles,
         want: Settings \cup {NoSettings},
         pc: {"lookup", "guard", "count", "write", "mail"},
         todo: SUBSET Users, removing: Nat, disturbed: BOOLEAN]

Mail == [id: Requests, to: SUBSET Users]

Owners == {u \in Users : role[u] = "Owner"}

RoleRank(r) == CASE r = "Owner" -> 3 [] r = "Editor" -> 2
                 [] r = "Viewer" -> 1 [] r = NoRole -> 0

\* A caller who is no member has no rank at all.
Authorized(u, minimum) == RoleRank(role[u]) >= RoleRank(minimum)

Disturb(cs) == {[c EXCEPT !.disturbed = TRUE] : c \in cs}

\* c leaves this step as c2; the others see whether roles have changed.
Replace(c, c2) ==
    calls' = (IF role' = role THEN calls \ {c} ELSE Disturb(calls \ {c})) \cup {c2}
Finish(c) ==
    calls' = IF role' = role THEN calls \ {c} ELSE Disturb(calls \ {c})

Issue == issued < MaxRequests /\ issued' = issued + 1

NewCall(op, u, S, as, want, pc) ==
    [id |-> issued + 1, op |-> op, actor |-> u, targets |-> S, as |-> as, want |-> want,
     pc |-> pc, todo |-> S, removing |-> 0, disturbed |-> FALSE]

Init ==
    /\ role = [u \in Users |-> NoRole] /\ settings = NoSettings
    /\ calls = {} /\ issued = 0 /\ mails = {}

-----------------------------------------------------------------------------
\* The space and its first owner are one nested insert.
CreateKnowledgeSpace(u, s) ==
    /\ Issue
    /\ settings = NoSettings
    /\ u \in Accounts /\ s \in Acceptable
    /\ settings' = s
    /\ role' = [role EXCEPT ![u] = "Owner"]
    /\ UNCHANGED <<calls, mails>>

\* resolveUserIds and resolveUserEmails refuse a list with an unknown user.
Resolved(S) == S # {} /\ S \subseteq Accounts

StartAdd(u, S, as) ==
    /\ Issue
    /\ Authorized(u, "Owner") /\ Resolved(S)
    /\ calls' = calls \cup {NewCall("add", u, S, as, NoSettings, "write")}
    /\ UNCHANGED <<role, settings, mails>>

StartKick(u, S) ==
    /\ Issue
    /\ Authorized(u, "Owner") /\ Resolved(S)
    /\ calls' = calls \cup {NewCall("kick", u, S, "Viewer", NoSettings, "guard")}
    /\ UNCHANGED <<role, settings, mails>>

StartLeave(u) ==
    /\ Issue
    /\ Authorized(u, "Viewer")
    /\ calls' = calls \cup {NewCall("leave", u, {u}, "Viewer", NoSettings, "guard")}
    /\ UNCHANGED <<role, settings, mails>>

StartAssign(u, t, as) ==
    /\ Issue
    /\ Authorized(u, "Owner") /\ Resolved({t})
    /\ calls' = calls \cup {NewCall("assign", u, {t}, as, NoSettings, "lookup")}
    /\ UNCHANGED <<role, settings, mails>>

StartUpdateSettings(u, s) ==
    /\ Issue
    /\ role[u] = "Owner" /\ s \in Acceptable
    /\ calls' = calls \cup {NewCall("settings", u, {}, "Viewer", s, "write")}
    /\ UNCHANGED <<role, settings, mails>>

-----------------------------------------------------------------------------
\* updateMemberRoleAsync asks for the target's role before it guards anything.
LookupTarget(c) ==
    /\ c.pc = "lookup"
    /\ UNCHANGED <<role, settings, issued, mails>>
    /\ IF \A t \in c.targets : role[t] = NoRole
       THEN Finish(c)
       ELSE Replace(c, [c EXCEPT !.pc = IF c.as = "Owner" THEN "write" ELSE "guard"])

CountedAsRemoved(c, t) == IF role[t] = "Owner" THEN 1 ELSE 0

\* guardLastOwner reads the targets' roles with Promise.all: any order.
ReadTargetRole(c, t) ==
    /\ c.pc = "guard" /\ t \in c.todo
    /\ UNCHANGED <<role, settings, issued, mails>>
    /\ LET removing == c.removing + CountedAsRemoved(c, t)
           todo == c.todo \ {t}
       IN  Replace(c, [c EXCEPT !.todo = todo, !.removing = removing,
                                !.pc = IF todo # {} THEN "guard"
                                       ELSE IF removing = 0 THEN "write" ELSE "count"])

\* Mutant of LeavesNoOwner: the last owner passes.
LeavesNoOwnerOffByOne(c) == Cardinality(Owners) - c.removing < 0

LeavesNoOwner(c) == Cardinality(Owners) - c.removing < 1

CountOwners(c) ==
    /\ c.pc = "count"
    /\ UNCHANGED <<role, settings, issued, mails>>
    /\ IF LeavesNoOwner(c) THEN Finish(c) ELSE Replace(c, [c EXCEPT !.pc = "write"])

-----------------------------------------------------------------------------
\* Mutant of AddedRole: an invitation overwrites the role of a member.
AddedRoleOverwriting(c, u) == IF u \in c.targets THEN c.as ELSE role[u]

\* createMany with skipDuplicates.
AddedRole(c, u) == IF u \in c.targets /\ role[u] = NoRole THEN c.as ELSE role[u]

AddMembers(c) ==
    /\ c.op = "add" /\ c.pc = "write"
    /\ role' = [u \in Users |-> AddedRole(c, u)]
    /\ Replace(c, [c EXCEPT !.pc = "mail"])
    /\ UNCHANGED <<settings, issued, mails>>

KickMembers(c) ==
    /\ c.op \in {"kick", "leave"} /\ c.pc = "write"
    /\ role' = [u \in Users |-> IF u \in c.targets THEN NoRole ELSE role[u]]
    /\ Finish(c)
    /\ UNCHANGED <<settings, issued, mails>>

\* The update of a row that has disappeared throws and changes nothing.
AssignedRole(c, u) == IF u \in c.targets /\ role[u] # NoRole THEN c.as ELSE role[u]

UpdateMemberRole(c) ==
    /\ c.op = "assign" /\ c.pc = "write"
    /\ role' = [u \in Users |-> AssignedRole(c, u)]
    /\ Finish(c)
    /\ UNCHANGED <<settings, issued, mails>>

UpdateKnowledgeSpace(c) ==
    /\ c.op = "settings" /\ c.pc = "write"
    /\ settings' = c.want
    /\ UNCHANGED <<role, issued, mails>>
    /\ Finish(c)

\* The members are in: a job that cannot be queued is only logged.
QueueMail(c) ==
    /\ c.pc = "mail"
    /\ mails' \in {mails, mails \cup {[id |-> c.id, to |-> c.targets]}}
    /\ UNCHANGED <<role, settings, issued>>
    /\ Finish(c)

\* A statement fails: the handler answers 500 and has changed nothing more.
FailCall(c) ==
    /\ c.pc # "mail"
    /\ UNCHANGED <<role, settings, issued, mails>>
    /\ Finish(c)

-----------------------------------------------------------------------------
(* SendEmailService *)

\* The job is added without `attempts`: whether the mail server takes its
\* e-mails or refuses them, BullMQ runs it once.
SendMails(m) ==
    /\ mails' = mails \ {m}
    /\ UNCHANGED <<role, settings, calls, issued>>

-----------------------------------------------------------------------------
Next ==
    \/ \E u \in Users :
        \/ \E s \in Settings : CreateKnowledgeSpace(u, s) \/ StartUpdateSettings(u, s)
        \/ \E S \in SUBSET Users : StartKick(u, S) \/ \E as \in Roles : StartAdd(u, S, as)
        \/ StartLeave(u)
        \/ \E t \in Users, as \in Roles : StartAssign(u, t, as)
    \/ \E c \in calls :
        \/ LookupTarget(c) \/ CountOwners(c) \/ AddMembers(c) \/ KickMembers(c)
        \/ UpdateMemberRole(c) \/ UpdateKnowledgeSpace(c) \/ QueueMail(c) \/ FailCall(c)
        \/ \E t \in Users : ReadTargetRole(c, t)
    \/ \E m \in mails : SendMails(m)

Spec == Init /\ [][Next]_vars

-----------------------------------------------------------------------------
TypeOK ==
    /\ role \in [Users -> Roles \cup {NoRole}]
    /\ settings \in Settings \cup {NoSettings}
    /\ calls \subseteq Call /\ issued \in 0 .. MaxRequests
    /\ mails \subseteq Mail

(***************************************************************************)
(* "Blocks removing every Owner from a knowledge space" (comment of        *)
(* guardLastOwner, knowledgeSpaceMember.service.ts): a space that exists   *)
(* has an owner.  Two handlers that both pass the guard refute it.         *)
(***************************************************************************)
HasOwner == settings # NoSettings => Owners # {}

(***************************************************************************)
(* What the guard does achieve: a space loses its last owner only to a     *)
(* handler whose reads were overtaken by another handler's write.  With    *)
(* requests one after the other, a space keeps an owner.                   *)
(***************************************************************************)
OwnerLostOnlyByRace ==
    [][Owners # {} /\ Owners' = {} =>
        \E c \in calls : /\ c.op \in {"kick", "leave", "assign"}
                         /\ c.pc = "write" /\ c.disturbed]_vars

(***************************************************************************)
(* A member changes role only by a change of role addressed to him: never  *)
(* by an invitation, and one who was kicked while his change of role was   *)
(* in flight does not come back by it (addMembers, updateMemberRole).      *)
(***************************************************************************)
RolesMoveOnPurpose ==
    [][\A u \in Users :
         role[u] # role'[u] /\ settings # NoSettings =>
           \E c \in calls :
             /\ u \in c.targets /\ c.pc = "write"
             /\ c.op = (IF role[u] = NoRole THEN "add"
                        ELSE IF role'[u] = NoRole THEN (IF c.op = "leave" THEN "leave" ELSE "kick")
                        ELSE "assign")
             /\ role'[u] # NoRole => role'[u] = c.as]_vars
=============================================================================
