-------------------------- MODULE Membership_proofs --------------------------
(***************************************************************************)
(* Proofs about Membership, for any finite set of users and any number of  *)
(* requests: what guardLastOwner achieves although it locks nothing, and   *)
(* that roles change on purpose only.                                      *)
(***************************************************************************)
EXTENDS Membership, FiniteSetTheorems, TLAPS

OwnersAmong(S) == {t \in S : role[t] = "Owner"}

\* The write of c leaves an owner, or takes the role from none.
KeepsAnOwner(c) ==
    \/ c.op = "assign" /\ c.as = "Owner"
    \/ OwnersAmong(c.targets) = {}
    \/ Owners \ c.targets # {}

\* What the reads of a handler say of the present, while nobody has changed
\* a role since it started.
Counted(c) ==
    ~c.disturbed =>
        /\ c.pc \in {"lookup", "guard"} =>
                             /\ c.todo \subseteq c.targets
                             /\ c.removing = Cardinality(OwnersAmong(c.targets \ c.todo))
        /\ c.pc = "count" => c.removing = Cardinality(OwnersAmong(c.targets))
        /\ c.pc = "write" /\ c.op \in {"kick", "leave", "assign"} => KeepsAnOwner(c)

\* The settings a handler is to write exist; who looks a target up assigns.
Coherent(c) ==
    /\ c.op = "settings" => c.want \in Settings
    /\ c.pc = "lookup" => c.op = "assign"

(***************************************************************************)
(* The inductive invariant.  A space that does not exist yet has neither   *)
(* members nor handlers: its creation changes roles without disturbing     *)
(* anybody.                                                                *)
(***************************************************************************)
MemberInv ==
    /\ TypeOK
    /\ settings = NoSettings => calls = {} /\ \A u \in Users : role[u] = NoRole
    /\ \A c \in calls : Counted(c) /\ Coherent(c)

-----------------------------------------------------------------------------
LEMMA FiniteTargets ==
    ASSUME NEW S \in SUBSET Users
    PROVE  IsFiniteSet(OwnersAmong(S)) /\ Cardinality(OwnersAmong(S)) \in Nat
<1>1. OwnersAmong(S) \subseteq Users /\ IsFiniteSet(Users)
  BY MembershipAssumption DEF OwnersAmong
<1>2. IsFiniteSet(OwnersAmong(S))
  BY <1>1, FS_Subset
<1> QED BY <1>2, FS_CardinalityType

\* d2 is a handler that was there before, and knows it when roles have changed.
Follows(d2) ==
    /\ d2 \in Call
    /\ \E d \in calls : /\ d2.op = d.op /\ d2.want = d.want /\ d2.pc = d.pc
                        /\ d2.disturbed \/ (d2 = d /\ role' = role)

LEMMA DisturbFollows ==
    ASSUME TypeOK, NEW c \in calls, NEW d2 \in Disturb(calls \ {c})
    PROVE  Follows(d2)
<1>1. PICK d \in calls : d2 = [d EXCEPT !.disturbed = TRUE]
  BY DEF Disturb
<1>2. d \in Call
  BY DEF TypeOK
<1>3. d2 \in Call /\ d2.op = d.op /\ d2.want = d.want /\ d2.pc = d.pc /\ d2.disturbed
  BY <1>1, <1>2 DEF Call
<1> QED BY <1>3 DEF Follows

LEMMA FinishShape ==
    ASSUME TypeOK, NEW c \in calls, Finish(c)
    PROVE  \A d2 \in calls' : Follows(d2)
<1>1. CASE role' = role
  BY <1>1 DEF Finish, Follows, TypeOK
<1>2. CASE role' # role
  BY <1>2, DisturbFollows DEF Finish
<1> QED BY <1>1, <1>2

LEMMA ReplaceShape ==
    ASSUME TypeOK, NEW c \in calls, NEW c2, Replace(c, c2)
    PROVE  \A d2 \in calls' : d2 = c2 \/ Follows(d2)
<1>1. CASE role' = role
  BY <1>1 DEF Replace, Follows, TypeOK
<1>2. CASE role' # role
  BY <1>2, DisturbFollows DEF Replace
<1> QED BY <1>1, <1>2

LEMMA FollowerKeeps ==
    ASSUME MemberInv, NEW d2, Follows(d2)
    PROVE  Counted(d2)' /\ Coherent(d2)'
<1>1. PICK d \in calls : /\ d2.op = d.op /\ d2.want = d.want /\ d2.pc = d.pc
                         /\ d2.disturbed \/ (d2 = d /\ role' = role)
  BY DEF Follows
<1>2. Counted(d) /\ Coherent(d)
  BY DEF MemberInv
<1>3. Coherent(d2)'
  BY <1>1, <1>2 DEF Coherent
<1>4. CASE d2.disturbed
  BY <1>3, <1>4 DEF Counted
<1>5. CASE d2 = d /\ role' = role
  BY <1>2, <1>3, <1>5 DEF Counted, KeepsAnOwner, OwnersAmong, Owners
<1> QED BY <1>1, <1>4, <1>5

\* The handlers after a step: those that were there, and C2, which are sound.
Leaves(C2) == \A d2 \in calls' : d2 \in C2 \/ Follows(d2)
Sound(C2) == \A c2 \in C2 : c2 \in Call /\ Counted(c2)' /\ Coherent(c2)'

\* A step of a handler keeps the invariant when it keeps that of its record.
LEMMA HandlerKeeps ==
    ASSUME MemberInv, NEW C2,
           Leaves(C2), Sound(C2),
           role' \in [Users -> Roles \cup {NoRole}],
           settings' \in Settings, issued' \in 0 .. MaxRequests, mails' \subseteq Mail
    PROVE  MemberInv'
<1>1. \A d2 \in calls' : d2 \in Call /\ Counted(d2)' /\ Coherent(d2)'
  BY FollowerKeeps DEF Follows, Leaves, Sound
<1>2. settings' # NoSettings
  BY MembershipAssumption
<1> QED BY <1>1, <1>2 DEF MemberInv, TypeOK

-----------------------------------------------------------------------------
LEMMA StartKeeps ==
    ASSUME MemberInv, NEW op \in {"add", "kick", "leave", "assign", "settings"},
           NEW u \in Users, NEW S \in SUBSET Users, NEW as \in Roles,
           NEW want \in Settings \cup {NoSettings}, NEW pc \in {"lookup", "guard", "write"},
           Issue, role[u] # NoRole, calls' = calls \cup {NewCall(op, u, S, as, want, pc)},
           UNCHANGED <<role, settings, mails>>,
           op = "settings" => want \in Settings,
           pc = "write" => op \in {"add", "settings"}, pc = "lookup" => op = "assign"
    PROVE  MemberInv'
<1> DEFINE c == NewCall(op, u, S, as, want, pc)
<1>1. issued \in Nat /\ issued + 1 \in Requests /\ issued' \in 0 .. MaxRequests
  BY MembershipAssumption DEF MemberInv, TypeOK, Issue, Requests
<1>2. PICK id \in Requests : id = issued + 1
  BY <1>1
<1> DEFINE n == [id |-> id, op |-> op, actor |-> u, targets |-> S, as |-> as, want |-> want,
                 pc |-> pc, todo |-> S, removing |-> 0, disturbed |-> FALSE]
<1>3. calls' = calls \cup {n}
  BY <1>2 DEF NewCall
<1>4. /\ n \in Call /\ n.op = op /\ n.pc = pc /\ n.todo = S /\ n.targets = S
      /\ n.removing = 0 /\ n.want = want
  BY <1>2 DEF Call
<1> HIDE DEF n
<1>5. OwnersAmong(S \ S)' = {} /\ Cardinality({}) = 0
  BY FS_EmptySet DEF OwnersAmong
<1>6. Counted(n)' /\ Coherent(n)'
  BY <1>4, <1>5 DEF Counted, Coherent
<1>7. Leaves({n})
  BY <1>3 DEF Leaves, Follows, MemberInv, TypeOK
<1>8. settings' \in Settings
  BY DEF MemberInv, TypeOK
<1>9. role' \in [Users -> Roles \cup {NoRole}] /\ mails' \subseteq Mail
  BY DEF MemberInv, TypeOK
<1>10. Sound({n})
  BY <1>4, <1>6 DEF Sound
<1> QED BY <1>1, <1>7, <1>8, <1>9, <1>10, HandlerKeeps

LEMMA StartSteps ==
    ASSUME MemberInv, NEW u \in Users,
           \/ \E s \in Settings : StartUpdateSettings(u, s)
           \/ \E S \in SUBSET Users : StartKick(u, S) \/ \E as \in Roles : StartAdd(u, S, as)
           \/ StartLeave(u)
           \/ \E t \in Users, as \in Roles : StartAssign(u, t, as)
    PROVE  MemberInv'
<1>1. role[u] \in Roles \cup {NoRole}
  BY DEF MemberInv, TypeOK
<1>2. Authorized(u, "Owner") \/ Authorized(u, "Viewer") => role[u] # NoRole
  BY <1>1 DEF Authorized, RoleRank, NoRole, Roles
<1>3. CASE \E s \in Settings : StartUpdateSettings(u, s)
  <2>1. PICK s \in Settings : StartUpdateSettings(u, s)
    BY <1>3
  <2>2. role[u] # NoRole /\ {} \in SUBSET Users /\ "Viewer" \in Roles
    BY <2>1 DEF StartUpdateSettings, NoRole, Roles
  <2> QED BY <2>1, <2>2, StartKeeps DEF StartUpdateSettings
<1>4. CASE \E S \in SUBSET Users : StartKick(u, S)
  <2>1. "Viewer" \in Roles
    BY DEF Roles
  <2> QED BY <1>2, <1>4, <2>1, StartKeeps DEF StartKick
<1>5. CASE \E S \in SUBSET Users, as \in Roles : StartAdd(u, S, as)
  BY <1>2, <1>5, StartKeeps DEF StartAdd
<1>6. CASE StartLeave(u)
  <2>1. "Viewer" \in Roles /\ {u} \in SUBSET Users
    BY DEF Roles
  <2> QED BY <1>2, <1>6, <2>1, StartKeeps DEF StartLeave
<1>7. CASE \E t \in Users, as \in Roles : StartAssign(u, t, as)
  <2>1. \A t \in Users : {t} \in SUBSET Users
    OBVIOUS
  <2> QED BY <1>2, <1>7, <2>1, StartKeeps DEF StartAssign
<1> QED BY <1>3, <1>4, <1>5, <1>6, <1>7

-----------------------------------------------------------------------------
\* A handler that is in flight finds the space there.
LEMMA CallFacts ==
    ASSUME MemberInv, NEW c \in calls
    PROVE  /\ c \in Call /\ TypeOK /\ Counted(c) /\ Coherent(c)
           /\ settings \in Settings /\ c.targets \in SUBSET Users /\ c.id \in Requests
BY DEF MemberInv, TypeOK, Call

\* A handler ends, or goes on with a record of which the invariant holds.
LEMMA QuietStep ==
    ASSUME MemberInv, NEW c \in calls, NEW c2 \in Call,
           Finish(c) \/ (Replace(c, c2) /\ Counted(c2) /\ Coherent(c2)),
           UNCHANGED <<role, settings, issued>>, mails' \subseteq Mail
    PROVE  MemberInv'
<1>1. TypeOK /\ settings' \in Settings
  BY CallFacts
<1>2. role' \in [Users -> Roles \cup {NoRole}] /\ issued' \in 0 .. MaxRequests
  BY <1>1 DEF TypeOK
<1>3. CASE Finish(c)
  <2>1. Leaves({}) /\ Sound({})
    BY <1>1, <1>3, FinishShape DEF Leaves, Sound
  <2> QED BY <1>1, <1>2, <2>1, HandlerKeeps
<1>4. CASE Replace(c, c2) /\ Counted(c2) /\ Coherent(c2)
  <2>1. Leaves({c2})
    BY <1>1, <1>4, ReplaceShape DEF Leaves
  <2>2. Sound({c2})
    BY <1>4 DEF Sound, Counted, Coherent, KeepsAnOwner, OwnersAmong, Owners
  <2> QED BY <1>1, <1>2, <2>1, <2>2, HandlerKeeps
<1> QED BY <1>3, <1>4

LEMMA LookupStep ==
    ASSUME MemberInv, NEW c \in calls, LookupTarget(c)
    PROVE  MemberInv'
<1>1. c \in Call /\ Counted(c) /\ Coherent(c) /\ mails' \subseteq Mail
  BY CallFacts DEF LookupTarget, TypeOK
<1>2. CASE Finish(c)
  BY <1>1, <1>2, QuietStep DEF LookupTarget
<1>3. CASE ~Finish(c)
  <2>1. PICK pc \in {"write", "guard"} :
          Replace(c, [c EXCEPT !.pc = pc]) /\ (pc = "write" => c.as = "Owner")
    BY <1>3 DEF LookupTarget
  <2> DEFINE c2 == [c EXCEPT !.pc = pc]
  <2>2. /\ Replace(c, c2) /\ c.pc = "lookup"
        /\ UNCHANGED <<role, settings, issued>>
    BY <2>1 DEF LookupTarget
  <2>3. /\ c2 \in Call /\ c2.pc = pc /\ c2.op = c.op /\ c2.as = c.as /\ c2.want = c.want
        /\ c2.targets = c.targets /\ c2.todo = c.todo /\ c2.removing = c.removing
        /\ c2.disturbed = c.disturbed
    BY <1>1 DEF Call
  <2> HIDE DEF c2
  <2>4. Counted(c2) /\ Coherent(c2)
    BY <1>1, <2>1, <2>2, <2>3 DEF Counted, Coherent, KeepsAnOwner
  <2> QED BY <1>1, <2>2, <2>3, <2>4, QuietStep
<1> QED BY <1>2, <1>3

\* Adding one target to those read adds one to the count if it is an owner.
LEMMA OneMore ==
    ASSUME TypeOK, NEW S \in SUBSET Users, NEW T \in SUBSET S, NEW t \in T
    PROVE  Cardinality(OwnersAmong(S \ (T \ {t}))) =
             Cardinality(OwnersAmong(S \ T)) + (IF role[t] = "Owner" THEN 1 ELSE 0)
<1>1. IsFiniteSet(OwnersAmong(S \ T)) /\ Cardinality(OwnersAmong(S \ T)) \in Nat
  BY FiniteTargets
<1>2. t \notin OwnersAmong(S \ T)
  BY DEF OwnersAmong
<1>3. CASE role[t] = "Owner"
  <2>1. OwnersAmong(S \ (T \ {t})) = OwnersAmong(S \ T) \cup {t}
    BY <1>3 DEF OwnersAmong
  <2> QED BY <1>1, <1>2, <1>3, <2>1, FS_AddElement
<1>4. CASE role[t] # "Owner"
  <2>1. OwnersAmong(S \ (T \ {t})) = OwnersAmong(S \ T)
    BY <1>4 DEF OwnersAmong
  <2> QED BY <1>1, <1>4, <2>1
<1> QED BY <1>3, <1>4

LEMMA ReadStep ==
    ASSUME MemberInv, NEW c \in calls, NEW t \in Users, ReadTargetRole(c, t)
    PROVE  MemberInv'
<1>1. c \in Call /\ Counted(c) /\ Coherent(c) /\ mails' \subseteq Mail /\ TypeOK
  BY CallFacts DEF ReadTargetRole, TypeOK
<1>2. c.removing \in Nat /\ c.targets \in SUBSET Users /\ c.todo \in SUBSET Users
  BY <1>1 DEF Call
<1>3. PICK removing \in Nat : removing = c.removing + CountedAsRemoved(c, t)
  BY <1>2 DEF CountedAsRemoved
<1>4. PICK todo \in SUBSET Users : todo = c.todo \ {t}
  BY <1>2
<1>5. PICK pc \in {"guard", "write", "count"} :
        pc = IF todo # {} THEN "guard" ELSE IF removing = 0 THEN "write" ELSE "count"
  OBVIOUS
<1> DEFINE c2 == [c EXCEPT !.todo = todo, !.removing = removing, !.pc = pc]
<1>6. /\ Replace(c, c2) /\ c.pc = "guard" /\ t \in c.todo
      /\ UNCHANGED <<role, settings, issued>>
  BY <1>3, <1>4, <1>5 DEF ReadTargetRole
<1>7. /\ c2 \in Call /\ c2.pc = pc /\ c2.op = c.op /\ c2.want = c.want
      /\ c2.targets = c.targets /\ c2.todo = todo /\ c2.removing = removing
      /\ c2.disturbed = c.disturbed
  BY <1>1 DEF Call
<1> HIDE DEF c2
<1>8. Counted(c2)
  <2> SUFFICES ASSUME ~c.disturbed PROVE Counted(c2)
    BY <1>7 DEF Counted
  <2>1. c.todo \subseteq c.targets /\ c.removing = Cardinality(OwnersAmong(c.targets \ c.todo))
    BY <1>1, <1>6 DEF Counted
  <2>2. removing = Cardinality(OwnersAmong(c.targets \ todo))
    <3>1. c.todo \in SUBSET c.targets /\ t \in c.todo
      BY <1>6, <2>1
    <3>2. Cardinality(OwnersAmong(c.targets \ (c.todo \ {t}))) =
            Cardinality(OwnersAmong(c.targets \ c.todo)) + (IF role[t] = "Owner" THEN 1 ELSE 0)
      BY <1>1, <1>2, <3>1, OneMore
    <3> QED BY <1>3, <1>4, <2>1, <3>2 DEF CountedAsRemoved
  <2>3. todo \subseteq c.targets
    BY <1>4, <2>1
  <2>4. todo = {} => c.targets \ todo = c.targets
    OBVIOUS
  <2>5. removing = 0 /\ todo = {} => OwnersAmong(c.targets) = {}
    BY <1>2, <2>2, <2>4, FiniteTargets, FS_EmptySet
  <2> QED BY <1>5, <1>7, <2>2, <2>3, <2>4, <2>5 DEF Counted, KeepsAnOwner
<1>9. Coherent(c2)
  BY <1>1, <1>5, <1>7 DEF Coherent
<1> QED BY <1>1, <1>6, <1>7, <1>8, <1>9, QuietStep

\* Whoever is left an owner after the removal is not among its targets.
LEMMA CountStep ==
    ASSUME MemberInv, NEW c \in calls, CountOwners(c)
    PROVE  MemberInv'
<1>1. c \in Call /\ Counted(c) /\ Coherent(c) /\ mails' \subseteq Mail /\ TypeOK
  BY CallFacts DEF CountOwners, TypeOK
<1>2. CASE Finish(c)
  BY <1>1, <1>2, QuietStep DEF CountOwners
<1>3. CASE ~Finish(c)
  <2> DEFINE c2 == [c EXCEPT !.pc = "write"]
  <2>1. /\ Replace(c, c2) /\ c.pc = "count" /\ ~LeavesNoOwner(c)
        /\ UNCHANGED <<role, settings, issued>>
    BY <1>3 DEF CountOwners
  <2>2. /\ c2 \in Call /\ c2.pc = "write" /\ c2.op = c.op /\ c2.want = c.want
        /\ c2.targets = c.targets /\ c2.disturbed = c.disturbed
    BY <1>1 DEF Call
  <2> HIDE DEF c2
  <2>3. ~c.disturbed => Owners \ c.targets # {}
    <3> SUFFICES ASSUME ~c.disturbed, Owners \subseteq c.targets PROVE FALSE
      OBVIOUS
    <3>1. c.removing = Cardinality(OwnersAmong(c.targets))
      BY <1>1, <2>1 DEF Counted
    <3>2. OwnersAmong(c.targets) = Owners
      BY <1>1 DEF OwnersAmong, Owners, Call
    <3>3. Cardinality(Owners) \in Nat
      BY <1>1, <3>2, FiniteTargets DEF Call
    <3> QED BY <2>1, <3>1, <3>2, <3>3 DEF LeavesNoOwner
  <2>4. Counted(c2) /\ Coherent(c2)
    BY <1>1, <2>2, <2>3 DEF Counted, Coherent, KeepsAnOwner
  <2> QED BY <1>1, <2>1, <2>2, <2>4, QuietStep
<1> QED BY <1>2, <1>3

-----------------------------------------------------------------------------
LEMMA AddStep ==
    ASSUME MemberInv, NEW c \in calls, AddMembers(c)
    PROVE  MemberInv'
<1>1. c \in Call /\ TypeOK /\ settings \in Settings
  BY CallFacts
<1> DEFINE c2 == [c EXCEPT !.pc = "mail"]
<1>2. /\ Replace(c, c2) /\ UNCHANGED <<settings, issued, mails>> /\ c.op = "add"
      /\ role' = [u \in Users |-> AddedRole(c, u)]
  BY DEF AddMembers
<1>3. c2 \in Call /\ c2.pc = "mail" /\ c2.op = "add" /\ c.as \in Roles
  BY <1>1, <1>2 DEF Call
<1> HIDE DEF c2
<1>4. Sound({c2})
  BY <1>3 DEF Sound, Counted, Coherent
<1>5. role' \in [Users -> Roles \cup {NoRole}]
  BY <1>1, <1>2, <1>3 DEF TypeOK, AddedRole
<1>6. Leaves({c2})
  BY <1>1, <1>2, ReplaceShape DEF Leaves
<1>7. settings' \in Settings /\ issued' \in 0 .. MaxRequests /\ mails' \subseteq Mail
  BY <1>1, <1>2 DEF TypeOK
<1> QED BY <1>3, <1>4, <1>5, <1>6, <1>7, HandlerKeeps

\* The handlers that write and end.
LEMMA EndStep ==
    ASSUME MemberInv, NEW c \in calls,
           KickMembers(c) \/ UpdateMemberRole(c) \/ UpdateKnowledgeSpace(c)
    PROVE  MemberInv'
<1>1. c \in Call /\ TypeOK /\ settings \in Settings /\ Coherent(c) /\ c.as \in Roles
  BY CallFacts DEF Call
<1>2. /\ Finish(c) /\ UNCHANGED <<issued, mails>>
  BY DEF KickMembers, UpdateMemberRole, UpdateKnowledgeSpace
<1>3. settings' \in Settings
  BY <1>1 DEF KickMembers, UpdateMemberRole, UpdateKnowledgeSpace, Coherent
<1>4. role' \in [Users -> Roles \cup {NoRole}]
  BY <1>1 DEF KickMembers, UpdateMemberRole, UpdateKnowledgeSpace, AssignedRole, TypeOK
<1>5. Leaves({}) /\ Sound({})
  BY <1>1, <1>2, FinishShape DEF Leaves, Sound
<1>6. issued' \in 0 .. MaxRequests /\ mails' \subseteq Mail
  BY <1>1, <1>2 DEF TypeOK
<1> QED BY <1>3, <1>4, <1>5, <1>6, HandlerKeeps

LEMMA QueueStep ==
    ASSUME MemberInv, NEW c \in calls, QueueMail(c) \/ FailCall(c)
    PROVE  MemberInv'
<1>1. c \in Call /\ TypeOK /\ c.id \in Requests /\ c.targets \in SUBSET Users
  BY CallFacts
<1>2. [id |-> c.id, to |-> c.targets] \in Mail
  BY <1>1 DEF Mail
<1>3. mails' \subseteq Mail /\ Finish(c) /\ UNCHANGED <<role, settings, issued>>
  BY <1>1, <1>2 DEF QueueMail, FailCall, TypeOK
<1> QED BY <1>1, <1>3, QuietStep

LEMMA SendStep ==
    ASSUME MemberInv, NEW m \in mails, SendMails(m)
    PROVE  MemberInv'
<1>1. TypeOK' /\ UNCHANGED <<role, settings, calls>>
  BY DEF SendMails, MemberInv, TypeOK
<1> QED
  BY <1>1 DEF MemberInv, Counted, Coherent, KeepsAnOwner, OwnersAmong, Owners

LEMMA CreateStep ==
    ASSUME MemberInv, NEW u \in Users, NEW s \in Settings, CreateKnowledgeSpace(u, s)
    PROVE  MemberInv'
<1>1. /\ TypeOK /\ calls = {} /\ calls' = calls /\ mails' = mails
      /\ settings' = s /\ role' = [role EXCEPT ![u] = "Owner"]
  BY DEF MemberInv, CreateKnowledgeSpace
<1>2. issued' \in 0 .. MaxRequests
  BY <1>1, MembershipAssumption DEF CreateKnowledgeSpace, Issue, TypeOK
<1>3. role' \in [Users -> Roles \cup {NoRole}]
  BY <1>1 DEF TypeOK, Roles
<1>4. settings' # NoSettings
  BY <1>1, MembershipAssumption
<1> QED BY <1>1, <1>2, <1>3, <1>4 DEF MemberInv, TypeOK

-----------------------------------------------------------------------------
LEMMA MemberInit == Init => MemberInv
BY MembershipAssumption DEF Init, MemberInv, TypeOK

LEMMA MemberStep == MemberInv /\ [Next]_vars => MemberInv'
<1> SUFFICES ASSUME MemberInv, [Next]_vars PROVE MemberInv'
  OBVIOUS
<1>1. ASSUME NEW u \in Users,
             \/ \E s \in Settings : CreateKnowledgeSpace(u, s) \/ StartUpdateSettings(u, s)
             \/ \E S \in SUBSET Users : StartKick(u, S) \/ \E as \in Roles : StartAdd(u, S, as)
             \/ StartLeave(u)
             \/ \E t \in Users, as \in Roles : StartAssign(u, t, as)
      PROVE  MemberInv'
  BY <1>1, CreateStep, StartSteps
<1>2. ASSUME NEW c \in calls,
             \/ LookupTarget(c) \/ CountOwners(c) \/ AddMembers(c) \/ KickMembers(c)
             \/ UpdateMemberRole(c) \/ UpdateKnowledgeSpace(c) \/ QueueMail(c) \/ FailCall(c)
             \/ \E t \in Users : ReadTargetRole(c, t)
      PROVE  MemberInv'
  BY <1>2, LookupStep, CountStep, AddStep, EndStep, QueueStep, ReadStep
<1>3. CASE \E m \in mails : SendMails(m)
  BY <1>3, SendStep
<1>4. CASE UNCHANGED vars
  BY <1>4 DEF vars, MemberInv, TypeOK, Counted, Coherent, KeepsAnOwner, OwnersAmong, Owners
<1> QED BY <1>1, <1>2, <1>3, <1>4 DEF Next

(***************************************************************************)
(* Every variable keeps its type.                                          *)
(***************************************************************************)
THEOREM TypeCorrect == Spec => []TypeOK
<1>1. MemberInv => TypeOK
  BY DEF MemberInv
<1> QED BY <1>1, MemberInit, MemberStep, PTL DEF Spec

-----------------------------------------------------------------------------
\* A write whose handler nobody has overtaken leaves an owner.
LEMMA LastOwnerStays ==
    ASSUME MemberInv, Next, Owners # {}, Owners' = {}
    PROVE  \E c \in calls : /\ c.op \in {"kick", "leave", "assign"}
                            /\ c.pc = "write" /\ c.disturbed
<1>1. role \in [Users -> Roles \cup {NoRole}] /\ role' # role
  BY DEF MemberInv, TypeOK, Owners
<1>2. PICK o \in Users : role[o] = "Owner"
  BY DEF Owners
<1>3. role'[o] # "Owner"
  BY DEF Owners
<1>4. ASSUME NEW u \in Users, NEW s \in Settings, CreateKnowledgeSpace(u, s)
      PROVE  FALSE
  BY <1>1, <1>2, <1>3, <1>4 DEF CreateKnowledgeSpace
<1>5. ASSUME NEW c \in calls, AddMembers(c)
      PROVE  FALSE
  BY <1>1, <1>2, <1>3, <1>5 DEF AddMembers, AddedRole, NoRole
<1>6. ASSUME NEW c \in calls, KickMembers(c) \/ UpdateMemberRole(c), ~c.disturbed
      PROVE  FALSE
  <2>1. c.pc = "write" /\ c.op \in {"kick", "leave", "assign"}
    BY <1>6 DEF KickMembers, UpdateMemberRole
  <2>2. KeepsAnOwner(c) /\ c \in Call
    BY <1>6, <2>1, CallFacts DEF Counted
  <2>3. \A u \in Users \ c.targets : role'[u] = role[u]
    BY <1>1, <1>6 DEF KickMembers, UpdateMemberRole, AssignedRole
  <2>4. CASE UpdateMemberRole(c) /\ c.as = "Owner"
    <3>1. role'[o] = "Owner"
      BY <1>1, <1>2, <2>4 DEF UpdateMemberRole, AssignedRole, NoRole
    <3> QED BY <1>3, <3>1
  <2>5. CASE OwnersAmong(c.targets) = {}
    BY <1>2, <1>3, <2>3, <2>5 DEF OwnersAmong
  <2>6. CASE Owners \ c.targets # {}
    BY <2>3, <2>6 DEF Owners
  <2> QED BY <1>6, <2>2, <2>4, <2>5, <2>6 DEF KeepsAnOwner, KickMembers
<1>7. PICK c \in calls : KickMembers(c) \/ UpdateMemberRole(c)
  BY <1>1, <1>4, <1>5
  DEF Next, StartUpdateSettings, StartKick, StartAdd, StartLeave, StartAssign, LookupTarget,
      CountOwners, UpdateKnowledgeSpace, QueueMail, FailCall, ReadTargetRole, SendMails
<1> QED BY <1>6, <1>7 DEF KickMembers, UpdateMemberRole

(***************************************************************************)
(* A space loses its last owner only by a write whose handler was          *)
(* overtaken by another since it started (guardLastOwner): handled one     *)
(* after the other, no requests can bring that about.                      *)
(***************************************************************************)
THEOREM LastOwnerLostByRace == Spec => OwnerLostOnlyByRace
<1>1. MemberInv /\ [Next]_vars =>
        [Owners # {} /\ Owners' = {} =>
           \E c \in calls : /\ c.op \in {"kick", "leave", "assign"}
                            /\ c.pc = "write" /\ c.disturbed]_vars
  BY LastOwnerStays
<1> QED BY <1>1, MemberInit, MemberStep, PTL DEF Spec, OwnerLostOnlyByRace

LEMMA RoleMoves ==
    ASSUME MemberInv, Next, NEW u \in Users, role[u] # role'[u], settings # NoSettings
    PROVE  \E c \in calls :
             /\ u \in c.targets /\ c.pc = "write"
             /\ c.op = (IF role[u] = NoRole THEN "add"
                        ELSE IF role'[u] = NoRole THEN (IF c.op = "leave" THEN "leave" ELSE "kick")
                        ELSE "assign")
             /\ role'[u] # NoRole => role'[u] = c.as
<1>1. role \in [Users -> Roles \cup {NoRole}]
  BY DEF MemberInv, TypeOK
<1>2. PICK c \in calls : AddMembers(c) \/ KickMembers(c) \/ UpdateMemberRole(c)
  BY DEF Next, CreateKnowledgeSpace, StartUpdateSettings, StartKick, StartAdd, StartLeave,
         StartAssign, LookupTarget, CountOwners, UpdateKnowledgeSpace, QueueMail, FailCall,
         ReadTargetRole, SendMails
<1>3. c.as \in Roles /\ NoRole \notin Roles
  BY CallFacts DEF Call, NoRole, Roles
<1>4. CASE AddMembers(c)
  BY <1>1, <1>3, <1>4 DEF AddMembers, AddedRole
<1>5. CASE KickMembers(c)
  BY <1>1, <1>5 DEF KickMembers
<1>6. CASE UpdateMemberRole(c)
  BY <1>1, <1>3, <1>6 DEF UpdateMemberRole, AssignedRole
<1> QED BY <1>2, <1>4, <1>5, <1>6

(***************************************************************************)
(* Roles change on purpose (addMembers, updateMemberRole, kickMembers): an *)
(* invitation changes no member's role, and a change of role brings nobody *)
(* back who has gone.                                                      *)
(***************************************************************************)
THEOREM RolesOnPurpose == Spec => RolesMoveOnPurpose
<1>1. MemberInv /\ [Next]_vars =>
        [\A u \in Users :
           role[u] # role'[u] /\ settings # NoSettings =>
             \E c \in calls :
               /\ u \in c.targets /\ c.pc = "write"
               /\ c.op = (IF role[u] = NoRole THEN "add"
                          ELSE IF role'[u] = NoRole THEN (IF c.op = "leave" THEN "leave" ELSE "kick")
                          ELSE "assign")
               /\ role'[u] # NoRole => role'[u] = c.as]_vars
  BY RoleMoves
<1> QED BY <1>1, MemberInit, MemberStep, PTL DEF Spec, RolesMoveOnPurpose
=============================================================================
