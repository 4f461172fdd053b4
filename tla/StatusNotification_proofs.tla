---------------------- MODULE StatusNotification_proofs ----------------------
(***************************************************************************)
(* Theorems about StatusNotification and, as the other part of             *)
(* MCStatusNotification, Chunking: for every set of users, every number of *)
(* versions and changes, all sizes of windows and batches and every text.  *)
(***************************************************************************)
EXTENDS MCStatusNotification, SequenceTheorems, TLAPS

-----------------------------------------------------------------------------
(* The inductive invariant.                                                *)
(*                                                                         *)
(* A version is current for an interval, and a query that finds it current *)
(* has an audience within what its readers were in that interval: that is  *)
(* what the payload's comparison with the row is for.  A settled version   *)
(* is new, so that no other handler has it, and no client has heard of it. *)

\* Who may read what is current is recorded (Watch).
Recorded == Entitled \subseteq entitled[row.ver]

Telling(c) == c.pc \in {"query", "emit"}

\* A handler tells of an outcome that was written, and those who could read it.
Justified ==
    \A c \in calls :
        /\ Telling(c) => c.ver \in outcomes
        /\ c.pc = "emit" => c.to \subseteq entitled[c.ver]

\* No two tell of one version, none of a version that was told of, and no
\* version is ahead of the row.
Apart ==
    /\ \A v \in outcomes : v <= row.ver
    /\ \A c, d \in calls : c # d /\ Telling(c) /\ Telling(d) => c.ver # d.ver
    /\ \A c \in calls, e \in received : Telling(c) => e[2] # c.ver

StatusInv == TypeOK /\ Recorded /\ Justified /\ Apart /\ EventsWereEntitled /\ ToldOnce

LEMMA InitStatus == Init => StatusInv
<1> SUFFICES ASSUME Init PROVE StatusInv
  OBVIOUS
<1>1. 1 \in Versions
  BY StatusAssumption DEF Versions
<1>2. row.ver = 1 /\ row \in Row
  BY <1>1 DEF Init, Row
<1>3. Entitled \subseteq Users
  BY DEF Init, Entitled
<1>4. TypeOK
  <2>1. entitled \in [Versions -> SUBSET Users]
    BY <1>3 DEF Init
  <2>2. grants \subseteq Users /\ members \subseteq Users /\ changes \in 0 .. MaxChanges
    BY StatusAssumption DEF Init
  <2>3. /\ rooms = {} /\ joining = {} /\ calls = {} /\ outcomes = {} /\ received = {}
        /\ repeated = FALSE /\ dropped = {} /\ due = {}
    BY DEF Init
  <2> QED BY <1>2, <2>1, <2>2, <2>3 DEF TypeOK
<1>5. Recorded
  BY <1>1, <1>2 DEF Init, Recorded
<1> QED BY <1>4, <1>5 DEF Init, StatusInv, Justified, Apart, EventsWereEntitled, ToldOnce

\* What Watch adds.
LEMMA WatchKeeps ==
    ASSUME TypeOK, Watch, row' \in Row, members' \subseteq Users, outcomes' \subseteq Versions
    PROVE  /\ entitled' \in [Versions -> SUBSET Users] /\ due' \subseteq Users \X Versions
           /\ Recorded'
           /\ \A v \in Versions : entitled[v] \subseteq entitled'[v]
<1>1. row'.ver \in Versions /\ Entitled' \subseteq Users
  BY DEF Row, Entitled
<1>2. entitled' = [entitled EXCEPT ![row'.ver] = @ \cup Entitled']
  BY DEF Watch
<1>3. entitled' \in [Versions -> SUBSET Users] /\ \A v \in Versions : entitled[v] \subseteq entitled'[v]
  BY <1>1, <1>2 DEF TypeOK
<1>4. Recorded'
  BY <1>1, <1>2 DEF TypeOK, Recorded
<1>5. due' \subseteq Users \X Versions
  BY DEF Watch, TypeOK
<1> QED BY <1>3, <1>4, <1>5

\* The row moves on, or members, permissions and rooms change; nobody who is
\* telling comes or moves.
LEMMA WorldKeeps ==
    ASSUME StatusInv, Watch, row' \in Row, row'.ver >= row.ver,
           members' \subseteq Users, grants' \subseteq Users,
           rooms' \subseteq Users, joining' \subseteq Users, changes' \in 0 .. MaxChanges,
           calls' \subseteq Call, \A c \in calls' : c \in calls \/ c.pc = "settle",
           dropped' \subseteq Versions, UNCHANGED <<outcomes, received, repeated>>
    PROVE  StatusInv'
<1> USE DEF StatusInv
<1>1. /\ entitled' \in [Versions -> SUBSET Users] /\ due' \subseteq Users \X Versions
      /\ Recorded' /\ \A v \in Versions : entitled[v] \subseteq entitled'[v]
  BY WatchKeeps DEF TypeOK
<1>2. TypeOK'
  BY <1>1 DEF TypeOK
<1>3. Justified'
  BY <1>1 DEF Justified, Telling, TypeOK
<1>4. Apart'
  <2>1. \A v \in outcomes : v <= row'.ver
    BY DEF Apart, TypeOK, Row, Versions
  <2> QED BY <2>1 DEF Apart, Telling
<1>5. EventsWereEntitled' /\ ToldOnce'
  BY <1>1 DEF EventsWereEntitled, ToldOnce, TypeOK
<1> QED BY <1>1, <1>2, <1>3, <1>4, <1>5

LEMMA DocumentKeeps ==
    ASSUME StatusInv, Watch, Submit \/ Edit \/ SoftDelete \/ Restore
    PROVE  StatusInv'
<1> USE DEF StatusInv
<1>1. row.ver \in Nat /\ row.ver + 1 \in Versions /\ row \in Row
  <2>1. row \in Row /\ row.ver \in 1 .. MaxVersion
    BY DEF TypeOK, Row, Versions
  <2>2. row.ver < MaxVersion
    BY DEF Submit, Edit, SoftDelete, Restore
  <2> QED BY <2>1, <2>2, StatusAssumption DEF Versions
<1>2. row' \in Row /\ row'.ver = row.ver + 1
  <2>1. CASE Submit
    BY <1>1, <2>1 DEF Row, Submit
  <2>2. CASE Edit
    BY <1>1, <2>2 DEF Row, Edit
  <2>3. CASE SoftDelete
    BY <1>1, <2>3 DEF Row, SoftDelete
  <2>4. CASE Restore
    BY <1>1, <2>4 DEF Row, Restore, Outcomes
  <2> QED BY <2>1, <2>2, <2>3, <2>4
<1>3. calls' \subseteq Call /\ \A c \in calls' : c \in calls \/ c.pc = "settle"
  <2>1. CASE Submit
    <3>1. \A o \in {"worker", "handler"} :
             [op |-> o, expects |-> row'.ver, ver |-> 0, status |-> "Failed", to |-> {}, pc |-> "settle"] \in Call
      BY <1>1, <1>2, StatusAssumption DEF Call, Outcomes
    <3>2. PICK ops \in {{"worker"}, {"handler"}, {"worker", "handler"}} :
             calls' = calls \cup {[op |-> o, expects |-> row'.ver, ver |-> 0,
                                   status |-> "Failed", to |-> {}, pc |-> "settle"] : o \in ops}
      BY <2>1 DEF Submit
    <3>3. \A o \in ops : o \in {"worker", "handler"}
      BY <3>2
    <3> DEFINE New(o) == [op |-> o, expects |-> row'.ver, ver |-> 0,
                          status |-> "Failed", to |-> {}, pc |-> "settle"]
    <3>4. \A o \in ops : New(o) \in Call /\ New(o).pc = "settle"
      BY <3>1, <3>3
    <3>5. calls' = calls \cup {New(o) : o \in ops}
      BY <3>2
    <3> HIDE DEF New
    <3>6. \A c \in calls' : c \in calls \/ (c \in Call /\ c.pc = "settle")
      BY <3>4, <3>5
    <3>7. calls \subseteq Call
      BY DEF TypeOK
    <3> QED BY <3>6, <3>7
  <2>2. CASE UNCHANGED calls
    BY <2>2 DEF TypeOK
  <2> QED BY <2>1, <2>2 DEF Edit, SoftDelete, Restore
<1>4. /\ UNCHANGED <<members, grants, rooms, joining, changes, outcomes, received, repeated, dropped>>
  BY DEF Submit, Edit, SoftDelete, Restore
<1>5. row'.ver >= row.ver
  BY <1>1, <1>2
<1> QED BY <1>2, <1>3, <1>4, <1>5, WorldKeeps DEF TypeOK

LEMMA PeopleKeeps ==
    ASSUME StatusInv, Watch, NEW u \in Users,
           ChangeMembers(u) \/ Connect(u) \/ JoinRoom(u) \/ Disconnect(u)
    PROVE  StatusInv'
<1> USE DEF StatusInv
<1>1. changes' \in 0 .. MaxChanges
  BY StatusAssumption DEF TypeOK, ChangeMembers, Connect, JoinRoom, Disconnect, Change
<1>2. members' \subseteq Users /\ grants' \subseteq Users /\ rooms' \subseteq Users /\ joining' \subseteq Users
  BY DEF TypeOK, ChangeMembers, Connect, JoinRoom, Disconnect, Change
<1>3. UNCHANGED <<row, calls, outcomes, received, repeated, dropped>>
  BY DEF ChangeMembers, Connect, JoinRoom, Disconnect, Change
<1>4. row'.ver >= row.ver /\ row' \in Row /\ calls' \subseteq Call /\ dropped' \subseteq Versions
  BY <1>3 DEF TypeOK, Row, Versions
<1>5. \A c \in calls' : c \in calls \/ c.pc = "settle"
  BY <1>3
<1> QED BY <1>1, <1>2, <1>3, <1>4, <1>5, WorldKeeps

\* The winner writes a version that is new.
LEMMA SettleKeeps ==
    ASSUME StatusInv, Watch, NEW c \in calls, Settle(c)
    PROVE  StatusInv'
<1> USE DEF StatusInv
<1>1. row \in Row /\ c \in Call /\ row.ver \in Nat /\ row.ver + 1 \in Versions
  BY StatusAssumption DEF TypeOK, Row, Versions, Settle
<1>2. UNCHANGED <<members, grants, rooms, joining, changes, received, repeated, dropped>>
  BY DEF Settle
<1>3. CASE UNCHANGED <<row, outcomes>> /\ Finish(c)
  <2>1. row' \in Row /\ row'.ver >= row.ver
    BY <1>1, <1>3
  <2>2. calls' \subseteq Call /\ \A d \in calls' : d \in calls
    BY <1>3 DEF Finish, TypeOK
  <2> QED BY <1>2, <1>3, <2>1, <2>2, WorldKeeps DEF TypeOK
<1>4. ASSUME NEW s \in Outcomes, row' = Transitioned(s), outcomes' = outcomes \cup {row'.ver},
             Move(c, [c EXCEPT !.ver = row'.ver, !.status = s, !.pc = "query"])
      PROVE  StatusInv'
  <2> DEFINE c2 == [c EXCEPT !.ver = row'.ver, !.status = s, !.pc = "query"]
  <2>1. row' \in Row /\ row'.ver = row.ver + 1
    BY <1>1, <1>4 DEF Transitioned, Row, Outcomes
  <2>2. c2 \in Call /\ c2.ver = row.ver + 1 /\ c2.pc = "query"
    <3>1. row'.ver \in 0 .. MaxVersion
      BY <1>1, <2>1 DEF Versions
    <3> QED BY <1>1, <2>1, <3>1 DEF Call
  <2>3. calls' = (calls \ {c}) \cup {c2}
    BY <1>4 DEF Move
  <2> HIDE DEF c2
  <2>4. outcomes' \subseteq Versions /\ outcomes' = outcomes \cup {row.ver + 1}
    BY <1>1, <1>4, <2>1 DEF TypeOK
  <2>5. /\ entitled' \in [Versions -> SUBSET Users] /\ due' \subseteq Users \X Versions
        /\ Recorded' /\ \A v \in Versions : entitled[v] \subseteq entitled'[v]
    BY <1>2, <2>1, <2>4, WatchKeeps DEF TypeOK
  <2>6. TypeOK'
    BY <1>2, <2>1, <2>2, <2>3, <2>4, <2>5 DEF TypeOK
  <2>7. Justified'
    BY <2>2, <2>3, <2>4, <2>5 DEF Justified, Telling, TypeOK
  <2>8. \A v \in outcomes : v < row.ver + 1
    BY <1>1 DEF Apart, TypeOK, Versions
  <2>9. row.ver + 1 \notin outcomes
    BY <1>1, <2>8
  <2>10. /\ \A d \in calls : Telling(d) => d.ver # row.ver + 1
         /\ \A e \in received : e[2] # row.ver + 1
    BY <2>9 DEF Justified, EventsWereEntitled
  <2>11. Apart'
    <3>1. \A v \in outcomes' : v <= row'.ver
      BY <1>1, <2>1, <2>4, <2>8 DEF TypeOK, Versions
    <3>2. \A d, e \in calls' : d # e /\ Telling(d) /\ Telling(e) => d.ver # e.ver
      BY <2>2, <2>3, <2>10 DEF Apart
    <3>3. \A d \in calls', e \in received : Telling(d) => e[2] # d.ver
      BY <2>2, <2>3, <2>10 DEF Apart
    <3> QED BY <1>2, <3>1, <3>2, <3>3 DEF Apart, Telling
  <2>12. EventsWereEntitled' /\ ToldOnce'
    BY <1>2, <2>4, <2>5 DEF EventsWereEntitled, ToldOnce, TypeOK
  <2> QED BY <2>5, <2>6, <2>7, <2>11, <2>12
<1> QED BY <1>3, <1>4 DEF Settle, Notifies, Outcomes

\* Who is found to be the audience of a current version could read it.
LEMMA QueryKeeps ==
    ASSUME StatusInv, Watch, NEW c \in calls, GetRecipientUserIds(c)
    PROVE  StatusInv'
<1> USE DEF StatusInv
<1> DEFINE to == {u \in Users : IsCurrent(c) /\ MayRead(u)}
           c2 == [c EXCEPT !.to = to, !.pc = "emit"]
<1>1. UNCHANGED <<row, members, grants, rooms, joining, changes, outcomes, received, repeated, dropped>>
  BY DEF GetRecipientUserIds
<1>2. c \in Call /\ c.pc = "query" /\ row \in Row
  BY DEF TypeOK, GetRecipientUserIds
<1>3. c2 \in Call /\ c2.ver = c.ver /\ c2.pc = "emit" /\ c2.to = to
  BY <1>2 DEF Call
<1>4. to \subseteq entitled[c.ver]
  <2> SUFFICES ASSUME NEW u \in Users, row.ver = c.ver, MayRead(u)
               PROVE  u \in entitled[c.ver]
    BY DEF IsCurrent
  <2>1. u \in Entitled
    BY DEF MayRead, Entitled
  <2> QED BY <2>1 DEF Recorded
<1>5. /\ entitled' \in [Versions -> SUBSET Users] /\ due' \subseteq Users \X Versions
      /\ Recorded' /\ \A v \in Versions : entitled[v] \subseteq entitled'[v]
  BY <1>1, <1>2, WatchKeeps DEF TypeOK
<1>6. \A d \in calls' : (d \in calls /\ d # c) \/ d = c2
  BY DEF GetRecipientUserIds, Finish, Move
<1> HIDE DEF c2, to
<1>7. TypeOK'
  BY <1>1, <1>3, <1>5, <1>6 DEF TypeOK
<1>8. Justified'
  <2>1. c.ver \in outcomes
    BY <1>2 DEF Justified, Telling
  <2> QED BY <1>1, <1>3, <1>4, <1>5, <1>6, <2>1 DEF Justified, Telling, TypeOK
<1>9. Apart'
  <2>1. Telling(c)
    BY <1>2 DEF Telling
  <2>2. \A d, e \in calls' : d # e /\ Telling(d) /\ Telling(e) => d.ver # e.ver
    BY <1>3, <1>6, <2>1 DEF Apart
  <2>3. \A d \in calls', e \in received : Telling(d) => e[2] # d.ver
    BY <1>3, <1>6, <2>1 DEF Apart
  <2> QED BY <1>1, <2>2, <2>3 DEF Apart, Telling
<1>10. EventsWereEntitled' /\ ToldOnce'
  BY <1>1, <1>5 DEF EventsWereEntitled, ToldOnce, TypeOK
<1> QED BY <1>5, <1>7, <1>8, <1>9, <1>10

LEMMA EmitKeeps ==
    ASSUME StatusInv, Watch, NEW c \in calls, Emit(c)
    PROVE  StatusInv'
<1> USE DEF StatusInv
<1> DEFINE events == {<<u, c.ver, c.status>> : u \in c.to \cap rooms}
<1>1. /\ UNCHANGED <<row, members, grants, rooms, joining, changes, outcomes, dropped>>
      /\ received' = received \cup events
      /\ repeated' = (repeated \/ events \cap received # {})
      /\ calls' = calls \ {c}
  BY DEF Emit, Finish
<1>2. c \in Call /\ c.pc = "emit" /\ row \in Row /\ Telling(c)
  BY DEF TypeOK, Emit, Telling
<1>3. /\ entitled' \in [Versions -> SUBSET Users] /\ due' \subseteq Users \X Versions
      /\ Recorded' /\ \A v \in Versions : entitled[v] \subseteq entitled'[v]
  BY <1>1, <1>2, WatchKeeps DEF TypeOK
<1>4. c.ver \in outcomes /\ c.to \subseteq entitled[c.ver] /\ c.ver \in Versions
  BY <1>2 DEF Justified, TypeOK
<1>5. \A e \in events : e[2] = c.ver /\ e[1] \in c.to /\ e \in Users \X Versions \X Outcomes
  BY <1>2, <1>4 DEF Call
<1> HIDE DEF events
<1>6. events \cap received = {}
  BY <1>2, <1>5 DEF Apart
<1>7. TypeOK'
  BY <1>1, <1>3, <1>5 DEF TypeOK
<1>8. Justified'
  BY <1>1, <1>3 DEF Justified, Telling, TypeOK
<1>9. Apart'
  BY <1>1, <1>2, <1>5 DEF Apart, Telling
<1>10. EventsWereEntitled'
  BY <1>1, <1>3, <1>4, <1>5 DEF EventsWereEntitled, TypeOK
<1>11. ToldOnce'
  BY <1>1, <1>6 DEF ToldOnce
<1> QED BY <1>3, <1>7, <1>8, <1>9, <1>10, <1>11

LEMMA DropKeeps ==
    ASSUME StatusInv, Watch, NEW c \in calls, DropEvent(c)
    PROVE  StatusInv'
<1> USE DEF StatusInv
<1>1. UNCHANGED <<row, members, grants, rooms, joining, changes, outcomes, received, repeated>>
  BY DEF DropEvent
<1>2. c.ver \in outcomes
  BY DEF DropEvent, Justified, Telling
<1>3. dropped' \subseteq Versions
  BY <1>2 DEF DropEvent, TypeOK
<1>4. calls' \subseteq calls
  BY DEF DropEvent, Finish
<1>5. row'.ver >= row.ver
  BY <1>1 DEF TypeOK, Row, Versions
<1> QED BY <1>1, <1>3, <1>4, <1>5, WorldKeeps DEF TypeOK

LEMMA NextStatus == StatusInv /\ [Next]_vars => StatusInv'
<1> SUFFICES ASSUME StatusInv, [Next]_vars PROVE StatusInv'
  OBVIOUS
<1>1. CASE UNCHANGED vars
  BY <1>1
  DEF vars, StatusInv, TypeOK, Recorded, Entitled, Justified, Telling, Apart,
      EventsWereEntitled, ToldOnce
<1>2. CASE Next
  BY <1>2, DocumentKeeps, PeopleKeeps, SettleKeeps, QueryKeeps, EmitKeeps, DropKeeps
  DEF Next, NotifyDocumentStatus
<1> QED BY <1>1, <1>2

LEMMA StatusIsRight == Spec => []StatusInv
BY InitStatus, NextStatus, PTL DEF Spec

\* The variables of StatusNotification are always of their types.
THEOREM TypeCorrect == Spec => []TypeOK
<1>1. StatusInv => TypeOK
  BY DEF StatusInv
<1> QED BY <1>1, StatusIsRight, PTL

\* Nobody hears of an outcome that was never written, or of a version that was
\* never theirs to read (getRecipientUserIds).
THEOREM OnlyReadersAreTold == Spec => []EventsWereEntitled
<1>1. StatusInv => EventsWereEntitled
  BY DEF StatusInv
<1> QED BY <1>1, StatusIsRight, PTL

\* Nobody hears of an outcome twice, though two handlers set out to settle it.
THEOREM NobodyIsToldTwice == Spec => []ToldOnce
<1>1. StatusInv => ToldOnce
  BY DEF StatusInv
<1> QED BY <1>1, StatusIsRight, PTL

-----------------------------------------------------------------------------
(* Chunking, the other part of MCStatusNotification, for every size of     *)
(* window, overlap and batch and every length of text.                     *)

\* The window i holds the passage that begins at p.
Holds(i, p) ==
    chunks[i].from <= p /\ C!Least(p + Overlap + 1, tokens) <= chunks[i].to

(***************************************************************************)
(* The inductive invariant behind PassagesStayWhole: what lies before the  *)
(* start of the next window is whole already, because a window reaches the *)
(* overlap further than the start of its successor.                        *)
(***************************************************************************)
WholeSoFar ==
    \A p \in 0 .. (tokens - 1) : p < start => \E i \in DOMAIN chunks : Holds(i, p)

CutInv == C!TypeOK /\ WholeSoFar /\ (pc # "cut" => start >= tokens)

(***************************************************************************)
(* The inductive invariant behind VectorsMatchChunks: the vectors that     *)
(* have arrived are those of the first windows, in their order, and those  *)
(* of the batch under way are those of the windows after them.             *)
(***************************************************************************)
VectorsInOrder ==
    /\ done \in 0 .. Len(chunks) /\ Len(vectors) = done
    /\ \A i \in 1 .. done : vectors[i] = chunks[i]

ReplyInOrder ==
    /\ done + sent <= C!BatchEnd /\ Len(reply) = sent
    /\ \A i \in 1 .. sent : reply[i] = chunks[done + i]

EmbedInv ==
    /\ C!TypeOK
    /\ VectorsInOrder
    /\ pc = "cut" => done = 0 /\ sent = 0 /\ reply = <<>>
    /\ pc = "embed" => ReplyInOrder
    /\ pc = "save" => done = Len(chunks)
    /\ C!VectorsMatchChunks

-----------------------------------------------------------------------------
\* The variables keep to their types (chunkText, generateEmbeddings, process).
LEMMA TypeInit ==
    ASSUME C!ChunkingAssumption, C!Init
    PROVE  C!TypeOK
BY DEF C!ChunkingAssumption, C!Init, C!TypeOK

LEMMA CutType ==
    ASSUME C!ChunkingAssumption, C!TypeOK, C!CutWindow
    PROVE  /\ start' \in Nat /\ start' = start + C!Step /\ C!Step \in Nat
           /\ chunks' \in Seq(C!Window) /\ Len(chunks') = Len(chunks) + 1
           /\ \A i \in 1 .. Len(chunks) : chunks'[i] = chunks[i]
           /\ chunks'[Len(chunks) + 1] = [from |-> start, to |-> C!WindowEnd(start)]
<1> DEFINE w == [from |-> start, to |-> C!WindowEnd(start)]
<1>1. w \in C!Window
  BY DEF C!ChunkingAssumption, C!TypeOK, C!Window, C!WindowEnd, C!Least
<1>2. chunks' = Append(chunks, w) /\ chunks \in Seq(C!Window)
  BY DEF C!CutWindow, C!TypeOK
<1>3. start' = start + C!Step /\ start \in Nat /\ C!Step \in Nat
  BY DEF C!CutWindow, C!TypeOK, C!Step, C!ChunkingAssumption
<1> HIDE DEF w
<1>4. /\ chunks' \in Seq(C!Window) /\ Len(chunks') = Len(chunks) + 1
      /\ \A i \in 1 .. Len(chunks) : chunks'[i] = chunks[i]
      /\ chunks'[Len(chunks) + 1] = w
  BY <1>1, <1>2
<1> QED BY <1>3, <1>4 DEF w

LEMMA EmbedType ==
    ASSUME C!ChunkingAssumption, C!TypeOK, C!EmbedContent, pc' # "failed",
           done + sent <= C!BatchEnd, done \in 0 .. Len(chunks)
    PROVE  \E k \in Nat :
             /\ done + sent + k <= C!BatchEnd /\ sent' = sent + k /\ pc' = "embed"
             /\ reply' \in Seq(C!Window) /\ Len(reply') = Len(reply) + k
             /\ \A i \in 1 .. Len(reply) : reply'[i] = reply[i]
             /\ \A i \in 1 .. k : reply'[Len(reply) + i] = chunks[done + sent + i]
<1> DEFINE first == done + sent + 1
           last == C!Least(first + ClientBatch - 1, C!BatchEnd)
           k == last - first + 1
<1>1. C!BatchEnd \in Nat /\ C!BatchEnd <= Len(chunks) /\ Len(chunks) \in Nat /\ chunks \in Seq(C!Window)
  BY DEF C!TypeOK, C!BatchEnd, C!Least, C!ChunkingAssumption
<1>2. done + sent < C!BatchEnd /\ pc = "embed"
  BY DEF C!EmbedContent
<1>3. /\ first \in Nat /\ last \in Nat /\ k \in Nat /\ 1 <= first
      /\ last <= C!BatchEnd /\ first + k - 1 = last /\ done + sent + k = last
  BY <1>1, <1>2 DEF C!TypeOK, C!Least, C!ChunkingAssumption
<1> HIDE DEF k
<1>4. PICK n \in 0 .. k :
        /\ C!CountsMatch(n, k) /\ sent' = sent + k /\ pc' = pc
        /\ reply' = reply \o SubSeq(chunks, first, first + n - 1)
  BY DEF C!EmbedContent, k
<1>5. n = k
  BY <1>4 DEF C!CountsMatch
<1> HIDE DEF first, last
<1> DEFINE piece == SubSeq(chunks, first, last)
<1>6. /\ piece \in Seq(C!Window) /\ Len(piece) = k
      /\ \A i \in 1 .. k : piece[i] = chunks[first + i - 1]
  BY <1>1, <1>3, SubSeqProperties
<1>7. reply \in Seq(C!Window) /\ reply' = reply \o piece
  BY <1>3, <1>4, <1>5 DEF C!TypeOK
<1> HIDE DEF piece
<1>8. /\ reply' \in Seq(C!Window) /\ Len(reply') = Len(reply) + k
      /\ \A i \in 1 .. Len(reply) : reply'[i] = reply[i]
      /\ \A i \in 1 .. k : reply'[Len(reply) + i] = piece[i]
  <2>1. /\ reply' \in Seq(C!Window) /\ Len(reply') = Len(reply) + Len(piece)
        /\ \A i \in 1 .. Len(reply) + Len(piece) :
             reply'[i] = IF i <= Len(reply) THEN reply[i] ELSE piece[i - Len(reply)]
    BY <1>6, <1>7, ConcatProperties
  <2>2. Len(reply) \in Nat
    BY <1>7
  <2>3. Len(piece) = k /\ k \in Nat
    BY <1>3, <1>6
  <2>4. \A i \in 1 .. k : reply'[Len(reply) + i] = piece[i]
    <3> TAKE i \in 1 .. k
    <3>1. /\ Len(reply) + i \in 1 .. Len(reply) + Len(piece)
          /\ ~(Len(reply) + i <= Len(reply)) /\ Len(reply) + i - Len(reply) = i
      BY <2>2, <2>3
    <3> QED BY <2>1, <3>1
  <2>5. \A i \in 1 .. Len(reply) : reply'[i] = reply[i]
    BY <2>1, <2>2, <2>3
  <2> QED BY <2>1, <2>3, <2>4, <2>5
<1>9. \A i \in 1 .. k : first + i - 1 = done + sent + i
  BY <1>3 DEF first, C!TypeOK
<1> QED BY <1>1, <1>2, <1>3, <1>4, <1>6, <1>8, <1>9

LEMMA BatchType ==
    ASSUME C!ChunkingAssumption, C!TypeOK, C!BatchDone, done \in 0 .. Len(chunks)
    PROVE  /\ C!BatchEnd \in Nat /\ C!BatchEnd >= done /\ C!BatchEnd <= Len(chunks)
           /\ vectors' \in Seq(C!Window) /\ Len(vectors') = Len(vectors) + Len(reply)
           /\ \A i \in 1 .. Len(vectors') :
                vectors'[i] = IF i <= Len(vectors) THEN vectors[i]
                              ELSE reply[i - Len(vectors)]
<1>1. C!BatchEnd \in Nat /\ C!BatchEnd >= done /\ C!BatchEnd <= Len(chunks)
  BY DEF C!TypeOK, C!BatchEnd, C!Least, C!ChunkingAssumption
<1>2. vectors \in Seq(C!Window) /\ reply \in Seq(C!Window) /\ vectors' = vectors \o reply
  BY DEF C!TypeOK, C!BatchDone
<1> QED BY <1>1, <1>2, ConcatProperties

LEMMA SaveType ==
    ASSUME C!ChunkingAssumption, C!TypeOK, C!SaveChunks
    PROVE  rows' \in Seq(C!Window \X (C!Window \cup {NoVector})) /\ Len(rows') = Len(chunks)
<1> DEFINE savedAs(i) == <<chunks[i], IF i \in DOMAIN vectors THEN vectors[i] ELSE NoVector>>
<1>1. chunks \in Seq(C!Window) /\ vectors \in Seq(C!Window) /\ Len(chunks) \in Nat
      /\ DOMAIN chunks = 1 .. Len(chunks)
  BY DEF C!TypeOK
<1>2. \A i \in 1 .. Len(chunks) : savedAs(i) \in C!Window \X (C!Window \cup {NoVector})
  BY <1>1
<1>3. rows' = [i \in 1 .. Len(chunks) |-> savedAs(i)]
  BY <1>1 DEF C!SaveChunks
<1> HIDE DEF savedAs
<1>4. rows' \in [1 .. Len(chunks) -> C!Window \X (C!Window \cup {NoVector})]
  BY <1>2, <1>3
<1> QED BY <1>1, <1>4, SeqDef, IsASeq, LenProperties

-----------------------------------------------------------------------------
LEMMA TypeStep ==
    ASSUME C!ChunkingAssumption, EmbedInv, [C!Next]_(C!vars)
    PROVE  C!TypeOK'
<1> USE DEF EmbedInv, VectorsInOrder
<1>1. CASE C!CutWindow
  BY <1>1, CutType DEF C!CutWindow, C!TypeOK
<1>2. CASE C!CutDone
  BY <1>2 DEF C!CutDone, C!TypeOK
<1>3. CASE C!EmbedContent
  <2>1. CASE pc' = "failed" /\ UNCHANGED <<reply, sent>>
    BY <1>3, <2>1 DEF C!EmbedContent, C!TypeOK
  <2>2. CASE pc' # "failed"
    <3>1. pc = "embed" /\ done + sent <= C!BatchEnd /\ done \in 0 .. Len(chunks) /\ sent \in Nat
      BY <1>3 DEF C!EmbedContent, ReplyInOrder, C!TypeOK
    <3>2. reply' \in Seq(C!Window) /\ sent' \in Nat /\ pc' = "embed"
      BY <1>3, <2>2, <3>1, EmbedType
    <3> QED BY <1>3, <3>2 DEF C!EmbedContent, C!TypeOK
  <2> QED BY <1>3, <2>1, <2>2 DEF C!EmbedContent
<1>4. CASE C!BatchDone
  BY <1>4, BatchType DEF C!BatchDone, C!TypeOK
<1>5. CASE C!SaveChunks
  BY <1>5, SaveType DEF C!SaveChunks, C!TypeOK
<1>6. CASE C!FailAttempt
  BY <1>6 DEF C!FailAttempt, C!TypeOK
<1>7. CASE UNCHANGED C!vars
  BY <1>7 DEF C!vars, C!TypeOK
<1> QED BY <1>1, <1>2, <1>3, <1>4, <1>5, <1>6, <1>7 DEF C!Next

-----------------------------------------------------------------------------
\* A window holds every passage that begins in it before its successor starts.
LEMMA WholeStep ==
    ASSUME C!ChunkingAssumption, CutInv, C!CutWindow
    PROVE  WholeSoFar'
<1> SUFFICES ASSUME NEW p \in 0 .. (tokens - 1), p < start'
             PROVE  \E i \in DOMAIN chunks' : Holds(i, p)'
  BY DEF C!CutWindow, WholeSoFar
<1>1. /\ chunks' \in Seq(C!Window) /\ Len(chunks') = Len(chunks) + 1
      /\ \A i \in 1 .. Len(chunks) : chunks'[i] = chunks[i]
      /\ chunks'[Len(chunks) + 1] = [from |-> start, to |-> C!WindowEnd(start)]
      /\ start' = start + C!Step
  BY CutType DEF CutInv
<1>2. /\ Len(chunks) \in Nat /\ DOMAIN chunks = 1 .. Len(chunks)
      /\ DOMAIN chunks' = 1 .. (Len(chunks) + 1)
  BY <1>1 DEF CutInv, C!TypeOK
<1>3. CASE p < start
  <2>1. PICK i \in DOMAIN chunks : Holds(i, p)
    BY <1>3 DEF CutInv, WholeSoFar
  <2>2. i \in DOMAIN chunks' /\ chunks'[i] = chunks[i] /\ tokens' = tokens
    BY <1>1, <1>2 DEF C!CutWindow
  <2> QED BY <2>1, <2>2 DEF Holds
<1>4. CASE ~(p < start)
  <2>1. C!Least(p + Overlap + 1, tokens) <= C!WindowEnd(start)
    BY <1>1, <1>4 DEF CutInv, C!TypeOK, C!WindowEnd, C!Least, C!Step, C!ChunkingAssumption
  <2>2. start <= p /\ tokens' = tokens
    BY <1>4 DEF CutInv, C!TypeOK, C!CutWindow
  <2>3. Len(chunks) + 1 \in DOMAIN chunks'
    BY <1>2
  <2> QED BY <1>1, <2>1, <2>2, <2>3 DEF Holds
<1> QED BY <1>3, <1>4

LEMMA CutKeeps ==
    ASSUME C!ChunkingAssumption, CutInv, C!TypeOK', [C!Next]_(C!vars)
    PROVE  CutInv'
<1>1. CASE C!CutWindow
  BY <1>1, WholeStep DEF CutInv, C!CutWindow
<1>2. CASE C!CutDone
  <2>1. UNCHANGED <<tokens, start, chunks>> /\ ~(start < tokens)
    BY <1>2 DEF C!CutDone
  <2>2. start >= tokens
    BY <2>1 DEF CutInv, C!TypeOK
  <2> QED BY <2>1, <2>2 DEF CutInv, WholeSoFar, Holds
<1>3. CASE UNCHANGED <<tokens, start, chunks>> /\ pc # "cut"
  BY <1>3 DEF CutInv, WholeSoFar, Holds
<1>4. CASE UNCHANGED C!vars
  BY <1>4 DEF CutInv, WholeSoFar, Holds, C!vars
<1> QED
  BY <1>1, <1>2, <1>3, <1>4
  DEF C!Next, C!EmbedContent, C!BatchDone, C!SaveChunks, C!FailAttempt

-----------------------------------------------------------------------------
LEMMA EmbedKeeps ==
    ASSUME C!ChunkingAssumption, EmbedInv, C!TypeOK', [C!Next]_(C!vars)
    PROVE  EmbedInv'
<1> USE DEF EmbedInv
<1>1. CASE C!CutWindow
  <2>1. Len(chunks') = Len(chunks) + 1 /\ \A i \in 1 .. Len(chunks) : chunks'[i] = chunks[i]
    BY <1>1, CutType
  <2>2. Len(chunks) \in Nat /\ done = 0 /\ pc = "cut"
    BY <1>1 DEF C!CutWindow, C!TypeOK
  <2> QED BY <1>1, <2>1, <2>2 DEF C!CutWindow, VectorsInOrder, C!VectorsMatchChunks
<1>2. CASE C!CutDone
  <2>1. ReplyInOrder'
    <3>1. done = 0 /\ sent = 0 /\ reply = <<>> /\ Len(chunks) \in Nat
      BY <1>2 DEF C!CutDone, C!TypeOK
    <3>2. 0 <= C!BatchEnd
      BY <3>1 DEF C!BatchEnd, C!Least, C!ChunkingAssumption
    <3> QED BY <1>2, <3>1, <3>2 DEF C!CutDone, ReplyInOrder, C!BatchEnd
  <2> QED BY <1>2, <2>1 DEF C!CutDone, VectorsInOrder, C!VectorsMatchChunks
<1>3. CASE C!EmbedContent
  <2>1. UNCHANGED <<tokens, start, chunks, done, vectors, rows>> /\ pc = "embed"
        /\ pc' \in {"embed", "failed"}
    BY <1>3 DEF C!EmbedContent
  <2>2. VectorsInOrder' /\ C!VectorsMatchChunks'
    BY <2>1 DEF VectorsInOrder, C!VectorsMatchChunks
  <2>3. CASE pc' = "failed"
    BY <2>1, <2>2, <2>3
  <2>4. CASE pc' = "embed"
    <3>1. /\ Len(reply) = sent /\ done + sent <= C!BatchEnd /\ sent \in Nat
          /\ done \in 0 .. Len(chunks)
          /\ \A i \in 1 .. sent : reply[i] = chunks[done + i]
      BY <2>1 DEF ReplyInOrder, VectorsInOrder, C!TypeOK
    <3>2. PICK k \in Nat :
             /\ done + sent + k <= C!BatchEnd /\ sent' = sent + k
             /\ Len(reply') = Len(reply) + k
             /\ \A i \in 1 .. Len(reply) : reply'[i] = reply[i]
             /\ \A i \in 1 .. k : reply'[Len(reply) + i] = chunks[done + sent + i]
      BY <1>3, <2>4, <3>1, EmbedType
    <3>3. \A i \in 1 .. sent' : reply'[i] = chunks[done + i]
      <4> TAKE i \in 1 .. sent'
      <4>1. CASE i <= sent
        BY <3>1, <3>2, <4>1
      <4>2. CASE ~(i <= sent)
        <5>1. i - sent \in 1 .. k /\ sent + (i - sent) = i
              /\ done + sent + (i - sent) = done + i
          BY <3>1, <3>2, <4>2
        <5> QED BY <3>1, <3>2, <5>1
      <4> QED BY <4>1, <4>2
    <3>4. C!BatchEnd' = C!BatchEnd /\ done' + sent' <= C!BatchEnd /\ Len(reply') = sent'
      BY <2>1, <3>1, <3>2 DEF C!BatchEnd
    <3>5. ReplyInOrder'
      BY <2>1, <3>3, <3>4 DEF ReplyInOrder
    <3> QED BY <2>2, <2>4, <3>5
  <2> QED BY <2>1, <2>3, <2>4
<1>4. CASE C!BatchDone
  <2>1. /\ UNCHANGED <<tokens, start, chunks, rows>> /\ pc = "embed"
        /\ pc' = (IF C!BatchEnd = Len(chunks) THEN "save" ELSE "embed")
        /\ reply' = <<>> /\ sent' = 0 /\ done' = C!BatchEnd /\ done + sent = C!BatchEnd
    BY <1>4 DEF C!BatchDone
  <2>2. /\ Len(reply) = sent /\ sent \in Nat /\ done \in 0 .. Len(chunks)
        /\ Len(vectors) = done
        /\ \A i \in 1 .. sent : reply[i] = chunks[done + i]
        /\ \A i \in 1 .. done : vectors[i] = chunks[i]
    BY <2>1 DEF ReplyInOrder, VectorsInOrder, C!TypeOK
  <2>3. /\ C!BatchEnd \in Nat /\ C!BatchEnd <= Len(chunks) /\ Len(vectors') = C!BatchEnd
        /\ \A i \in 1 .. C!BatchEnd :
             vectors'[i] = IF i <= done THEN vectors[i] ELSE reply[i - done]
    BY <1>4, <2>1, <2>2, BatchType
  <2>4. \A i \in 1 .. C!BatchEnd : vectors'[i] = chunks[i]
    <3> TAKE i \in 1 .. C!BatchEnd
    <3>1. CASE i <= done
      BY <2>2, <2>3, <3>1
    <3>2. CASE ~(i <= done)
      <4>1. i - done \in 1 .. sent /\ done + (i - done) = i
        BY <2>1, <2>2, <2>3, <3>2
      <4> QED BY <2>2, <2>3, <3>2, <4>1
    <3> QED BY <3>1, <3>2
  <2>5. VectorsInOrder'
    BY <2>1, <2>2, <2>3, <2>4 DEF VectorsInOrder
  <2>6. pc' = "embed" => ReplyInOrder'
    <3>1. C!BatchEnd' = C!Least(C!BatchEnd + Batch, Len(chunks)) /\ Len(chunks) \in Nat
      BY <2>1 DEF C!BatchEnd, C!TypeOK
    <3>2. C!BatchEnd <= C!Least(C!BatchEnd + Batch, Len(chunks))
      BY <2>3, <3>1 DEF C!Least, C!ChunkingAssumption
    <3> QED BY <2>1, <2>3, <3>1, <3>2 DEF ReplyInOrder
  <2> QED BY <2>1, <2>5, <2>6 DEF C!VectorsMatchChunks
<1>5. CASE C!SaveChunks
  <2>1. /\ UNCHANGED <<tokens, start, chunks, done, sent, reply, vectors>>
        /\ pc = "save" /\ pc' = "saved"
        /\ rows' = [i \in DOMAIN chunks |->
                      <<chunks[i], IF i \in DOMAIN vectors THEN vectors[i] ELSE NoVector>>]
    BY <1>5 DEF C!SaveChunks
  <2>2. /\ DOMAIN chunks = 1 .. Len(chunks) /\ DOMAIN vectors = 1 .. Len(chunks)
        /\ \A i \in 1 .. Len(chunks) : vectors[i] = chunks[i]
    BY <2>1 DEF C!TypeOK, VectorsInOrder
  <2>3. \A i \in DOMAIN rows' : rows'[i] = <<chunks[i], chunks[i]>>
    BY <2>1, <2>2
  <2>4. C!VectorsMatchChunks'
    BY <1>5, <2>1, <2>3, SaveType DEF C!VectorsMatchChunks
  <2> QED BY <2>1, <2>4 DEF VectorsInOrder
<1>6. CASE C!FailAttempt
  BY <1>6 DEF C!FailAttempt, VectorsInOrder, C!VectorsMatchChunks
<1>7. CASE UNCHANGED C!vars
  BY <1>7 DEF C!vars, VectorsInOrder, ReplyInOrder, C!BatchEnd, C!VectorsMatchChunks
<1> QED BY <1>1, <1>2, <1>3, <1>4, <1>5, <1>6, <1>7 DEF C!Next

-----------------------------------------------------------------------------
LEMMA InitHolds ==
    ASSUME C!ChunkingAssumption, C!Init
    PROVE  CutInv /\ EmbedInv
<1>1. C!TypeOK
  BY TypeInit
<1>2. Len(chunks) = 0 /\ Len(vectors) = 0 /\ done = 0
  BY DEF C!Init
<1>3. VectorsInOrder /\ WholeSoFar
  BY <1>2 DEF C!Init, VectorsInOrder, WholeSoFar
<1> QED BY <1>1, <1>3 DEF C!Init, CutInv, EmbedInv, C!VectorsMatchChunks

-----------------------------------------------------------------------------
LEMMA PartsChunking == PartsSpec => [](CutInv /\ EmbedInv)
<1>1. PartsInit => CutInv /\ EmbedInv
  BY PartsAssumption, InitHolds DEF PartsInit
<1>2. CutInv /\ EmbedInv /\ [PartsNext]_<<part, vars, chunkVars>> => CutInv' /\ EmbedInv'
  <2> SUFFICES ASSUME CutInv, EmbedInv, [PartsNext]_<<part, vars, chunkVars>>
               PROVE  CutInv' /\ EmbedInv'
    OBVIOUS
  <2>1. [C!Next]_(C!vars)
    BY DEF PartsNext, chunkVars, C!vars
  <2>2. C!TypeOK'
    BY <2>1, PartsAssumption, TypeStep
  <2> QED BY <2>1, <2>2, PartsAssumption, CutKeeps, EmbedKeeps
<1> QED BY <1>1, <1>2, PTL DEF PartsSpec

(***************************************************************************)
(* No passage is lost at a seam (chunkText): a passage of at most the      *)
(* overlap and one more tokens lies whole in one window, for every size    *)
(* and every overlap smaller than it.                                      *)
(***************************************************************************)
THEOREM NoPassageIsCut == PartsSpec => []PassagesStayWhole
<1>1. CutInv => PassagesStayWhole
  <2> SUFFICES ASSUME CutInv, pc # "cut", NEW p \in 0 .. (tokens - 1)
               PROVE  \E i \in DOMAIN chunks : Holds(i, p)
    BY DEF PassagesStayWhole, C!PassagesStayWhole, Holds
  <2>1. start >= tokens /\ start \in Nat /\ tokens \in Nat
    BY PartsAssumption DEF CutInv, C!TypeOK, C!ChunkingAssumption
  <2>2. p < start
    BY <2>1
  <2> QED BY <2>2 DEF CutInv, WholeSoFar
<1> QED BY <1>1, PartsChunking, PTL

(***************************************************************************)
(* What is saved as the vector of a passage is the vector of that passage, *)
(* for every pair of batch sizes (process, generateEmbeddings).            *)
(***************************************************************************)
THEOREM VectorsAreOfTheirText == PartsSpec => []VectorsMatchChunks
<1>1. EmbedInv => VectorsMatchChunks
  BY DEF EmbedInv, VectorsMatchChunks
<1> QED BY <1>1, PartsChunking, PTL
=============================================================================
