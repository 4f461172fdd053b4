---------------------------- MODULE Spaces_proofs ----------------------------
(***************************************************************************)
(* Theorems about the parts of MCMembership beside Membership: what a      *)
(* knowledge space shows and to whom, for every set of documents, members  *)
(* and requests and every bound.                                           *)
(***************************************************************************)
EXTENDS MCMembership, FiniteSetTheorems, Sequences, TLAPS

partsVars == <<part, vars, accessVars, listVars, pagingVars, demoVars>>

-----------------------------------------------------------------------------
(* DocumentAccess.                                                         *)
(*                                                                         *)
(* A handler in flight has seen the list its user is entitled to now, so   *)
(* whatever it reads in one statement it has seen.  That a detail is only  *)
(* answered to one who could see the document is known from the moment the *)
(* row was found public or the permission was found; the content is read   *)
(* later.  Between two of these statements a handler that was not          *)
(* overtaken stands on what is still so (Stands): the document is in its   *)
(* reader's sight, the path it has read is the document's.                 *)

AccessFields ==
    {"id", "user", "op", "doc", "version", "page", "seen", "to", "restrict", "overtaken", "pc"}
IsAccessCall(c) == c = [x \in AccessFields |-> c[x]]

\* What the handler c has read it was shown.
WasShown(c, page) == \E p \in c.seen : p[c.doc] # 0 /\ p[c.doc] = page[c.doc]

\* What is right about a handler whatever the rows and the grants are by now.
Sound(c) ==
    /\ IsAccessCall(c) /\ c.user \in A!Members /\ c.doc \in Docs /\ c.to \subseteq A!Members
    /\ c.restrict \in BOOLEAN /\ c.overtaken \in BOOLEAN
    /\ c.pc \in {"version", "cached", "validate", "store"} => c.op = "list"
    /\ c.pc = "query" => c.op \in {"list", "search"}
    /\ c.pc \in {"row", "permission", "reply"} => c.op \in {"detail", "download"}
    /\ c.pc \in {"write", "bump"} => c.op \in {"edit", "delete", "restore", "setGrants", "addGrants"}
    /\ c.pc = "store" => c.page \in c.seen
    /\ c.pc = "reply" => \E p \in c.seen : p[c.doc] # 0
    /\ c.pc = "reply" /\ c.op = "download" => c.overtaken \/ WasShown(c, c.page)
    /\ c.pc = "answered" =>
          /\ c.op = "list" => c.page \in c.seen
          /\ c.op = "search" => c.page \in {A!Found(p) : p \in c.seen}
          /\ c.op \in {"detail", "download"} => \E p \in c.seen : p[c.doc] # 0
          /\ c.op \in {"detail", "download"} => c.overtaken \/ WasShown(c, c.page)

\* What a handler that was not overtaken relies on.
Stands(c) ==
    /\ c.op = "detail" /\ c.pc = "reply" =>
          c.overtaken \/ A!Entitled(docs, grants, c.user)[c.doc] # 0
    /\ c.op = "download" /\ c.pc = "permission" =>
          c.overtaken \/ docs[c.doc].ver = c.page[c.doc]

AccessInv ==
    /\ docs \in [Docs -> A!Row] /\ grants \in [Docs -> SUBSET A!Members]
    /\ \A c \in accessCalls :
        /\ Sound(c) /\ Stands(c)
        /\ c.pc # "answered" => A!Entitled(docs, grants, c.user) \in c.seen

LEMMA InitAccess == A!Init => AccessInv
<1> SUFFICES ASSUME A!Init PROVE AccessInv
  OBVIOUS
<1>1. docs \in [Docs -> A!Row]
  <2>1. \A b \in BOOLEAN : [ver |-> 1, restricted |-> b, deleted |-> FALSE] \in A!Row
    BY DEF A!Row
  <2>2. {[ver |-> 1, restricted |-> b, deleted |-> FALSE] : b \in BOOLEAN} \subseteq A!Row
    BY <2>1
  <2> QED BY <2>2 DEF A!Init
<1>2. grants \in [Docs -> SUBSET A!Members]
  BY DEF A!Init
<1> QED BY <1>1, <1>2 DEF A!Init, AccessInv

\* The code's predicate and the reference agree.
LEMMA ListingIsEntitlement ==
    ASSUME docs \in [Docs -> A!Row], NEW u
    PROVE  A!Listing(docs, grants, u) = A!Entitled(docs, grants, u)
BY DEF A!Listing, A!Entitled, A!CanSee, A!Row

\* Who may see a document has it in the list.
LEMMA SeenIsListed ==
    ASSUME docs \in [Docs -> A!Row], NEW u, NEW d \in Docs,
           ~docs[d].deleted, docs[d].restricted => u \in grants[d]
    PROVE  A!Entitled(docs, grants, u)[d] # 0 /\ A!Entitled(docs, grants, u)[d] = docs[d].ver
BY DEF A!Entitled, A!Row

\* All handlers that have not answered observe the new state.
LEMMA WatchObserves ==
    ASSUME docs' \in [Docs -> A!Row], grants' \in [Docs -> SUBSET A!Members],
           NEW cs, \A c \in cs : Sound(c) /\ Stands(c), accessCalls' = A!Watch(cs)
    PROVE  AccessInv'
<1> DEFINE Now(u) == A!Entitled(docs', grants', u)
           Saw(c) == [c EXCEPT !.seen = @ \cup {Now(c.user)}, !.overtaken = @ \/ A!Overtakes(c)]
           HeldNow(c) ==
             /\ c.op = "detail" /\ c.pc = "reply" => c.overtaken \/ Now(c.user)[c.doc] # 0
             /\ c.op = "download" /\ c.pc = "permission" =>
                   c.overtaken \/ docs'[c.doc].ver = c.page[c.doc]
<1>1. \A d \in accessCalls' : \E c \in cs : d = IF c.pc = "answered" THEN c ELSE Saw(c)
  BY DEF A!Watch
<1>2. ASSUME NEW c \in cs
      PROVE  /\ Sound(Saw(c)) /\ HeldNow(Saw(c)) /\ Now(c.user) \in Saw(c).seen
             /\ Saw(c).user = c.user /\ Saw(c).pc = c.pc
  <2> DEFINE d == Saw(c)
  <2>1. Sound(c) /\ Stands(c)
    OBVIOUS
  <2>2. /\ IsAccessCall(d) /\ d.user = c.user /\ d.op = c.op /\ d.doc = c.doc /\ d.page = c.page
        /\ d.to = c.to /\ d.restrict = c.restrict /\ d.pc = c.pc /\ d.seen = c.seen \cup {Now(c.user)}
        /\ d.overtaken = (c.overtaken \/ A!Overtakes(c))
    BY <2>1 DEF Sound, IsAccessCall, AccessFields
  <2>3. A!Overtakes(c) \in BOOLEAN
    BY DEF A!Overtakes
  <2>4. HeldNow(d)
    <3> HIDE DEF d
    <3> QED BY <2>1, <2>2 DEF Stands, A!Overtakes
  <2> HIDE DEF d, Now, HeldNow
  <2>5. Sound(d) /\ Now(c.user) \in d.seen
    BY <2>1, <2>2, <2>3 DEF Sound, WasShown
  <2> QED BY <2>2, <2>4, <2>5 DEF d
<1> HIDE DEF Saw
<1>3. ASSUME NEW d \in accessCalls', NEW c \in cs, d = IF c.pc = "answered" THEN c ELSE Saw(c)
      PROVE  Sound(d) /\ HeldNow(d) /\ (d.pc # "answered" => Now(d.user) \in d.seen)
  <2>1. CASE c.pc = "answered"
    BY <1>3, <2>1
  <2>2. CASE c.pc # "answered"
    <3> HIDE DEF HeldNow, Now
    <3> QED BY <1>2, <1>3, <2>2
  <2> QED BY <2>1, <2>2
<1>4. ASSUME NEW d \in accessCalls'
      PROVE  Sound(d) /\ Stands(d)' /\ (d.pc # "answered" => Now(d.user) \in d.seen)
  <2>1. Stands(d)' <=> HeldNow(d)
    BY DEF Stands
  <2> HIDE DEF HeldNow, Now
  <2> QED BY <1>1, <1>3, <2>1
<1> QED BY <1>4 DEF AccessInv

\* A handler moves on, and nothing that is shown has changed.
LEMMA QuietMove ==
    ASSUME AccessInv, UNCHANGED <<docs, grants>>, NEW c \in accessCalls, NEW c2, Sound(c2),
           Stands(c2), A!Move(c, c2)
    PROVE  AccessInv'
<1>1. \A d \in (accessCalls \ {c}) \cup {c2} : Sound(d) /\ Stands(d)
  BY DEF AccessInv
<1> QED BY <1>1, WatchObserves DEF A!Move, AccessInv

LEMMA QuietDrop ==
    ASSUME AccessInv, UNCHANGED <<docs, grants>>, NEW c \in accessCalls, A!Drop(c)
    PROVE  AccessInv'
<1>1. \A d \in accessCalls \ {c} : Sound(d) /\ Stands(d)
  BY DEF AccessInv
<1> QED BY <1>1, WatchObserves DEF A!Drop, AccessInv

LEMMA QuietAnswer ==
    ASSUME AccessInv, UNCHANGED <<docs, grants>>, NEW c \in accessCalls, NEW page, A!Answer(c, page),
           c.op = "list" => page \in c.seen,
           c.op = "search" => page \in {A!Found(p) : p \in c.seen},
           c.op \in {"detail", "download"} =>
              (\E p \in c.seen : p[c.doc] # 0) /\ (c.overtaken \/ WasShown(c, page))
    PROVE  AccessInv'
<1> DEFINE d == [c EXCEPT !.page = page, !.pc = "answered"]
<1>1. Sound(c)
  BY DEF AccessInv
<1>2. /\ IsAccessCall(d) /\ d.user = c.user /\ d.op = c.op /\ d.doc = c.doc /\ d.page = page
      /\ d.to = c.to /\ d.restrict = c.restrict /\ d.pc = "answered" /\ d.seen = c.seen
      /\ d.overtaken = c.overtaken
  BY <1>1 DEF Sound, IsAccessCall, AccessFields
<1>3. A!Move(c, d)
  BY DEF A!Answer
<1> HIDE DEF d
<1>4. Sound(d) /\ Stands(d)
  BY <1>1, <1>2 DEF Sound, Stands, WasShown
<1> QED BY <1>3, <1>4, QuietMove

\* A request comes.
LEMMA AccessStarts ==
    ASSUME AccessInv, NEW r, NEW u \in A!Members, NEW op, NEW d \in Docs, NEW pc,
           NEW to \in SUBSET A!Members, NEW b \in BOOLEAN, A!Start(r, u, op, d, pc, to, b),
           pc \in {"version", "query", "row", "write"},
           pc = "version" => op = "list",
           pc = "query" => op = "search",
           pc = "row" => op \in {"detail", "download"},
           pc = "write" => op \in {"edit", "delete", "restore", "setGrants", "addGrants"}
    PROVE  AccessInv'
<1> DEFINE c == [id |-> r, user |-> u, op |-> op, doc |-> d, version |-> NoVersion,
                 page |-> A!NoPage, seen |-> {}, to |-> to, restrict |-> b,
                 overtaken |-> FALSE, pc |-> pc]
<1>1. Sound(c) /\ Stands(c)
  BY DEF Sound, Stands, IsAccessCall, AccessFields
<1>2. accessCalls' = A!Watch(accessCalls \cup {c}) /\ UNCHANGED <<docs, grants>>
  BY DEF A!Start
<1> HIDE DEF c
<1>3. \A e \in accessCalls \cup {c} : Sound(e) /\ Stands(e)
  BY <1>1 DEF AccessInv
<1> QED BY <1>2, <1>3, WatchObserves DEF AccessInv

\* A handler moves on to p.
LEMMA QuietGo ==
    ASSUME AccessInv, UNCHANGED <<docs, grants>>, NEW c \in accessCalls, NEW p, NEW page, NEW v,
           A!Move(c, [c EXCEPT !.version = v, !.page = page, !.pc = p]),
           \/ p \in {"cached", "validate", "query"} /\ c.op = "list"
           \/ p = "store" /\ c.op = "list" /\ page \in c.seen
           \/ /\ p = "permission" /\ c.op \in {"detail", "download"}
              /\ c.op = "download" => c.overtaken \/ docs[c.doc].ver = page[c.doc]
           \/ /\ p = "reply" /\ c.op \in {"detail", "download"}
              /\ \E q \in c.seen : q[c.doc] # 0
              /\ c.op = "detail" => c.overtaken \/ A!Entitled(docs, grants, c.user)[c.doc] # 0
              /\ c.op = "download" => c.overtaken \/ WasShown(c, page)
    PROVE  AccessInv'
<1> DEFINE d == [c EXCEPT !.version = v, !.page = page, !.pc = p]
<1>1. Sound(c)
  BY DEF AccessInv
<1>2. /\ IsAccessCall(d) /\ d.user = c.user /\ d.op = c.op /\ d.doc = c.doc /\ d.page = page
      /\ d.to = c.to /\ d.restrict = c.restrict /\ d.pc = p /\ d.seen = c.seen
      /\ d.overtaken = c.overtaken
  BY <1>1 DEF Sound, IsAccessCall, AccessFields
<1>3. A!Move(c, d)
  OBVIOUS
<1> HIDE DEF d
<1>4. Sound(d) /\ Stands(d)
  BY <1>1, <1>2 DEF Sound, Stands, WasShown
<1> QED BY <1>3, <1>4, QuietMove

\* EXCEPT on what stays as it is.
LEMMA SameFields ==
    ASSUME NEW c, IsAccessCall(c), NEW p
    PROVE  /\ [c EXCEPT !.pc = p] = [c EXCEPT !.version = c.version, !.page = c.page, !.pc = p]
           /\ \A v : [c EXCEPT !.version = v, !.pc = p] =
                        [c EXCEPT !.version = v, !.page = c.page, !.pc = p]
           /\ \A page : [c EXCEPT !.page = page, !.pc = p] =
                        [c EXCEPT !.version = c.version, !.page = page, !.pc = p]
           /\ \A page : [[c EXCEPT !.page = page] EXCEPT !.pc = p] =
                        [c EXCEPT !.version = c.version, !.page = page, !.pc = p]
BY DEF IsAccessCall, AccessFields

LEMMA ReaderStarts ==
    ASSUME AccessInv, NEW r, NEW u \in A!Members, NEW d \in Docs,
           A!StartRead(r, u, d) \/ A!StartWrite(r, u, d)
    PROVE  AccessInv'
<1>1. CASE A!StartRead(r, u, d)
  <2>1. CASE A!Start(r, u, "list", d, "version", {}, FALSE)
    BY <2>1, AccessStarts
  <2>2. CASE A!Start(r, u, "search", d, "query", {}, FALSE)
    BY <2>2, AccessStarts
  <2>3. ASSUME NEW op \in {"detail", "download"}, A!Start(r, u, op, d, "row", {}, FALSE)
        PROVE  AccessInv'
    BY <2>3, AccessStarts
  <2> QED BY <1>1, <2>1, <2>2, <2>3 DEF A!StartRead
<1>2. CASE A!StartWrite(r, u, d)
  <2>1. ASSUME NEW b \in BOOLEAN, A!Start(r, u, "edit", d, "write", {}, b)
        PROVE  AccessInv'
    BY <2>1, AccessStarts
  <2>2. ASSUME NEW op \in {"delete", "restore"}, A!Start(r, u, op, d, "write", {}, FALSE)
        PROVE  AccessInv'
    BY <2>2, AccessStarts
  <2>3. ASSUME NEW op \in {"setGrants", "addGrants"}, NEW S \in SUBSET A!Members,
               A!Start(r, u, op, d, "write", S, FALSE)
        PROVE  AccessInv'
    BY <2>3, AccessStarts
  <2> QED BY <1>2, <2>1, <2>2, <2>3 DEF A!StartWrite
<1> QED BY <1>1, <1>2

LEMMA ReaderKeeps ==
    ASSUME AccessInv, NEW c \in accessCalls,
           \/ A!ReadListVersion(c) \/ A!ReadCachedPage(c) \/ A!ValidatePage(c) \/ A!QueryList(c)
           \/ A!StorePage(c) \/ A!SearchDocuments(c) \/ A!ReadStorageData(c)
           \/ A!CheckDocumentPermission(c) \/ A!GetDownloadUrl(c) \/ A!GetDocumentDetail(c)
    PROVE  AccessInv'
<1>0. UNCHANGED <<docs, grants>>
  BY DEF A!ReadListVersion, A!ReadCachedPage, A!ValidatePage, A!QueryList, A!StorePage,
     A!SearchDocuments, A!ReadStorageData, A!CheckDocumentPermission, A!GetDownloadUrl,
     A!GetDocumentDetail
<1>1. Sound(c) /\ Stands(c) /\ (c.pc # "answered" => A!Listing(docs, grants, c.user) \in c.seen)
  BY ListingIsEntitlement DEF AccessInv
<1>2. IsAccessCall(c)
  BY <1>1 DEF Sound
<1>3. ASSUME NEW p, NEW page, NEW v,
             \/ A!Move(c, [c EXCEPT !.version = v, !.page = page, !.pc = p])
             \/ A!Move(c, [c EXCEPT !.page = page, !.pc = p]) /\ v = c.version
             \/ A!Move(c, [c EXCEPT !.version = v, !.pc = p]) /\ page = c.page
             \/ A!Move(c, [c EXCEPT !.pc = p]) /\ v = c.version /\ page = c.page,
             \/ p \in {"cached", "validate", "query"} /\ c.op = "list"
             \/ p = "store" /\ c.op = "list" /\ page \in c.seen
             \/ /\ p = "permission" /\ c.op \in {"detail", "download"}
                /\ c.op = "download" => c.overtaken \/ docs[c.doc].ver = page[c.doc]
             \/ /\ p = "reply" /\ c.op \in {"detail", "download"}
                /\ \E q \in c.seen : q[c.doc] # 0
                /\ c.op = "detail" => c.overtaken \/ A!Entitled(docs, grants, c.user)[c.doc] # 0
                /\ c.op = "download" => c.overtaken \/ WasShown(c, page)
      PROVE  AccessInv'
  <2>1. A!Move(c, [c EXCEPT !.version = v, !.page = page, !.pc = p])
    BY <1>2, <1>3, SameFields
  <2> QED BY <1>0, <1>3, <2>1, QuietGo
<1>4. CASE A!ReadListVersion(c)
  <2>1. c.op = "list"
    BY <1>1, <1>4 DEF A!ReadListVersion, Sound
  <2> QED BY <1>3, <1>4, <2>1 DEF A!ReadListVersion
<1>5. CASE A!ReadCachedPage(c)
  <2>1. c.op = "list"
    BY <1>1, <1>5 DEF A!ReadCachedPage, Sound
  <2> QED BY <1>3, <1>5, <2>1 DEF A!ReadCachedPage
<1>6. CASE A!ValidatePage(c)
  <2>1. c.op = "list" /\ c.pc # "answered"
    BY <1>1, <1>6 DEF A!ValidatePage, Sound
  <2>2. CASE A!CachedPageHolds(c)
    BY <1>0, <1>1, <1>6, <2>1, <2>2, QuietAnswer DEF A!ValidatePage, A!CachedPageHolds
  <2>3. CASE ~A!CachedPageHolds(c)
    <3>1. A!Move(c, [c EXCEPT !.pc = "query"])
      BY <1>6, <2>3 DEF A!ValidatePage
    <3> QED BY <1>3, <2>1, <3>1
  <2> QED BY <2>2, <2>3
<1>7. CASE A!QueryList(c)
  <2>1. c.op = "list" /\ A!Listing(docs, grants, c.user) \in c.seen
    BY <1>1, <1>7 DEF A!QueryList
  <2>2. CASE c.version = NoVersion
    BY <1>0, <1>7, <2>1, <2>2, QuietAnswer DEF A!QueryList
  <2>3. CASE c.version # NoVersion
    BY <1>3, <1>7, <2>1, <2>3 DEF A!QueryList
  <2> QED BY <2>2, <2>3
<1>8. CASE A!StorePage(c)
  <2>1. c.op = "list" /\ c.page \in c.seen /\ A!Answer(c, c.page)
    BY <1>1, <1>8 DEF A!StorePage, Sound
  <2> QED BY <1>0, <2>1, QuietAnswer
<1>9. CASE A!SearchDocuments(c)
  <2>1. /\ c.op = "search" /\ A!Listing(docs, grants, c.user) \in c.seen
        /\ A!Answer(c, A!Found(A!Listing(docs, grants, c.user)))
    BY <1>1, <1>9 DEF A!SearchDocuments
  <2> QED BY <1>0, <2>1, QuietAnswer
<1>10. CASE A!ReadStorageData(c)
  <2>1. /\ c.pc = "row" /\ c.op \in {"detail", "download"} /\ c.doc \in Docs
        /\ A!Entitled(docs, grants, c.user) \in c.seen
    BY <1>1, <1>10 DEF A!ReadStorageData, Sound, AccessInv
  <2>2. CASE docs[c.doc].deleted
    BY <1>0, <1>10, <2>2, QuietDrop DEF A!ReadStorageData
  <2>3. CASE ~docs[c.doc].deleted
    <3> DEFINE p == IF docs[c.doc].restricted THEN "permission" ELSE "reply"
               page == [A!NoPage EXCEPT ![c.doc] = docs[c.doc].ver]
    <3>1. A!Move(c, [[c EXCEPT !.page = page] EXCEPT !.pc = p])
      BY <1>10, <2>3 DEF A!ReadStorageData, A!Keeping
    <3>2. A!Move(c, [c EXCEPT !.version = c.version, !.page = page, !.pc = p])
      <4> HIDE DEF page, p
      <4> QED BY <1>2, <3>1, SameFields
    <3>3. page[c.doc] = docs[c.doc].ver
      BY <2>1 DEF A!NoPage
    <3>4. ~docs[c.doc].restricted =>
             /\ A!Entitled(docs, grants, c.user)[c.doc] # 0
             /\ A!Entitled(docs, grants, c.user)[c.doc] = page[c.doc]
      BY <2>1, <2>3, <3>3, SeenIsListed DEF AccessInv
    <3>5. \/ p = "permission" /\ docs[c.doc].ver = page[c.doc]
          \/ /\ p = "reply" /\ WasShown(c, page) /\ \E q \in c.seen : q[c.doc] # 0
             /\ A!Entitled(docs, grants, c.user)[c.doc] # 0
      <4> HIDE DEF page
      <4> QED BY <2>1, <3>3, <3>4 DEF WasShown
    <3> HIDE DEF page, p
    <3> QED BY <1>3, <2>1, <3>2, <3>5
  <2> QED BY <2>2, <2>3
<1>11. CASE A!CheckDocumentPermission(c)
  <2>1. /\ c.pc = "permission" /\ c.op \in {"detail", "download"} /\ c.doc \in Docs
        /\ A!Entitled(docs, grants, c.user) \in c.seen
    BY <1>1, <1>11 DEF A!CheckDocumentPermission, Sound, AccessInv
  <2>2. CASE A!HasPermission(c)
    <3>1. /\ A!Entitled(docs, grants, c.user)[c.doc] # 0
          /\ A!Entitled(docs, grants, c.user)[c.doc] = docs[c.doc].ver
      BY <2>1, <2>2, SeenIsListed DEF AccessInv, A!HasPermission
    <3>2. c.op = "download" => c.overtaken \/ WasShown(c, c.page)
      BY <1>1, <2>1, <3>1 DEF Stands, WasShown
    <3>3. A!Move(c, [c EXCEPT !.pc = "reply"])
      BY <1>11, <2>2 DEF A!CheckDocumentPermission
    <3> QED BY <1>3, <2>1, <3>1, <3>2, <3>3
  <2>3. CASE ~A!HasPermission(c)
    BY <1>0, <1>11, <2>3, QuietDrop DEF A!CheckDocumentPermission
  <2> QED BY <2>2, <2>3
<1>12. CASE A!GetDownloadUrl(c)
  <2>1. /\ c.op = "download" /\ (\E p \in c.seen : p[c.doc] # 0) /\ A!Answer(c, c.page)
        /\ c.overtaken \/ WasShown(c, c.page)
    BY <1>1, <1>12 DEF A!GetDownloadUrl, Sound
  <2> QED BY <1>0, <2>1, QuietAnswer
<1>13. CASE A!GetDocumentDetail(c)
  <2>1. /\ c.op = "detail" /\ (\E p \in c.seen : p[c.doc] # 0) /\ c.doc \in Docs
        /\ c.overtaken \/ A!Entitled(docs, grants, c.user)[c.doc] # 0
        /\ A!Entitled(docs, grants, c.user) \in c.seen
    BY <1>1, <1>13 DEF A!GetDocumentDetail, Sound, Stands, AccessInv
  <2>2. CASE docs[c.doc].deleted
    BY <1>0, <1>13, <2>2, QuietDrop DEF A!GetDocumentDetail
  <2>3. CASE ~docs[c.doc].deleted
    <3> DEFINE page == A!Keeping(c, docs[c.doc].ver).page
    <3>1. A!Answer(c, page)
      BY <1>13, <2>3 DEF A!GetDocumentDetail
    <3>2. page = [A!NoPage EXCEPT ![c.doc] = docs[c.doc].ver]
      BY <1>2 DEF A!Keeping, IsAccessCall, AccessFields
    <3>3. page[c.doc] = docs[c.doc].ver
      BY <2>1, <3>2 DEF A!NoPage
    <3>4. A!Entitled(docs, grants, c.user)[c.doc] # 0 =>
             A!Entitled(docs, grants, c.user)[c.doc] = docs[c.doc].ver
      BY <2>1 DEF A!Entitled
    <3> HIDE DEF page
    <3>5. c.overtaken \/ WasShown(c, page)
      BY <2>1, <3>3, <3>4 DEF WasShown
    <3> QED BY <1>0, <2>1, <3>1, <3>5, QuietAnswer
  <2> QED BY <2>2, <2>3
<1> QED BY <1>4, <1>5, <1>6, <1>7, <1>8, <1>9, <1>10, <1>11, <1>12, <1>13

LEMMA WriterKeeps ==
    ASSUME AccessInv, NEW c \in accessCalls, A!CommitWrite(c) \/ A!InvalidateDocumentCaches(c)
    PROVE  AccessInv'
<1>1. Sound(c)
  BY DEF AccessInv
<1>2. CASE A!CommitWrite(c) /\ A!Refused(c)
  BY <1>2, QuietDrop DEF A!CommitWrite
<1>3. CASE A!CommitWrite(c) /\ ~A!Refused(c)
  <2> DEFINE d == [c EXCEPT !.pc = "bump"]
             row == docs[c.doc]
  <2>1. /\ docs' = [docs EXCEPT ![c.doc] = A!Written(c, docs[c.doc])]
        /\ grants' = [grants EXCEPT ![c.doc] = A!Granted(c)]
        /\ c.pc = "write" /\ A!Move(c, d)
    BY <1>3 DEF A!CommitWrite
  <2>2. /\ c.doc \in Docs /\ c.to \subseteq A!Members /\ c.restrict \in BOOLEAN
        /\ c.op \in {"edit", "delete", "restore", "setGrants", "addGrants"}
    BY <1>1, <2>1 DEF Sound
  <2>3. row \in A!Row
    BY <2>2 DEF AccessInv
  <2>4. A!Written(c, row) \in A!Row
    <3>1. row.ver + 1 \in Nat \ {0}
      BY <2>3 DEF A!Row
    <3>2. ASSUME NEW v \in Nat \ {0}, NEW b \in BOOLEAN
          PROVE  /\ [row EXCEPT !.ver = v, !.restricted = b] \in A!Row
                 /\ [row EXCEPT !.ver = v, !.deleted = b] \in A!Row
      <4> HIDE DEF row
      <4> QED BY <2>3 DEF A!Row
    <3> HIDE DEF row
    <3> QED BY <2>2, <2>3, <3>1, <3>2 DEF A!Written
  <2>5. docs' \in [Docs -> A!Row]
    BY <2>1, <2>2, <2>4 DEF AccessInv
  <2>6. A!Granted(c) \subseteq A!Members
    BY <2>2 DEF A!Granted, AccessInv
  <2>7. grants' \in [Docs -> SUBSET A!Members]
    BY <2>1, <2>2, <2>6 DEF AccessInv
  <2>8. /\ IsAccessCall(d) /\ d.user = c.user /\ d.op = c.op /\ d.doc = c.doc /\ d.page = c.page
        /\ d.to = c.to /\ d.restrict = c.restrict /\ d.pc = "bump" /\ d.seen = c.seen
        /\ d.overtaken = c.overtaken
    BY <1>1 DEF Sound, IsAccessCall, AccessFields
  <2> HIDE DEF d
  <2>9. Sound(d) /\ Stands(d)
    BY <1>1, <2>2, <2>8 DEF Sound, Stands
  <2>10. \A e \in (accessCalls \ {c}) \cup {d} : Sound(e) /\ Stands(e)
    BY <2>9 DEF AccessInv
  <2> QED BY <2>1, <2>5, <2>7, <2>10, WatchObserves DEF A!Move
<1>4. CASE A!InvalidateDocumentCaches(c)
  BY <1>4, QuietDrop DEF A!InvalidateDocumentCaches
<1> QED BY <1>2, <1>3, <1>4

LEMMA NextAccess == AccessInv /\ [A!Next]_(A!vars) => AccessInv'
<1> SUFFICES ASSUME AccessInv, [A!Next]_(A!vars) PROVE AccessInv'
  OBVIOUS
<1>1. CASE UNCHANGED A!vars
  BY <1>1 DEF A!vars, AccessInv, Stands
<1>2. ASSUME NEW p, A!Evict(p)
      PROVE  AccessInv'
  BY <1>2 DEF A!Evict, AccessInv, Stands
<1> QED BY <1>1, <1>2, ReaderStarts, ReaderKeeps, WriterKeeps DEF A!Next

LEMMA PartsAccess == PartsSpec => []AccessInv
<1>1. PartsInit => AccessInv
  BY InitAccess DEF PartsInit
<1>2. AccessInv /\ [PartsNext]_partsVars => AccessInv'
  <2>1. [PartsNext]_partsVars => [A!Next]_(A!vars)
    BY DEF PartsNext, partsVars, accessVars, A!vars
  <2> QED BY <2>1, NextAccess
<1> QED BY <1>1, <1>2, PTL DEF PartsSpec, partsVars

(***************************************************************************)
(* Every list and every search is answered with a page the caller was      *)
(* entitled to at some moment of the request, from the cache or not        *)
(* (getDocumentListAsync, validateCachedDocumentList), whatever the        *)
(* documents, the members, the requests and the state of the cache.        *)
(***************************************************************************)
THEOREM ListsWereEntitled == PartsSpec => []ListsAreCurrent
<1>1. AccessInv => ListsAreCurrent
  BY DEF AccessInv, Sound, ListsAreCurrent, A!ListsAreCurrent
<1> QED BY <1>1, PartsAccess, PTL

(***************************************************************************)
(* A detail or a download goes only to a member who could see the document *)
(* at some moment of the request, and shows a version that member could    *)
(* see unless a write overtook the request between two of its statements:  *)
(* row, permission and content are read one after the other                *)
(* (getDocumentDetailAsync, getDownloadUrl).                               *)
(***************************************************************************)
THEOREM ReadersWereEntitled == PartsSpec => []ReadsAreEntitled
<1>1. AccessInv => ReadsAreEntitled
  BY DEF AccessInv, Sound, WasShown, ReadsAreEntitled, A!ReadsAreEntitled
<1> QED BY <1>1, PartsAccess, PTL

-----------------------------------------------------------------------------
(* ListCache.                                                              *)
(*                                                                         *)
(* A list that is stored, or about to be, under the present version and is *)
(* no longer the table's, is one that a writer will put out of reach       *)
(* (StaleIsAwaited): it has inserted and is about to set a new version or, *)
(* where that failed, to delete what is under the one it found.  A new     *)
(* version reaches nothing, because nobody knew it before (NewIsUnknown).  *)

ListFields == {"id", "list", "name", "version", "names", "failed", "pc"}
IsListCall(c) == c = [x \in ListFields |-> c[x]]

ListCallsInv ==
    /\ listIssued \subseteq Handlers
    /\ \A c \in listCalls :
        /\ IsListCall(c) /\ c.list \in L!Lists /\ c.id \in listIssued
        /\ c.pc \in {"lookup", "insert", "old"} => c.version = NoVersion
    /\ \A c, d \in listCalls : c.id = d.id => c = d

\* A request that may still set its version.
MaySet(r) == r \notin listIssued \/ \E c \in listCalls : c.id = r /\ c.pc # "delete"

NewIsUnknown ==
    \A r \in Handlers : MaySet(r) =>
        /\ \A l \in L!Lists : listVersion[l] # r
        /\ \A s \in stored : s[2] # r
        /\ \A c \in listCalls : c.version # r

Storing(c, l, v, names) == c.pc = "store" /\ c.list = l /\ c.version = v /\ c.names = names
Held(l, v, names) ==
    <<l, v, names>> \in stored \/ \E c \in listCalls : Storing(c, l, v, names)

Removes(w, l, v) ==
    /\ w.list = l
    /\ \/ w.pc = "old"
       \/ w.pc = "set" /\ w.version \in {v, NoVersion}
       \/ w.pc = "delete" /\ w.failed /\ w.version = v

StaleIsAwaited ==
    \A l \in L!Lists : \A names :
        Held(l, listVersion[l], names) /\ l \notin lost /\ names # L!NamesOf(l)
            => \E w \in listCalls : Removes(w, l, listVersion[l])

ListInv ==
    /\ listVersion \in [L!Lists -> L!Versions] /\ table = [l \in L!Lists |-> table[l]]
    /\ \A s \in stored : s = <<s[1], s[2], s[3]>> /\ s[1] \in L!Lists
    /\ ListCallsInv /\ NewIsUnknown /\ StaleIsAwaited

LEMMA InitList == L!Init => ListInv
<1> SUFFICES ASSUME L!Init PROVE ListInv
  OBVIOUS
<1>1. listVersion = [l \in L!Lists |-> 0] /\ 0 \in L!Versions
  BY DEF L!Init, L!Versions
<1>2. table = [l \in L!Lists |-> table[l]]
  BY DEF L!Init
<1>3. NewIsUnknown
  BY <1>1, PartsAssumption DEF L!Init, NewIsUnknown, L!ListCacheAssumption
<1>4. StaleIsAwaited
  BY DEF L!Init, StaleIsAwaited, Held
<1> QED BY <1>1, <1>2, <1>3, <1>4 DEF L!Init, ListInv, ListCallsInv

\* A handler goes on or ends, and nobody else does anything.
LEMMA HandlersFollow ==
    ASSUME ListCallsInv, NEW c \in listCalls, NEW d, IsListCall(d), d.id = c.id, d.list = c.list,
           d.pc \in {"lookup", "insert", "old"} => d.version = NoVersion,
           listCalls' \subseteq (listCalls \ {c}) \cup {d}, listIssued' = listIssued
    PROVE  ListCallsInv'
<1>1. \A e \in listCalls' :
        /\ IsListCall(e) /\ e.list \in L!Lists /\ e.id \in listIssued'
        /\ e.pc \in {"lookup", "insert", "old"} => e.version = NoVersion
  BY DEF ListCallsInv
<1>2. \A e, f \in listCalls' : e.id = f.id => e = f
  BY DEF ListCallsInv
<1> QED BY <1>1, <1>2 DEF ListCallsInv

\* It knows no versions but those it finds, and sets its own only once.
LEMMA VersionsFollow ==
    ASSUME NewIsUnknown, NEW c \in listCalls, NEW d, d.id = c.id, c.pc = "delete" => d.pc = "delete",
           listCalls' \subseteq (listCalls \ {c}) \cup {d}, listIssued' = listIssued,
           \A l \in L!Lists : \/ listVersion'[l] = listVersion[l]
                              \/ /\ listVersion'[l] = c.id
                                 /\ \A e \in listCalls' : e.id = c.id => e.pc = "delete",
           c.id \in listIssued,
           \A s \in stored' : s \in stored \/ s[2] = c.version,
           d.version \in {c.version, NoVersion} \cup {listVersion[l] : l \in L!Lists}
    PROVE  NewIsUnknown'
<1> SUFFICES ASSUME NEW r \in Handlers, MaySet(r)'
             PROVE  /\ \A l \in L!Lists : listVersion'[l] # r
                    /\ \A s \in stored' : s[2] # r
                    /\ \A e \in listCalls' : e.version # r
  BY DEF NewIsUnknown
<1>1. MaySet(r)
  BY DEF MaySet
<1>2. /\ \A l \in L!Lists : listVersion[l] # r
      /\ \A s \in stored : s[2] # r
      /\ \A e \in listCalls : e.version # r
  BY <1>1 DEF NewIsUnknown
<1>3. NoVersion # r
  BY PartsAssumption DEF L!ListCacheAssumption
<1>4. \A l \in L!Lists : listVersion'[l] # r
  BY <1>2 DEF MaySet
<1> QED BY <1>2, <1>3, <1>4

\* Who is not invalidating leaves those who are to their task.
LEMMA StaleStays ==
    ASSUME StaleIsAwaited, NEW c \in listCalls, c.pc \notin {"old", "set", "delete"},
           listCalls \ {c} \subseteq listCalls', UNCHANGED <<table, listVersion, lost>>,
           \A l \in L!Lists : \A v, names : Held(l, v, names)' => Held(l, v, names) \/ names = L!NamesOf(l)
    PROVE  StaleIsAwaited'
<1> SUFFICES ASSUME NEW l \in L!Lists, NEW names, Held(l, listVersion[l], names)', l \notin lost,
                    names # L!NamesOf(l)
             PROVE  \E w \in listCalls' : Removes(w, l, listVersion[l])
  BY DEF StaleIsAwaited, Removes, L!NamesOf, Held
<1>1. PICK w \in listCalls : Removes(w, l, listVersion[l])
  BY DEF StaleIsAwaited
<1>2. w # c
  BY <1>1 DEF Removes
<1> QED BY <1>1, <1>2

\* A handler that is not invalidating moves on.
LEMMA ListMove ==
    ASSUME ListInv, NEW c \in listCalls, c.pc \notin {"old", "set", "delete"},
           NEW d, IsListCall(d), d.id = c.id, d.list = c.list,
           d.pc \in {"lookup", "insert", "old"} => d.version = NoVersion,
           d.version \in {c.version, NoVersion} \cup {listVersion[l] : l \in L!Lists},
           \A v, names : Storing(d, c.list, v, names) => names = L!NamesOf(c.list),
           L!Move(c, d), UNCHANGED <<table, listVersion, stored, listIssued, lost>>
    PROVE  ListInv'
<1>1. ListCallsInv'
  BY HandlersFollow DEF ListInv, L!Move
<1>2. NewIsUnknown'
  BY VersionsFollow DEF ListInv, ListCallsInv, L!Move
<1>3. ASSUME NEW l \in L!Lists, NEW v, NEW names, Held(l, v, names)'
      PROVE  Held(l, v, names) \/ names = L!NamesOf(l)
  <2>1. CASE <<l, v, names>> \in stored'
    BY <2>1 DEF Held
  <2>2. ASSUME NEW e \in listCalls', Storing(e, l, v, names)
        PROVE  Held(l, v, names) \/ names = L!NamesOf(l)
    <3>1. CASE e = d
      BY <2>2, <3>1 DEF Storing
    <3>2. CASE e \in listCalls
      BY <2>2, <3>2 DEF Held
    <3> QED BY <3>1, <3>2 DEF L!Move
  <2> QED BY <1>3, <2>1, <2>2 DEF Held, Storing
<1>4. StaleIsAwaited'
  BY <1>3, StaleStays DEF ListInv, L!Move
<1> QED BY <1>1, <1>2, <1>4 DEF ListInv

LEMMA ListFinish ==
    ASSUME ListInv, NEW c \in listCalls, c.pc \notin {"old", "set", "delete"}, L!Finish(c),
           UNCHANGED <<table, listVersion, listIssued, lost>>,
           \A s \in stored' : s \in stored \/ (c.pc = "store" /\ s = <<c.list, c.version, c.names>>)
    PROVE  ListInv'
<1>1. ListCallsInv'
  BY HandlersFollow DEF ListInv, L!Finish, ListCallsInv
<1>2. NewIsUnknown'
  BY VersionsFollow DEF ListInv, ListCallsInv, L!Finish
<1>3. ASSUME NEW l \in L!Lists, NEW v, NEW names, Held(l, v, names)'
      PROVE  Held(l, v, names)
  <2>1. CASE <<l, v, names>> \in stored'
    BY <2>1 DEF Held, Storing
  <2> QED BY <1>3, <2>1 DEF Held, Storing, L!Finish
<1>4. StaleIsAwaited'
  BY <1>3, StaleStays DEF ListInv, L!Finish
<1>5. \A s \in stored' : s = <<s[1], s[2], s[3]>> /\ s[1] \in L!Lists
  BY DEF ListInv, ListCallsInv
<1> QED BY <1>1, <1>2, <1>4, <1>5 DEF ListInv
-----------------------------------------------------------------------------
LEMMA ListComes ==
    ASSUME ListInv, NEW r \in Handlers, NEW l \in L!Lists, NEW n, NEW pc \in {"version", "lookup"},
           L!Start(r, l, n, pc)
    PROVE  ListInv'
<1> DEFINE d == [id |-> r, list |-> l, name |-> n, version |-> NoVersion,
                 names |-> {}, failed |-> FALSE, pc |-> pc]
<1>1. /\ r \notin listIssued /\ listIssued' = listIssued \cup {r} /\ listCalls' = listCalls \cup {d}
      /\ UNCHANGED <<table, listVersion, stored, lost>>
  BY DEF L!Start
<1>2. IsListCall(d) /\ d.id = r /\ d.list = l /\ d.version = NoVersion /\ d.pc \in {"version", "lookup"}
  BY DEF IsListCall, ListFields
<1> HIDE DEF d
<1>3. ListCallsInv'
  BY <1>1, <1>2 DEF ListInv, ListCallsInv
<1>4. NewIsUnknown'
  <2> SUFFICES ASSUME NEW q \in Handlers, MaySet(q)'
               PROVE  /\ \A m \in L!Lists : listVersion'[m] # q
                      /\ \A s \in stored' : s[2] # q
                      /\ \A e \in listCalls' : e.version # q
    BY DEF NewIsUnknown
  <2>1. MaySet(q)
    BY <1>1, <1>2 DEF MaySet
  <2>2. NoVersion # q
    BY PartsAssumption DEF L!ListCacheAssumption
  <2> QED BY <1>1, <1>2, <2>1, <2>2 DEF ListInv, NewIsUnknown
<1>5. StaleIsAwaited'
  BY <1>1, <1>2 DEF ListInv, StaleIsAwaited, Held, Storing, L!NamesOf, Removes
<1> QED BY <1>1, <1>3, <1>4, <1>5 DEF ListInv

LEMMA ListReads ==
    ASSUME ListInv, NEW c \in listCalls, L!GetTypes(c) \/ L!GetCategoryList(c)
    PROVE  ListInv'
<1>1. IsListCall(c) /\ c.list \in L!Lists
  BY DEF ListInv, ListCallsInv
<1>2. CASE L!ReadVersion(c)
  <2>1. CASE L!Move(c, [c EXCEPT !.version = listVersion[c.list], !.pc = "cached"])
    <3> DEFINE d == [c EXCEPT !.version = listVersion[c.list], !.pc = "cached"]
    <3>1. IsListCall(d) /\ d.id = c.id /\ d.list = c.list /\ d.version = listVersion[c.list] /\ d.pc = "cached"
      BY <1>1 DEF IsListCall, ListFields
    <3>2. L!Move(c, d)
      BY <2>1
    <3> HIDE DEF d
    <3>3. d.version \in {c.version, NoVersion} \cup {listVersion[l] : l \in L!Lists}
      BY <1>1, <3>1
    <3>4. \A v, names : ~Storing(d, c.list, v, names)
      BY <3>1 DEF Storing
    <3> QED BY <1>2, <3>1, <3>2, <3>3, <3>4, ListMove DEF L!ReadVersion
  <2>2. CASE L!Move(c, [c EXCEPT !.pc = "query"])
    <3> DEFINE d == [c EXCEPT !.pc = "query"]
    <3>1. IsListCall(d) /\ d.id = c.id /\ d.list = c.list /\ d.version = c.version /\ d.pc = "query"
      BY <1>1 DEF IsListCall, ListFields
    <3>2. L!Move(c, d)
      BY <2>2
    <3> HIDE DEF d
    <3> QED BY <1>2, <3>1, <3>2, ListMove DEF L!ReadVersion, Storing
  <2> QED BY <1>2, <2>1, <2>2 DEF L!ReadVersion
<1>3. CASE L!ReadStored(c)
  <2>1. CASE L!Finish(c)
    BY <1>3, <2>1, ListFinish DEF L!ReadStored
  <2>2. CASE L!Move(c, [c EXCEPT !.pc = "query"])
    <3> DEFINE d == [c EXCEPT !.pc = "query"]
    <3>1. IsListCall(d) /\ d.id = c.id /\ d.list = c.list /\ d.version = c.version /\ d.pc = "query"
      BY <1>1 DEF IsListCall, ListFields
    <3>2. L!Move(c, d)
      BY <2>2
    <3> HIDE DEF d
    <3> QED BY <1>3, <3>1, <3>2, ListMove DEF L!ReadStored, Storing
  <2> QED BY <1>3, <2>1, <2>2 DEF L!ReadStored
<1>4. CASE L!QueryNames(c)
  <2>1. CASE L!Finish(c)
    BY <1>4, <2>1, ListFinish DEF L!QueryNames
  <2>2. CASE L!Move(c, [c EXCEPT !.names = L!NamesOf(c.list), !.pc = "store"])
    <3> DEFINE d == [c EXCEPT !.names = L!NamesOf(c.list), !.pc = "store"]
    <3>1. /\ IsListCall(d) /\ d.id = c.id /\ d.list = c.list /\ d.version = c.version /\ d.pc = "store"
          /\ d.names = L!NamesOf(c.list)
      BY <1>1 DEF IsListCall, ListFields
    <3>2. L!Move(c, d)
      BY <2>2
    <3> HIDE DEF d
    <3>3. \A v, names : Storing(d, c.list, v, names) => names = L!NamesOf(c.list)
      BY <3>1 DEF Storing
    <3> QED BY <1>4, <3>1, <3>2, <3>3, ListMove DEF L!QueryNames
  <2> QED BY <1>4, <2>1, <2>2 DEF L!QueryNames
<1>5. CASE L!StoreNames(c)
  BY <1>5, ListFinish DEF L!StoreNames, L!StoredUnder
<1> QED BY <1>2, <1>3, <1>4, <1>5 DEF L!GetTypes, L!GetCategoryList

\* From its insert on a writer stands for whatever it makes stale.
LEMMA InsertIsAwaited ==
    ASSUME ListInv, NEW c \in listCalls, L!Insert(c)
    PROVE  ListInv'
<1> DEFINE d == [c EXCEPT !.pc = "old"]
<1>1. CASE L!Finish(c) /\ UNCHANGED table
  BY <1>1, ListFinish DEF L!Insert
<1>2. CASE table' = [table EXCEPT ![c.list] = @ \cup {<<c.id, c.name>>}] /\ L!Move(c, d)
  <2>1. /\ IsListCall(d) /\ d.id = c.id /\ d.list = c.list /\ d.version = c.version /\ d.pc = "old"
        /\ c.version = NoVersion
    BY <1>2 DEF L!Insert, ListInv, ListCallsInv, IsListCall, ListFields
  <2> HIDE DEF d
  <2>2. /\ listCalls' = (listCalls \ {c}) \cup {d} /\ UNCHANGED <<listVersion, stored, listIssued, lost>>
        /\ c.pc = "insert"
    BY <1>2 DEF L!Insert, L!Move
  <2>3. ListCallsInv'
    BY <2>1, <2>2, HandlersFollow DEF ListInv
  <2>4. NewIsUnknown'
    BY <2>1, <2>2, VersionsFollow DEF ListInv, ListCallsInv
  <2>5. \A l \in L!Lists : l # c.list => table'[l] = table[l]
    BY <1>2 DEF ListInv
  <2>6. StaleIsAwaited'
    <3> SUFFICES ASSUME NEW l \in L!Lists, NEW names, Held(l, listVersion[l], names)', l \notin lost,
                        names # L!NamesOf(l)'
                 PROVE  \E w \in listCalls' : Removes(w, l, listVersion[l])
      BY <2>2 DEF StaleIsAwaited, Removes
    <3>1. CASE l = c.list
      BY <2>1, <2>2, <3>1 DEF Removes
    <3>2. CASE l # c.list
      <4>1. Held(l, listVersion[l], names) /\ names # L!NamesOf(l)
        BY <2>1, <2>2, <2>5, <3>2 DEF Held, Storing, L!NamesOf
      <4>2. PICK w \in listCalls : Removes(w, l, listVersion[l])
        BY <4>1 DEF ListInv, StaleIsAwaited
      <4>3. w # c
        BY <2>2, <4>2 DEF Removes
      <4> QED BY <2>2, <4>2, <4>3
    <3> QED BY <3>1, <3>2
  <2>7. table' = [l \in L!Lists |-> table'[l]]
    BY <1>2 DEF ListInv
  <2> QED BY <2>2, <2>3, <2>4, <2>6, <2>7 DEF ListInv
<1> QED BY <1>1, <1>2 DEF L!Insert

\* What it has to remove it will remove under the version it finds.
LEMMA OldIsFound ==
    ASSUME ListInv, NEW c \in listCalls, L!ReadOldVersion(c)
    PROVE  ListInv'
<1>1. /\ c.pc = "old" /\ UNCHANGED <<table, listVersion, stored, listIssued, lost>>
      /\ IsListCall(c) /\ c.list \in L!Lists /\ c.version = NoVersion
  BY DEF L!ReadOldVersion, ListInv, ListCallsInv
<1>2. PICK d : /\ IsListCall(d) /\ d.id = c.id /\ d.list = c.list /\ d.pc = "set"
               /\ d.version \in {NoVersion, listVersion[c.list]}
               /\ listCalls' = (listCalls \ {c}) \cup {d}
  <2>1. CASE L!Move(c, [c EXCEPT !.version = listVersion[c.list], !.pc = "set"])
    <3> DEFINE d == [c EXCEPT !.version = listVersion[c.list], !.pc = "set"]
    <3>1. IsListCall(d) /\ d.id = c.id /\ d.list = c.list /\ d.version = listVersion[c.list] /\ d.pc = "set"
      BY <1>1 DEF IsListCall, ListFields
    <3>2. listCalls' = (listCalls \ {c}) \cup {d}
      BY <2>1 DEF L!Move
    <3> HIDE DEF d
    <3> QED BY <3>1, <3>2
  <2>2. CASE L!Move(c, [c EXCEPT !.pc = "set"])
    <3> DEFINE d == [c EXCEPT !.pc = "set"]
    <3>1. IsListCall(d) /\ d.id = c.id /\ d.list = c.list /\ d.version = c.version /\ d.pc = "set"
      BY <1>1 DEF IsListCall, ListFields
    <3>2. listCalls' = (listCalls \ {c}) \cup {d}
      BY <2>2 DEF L!Move
    <3> HIDE DEF d
    <3> QED BY <1>1, <3>1, <3>2
  <2> QED BY <2>1, <2>2 DEF L!ReadOldVersion
<1>3. ListCallsInv'
  BY <1>1, <1>2, HandlersFollow DEF ListInv
<1>4. NewIsUnknown'
  <2>1. d.version \in {c.version, NoVersion} \cup {listVersion[l] : l \in L!Lists}
    BY <1>1, <1>2
  <2> QED BY <1>1, <1>2, <2>1, VersionsFollow DEF ListInv, ListCallsInv
<1>5. StaleIsAwaited'
  <2> SUFFICES ASSUME NEW l \in L!Lists, NEW names, Held(l, listVersion[l], names)', l \notin lost,
                      names # L!NamesOf(l)
               PROVE  \E w \in listCalls' : Removes(w, l, listVersion[l])
    BY <1>1 DEF StaleIsAwaited, Removes, Held, L!NamesOf
  <2>1. Held(l, listVersion[l], names)
    BY <1>1, <1>2 DEF Held, Storing
  <2>2. PICK w \in listCalls : Removes(w, l, listVersion[l])
    BY <2>1 DEF ListInv, StaleIsAwaited
  <2>3. CASE w = c
    BY <1>2, <2>2, <2>3 DEF Removes
  <2>4. CASE w # c
    BY <1>2, <2>2, <2>4
  <2> QED BY <2>3, <2>4
<1> QED BY <1>1, <1>3, <1>4, <1>5 DEF ListInv

\* A new version makes what is under the old one unreachable.
LEMMA NewIsEmpty ==
    ASSUME ListInv, NEW c \in listCalls, L!SetVersion(c)
    PROVE  ListInv'
<1>1. /\ c.pc = "set" /\ UNCHANGED <<table, stored, listIssued>>
      /\ IsListCall(c) /\ c.list \in L!Lists /\ c.id \in listIssued /\ c.id \in Handlers
  BY DEF L!SetVersion, ListInv, ListCallsInv
<1>2. MaySet(c.id)
  BY <1>1 DEF MaySet
<1>3. PICK ok \in BOOLEAN :
        /\ listVersion' = IF ok THEN [listVersion EXCEPT ![c.list] = c.id] ELSE listVersion
        /\ \/ /\ c.version # NoVersion /\ lost' = lost
              /\ L!Move(c, [c EXCEPT !.failed = ~ok, !.pc = "delete"])
           \/ /\ c.version = NoVersion /\ L!Finish(c)
              /\ lost' = IF ok THEN lost ELSE lost \cup {c.list}
  BY DEF L!SetVersion, L!DeletesOld, L!FreshVersion
<1>4. PICK d : /\ IsListCall(d) /\ d.id = c.id /\ d.list = c.list /\ d.version = c.version
               /\ d.pc = "delete" /\ (~ok => d.failed)
               /\ \/ c.version # NoVersion /\ lost' = lost /\ listCalls' = (listCalls \ {c}) \cup {d}
                  \/ /\ c.version = NoVersion /\ listCalls' = listCalls \ {c}
                     /\ lost' = IF ok THEN lost ELSE lost \cup {c.list}
  <2> DEFINE d == [c EXCEPT !.failed = ~ok, !.pc = "delete"]
  <2>1. /\ IsListCall(d) /\ d.id = c.id /\ d.list = c.list /\ d.version = c.version
        /\ d.pc = "delete" /\ d.failed = ~ok
    BY <1>1 DEF IsListCall, ListFields
  <2>2. \/ c.version # NoVersion /\ lost' = lost /\ listCalls' = (listCalls \ {c}) \cup {d}
        \/ /\ c.version = NoVersion /\ listCalls' = listCalls \ {c}
           /\ lost' = IF ok THEN lost ELSE lost \cup {c.list}
    BY <1>3 DEF L!Move, L!Finish
  <2> HIDE DEF d
  <2> QED BY <2>1, <2>2
<1>5. listCalls' \subseteq (listCalls \ {c}) \cup {d}
  BY <1>4
<1>6. ListCallsInv'
  BY <1>1, <1>4, <1>5, HandlersFollow DEF ListInv
<1>7. \A l \in L!Lists : \/ listVersion'[l] = listVersion[l]
                         \/ l = c.list /\ listVersion'[l] = c.id /\ ok
  BY <1>3 DEF ListInv
<1>8. NewIsUnknown'
  <2>1. \A e \in listCalls' : e.id = c.id => e.pc = "delete"
    BY <1>4, <1>5 DEF ListInv, ListCallsInv
  <2> QED BY <1>1, <1>4, <1>5, <1>7, <2>1, VersionsFollow DEF ListInv
<1>9. StaleIsAwaited'
  <2> SUFFICES ASSUME NEW l \in L!Lists, NEW names, NEW v, v = listVersion'[l], Held(l, v, names)',
                      l \notin lost', names # L!NamesOf(l)
               PROVE  \E w \in listCalls' : Removes(w, l, v)
    BY <1>1 DEF StaleIsAwaited, Removes, Held, L!NamesOf
  <2>1. Held(l, listVersion'[l], names) /\ l \notin lost
    BY <1>1, <1>4 DEF Held, Storing
  <2>2. listVersion'[l] # c.id
    <3> SUFFICES ASSUME listVersion'[l] = c.id PROVE FALSE
      OBVIOUS
    <3>1. Held(l, c.id, names)
      BY <2>1
    <3>2. (\A s \in stored : s[2] # c.id) /\ (\A e \in listCalls : e.version # c.id)
      BY <1>1, <1>2 DEF ListInv, NewIsUnknown
    <3> QED BY <3>1, <3>2 DEF Held, Storing
  <2>3. listVersion'[l] = listVersion[l] /\ (l = c.list => ~ok)
    BY <1>3, <1>7, <2>2 DEF ListInv
  <2>4. PICK w \in listCalls : Removes(w, l, listVersion[l])
    BY <2>1, <2>3 DEF ListInv, StaleIsAwaited
  <2>5. CASE w = c
    <3>1. l = c.list /\ c.version \in {listVersion[l], NoVersion} /\ ~ok
      BY <1>1, <2>3, <2>4, <2>5 DEF Removes
    <3>2. c.version # NoVersion
      BY <1>4, <3>1
    <3> QED BY <1>4, <2>3, <3>1, <3>2 DEF Removes
  <2>6. CASE w # c
    BY <1>4, <2>3, <2>4, <2>6
  <2> QED BY <2>5, <2>6
<1>10. listVersion' \in [L!Lists -> L!Versions]
  BY <1>1, <1>3 DEF ListInv, L!Versions
<1> QED BY <1>1, <1>6, <1>8, <1>9, <1>10 DEF ListInv

\* Where there is no new version, the old list is deleted or known to be lost.
LEMMA OldIsRemoved ==
    ASSUME ListInv, NEW c \in listCalls, L!DeleteStored(c)
    PROVE  ListInv'
<1>1. /\ c.pc = "delete" /\ UNCHANGED <<table, listVersion, listIssued>>
      /\ IsListCall(c) /\ c.id \in listIssued /\ listCalls' = listCalls \ {c}
  BY DEF L!DeleteStored, L!Finish, ListInv, ListCallsInv
<1>2. PICK ok \in BOOLEAN :
        /\ stored' = IF ok THEN {s \in stored : <<s[1], s[2]>> # <<c.list, c.version>>} ELSE stored
        /\ lost' = IF c.failed /\ (~ok \/ L!StoreUnderWay(c)) THEN lost \cup {c.list} ELSE lost
  BY DEF L!DeleteStored
<1>3. ListCallsInv'
  BY <1>1, HandlersFollow DEF ListInv, ListCallsInv
<1>4. NewIsUnknown'
  BY <1>1, <1>2, VersionsFollow DEF ListInv
<1>5. StaleIsAwaited'
  <2> SUFFICES ASSUME NEW l \in L!Lists, NEW names, Held(l, listVersion[l], names)', l \notin lost',
                      names # L!NamesOf(l)
               PROVE  \E w \in listCalls' : Removes(w, l, listVersion[l])
    BY <1>1 DEF StaleIsAwaited, Removes, Held, L!NamesOf
  <2>1. Held(l, listVersion[l], names) /\ l \notin lost
    BY <1>1, <1>2 DEF Held
  <2>2. PICK w \in listCalls : Removes(w, l, listVersion[l])
    BY <2>1 DEF ListInv, StaleIsAwaited
  <2>3. ASSUME w = c PROVE FALSE
    <3>1. l = c.list /\ c.failed /\ c.version = listVersion[l]
      BY <1>1, <2>2, <2>3 DEF Removes
    <3>2. ok /\ ~L!StoreUnderWay(c)
      BY <1>2, <3>1
    <3>3. <<l, listVersion[l], names>> \notin stored'
      BY <1>2, <3>1, <3>2
    <3>4. \A e \in listCalls : ~Storing(e, l, listVersion[l], names)
      BY <3>1, <3>2 DEF L!StoreUnderWay, Storing
    <3> QED BY <1>1, <3>3, <3>4 DEF Held
  <2> QED BY <1>1, <2>2, <2>3
<1>6. \A s \in stored' : s = <<s[1], s[2], s[3]>> /\ s[1] \in L!Lists
  BY <1>2 DEF ListInv
<1> QED BY <1>1, <1>3, <1>4, <1>5, <1>6 DEF ListInv

LEMMA ListWrites ==
    ASSUME ListInv, NEW c \in listCalls, L!AddNewType(c) \/ L!CreateCategory(c)
    PROVE  ListInv'
<1>1. CASE L!LookUpName(c)
  <2>1. CASE L!Finish(c)
    BY <1>1, <2>1, ListFinish DEF L!LookUpName
  <2>2. CASE L!Move(c, [c EXCEPT !.pc = "insert"])
    <3> DEFINE d == [c EXCEPT !.pc = "insert"]
    <3>1. /\ IsListCall(d) /\ d.id = c.id /\ d.list = c.list /\ d.version = c.version /\ d.pc = "insert"
          /\ c.version = NoVersion /\ c.pc = "lookup"
      BY <1>1 DEF L!LookUpName, ListInv, ListCallsInv, IsListCall, ListFields
    <3>2. L!Move(c, d)
      BY <2>2
    <3> HIDE DEF d
    <3>3. \A v, names : ~Storing(d, c.list, v, names)
      BY <3>1 DEF Storing
    <3> QED BY <1>1, <3>1, <3>2, <3>3, ListMove DEF L!LookUpName
  <2> QED BY <1>1, <2>1, <2>2 DEF L!LookUpName
<1> QED BY <1>1, InsertIsAwaited, OldIsFound, NewIsEmpty, OldIsRemoved
        DEF L!AddNewType, L!CreateCategory, L!InvalidateList

LEMMA NextList == ListInv /\ [L!Next]_(L!vars) => ListInv'
<1> SUFFICES ASSUME ListInv, [L!Next]_(L!vars) PROVE ListInv'
  OBVIOUS
<1>1. CASE UNCHANGED L!vars
  BY <1>1 DEF L!vars, ListInv, ListCallsInv, NewIsUnknown, MaySet, StaleIsAwaited, Held, L!NamesOf
<1>2. ASSUME NEW s \in stored, L!Expire(s)
      PROVE  ListInv'
  BY <1>2 DEF L!Expire, ListInv, ListCallsInv, NewIsUnknown, MaySet, StaleIsAwaited, Held, L!NamesOf
<1>3. ASSUME NEW r \in Handlers, NEW l \in L!Lists, NEW n \in Names,
             L!Start(r, l, n, "version") \/ L!Start(r, l, n, "lookup")
      PROVE  ListInv'
  BY <1>3, ListComes
<1> QED BY <1>1, <1>2, <1>3, ListReads, ListWrites DEF L!Next

(***************************************************************************)
(* The cached lists of types and of categories are served as they are, and *)
(* are those of the table whenever no writer is between its insert and the *)
(* end of its invalidation, and no invalidation has failed altogether      *)
(* (getTypes, addNewType, getCategoryList, createCategory).                *)
(***************************************************************************)
THEOREM StoredListsAreFresh == PartsSpec => []StoredListIsFresh
<1>1. PartsInit => ListInv
  BY InitList DEF PartsInit
<1>2. ListInv /\ [PartsNext]_partsVars => ListInv'
  <2>1. [PartsNext]_partsVars => [L!Next]_(L!vars)
    BY DEF PartsNext, partsVars, listVars, L!vars
  <2> QED BY <2>1, NextList
<1>3. ListInv => StoredListIsFresh
  <2> SUFFICES ASSUME ListInv, NEW s \in stored, s[2] = listVersion[s[1]], s[1] \notin lost,
                      \A c \in listCalls : c.list = s[1] => c.pc \notin {"old", "set", "delete"}
               PROVE  s[3] = L!NamesOf(s[1])
    BY DEF StoredListIsFresh, L!StoredListIsFresh
  <2>1. s[1] \in L!Lists /\ Held(s[1], listVersion[s[1]], s[3])
    BY DEF ListInv, Held
  <2>2. ASSUME s[3] # L!NamesOf(s[1]) PROVE FALSE
    <3>1. PICK w \in listCalls : Removes(w, s[1], listVersion[s[1]])
      BY <2>1, <2>2 DEF ListInv, StaleIsAwaited
    <3> QED BY <3>1 DEF Removes
  <2> QED BY <2>2
<1> QED BY <1>1, <1>2, <1>3, PTL DEF PartsSpec, partsVars

-----------------------------------------------------------------------------
(* DemoQuota.                                                              *)
(*                                                                         *)
(* A reservation holds the row of its day from the moment it has counted   *)
(* it to the end of its transaction, so a day has counted one question     *)
(* more than were granted exactly while it is held (DayRowsHeld).  No      *)
(* request takes a day: the session of a question is not purged under it,  *)
(* and its day is still kept.                                              *)

LEMMA Numbers ==
    /\ {QuestionLimit, DailyLimit, Duration, Minute, Hour, Day, Timeout, KeepDays,
        PerMinute, PerHour, BatchSize, MaxTime, MaxSessions, MaxRequests} \subseteq Nat \ {0}
    /\ Minute <= Hour /\ Hour + Timeout <= Day /\ Timeout <= Day
<1>1. /\ {QuestionLimit, DailyLimit, Duration, Minute, Hour, Day, Timeout, KeepDays,
           PerMinute, PerHour, BatchSize, MaxTime, MaxSessions, MaxRequests} \subseteq Nat \ {0}
      /\ Minute <= Hour /\ Hour + Timeout <= Day
  BY PartsAssumption DEF D!DemoQuotaAssumption
<1>2. Hour \in Nat /\ Timeout \in Nat /\ Day \in Nat
  BY <1>1
<1>3. Timeout <= Day
  BY <1>1, <1>2
<1> QED BY <1>1, <1>3

LEMMA DivBounds ==
    ASSUME NEW a \in Nat, NEW n \in Nat \ {0}
    PROVE  a \div n \in Nat /\ n * (a \div n) <= a /\ a < n * (a \div n) + n
OBVIOUS

LEMMA DivGrows ==
    ASSUME NEW a \in Nat, NEW b \in Nat, NEW n \in Nat \ {0}, a <= b
    PROVE  a \div n <= b \div n
<1> DEFINE q == a \div n
           r == b \div n
<1>1. q \in Nat /\ r \in Nat /\ n * q <= a /\ b < n * r + n
  BY DivBounds
<1> HIDE DEF q, r
<1>2. n * q < n * (r + 1)
  BY <1>1
<1>3. q < r + 1
  BY <1>1, <1>2
<1> QED BY <1>1, <1>3 DEF q, r

LEMMA DivSteps ==
    ASSUME NEW a \in Nat, NEW b \in Nat, NEW n \in Nat \ {0}, b <= a + n
    PROVE  b \div n <= a \div n + 1
<1> DEFINE q == a \div n
           r == b \div n
<1>1. q \in Nat /\ r \in Nat /\ n * r <= b /\ a < n * q + n
  BY DivBounds
<1> HIDE DEF q, r
<1>2. n * r < n * (q + 2)
  BY <1>1
<1>3. r < q + 2
  BY <1>1, <1>2
<1> QED BY <1>1, <1>3 DEF q, r

DemoFields == {"id", "session", "ip", "now", "day", "since", "pc"}
IsDemoCall(c) == c = [x \in DemoFields |-> c[x]]

\* The instance has the operators of FiniteSets under its own names.
LEMMA DemoCardinality == \A S : D!Cardinality(S) = Cardinality(S)
BY DEF D!Cardinality, Cardinality

\* A session whose question is under way.
Lasting(s, since) ==
    /\ s \in D!Sessions /\ session[s].state = "there" /\ session[s].expires > since
    /\ session[s].revoked = 0 \/ session[s].revoked >= since

Timely(c) ==
    /\ IsDemoCall(c) /\ c.id \in 1 .. demoIssued /\ c.ip \in Ips /\ c.since \in Nat /\ c.now \in Nat
    /\ c.since <= demoClock
    /\ demoClock <= c.since + (IF c.pc \in {"read", "chat"} THEN Day ELSE Timeout)
    /\ c.pc \in {"lock", "check", "insert", "read", "daily", "session", "chat"}
    /\ c.pc \in {"check", "insert", "session"} => c.since <= c.now /\ c.now <= demoClock
    /\ c.pc \in {"read", "daily", "session"} => Lasting(c.session, c.since)
    /\ c.pc \in {"daily", "session"} => c.day \in D!Days /\ c.since \div Day <= c.day

DemoCallsInv ==
    /\ demoClock \in 1 .. MaxTime /\ session \in [D!Sessions -> D!Row] /\ demoIssued \in Nat
    /\ \A c \in demoCalls : Timely(c)
    /\ \A c, d \in demoCalls : c.id = d.id => c = d
    /\ \A s \in D!Sessions : /\ session[s].created <= demoClock
                             /\ session[s].revoked = 0 \/ session[s].revoked >= session[s].created
                             /\ session[s].state = "none" => session[s].asked = 0

DayRowsHeld ==
    /\ dayLock \in [D!Days -> Nat] /\ usage \in [D!Days -> Nat]
    /\ \A d \in D!Days : dayLock[d] # D!NoRequest =>
          \E c \in demoCalls : c.id = dayLock[d] /\ c.pc = "session" /\ c.day = d
    /\ \A c \in demoCalls : c.pc = "session" => dayLock[c.day] = c.id
    /\ \A d \in D!Days : usage[d] <= DailyLimit

OfDay(G, d) == {g \in G : g[3] = d}
OfSession(G, s) == {g \in G : g[2] = s}

GrantsCounted ==
    /\ IsFiniteSet(granted)
    /\ \A g \in granted : g[1] \in 1 .. demoIssued
    /\ \A c \in demoCalls : c.pc # "chat" => \A g \in granted : g[1] # c.id
    /\ \A d \in D!Days : D!Today - d <= KeepDays =>
          usage[d] = Cardinality(OfDay(granted, d)) + (IF dayLock[d] = D!NoRequest THEN 0 ELSE 1)
    /\ \A s \in D!Sessions : session[s].asked = Cardinality(OfSession(granted, s))
    /\ \A d \in D!Days : Cardinality(OfDay(granted, d)) <= DailyLimit

DemoInv == DemoCallsInv /\ DayRowsHeld /\ GrantsCounted

LEMMA TodayIsDay == ASSUME DemoCallsInv PROVE D!Today \in D!Days /\ D!Today \in Nat
<1>1. demoClock \in Nat /\ demoClock <= MaxTime /\ Day \in Nat \ {0} /\ MaxTime \in Nat
  BY Numbers DEF DemoCallsInv
<1>2. demoClock \div Day \in Nat /\ MaxTime \div Day \in Nat /\ demoClock \div Day <= MaxTime \div Day
  BY <1>1, DivBounds, DivGrows
<1> QED BY <1>2 DEF D!Today, D!Days

\* No request takes a day.
LEMMA InTime ==
    ASSUME DemoCallsInv, NEW c \in demoCalls
    PROVE  /\ c.since \in Nat /\ demoClock \in Nat /\ c.since <= demoClock
           /\ demoClock <= c.since + Day
           /\ c.pc \notin {"read", "chat"} => demoClock <= c.since + Timeout
<1>1. /\ c.since \in Nat /\ demoClock \in Nat /\ c.since <= demoClock
      /\ demoClock <= c.since + (IF c.pc \in {"read", "chat"} THEN Day ELSE Timeout)
  BY Numbers DEF DemoCallsInv, Timely
<1>2. Day \in Nat /\ Timeout \in Nat /\ Timeout <= Day
  BY Numbers
<1> QED BY <1>1, <1>2

\* The day of a question is kept.
LEMMA DayIsKept ==
    ASSUME DemoCallsInv, NEW c \in demoCalls, c.pc \in {"daily", "session"}
    PROVE  D!Today - c.day <= KeepDays
<1>1. /\ c.since \in Nat /\ demoClock \in Nat /\ demoClock <= c.since + Day
      /\ c.since \div Day <= c.day /\ Day \in Nat \ {0} /\ KeepDays \in Nat \ {0}
  BY Numbers, InTime DEF DemoCallsInv, Timely
<1>2. c.day \in Nat
  <2>1. MaxTime \div Day \in Nat
    BY DivBounds, Numbers
  <2> QED BY <2>1 DEF DemoCallsInv, Timely, D!Days
<1>3. c.since \div Day \in Nat /\ demoClock \div Day \in Nat
  BY <1>1, DivBounds
<1>4. demoClock \div Day <= c.since \div Day + 1
  BY <1>1, DivSteps
<1> QED BY <1>1, <1>2, <1>3, <1>4 DEF D!Today

LEMMA InitDemo == D!Init => DemoInv
<1> SUFFICES ASSUME D!Init PROVE DemoInv
  OBVIOUS
<1>1. DemoCallsInv
  <2> DEFINE Blank(i) == [state |-> "none", ip |-> i, created |-> 0, expires |-> 0,
                          revoked |-> 0, asked |-> 0]
  <2>1. \A i \in Ips : Blank(i) \in D!Row /\ Blank(i).created = 0 /\ Blank(i).revoked = 0 /\ Blank(i).asked = 0
    BY DEF D!Row
  <2>2. session \in [D!Sessions -> {Blank(i) : i \in Ips}]
    BY DEF D!Init
  <2> HIDE DEF Blank
  <2>3. \A s \in D!Sessions : session[s] \in D!Row /\ session[s].created = 0 /\ session[s].revoked = 0 /\ session[s].asked = 0
    BY <2>1, <2>2
  <2> QED BY <2>2, <2>3, Numbers DEF D!Init, DemoCallsInv
<1>2. DayRowsHeld
  <2>1. DailyLimit \in Nat
    BY Numbers
  <2> QED BY <2>1 DEF D!Init, DayRowsHeld, D!NoRequest
<1>3. GrantsCounted
  <2>1. IsFiniteSet({}) /\ Cardinality({}) = 0
    BY FS_EmptySet
  <2>2. \A d : OfDay({}, d) = {} /\ OfSession({}, d) = {}
    BY DEF OfDay, OfSession
  <2>3. \A s \in D!Sessions : session[s].asked = 0
    <3> DEFINE Blank(i) == [state |-> "none", ip |-> i, created |-> 0, expires |-> 0,
                            revoked |-> 0, asked |-> 0]
    <3>1. \A i \in Ips : Blank(i).asked = 0
      OBVIOUS
    <3>2. session \in [D!Sessions -> {Blank(i) : i \in Ips}]
      BY DEF D!Init
    <3> HIDE DEF Blank
    <3> QED BY <3>1, <3>2
  <2>4. granted = {} /\ demoCalls = {} /\ \A d \in D!Days : usage[d] = 0 /\ dayLock[d] = D!NoRequest
    BY DEF D!Init
  <2>5. DailyLimit \in Nat
    BY Numbers
  <2>6. \A d : Cardinality(OfDay(granted, d)) = 0 /\ Cardinality(OfSession(granted, d)) = 0
    BY <2>1, <2>2, <2>4
  <2>7. \A d \in D!Days :
           usage[d] = Cardinality(OfDay(granted, d)) + (IF dayLock[d] = D!NoRequest THEN 0 ELSE 1)
    BY <2>4, <2>6
  <2> QED BY <2>1, <2>3, <2>4, <2>5, <2>6, <2>7 DEF GrantsCounted
<1> QED BY <1>1, <1>2, <1>3 DEF DemoInv

LEMMA OneMore ==
    ASSUME NEW G, IsFiniteSet(G), NEW a, NEW b, NEW e, <<a, b, e>> \notin G, NEW v
    PROVE  /\ Cardinality(OfDay(G, v)) \in Nat /\ Cardinality(OfSession(G, v)) \in Nat
           /\ Cardinality(OfDay(G \cup {<<a, b, e>>}, v)) =
                 IF v = e THEN Cardinality(OfDay(G, v)) + 1 ELSE Cardinality(OfDay(G, v))
           /\ Cardinality(OfSession(G \cup {<<a, b, e>>}, v)) =
                 IF v = b THEN Cardinality(OfSession(G, v)) + 1 ELSE Cardinality(OfSession(G, v))
<1>1. OfDay(G, v) \in SUBSET G /\ OfSession(G, v) \in SUBSET G
  BY DEF OfDay, OfSession
<1>2. IsFiniteSet(OfDay(G, v)) /\ IsFiniteSet(OfSession(G, v))
  BY <1>1, FS_Subset
<1>3. /\ <<a, b, e>> \notin OfDay(G, v) /\ <<a, b, e>> \notin OfSession(G, v)
  BY DEF OfDay, OfSession
<1>4. /\ v = e => OfDay(G \cup {<<a, b, e>>}, v) = OfDay(G, v) \cup {<<a, b, e>>}
      /\ v # e => OfDay(G \cup {<<a, b, e>>}, v) = OfDay(G, v)
      /\ v = b => OfSession(G \cup {<<a, b, e>>}, v) = OfSession(G, v) \cup {<<a, b, e>>}
      /\ v # b => OfSession(G \cup {<<a, b, e>>}, v) = OfSession(G, v)
  BY DEF OfDay, OfSession
<1>5. /\ Cardinality(OfDay(G, v) \cup {<<a, b, e>>}) = Cardinality(OfDay(G, v)) + 1
      /\ Cardinality(OfSession(G, v) \cup {<<a, b, e>>}) = Cardinality(OfSession(G, v)) + 1
  BY <1>2, <1>3, FS_AddElement
<1> QED BY <1>2, <1>4, <1>5, FS_CardinalityType

\* Sessions that may have a question stay as they are, but for what they count.
Lasts(s) ==
    session[s].state = "there" =>
        /\ session'[s].state = "there" /\ session'[s].expires = session[s].expires
        /\ session'[s].revoked = session[s].revoked

RowsFit ==
    /\ session' \in [D!Sessions -> D!Row]
    /\ \A s \in D!Sessions :
        /\ session'[s].created <= demoClock'
        /\ session'[s].revoked = 0 \/ session'[s].revoked >= session'[s].created
        /\ session'[s].state = "none" => session'[s].asked = 0

LEMMA SameRowsFit ==
    ASSUME DemoCallsInv, UNCHANGED <<demoClock, session>>
    PROVE  RowsFit /\ \A s \in D!Sessions : Lasts(s)
BY DEF DemoCallsInv, RowsFit, Lasts

\* A handler becomes c2, or ends.
LEMMA DemoMoves ==
    ASSUME DemoCallsInv, UNCHANGED <<demoClock, demoIssued>>, NEW c \in demoCalls, NEW c2,
           demoCalls' = (demoCalls \ {c}) \cup {c2} \/ demoCalls' = demoCalls \ {c},
           RowsFit, \A s \in D!Sessions : Lasts(s),
           demoCalls' = (demoCalls \ {c}) \cup {c2} =>
             /\ IsDemoCall(c2) /\ c2.id = c.id /\ c2.ip = c.ip
             /\ c2.since = demoClock \/ (c2.since = c.since /\ c.pc \notin {"read", "chat"})
             /\ c2.session = c.session /\ c2.now \in Nat
             /\ c2.pc \in {"check", "insert", "daily", "session", "chat"}
             /\ c2.pc \in {"check", "insert", "session"} => c2.since <= c2.now /\ c2.now <= demoClock
             /\ c2.pc \in {"daily", "session"} =>
                   /\ Lasting(c.session, c2.since)
                   /\ c2.day \in D!Days /\ c2.since \div Day <= c2.day
    PROVE  DemoCallsInv'
<1>1. \A d \in demoCalls : Timely(d)'
  BY DEF DemoCallsInv, Timely, Lasting, Lasts
<1>2. demoCalls' = (demoCalls \ {c}) \cup {c2} => Timely(c2)'
  <2> SUFFICES ASSUME demoCalls' = (demoCalls \ {c}) \cup {c2} PROVE Timely(c2)'
    OBVIOUS
  <2>1. /\ c2.since \in Nat /\ c2.since <= demoClock
        /\ demoClock <= c2.since + (IF c2.pc \in {"read", "chat"} THEN Day ELSE Timeout)
    BY InTime, Numbers
  <2> QED BY <2>1 DEF DemoCallsInv, Timely, Lasting, Lasts
<1>3. \A d \in demoCalls' : Timely(d)'
  BY <1>1, <1>2
<1>4. \A d, e \in demoCalls' : d.id = e.id => d = e
  BY DEF DemoCallsInv
<1> QED BY <1>3, <1>4 DEF DemoCallsInv, RowsFit

\* A step of a handler that holds no row of a day and does not get one.
LEMMA CountsStay ==
    ASSUME DemoInv, NEW c \in demoCalls, NEW c2, c.pc # "session",
           demoCalls' = (demoCalls \ {c}) \cup {c2} \/ demoCalls' = demoCalls \ {c},
           demoCalls' = (demoCalls \ {c}) \cup {c2} =>
               c2.id = c.id /\ c2.pc # "session" /\ (c.pc = "chat" => c2.pc = "chat"),
           UNCHANGED <<demoClock, usage, dayLock, granted, demoIssued>>,
           \A s \in D!Sessions : session'[s].asked = session[s].asked
    PROVE  DayRowsHeld' /\ GrantsCounted'
<1>1. DayRowsHeld'
  <2>1. ASSUME NEW d \in D!Days, dayLock[d] # D!NoRequest
        PROVE  \E e \in demoCalls' : e.id = dayLock[d] /\ e.pc = "session" /\ e.day = d
    BY <2>1 DEF DemoInv, DayRowsHeld
  <2>2. \A e \in demoCalls' : e.pc = "session" => e \in demoCalls
    OBVIOUS
  <2> QED BY <2>1, <2>2 DEF DemoInv, DayRowsHeld
<1>2. \A e \in demoCalls' : e.pc # "chat" => \A g \in granted : g[1] # e.id
  BY DEF DemoInv, GrantsCounted
<1>3. D!Today' = D!Today
  BY DEF D!Today
<1> QED BY <1>1, <1>2, <1>3 DEF DemoInv, GrantsCounted

\* Nobody else holds a row in the name of c.
LEMMA RowsOf ==
    ASSUME DemoInv, NEW c \in demoCalls, NEW d \in D!Days
    PROVE  /\ c.id # D!NoRequest
           /\ dayLock[d] = c.id <=> c.pc = "session" /\ d = c.day
<1>1. c.id # D!NoRequest
  BY DEF DemoInv, DemoCallsInv, Timely, D!NoRequest
<1>2. dayLock[d] = c.id => c.pc = "session" /\ d = c.day
  BY <1>1 DEF DemoInv, DemoCallsInv, DayRowsHeld
<1> QED BY <1>1, <1>2 DEF DemoInv, DayRowsHeld

\* The transaction of a reservation ends, with or without the grant.
LEMMA RowReleased ==
    ASSUME DemoInv, NEW c \in demoCalls, c.pc = "session", UNCHANGED <<demoClock, demoIssued>>,
           D!UnlocksDay(c), NEW c2,
           \/ /\ demoCalls' = (demoCalls \ {c}) \cup {c2} /\ c2.id = c.id /\ c2.pc = "chat"
              /\ usage' = usage /\ granted' = granted \cup {<<c.id, c.session, c.day>>}
              /\ \A s \in D!Sessions : session'[s].asked =
                    IF s = c.session THEN session[s].asked + 1 ELSE session[s].asked
           \/ /\ demoCalls' = demoCalls \ {c} /\ granted' = granted
              /\ usage' = D!DayAfterRollback(c)
              /\ \A s \in D!Sessions : session'[s].asked = session[s].asked
    PROVE  DayRowsHeld' /\ GrantsCounted'
<1> USE DEF DemoInv
<1>0. c.day \in D!Days /\ D!Today - c.day <= KeepDays /\ c.session \in D!Sessions
  BY DayIsKept DEF DemoCallsInv, Timely, Lasting
<1>1. dayLock' = [d \in D!Days |-> IF d = c.day THEN D!NoRequest ELSE dayLock[d]]
  BY RowsOf DEF D!UnlocksDay
<1>2. dayLock[c.day] # D!NoRequest
  BY <1>0, RowsOf
<1>3. /\ D!Today' = D!Today /\ DailyLimit \in Nat /\ D!NoRequest = 0
      /\ usage \in [D!Days -> Nat] /\ c.id \in 1 .. demoIssued
  BY Numbers DEF D!Today, DayRowsHeld, DemoCallsInv, Timely, D!NoRequest
<1>4. \A v : Cardinality(OfDay(granted, v)) \in Nat /\ Cardinality(OfSession(granted, v)) \in Nat
  <2>1. <<c.id, c.session, c.day>> \notin granted
    BY DEF GrantsCounted
  <2> QED BY <2>1, OneMore DEF GrantsCounted
<1>5. \A e \in demoCalls' : e.pc = "session" => e \in demoCalls /\ e # c
  OBVIOUS
<1>6. \A e \in demoCalls : e.pc = "session" /\ e # c => e.day # c.day
  BY DEF DayRowsHeld, DemoCallsInv
<1>7. usage[c.day] = Cardinality(OfDay(granted, c.day)) + 1
  BY <1>0, <1>2 DEF GrantsCounted
<1>u. usage' = usage \/ usage' = [usage EXCEPT ![c.day] = @ - 1]
  BY DEF D!DayAfterRollback
<1>8. DayRowsHeld'
  <2>1. dayLock' \in [D!Days -> Nat]
    BY <1>1, <1>3 DEF DayRowsHeld
  <2>2. usage' \in [D!Days -> Nat] /\ \A d \in D!Days : usage'[d] <= DailyLimit
    BY <1>0, <1>3, <1>4, <1>7, <1>u DEF DayRowsHeld
  <2>3. ASSUME NEW d \in D!Days, dayLock'[d] # D!NoRequest
        PROVE  \E e \in demoCalls' : e.id = dayLock'[d] /\ e.pc = "session" /\ e.day = d
    BY <1>1, <2>3 DEF DayRowsHeld
  <2>4. \A e \in demoCalls' : e.pc = "session" => dayLock'[e.day] = e.id
    BY <1>1, <1>5, <1>6 DEF DayRowsHeld, DemoCallsInv, Timely
  <2> QED BY <2>1, <2>2, <2>3, <2>4 DEF DayRowsHeld
<1>9. CASE /\ demoCalls' = (demoCalls \ {c}) \cup {c2} /\ c2.id = c.id /\ c2.pc = "chat"
           /\ usage' = usage /\ granted' = granted \cup {<<c.id, c.session, c.day>>}
           /\ \A s \in D!Sessions : session'[s].asked =
                 IF s = c.session THEN session[s].asked + 1 ELSE session[s].asked
  <2>1. <<c.id, c.session, c.day>> \notin granted /\ IsFiniteSet(granted)
    BY DEF GrantsCounted
  <2>2. IsFiniteSet(granted') /\ \A g \in granted' : g[1] \in 1 .. demoIssued
    BY <1>3, <1>9, <2>1, FS_AddElement DEF GrantsCounted
  <2>3. \A e \in demoCalls' : e.pc # "chat" => \A g \in granted' : g[1] # e.id
    BY <1>9 DEF GrantsCounted, DemoCallsInv
  <2>4. \A v : Cardinality(OfDay(granted', v)) =
                 IF v = c.day THEN Cardinality(OfDay(granted, v)) + 1
                 ELSE Cardinality(OfDay(granted, v))
    BY <1>9, <2>1, OneMore
  <2>5. \A v : Cardinality(OfSession(granted', v)) =
                 IF v = c.session THEN Cardinality(OfSession(granted, v)) + 1
                 ELSE Cardinality(OfSession(granted, v))
    BY <1>9, <2>1, OneMore
  <2>6. ASSUME NEW d \in D!Days
        PROVE  /\ D!Today - d <= KeepDays => usage'[d] = Cardinality(OfDay(granted', d)) +
                     (IF dayLock'[d] = D!NoRequest THEN 0 ELSE 1)
               /\ Cardinality(OfDay(granted', d)) <= DailyLimit
    <3>1. CASE d = c.day
      <4>1. usage[d] <= DailyLimit /\ dayLock'[d] = D!NoRequest
        BY <1>1, <3>1 DEF DayRowsHeld
      <4> DEFINE n == Cardinality(OfDay(granted, d))
      <4>2. n \in Nat /\ usage[d] = n + 1 /\ usage' = usage
        BY <1>4, <1>7, <1>9, <3>1
      <4>3. Cardinality(OfDay(granted', d)) = n + 1
        BY <2>4, <3>1
      <4> HIDE DEF n
      <4> QED BY <4>1, <4>2, <4>3
    <3>2. CASE d # c.day
      <4>1. dayLock'[d] = dayLock[d]
        BY <1>1, <3>2
      <4> QED BY <1>9, <2>4, <3>2, <4>1 DEF GrantsCounted
    <3> QED BY <3>1, <3>2
  <2>7. \A s \in D!Sessions : session'[s].asked = Cardinality(OfSession(granted', s))
    BY <1>9, <2>5 DEF GrantsCounted
  <2> QED BY <1>3, <1>8, <2>2, <2>3, <2>6, <2>7 DEF GrantsCounted
<1>10. CASE /\ demoCalls' = demoCalls \ {c} /\ granted' = granted
            /\ usage' = D!DayAfterRollback(c)
            /\ \A s \in D!Sessions : session'[s].asked = session[s].asked
  <2>1. ASSUME NEW d \in D!Days, D!Today - d <= KeepDays
        PROVE  usage'[d] = Cardinality(OfDay(granted, d)) +
                     (IF dayLock'[d] = D!NoRequest THEN 0 ELSE 1)
    <3>1. usage' = [usage EXCEPT ![c.day] = @ - 1]
      BY <1>10 DEF D!DayAfterRollback
    <3>2. CASE d = c.day
      <4>1. usage'[d] = Cardinality(OfDay(granted, d)) /\ dayLock'[d] = D!NoRequest
        BY <1>0, <1>1, <1>3, <1>4, <1>7, <3>1, <3>2
      <4> QED BY <1>4, <4>1
    <3>3. CASE d # c.day
      <4>1. usage'[d] = usage[d] /\ dayLock'[d] = dayLock[d]
        BY <1>1, <1>3, <3>1, <3>3
      <4> QED BY <2>1, <4>1 DEF GrantsCounted
    <3> QED BY <3>2, <3>3
  <2> QED BY <1>3, <1>8, <1>10, <2>1 DEF GrantsCounted
<1> QED BY <1>8, <1>9, <1>10

\* The day is counted first, and its row is held.
LEMMA RowTaken ==
    ASSUME DemoInv, NEW c \in demoCalls, c.pc = "daily", NEW c2,
           dayLock[c.day] = D!NoRequest, usage[c.day] < DailyLimit,
           usage' = [usage EXCEPT ![c.day] = @ + 1],
           dayLock' = [dayLock EXCEPT ![c.day] = c.id],
           demoCalls' = (demoCalls \ {c}) \cup {c2}, c2.id = c.id, c2.pc = "session", c2.day = c.day,
           UNCHANGED <<demoClock, session, granted, demoIssued>>
    PROVE  DayRowsHeld' /\ GrantsCounted'
<1> USE DEF DemoInv
<1>0. c.day \in D!Days /\ D!Today - c.day <= KeepDays
  BY DayIsKept DEF DemoCallsInv, Timely
<1>1. /\ D!Today' = D!Today /\ DailyLimit \in Nat /\ D!NoRequest = 0
      /\ usage \in [D!Days -> Nat] /\ c.id \in 1 .. demoIssued
      /\ dayLock \in [D!Days -> Nat] /\ demoIssued \in Nat
  BY Numbers DEF D!Today, DayRowsHeld, DemoCallsInv, Timely, D!NoRequest
<1>2. DayRowsHeld'
  <2>1. dayLock' \in [D!Days -> Nat] /\ usage' \in [D!Days -> Nat]
    BY <1>0, <1>1
  <2>2. \A d \in D!Days : usage'[d] <= DailyLimit
    BY <1>0, <1>1 DEF DayRowsHeld
  <2>3. ASSUME NEW d \in D!Days, dayLock'[d] # D!NoRequest
        PROVE  \E e \in demoCalls' : e.id = dayLock'[d] /\ e.pc = "session" /\ e.day = d
    <3>1. CASE d = c.day
      BY <1>0, <1>1, <3>1
    <3>2. CASE d # c.day
      <4>1. dayLock'[d] = dayLock[d]
        BY <1>1, <3>2
      <4>2. PICK e \in demoCalls : e.id = dayLock[d] /\ e.pc = "session" /\ e.day = d
        BY <2>3, <4>1 DEF DayRowsHeld
      <4> QED BY <4>1, <4>2
    <3> QED BY <3>1, <3>2
  <2>4. ASSUME NEW e \in demoCalls', e.pc = "session"
        PROVE  dayLock'[e.day] = e.id
    <3>1. CASE e = c2
      BY <1>0, <1>1, <3>1
    <3>2. CASE e \in demoCalls
      <4>1. dayLock[e.day] = e.id /\ e.id # D!NoRequest /\ e.day \in D!Days
        BY <2>4, <3>2 DEF DayRowsHeld, DemoCallsInv, Timely, D!NoRequest
      <4>2. e.day # c.day
        BY <4>1
      <4> QED BY <1>1, <4>1, <4>2
    <3> QED BY <3>1, <3>2
  <2> QED BY <2>1, <2>2, <2>3, <2>4 DEF DayRowsHeld
<1>3. ASSUME NEW d \in D!Days, D!Today - d <= KeepDays
      PROVE  usage'[d] = Cardinality(OfDay(granted, d)) + (IF dayLock'[d] = D!NoRequest THEN 0 ELSE 1)
  <2>1. usage[d] = Cardinality(OfDay(granted, d)) + (IF dayLock[d] = D!NoRequest THEN 0 ELSE 1)
    BY <1>3 DEF GrantsCounted
  <2>2. CASE d = c.day
    <3>1. usage'[d] = usage[d] + 1 /\ dayLock'[d] # D!NoRequest
      BY <1>0, <1>1, <2>2
    <3>2. usage[d] \in Nat
      BY <1>1
    <3>3. usage[d] = Cardinality(OfDay(granted, d)) + 0
      BY <2>1, <2>2
    <3>4. Cardinality(OfDay(granted, d)) \in Nat
      <4>1. OfDay(granted, d) \in SUBSET granted
        BY DEF OfDay
      <4> QED BY <4>1, FS_Subset, FS_CardinalityType DEF GrantsCounted
    <3> QED BY <3>1, <3>2, <3>3, <3>4
  <2>3. CASE d # c.day
    <3>1. usage'[d] = usage[d] /\ dayLock'[d] = dayLock[d]
      BY <1>1, <2>3
    <3> QED BY <2>1, <3>1
  <2> QED BY <2>2, <2>3
<1>4. \A e \in demoCalls' : e.pc # "chat" => \A g \in granted : g[1] # e.id
  BY DEF GrantsCounted
<1> QED BY <1>1, <1>2, <1>3, <1>4 DEF GrantsCounted

\* A handler ends, and leaves the sessions alone.
LEMMA DemoEnds ==
    ASSUME DemoInv, NEW c \in demoCalls, D!Finish(c), c.pc # "session",
           UNCHANGED <<demoClock, session, usage, dayLock, granted, demoIssued>>
    PROVE  DemoInv'
<1>1. demoCalls' = demoCalls \ {c}
  BY DEF D!Finish
<1>2. DemoCallsInv'
  <2>1. \A d \in demoCalls' : Timely(d)'
    BY <1>1 DEF DemoInv, DemoCallsInv, Timely, Lasting
  <2> QED BY <1>1, <2>1 DEF DemoInv, DemoCallsInv
<1>3. DayRowsHeld' /\ GrantsCounted'
  BY <1>1, CountsStay
<1> QED BY <1>2, <1>3 DEF DemoInv

LEMMA DemoCallKeeps ==
    ASSUME DemoInv, NEW c \in demoCalls,
           \/ D!LockIp(c) \/ D!CountRecent(c) \/ D!InsertSession(c)
           \/ D!ReadSession(c) \/ D!TakeFromDay(c) \/ D!TakeFromSession(c) \/ D!Ask(c) \/ D!Fail(c)
    PROVE  DemoInv'
<1>1. DemoCallsInv /\ DayRowsHeld /\ GrantsCounted /\ Timely(c) /\ IsDemoCall(c)
  BY DEF DemoInv, DemoCallsInv, Timely
<1>2. CASE D!LockIp(c)
  <2> DEFINE d == [c EXCEPT !.now = demoClock, !.pc = "check"]
  <2>1. /\ demoCalls' = (demoCalls \ {c}) \cup {d} /\ c.pc = "lock"
        /\ UNCHANGED <<demoClock, session, usage, dayLock, demoIssued, granted>>
    BY <1>2 DEF D!LockIp, D!Move
  <2>2. /\ IsDemoCall(d) /\ d.id = c.id /\ d.session = c.session /\ d.ip = c.ip
        /\ d.now = demoClock /\ d.day = c.day /\ d.since = c.since /\ d.pc = "check"
    BY <1>1 DEF IsDemoCall, DemoFields
  <2> HIDE DEF d
  <2>3. demoClock \in Nat /\ c.since <= demoClock
    BY <1>1, Numbers DEF DemoCallsInv, Timely
  <2>4. DemoCallsInv'
    BY <1>1, <2>1, <2>2, <2>3, SameRowsFit, DemoMoves
  <2>5. DayRowsHeld' /\ GrantsCounted'
    BY <2>1, <2>2, CountsStay
  <2> QED BY <2>4, <2>5 DEF DemoInv
<1>3. CASE D!CountRecent(c)
  <2>1. CASE D!Finish(c)
    BY <1>3, <2>1, DemoEnds DEF D!CountRecent
  <2>2. CASE D!Move(c, [c EXCEPT !.pc = "insert"])
    <3> DEFINE d == [c EXCEPT !.pc = "insert"]
    <3>1. /\ demoCalls' = (demoCalls \ {c}) \cup {d} /\ c.pc = "check"
          /\ UNCHANGED <<demoClock, session, usage, dayLock, demoIssued, granted>>
      BY <1>3, <2>2 DEF D!CountRecent, D!Move
    <3>2. /\ IsDemoCall(d) /\ d.id = c.id /\ d.session = c.session /\ d.ip = c.ip
          /\ d.now = c.now /\ d.day = c.day /\ d.since = c.since /\ d.pc = "insert"
      BY <1>1 DEF IsDemoCall, DemoFields
    <3> HIDE DEF d
    <3>3. c.now \in Nat /\ c.since <= c.now /\ c.now <= demoClock
      BY <1>1, <3>1 DEF Timely
    <3>4. DemoCallsInv'
      BY <1>1, <3>1, <3>2, <3>3, SameRowsFit, DemoMoves
    <3>5. DayRowsHeld' /\ GrantsCounted'
      BY <3>1, <3>2, CountsStay
    <3> QED BY <3>4, <3>5 DEF DemoInv
  <2> QED BY <1>3, <2>1, <2>2 DEF D!CountRecent
<1>4. CASE D!InsertSession(c)
  <2> DEFINE row == [state |-> "there", ip |-> c.ip, created |-> demoClock,
                     expires |-> c.now + Duration, revoked |-> 0, asked |-> 0]
  <2>1. PICK s \in D!Sessions : session[s].state = "none" /\ session' = [session EXCEPT ![s] = row]
    BY <1>4 DEF D!InsertSession
  <2>2. /\ demoCalls' = demoCalls \ {c} /\ c.pc = "insert"
        /\ UNCHANGED <<demoClock, usage, dayLock, demoIssued, granted>>
    BY <1>4 DEF D!InsertSession, D!Finish
  <2>3. demoClock \in Nat /\ c.now + Duration \in Nat /\ c.ip \in Ips
    BY <1>1, Numbers DEF DemoCallsInv, Timely
  <2>4. row \in D!Row /\ row.created = demoClock /\ row.revoked = 0 /\ row.asked = 0
        /\ row.state = "there"
    BY <2>3 DEF D!Row
  <2> HIDE DEF row
  <2>5. \A t \in D!Sessions : IF t = s THEN session'[t] = row ELSE session'[t] = session[t]
    BY <1>1, <2>1 DEF DemoCallsInv
  <2>6. session' \in [D!Sessions -> D!Row]
    BY <1>1, <2>1, <2>4 DEF DemoCallsInv
  <2>7. RowsFit
    BY <1>1, <2>2, <2>4, <2>5, <2>6 DEF RowsFit, DemoCallsInv
  <2>8. \A t \in D!Sessions : Lasts(t)
    BY <2>1, <2>5 DEF Lasts
  <2>9. \A t \in D!Sessions : session'[t].asked = session[t].asked
    BY <1>1, <2>1, <2>4, <2>5 DEF DemoCallsInv
  <2>10. demoCalls' # (demoCalls \ {c}) \cup {c}
    BY <2>2
  <2>11. DemoCallsInv'
    BY <1>1, <2>2, <2>7, <2>8, <2>10, DemoMoves
  <2>12. DayRowsHeld' /\ GrantsCounted'
    BY <2>2, <2>9, <2>10, CountsStay
  <2> QED BY <2>11, <2>12 DEF DemoInv
<1>5. CASE D!ReadSession(c)
  <2>1. /\ c.pc = "read" /\ Lasting(c.session, c.since)
        /\ UNCHANGED <<demoClock, session, usage, dayLock, demoIssued, granted>>
    BY <1>1, <1>5 DEF D!ReadSession, Timely
  <2>2. D!There(c.session)
    BY <2>1 DEF Lasting, D!There
  <2>3. CASE D!IsDemoActive(c.session)
    <3> DEFINE d == [c EXCEPT !.day = D!Today, !.since = demoClock, !.pc = "daily"]
    <3>1. demoCalls' = (demoCalls \ {c}) \cup {d}
      BY <1>5, <2>2, <2>3 DEF D!ReadSession, D!Move
    <3>2. /\ IsDemoCall(d) /\ d.id = c.id /\ d.session = c.session /\ d.ip = c.ip
          /\ d.now = c.now /\ d.day = D!Today /\ d.since = demoClock /\ d.pc = "daily"
      BY <1>1 DEF IsDemoCall, DemoFields
    <3> HIDE DEF d
    <3>3. c.now \in Nat /\ D!Today \in D!Days /\ demoClock \div Day <= D!Today
      BY <1>1, TodayIsDay DEF Timely, D!Today
    <3>4. Lasting(c.session, demoClock)
      BY <2>1, <2>3 DEF Lasting, D!IsDemoActive, D!There
    <3>5. DemoCallsInv'
      BY <1>1, <2>1, <3>1, <3>2, <3>3, <3>4, SameRowsFit, DemoMoves
    <3>6. DayRowsHeld' /\ GrantsCounted'
      BY <2>1, <3>1, <3>2, CountsStay
    <3> QED BY <3>5, <3>6 DEF DemoInv
  <2>4. CASE ~D!IsDemoActive(c.session)
    BY <1>5, <2>1, <2>2, <2>4, DemoEnds DEF D!ReadSession
  <2> QED BY <2>3, <2>4
<1>6. CASE D!TakeFromDay(c)
  <2>1. /\ c.pc = "daily" /\ Lasting(c.session, c.since) /\ c.day \in D!Days
        /\ c.since \div Day <= c.day /\ c.now \in Nat
        /\ UNCHANGED <<demoClock, session, demoIssued, granted>>
    BY <1>1, <1>6 DEF D!TakeFromDay, Timely
  <2>2. CASE D!DayHasRoom(c.day)
    <3> DEFINE d == [c EXCEPT !.now = demoClock, !.pc = "session"]
    <3>1. /\ demoCalls' = (demoCalls \ {c}) \cup {d}
          /\ dayLock[c.day] = D!NoRequest /\ usage[c.day] < DailyLimit
          /\ usage' = [usage EXCEPT ![c.day] = @ + 1]
          /\ dayLock' = [dayLock EXCEPT ![c.day] = c.id]
      BY <1>6, <2>2 DEF D!TakeFromDay, D!Move, D!DayHasRoom
    <3>2. /\ IsDemoCall(d) /\ d.id = c.id /\ d.session = c.session /\ d.ip = c.ip
          /\ d.now = demoClock /\ d.day = c.day /\ d.since = c.since /\ d.pc = "session"
      BY <1>1 DEF IsDemoCall, DemoFields
    <3> HIDE DEF d
    <3>3. demoClock \in Nat /\ c.since <= demoClock
      BY <1>1, InTime
    <3>4. DemoCallsInv'
      BY <1>1, <2>1, <3>1, <3>2, <3>3, SameRowsFit, DemoMoves
    <3>5. DayRowsHeld' /\ GrantsCounted'
      BY <2>1, <3>1, <3>2, RowTaken
    <3> QED BY <3>4, <3>5 DEF DemoInv
  <2>3. CASE ~D!DayHasRoom(c.day)
    BY <1>6, <2>1, <2>3, DemoEnds DEF D!TakeFromDay
  <2> QED BY <2>2, <2>3
<1>7. CASE D!TakeFromSession(c)
  <2>1. /\ c.pc = "session" /\ Lasting(c.session, c.since) /\ c.now \in Nat
        /\ UNCHANGED <<demoClock, demoIssued>> /\ D!UnlocksDay(c)
    BY <1>1, <1>7 DEF D!TakeFromSession, Timely
  <2>2. CASE D!SessionHasRoom(c.session, c.now)
    <3> DEFINE d == [c EXCEPT !.pc = "chat"]
    <3>1. /\ demoCalls' = (demoCalls \ {c}) \cup {d} /\ usage' = usage
          /\ granted' = granted \cup {<<c.id, c.session, c.day>>}
          /\ session' = [session EXCEPT ![c.session].asked = @ + 1]
      BY <1>7, <2>2 DEF D!TakeFromSession, D!Move
    <3>2. /\ IsDemoCall(d) /\ d.id = c.id /\ d.session = c.session /\ d.ip = c.ip
          /\ d.now = c.now /\ d.day = c.day /\ d.since = c.since /\ d.pc = "chat"
      BY <1>1 DEF IsDemoCall, DemoFields
    <3> HIDE DEF d
    <3>3. c.session \in D!Sessions
      BY <2>1 DEF Lasting
    <3>4. \A r \in D!Row :
            LET q == [r EXCEPT !.asked = @ + 1]
            IN  /\ q \in D!Row /\ q.state = r.state /\ q.created = r.created
                /\ q.expires = r.expires /\ q.revoked = r.revoked /\ q.asked = r.asked + 1
      BY DEF D!Row
    <3>5. \A s \in D!Sessions :
            /\ session'[s] \in D!Row /\ session'[s].state = session[s].state
            /\ session'[s].created = session[s].created /\ session'[s].expires = session[s].expires
            /\ session'[s].revoked = session[s].revoked
            /\ session'[s].asked = IF s = c.session THEN session[s].asked + 1 ELSE session[s].asked
      <4> SUFFICES ASSUME NEW s \in D!Sessions
                   PROVE  /\ session'[s] \in D!Row /\ session'[s].state = session[s].state
                          /\ session'[s].created = session[s].created
                          /\ session'[s].expires = session[s].expires
                          /\ session'[s].revoked = session[s].revoked
                          /\ session'[s].asked =
                                IF s = c.session THEN session[s].asked + 1 ELSE session[s].asked
        OBVIOUS
      <4>1. session[s] \in D!Row
        BY <1>1 DEF DemoCallsInv
      <4>2. CASE s = c.session
        <5>1. session'[s] = [session[s] EXCEPT !.asked = @ + 1]
          BY <1>1, <3>1, <4>2 DEF DemoCallsInv
        <5> QED BY <3>4, <4>1, <4>2, <5>1
      <4>3. CASE s # c.session
        BY <1>1, <3>1, <4>1, <4>3 DEF DemoCallsInv
      <4> QED BY <4>2, <4>3
    <3>6. session[c.session].state = "there"
      BY <2>1 DEF Lasting
    <3>7. session' \in [D!Sessions -> D!Row]
      <4>1. DOMAIN session' = D!Sessions /\ session' = [s \in D!Sessions |-> session'[s]]
        BY <1>1, <3>1 DEF DemoCallsInv
      <4> QED BY <3>5, <4>1
    <3>8. RowsFit /\ \A s \in D!Sessions : Lasts(s)
      BY <1>1, <2>1, <3>5, <3>6, <3>7 DEF RowsFit, Lasts, DemoCallsInv
    <3>9. DemoCallsInv'
      BY <1>1, <2>1, <3>1, <3>2, <3>8, DemoMoves
    <3>10. DayRowsHeld' /\ GrantsCounted'
      BY <2>1, <3>1, <3>2, <3>5, RowReleased
    <3> QED BY <3>9, <3>10 DEF DemoInv
  <2>3. CASE ~D!SessionHasRoom(c.session, c.now)
    <3>1. /\ demoCalls' = demoCalls \ {c} /\ granted' = granted /\ session' = session
          /\ usage' = D!DayAfterRollback(c)
      BY <1>7, <2>3 DEF D!TakeFromSession, D!Finish
    <3>2. DayRowsHeld' /\ GrantsCounted'
      BY <2>1, <3>1, RowReleased
    <3>3. demoCalls' # (demoCalls \ {c}) \cup {c}
      BY <3>1
    <3>4. DemoCallsInv'
      BY <1>1, <2>1, <3>1, <3>3, SameRowsFit, DemoMoves
    <3> QED BY <3>2, <3>4 DEF DemoInv
  <2> QED BY <2>2, <2>3
<1>8. CASE D!Ask(c)
  BY <1>8, DemoEnds DEF D!Ask
<1>9. CASE D!Fail(c)
  <2>1. /\ demoCalls' = demoCalls \ {c} /\ granted' = granted /\ session' = session
        /\ usage' = D!DayAfterRollback(c) /\ UNCHANGED <<demoClock, demoIssued>>
        /\ D!UnlocksDay(c)
    BY <1>9 DEF D!Fail, D!Finish
  <2>2. CASE c.pc = "session"
    <3>1. DayRowsHeld' /\ GrantsCounted'
      BY <2>1, <2>2, RowReleased
    <3>2. demoCalls' # (demoCalls \ {c}) \cup {c}
      BY <2>1
    <3>3. DemoCallsInv'
      BY <1>1, <2>1, <3>2, SameRowsFit, DemoMoves
    <3> QED BY <3>1, <3>3 DEF DemoInv
  <2>3. CASE c.pc # "session"
    <3>1. usage' = usage
      BY <2>1, <2>3 DEF D!DayAfterRollback
    <3>2. dayLock' = dayLock
      <4>1. \A d \in D!Days : dayLock[d] # c.id
        BY <2>3, RowsOf
      <4>2. dayLock' = [d \in D!Days |-> dayLock[d]]
        BY <2>1, <4>1 DEF D!UnlocksDay
      <4> QED BY <1>1, <4>2 DEF DayRowsHeld
    <3>3. D!Finish(c)
      BY <1>9 DEF D!Fail
    <3> QED BY <2>1, <2>3, <3>1, <3>2, <3>3, DemoEnds
  <2> QED BY <2>2, <2>3
<1> QED BY <1>2, <1>3, <1>4, <1>5, <1>6, <1>7, <1>8, <1>9

\* A request comes.
LEMMA DemoComes ==
    ASSUME DemoInv, NEW c, D!Issue(c), IsDemoCall(c), c.id = demoIssued + 1, c.ip \in Ips,
           c.since = demoClock, c.now = 0, c.pc \in {"lock", "read"},
           c.pc = "read" => Lasting(c.session, c.since)
    PROVE  DemoInv'
<1>1. /\ demoCalls' = demoCalls \cup {c} /\ demoIssued' = demoIssued + 1
      /\ UNCHANGED <<demoClock, session, usage, dayLock, granted>>
  BY DEF D!Issue
<1>2. demoClock \in Nat /\ demoIssued \in Nat /\ Day \in Nat /\ Timeout \in Nat
  BY Numbers DEF DemoInv, DemoCallsInv
<1>3. DemoCallsInv'
  <2>1. Timely(c)'
    BY <1>1, <1>2 DEF Timely, Lasting
  <2>2. \A d \in demoCalls : Timely(d)' /\ d.id # c.id
    BY <1>1, <1>2 DEF DemoInv, DemoCallsInv, Timely, Lasting
  <2> QED BY <1>1, <1>2, <2>1, <2>2 DEF DemoInv, DemoCallsInv
<1>4. DayRowsHeld'
  BY <1>1 DEF DemoInv, DayRowsHeld
<1>5. GrantsCounted'
  <2>1. D!Today' = D!Today
    BY <1>1 DEF D!Today
  <2>2. \A g \in granted : g[1] # c.id /\ g[1] \in 1 .. demoIssued'
    BY <1>1, <1>2 DEF DemoInv, GrantsCounted
  <2> QED BY <1>1, <2>1, <2>2 DEF DemoInv, GrantsCounted
<1> QED BY <1>3, <1>4, <1>5 DEF DemoInv

\* The rows of sessions change, but not what they count, and not under a question.
LEMMA SessionsEnd ==
    ASSUME DemoInv, UNCHANGED <<demoClock, demoCalls, demoIssued, dayLock, granted>>,
           RowsFit, \A s \in D!Sessions : session'[s].asked = session[s].asked,
           \A c \in demoCalls : c.pc \in {"read", "daily", "session"} => Lasting(c.session, c.since)',
           usage' \in [D!Days -> Nat],
           \A d \in D!Days : /\ D!Today - d <= KeepDays => usage'[d] = usage[d]
                             /\ usage'[d] <= DailyLimit
    PROVE  DemoInv'
<1>1. DemoCallsInv'
  <2>1. \A d \in demoCalls : Timely(d)'
    BY DEF DemoInv, DemoCallsInv, Timely
  <2> QED BY <2>1 DEF DemoInv, DemoCallsInv, RowsFit
<1>2. DayRowsHeld'
  BY DEF DemoInv, DayRowsHeld
<1>3. D!Today' = D!Today
  BY DEF D!Today
<1>4. GrantsCounted'
  BY <1>3 DEF DemoInv, GrantsCounted
<1> QED BY <1>1, <1>2, <1>4 DEF DemoInv

LEMMA RevokeKeeps ==
    ASSUME DemoInv, NEW s \in D!Sessions, D!Revoke(s)
    PROVE  DemoInv'
<1> DEFINE row == [session[s] EXCEPT !.revoked = demoClock]
<1>1. session' = [session EXCEPT ![s] = row] /\ D!IsDemoActive(s)
  BY DEF D!Revoke
<1>2. UNCHANGED <<demoClock, demoCalls, demoIssued, dayLock, granted, usage>>
  BY DEF D!Revoke
<1>3. session[s] \in D!Row /\ demoClock \in Nat /\ session \in [D!Sessions -> D!Row]
  BY Numbers DEF DemoInv, DemoCallsInv
<1>4. /\ row \in D!Row /\ row.state = session[s].state /\ row.created = session[s].created
      /\ row.expires = session[s].expires /\ row.asked = session[s].asked /\ row.revoked = demoClock
  BY <1>3 DEF D!Row
<1> HIDE DEF row
<1>5. /\ session' \in [D!Sessions -> D!Row]
      /\ \A t \in D!Sessions : session'[t] = IF t = s THEN row ELSE session[t]
  BY <1>1, <1>3, <1>4
<1>6. RowsFit /\ \A t \in D!Sessions : session'[t].asked = session[t].asked
  BY <1>2, <1>4, <1>5 DEF RowsFit, DemoInv, DemoCallsInv
<1>7. ASSUME NEW c \in demoCalls, c.pc \in {"read", "daily", "session"}
      PROVE  Lasting(c.session, c.since)'
  <2>1. Lasting(c.session, c.since) /\ c.since <= demoClock
    BY <1>7 DEF DemoInv, DemoCallsInv, Timely
  <2> QED BY <1>4, <1>5, <2>1 DEF Lasting
<1> QED BY <1>2, <1>6, <1>7, SessionsEnd DEF DemoInv, DayRowsHeld

LEMMA CleanupKeeps ==
    ASSUME DemoInv, D!Cleanup
    PROVE  DemoInv'
<1> USE DEF DemoInv
<1>1. PICK S \in SUBSET {s \in D!Sessions : D!Dead(s)} :
         session' = [s \in D!Sessions |-> IF s \in S THEN [session[s] EXCEPT !.state = "purged"]
                                          ELSE session[s]]
  BY DEF D!Cleanup
<1>2. /\ UNCHANGED <<demoClock, demoCalls, demoIssued, dayLock, granted>>
      /\ usage' = [d \in D!Days |-> IF D!Today - d > KeepDays THEN 0 ELSE usage[d]]
  BY DEF D!Cleanup
<1>3. \A s \in D!Sessions :
        /\ session'[s] \in D!Row /\ session'[s].created = session[s].created
        /\ session'[s].expires = session[s].expires /\ session'[s].revoked = session[s].revoked
        /\ session'[s].asked = session[s].asked
        /\ session'[s].state = IF s \in S THEN "purged" ELSE session[s].state
  <2> SUFFICES ASSUME NEW s \in D!Sessions
               PROVE  /\ session'[s] \in D!Row /\ session'[s].created = session[s].created
                      /\ session'[s].expires = session[s].expires
                      /\ session'[s].revoked = session[s].revoked
                      /\ session'[s].asked = session[s].asked
                      /\ session'[s].state = IF s \in S THEN "purged" ELSE session[s].state
    OBVIOUS
  <2>1. session[s] \in D!Row
    BY DEF DemoCallsInv
  <2>2. session'[s] = IF s \in S THEN [session[s] EXCEPT !.state = "purged"] ELSE session[s]
    BY <1>1
  <2> QED BY <2>1, <2>2 DEF D!Row
<1>4. session' \in [D!Sessions -> D!Row]
  <2>1. session' = [s \in D!Sessions |-> session'[s]]
    BY <1>1
  <2> QED BY <1>3, <2>1
<1>5. RowsFit
  BY <1>2, <1>3, <1>4 DEF RowsFit, DemoCallsInv
<1>6. ASSUME NEW c \in demoCalls, c.pc \in {"read", "daily", "session"}
      PROVE  Lasting(c.session, c.since)'
  <2>1. /\ Lasting(c.session, c.since) /\ c.since \in Nat /\ demoClock \in Nat /\ Day \in Nat
        /\ demoClock <= c.since + Day /\ session[c.session] \in D!Row
    BY <1>6, Numbers, InTime DEF DemoCallsInv, Timely, Lasting
  <2>2. session[c.session].expires \in Nat /\ session[c.session].revoked \in Nat
    BY <2>1 DEF D!Row
  <2>3. ~D!Dead(c.session)
    BY <2>1, <2>2 DEF Lasting, D!Dead
  <2>4. c.session \notin S
    BY <2>3
  <2> QED BY <1>3, <2>1, <2>4 DEF Lasting
<1>7. D!Today \in Nat /\ KeepDays \in Nat /\ DailyLimit \in Nat /\ D!Days \subseteq Int
  <2>1. MaxTime \div Day \in Nat
    BY DivBounds, Numbers
  <2> QED BY <2>1, TodayIsDay, Numbers DEF D!Days
<1>8. usage' \in [D!Days -> Nat]
  BY <1>2 DEF DayRowsHeld
<1>9. \A d \in D!Days : /\ D!Today - d <= KeepDays => usage'[d] = usage[d]
                        /\ usage'[d] <= DailyLimit
  <2> SUFFICES ASSUME NEW d \in D!Days
               PROVE  /\ D!Today - d <= KeepDays => usage'[d] = usage[d]
                      /\ usage'[d] <= DailyLimit
    OBVIOUS
  <2>1. usage'[d] = IF D!Today - d > KeepDays THEN 0 ELSE usage[d]
    BY <1>2
  <2>2. usage[d] <= DailyLimit
    BY DEF DayRowsHeld
  <2>3. D!Today - d \in Int
    BY <1>7
  <2> QED BY <1>7, <2>1, <2>2, <2>3
<1> QED BY <1>2, <1>3, <1>5, <1>6, <1>8, <1>9, SessionsEnd

LEMMA TickKeeps ==
    ASSUME DemoInv, D!Tick
    PROVE  DemoInv'
<1> USE DEF DemoInv
<1>1. /\ demoClock' = demoClock + 1 /\ demoClock < MaxTime
      /\ \A c \in demoCalls :
            demoClock < c.since + (IF c.pc \in {"read", "chat"} THEN Day ELSE Timeout)
      /\ UNCHANGED <<session, usage, dayLock, demoCalls, demoIssued, granted>>
  BY DEF D!Tick, D!TimeFor
<1>2. /\ demoClock \in Nat /\ demoClock >= 1 /\ MaxTime \in Nat
      /\ Day \in Nat \ {0} /\ Timeout \in Nat
  BY Numbers DEF DemoCallsInv
<1>3. DemoCallsInv'
  <2>1. \A d \in demoCalls : Timely(d)'
    BY <1>1, <1>2 DEF DemoCallsInv, Timely, Lasting
  <2>2. \A s \in D!Sessions : session[s].created <= demoClock'
    BY <1>1, <1>2 DEF DemoCallsInv, D!Row
  <2> QED BY <1>1, <1>2, <2>1, <2>2 DEF DemoCallsInv
<1>4. DayRowsHeld'
  BY <1>1 DEF DayRowsHeld
<1>5. GrantsCounted'
  <2>1. D!Today \in Nat /\ D!Today' \in Nat /\ D!Today <= D!Today'
    <3>1. demoClock \div Day <= (demoClock + 1) \div Day
      BY <1>2, DivGrows
    <3>2. demoClock \div Day \in Nat /\ (demoClock + 1) \div Day \in Nat
      BY <1>2, DivBounds
    <3> QED BY <1>1, <3>1, <3>2 DEF D!Today
  <2>2. KeepDays \in Nat /\ D!Days \subseteq Int
    <3>1. MaxTime \div Day \in Nat
      BY DivBounds, Numbers
    <3> QED BY <3>1, Numbers DEF D!Days
  <2>3. ASSUME NEW d \in D!Days, D!Today' - d <= KeepDays
        PROVE  D!Today - d <= KeepDays
    <3>1. \A t, u \in Nat, k \in Int : t <= u /\ u - k <= KeepDays => t - k <= KeepDays
      BY <2>2
    <3>2. d \in Int
      BY <2>2
    <3> QED BY <2>1, <2>3, <3>1, <3>2
  <2>4. ASSUME NEW d \in D!Days, D!Today' - d <= KeepDays
        PROVE  usage[d] = Cardinality(OfDay(granted, d)) + (IF dayLock[d] = D!NoRequest THEN 0 ELSE 1)
    BY <2>3, <2>4 DEF GrantsCounted
  <2> QED BY <1>1, <2>4 DEF GrantsCounted
<1> QED BY <1>3, <1>4, <1>5

LEMMA NextDemo == DemoInv /\ [D!Next]_(D!vars) => DemoInv'
<1> SUFFICES ASSUME DemoInv, [D!Next]_(D!vars) PROVE DemoInv'
  OBVIOUS
<1>1. CASE UNCHANGED D!vars
  <2>1. UNCHANGED <<demoClock, session, usage, dayLock, demoCalls, demoIssued, granted>>
    BY <1>1 DEF D!vars
  <2> QED BY <2>1 DEF DemoInv, DemoCallsInv, Timely, Lasting, DayRowsHeld, GrantsCounted, D!Today
<1>2. ASSUME NEW i \in Ips, D!StartCreate(i)
      PROVE  DemoInv'
  <2> DEFINE c == [id |-> demoIssued + 1, session |-> D!NoSession, ip |-> i, now |-> 0, day |-> 0,
                   since |-> demoClock, pc |-> "lock"]
  <2>1. D!Issue(c)
    BY <1>2 DEF D!StartCreate
  <2>2. /\ IsDemoCall(c) /\ c.id = demoIssued + 1 /\ c.ip = i /\ c.since = demoClock /\ c.now = 0
        /\ c.pc = "lock"
    BY DEF IsDemoCall, DemoFields
  <2> HIDE DEF c
  <2> QED BY <2>1, <2>2, DemoComes
<1>3. ASSUME NEW s \in D!Sessions, D!StartQuestion(s)
      PROVE  DemoInv'
  <2> DEFINE c == [id |-> demoIssued + 1, session |-> s, ip |-> session[s].ip, now |-> 0, day |-> 0,
                   since |-> demoClock, pc |-> "read"]
  <2>1. D!Issue(c) /\ D!IsDemoActive(s)
    BY <1>3 DEF D!StartQuestion
  <2>2. /\ IsDemoCall(c) /\ c.id = demoIssued + 1 /\ c.ip = session[s].ip /\ c.since = demoClock
        /\ c.now = 0 /\ c.pc = "read" /\ c.session = s
    BY DEF IsDemoCall, DemoFields
  <2> HIDE DEF c
  <2>3. session[s].ip \in Ips
    BY DEF DemoInv, DemoCallsInv, D!Row
  <2>4. Lasting(s, demoClock)
    BY <2>1 DEF Lasting, D!IsDemoActive, D!There
  <2> QED BY <2>1, <2>2, <2>3, <2>4, DemoComes
<1> QED BY <1>1, <1>2, <1>3, DemoCallKeeps, RevokeKeeps, CleanupKeeps, TickKeeps DEF D!Next

LEMMA PartsDemo == PartsSpec => []DemoInv
<1>1. PartsInit => DemoInv
  BY InitDemo DEF PartsInit
<1>2. DemoInv /\ [PartsNext]_partsVars => DemoInv'
  <2>1. [PartsNext]_partsVars => [D!Next]_(D!vars)
    BY DEF PartsNext, partsVars, demoVars, D!vars
  <2> QED BY <2>1, NextDemo
<1> QED BY <1>1, <1>2, PTL DEF PartsSpec, partsVars

(***************************************************************************)
(* What a day and a session have counted is what was granted, but for the  *)
(* reservation under way, and no day grants more than its budget           *)
(* (reserveQuestion), whatever the limits, the days and the sessions.      *)
(***************************************************************************)
THEOREM BudgetsAreExact == PartsSpec => []BudgetIsExact
<1>1. DemoInv => BudgetIsExact
  <2> SUFFICES ASSUME DemoInv PROVE BudgetIsExact
    OBVIOUS
  <2>1. \A v : /\ D!Cardinality({g \in granted : g[3] = v}) = Cardinality(OfDay(granted, v))
               /\ D!Cardinality({g \in granted : g[2] = v}) = Cardinality(OfSession(granted, v))
    BY DemoCardinality DEF OfDay, OfSession
  <2>2. ASSUME NEW d \in D!Days, D!Today - d <= KeepDays
        PROVE  usage[d] = D!Cardinality({g \in granted : g[3] = d})
                            + (IF dayLock[d] = D!NoRequest THEN 0 ELSE 1)
    BY <2>1, <2>2 DEF DemoInv, GrantsCounted
  <2>3. \A s \in D!Sessions : session[s].asked = D!Cardinality({g \in granted : g[2] = s})
    BY <2>1 DEF DemoInv, GrantsCounted
  <2>4. \A d \in D!Days : D!Cardinality({g \in granted : g[3] = d}) <= DailyLimit
    BY <2>1 DEF DemoInv, GrantsCounted
  <2> QED BY <2>2, <2>3, <2>4 DEF BudgetIsExact, D!BudgetIsExact
<1> QED BY <1>1, PartsDemo, PTL

(***************************************************************************)
(* A question reaches the chat only when it was counted, at a moment its   *)
(* session was neither revoked nor expired: no request takes a day, so the *)
(* session of a question is not purged under it, and a missing session     *)
(* never lets a demo user through uncounted (reserveQuestion).             *)
(***************************************************************************)
THEOREM NobodyAsksUncounted == PartsSpec => AskedWhileActive
<1> DEFINE Active == \A c \in demoCalls' : c.pc = "chat" /\ c \notin demoCalls =>
           /\ D!There(c.session) /\ session[c.session].revoked = 0
           /\ session[c.session].expires + Timeout > demoClock
           /\ \E g \in granted' : g[1] = c.id
<1>1. ASSUME DemoInv, [PartsNext]_partsVars
      PROVE  Active
  <2> SUFFICES ASSUME NEW c \in demoCalls', c.pc = "chat", c \notin demoCalls
               PROVE  /\ D!There(c.session) /\ session[c.session].revoked = 0
                      /\ session[c.session].expires + Timeout > demoClock
                      /\ \E g \in granted' : g[1] = c.id
    OBVIOUS
  <2>1. [D!Next]_(D!vars)
    BY <1>1 DEF PartsNext, partsVars, demoVars, D!vars
  <2>2. \A b \in demoCalls : IsDemoCall(b) /\ (b.pc = "read" => D!There(b.session))
    BY <1>1 DEF DemoInv, DemoCallsInv, Timely, Lasting, D!There
  <2>3. PICK b \in demoCalls : D!TakeFromSession(b)
    <3>1. \A b \in demoCalls : \A p, v, w :
            /\ [b EXCEPT !.pc = p].pc = p /\ [b EXCEPT !.now = v, !.pc = p].pc = p
            /\ [b EXCEPT !.day = v, !.since = w, !.pc = p].pc = p
      <4> SUFFICES ASSUME NEW b \in demoCalls, NEW p, NEW v, NEW w
                   PROVE  /\ [b EXCEPT !.pc = p].pc = p /\ [b EXCEPT !.now = v, !.pc = p].pc = p
                          /\ [b EXCEPT !.day = v, !.since = w, !.pc = p].pc = p
        OBVIOUS
      <4> QED BY <2>2 DEF IsDemoCall, DemoFields
    <3>2. ~UNCHANGED demoCalls
      OBVIOUS
    <3>3. \A i : ~D!StartCreate(i) /\ ~D!StartQuestion(i)
      BY DEF D!StartCreate, D!StartQuestion, D!Issue
    <3>4. ASSUME NEW b \in demoCalls
          PROVE  ~D!LockIp(b) /\ ~D!CountRecent(b) /\ ~D!ReadSession(b) /\ ~D!TakeFromDay(b)
      <4>0. \A d : d.pc # "chat" => ~D!Move(b, d)
        BY DEF D!Move
      <4>1. /\ ~D!Finish(b)
            /\ \A p, v, w : p # "chat" => /\ ~D!Move(b, [b EXCEPT !.pc = p])
                                      /\ ~D!Move(b, [b EXCEPT !.now = v, !.pc = p])
                                      /\ ~D!Move(b, [b EXCEPT !.day = v, !.since = w, !.pc = p])
        <5>1. ~D!Finish(b)
          BY DEF D!Finish
        <5>2. ASSUME NEW p, NEW v, NEW w, p # "chat"
              PROVE  /\ ~D!Move(b, [b EXCEPT !.pc = p])
                     /\ ~D!Move(b, [b EXCEPT !.now = v, !.pc = p])
                     /\ ~D!Move(b, [b EXCEPT !.day = v, !.since = w, !.pc = p])
          <6>1. [b EXCEPT !.pc = p].pc # "chat"
            BY <3>1, <5>2
          <6>2. [b EXCEPT !.now = v, !.pc = p].pc # "chat"
            BY <3>1, <5>2
          <6>3. [b EXCEPT !.day = v, !.since = w, !.pc = p].pc # "chat"
            BY <3>1, <5>2
          <6> QED BY <4>0, <6>1, <6>2, <6>3
        <5> QED BY <5>1, <5>2
      <4>2. ~D!LockIp(b)
        <5>1. ~D!Move(b, [b EXCEPT !.now = demoClock, !.pc = "check"])
          BY <4>1
        <5> QED BY <5>1 DEF D!LockIp
      <4>3. ~D!CountRecent(b)
        BY <4>1 DEF D!CountRecent
      <4>4. ~D!ReadSession(b)
        <5>1. ~D!Move(b, [b EXCEPT !.day = D!Today, !.since = demoClock, !.pc = "daily"])
          BY <4>1
        <5>2. b.pc = "read" => D!There(b.session)
          BY <2>2
        <5> QED BY <4>1, <5>1, <5>2 DEF D!ReadSession
      <4>5. ~D!TakeFromDay(b)
        <5>1. ~D!Move(b, [b EXCEPT !.now = demoClock, !.pc = "session"])
          BY <4>1
        <5> QED BY <4>1, <5>1 DEF D!TakeFromDay
      <4> QED BY <4>2, <4>3, <4>4, <4>5
    <3>5. ASSUME NEW b \in demoCalls
          PROVE  ~D!InsertSession(b) /\ ~D!Ask(b) /\ ~D!Fail(b)
      BY DEF D!InsertSession, D!Ask, D!Fail, D!Finish
    <3>6. (\A s : ~D!Revoke(s)) /\ ~D!Cleanup /\ ~D!Tick
      BY <3>2 DEF D!Revoke, D!Cleanup, D!Tick
    <3> QED BY <2>1, <3>2, <3>3, <3>4, <3>5, <3>6 DEF D!Next, D!vars
  <2>4. /\ c = [b EXCEPT !.pc = "chat"] /\ D!SessionHasRoom(b.session, b.now)
        /\ <<b.id, b.session, b.day>> \in granted'
    BY <2>3 DEF D!TakeFromSession, D!Move, D!Finish
  <2>5. c.session = b.session /\ c.id = b.id
    BY <2>2, <2>4 DEF IsDemoCall, DemoFields
  <2>6. /\ D!There(b.session) /\ session[b.session].revoked = 0
        /\ session[b.session].expires > b.now
    BY <2>4 DEF D!SessionHasRoom
  <2>7. b.pc = "session" /\ b.session \in D!Sessions /\ b.now \in Nat /\ b.since <= b.now
    BY <1>1, <2>3 DEF D!TakeFromSession, DemoInv, DemoCallsInv, Timely, Lasting
  <2>8. /\ b.since \in Nat /\ demoClock \in Nat /\ Timeout \in Nat
        /\ demoClock <= b.since + Timeout /\ session[b.session].expires \in Nat
    BY <1>1, <2>7, InTime, Numbers DEF DemoInv, DemoCallsInv, D!Row
  <2>9. session[b.session].expires + Timeout > demoClock
    BY <2>6, <2>7, <2>8
  <2> QED BY <2>4, <2>5, <2>6, <2>9
<1>2. DemoInv /\ [PartsNext]_partsVars => [Active]_(D!vars)
  BY <1>1
<1> QED BY <1>2, PartsDemo, PTL DEF PartsSpec, partsVars, AskedWhileActive, D!AskedWhileActive

-----------------------------------------------------------------------------
(* The sessions of an address.  The lock of the address is held from the   *)
(* count to the insert, and a session that the count misses because it was *)
(* purged is too old to matter: it has lain dead for a day, which is more  *)
(* than an hour and the time its creation took.                            *)

Young(i, window) == D!CreatedAfter(i, demoClock - window)

PurgedIsOld ==
    \A s \in D!Sessions :
        /\ session[s].state = "there" => session[s].created <= session[s].expires + Timeout
        /\ session[s].state = "purged" => session[s].created + Hour <= demoClock

IpLocked ==
    /\ ipLock \in [Ips -> Nat]
    /\ \A c \in demoCalls : c.pc \in {"check", "insert"} => ipLock[c.ip] = c.id

RoomToInsert ==
    \A c \in demoCalls : c.pc = "insert" =>
        /\ Cardinality(Young(c.ip, Hour)) < PerHour
        /\ Cardinality(Young(c.ip, Minute)) < PerMinute

WithinLimits ==
    \A i \in Ips : /\ Cardinality(Young(i, Hour)) <= PerHour
                   /\ Cardinality(Young(i, Minute)) <= PerMinute

LimitInv == PurgedIsOld /\ IpLocked /\ RoomToInsert /\ WithinLimits

LEMMA YoungIsFinite ==
    ASSUME NEW i, NEW window
    PROVE  IsFiniteSet(Young(i, window)) /\ Cardinality(Young(i, window)) \in Nat
<1>1. Young(i, window) \in SUBSET D!Sessions
  BY DEF Young, D!CreatedAfter
<1>2. MaxSessions \in Int /\ 1 \in Int
  BY Numbers
<1>3. IsFiniteSet(D!Sessions)
  BY <1>2, FS_Interval DEF D!Sessions
<1> QED BY <1>1, <1>3, FS_Subset, FS_CardinalityType

LEMMA InitLimit == D!Init => LimitInv
<1> SUFFICES ASSUME D!Init PROVE LimitInv
  OBVIOUS
<1> DEFINE Blank(i) == [state |-> "none", ip |-> i, created |-> 0, expires |-> 0,
                        revoked |-> 0, asked |-> 0]
<1>1. \A i \in Ips : Blank(i).state = "none"
  OBVIOUS
<1>2. session \in [D!Sessions -> {Blank(i) : i \in Ips}]
  BY DEF D!Init
<1> HIDE DEF Blank
<1>3. \A s \in D!Sessions : session[s].state = "none"
  BY <1>1, <1>2
<1>4. \A i, w : Young(i, w) = {}
  BY <1>3 DEF Young, D!CreatedAfter
<1>5. PerHour \in Nat /\ PerMinute \in Nat /\ Cardinality({}) = 0
  BY Numbers, FS_EmptySet
<1>6. WithinLimits
  BY <1>4, <1>5 DEF WithinLimits
<1>7. PurgedIsOld
  BY <1>3 DEF PurgedIsOld
<1>8. IpLocked /\ RoomToInsert
  BY DEF D!Init, IpLocked, RoomToInsert, D!NoRequest
<1> QED BY <1>6, <1>7, <1>8 DEF LimitInv

\* No session is added, and who inserts has done the count before.
LEMMA LimitsStay ==
    ASSUME LimitInv, DemoCallsInv, IpLocked', demoClock' \in Nat, demoClock <= demoClock',
           \A s \in D!Sessions :
              /\ session'[s].ip = session[s].ip /\ session'[s].created = session[s].created
              /\ session'[s].expires = session[s].expires
              /\ session'[s].state = "none" <=> session[s].state = "none"
              /\ session'[s].state = "there" => session[s].state = "there"
              /\ session'[s].state = "purged" => session[s].created + Hour <= demoClock',
           \A c \in demoCalls' : c.pc = "insert" =>
              \/ \E b \in demoCalls : b.pc = "insert" /\ b.ip = c.ip
              \/ /\ Cardinality(Young(c.ip, Hour)) < PerHour
                 /\ Cardinality(Young(c.ip, Minute)) < PerMinute
    PROVE  LimitInv'
<1> USE DEF LimitInv
<1>1. demoClock \in Nat /\ Hour \in Nat /\ Minute \in Nat /\ PerHour \in Nat /\ PerMinute \in Nat
  BY Numbers DEF DemoCallsInv
<1>2. \A s \in D!Sessions : session[s].created \in Nat /\ session[s].expires \in Nat
  BY DEF DemoCallsInv, D!Row
<1>3. ASSUME NEW i, NEW w \in Nat
      PROVE  Cardinality(Young(i, w)') <= Cardinality(Young(i, w)) /\ Cardinality(Young(i, w)') \in Nat
  <2>1. Young(i, w)' \in SUBSET Young(i, w)
    BY <1>1, <1>2 DEF Young, D!CreatedAfter
  <2> QED BY <2>1, YoungIsFinite, FS_Subset, FS_CardinalityType
<1>4. PurgedIsOld'
  BY DEF PurgedIsOld
<1>5. RoomToInsert'
  <2> SUFFICES ASSUME NEW c \in demoCalls', c.pc = "insert"
               PROVE  /\ Cardinality(Young(c.ip, Hour)') < PerHour
                      /\ Cardinality(Young(c.ip, Minute)') < PerMinute
    BY DEF RoomToInsert
  <2>1. /\ Cardinality(Young(c.ip, Hour)) < PerHour
        /\ Cardinality(Young(c.ip, Minute)) < PerMinute
    BY DEF RoomToInsert
  <2>2. /\ Cardinality(Young(c.ip, Hour)') <= Cardinality(Young(c.ip, Hour))
        /\ Cardinality(Young(c.ip, Minute)') <= Cardinality(Young(c.ip, Minute))
        /\ Cardinality(Young(c.ip, Hour)') \in Nat /\ Cardinality(Young(c.ip, Minute)') \in Nat
    BY <1>1, <1>3
  <2>3. Cardinality(Young(c.ip, Hour)) \in Nat /\ Cardinality(Young(c.ip, Minute)) \in Nat
    BY YoungIsFinite
  <2> QED BY <1>1, <2>1, <2>2, <2>3
<1>6. WithinLimits'
  <2> SUFFICES ASSUME NEW i \in Ips
               PROVE  /\ Cardinality(Young(i, Hour)') <= PerHour
                      /\ Cardinality(Young(i, Minute)') <= PerMinute
    BY DEF WithinLimits
  <2>1. Cardinality(Young(i, Hour)) <= PerHour /\ Cardinality(Young(i, Minute)) <= PerMinute
    BY DEF WithinLimits
  <2>2. /\ Cardinality(Young(i, Hour)') <= Cardinality(Young(i, Hour))
        /\ Cardinality(Young(i, Minute)') <= Cardinality(Young(i, Minute))
        /\ Cardinality(Young(i, Hour)') \in Nat /\ Cardinality(Young(i, Minute)') \in Nat
    BY <1>1, <1>3
  <2>3. Cardinality(Young(i, Hour)) \in Nat /\ Cardinality(Young(i, Minute)) \in Nat
    BY YoungIsFinite
  <2> QED BY <1>1, <2>1, <2>2, <2>3
<1> QED BY <1>4, <1>5, <1>6

\* The sessions as they are fit LimitsStay.
LEMMA SameSessions ==
    ASSUME LimitInv, DemoCallsInv, UNCHANGED <<demoClock, session>>
    PROVE  /\ demoClock' \in Nat /\ demoClock <= demoClock'
           /\ \A s \in D!Sessions :
              /\ session'[s].ip = session[s].ip /\ session'[s].created = session[s].created
              /\ session'[s].expires = session[s].expires
              /\ session'[s].state = "none" <=> session[s].state = "none"
              /\ session'[s].state = "there" => session[s].state = "there"
              /\ session'[s].state = "purged" => session[s].created + Hour <= demoClock'
BY Numbers DEF LimitInv, DemoCallsInv, PurgedIsOld

\* A handler that ends gives its lock back; the others keep theirs.
LEMMA LockReleased ==
    ASSUME LimitInv, DemoCallsInv, NEW c \in demoCalls, D!Finish(c),
           ipLock' = ipLock \/ D!UnlocksIp(c)
    PROVE  IpLocked'
<1>1. demoCalls' = demoCalls \ {c}
  BY DEF D!Finish
<1>2. \A d \in demoCalls' : d \in demoCalls /\ d.id # c.id /\ d.ip \in Ips
  BY <1>1 DEF DemoCallsInv, Timely
<1>3. CASE ipLock' = ipLock
  BY <1>2, <1>3 DEF LimitInv, IpLocked
<1>4. CASE D!UnlocksIp(c)
  BY <1>2, <1>4 DEF LimitInv, IpLocked, D!UnlocksIp, D!NoRequest
<1> QED BY <1>3, <1>4

LEMMA LimitEnds ==
    ASSUME LimitInv, DemoCallsInv, NEW c \in demoCalls, D!Finish(c),
           ipLock' = ipLock \/ D!UnlocksIp(c), UNCHANGED <<demoClock, session>>
    PROVE  LimitInv'
<1>1. IpLocked'
  BY LockReleased
<1>2. demoCalls' \subseteq demoCalls
  BY DEF D!Finish
<1> QED BY <1>1, <1>2, SameSessions, LimitsStay

\* A question moves on.
LEMMA LimitMoves ==
    ASSUME LimitInv, DemoCallsInv, NEW c \in demoCalls, NEW c2,
           demoCalls' = (demoCalls \ {c}) \cup {c2}, c2.pc \notin {"check", "insert"},
           UNCHANGED <<demoClock, ipLock>>,
           \A s \in D!Sessions :
              /\ session'[s].ip = session[s].ip /\ session'[s].created = session[s].created
              /\ session'[s].expires = session[s].expires
              /\ session'[s].state = session[s].state
    PROVE  LimitInv'
<1>1. IpLocked'
  BY DEF LimitInv, IpLocked
<1>2. \A d \in demoCalls' : d.pc = "insert" => d \in demoCalls
  OBVIOUS
<1>3. demoClock' \in Nat /\ demoClock <= demoClock'
  BY Numbers DEF DemoCallsInv
<1>4. \A s \in D!Sessions : session'[s].state = "purged" => session[s].created + Hour <= demoClock'
  BY DEF LimitInv, PurgedIsOld
<1> QED BY <1>1, <1>2, <1>3, <1>4, LimitsStay

\* What was counted was all there is to count.
LEMMA CountIsEnough ==
    ASSUME LimitInv, DemoCallsInv, NEW c \in demoCalls, c.pc = "check", NEW w \in Nat, w <= Hour
    PROVE  Cardinality(Young(c.ip, w)) <= Cardinality(D!Recent(c, w))
<1>1. /\ demoClock \in Nat /\ Hour \in Nat /\ c.now \in Nat /\ c.now <= demoClock
  BY Numbers DEF DemoCallsInv, Timely
<1>2. ASSUME NEW s \in Young(c.ip, w)
      PROVE  s \in D!Recent(c, w)
  <2>1. /\ s \in D!Sessions /\ session[s] \in D!Row /\ session[s].state # "none"
        /\ session[s].ip = c.ip /\ session[s].created > demoClock - w
    BY <1>2 DEF Young, D!CreatedAfter, DemoCallsInv
  <2>2. session[s].created \in Nat /\ session[s].state \in {"there", "purged"}
    BY <2>1 DEF D!Row
  <2>3. session[s].state # "purged"
    BY <1>1, <2>1, <2>2 DEF LimitInv, PurgedIsOld
  <2>4. session[s].created > c.now - w
    BY <1>1, <2>1, <2>2
  <2> QED BY <2>1, <2>2, <2>3, <2>4 DEF D!Recent, D!CreatedAfter, D!There
<1>3. Young(c.ip, w) \in SUBSET D!Recent(c, w)
  BY <1>2
<1>4. D!Recent(c, w) \in SUBSET (1 .. MaxSessions) /\ IsFiniteSet(1 .. MaxSessions)
  BY Numbers, FS_Interval DEF D!Recent, D!CreatedAfter, D!Sessions
<1> QED BY <1>3, <1>4, FS_Subset

LEMMA InsertKeepsLimit ==
    ASSUME LimitInv, DemoInv, NEW c \in demoCalls, D!InsertSession(c)
    PROVE  LimitInv'
<1> DEFINE row == [state |-> "there", ip |-> c.ip, created |-> demoClock,
                   expires |-> c.now + Duration, revoked |-> 0, asked |-> 0]
<1>1. PICK s \in D!Sessions : session[s].state = "none" /\ session' = [session EXCEPT ![s] = row]
  BY DEF D!InsertSession
<1>2. /\ demoCalls' = demoCalls \ {c} /\ c.pc = "insert" /\ D!Finish(c) /\ D!UnlocksIp(c)
      /\ demoClock' = demoClock
  BY DEF D!InsertSession, D!Finish
<1>3. /\ demoClock \in Nat /\ c.since \in Nat /\ c.now \in Nat /\ c.since <= c.now
      /\ demoClock <= c.since + Timeout /\ Duration \in Nat /\ Timeout \in Nat /\ Hour \in Nat
      /\ Minute \in Nat /\ PerHour \in Nat /\ PerMinute \in Nat
      /\ session \in [D!Sessions -> D!Row] /\ c.ip \in Ips
  BY <1>2, Numbers, InTime DEF DemoInv, DemoCallsInv, Timely
<1>4. /\ row.state = "there" /\ row.ip = c.ip /\ row.created = demoClock
      /\ row.created <= row.expires + Timeout
  BY <1>3
<1> HIDE DEF row
<1>5. \A t \in D!Sessions : session'[t] = IF t = s THEN row ELSE session[t]
  BY <1>1, <1>3
<1>6. PurgedIsOld'
  BY <1>2, <1>4, <1>5 DEF LimitInv, PurgedIsOld
<1>7. IpLocked'
  BY <1>2, LockReleased DEF DemoInv
<1>8. ASSUME NEW i, NEW w
      PROVE  Young(i, w)' \subseteq IF i = c.ip THEN Young(i, w) \cup {s} ELSE Young(i, w)
  BY <1>2, <1>4, <1>5 DEF Young, D!CreatedAfter
<1>9. ASSUME NEW i, NEW w
      PROVE  /\ i # c.ip => Cardinality(Young(i, w)') <= Cardinality(Young(i, w))
             /\ Cardinality(Young(i, w)') <= Cardinality(Young(i, w)) + 1
             /\ Cardinality(Young(i, w)') \in Nat
  <2>1. IsFiniteSet(Young(i, w)) /\ Cardinality(Young(i, w)) \in Nat
    BY YoungIsFinite
  <2>2. IsFiniteSet(Young(i, w) \cup {s}) /\ Cardinality(Young(i, w) \cup {s}) <= Cardinality(Young(i, w)) + 1
    <3>1. Cardinality(Young(i, w) \cup {s}) = Cardinality(Young(i, w))
          \/ Cardinality(Young(i, w) \cup {s}) = Cardinality(Young(i, w)) + 1
      BY <2>1, FS_AddElement
    <3>2. IsFiniteSet(Young(i, w) \cup {s})
      BY <2>1, FS_AddElement
    <3> QED BY <2>1, <3>1, <3>2
  <2>3. Young(i, w)' \in SUBSET (Young(i, w) \cup {s})
    BY <1>8
  <2>4. Cardinality(Young(i, w)') <= Cardinality(Young(i, w) \cup {s}) /\ IsFiniteSet(Young(i, w)')
    BY <2>2, <2>3, FS_Subset
  <2>5. Cardinality(Young(i, w)') \in Nat /\ Cardinality(Young(i, w) \cup {s}) \in Nat
    BY <2>2, <2>4, FS_CardinalityType
  <2>6. ASSUME i # c.ip PROVE Cardinality(Young(i, w)') <= Cardinality(Young(i, w))
    <3>1. Young(i, w)' \in SUBSET Young(i, w)
      BY <1>8, <2>6
    <3> QED BY <2>1, <3>1, FS_Subset
  <2> QED BY <2>1, <2>2, <2>4, <2>5, <2>6
<1>10. RoomToInsert'
  <2> SUFFICES ASSUME NEW d \in demoCalls', d.pc = "insert"
               PROVE  /\ Cardinality(Young(d.ip, Hour)') < PerHour
                      /\ Cardinality(Young(d.ip, Minute)') < PerMinute
    BY DEF RoomToInsert
  <2>1. d \in demoCalls /\ d.id # c.id
    BY <1>2 DEF DemoInv, DemoCallsInv
  <2>2. d.ip # c.ip
    BY <1>2, <2>1 DEF LimitInv, IpLocked
  <2>3. /\ Cardinality(Young(d.ip, Hour)) < PerHour /\ Cardinality(Young(d.ip, Minute)) < PerMinute
        /\ Cardinality(Young(d.ip, Hour)) \in Nat /\ Cardinality(Young(d.ip, Minute)) \in Nat
    BY <2>1, YoungIsFinite DEF LimitInv, RoomToInsert
  <2>4. /\ Cardinality(Young(d.ip, Hour)') <= Cardinality(Young(d.ip, Hour))
        /\ Cardinality(Young(d.ip, Minute)') <= Cardinality(Young(d.ip, Minute))
        /\ Cardinality(Young(d.ip, Hour)') \in Nat /\ Cardinality(Young(d.ip, Minute)') \in Nat
    BY <1>9, <2>2
  <2> QED BY <1>3, <2>3, <2>4
<1>11. WithinLimits'
  <2> SUFFICES ASSUME NEW i \in Ips
               PROVE  /\ Cardinality(Young(i, Hour)') <= PerHour
                      /\ Cardinality(Young(i, Minute)') <= PerMinute
    BY DEF WithinLimits
  <2>1. /\ Cardinality(Young(i, Hour)) \in Nat /\ Cardinality(Young(i, Minute)) \in Nat
        /\ Cardinality(Young(i, Hour)') \in Nat /\ Cardinality(Young(i, Minute)') \in Nat
    BY <1>9, YoungIsFinite
  <2>2. CASE i = c.ip
    <3>1. /\ Cardinality(Young(i, Hour)) < PerHour /\ Cardinality(Young(i, Minute)) < PerMinute
      BY <1>2, <2>2 DEF LimitInv, RoomToInsert
    <3>2. /\ Cardinality(Young(i, Hour)') <= Cardinality(Young(i, Hour)) + 1
          /\ Cardinality(Young(i, Minute)') <= Cardinality(Young(i, Minute)) + 1
      BY <1>9
    <3> QED BY <1>3, <2>1, <3>1, <3>2
  <2>3. CASE i # c.ip
    <3>1. /\ Cardinality(Young(i, Hour)) <= PerHour /\ Cardinality(Young(i, Minute)) <= PerMinute
      BY DEF LimitInv, WithinLimits
    <3>2. /\ Cardinality(Young(i, Hour)') <= Cardinality(Young(i, Hour))
          /\ Cardinality(Young(i, Minute)') <= Cardinality(Young(i, Minute))
      BY <1>9, <2>3
    <3> QED BY <1>3, <2>1, <3>1, <3>2
  <2> QED BY <2>2, <2>3
<1> QED BY <1>6, <1>7, <1>10, <1>11 DEF LimitInv

LEMMA LimitKeeps ==
    ASSUME LimitInv, DemoInv, NEW c \in demoCalls,
           \/ D!LockIp(c) \/ D!CountRecent(c) \/ D!InsertSession(c)
           \/ D!ReadSession(c) \/ D!TakeFromDay(c) \/ D!TakeFromSession(c) \/ D!Ask(c) \/ D!Fail(c)
    PROVE  LimitInv'
<1>1. DemoCallsInv /\ Timely(c) /\ IsDemoCall(c)
  BY DEF DemoInv, DemoCallsInv, Timely
<1>2. CASE D!LockIp(c)
  <2> DEFINE d == [c EXCEPT !.now = demoClock, !.pc = "check"]
  <2>1. /\ demoCalls' = (demoCalls \ {c}) \cup {d} /\ ipLock[c.ip] = D!NoRequest
        /\ ipLock' = [ipLock EXCEPT ![c.ip] = c.id] /\ UNCHANGED <<demoClock, session>>
    BY <1>2 DEF D!LockIp, D!LocksIp, D!Move
  <2>2. d.id = c.id /\ d.ip = c.ip /\ d.pc = "check"
    BY <1>1 DEF IsDemoCall, DemoFields
  <2> HIDE DEF d
  <2>3. c.ip \in Ips /\ c.id \in Nat
    BY <1>1 DEF Timely, DemoCallsInv
  <2>4. ipLock' \in [Ips -> Nat]
    BY <2>1, <2>3 DEF LimitInv, IpLocked
  <2>5. ASSUME NEW e \in demoCalls', e.pc \in {"check", "insert"}
        PROVE  ipLock'[e.ip] = e.id
    <3>1. CASE e = d
      BY <2>1, <2>2, <2>3, <3>1 DEF LimitInv, IpLocked
    <3>2. CASE e \in demoCalls
      <4>1. ipLock[e.ip] = e.id /\ e.id # D!NoRequest
        BY <1>1, <2>5, <3>2 DEF LimitInv, IpLocked, DemoCallsInv, Timely, D!NoRequest
      <4>2. e.ip # c.ip
        BY <2>1, <4>1
      <4>3. e.ip \in Ips
        BY <1>1, <3>2 DEF DemoCallsInv, Timely
      <4> QED BY <2>1, <4>1, <4>2, <4>3 DEF LimitInv, IpLocked
    <3> QED BY <2>1, <3>1, <3>2
  <2>6. IpLocked'
    BY <2>4, <2>5 DEF IpLocked
  <2>7. \A e \in demoCalls' : e.pc = "insert" => e \in demoCalls
    BY <2>1, <2>2
  <2> QED BY <1>1, <2>1, <2>6, <2>7, SameSessions, LimitsStay
<1>3. CASE D!CountRecent(c)
  <2> DEFINE d == [c EXCEPT !.pc = "insert"]
  <2>1. CASE D!Finish(c) /\ D!UnlocksIp(c)
    BY <1>1, <1>3, <2>1, LimitEnds DEF D!CountRecent
  <2>2. CASE /\ ~(Cardinality(D!Recent(c, Hour)) >= PerHour)
             /\ ~(Cardinality(D!Recent(c, Minute)) >= PerMinute)
             /\ D!Move(c, d) /\ ipLock' = ipLock
    <3>1. /\ demoCalls' = (demoCalls \ {c}) \cup {d} /\ c.pc = "check"
          /\ UNCHANGED <<demoClock, session>>
      BY <1>3, <2>2 DEF D!CountRecent, D!Move
    <3>2. d.id = c.id /\ d.ip = c.ip /\ d.pc = "insert"
      BY <1>1 DEF IsDemoCall, DemoFields
    <3> HIDE DEF d
    <3>3. Hour \in Nat /\ Minute \in Nat /\ Minute <= Hour /\ PerHour \in Nat /\ PerMinute \in Nat
      BY Numbers
    <3>4. /\ Cardinality(Young(c.ip, Hour)) <= Cardinality(D!Recent(c, Hour))
          /\ Cardinality(Young(c.ip, Minute)) <= Cardinality(D!Recent(c, Minute))
      BY <1>1, <3>1, <3>3, CountIsEnough
    <3>5. /\ Cardinality(D!Recent(c, Hour)) \in Nat /\ Cardinality(D!Recent(c, Minute)) \in Nat
          /\ Cardinality(Young(c.ip, Hour)) \in Nat /\ Cardinality(Young(c.ip, Minute)) \in Nat
      <4>1. \A w : D!Recent(c, w) \in SUBSET (1 .. MaxSessions)
        BY DEF D!Recent, D!CreatedAfter, D!Sessions
      <4>2. IsFiniteSet(1 .. MaxSessions)
        <5>1. 1 \in Int /\ MaxSessions \in Int
          BY Numbers
        <5> QED BY <5>1, FS_Interval
      <4> QED BY <4>1, <4>2, FS_Subset, FS_CardinalityType, YoungIsFinite
    <3>6. /\ Cardinality(Young(c.ip, Hour)) < PerHour /\ Cardinality(Young(c.ip, Minute)) < PerMinute
      BY <2>2, <3>3, <3>4, <3>5
    <3>7. IpLocked'
      BY <2>2, <3>1, <3>2 DEF LimitInv, IpLocked
    <3>8. \A e \in demoCalls' : e.pc = "insert" => e \in demoCalls \/ e.ip = c.ip
      BY <3>1, <3>2
    <3> QED BY <1>1, <3>1, <3>6, <3>7, <3>8, SameSessions, LimitsStay
  <2> QED BY <1>3, <2>1, <2>2, DemoCardinality DEF D!CountRecent
<1>4. CASE D!InsertSession(c)
  BY <1>4, InsertKeepsLimit
<1>5. CASE D!ReadSession(c)
  <2>1. CASE D!Finish(c)
    BY <1>1, <1>5, <2>1, LimitEnds DEF D!ReadSession
  <2>2. CASE D!Move(c, [c EXCEPT !.pc = "chat"])
    <3>1. [c EXCEPT !.pc = "chat"].pc = "chat"
      BY <1>1 DEF IsDemoCall, DemoFields
    <3> QED BY <1>1, <1>5, <2>2, <3>1, LimitMoves DEF D!ReadSession, D!Move
  <2>3. CASE D!Move(c, [c EXCEPT !.day = D!Today, !.since = demoClock, !.pc = "daily"])
    <3>1. [c EXCEPT !.day = D!Today, !.since = demoClock, !.pc = "daily"].pc = "daily"
      BY <1>1 DEF IsDemoCall, DemoFields
    <3> QED BY <1>1, <1>5, <2>3, <3>1, LimitMoves DEF D!ReadSession, D!Move
  <2> QED BY <1>5, <2>1, <2>2, <2>3 DEF D!ReadSession
<1>6. CASE D!TakeFromDay(c)
  <2>1. CASE D!Finish(c)
    BY <1>1, <1>6, <2>1, LimitEnds DEF D!TakeFromDay
  <2>2. CASE D!Move(c, [c EXCEPT !.now = demoClock, !.pc = "session"])
    <3>1. [c EXCEPT !.now = demoClock, !.pc = "session"].pc = "session"
      BY <1>1 DEF IsDemoCall, DemoFields
    <3> QED BY <1>1, <1>6, <2>2, <3>1, LimitMoves DEF D!TakeFromDay, D!Move
  <2> QED BY <1>6, <2>1, <2>2 DEF D!TakeFromDay
<1>7. CASE D!TakeFromSession(c)
  <2>1. CASE D!Finish(c) /\ UNCHANGED session
    BY <1>1, <1>7, <2>1, LimitEnds DEF D!TakeFromSession
  <2>2. CASE /\ D!Move(c, [c EXCEPT !.pc = "chat"])
             /\ session' = [session EXCEPT ![c.session].asked = @ + 1]
    <3>1. [c EXCEPT !.pc = "chat"].pc = "chat"
      BY <1>1 DEF IsDemoCall, DemoFields
    <3>2. \A s \in D!Sessions :
            /\ session'[s].ip = session[s].ip /\ session'[s].created = session[s].created
            /\ session'[s].expires = session[s].expires /\ session'[s].state = session[s].state
      <4>1. \A s \in D!Sessions : session[s] \in D!Row
        BY <1>1 DEF DemoCallsInv
      <4> QED BY <1>1, <2>2, <4>1 DEF DemoCallsInv, D!Row
    <3> QED BY <1>1, <1>7, <2>2, <3>1, <3>2, LimitMoves DEF D!TakeFromSession, D!Move
  <2> QED BY <1>7, <2>1, <2>2 DEF D!TakeFromSession
<1>8. CASE D!Ask(c)
  BY <1>1, <1>8, LimitEnds DEF D!Ask
<1>9. CASE D!Fail(c)
  BY <1>1, <1>9, LimitEnds DEF D!Fail
<1> QED BY <1>2, <1>3, <1>4, <1>5, <1>6, <1>7, <1>8, <1>9

LEMMA LimitComes ==
    ASSUME LimitInv, DemoInv, NEW c, D!Issue(c), c.pc \in {"lock", "read"}
    PROVE  LimitInv'
<1>1. demoCalls' = demoCalls \cup {c} /\ UNCHANGED <<demoClock, session, ipLock>>
  BY DEF D!Issue
<1>2. IpLocked'
  BY <1>1 DEF LimitInv, IpLocked
<1>3. \A d \in demoCalls' : d.pc = "insert" => d \in demoCalls
  BY <1>1
<1> QED BY <1>1, <1>2, <1>3, SameSessions, LimitsStay DEF DemoInv

LEMMA SessionsLeave ==
    ASSUME LimitInv, DemoInv,
           (\E s \in D!Sessions : D!Revoke(s)) \/ D!Cleanup \/ D!Tick
    PROVE  LimitInv'
<1>1. UNCHANGED <<demoCalls, ipLock>>
  BY DEF D!Revoke, D!Cleanup, D!Tick
<1>2. IpLocked'
  BY <1>1 DEF LimitInv, IpLocked
<1>3. /\ session \in [D!Sessions -> D!Row] /\ demoClock \in Nat /\ Day \in Nat /\ Hour \in Nat
      /\ Hour + Timeout <= Day /\ Timeout \in Nat
      /\ \A s \in D!Sessions : session[s].revoked = 0 \/ session[s].revoked >= session[s].created
  BY Numbers DEF DemoInv, DemoCallsInv
<1>4. CASE \E s \in D!Sessions : D!Revoke(s)
  <2>1. PICK s \in D!Sessions : session' = [session EXCEPT ![s].revoked = demoClock]
    BY <1>4 DEF D!Revoke
  <2>2. demoClock' = demoClock
    BY <1>4 DEF D!Revoke
  <2>3. \A t \in D!Sessions :
          /\ session'[t].ip = session[t].ip /\ session'[t].created = session[t].created
          /\ session'[t].expires = session[t].expires /\ session'[t].state = session[t].state
    <3>1. \A t \in D!Sessions : session[t] \in D!Row
      BY <1>3
    <3> QED BY <1>3, <2>1, <3>1 DEF D!Row
  <2>4. \A t \in D!Sessions : session[t].state = "purged" => session[t].created + Hour <= demoClock
    BY DEF LimitInv, PurgedIsOld
  <2> QED BY <1>1, <1>2, <1>3, <2>2, <2>3, <2>4, LimitsStay DEF DemoInv
<1>5. CASE D!Cleanup
  <2>1. PICK S \in SUBSET {s \in D!Sessions : D!Dead(s)} :
           session' = [s \in D!Sessions |-> IF s \in S THEN [session[s] EXCEPT !.state = "purged"]
                                            ELSE session[s]]
    BY <1>5 DEF D!Cleanup
  <2>2. demoClock' = demoClock
    BY <1>5 DEF D!Cleanup
  <2>3. ASSUME NEW s \in D!Sessions
        PROVE  /\ session'[s].ip = session[s].ip /\ session'[s].created = session[s].created
               /\ session'[s].expires = session[s].expires
               /\ session'[s].state = "none" <=> session[s].state = "none"
               /\ session'[s].state = "there" => session[s].state = "there"
               /\ session'[s].state = "purged" => session[s].created + Hour <= demoClock
    <3>1. session[s] \in D!Row
      BY <1>3
    <3>2. CASE s \in S
      <4>1. /\ session'[s].ip = session[s].ip /\ session'[s].created = session[s].created
            /\ session'[s].expires = session[s].expires /\ session'[s].state = "purged"
        BY <2>1, <3>1, <3>2 DEF D!Row
      <4>2. /\ session[s].state = "there"
            /\ \/ session[s].expires < demoClock - Day
               \/ session[s].revoked # 0 /\ session[s].revoked < demoClock - Day
        BY <3>2 DEF D!Dead, D!There
      <4>3. /\ session[s].created \in Nat /\ session[s].expires \in Nat /\ session[s].revoked \in Nat
            /\ session[s].created <= session[s].expires + Timeout
        BY <3>1, <4>2 DEF D!Row, LimitInv, PurgedIsOld
      <4>4. session[s].created + Hour <= demoClock
        BY <1>3, <4>2, <4>3
      <4> QED BY <4>1, <4>2, <4>4
    <3>3. CASE s \notin S
      <4>1. session'[s] = session[s]
        BY <2>1, <3>3
      <4> QED BY <4>1 DEF LimitInv, PurgedIsOld
    <3> QED BY <3>2, <3>3
  <2> QED BY <1>1, <1>2, <1>3, <2>2, <2>3, LimitsStay DEF DemoInv
<1>6. CASE D!Tick
  <2>1. session' = session /\ demoClock' = demoClock + 1
    BY <1>6 DEF D!Tick
  <2>2. \A s \in D!Sessions : session[s].state = "purged" =>
           session[s].created \in Nat /\ session[s].created + Hour <= demoClock
    BY <1>3 DEF LimitInv, PurgedIsOld, D!Row
  <2>3. \A s \in D!Sessions : session[s].state = "purged" => session[s].created + Hour <= demoClock'
    BY <1>3, <2>1, <2>2
  <2>4. demoClock' \in Nat /\ demoClock <= demoClock'
    BY <1>3, <2>1
  <2> QED BY <1>1, <1>2, <2>1, <2>3, <2>4, LimitsStay DEF DemoInv
<1> QED BY <1>4, <1>5, <1>6

LEMMA NextLimit ==
    ASSUME LimitInv, DemoInv, [D!Next]_(D!vars)
    PROVE  LimitInv'
<1>1. CASE UNCHANGED D!vars
  <2>1. UNCHANGED <<demoClock, session, ipLock, demoCalls>>
    BY <1>1 DEF D!vars
  <2>2. IpLocked'
    BY <2>1 DEF LimitInv, IpLocked
  <2> QED BY <2>1, <2>2, SameSessions, LimitsStay DEF DemoInv
<1>2. ASSUME NEW i \in Ips, D!StartCreate(i)
      PROVE  LimitInv'
  BY <1>2, LimitComes DEF D!StartCreate
<1>3. ASSUME NEW s \in D!Sessions, D!StartQuestion(s)
      PROVE  LimitInv'
  BY <1>3, LimitComes DEF D!StartQuestion
<1> QED BY <1>1, <1>2, <1>3, LimitKeeps, SessionsLeave DEF D!Next

(***************************************************************************)
(* However many sessions an address asks for at the same time, it gets no  *)
(* more in a minute and in an hour than it may (create), how short soever  *)
(* DEMO_SESSION_TTL_SECONDS lets a session be.                             *)
(***************************************************************************)
THEOREM AddressesAreLimited == PartsSpec => []AddressLimitHolds
<1>1. PartsInit => LimitInv
  BY InitLimit DEF PartsInit
<1>2. LimitInv /\ DemoInv /\ [PartsNext]_partsVars => LimitInv'
  <2>1. [PartsNext]_partsVars => [D!Next]_(D!vars)
    BY DEF PartsNext, partsVars, demoVars, D!vars
  <2> QED BY <2>1, NextLimit
<1>3. LimitInv => AddressLimitHolds
  BY DemoCardinality DEF LimitInv, WithinLimits, Young, AddressLimitHolds, D!AddressLimitHolds
<1> QED BY <1>1, <1>2, <1>3, PartsDemo, PTL DEF PartsSpec, partsVars

-----------------------------------------------------------------------------
(* Paging.                                                                 *)
(*                                                                         *)
(* A row whose place is decided stands behind as many rows as are ahead of *)
(* it (PlaceIsDecided).  While nobody leaves from ahead of it that number  *)
(* does not fall, and what the reader has not got is still to come; while  *)
(* nobody comes ahead of it the number does not grow, and what the reader  *)
(* has got stays behind the reader (Followed).                             *)

LEMMA PagingNumbers ==
    /\ MaxId \in Nat /\ MaxStamp \in Nat /\ MaxWrites \in Nat /\ PageSizes \subseteq Nat \ {0}
BY PartsAssumption DEF P!PagingAssumption

LEMMA PagingCardinality == \A S : P!Cardinality(S) = Cardinality(S)
BY DEF P!Cardinality, Cardinality

Total == Cardinality(P!Present)
Place(i) == Cardinality(P!Ahead(i))

LEMMA PresentIsFinite == IsFiniteSet(P!Present) /\ Total \in Nat
<1>1. P!Present \in SUBSET (1 .. MaxId)
  BY DEF P!Present, P!Ids
<1>2. IsFiniteSet(1 .. MaxId)
  BY PagingNumbers, FS_Interval
<1>3. IsFiniteSet(P!Present)
  BY <1>1, <1>2, FS_Subset
<1> QED BY <1>3, FS_CardinalityType DEF Total

LEMMA PlaceIsANumber ==
    ASSUME NEW i \in P!Present
    PROVE  IsFiniteSet(P!Ahead(i)) /\ Place(i) \in Nat /\ Place(i) < Total
<1>1. IsFiniteSet(P!Present \ {i}) /\ Cardinality(P!Present \ {i}) = Total - 1
  BY PresentIsFinite, FS_RemoveElement DEF Total
<1>2. P!Ahead(i) \subseteq P!Present \ {i}
  BY DEF P!Ahead
<1>3. IsFiniteSet(P!Ahead(i)) /\ Place(i) <= Total - 1
  BY <1>1, <1>2, FS_Subset DEF Place
<1>4. Place(i) \in Nat
  BY <1>3, FS_CardinalityType DEF Place
<1> QED BY <1>3, <1>4, PresentIsFinite

\* As many different rows as there are, are all of them.
LEMMA AllPlaces ==
    ASSUME NEW q \in [1 .. Total -> P!Present],
           \A m, n \in 1 .. Total : m # n => q[m] # q[n]
    PROVE  \A i \in P!Present : \E n \in 1 .. Total : q[n] = i
<1>1. Total \in Nat /\ IsFiniteSet(P!Present) /\ Cardinality(P!Present) = Total
  BY PresentIsFinite DEF Total
<1>2. q \in Injection(1 .. Total, P!Present)
  BY DEF Injection, IsInjective
<1>3. Cardinality(1 .. Total) = Total
  BY <1>1, FS_Interval
<1>4. q \in Surjection(1 .. Total, P!Present)
  BY <1>1, <1>2, <1>3, FS_Injection
<1> QED BY <1>4 DEF Surjection

\* In every order of the list the row stands where the rows ahead of it put it.
LEMMA PlaceIsDecided ==
    ASSUME rows \in [P!Ids -> Nat], NEW s \in P!Orders(list), NEW i \in P!Present, P!Decided(i)
    PROVE  /\ s \in [1 .. Total -> P!Present]
           /\ \A n \in 1 .. Total : s[n] = i <=> n = Place(i) + 1
<1>1. /\ s \in [1 .. Total -> P!Present]
      /\ \A m, n \in 1 .. Total : m < n => s[m] # s[n] /\ P!Before(list, s[m], s[n])
  BY PagingCardinality DEF P!Orders, Total
<1>2. Total \in Nat
  BY PresentIsFinite
<1>3. \A m, n \in 1 .. Total : m # n => s[m] # s[n]
  <2>1. \A m, n \in 1 .. Total : m # n => m < n \/ n < m
    BY <1>2
  <2> QED BY <1>1, <2>1
<1>4. \A j \in P!Present : \E n \in 1 .. Total : s[n] = j
  BY <1>1, <1>3, AllPlaces
<1>5. ASSUME NEW j \in P!Present \ {i}, P!Before(list, j, i)
      PROVE  ~P!Before(list, i, j)
  <2>1. i \in Nat /\ j \in Nat /\ rows[i] \in Nat /\ rows[j] \in Nat /\ i # j
    BY PagingNumbers DEF P!Present, P!Ids
  <2>2. list.byId \/ rows[j] # rows[i]
    BY DEF P!Decided
  <2> QED BY <1>5, <2>1, <2>2 DEF P!Before
<1>6. PICK n \in 1 .. Total : s[n] = i
  BY <1>4
<1> DEFINE f == [m \in 1 .. n - 1 |-> s[m]]
           S == {s[m] : m \in 1 .. n - 1}
<1>7. \A m \in 1 .. n - 1 : m \in 1 .. Total /\ m < n
  BY <1>2
<1>8. ASSUME NEW m \in 1 .. Total, s[m] # i, P!Before(list, s[m], i)
      PROVE  m \in 1 .. n - 1
  <2>1. s[m] \in P!Present \ {i} /\ m # n
    BY <1>1, <1>6, <1>8
  <2>2. ~(n < m)
    BY <1>1, <1>5, <1>6, <1>8, <2>1
  <2> QED BY <1>2, <2>1, <2>2
<1>9. \A m \in 1 .. n - 1 : s[m] \in P!Present \ {i} /\ P!Before(list, s[m], i)
  BY <1>1, <1>6, <1>7
<1>10. S \subseteq P!Ahead(i)
  BY <1>9 DEF P!Ahead
<1>11. ASSUME NEW j \in P!Ahead(i) PROVE j \in S
  <2>1. PICK m \in 1 .. Total : s[m] = j
    BY <1>4 DEF P!Ahead
  <2>2. m \in 1 .. n - 1
    BY <1>8, <2>1 DEF P!Ahead
  <2> QED BY <2>1, <2>2
<1>12. P!Ahead(i) = S
  BY <1>10, <1>11
<1>13. f \in Bijection(1 .. n - 1, S)
  <2>1. f \in [1 .. n - 1 -> S]
    OBVIOUS
  <2>2. \A m, k \in 1 .. n - 1 : f[m] = f[k] => m = k
    BY <1>3, <1>7
  <2>3. \A j \in S : \E m \in 1 .. n - 1 : f[m] = j
    OBVIOUS
  <2> HIDE DEF f, S
  <2> QED BY <2>1, <2>2, <2>3 DEF Bijection, Injection, IsInjective, Surjection
<1>14. IsFiniteSet(1 .. n - 1) /\ Cardinality(1 .. n - 1) = n - 1
  BY <1>2, FS_Interval
<1> HIDE DEF f, S
<1>15. Place(i) = n - 1
  BY <1>12, <1>13, <1>14, FS_Bijection DEF ExistsBijection, Place
<1>16. n = Place(i) + 1
  BY <1>2, <1>15
<1> QED BY <1>1, <1>3, <1>6, <1>16

\* The last page is the one that reaches the end.
LEMMA PagesReachTheEnd ==
    ASSUME NEW n \in Nat, NEW z \in Nat \ {0}, NEW p \in Nat
    PROVE  p < P!TotalPages(n, z) <=> p * z < n
<1> DEFINE q == (n + z - 1) \div z
           r == (n + z - 1) % z
<1>1. n + z - 1 \in Nat
  OBVIOUS
<1>2. q \in Int /\ r \in 0 .. z - 1 /\ n + z - 1 = q * z + r
  BY <1>1, Z3
<1>3. P!TotalPages(n, z) = q
  BY DEF P!TotalPages
<1> HIDE DEF q, r
<1>4. CASE p < q
  <2>1. (p + 1) * z <= q * z
    BY <1>2, <1>4, Z3
  <2>2. p * z + z <= n + z - 1
    BY <1>2, <2>1, Z3
  <2> QED BY <1>3, <1>4, <2>2, Z3
<1>5. CASE ~(p < q)
  <2>1. q * z <= p * z
    BY <1>2, <1>5, Z3
  <2>2. ~(p * z < n)
    BY <1>2, <2>1, Z3
  <2> QED BY <1>3, <1>5, <2>2
<1> QED BY <1>4, <1>5

In(i, q) == \E n \in 1 .. Len(q) : q[n] = i
Once(i, q) == \A m, n \in 1 .. Len(q) : q[m] = i /\ q[n] = i => m = n

\* A page holds the rows whose places are on it, each of them once.
LEMMA SliceIsRight ==
    ASSUME rows \in [P!Ids -> Nat], NEW s \in P!Orders(list), NEW i \in P!Present, P!Decided(i),
           NEW p \in Nat \ {0}, NEW z \in Nat \ {0}, NEW from \in Nat, from = (p - 1) * z
    PROVE  /\ Once(i, P!Slice(s, p, z))
           /\ In(i, P!Slice(s, p, z)) <=> from <= Place(i) /\ Place(i) < from + z
<1>1. Total \in Nat /\ Place(i) \in Nat /\ Place(i) < Total
  BY PresentIsFinite, PlaceIsANumber
<1>2. /\ s \in [1 .. Total -> P!Present]
      /\ \A n \in 1 .. Total : s[n] = i <=> n = Place(i) + 1
  BY PlaceIsDecided
<1>3. s \in Seq(P!Present) /\ Len(s) = Total
  BY <1>1, <1>2
<1>4. PICK b \in Nat : b = (IF from + z < Total THEN from + z ELSE Total)
  BY <1>1
<1>5. P!Slice(s, p, z) = SubSeq(s, from + 1, b)
  BY <1>3, <1>4 DEF P!Slice, P!Skipped
<1>6. PICK q : q = SubSeq(s, from + 1, b)
  OBVIOUS
<1>7. b <= Total
  BY <1>1, <1>4
<1>8. PICK k \in Nat : k = IF from <= b THEN b - from ELSE 0
  <2>1. \A m, n \in Nat : m <= n => n - m \in Nat
    OBVIOUS
  <2>2. (IF from <= b THEN b - from ELSE 0) \in Nat
    BY <1>4, <2>1
  <2> QED BY <2>2
<1>9. q = [n \in 1 .. k |-> s[from + n]]
  <2>1. SubSeq(s, from + 1, b) = [n \in 1 .. (b - (from + 1) + 1) |-> s[n + (from + 1) - 1]]
    BY <1>3
  <2>2. 1 .. (b - (from + 1) + 1) = 1 .. k /\ \A n \in 1 .. k : n + (from + 1) - 1 = from + n
    BY <1>8
  <2> QED BY <1>6, <2>1, <2>2
<1>10. \A n \in 1 .. k : from + n \in 1 .. Total
  BY <1>1, <1>7, <1>8
<1>11. q \in [1 .. k -> P!Present]
  BY <1>2, <1>9, <1>10
<1>12. Len(q) = k
  BY <1>11
<1>13. \A n \in 1 .. k : q[n] = i <=> from + n = Place(i) + 1
  BY <1>2, <1>9, <1>10
<1>14. Once(i, q)
  BY <1>1, <1>12, <1>13 DEF Once
<1>15. In(i, q) <=> from <= Place(i) /\ Place(i) < from + k
  <2>1. ASSUME In(i, q) PROVE from <= Place(i) /\ Place(i) < from + k
    BY <1>1, <1>12, <1>13, <2>1 DEF In
  <2>2. ASSUME from <= Place(i), Place(i) < from + k PROVE In(i, q)
    <3>1. Place(i) + 1 - from \in 1 .. k /\ from + (Place(i) + 1 - from) = Place(i) + 1
      BY <1>1, <2>2
    <3> QED BY <1>12, <1>13, <3>1 DEF In
  <2> QED BY <2>1, <2>2
<1>16. from <= Place(i) => (Place(i) < from + k <=> Place(i) < from + z)
  BY <1>1, <1>4, <1>8
<1> QED BY <1>5, <1>6, <1>14, <1>15, <1>16

LEMMA Joined ==
    ASSUME NEW S, NEW a \in Seq(S), NEW b \in Seq(S)
    PROVE  /\ a \o b \in Seq(S) /\ Len(a \o b) = Len(a) + Len(b)
           /\ \A n \in 1 .. Len(a) + Len(b) :
                 (a \o b)[n] = IF n <= Len(a) THEN a[n] ELSE b[n - Len(a)]
OBVIOUS

LEMMA InJoined ==
    ASSUME NEW S, NEW a \in Seq(S), NEW b \in Seq(S), NEW i
    PROVE  /\ In(i, a \o b) <=> In(i, a) \/ In(i, b)
           /\ Once(i, a) /\ Once(i, b) /\ ~(In(i, a) /\ In(i, b)) => Once(i, a \o b)
<1>1. PICK k \in Nat, l \in Nat : k = Len(a) /\ l = Len(b)
  OBVIOUS
<1>2. PICK q : q = a \o b
  OBVIOUS
<1>3. /\ Len(q) = k + l
      /\ \A n \in 1 .. k + l : q[n] = IF n <= k THEN a[n] ELSE b[n - k]
  BY <1>1, <1>2, Joined
<1>4. \A n \in 1 .. k + l : (n <= k /\ n \in 1 .. k) \/ (~(n <= k) /\ n - k \in 1 .. l)
  BY <1>1
<1>5. In(i, q) => In(i, a) \/ In(i, b)
  BY <1>1, <1>3, <1>4 DEF In
<1>6. In(i, a) => In(i, q)
  BY <1>1, <1>3 DEF In
<1>7. ASSUME NEW n \in 1 .. l, b[n] = i PROVE In(i, q)
  <2>1. n + k \in 1 .. k + l /\ ~(n + k <= k) /\ (n + k) - k = n
    OBVIOUS
  <2> QED BY <1>3, <1>7, <2>1 DEF In
<1>8. ASSUME Once(i, a), Once(i, b), ~(In(i, a) /\ In(i, b)),
             NEW m \in 1 .. k + l, NEW n \in 1 .. k + l, q[m] = i, q[n] = i
      PROVE  m = n
  <2>1. CASE m <= k /\ n <= k
    BY <1>1, <1>3, <1>4, <1>8, <2>1 DEF Once
  <2>2. CASE ~(m <= k) /\ ~(n <= k)
    <3>1. m - k = n - k
      BY <1>1, <1>3, <1>4, <1>8, <2>2 DEF Once
    <3> QED BY <3>1
  <2>3. CASE m <= k /\ ~(n <= k)
    BY <1>1, <1>3, <1>4, <1>8, <2>3 DEF In
  <2>4. CASE ~(m <= k) /\ n <= k
    BY <1>1, <1>3, <1>4, <1>8, <2>4 DEF In
  <2> QED BY <2>1, <2>2, <2>3, <2>4
<1>9. In(i, b) => In(i, q)
  BY <1>1, <1>7 DEF In
<1>10. Once(i, a) /\ Once(i, b) /\ ~(In(i, a) /\ In(i, b)) => Once(i, q)
  BY <1>3, <1>8 DEF Once
<1> QED BY <1>2, <1>5, <1>6, <1>9, <1>10

ReaderFields == {"pc", "next", "items", "page", "got", "settled", "pushed", "pulled"}

\* q is what a reader has got of the rows before the place upto.
Followed(i, q, upto) ==
    /\ i \notin reader.pulled => In(i, q) \/ upto <= Place(i)
    /\ i \notin reader.pushed => Once(i, q) /\ (In(i, q) => Place(i) < upto)

\* Where the reader is when it has turned the pages before the next one.
Turned == (reader.next - 1) * size

PageInv ==
    /\ rows \in [P!Ids -> Nat] /\ clock \in Nat /\ size \in Nat \ {0}
    /\ reader = [x \in ReaderFields |-> reader[x]] /\ reader.next \in Nat \ {0}
    /\ reader.got \in Seq(P!Ids) /\ reader.items \in Seq(P!Ids)
    /\ reader.pc \in {"rows", "count", "done"}
    /\ reader.pc # "done" => \A i \in reader.settled : i \in P!Present /\ P!Decided(i)
    /\ \A i \in reader.settled :
        /\ reader.pc = "rows" => Followed(i, reader.got, Turned)
        /\ reader.pc = "count" => Followed(i, reader.got \o reader.items, Turned + size)
        /\ reader.pc = "done" =>
             /\ i \notin reader.pulled => In(i, reader.got)
             /\ i \notin reader.pushed => Once(i, reader.got)

LEMMA PagingInit == P!Init => PageInv
<1> SUFFICES ASSUME P!Init PROVE PageInv
  OBVIOUS
<1>1. clock \in Nat /\ size \in Nat \ {0}
  BY PagingNumbers DEF P!Init
<1>2. rows \in [P!Ids -> Nat]
  BY <1>1 DEF P!Init
<1>3. /\ reader.pc = "rows" /\ reader.next = 1 /\ reader.got = <<>> /\ reader.items = <<>>
      /\ reader = [x \in ReaderFields |-> reader[x]]
      /\ reader.settled = {i \in P!Present : P!Decided(i)}
  BY DEF P!Init, P!StartReader, ReaderFields
<1>4. Turned = 0
  BY <1>1, <1>3 DEF Turned
<1>5. ASSUME NEW i \in P!Present PROVE Followed(i, <<>>, 0)
  BY <1>5, PlaceIsANumber DEF Followed, In, Once
<1>6. \A i \in reader.settled : i \in P!Present /\ P!Decided(i) /\ Followed(i, reader.got, Turned)
  BY <1>3, <1>4, <1>5
<1>7. reader.got \in Seq(P!Ids) /\ reader.items \in Seq(P!Ids) /\ reader.next \in Nat \ {0}
  BY <1>3
<1> QED BY <1>1, <1>2, <1>3, <1>6, <1>7 DEF PageInv

LEMMA SliceIsOfIds ==
    ASSUME NEW s \in P!Orders(list), NEW p \in Nat \ {0}, NEW z \in Nat \ {0}
    PROVE  P!Slice(s, p, z) \in Seq(P!Ids) /\ Len(s) = Total
<1>1. s \in [1 .. Total -> P!Present] /\ Total \in Nat
  BY PresentIsFinite, PagingCardinality DEF P!Orders, Total
<1>2. P!Present \subseteq P!Ids
  BY DEF P!Present
<1>3. s \in Seq(P!Ids) /\ Len(s) = Total
  BY <1>1, <1>2
<1>4. PICK from \in Nat : from = (p - 1) * z
  <2>1. p - 1 \in Nat
    OBVIOUS
  <2>2. \A a, b \in Nat : a * b \in Nat
    OBVIOUS
  <2> QED BY <2>1, <2>2
<1>5. PICK b \in Nat : b = (IF from + z < Len(s) THEN from + z ELSE Len(s)) /\ b <= Len(s)
  BY <1>1, <1>3
<1>6. SubSeq(s, from + 1, b) \in Seq(P!Ids)
  BY <1>3, <1>5
<1> QED BY <1>3, <1>4, <1>5, <1>6 DEF P!Slice, P!Skipped

\* The rows and the order stay, and so do the places.
LEMMA SameRows ==
    ASSUME UNCHANGED <<rows, list>>
    PROVE  /\ P!Present' = P!Present /\ Total' = Total
           /\ \A i : Place(i)' = Place(i) /\ (P!Decided(i)' <=> P!Decided(i))
<1>1. P!Present' = P!Present
  BY DEF P!Present
<1>2. \A i : P!Ahead(i)' = P!Ahead(i)
  BY <1>1 DEF P!Ahead, P!Before
<1> QED BY <1>1, <1>2 DEF Total, Place, P!Decided

\* A page is read.
LEMMA PageIsRead ==
    ASSUME PageInv, NEW s \in P!Orders(list), reader.pc = "rows", NEW i \in reader.settled
    PROVE  Followed(i, reader.got \o P!Slice(s, reader.next, size), Turned + size)
<1>1. /\ rows \in [P!Ids -> Nat] /\ size \in Nat \ {0} /\ reader.next \in Nat \ {0}
      /\ reader.got \in Seq(P!Ids) /\ i \in P!Present /\ P!Decided(i)
      /\ Followed(i, reader.got, Turned)
  BY DEF PageInv
<1>2. Turned \in Nat /\ Turned = (reader.next - 1) * size
  <2>1. reader.next - 1 \in Nat
    BY <1>1
  <2>2. \A a, b \in Nat : a * b \in Nat
    OBVIOUS
  <2> QED BY <1>1, <2>1, <2>2 DEF Turned
<1>3. PICK q : q = P!Slice(s, reader.next, size)
  OBVIOUS
<1>4. q \in Seq(P!Ids)
  BY <1>1, <1>3, SliceIsOfIds
<1>5. Once(i, q) /\ (In(i, q) <=> Turned <= Place(i) /\ Place(i) < Turned + size)
  BY <1>1, <1>2, <1>3, SliceIsRight
<1>6. /\ In(i, reader.got \o q) <=> In(i, reader.got) \/ In(i, q)
      /\ Once(i, reader.got) /\ Once(i, q) /\ ~(In(i, reader.got) /\ In(i, q)) =>
            Once(i, reader.got \o q)
  BY <1>1, <1>4, InJoined
<1>7. Place(i) \in Nat
  BY <1>1, PlaceIsANumber
<1>8. Followed(i, reader.got \o q, Turned + size)
  <2>1. ASSUME i \notin reader.pulled
        PROVE  In(i, reader.got \o q) \/ Turned + size <= Place(i)
    BY <1>1, <1>2, <1>5, <1>6, <1>7, <2>1 DEF Followed
  <2>2. ASSUME i \notin reader.pushed
        PROVE  Once(i, reader.got \o q) /\ (In(i, reader.got \o q) => Place(i) < Turned + size)
    <3>1. Once(i, reader.got) /\ (In(i, reader.got) => Place(i) < Turned)
      BY <1>1, <2>2 DEF Followed
    <3>2. ~(In(i, reader.got) /\ In(i, q))
      BY <1>2, <1>5, <1>7, <3>1
    <3>3. In(i, reader.got \o q) => Place(i) < Turned + size
      BY <1>1, <1>2, <1>5, <1>6, <1>7, <3>1
    <3> QED BY <1>5, <1>6, <3>1, <3>2, <3>3
  <2> QED BY <2>1, <2>2 DEF Followed
<1> QED BY <1>3, <1>8

\* The reader turns the page.
LEMMA PageIsTurned ==
    ASSUME PageInv, reader.pc # "done", NEW items \in Seq(P!Ids), P!Turn(items, Total),
           UNCHANGED <<rows, clock, list, size>>,
           \A i \in reader.settled : Followed(i, reader.got \o items, Turned + size)
    PROVE  PageInv'
<1>1. /\ rows \in [P!Ids -> Nat] /\ clock \in Nat /\ size \in Nat \ {0}
      /\ reader.next \in Nat \ {0} /\ reader.got \in Seq(P!Ids)
      /\ reader = [x \in ReaderFields |-> reader[x]] /\ Total \in Nat
      /\ \A i \in reader.settled : i \in P!Present /\ P!Decided(i)
  BY PresentIsFinite DEF PageInv
<1>2. PICK more \in BOOLEAN : more <=> reader.next < P!TotalPages(Total, size)
  OBVIOUS
<1>3. /\ reader'.got = reader.got \o items /\ reader'.next = reader.next + 1
      /\ reader'.pc = (IF more THEN "rows" ELSE "done") /\ reader'.items = <<>>
      /\ reader'.settled = reader.settled /\ reader'.pushed = reader.pushed
      /\ reader'.pulled = reader.pulled /\ reader' = [x \in ReaderFields |-> reader'[x]]
  BY <1>1, <1>2 DEF ReaderFields, P!Turn, P!PageResult
<1>4. PICK upto \in Nat : upto = reader.next * size
  <2>1. \A a, b \in Nat : a * b \in Nat
    OBVIOUS
  <2> QED BY <1>1, <2>1
<1>5. upto = Turned + size
  <2>1. reader.next * size = (reader.next - 1) * size + size
    BY <1>1, Z3
  <2> QED BY <1>4, <2>1 DEF Turned
<1>6. more <=> upto < Total
  BY <1>1, <1>2, <1>4, PagesReachTheEnd
<1>7. PICK got \in Seq(P!Ids) : got = reader.got \o items
  BY <1>1, Joined
<1>8. Turned' = upto
  BY <1>1, <1>3, <1>4 DEF Turned
<1>9. ASSUME NEW i \in reader.settled
      PROVE  /\ reader'.pc = "rows" => Followed(i, reader.got, Turned)'
             /\ reader'.pc = "done" =>
                  /\ i \notin reader'.pulled => In(i, reader'.got)
                  /\ i \notin reader'.pushed => Once(i, reader'.got)
  <2>1. Followed(i, got, upto) /\ Place(i)' = Place(i)
    BY <1>5, <1>7, SameRows
  <2>2. Place(i) \in Nat /\ Place(i) < Total
    BY <1>1, PlaceIsANumber
  <2>3. ASSUME more PROVE Followed(i, reader.got, Turned)'
    BY <1>3, <1>7, <1>8, <2>1 DEF Followed, In, Once
  <2>4. ASSUME ~more
        PROVE  /\ i \notin reader'.pulled => In(i, reader'.got)
               /\ i \notin reader'.pushed => Once(i, reader'.got)
    <3>1. Total <= upto
      BY <1>1, <1>6, <2>4
    <3>2. ~(upto <= Place(i))
      BY <1>1, <2>2, <3>1
    <3> QED BY <1>3, <1>7, <2>1, <3>2 DEF Followed
  <2> QED BY <1>3, <2>3, <2>4
<1>10. reader'.next \in Nat \ {0} /\ <<>> \in Seq(P!Ids)
  BY <1>1, <1>3
<1>11. \A i \in reader'.settled : (i \in P!Present /\ P!Decided(i))'
  BY <1>1, <1>3, SameRows
<1> QED BY <1>1, <1>3, <1>7, <1>9, <1>10, <1>11 DEF PageInv

\* Another row is written, and the places of those it does not pass stay.
LEMMA OthersKeepTheirPlace ==
    ASSUME PageInv, NEW j \in P!Ids, P!Write(j), NEW i \in P!Present, i # j
    PROVE  /\ i \in P!Present'
           /\ ~(j \in P!Ahead(i) \ P!Ahead(i)') => Place(i) <= Place(i)'
           /\ ~(j \in P!Ahead(i)' \ P!Ahead(i)) => Place(i)' <= Place(i)
<1>1. /\ rows \in [P!Ids -> Nat] /\ list' = list /\ clock \in Nat
      /\ \A k \in P!Ids \ {j} : rows'[k] = rows[k]
  BY DEF PageInv, P!Write
<1>2. \A k \in P!Ids \ {j} : k \in P!Present' <=> k \in P!Present
  BY <1>1 DEF P!Present
<1>3. i \in P!Present'
  BY <1>2 DEF P!Present
<1>4. \A k : k # j => (k \in P!Ahead(i)' <=> k \in P!Ahead(i))
  <2>1. ASSUME NEW k \in P!Ids \ {j}
        PROVE  k \in P!Ahead(i)' <=> k \in P!Ahead(i)
    <3>1. P!Before(list, k, i)' <=> P!Before(list, k, i)
      BY <1>1 DEF P!Before, P!Present
    <3> QED BY <1>2, <3>1 DEF P!Ahead
  <2>2. P!Ahead(i) \subseteq P!Ids /\ P!Ahead(i)' \subseteq P!Ids
    BY DEF P!Ahead, P!Present
  <2> QED BY <2>1, <2>2
<1>5. IsFiniteSet(P!Ahead(i)) /\ IsFiniteSet(P!Ahead(i))'
  <2>1. P!Ahead(i) \in SUBSET (1 .. MaxId) /\ P!Ahead(i)' \in SUBSET (1 .. MaxId)
    BY DEF P!Ahead, P!Present, P!Ids
  <2>2. IsFiniteSet(1 .. MaxId)
    BY PagingNumbers, FS_Interval
  <2> QED BY <2>1, <2>2, FS_Subset
<1>6. ASSUME ~(j \in P!Ahead(i) \ P!Ahead(i)') PROVE Place(i) <= Place(i)'
  <2>1. P!Ahead(i) \subseteq P!Ahead(i)'
    BY <1>4, <1>6
  <2> QED BY <1>5, <2>1, FS_Subset DEF Place
<1>7. ASSUME ~(j \in P!Ahead(i)' \ P!Ahead(i)) PROVE Place(i)' <= Place(i)
  <2>1. P!Ahead(i)' \subseteq P!Ahead(i)
    BY <1>4, <1>7
  <2> QED BY <1>5, <2>1, FS_Subset DEF Place
<1> QED BY <1>3, <1>6, <1>7

LEMMA WriteIsFollowed ==
    ASSUME PageInv, NEW j \in P!Ids, P!Write(j)
    PROVE  PageInv'
<1>1. /\ rows \in [P!Ids -> Nat] /\ clock \in Nat /\ size \in Nat \ {0}
      /\ reader = [x \in ReaderFields |-> reader[x]] /\ reader.next \in Nat \ {0}
      /\ reader.got \in Seq(P!Ids) /\ reader.items \in Seq(P!Ids)
      /\ reader.pc \in {"rows", "count", "done"}
      /\ reader.pc # "done" => \A i \in reader.settled : i \in P!Present /\ P!Decided(i)
  BY DEF PageInv
<1>2. /\ UNCHANGED <<clock, list, size>>
      /\ reader' = IF reader.pc = "done" THEN reader
                   ELSE [reader EXCEPT
                          !.settled = {i \in reader.settled \ {j} : P!Decided(i)'},
                          !.pushed = reader.pushed \cup {i \in P!Ids : j \in P!Ahead(i)' \ P!Ahead(i)},
                          !.pulled = reader.pulled \cup {i \in P!Ids : j \in P!Ahead(i) \ P!Ahead(i)'}]
  BY DEF P!Write
<1>3. rows' \in [P!Ids -> Nat]
  <2>1. PICK v \in {0, clock} : rows' = [rows EXCEPT ![j] = v]
    BY DEF P!Write
  <2> QED BY <1>1, <2>1
<1>4. CASE reader.pc = "done"
  <2>1. reader' = reader
    BY <1>2, <1>4
  <2>2. \A i \in reader.settled :
           /\ i \notin reader.pulled => In(i, reader.got)
           /\ i \notin reader.pushed => Once(i, reader.got)
    BY <1>4 DEF PageInv
  <2> QED BY <1>1, <1>2, <1>3, <1>4, <2>1, <2>2 DEF PageInv
<1>5. CASE reader.pc # "done"
  <2> DEFINE kept == {i \in reader.settled \ {j} : P!Decided(i)'}
             came == {i \in P!Ids : j \in P!Ahead(i)' \ P!Ahead(i)}
             left == {i \in P!Ids : j \in P!Ahead(i) \ P!Ahead(i)'}
  <2>1. reader' = [reader EXCEPT !.settled = kept, !.pushed = reader.pushed \cup came,
                                 !.pulled = reader.pulled \cup left]
    BY <1>2, <1>5
  <2>2. /\ \A i \in kept : i \in reader.settled /\ i # j /\ P!Decided(i)'
        /\ \A i \in P!Ids : i \notin came => ~(j \in P!Ahead(i)' \ P!Ahead(i))
        /\ \A i \in P!Ids : i \notin left => ~(j \in P!Ahead(i) \ P!Ahead(i)')
    OBVIOUS
  <2> HIDE DEF kept, came, left
  <2>3. /\ reader'.settled = kept /\ reader'.pushed = reader.pushed \cup came
        /\ reader'.pulled = reader.pulled \cup left /\ reader'.pc = reader.pc
        /\ reader'.next = reader.next /\ reader'.got = reader.got /\ reader'.items = reader.items
        /\ reader' = [x \in ReaderFields |-> reader'[x]]
    BY <1>1, <2>1 DEF ReaderFields
  <2>4. \A i \in kept : i \in P!Present' /\ i \in P!Present /\ i \in P!Ids
    BY <1>1, <1>5, <2>2, OthersKeepTheirPlace DEF P!Present
  <2>5. Turned \in Nat /\ Turned' = Turned
    <3>1. reader.next - 1 \in Nat
      BY <1>1
    <3>2. \A a, b \in Nat : a * b \in Nat
      OBVIOUS
    <3> QED BY <1>1, <1>2, <2>3, <3>1, <3>2 DEF Turned
  <2>6. ASSUME NEW i \in kept, NEW q, NEW upto \in Nat, Followed(i, q, upto)
        PROVE  /\ i \notin reader'.pulled => In(i, q) \/ upto <= Place(i)'
               /\ i \notin reader'.pushed => Once(i, q) /\ (In(i, q) => Place(i)' < upto)
    <3>1. Place(i) \in Nat /\ Place(i)' \in Nat
      <4>1. IsFiniteSet(P!Ahead(i)) /\ IsFiniteSet(P!Ahead(i))'
        <5>1. P!Ahead(i) \in SUBSET (1 .. MaxId) /\ P!Ahead(i)' \in SUBSET (1 .. MaxId)
          BY DEF P!Ahead, P!Present, P!Ids
        <5>2. IsFiniteSet(1 .. MaxId)
          BY PagingNumbers, FS_Interval
        <5> QED BY <5>1, <5>2, FS_Subset
      <4> QED BY <4>1, FS_CardinalityType DEF Place
    <3>2. i \notin left => Place(i) <= Place(i)'
      BY <2>2, <2>4, OthersKeepTheirPlace
    <3>3. i \notin came => Place(i)' <= Place(i)
      BY <2>2, <2>4, OthersKeepTheirPlace
    <3>4. PICK here \in Nat, there \in Nat : here = Place(i) /\ there = Place(i)'
      BY <3>1
    <3> QED BY <2>3, <2>6, <3>2, <3>3, <3>4 DEF Followed
  <2>7. ASSUME NEW i \in kept
        PROVE  /\ reader'.pc = "rows" => Followed(i, reader.got, Turned)'
               /\ reader'.pc = "count" => Followed(i, reader.got \o reader.items, Turned + size)'
    <3>1. CASE reader.pc = "rows"
      <4>1. Followed(i, reader.got, Turned)
        BY <2>2, <3>1 DEF PageInv
      <4>2. PICK upto \in Nat : upto = Turned
        BY <2>5
      <4>3. PICK got : got = reader.got
        OBVIOUS
      <4>4. Followed(i, got, upto)
        BY <4>1, <4>2, <4>3
      <4> QED BY <2>3, <2>5, <2>6, <3>1, <4>2, <4>3, <4>4 DEF Followed
    <3>2. CASE reader.pc = "count"
      <4>1. Followed(i, reader.got \o reader.items, Turned + size)
        BY <2>2, <3>2 DEF PageInv
      <4>2. PICK upto \in Nat : upto = Turned + size
        BY <1>1, <2>5
      <4>3. PICK got : got = reader.got \o reader.items
        OBVIOUS
      <4>4. Followed(i, got, upto)
        BY <4>1, <4>2, <4>3
      <4> QED BY <1>2, <2>3, <2>5, <2>6, <3>2, <4>2, <4>3, <4>4 DEF Followed
    <3> QED BY <1>1, <1>5, <2>3, <3>1, <3>2
  <2>8. \A i \in reader'.settled : (i \in P!Present /\ P!Decided(i))'
    BY <2>2, <2>3, <2>4
  <2> QED BY <1>1, <1>2, <1>3, <1>5, <2>3, <2>7, <2>8 DEF PageInv
<1> QED BY <1>4, <1>5

LEMMA PagingIdle == PageInv /\ UNCHANGED <<rows, clock, list, size, reader>> => PageInv'
<1> SUFFICES ASSUME PageInv, UNCHANGED <<rows, clock, list, size, reader>> PROVE PageInv'
  OBVIOUS
<1>1. \A i : (P!Present' = P!Present) /\ (P!Decided(i)' <=> P!Decided(i)) /\ Place(i)' = Place(i)
  BY SameRows
<1>2. Turned' = Turned
  BY DEF Turned
<1>3. \A i, q, upto : Followed(i, q, upto)' <=> Followed(i, q, upto)
  BY <1>1 DEF Followed
<1>4. reader.pc # "done" => \A i \in reader'.settled : (i \in P!Present /\ P!Decided(i))'
  BY <1>1 DEF PageInv
<1> QED BY <1>2, <1>3, <1>4 DEF PageInv

LEMMA PagingStep == PageInv /\ P!Next => PageInv'
<1> SUFFICES ASSUME PageInv, P!Next PROVE PageInv'
  OBVIOUS
<1>1. /\ size \in Nat \ {0} /\ reader.next \in Nat \ {0} /\ clock \in Nat
      /\ reader.got \in Seq(P!Ids) /\ reader.items \in Seq(P!Ids)
      /\ reader = [x \in ReaderFields |-> reader[x]]
  BY DEF PageInv
<1>2. CASE P!ReadPage
  <2>1. PICK s \in P!Orders(list) : P!Turn(P!Slice(s, reader.next, size), Len(s))
    BY <1>2 DEF P!ReadPage
  <2>2. PICK items \in Seq(P!Ids) : items = P!Slice(s, reader.next, size) /\ Len(s) = Total
    BY <1>1, SliceIsOfIds
  <2>3. \A i \in reader.settled : Followed(i, reader.got \o items, Turned + size)
    BY <1>2, <2>2, PageIsRead DEF P!ReadPage
  <2>4. P!Turn(items, Total)
    BY <2>1, <2>2
  <2> QED BY <1>2, <2>3, <2>4, PageIsTurned DEF P!ReadPage
<1>3. CASE P!ReadRows
  <2>1. PICK s \in P!Orders(list) :
          reader' = [reader EXCEPT !.items = P!Slice(s, reader.next, size), !.pc = "count"]
    BY <1>3 DEF P!ReadRows
  <2>2. UNCHANGED <<rows, clock, list, size>> /\ reader.pc = "rows"
    BY <1>3 DEF P!ReadRows
  <2>3. PICK items \in Seq(P!Ids) : items = P!Slice(s, reader.next, size)
    BY <1>1, SliceIsOfIds
  <2>4. /\ reader' = [x \in ReaderFields |-> reader'[x]] /\ reader'.pc = "count"
        /\ reader'.items = items /\ reader'.got = reader.got /\ reader'.next = reader.next
        /\ reader'.settled = reader.settled /\ reader'.pushed = reader.pushed
        /\ reader'.pulled = reader.pulled
    BY <1>1, <2>1, <2>3 DEF ReaderFields
  <2>5. \A i \in reader.settled : Followed(i, reader.got \o items, Turned + size)
    BY <2>2, <2>3, PageIsRead
  <2>6. Turned' = Turned /\ \A i : Place(i)' = Place(i)
    BY <2>2, <2>4, SameRows DEF Turned
  <2>7. \A i \in reader.settled : Followed(i, reader.got \o reader.items, Turned + size)'
    <3>1. PICK q : q = reader.got \o items
      OBVIOUS
    <3>2. \A i \in reader.settled : Followed(i, q, Turned + size)
      BY <2>5, <3>1
    <3>3. (reader.got \o reader.items)' = q
      BY <2>4, <3>1
    <3> QED BY <2>2, <2>4, <2>6, <3>2, <3>3 DEF Followed
  <2>8. \A i \in reader'.settled : (i \in P!Present /\ P!Decided(i))'
    BY <2>2, <2>4, SameRows DEF PageInv
  <2>9. rows' \in [P!Ids -> Nat]' /\ reader'.got \in Seq(P!Ids) /\ reader'.next \in Nat \ {0}
    BY <2>2, <2>4 DEF PageInv, P!Ids
  <2> QED BY <1>1, <2>2, <2>4, <2>7, <2>8, <2>9 DEF PageInv, P!Ids
<1>4. CASE P!CountRows
  <2>1. /\ P!Turn(reader.items, Total) /\ reader.pc = "count"
        /\ UNCHANGED <<rows, clock, list, size>>
    BY <1>4, PagingCardinality DEF P!CountRows, Total
  <2>2. \A i \in reader.settled : Followed(i, reader.got \o reader.items, Turned + size)
    BY <2>1 DEF PageInv
  <2> QED BY <1>1, <2>1, <2>2, PageIsTurned
<1>5. CASE P!Tick
  <2>1. UNCHANGED <<rows, list, size, reader>> /\ clock' = clock + 1
    BY <1>5 DEF P!Tick
  <2>2. clock' \in Nat /\ Turned' = Turned /\ \A i, q, upto : Followed(i, q, upto)' <=> Followed(i, q, upto)
    BY <1>1, <2>1, SameRows DEF Turned, Followed
  <2>3. reader.pc # "done" => \A i \in reader'.settled : (i \in P!Present /\ P!Decided(i))'
    BY <2>1, SameRows DEF PageInv
  <2> QED BY <2>1, <2>2, <2>3 DEF PageInv
<1> QED BY <1>2, <1>3, <1>4, <1>5, WriteIsFollowed DEF P!Next

LEMMA PartsPages == PartsSpec => []PageInv
<1>1. PartsInit => PageInv
  BY PagingInit DEF PartsInit
<1>2. UNCHANGED pagingVars => UNCHANGED <<rows, clock, list, size, reader>>
  BY DEF pagingVars
<1>3. PageInv /\ [PartsNext]_partsVars => PageInv'
  BY <1>2, PagingStep, PagingIdle DEF PartsNext, partsVars
<1> QED BY <1>1, <1>3, PTL DEF PartsSpec, partsVars

(***************************************************************************)
(* For every page size, every number of rows and any writes between the    *)
(* statements of the reader: a row that was there from the start, is left  *)
(* alone and whose place the order decides is missed only if a row ahead   *)
(* of it has gone, and is read twice only if one has come ahead of it      *)
(* (skip and take, PageResult).                                            *)
(***************************************************************************)
THEOREM RowsAreMissedOrRepeatedForCause == PartsSpec => []MissedOrRepeatedForCause
<1>1. PageInv => MissedOrRepeatedForCause
  <2> SUFFICES ASSUME PageInv, reader.pc = "done", NEW i \in reader.settled
               PROVE  LET times == {n \in DOMAIN reader.got : reader.got[n] = i}
                      IN  /\ i \notin reader.pulled => times # {}
                          /\ i \notin reader.pushed => \A m, n \in times : m = n
    BY DEF MissedOrRepeatedForCause, P!MissedOrRepeatedForCause
  <2>1. /\ i \notin reader.pulled => In(i, reader.got)
        /\ i \notin reader.pushed => Once(i, reader.got)
        /\ reader.got \in Seq(P!Ids)
    BY DEF PageInv
  <2>2. DOMAIN reader.got = 1 .. Len(reader.got)
    BY <2>1
  <2> QED BY <2>1, <2>2 DEF In, Once
<1> QED BY <1>1, PartsPages, PTL
=============================================================================
