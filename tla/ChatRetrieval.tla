--------------------------- MODULE ChatRetrieval ---------------------------
(***************************************************************************)
(* Finding the chunks a question is answered from.  The nearest chunks of  *)
(* the public documents and, per user, of the restricted ones are cached   *)
(* under a version of the space's corpus; whatever they come from, they    *)
(* are validated in one statement before the language model gets them.     *)
(*                                                                         *)
(* Documents change meanwhile: they are edited, ingested again, shared,    *)
(* deleted and restored, and each change replaces the version afterwards.  *)
(* One question is asked, so one embedding; a document has one chunk.      *)
(***************************************************************************)
EXTENDS Integers, FiniteSets

CONSTANTS
    Docs, Users,
    MaxQuestions, \* bound: questions, numbered as they come
    MaxChanges, \* bound: changes of the corpus, likewise
    Similarity, \* similarity of each document's text to the question
    MinScore,   \* MIN_SIMILARITY_SCORE
    TopK,       \* TOP_K
    Nobody,     \* a public entry of the cache belongs to no user
    Unknown     \* nothing was read from the cache, or no version

ChatRetrievalAssumption ==
    /\ MaxQuestions \in Nat /\ MaxChanges \in Nat
    /\ IsFiniteSet(Docs) /\ Similarity \in [Docs -> Nat] /\ MinScore \in Nat /\ TopK \in Nat \ {0}
    /\ Nobody \notin Users /\ Unknown \notin Nat

VARIABLES
    docs,      \* rows of the documents with their chunk
    grants,    \* document_permission: the users of each document
    nextChunk, \* ids of chunks are never reused
    version,   \* the corpus version, 0 while it was never set
    cache,     \* entries <<scope, user, version, chunks>>
    calls,     \* questions in flight or answered
    bumps,     \* writers that have committed and have yet to set the version
    asked, changed, \* questions and changes so far
    lost       \* history: a version that could not be set since the last one set

vars == <<docs, grants, nextChunk, version, cache, calls, bumps, asked, changed, lost>>

Requests == 1 .. MaxQuestions

Scopes == {"Public", "Restricted"}
Chunk == [id: Nat, doc: Docs, scope: Scopes]
Row == [status: {"Processing", "Ready", "Failed"}, deleted: BOOLEAN,
        scope: Scopes, chunk: Nat]

\* disturbed, stale (history): the corpus has changed since the question was
\* asked; its version was not up to date when it was.
\* seen (history): what the user could read, at every moment since.
Call == [id: Requests, user: Users, version: Nat \cup {Unknown},
         reads: SUBSET Scopes, found: [Scopes -> SUBSET Chunk \cup {Unknown}],
         writes: SUBSET Scopes, sources: SUBSET Chunk,
         seen: SUBSET SUBSET Chunk, disturbed: BOOLEAN, stale: BOOLEAN,
         pc: {"version", "read", "search", "write", "validate", "generate"}]

ChunkOf(d) == [id |-> docs[d].chunk, doc |-> d, scope |-> docs[d].scope]
Score(k) == Similarity[k.doc]

\* Chunks of the documents in D that user u may read, under the rows of now.
MayRead(u, d) == docs[d].scope = "Public" \/ u \in grants[d]
Readable(u) ==
    {ChunkOf(d) : d \in {e \in Docs : /\ ~docs[e].deleted
                                      /\ docs[e].status = "Ready" /\ MayRead(u, e)}}

\* The k best of C; equal scores are told apart by the chunk's id.
Better(a, b) == Score(a) > Score(b) \/ (Score(a) = Score(b) /\ a.id < b.id)
Nearest(C, k) == {a \in C : Cardinality({b \in C : Better(b, a)}) < k}

Move(c, c2) == calls' = (calls \ {c}) \cup {c2}
Finish(c) == calls' = calls \ {c}

\* Every question in flight sees what its user may read after this step.
Watch ==
    calls' = {[c EXCEPT !.disturbed = TRUE, !.seen = @ \cup {Readable(c.user)'}] : c \in calls}

InitCorpus ==
    LET id == CHOOSE f \in [Docs -> 1 .. Cardinality(Docs)] :
                 \A d, e \in Docs : f[d] = f[e] => d = e
    IN  \E vis \in [Docs -> Scopes], st \in {"Processing", "Ready"} :
          docs = [d \in Docs |-> [status |-> st, deleted |-> FALSE, scope |-> vis[d],
                                  chunk |-> id[d]]]
InitAsking ==
    /\ grants = [d \in Docs |-> Users]
    /\ nextChunk = Cardinality(Docs) + 1
    /\ version = 0 /\ cache = {} /\ calls = {} /\ bumps = {}
    /\ asked = 0 /\ changed = 0 /\ lost = FALSE

Init == InitCorpus /\ InitAsking

-----------------------------------------------------------------------------
(* generateAnswer *)

\* The embedding of a question is the same from the cache and from the model.
StartAnswer(u) ==
    /\ asked < MaxQuestions /\ asked' = asked + 1
    /\ calls' = calls \cup {[id |-> asked', user |-> u, version |-> Unknown, reads |-> {},
         found |-> [s \in Scopes |-> Unknown], writes |-> {}, sources |-> {},
         seen |-> {Readable(u)}, disturbed |-> FALSE,
         stale |-> lost \/ bumps # {}, pc |-> "version"]}
    /\ UNCHANGED <<docs, grants, nextChunk, version, cache, bumps, changed, lost>>

\* Without a version neither layer of the cache is used.
ReadCorpusVersion(c) ==
    /\ c.pc = "version"
    /\ \/ Move(c, [c EXCEPT !.version = version, !.reads = Scopes, !.pc = "read"])
       \/ Move(c, [c EXCEPT !.pc = "search"])
    /\ UNCHANGED <<docs, grants, nextChunk, version, cache, bumps, asked, changed, lost>>

\* buildSimilarChunksCacheKey
CacheOwner(s, u) == IF s = "Restricted" THEN u ELSE Nobody

\* Promise.all: the layers' reads leave on one connection, the public one first.
\* Any may be a miss: the entry has expired (SIMILAR_CHUNKS_TTL_MS), was
\* evicted, or the cache failed.
ReadChunks(c) ==
    /\ c.pc = "read"
    /\ LET s == IF "Public" \in c.reads THEN "Public" ELSE "Restricted"
           d == [c EXCEPT !.reads = @ \ {s}, !.pc = IF c.reads = {s} THEN "search" ELSE @]
       IN  \/ \E e \in cache : /\ e[1] = s /\ e[2] = CacheOwner(s, c.user) /\ e[3] = c.version
                               /\ Move(c, [d EXCEPT !.found[s] = e[4]])
           \/ Move(c, d)
    /\ UNCHANGED <<docs, grants, nextChunk, version, cache, bumps, asked, changed, lost>>

\* One statement for the layers that were not found; none if both were.
SearchSimilarChunks(c) ==
    /\ c.pc = "search"
    /\ LET missing == {s \in Scopes : c.found[s] = Unknown}
           of(s) == Nearest({k \in Readable(c.user) : k.scope = s}, TopK)
       IN  \/ Move(c, [c EXCEPT
                  !.found = [s \in Scopes |-> IF s \in missing THEN of(s) ELSE @[s]],
                  !.writes = IF c.version = Unknown THEN {} ELSE missing,
                  !.pc = IF missing = {} \/ c.version = Unknown THEN "validate" ELSE "write"])
           \/ missing # {} /\ Finish(c)
    /\ UNCHANGED <<docs, grants, nextChunk, version, cache, bumps, asked, changed, lost>>

\* Mutant of WrittenUnder: the version as it is by now.
WrittenUnderLatest(c) == version

\* The key was built from the version read before the search.
WrittenUnder(c) == c.version

\* The public layer first, then the restricted one.
WriteChunks(c) ==
    /\ c.pc = "write"
    /\ LET s == IF "Public" \in c.writes THEN "Public" ELSE "Restricted"
           key == <<s, CacheOwner(s, c.user), WrittenUnder(c)>>
       IN  /\ \/ cache' = {e \in cache : <<e[1], e[2], e[3]>> # key}
                            \cup {<<s, CacheOwner(s, c.user), WrittenUnder(c), c.found[s]>>}
              \/ cache' = cache
           /\ Move(c, [c EXCEPT !.writes = @ \ {s},
                                !.pc = IF c.writes = {s} THEN "validate" ELSE @])
    /\ UNCHANGED <<docs, grants, nextChunk, version, bumps, asked, changed, lost>>

\* Mutant of Validated: chunks from the cache are trusted.
ValidatedNot(C, u) == C

\* The chunk is still there, its document is Ready and readable, and neither
\* its text nor its visibility has changed.
Validated(C, u) == C \cap Readable(u)

\* The best over both layers, then the threshold.
Relevant(C) == {k \in Nearest(C, TopK) : Score(k) >= MinScore}

ValidateSimilarChunks(c) ==
    /\ c.pc = "validate"
    /\ LET C == Relevant(Validated(UNION {c.found[s] : s \in Scopes}, c.user))
           done == [c EXCEPT !.version = Unknown, !.found = [s \in Scopes |-> Unknown]]
       IN  \/ Move(c, [done EXCEPT !.sources = C, !.pc = "generate"])
           \/ Finish(c)
    /\ UNCHANGED <<docs, grants, nextChunk, version, cache, bumps, asked, changed, lost>>

\* The language model is given the validated text, and may fail; without any
\* there is no answer.
GenerateAnswer(c) ==
    /\ c.pc = "generate" /\ Finish(c)
    /\ UNCHANGED <<docs, grants, nextChunk, version, cache, bumps, asked, changed, lost>>

-----------------------------------------------------------------------------
(* What changes the corpus.  Each transaction is one step; the version is  *)
(* set in another.                                                         *)

Commit(docs2, grants2) ==
    /\ changed < MaxChanges /\ changed' = changed + 1 /\ bumps' = bumps \cup {changed'}
    /\ docs' = docs2 /\ grants' = grants2 /\ Watch
    /\ UNCHANGED <<version, cache, asked, lost>>

\* addChunks deletes the chunks of the document and inserts new ones.
AddChunks(d) ==
    /\ docs[d].status = "Processing" /\ ~docs[d].deleted
    /\ Commit([docs EXCEPT ![d] = [@ EXCEPT !.status = "Ready", !.chunk = nextChunk]],
              grants)
    /\ nextChunk' = nextChunk + 1

\* New content, or another visibility; the old chunks stay where they are.
EditDocument(d) ==
    /\ ~docs[d].deleted
    /\ \E row \in ({[docs[d] EXCEPT !.status = "Processing"]}
                      \cup {[docs[d] EXCEPT !.scope = s] : s \in Scopes}) \ {docs[d]} :
         Commit([docs EXCEPT ![d] = row], grants)
    /\ UNCHANGED nextChunk

DeleteOrRestore(d) ==
    /\ LET row == [docs[d] EXCEPT !.deleted = ~@,
                       !.status = IF docs[d].deleted /\ @ = "Processing" THEN "Failed" ELSE @]
       IN  Commit([docs EXCEPT ![d] = row], grants)
    /\ UNCHANGED nextChunk

UpdatePermissions(d) ==
    /\ ~docs[d].deleted
    /\ \E S \in SUBSET Users : Commit(docs, [grants EXCEPT ![d] = S])
    /\ UNCHANGED nextChunk

\* A random version: one that only this change sets, and only once.
FreshVersion(w) == w

InvalidateSimilarChunks(w) ==
    /\ bumps' = bumps \ {w}
    /\ \/ version' = FreshVersion(w) /\ lost' = FALSE
       \/ version' = version /\ lost' = TRUE
    /\ UNCHANGED <<docs, grants, nextChunk, cache, calls, asked, changed>>

-----------------------------------------------------------------------------
Next ==
    \/ \E u \in Users : StartAnswer(u)
    \/ \E d \in Docs : \/ AddChunks(d) \/ EditDocument(d)
                       \/ DeleteOrRestore(d) \/ UpdatePermissions(d)
    \/ \E w \in bumps : InvalidateSimilarChunks(w)
    \/ \E c \in calls :
        \/ ReadCorpusVersion(c) \/ ReadChunks(c)
        \/ SearchSimilarChunks(c) \/ WriteChunks(c) \/ ValidateSimilarChunks(c)
        \/ GenerateAnswer(c)

Spec == Init /\ [][Next]_vars

-----------------------------------------------------------------------------
TypeOK ==
    /\ docs \in [Docs -> Row] /\ grants \in [Docs -> SUBSET Users]
    /\ nextChunk \in Nat /\ version \in Nat /\ lost \in BOOLEAN
    /\ \A e \in cache : /\ e[1] \in Scopes /\ e[2] \in Users \cup {Nobody}
                        /\ e[3] \in Nat /\ e[4] \subseteq Chunk
    /\ \A c \in calls : /\ c.user \in Users /\ c.version \in Nat \cup {Unknown}
                        /\ c.sources \subseteq Chunk
    /\ asked \in 0 .. MaxQuestions /\ changed \in 0 .. MaxChanges /\ bumps \subseteq 1 .. changed

(***************************************************************************)
(* Whatever the cache held, the sources of an answer are chunks its user   *)
(* could read, as they were, all at one moment while the question was      *)
(* handled - even when every invalidation was lost (generateAnswer,        *)
(* validateSimilarChunks).                                                 *)
(***************************************************************************)
SourcesWereReadable ==
    \A c \in calls : c.pc = "generate" =>
        \E S \in c.seen : c.sources \subseteq S

(***************************************************************************)
(* The cache does not cost an answer: asked while the version is up to     *)
(* date and nothing changes until the answer, a question gets the chunks   *)
(* a search of all the user may read would have found.                     *)
(***************************************************************************)
CacheIsTransparent ==
    \A c \in calls :
        c.pc = "generate" /\ ~c.disturbed /\ ~c.stale =>
            \A S \in c.seen : c.sources = Relevant(S)
=============================================================================
