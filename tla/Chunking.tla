------------------------------ MODULE Chunking ------------------------------
(***************************************************************************)
(* From a text to the rows of document_chunk: the text is cut into windows *)
(* of tokens that overlap, the windows are sent to the embedding service   *)
(* in batches of batches, and vectors and windows are put together again   *)
(* by their position.                                                      *)
(***************************************************************************)
EXTENDS Integers, Sequences

CONSTANTS
    Size, Overlap,  \* CHUNK_SIZE_TOKENS, CHUNK_OVERLAP_TOKENS
    Batch,          \* EMBEDDING_BATCH_SIZE of the worker
    ClientBatch,    \* EMBEDDING_BATCH_SIZE of the client
    MaxTokens,      \* bound: tokens of a text
    NoVector        \* undefined

ChunkingAssumption ==
    /\ Size \in Nat /\ Overlap \in Nat /\ Overlap < Size
    /\ Batch \in Nat \ {0} /\ ClientBatch \in Nat \ {0} /\ MaxTokens \in Nat

VARIABLES
    tokens,   \* length of the text
    pc,       \* "cut", "embed", "save", or the end: "saved", "failed"
    start,    \* token the next window starts at
    chunks,   \* windows: [from, to), their tokens
    done,     \* windows of the worker's batches that are through
    sent,     \* windows of the batch under way that the client has sent
    reply,    \* vectors of that batch so far; a vector is named by its window
    vectors,  \* vectors of the batches that are through
    rows      \* what is saved: <<window, vector>>

vars == <<tokens, pc, start, chunks, done, sent, reply, vectors, rows>>

Window == [from: Nat, to: Nat]
Least(a, b) == IF a < b THEN a ELSE b

\* Mutant of Step: the windows do not overlap.
StepWithoutOverlap == Size

Step == Size - Overlap

Init ==
    /\ tokens \in 0 .. MaxTokens
    /\ pc = "cut" /\ start = 0 /\ chunks = <<>>
    /\ done = 0 /\ sent = 0 /\ reply = <<>> /\ vectors = <<>> /\ rows = <<>>

WindowEnd(first) == Least(first + Size, tokens)

\* One round of the loop of chunkText.
CutWindow ==
    /\ pc = "cut" /\ start < tokens
    /\ chunks' = Append(chunks, [from |-> start, to |-> WindowEnd(start)])
    /\ start' = start + Step
    /\ UNCHANGED <<tokens, pc, done, sent, reply, vectors, rows>>

\* A text without tokens fails the job, and so does one of nothing but white
\* space, which is not cut at all and counts here as one without tokens.
CutDone ==
    /\ pc = "cut" /\ ~(start < tokens)
    /\ pc' = IF chunks = <<>> THEN "failed" ELSE "embed"
    /\ UNCHANGED <<tokens, start, chunks, done, sent, reply, vectors, rows>>

\* Where the worker's batch ends.
BatchEnd == Least(done + Batch, Len(chunks))

\* Mutant of CountsMatch: a reply that is too short is taken.
CountsMatchUnchecked(n, k) == TRUE

\* "Gemini returned no embeddings for a batch"
CountsMatch(n, k) == n = k

\* The client sends what is next of the batch; the service may answer with fewer.
EmbedContent ==
    /\ pc = "embed" /\ done + sent < BatchEnd
    /\ LET first == done + sent + 1
           last == Least(first + ClientBatch - 1, BatchEnd)
       IN  \E n \in 0 .. (last - first + 1) :
             IF CountsMatch(n, last - first + 1)
             THEN /\ reply' = reply \o SubSeq(chunks, first, first + n - 1)
                  /\ sent' = sent + (last - first + 1)
                  /\ UNCHANGED pc
             ELSE pc' = "failed" /\ UNCHANGED <<reply, sent>>
    /\ UNCHANGED <<tokens, start, chunks, done, vectors, rows>>

BatchDone ==
    /\ pc = "embed" /\ done + sent = BatchEnd
    /\ vectors' = vectors \o reply /\ reply' = <<>> /\ sent' = 0 /\ done' = BatchEnd
    /\ pc' = IF BatchEnd = Len(chunks) THEN "save" ELSE "embed"
    /\ UNCHANGED <<tokens, start, chunks, rows>>

\* chunks.map((chunk, i) => ... vectors[i])
SaveChunks ==
    /\ pc = "save"
    /\ rows' = [i \in DOMAIN chunks |-> <<chunks[i], IF i \in DOMAIN vectors THEN vectors[i] ELSE NoVector>>]
    /\ pc' = "saved"
    /\ UNCHANGED <<tokens, start, chunks, done, sent, reply, vectors>>

\* Any call fails: the attempt is over, nothing is saved.
FailAttempt ==
    /\ pc \in {"embed", "save"} /\ pc' = "failed"
    /\ UNCHANGED <<tokens, start, chunks, done, sent, reply, vectors, rows>>

Next ==
    CutWindow \/ CutDone \/ EmbedContent \/ BatchDone \/ SaveChunks \/ FailAttempt

Spec == Init /\ [][Next]_vars

-----------------------------------------------------------------------------
TypeOK ==
    /\ tokens \in 0 .. MaxTokens /\ start \in Nat /\ done \in Nat /\ sent \in Nat
    /\ pc \in {"cut", "embed", "save", "saved", "failed"}
    /\ chunks \in Seq(Window) /\ reply \in Seq(Window) /\ vectors \in Seq(Window)
    /\ rows \in Seq(Window \X (Window \cup {NoVector}))

(***************************************************************************)
(* No passage is lost at a seam: every run of tokens no longer than the    *)
(* overlap and one more lies whole inside one window, so that neither a    *)
(* character of several tokens nor a short phrase exists only in halves    *)
(* (chunkText).                                                            *)
(***************************************************************************)
PassagesStayWhole ==
    pc # "cut" =>
        \A p \in 0 .. (tokens - 1) :
            \E i \in DOMAIN chunks :
                chunks[i].from <= p /\ Least(p + Overlap + 1, tokens) <= chunks[i].to

(***************************************************************************)
(* Each row has the vector of its own text, however the two sizes of a     *)
(* batch divide the windows and whatever the service answers (process,     *)
(* generateEmbeddings).                                                    *)
(***************************************************************************)
VectorsMatchChunks ==
    pc = "saved" => /\ Len(rows) = Len(chunks)
                    /\ \A i \in DOMAIN rows : rows[i] = <<chunks[i], chunks[i]>>
=============================================================================
