------------------------ MODULE MCStatusNotification ------------------------
(***************************************************************************)
(* StatusNotification and Chunking in one run.  They share no state, so    *)
(* each behaviour is of one of them, its part, while the other stays as it *)
(* was.                                                                    *)
(***************************************************************************)
EXTENDS StatusNotification

CONSTANTS Size, Overlap, Batch, ClientBatch, MaxTokens, NoVector

VARIABLES
    part,
    tokens, pc, start, chunks, done, sent, reply, vectors, rows

chunkVars == <<tokens, pc, start, chunks, done, sent, reply, vectors, rows>>

C == INSTANCE Chunking

ASSUME PartsAssumption == C!ChunkingAssumption

\* The part that rests has one initial state.
PartsInit ==
    /\ Init /\ C!Init
    /\ \/ part = "status" /\ tokens = 0
       \/ part = "chunks" /\ row.status = "Ready" /\ ~row.restricted /\ grants = {}

PartsNext ==
    /\ UNCHANGED part
    /\ \/ part = "status" /\ Next /\ UNCHANGED chunkVars
       \/ part = "chunks" /\ C!Next /\ UNCHANGED vars

PartsSpec ==
    /\ PartsInit /\ [][PartsNext]_<<part, vars, chunkVars>>
    /\ WF_<<part, vars, chunkVars>>(part = "status" /\ NotifyStep /\ UNCHANGED <<part, chunkVars>>)

\* Of Chunking: no passage is lost at a seam.
PassagesStayWhole == C!PassagesStayWhole

\* Of Chunking: each row has the vector of its own text.
VectorsMatchChunks == C!VectorsMatchChunks
=============================================================================
