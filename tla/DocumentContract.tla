-------------------------- MODULE DocumentContract --------------------------
(***************************************************************************)
(* What a document promises to the rest of the system, with no versions,   *)
(* jobs, handlers or clocks: indexing is atomic with the text it indexes,  *)
(* only a running ingestion can succeed or fail, a document leaves the     *)
(* trash by restore until a purge has claimed it, and a purge erases it.   *)
(***************************************************************************)
CONSTANTS
    Docs,    \* documents
    Values,  \* texts a document can have
    Nothing  \* the empty index

VARIABLES
    phase,   \* None, Processing, Ready or Failed
    trash,   \* active, trashed, doomed or purged
    source,  \* the text of the document
    index    \* the text its chunks were cut from

vars == <<phase, trash, source, index>>

Init ==
    /\ phase \in [Docs -> {"None", "Processing", "Ready"}]
    /\ trash = [d \in Docs |-> "active"]
    /\ source \in [Docs -> Values]
    /\ index = [d \in Docs |-> IF phase[d] = "Ready" THEN source[d] ELSE Nothing]

\* A new document, new content or a new file.
Submit(d) ==
    /\ trash[d] = "active"
    /\ phase' = [phase EXCEPT ![d] = "Processing"]
    /\ \E value \in Values : source' = [source EXCEPT ![d] = value]
    /\ UNCHANGED <<trash, index>>

Publish(d) ==
    /\ trash[d] = "active" /\ phase[d] = "Processing"
    /\ phase' = [phase EXCEPT ![d] = "Ready"]
    /\ index' = [index EXCEPT ![d] = source[d]]
    /\ UNCHANGED <<trash, source>>

GiveUp(d) ==
    /\ trash[d] = "active" /\ phase[d] = "Processing"
    /\ phase' = [phase EXCEPT ![d] = "Failed"]
    /\ UNCHANGED <<trash, source, index>>

Retry(d) ==
    /\ trash[d] = "active" /\ phase[d] = "Failed"
    /\ phase' = [phase EXCEPT ![d] = "Processing"]
    /\ UNCHANGED <<trash, source, index>>

Discard(d) ==
    /\ trash[d] = "active" /\ phase[d] # "None"
    /\ trash' = [trash EXCEPT ![d] = "trashed"]
    /\ UNCHANGED <<phase, source, index>>

Recover(d) ==
    /\ trash[d] = "trashed"
    /\ trash' = [trash EXCEPT ![d] = "active"]
    /\ phase' = [phase EXCEPT ![d] = IF @ = "Processing" THEN "Failed" ELSE @]
    /\ UNCHANGED <<source, index>>

Doom(d) ==
    /\ trash[d] = "trashed"
    /\ trash' = [trash EXCEPT ![d] = "doomed"]
    /\ UNCHANGED <<phase, source, index>>

Erase(d) ==
    /\ trash[d] = "doomed"
    /\ trash' = [trash EXCEPT ![d] = "purged"]
    /\ index' = [index EXCEPT ![d] = Nothing]
    /\ \E value \in Values : source' = [source EXCEPT ![d] = value]
    /\ UNCHANGED phase

Next == \E d \in Docs :
    Submit(d) \/ Publish(d) \/ GiveUp(d) \/ Retry(d)
    \/ Discard(d) \/ Recover(d) \/ Doom(d) \/ Erase(d)

Spec == Init /\ [][Next]_vars
=============================================================================
