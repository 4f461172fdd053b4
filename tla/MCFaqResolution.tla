-------------------------- MODULE MCFaqResolution --------------------------
(***************************************************************************)
(* FaqResolution and ChatTurn in one run.  They share no state, so each    *)
(* behaviour is of one of them, its part, while the other stays as it was. *)
(***************************************************************************)
EXTENDS FaqResolution, TLC

CONSTANTS Users, Demo, Sessions, DemoQuestions, Nobody, Untitled

VARIABLES
    part,
    sessions, messages, sources, unanswered, spent, turnCalls, titleJobs, turnsIssued, untold

turnVars ==
    <<sessions, messages, sources, unanswered, spent, turnCalls, titleJobs, turnsIssued, untold>>

T == INSTANCE ChatTurn WITH Turns <- Requests, calls <- turnCalls, jobs <- titleJobs,
                            issued <- turnsIssued

ASSUME PartsAssumption == T!ChatAssumption

PartsInit == part \in {"faq", "turns"} /\ Init /\ T!Init

PartsNext ==
    /\ UNCHANGED part
    /\ \/ part = "faq" /\ Next /\ UNCHANGED turnVars
       \/ part = "turns" /\ T!Next /\ UNCHANGED vars

PartsSpec == PartsInit /\ [][PartsNext]_<<part, vars, turnVars>>

Symmetry == Permutations(Requests) \cup Permutations(Questions)

\* Of ChatTurn: no title is forgotten.
TitledUnlessFailed == T!TitledUnlessFailed

\* Of ChatTurn: a title that is there stays.
TitleSettles == T!TitleSettles
=============================================================================
