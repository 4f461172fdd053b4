------------------------ MODULE MCDocumentLifecycle ------------------------
(* Constants and symmetry for the runs of DocumentLifecycle. *)
EXTENDS DocumentLifecycle, TLC

RequestSymmetry == Permutations(Requests)
=============================================================================
