--------------------------- MODULE MCStagedCalls ---------------------------
(* Instances of StagedCalls for TLC. *)
EXTENDS StagedCallsProperties, TLC

Symmetry == Permutations(Requests)
=============================================================================
