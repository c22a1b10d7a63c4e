--------------------------- MODULE MCCallControl ---------------------------
(* Instances of CallControl for TLC. *)
EXTENDS CallControlInvariant, TLC

\* One controller owns every station.
OneController == [e \in Stations |-> CHOOSE s \in Controllers : TRUE]

Symmetry ==
    Permutations(Channels) \cup Permutations(Requests) \cup Permutations(Stations)
=============================================================================
