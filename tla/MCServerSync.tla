---------------------------- MODULE MCServerSync ----------------------------
(* An instance of ServerSync for TLC. *)
EXTENDS ServerSyncProperties, TLC

CONSTANTS r1, r2, h1, h2, l1

RegisteredAtStart == <<h1, h2, None>>
HandwrittenAtStart == <<>>

Symmetry == Permutations({r1, r2})
=============================================================================
