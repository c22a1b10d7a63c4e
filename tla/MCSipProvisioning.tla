-------------------------- MODULE MCSipProvisioning --------------------------
(* An instance of SipProvisioning for TLC. *)
EXTENDS SipProvisioningProperties, TLC

CONSTANTS c1, c2, c3, a1, a2, a3, x1, x2, legacy, outside, k2

\* An account that is assigned, one that is not, and ids still to be given out.
RegisteredAtStart == a1 :> x1 @@ a2 :> x2 @@ a3 :> None
AssignedAtStart == c1 :> a1 @@ c2 :> None @@ c3 :> None

\* The account is disabled, renamed, given an extension or a password.
Given(x, k, e) == [extension |-> x, secret |-> k, enabled |-> e]
Bodies == {Given(Keep, Keep, FALSE), Given(Keep, Keep, Keep), Given(x2, Keep, Keep),
           Given(Keep, k2, Keep)}
=============================================================================
