--------------------------- MODULE SipPublication ---------------------------
(***************************************************************************)
(* What provisioning promises, whatever happens to the scripts: a reader   *)
(* of the published configuration finds one version of the source, whole,  *)
(* that was current at some moment while the script that published it ran. *)
(***************************************************************************)
CONSTANTS Writers, Versions

VARIABLES
    source,    \* the current version
    held,      \* held[w]: the version, if any, that script w works from
    published  \* the version that readers find

vars == <<source, held, published>>

Init == /\ source \in Versions
        /\ held = [w \in Writers |-> {}]
        /\ published \in Versions

Change == /\ source' \in Versions
          /\ UNCHANGED <<held, published>>

Take(w) == /\ held[w] = {}
           /\ held' = [held EXCEPT ![w] = {source}]
           /\ UNCHANGED <<source, published>>

\* The script ends without publishing.
Abandon(w) == /\ held' = [held EXCEPT ![w] = {}]
              /\ UNCHANGED <<source, published>>

Publish(w) == /\ published' \in held[w]
              /\ held' = [held EXCEPT ![w] = {}]
              /\ UNCHANGED source

Next == Change \/ \E w \in Writers : Take(w) \/ Abandon(w) \/ Publish(w)

Spec == Init /\ [][Next]_vars
=============================================================================
