----------------------------- MODULE CallTypes -----------------------------
(***************************************************************************)
(* The identities that every part of TCCS Core call control talks about.   *)
(***************************************************************************)
EXTENDS Naturals

CONSTANTS
    Calls,        \* call ids; started_at grows with the id
    Controllers,  \* SIP extensions that own calls (role "controller")
    Stations,     \* SIP extensions that are called (role "participant")
    Channels,     \* Asterisk channel ids, each used at most once
    None          \* "no value": SQL NULL, Python None, a missing dict key

ASSUME TypesAssumption ==
    /\ Calls \subseteq Nat
    /\ Controllers \cap Stations = {}
    /\ None \notin Calls \cup Controllers \cup Stations \cup Channels

Extensions == Controllers \cup Stations

Maybe(S) == S \cup {None}
=============================================================================
