--------------------- MODULE SipProvisioningProperties ---------------------
(***************************************************************************)
(* What the provisioning of controllers promises.                          *)
(***************************************************************************)
EXTENDS SipProvisioning

\* Whatever requests check before they write, and whoever writes in between: no
\* two accounts have an extension in common, an account belongs to one controller,
\* and no controller names an account or a section that is gone
\* (controller_sip.py:84-98, master.py:156-173).
TablesAgree ==
    /\ \A a, b \in Accounts :
         LiveAccount(a) /\ LiveAccount(b) /\ account[a].extension = account[b].extension
           => a = b
    /\ \A c \in Controllers :
         /\ controller[c].account # None => LiveController(c) /\ LiveAccount(controller[c].account)
         /\ controller[c].section # None => LiveController(c) /\ controller[c].section \in sections
    /\ \A c, d \in Controllers :
         controller[c].account # None /\ controller[c].account = controller[d].account => c = d

\* No run of the script ever stops at a duplicate extension: one account given to
\* two controllers would end provisioning for all of them
\* (sync_controller_sip.py:150-151).
NoDuplicateEndpoint == \A p \in Scripts : ~Duplicate(script[p].rows)

-----------------------------------------------------------------------------
(* Why they hold. *)

NumberedInv == \A a \in Accounts : LiveAccount(a) => account[a].extension # None

\* A request has read what its next step uses.
RequestInv(q) ==
    /\ q.at \in {"account", "unused"} => q.account # None
    /\ q.at \in {"account", "unused", "assign", "write"} => q.controller # None
    /\ q.at = "update" => q.account # None /\ q.columns # None
    /\ q.at \in {"section", "remove"} => q.section # None

RequestsInv == \A r \in Requests : RequestInv(request[r])

ProvisioningInv ==
    /\ ProvisioningTypeOK /\ TablesAgree /\ NumberedInv /\ RequestsInv
    /\ NoDuplicateEndpoint

-----------------------------------------------------------------------------
(* The file against the abstract specification. *)

Held == [p \in Scripts |->
           IF ScriptAt(p, "query") THEN {} ELSE {Rendered(script[p].rows)}]

Publication == INSTANCE SipPublication WITH
    Writers <- Scripts, Versions <- SUBSET Endpoint,
    source <- Rendered(Selected), held <- Held, published <- file

\* "The script writes atomically": Asterisk finds a whole rendering of the tables
\* as they were at one moment while the script ran, however runs overlap, fail and
\* are killed (sync_controller_sip.py:174-184).
FileIsPublished == Publication!Spec

-----------------------------------------------------------------------------
(* The procedure. *)

\* GET /available-controllers/{id}/sip-credentials answers with the account.
HasCredentials(c) ==
    /\ EnabledController(c)
    /\ controller[c].account # None
    /\ account[controller[c].account].enabled

Credentials(c) == [extension |-> account[controller[c].account].extension,
                   secret |-> account[controller[c].account].secret]

\* What a browser is given to register with, and what Asterisk accepts, agree.
CredentialsAgree ==
    /\ \A c \in Controllers :
         HasCredentials(c) => \/ Credentials(c).extension \in Legacy
                              \/ Credentials(c) \in loaded
    /\ \A e \in loaded : \E c \in Controllers : HasCredentials(c) /\ Credentials(c) = e

\* "After changing a controller's SIP account, password, assignment, or enabled state
\* ..., run the sync script again and reload PJSIP": after that they agree until the
\* next change, whatever requests write in the middle of it and however often the
\* script and the reload are repeated, overlap or are killed.  One thing undoes it: a
\* run from before the change that ends after it, and then the script has to be run
\* again (deployment/scripts/README.md:48-49, sync_controller_sip.py:64-95, :174-184).
ProcedureSuffices == followed = "script and reload" => CredentialsAgree

\* Why it suffices: a run that is not outdated has read what is selected now.
FollowedInv ==
    /\ \A p \in Scripts \ outdated : ScriptAt(p, "query") \/ script[p].rows = Selected
    /\ followed # "nothing" => file = Rendered(Selected)
    /\ followed = "script and reload" => loaded = Rendered(Selected)
=============================================================================
