-------------------------- MODULE SipProvisioning --------------------------
(***************************************************************************)
(* deployment/scripts/sync_controller_sip.py next to the requests that     *)
(* change the tables it reads: it queries the accounts assigned to enabled *)
(* controllers, renders them, and replaces the PJSIP file that Asterisk    *)
(* reads at a reload.  Nothing keeps two administrators from running it at *)
(* the same time; a run may be killed between any two of its steps.        *)
(***************************************************************************)
EXTENDS ControllerAccounts, Naturals

CONSTANTS
    Scripts,    \* runs of the script that may overlap, each made again and again
    Legacy,     \* LEGACY_STATIC_EXTENSIONS, configured in pjsip-controller.conf
    Dialable,   \* the extensions that match 9[0-9]{3}
    MaxKills    \* bound: runs that are killed

ASSUME ProvisioningAssumption ==
    /\ Legacy \subseteq Dialable /\ Dialable \subseteq Extensions
    /\ MaxKills \in Nat

VARIABLES
    script,  \* script[p]: where the run is, the rows it has read
    file,    \* the endpoints of pjsip.d/tccs-controllers.conf
    loaded,  \* the generated endpoints that Asterisk has loaded
    kills,
    outdated,  \* history: runs that queried before the selected rows last changed
    followed   \* history: what administrators have done since that change

history == <<outdated, followed>>
vars == <<sections, controller, account, request, script, file, loaded, kills,
          outdated, followed>>

Endpoint == [extension: Extensions, secret: Secrets]

\* A row of the query.
Selection == [controller: Controllers, extension: Extensions, secret: Secrets]

Script == [at: {"query", "render", "write", "replace"}, rows: SUBSET Selection]

ProvisioningTypeOK ==
    /\ AccountsTypeOK
    /\ script \in [Scripts -> Script]
    /\ file \in SUBSET Endpoint
    /\ loaded \in SUBSET Endpoint
    /\ kills \in Nat
    /\ outdated \in SUBSET Scripts
    /\ followed \in {"nothing", "script", "script and reload"}

ProvisioningInit ==
    /\ AccountsInit
    /\ script = [p \in Scripts |-> [at |-> "query", rows |-> {}]]
    /\ file = {}
    /\ loaded = {}
    /\ kills = 0
    /\ outdated = {}
    /\ followed = "nothing"

EnabledController(c) == LiveController(c) /\ controller[c].enabled

SelectedRow(c) == [controller |-> c, extension |-> account[controller[c].account].extension,
                   secret |-> account[controller[c].account].secret]

\* Mutant: accounts that are disabled are selected.
Provisioned(c) == EnabledController(c) /\ controller[c].account # None

\* controllers JOIN sip_accounts WHERE both are enabled
Provisionable(c) ==
    /\ EnabledController(c)
    /\ controller[c].account # None
    /\ LiveAccount(controller[c].account)
    /\ account[controller[c].account].enabled

Selected == {SelectedRow(c) : c \in {d \in Controllers : Provisionable(d)}}

\* render skips the extensions that are configured statically.
Rendered(rows) ==
    {[extension |-> x.extension, secret |-> x.secret]
       : x \in {y \in rows : y.extension \notin Legacy}}

Duplicate(rows) ==
    \E x, y \in rows : x # y /\ x.extension = y.extension /\ x.extension \notin Legacy

\* It exits at an extension that is not 9xxx and at one it has seen.
Renderable(rows) == ~Duplicate(rows) /\ \A x \in rows : x.extension \in Dialable

-----------------------------------------------------------------------------
ScriptAt(p, step) == script[p].at = step

Exit(p) ==
    /\ script' = [script EXCEPT ![p] = [at |-> "query", rows |-> {}]]
    /\ outdated' = outdated \ {p}

\* query_accounts: one SELECT
Query(p) ==
    /\ ScriptAt(p, "query")
    /\ script' = [script EXCEPT ![p] = [at |-> "render", rows |-> Selected]]
    /\ UNCHANGED <<tables, request, file, loaded, kills, history>>

\* render, or SystemExit with the file untouched
Render(p) ==
    /\ ScriptAt(p, "render")
    /\ IF Renderable(script[p].rows)
       THEN script' = [script EXCEPT ![p].at = "write"] /\ UNCHANGED outdated
       ELSE Exit(p)
    /\ UNCHANGED <<tables, request, file, loaded, kills, followed>>

\* Mutant: the file is opened for writing, which empties it.
WriteInPlace(p) ==
    /\ ScriptAt(p, "write")
    /\ script' = [script EXCEPT ![p].at = "replace"]
    /\ file' = {}
    /\ UNCHANGED <<tables, request, loaded, kills, history>>

\* write_atomic writes a temporary file that nobody includes ...
WriteTemporary(p) ==
    /\ ScriptAt(p, "write")
    /\ script' = [script EXCEPT ![p].at = "replace"]
    /\ UNCHANGED <<tables, request, file, loaded, kills, history>>

\* ... and renames it over the file.
Replace(p) ==
    /\ ScriptAt(p, "replace")
    /\ file' = Rendered(script[p].rows)
    /\ Exit(p)
    /\ followed' = IF p \in outdated THEN "nothing"
                   ELSE IF followed = "nothing" THEN "script" ELSE followed
    /\ UNCHANGED <<tables, request, loaded, kills>>

\* The run is killed; a temporary file may stay behind.
Kill(p) ==
    /\ ~ScriptAt(p, "query")
    /\ kills < MaxKills
    /\ kills' = kills + 1
    /\ Exit(p)
    /\ UNCHANGED <<tables, request, file, loaded, followed>>

\* asterisk -rx 'pjsip reload'
Reload ==
    /\ loaded' = file
    /\ followed' = IF followed = "script" THEN "script and reload" ELSE followed
    /\ UNCHANGED <<tables, request, script, file, kills, outdated>>

AdministratorStep(r) ==
    /\ RequestStep(r)
    /\ IF Selected' = Selected THEN UNCHANGED history
       ELSE /\ outdated' = {p \in Scripts : ~ScriptAt(p, "query")}
            /\ followed' = "nothing"
    /\ UNCHANGED <<script, file, loaded, kills>>

RunStep(p) == Query(p) \/ Render(p) \/ WriteTemporary(p) \/ Replace(p)

ProvisioningNext ==
    \/ \E r \in Requests : AdministratorStep(r)
    \/ \E p \in Scripts : RunStep(p) \/ Kill(p)
    \/ Reload

ProvisioningSpec == ProvisioningInit /\ [][ProvisioningNext]_vars
=============================================================================
