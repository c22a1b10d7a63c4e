------------------------- MODULE ControllerAccounts -------------------------
(***************************************************************************)
(* Controllers, the sections they belong to and the SIP accounts they      *)
(* register with: the rows PostgreSQL keeps, and the administrators'       *)
(* requests of master.py and controller_sip.py that change them.           *)
(*                                                                         *)
(* A request checks in SELECTs of its own and then writes; sessions run at *)
(* READ COMMITTED, so other requests commit between two of its steps.  The *)
(* constraints of the tables are tested in the step that writes.           *)
(***************************************************************************)
CONSTANTS
    Sections, Controllers, Accounts,  \* ids; a BIGSERIAL id is given out once
    Extensions,  \* SIP extensions; a username, unique too, goes with its extension
    Secrets,     \* passwords
    Requests,    \* HTTP requests of administrators, each made once
    Payloads,    \* the bodies of PUT /sip-accounts/{id} that occur
    Workload,    \* the kinds of request that are made
    Registered,  \* Registered[a]: the extension of an account there at the start
    Assigned,    \* Assigned[c]: the account of controller c at the start
    Present,     \* the controllers that are there at the start
    Keep,        \* a column that a payload leaves out
    None

Kinds == {"create_account", "update_account", "delete_account", "assign",
          "create_controller", "update_controller", "delete_controller",
          "delete_section"}

Columns == [extension: Extensions, secret: Secrets, enabled: BOOLEAN]

Payload == [extension: Extensions \cup {Keep}, secret: Secrets \cup {Keep},
            enabled: BOOLEAN \cup {Keep}]

ASSUME AccountsAssumption ==
    /\ None \notin Sections \cup Controllers \cup Accounts \cup Extensions \cup Columns
    /\ Secrets # {}
    /\ Payloads \subseteq Payload
    /\ Workload \subseteq Kinds
    /\ Registered \in [Accounts -> Extensions \cup {None}]
    /\ \A a, b \in Accounts :
         Registered[a] = Registered[b] /\ Registered[a] # None => a = b
    /\ Present \subseteq Controllers
    /\ Assigned \in [Controllers -> Accounts \cup {None}]
    /\ \A c, d \in Controllers :
         Assigned[c] # None => /\ c \in Present
                               /\ Registered[Assigned[c]] # None
                               /\ Assigned[c] = Assigned[d] => c = d

VARIABLES
    sections,    \* the sections there are
    controller,  \* controller[c]: its row
    account,     \* account[a]: its row
    request      \* request[r]: where it is and what it has read

tables == <<sections, controller, account>>

RowStates == {"unused", "live", "deleted"}

ControllerRow == [row: RowStates, section: Sections \cup {None},
                  enabled: BOOLEAN, account: Accounts \cup {None}]

AccountRow == [row: RowStates, extension: Extensions \cup {None},
               secret: Secrets, enabled: BOOLEAN]

RequestSteps == {"start", "account", "unused", "assign", "update", "section",
                 "insert", "write", "remove", "done"}

Request == [at: RequestSteps, controller: Controllers \cup {None},
            account: Accounts \cup {None}, section: Sections \cup {None},
            enabled: BOOLEAN, columns: Columns \cup {None}]

AccountsTypeOK ==
    /\ sections \in SUBSET Sections
    /\ controller \in [Controllers -> ControllerRow]
    /\ account \in [Accounts -> AccountRow]
    /\ request \in [Requests -> Request]

Resting(step) == [at |-> step, controller |-> None, account |-> None,
                  section |-> None, enabled |-> TRUE, columns |-> None]

LiveController(c) == controller[c].row = "live"
LiveAccount(a) == account[a].row = "live"

\* The tables as earlier requests left them.
AccountsInit ==
    /\ sections = Sections
    /\ controller = [c \in Controllers |->
           [row |-> IF c \in Present THEN "live" ELSE "unused",
            section |-> None, enabled |-> TRUE, account |-> Assigned[c]]]
    /\ \E secret \in Secrets :
         account = [a \in Accounts |->
             [row |-> IF Registered[a] = None THEN "unused" ELSE "live",
              extension |-> Registered[a], secret |-> secret, enabled |-> TRUE]]
    /\ request = [r \in Requests |-> Resting("start")]

-----------------------------------------------------------------------------
(* The constraints of the tables. *)

\* sip_accounts.extension UNIQUE
ExtensionTaken(a, x) == \E b \in Accounts \ {a} : LiveAccount(b) /\ account[b].extension = x

\* Mutant: the partial unique index is missing.
AssignableToAny(c, a) == a # None => LiveAccount(a)

\* controllers.sip_account_id REFERENCES sip_accounts, and the partial unique
\* index uq_controllers_sip_account
Assignable(c, a) ==
    a # None => /\ LiveAccount(a)
                /\ \A d \in Controllers \ {c} : controller[d].account # a

\* controllers.section_id REFERENCES sections
Insertable(s) == s # None => s \in sections

Referenced(s) == \E c \in Controllers : LiveController(c) /\ controller[c].section = s

-----------------------------------------------------------------------------
At(r, step) == request[r].at = step

Finish(r) == request' = [request EXCEPT ![r] = Resting("done")]

Goto(r, step) == request' = [request EXCEPT ![r].at = step]

Begin(r, kind) == At(r, "start") /\ kind \in Workload

\* create_sip_account: INSERT, or 409.
CreateAccount(r) ==
    /\ Begin(r, "create_account")
    /\ \E a \in Accounts, columns \in Columns :
         /\ account[a].row = "unused"
         /\ account' = IF ExtensionTaken(a, columns.extension) THEN account
                       ELSE [account EXCEPT ![a] =
                               [row |-> "live", extension |-> columns.extension,
                                secret |-> columns.secret, enabled |-> columns.enabled]]
    /\ Finish(r)
    /\ UNCHANGED <<sections, controller>>

\* Mutant: `enabled` has no default.
FilledUnlessGiven(payload, row) ==
    [extension |-> IF payload.extension = Keep THEN row.extension ELSE payload.extension,
     secret |-> IF payload.secret = Keep THEN row.secret ELSE payload.secret,
     enabled |-> payload.enabled]

\* What the payload leaves out is written back as it was read.
Filled(payload, row) ==
    [extension |-> IF payload.extension = Keep THEN row.extension ELSE payload.extension,
     secret |-> IF payload.secret = Keep THEN row.secret ELSE payload.secret,
     enabled |-> IF payload.enabled = Keep THEN row.enabled ELSE payload.enabled]

\* update_sip_account reads the row ...
ReadAccount(r) ==
    /\ Begin(r, "update_account")
    /\ \E a \in Accounts, payload \in Payloads :
         IF LiveAccount(a)
         THEN request' = [request EXCEPT ![r] =
                [Resting("update") EXCEPT !.account = a,
                                          !.columns = Filled(payload, account[a])]]
         ELSE Finish(r)
    /\ UNCHANGED tables

\* ... and writes every column of it, unless it is gone or the extension is taken.
UpdateAccount(r) ==
    LET a == request[r].account  columns == request[r].columns IN
    /\ At(r, "update")
    /\ account' = IF ~LiveAccount(a) \/ ExtensionTaken(a, columns.extension) THEN account
                  ELSE [account EXCEPT ![a].extension = columns.extension,
                                       ![a].secret = columns.secret,
                                       ![a].enabled = columns.enabled]
    /\ Finish(r)
    /\ UNCHANGED <<sections, controller>>

\* Mutant: sip_account_id has no ON DELETE SET NULL.
KeepAccount(row, a) == row

\* ON DELETE SET NULL
WithoutAccount(row, a) == IF row.account = a THEN [row EXCEPT !.account = None] ELSE row

\* delete_sip_account, also of an account that is assigned.  The SELECT before the
\* DELETE decides nothing but the status code.
DeleteAccount(r) ==
    /\ Begin(r, "delete_account")
    /\ \E a \in Accounts :
         /\ LiveAccount(a)
         /\ account' = [account EXCEPT ![a].row = "deleted"]
         /\ controller' = [c \in Controllers |-> WithoutAccount(controller[c], a)]
    /\ Finish(r)
    /\ UNCHANGED sections

\* assign_controller_sip: the controller exists.  No account means unassign.
FindController(r) ==
    /\ Begin(r, "assign")
    /\ \E c \in Controllers, a \in Accounts \cup {None} :
         IF LiveController(c)
         THEN request' = [request EXCEPT ![r] =
                [Resting(IF a = None THEN "assign" ELSE "account") EXCEPT
                   !.controller = c, !.account = a]]
         ELSE Finish(r)
    /\ UNCHANGED tables

\* The account exists and is enabled.
CheckAccount(r) ==
    /\ At(r, "account")
    /\ IF LiveAccount(request[r].account) /\ account[request[r].account].enabled
       THEN Goto(r, "unused") ELSE Finish(r)
    /\ UNCHANGED tables

\* No other controller has it.
CheckUnused(r) ==
    /\ At(r, "unused")
    /\ IF \E c \in Controllers \ {request[r].controller} :
             LiveController(c) /\ controller[c].account = request[r].account
       THEN Finish(r) ELSE Goto(r, "assign")
    /\ UNCHANGED tables

\* UPDATE controllers SET sip_account_id: no row, an IntegrityError (500), or done.
Assign(r) ==
    LET c == request[r].controller  a == request[r].account IN
    /\ At(r, "assign")
    /\ controller' = IF LiveController(c) /\ Assignable(c, a)
                     THEN [controller EXCEPT ![c].account = a] ELSE controller
    /\ Finish(r)
    /\ UNCHANGED <<sections, account>>

-----------------------------------------------------------------------------
\* create_controller
NewController(r) ==
    /\ Begin(r, "create_controller")
    /\ \E s \in Sections \cup {None}, enabled \in BOOLEAN :
         request' = [request EXCEPT ![r] =
             [Resting(IF s = None THEN "insert" ELSE "section") EXCEPT
                !.section = s, !.enabled = enabled]]
    /\ UNCHANGED tables

\* update_controller reads the row; the section and `enabled` are kept or given.
ReadController(r) ==
    /\ Begin(r, "update_controller")
    /\ \E c \in Controllers :
         IF ~LiveController(c) THEN Finish(r)
         ELSE \E s \in Sections \cup {None, controller[c].section},
                 enabled \in {controller[c].enabled} \cup BOOLEAN :
                request' = [request EXCEPT ![r] =
                    [Resting(IF s = None THEN "write" ELSE "section") EXCEPT
                       !.controller = c, !.section = s, !.enabled = enabled]]
    /\ UNCHANGED tables

\* Both look the section up.
CheckSection(r) ==
    /\ At(r, "section")
    /\ IF request[r].section \in sections
       THEN Goto(r, IF request[r].controller = None THEN "insert" ELSE "write")
       ELSE Finish(r)
    /\ UNCHANGED tables

InsertController(r) ==
    /\ At(r, "insert")
    /\ \E c \in Controllers :
         /\ controller[c].row = "unused"
         /\ controller' = IF Insertable(request[r].section)
                          THEN [controller EXCEPT ![c] =
                                  [row |-> "live", section |-> request[r].section,
                                   enabled |-> request[r].enabled, account |-> None]]
                          ELSE controller
    /\ Finish(r)
    /\ UNCHANGED <<sections, account>>

\* The UPDATE names section_id and enabled, and leaves sip_account_id alone.
WriteController(r) ==
    LET c == request[r].controller IN
    /\ At(r, "write")
    /\ controller' = IF LiveController(c) /\ Insertable(request[r].section)
                     THEN [controller EXCEPT ![c].section = request[r].section,
                                             ![c].enabled = request[r].enabled]
                     ELSE controller
    /\ Finish(r)
    /\ UNCHANGED <<sections, account>>

DeleteController(r) ==
    /\ Begin(r, "delete_controller")
    /\ \E c \in Controllers :
         /\ LiveController(c)
         /\ controller' = [controller EXCEPT ![c].row = "deleted", ![c].section = None,
                                             ![c].account = None]
    /\ Finish(r)
    /\ UNCHANGED <<sections, account>>

\* delete_section counts the controllers of the section ...
CountReferences(r) ==
    /\ Begin(r, "delete_section")
    /\ \E s \in sections :
         IF Referenced(s) THEN Finish(r)
         ELSE request' = [request EXCEPT ![r] = [Resting("remove") EXCEPT !.section = s]]
    /\ UNCHANGED tables

\* ... and deletes it, unless a reference came meanwhile (IntegrityError, 409).
RemoveSection(r) ==
    /\ At(r, "remove")
    /\ sections' = IF Referenced(request[r].section) THEN sections
                   ELSE sections \ {request[r].section}
    /\ Finish(r)
    /\ UNCHANGED <<controller, account>>

RequestStep(r) ==
    \/ CreateAccount(r) \/ ReadAccount(r) \/ UpdateAccount(r) \/ DeleteAccount(r)
    \/ FindController(r) \/ CheckAccount(r) \/ CheckUnused(r) \/ Assign(r)
    \/ NewController(r) \/ ReadController(r) \/ CheckSection(r)
    \/ InsertController(r) \/ WriteController(r) \/ DeleteController(r)
    \/ CountReferences(r) \/ RemoveSection(r)
=============================================================================
