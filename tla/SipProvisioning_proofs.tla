----------------------- MODULE SipProvisioning_proofs -----------------------
(***************************************************************************)
(* For any number of sections, controllers, accounts, requests and runs of *)
(* the script: the tables agree with each other, no run stops at a         *)
(* duplicate, the file is always one whole publication, and following the  *)
(* procedure suffices.                                                     *)
(***************************************************************************)
EXTENDS SipProvisioningProperties, TLAPS

-----------------------------------------------------------------------------
(* Requests. *)

LEMMA RestingTypes ==
    ASSUME NEW step \in RequestSteps
    PROVE  Resting(step) \in Request
  BY DEF Resting, Request

LEMMA BecomesKeeps ==
    ASSUME AccountsTypeOK, RequestsInv, NEW r \in Requests, NEW q \in Request,
           request' = [request EXCEPT ![r] = q], RequestInv(q)
    PROVE  request' \in [Requests -> Request] /\ RequestsInv'
  BY DEF AccountsTypeOK, RequestsInv, RequestInv

LEMMA FinishKeeps ==
    ASSUME AccountsTypeOK, RequestsInv, NEW r \in Requests, Finish(r)
    PROVE  request' \in [Requests -> Request] /\ RequestsInv'
<1>1. Resting("done") \in Request /\ RequestInv(Resting("done"))
  BY RestingTypes DEF RequestSteps, RequestInv, Resting
<1> QED
  BY <1>1, BecomesKeeps DEF Finish

LEMMA GotoKeeps ==
    ASSUME AccountsTypeOK, RequestsInv, NEW r \in Requests, NEW step \in RequestSteps,
           Goto(r, step), RequestInv([request[r] EXCEPT !.at = step])
    PROVE  request' \in [Requests -> Request] /\ RequestsInv'
<1>1. request' = [request EXCEPT ![r] = [request[r] EXCEPT !.at = step]]
  BY DEF Goto
<1>2. [request[r] EXCEPT !.at = step] \in Request
  BY DEF AccountsTypeOK, Request
<1> QED
  BY <1>1, <1>2, BecomesKeeps

LEMMA FilledTypes ==
    ASSUME AccountsTypeOK, NEW a \in Accounts, account[a].extension # None,
           NEW payload \in Payloads
    PROVE  Filled(payload, account[a]) \in Columns
<1>1. payload \in Payload /\ account[a] \in AccountRow
  BY AccountsAssumption DEF AccountsTypeOK
<1>2. /\ payload.extension \in Extensions \cup {Keep}
      /\ payload.secret \in Secrets \cup {Keep}
      /\ payload.enabled \in BOOLEAN \cup {Keep}
  BY <1>1 DEF Payload
<1>3. /\ account[a].extension \in Extensions
      /\ account[a].secret \in Secrets
      /\ account[a].enabled \in BOOLEAN
  BY <1>1 DEF AccountRow
<1>4. (IF payload.extension = Keep THEN account[a].extension ELSE payload.extension)
        \in Extensions
  BY <1>2, <1>3
<1>5. (IF payload.secret = Keep THEN account[a].secret ELSE payload.secret) \in Secrets
  BY <1>2, <1>3
<1>6. (IF payload.enabled = Keep THEN account[a].enabled ELSE payload.enabled) \in BOOLEAN
  BY <1>2, <1>3, Zenon
<1> QED
  BY <1>4, <1>5, <1>6 DEF Filled, Columns

LEMMA RequestStepKeeps ==
    ASSUME AccountsTypeOK, RequestsInv, NumberedInv, NEW r \in Requests, RequestStep(r)
    PROVE  request' \in [Requests -> Request] /\ RequestsInv'
<1>0. request[r] \in Request /\ RequestInv(request[r])
  BY DEF AccountsTypeOK, RequestsInv
<1> USE DEF RequestSteps
<1>1. CASE Finish(r)
  BY <1>1, FinishKeeps
<1>2. CASE ReadAccount(r)
  <2>1. PICK a \in Accounts, payload \in Payloads :
          IF LiveAccount(a)
          THEN request' = [request EXCEPT ![r] =
                 [Resting("update") EXCEPT !.account = a,
                                           !.columns = Filled(payload, account[a])]]
          ELSE Finish(r)
    BY <1>2 DEF ReadAccount
  <2> DEFINE q == [Resting("update") EXCEPT !.account = a,
                                            !.columns = Filled(payload, account[a])]
  <2>2. CASE LiveAccount(a)
    <3>1. Filled(payload, account[a]) \in Columns
      BY <2>2, FilledTypes DEF NumberedInv
    <3>2. a # None
      BY AccountsAssumption
    <3>3. q \in Request
      BY <3>1 DEF Resting, Request
    <3>4. Filled(payload, account[a]) # None
      BY <3>1, AccountsAssumption
    <3>5. RequestInv(q)
      BY <3>2, <3>4 DEF RequestInv, Resting
    <3> HIDE DEF q
    <3> QED
      BY <2>1, <2>2, <3>3, <3>5, BecomesKeeps DEF q
  <2> QED
    BY <2>1, <2>2, FinishKeeps
<1>3. CASE FindController(r)
  <2>1. PICK c \in Controllers, a \in Accounts \cup {None} :
          IF LiveController(c)
          THEN request' = [request EXCEPT ![r] =
                 [Resting(IF a = None THEN "assign" ELSE "account") EXCEPT
                    !.controller = c, !.account = a]]
          ELSE Finish(r)
    BY <1>3 DEF FindController
  <2> DEFINE q == [Resting(IF a = None THEN "assign" ELSE "account") EXCEPT
                     !.controller = c, !.account = a]
  <2>2. q \in Request
    BY DEF Resting, Request
  <2>3. RequestInv(q)
    BY AccountsAssumption DEF RequestInv, Resting
  <2> HIDE DEF q
  <2> QED
    BY <2>1, <2>2, <2>3, BecomesKeeps, FinishKeeps DEF q
<1>4. CASE CheckAccount(r)
  BY <1>0, <1>4, GotoKeeps, FinishKeeps DEF CheckAccount, RequestInv, At, Request
<1>5. CASE CheckUnused(r)
  BY <1>0, <1>5, GotoKeeps, FinishKeeps DEF CheckUnused, RequestInv, At, Request
<1>6. CASE NewController(r)
  <2>1. PICK t \in Sections \cup {None}, enabled \in BOOLEAN :
          request' = [request EXCEPT ![r] =
             [Resting(IF t = None THEN "insert" ELSE "section") EXCEPT
                !.section = t, !.enabled = enabled]]
    BY <1>6 DEF NewController
  <2> DEFINE q == [Resting(IF t = None THEN "insert" ELSE "section") EXCEPT
                     !.section = t, !.enabled = enabled]
  <2>2. q \in Request
    BY DEF Resting, Request
  <2>3. RequestInv(q)
    BY DEF RequestInv, Resting
  <2> HIDE DEF q
  <2> QED
    BY <2>1, <2>2, <2>3, BecomesKeeps DEF q
<1>7. CASE ReadController(r)
  <2>1. PICK c \in Controllers :
          IF ~LiveController(c) THEN Finish(r)
          ELSE \E t \in Sections \cup {None, controller[c].section},
                  enabled \in {controller[c].enabled} \cup BOOLEAN :
                 request' = [request EXCEPT ![r] =
                     [Resting(IF t = None THEN "write" ELSE "section") EXCEPT
                        !.controller = c, !.section = t, !.enabled = enabled]]
    BY <1>7 DEF ReadController
  <2>2. controller[c].section \in Sections \cup {None} /\ controller[c].enabled \in BOOLEAN
    BY DEF AccountsTypeOK, ControllerRow
  <2>3. CASE LiveController(c)
    <3>1. PICK t \in Sections \cup {None}, enabled \in BOOLEAN :
            request' = [request EXCEPT ![r] =
                [Resting(IF t = None THEN "write" ELSE "section") EXCEPT
                   !.controller = c, !.section = t, !.enabled = enabled]]
      BY <2>1, <2>2, <2>3
    <3> DEFINE q == [Resting(IF t = None THEN "write" ELSE "section") EXCEPT
                       !.controller = c, !.section = t, !.enabled = enabled]
    <3>2. q \in Request
      BY DEF Resting, Request
    <3>3. RequestInv(q)
      BY AccountsAssumption DEF RequestInv, Resting
    <3> HIDE DEF q
    <3> QED
      BY <3>1, <3>2, <3>3, BecomesKeeps DEF q
  <2> QED
    BY <2>1, <2>3, FinishKeeps
<1>8. CASE CheckSection(r)
  <2>1. CASE request[r].section \in sections
    <3> DEFINE step == IF request[r].controller = None THEN "insert" ELSE "write"
    <3>1. Goto(r, step)
      BY <1>8, <2>1 DEF CheckSection
    <3>2. RequestInv([request[r] EXCEPT !.at = step])
      BY <1>0 DEF RequestInv, Request
    <3> QED
      BY <3>1, <3>2, GotoKeeps
  <2> QED
    BY <1>8, <2>1, FinishKeeps DEF CheckSection
<1>9. CASE CountReferences(r)
  <2>1. PICK t \in sections :
          IF Referenced(t) THEN Finish(r)
          ELSE request' = [request EXCEPT ![r] = [Resting("remove") EXCEPT !.section = t]]
    BY <1>9 DEF CountReferences
  <2>2. t \in Sections /\ t # None
    BY AccountsAssumption DEF AccountsTypeOK
  <2> DEFINE q == [Resting("remove") EXCEPT !.section = t]
  <2>3. q \in Request
    BY <2>2 DEF Resting, Request
  <2>4. RequestInv(q)
    BY <2>2 DEF RequestInv, Resting
  <2> HIDE DEF q
  <2> QED
    BY <2>1, <2>3, <2>4, BecomesKeeps, FinishKeeps DEF q
<1> QED
  BY <1>1, <1>2, <1>3, <1>4, <1>5, <1>6, <1>7, <1>8, <1>9
     DEF RequestStep, CreateAccount, UpdateAccount, DeleteAccount, Assign,
         InsertController, WriteController, DeleteController, RemoveSection

-----------------------------------------------------------------------------
(* Tables. *)

TablesTypeOK ==
    /\ sections \in SUBSET Sections
    /\ controller \in [Controllers -> ControllerRow]
    /\ account \in [Accounts -> AccountRow]

TablesInv == TablesTypeOK /\ TablesAgree /\ NumberedInv

LEMMA AccountChanges ==
    ASSUME TablesInv, NEW a \in Accounts, NEW row \in AccountRow,
           row.row = "live", row.extension # None, ~ExtensionTaken(a, row.extension),
           account' = [account EXCEPT ![a] = row], UNCHANGED <<sections, controller>>
    PROVE  TablesInv'
<1> USE DEF TablesInv, TablesTypeOK
<1>1. TablesTypeOK'
  OBVIOUS
<1>2. NumberedInv'
  BY DEF NumberedInv, LiveAccount
<1>3. \A b \in Accounts : LiveAccount(b)' => b = a \/ (LiveAccount(b) /\ account'[b] = account[b])
  BY DEF LiveAccount
<1>4. account'[a] = row /\ LiveAccount(a)'
  BY DEF LiveAccount
<1>5. ASSUME NEW b \in Accounts, NEW d \in Accounts, LiveAccount(b)', LiveAccount(d)',
             account'[b].extension = account'[d].extension
      PROVE  b = d
  <2>1. CASE b = a /\ d # a
    BY <1>3, <1>4, <1>5, <2>1 DEF ExtensionTaken
  <2>2. CASE b # a /\ d = a
    BY <1>3, <1>4, <1>5, <2>2 DEF ExtensionTaken
  <2>3. CASE b # a /\ d # a
    BY <1>3, <1>5, <2>3 DEF TablesAgree
  <2> QED
    BY <2>1, <2>2, <2>3
<1>6. \A b \in Accounts : LiveAccount(b) => LiveAccount(b)'
  BY DEF LiveAccount
<1> QED
  BY <1>1, <1>2, <1>5, <1>6 DEF TablesAgree, LiveController, ControllerRow

LEMMA ControllerChanges ==
    ASSUME TablesInv, NEW c \in Controllers, NEW row \in ControllerRow,
           row.account # None \/ row.section # None => row.row = "live",
           Assignable(c, row.account), Insertable(row.section),
           controller' = [controller EXCEPT ![c] = row], UNCHANGED <<sections, account>>
    PROVE  TablesInv'
<1> USE DEF TablesInv, TablesTypeOK
<1>1. TablesTypeOK' /\ NumberedInv'
  BY DEF NumberedInv, LiveAccount
<1>2. controller'[c] = row /\ \A d \in Controllers \ {c} : controller'[d] = controller[d]
  OBVIOUS
<1>3. \A d \in Controllers : row.account # None /\ d # c => controller[d].account # row.account
  BY DEF Assignable
<1>4. row.account # None => LiveAccount(row.account)
  BY DEF Assignable
<1> QED
  BY <1>1, <1>2, <1>3, <1>4 DEF TablesAgree, LiveController, LiveAccount, Insertable

LEMMA StillTables ==
    ASSUME TablesInv, UNCHANGED tables
    PROVE  TablesInv'
  BY DEF TablesInv, TablesTypeOK, TablesAgree, NumberedInv, tables, LiveController, LiveAccount

LEMMA CreateAccountKeeps ==
    ASSUME TablesInv, NEW r \in Requests, CreateAccount(r)
    PROVE  TablesInv'
<1>1. PICK a \in Accounts, columns \in Columns :
        account' = IF ExtensionTaken(a, columns.extension) THEN account
                   ELSE [account EXCEPT ![a] =
                           [row |-> "live", extension |-> columns.extension,
                            secret |-> columns.secret, enabled |-> columns.enabled]]
  BY DEF CreateAccount
<1> DEFINE row == [row |-> "live", extension |-> columns.extension,
                   secret |-> columns.secret, enabled |-> columns.enabled]
<1>2. row \in AccountRow /\ row.row = "live" /\ row.extension = columns.extension
  BY DEF Columns, AccountRow, RowStates
<1>3. row.extension # None
  BY <1>2, AccountsAssumption DEF Columns
<1> HIDE DEF row
<1>4. UNCHANGED <<sections, controller>>
  BY DEF CreateAccount
<1> QED
  BY <1>1, <1>2, <1>3, <1>4, AccountChanges, StillTables DEF row, tables

LEMMA UpdateAccountKeeps ==
    ASSUME TablesInv, AccountsTypeOK, RequestsInv, NEW r \in Requests, UpdateAccount(r)
    PROVE  TablesInv'
<1> DEFINE a == request[r].account
           columns == request[r].columns
           row == [account[a] EXCEPT !.extension = columns.extension,
                                     !.secret = columns.secret, !.enabled = columns.enabled]
<1>1. a \in Accounts /\ columns \in Columns
  BY DEF AccountsTypeOK, Request, RequestsInv, RequestInv, UpdateAccount, At
<1>2. UNCHANGED <<sections, controller>>
  BY DEF UpdateAccount
<1>3. CASE LiveAccount(a) /\ ~ExtensionTaken(a, columns.extension)
  <2>1. account' = [account EXCEPT ![a] = row]
    BY <1>1, <1>3 DEF UpdateAccount, AccountsTypeOK
  <2>a. account[a] \in AccountRow /\ account[a].row = "live"
    BY <1>1, <1>3 DEF AccountsTypeOK, LiveAccount
  <2>b. /\ columns.extension \in Extensions /\ columns.secret \in Secrets
        /\ columns.enabled \in BOOLEAN /\ columns.extension # None
    BY <1>1, AccountsAssumption DEF Columns
  <2> HIDE DEF a, columns
  <2>2. /\ row \in AccountRow /\ row.row = "live"
        /\ row.extension = columns.extension /\ row.extension # None
    BY <2>a, <2>b DEF AccountRow
  <2> HIDE DEF row, a, columns
  <2> QED
    BY <1>1, <1>2, <1>3, <2>1, <2>2, AccountChanges
<1>4. CASE ~LiveAccount(a) \/ ExtensionTaken(a, columns.extension)
  BY <1>2, <1>4, StillTables DEF UpdateAccount, tables
<1> QED
  BY <1>3, <1>4

LEMMA DeleteAccountKeeps ==
    ASSUME TablesInv, NEW r \in Requests, DeleteAccount(r)
    PROVE  TablesInv'
<1> USE DEF TablesInv, TablesTypeOK
<1>1. PICK a \in Accounts :
        /\ account' = [account EXCEPT ![a].row = "deleted"]
        /\ controller' = [c \in Controllers |-> WithoutAccount(controller[c], a)]
  BY DEF DeleteAccount
<1>2. sections' = sections
  BY DEF DeleteAccount
<1>3. \A b \in Accounts :
        /\ account'[b] \in AccountRow
        /\ b # a => account'[b] = account[b]
        /\ account'[b].extension = account[b].extension
        /\ b = a => account'[b].row = "deleted"
  BY <1>1 DEF AccountRow, RowStates
<1>4. \A c \in Controllers :
        /\ controller'[c] \in ControllerRow
        /\ controller'[c].row = controller[c].row
        /\ controller'[c].section = controller[c].section
        /\ controller'[c].account # None =>
             controller'[c].account = controller[c].account /\ controller'[c].account # a
  BY <1>1 DEF WithoutAccount, ControllerRow
<1>5. account' \in [Accounts -> AccountRow] /\ controller' \in [Controllers -> ControllerRow]
  BY <1>1, <1>3, <1>4
<1>6. NumberedInv'
  BY <1>3 DEF NumberedInv, LiveAccount
<1>7. \A b \in Accounts : LiveAccount(b)' => LiveAccount(b) /\ account'[b] = account[b]
  BY <1>3 DEF LiveAccount
<1>8. \A b \in Accounts : LiveAccount(b) /\ b # a => LiveAccount(b)'
  BY <1>3 DEF LiveAccount
<1>9. \A c \in Controllers : controller[c].account \in Accounts \cup {None}
  BY DEF ControllerRow
<1> QED
  BY <1>2, <1>4, <1>5, <1>6, <1>7, <1>8, <1>9 DEF TablesAgree, LiveController

LEMMA AssignKeeps ==
    ASSUME TablesInv, AccountsTypeOK, RequestsInv, NEW r \in Requests, Assign(r)
    PROVE  TablesInv'
<1> DEFINE c == request[r].controller
           a == request[r].account
           row == [controller[c] EXCEPT !.account = a]
<1>1. c \in Controllers /\ a \in Accounts \cup {None}
  BY DEF AccountsTypeOK, Request, RequestsInv, RequestInv, Assign, At
<1>2. UNCHANGED <<sections, account>>
  BY DEF Assign
<1>3. CASE LiveController(c) /\ Assignable(c, a)
  <2>1. controller' = [controller EXCEPT ![c] = row]
    BY <1>1, <1>3 DEF Assign, AccountsTypeOK
  <2>2. /\ row \in ControllerRow /\ row.row = "live" /\ row.account = a
        /\ row.section = controller[c].section
    BY <1>1, <1>3 DEF ControllerRow, AccountsTypeOK, LiveController
  <2>3. Insertable(row.section)
    BY <1>1, <2>2 DEF Insertable, TablesInv, TablesAgree
  <2> HIDE DEF row, a, c
  <2> QED
    BY <1>1, <1>2, <1>3, <2>1, <2>2, <2>3, ControllerChanges
<1>4. CASE ~(LiveController(c) /\ Assignable(c, a))
  BY <1>2, <1>4, StillTables DEF Assign, tables
<1> QED
  BY <1>3, <1>4

LEMMA InsertControllerKeeps ==
    ASSUME TablesInv, AccountsTypeOK, RequestsInv, NEW r \in Requests, InsertController(r)
    PROVE  TablesInv'
<1> DEFINE row == [row |-> "live", section |-> request[r].section,
                   enabled |-> request[r].enabled, account |-> None]
<1>1. UNCHANGED <<sections, account>>
  BY DEF InsertController
<1>2. PICK c \in Controllers :
        controller' = IF Insertable(request[r].section)
                      THEN [controller EXCEPT ![c] = row] ELSE controller
  BY DEF InsertController
<1>3. /\ row \in ControllerRow /\ row.row = "live" /\ row.account = None
      /\ row.section = request[r].section
  BY DEF ControllerRow, AccountsTypeOK, Request, RowStates
<1>4. Assignable(c, None)
  BY DEF Assignable
<1> HIDE DEF row
<1>5. CASE Insertable(request[r].section)
  BY <1>1, <1>2, <1>3, <1>4, <1>5, ControllerChanges
<1>6. CASE ~Insertable(request[r].section)
  BY <1>1, <1>2, <1>6, StillTables DEF tables
<1> QED
  BY <1>5, <1>6

LEMMA WriteControllerKeeps ==
    ASSUME TablesInv, AccountsTypeOK, RequestsInv, NEW r \in Requests, WriteController(r)
    PROVE  TablesInv'
<1> DEFINE c == request[r].controller
           row == [controller[c] EXCEPT !.section = request[r].section,
                                        !.enabled = request[r].enabled]
<1>1. c \in Controllers
  BY DEF AccountsTypeOK, Request, RequestsInv, RequestInv, WriteController, At
<1>2. UNCHANGED <<sections, account>>
  BY DEF WriteController
<1>3. CASE LiveController(c) /\ Insertable(request[r].section)
  <2>1. controller' = [controller EXCEPT ![c] = row]
    BY <1>1, <1>3 DEF WriteController, AccountsTypeOK
  <2>2. /\ row \in ControllerRow /\ row.row = "live"
        /\ row.account = controller[c].account /\ row.section = request[r].section
    BY <1>1, <1>3 DEF ControllerRow, AccountsTypeOK, Request, LiveController
  <2>3. Assignable(c, row.account)
    BY <1>1, <2>2 DEF Assignable, TablesInv, TablesAgree
  <2> HIDE DEF row, c
  <2> QED
    BY <1>1, <1>2, <1>3, <2>1, <2>2, <2>3, ControllerChanges
<1>4. CASE ~(LiveController(c) /\ Insertable(request[r].section))
  BY <1>2, <1>4, StillTables DEF WriteController, tables
<1> QED
  BY <1>3, <1>4

LEMMA DeleteControllerKeeps ==
    ASSUME TablesInv, NEW r \in Requests, DeleteController(r)
    PROVE  TablesInv'
<1>1. PICK c \in Controllers :
        controller' = [controller EXCEPT ![c].row = "deleted", ![c].section = None,
                                         ![c].account = None]
  BY DEF DeleteController
<1> DEFINE row == [controller[c] EXCEPT !.row = "deleted", !.section = None,
                                        !.account = None]
<1>2. controller' = [controller EXCEPT ![c] = row] /\ UNCHANGED <<sections, account>>
  BY <1>1 DEF DeleteController, TablesInv, TablesTypeOK
<1>3. row \in ControllerRow /\ row.account = None /\ row.section = None
  BY DEF ControllerRow, TablesInv, TablesTypeOK, RowStates
<1>4. Assignable(c, None) /\ Insertable(None)
  BY DEF Assignable, Insertable
<1> HIDE DEF row
<1> QED
  BY <1>2, <1>3, <1>4, ControllerChanges

LEMMA RemoveSectionKeeps ==
    ASSUME TablesInv, NEW r \in Requests, RemoveSection(r)
    PROVE  TablesInv'
<1>1. UNCHANGED <<controller, account>>
  BY DEF RemoveSection
<1>2. CASE Referenced(request[r].section)
  BY <1>1, <1>2, StillTables DEF RemoveSection, tables
<1>3. CASE ~Referenced(request[r].section)
  <2>1. sections' = sections \ {request[r].section}
    BY <1>3 DEF RemoveSection
  <2>2. \A c \in Controllers :
          controller[c].section # None => controller[c].section \in sections'
    BY <1>3, <2>1 DEF Referenced, TablesInv, TablesAgree
  <2> QED
    BY <1>1, <2>1, <2>2
       DEF TablesInv, TablesTypeOK, TablesAgree, NumberedInv, LiveController, LiveAccount
<1> QED
  BY <1>2, <1>3

LEMMA RequestKeepsTables ==
    ASSUME TablesInv, AccountsTypeOK, RequestsInv, NEW r \in Requests, RequestStep(r)
    PROVE  TablesInv'
  BY CreateAccountKeeps, UpdateAccountKeeps, DeleteAccountKeeps, AssignKeeps,
     InsertControllerKeeps, WriteControllerKeeps, DeleteControllerKeeps,
     RemoveSectionKeeps, StillTables
     DEF RequestStep, ReadAccount, FindController, CheckAccount, CheckUnused,
         NewController, ReadController, CheckSection, CountReferences

-----------------------------------------------------------------------------
(* The script. *)

LEMMA SelectedTypes ==
    ASSUME TablesInv
    PROVE  Selected \in SUBSET Selection /\ ~Duplicate(Selected)
<1>1. ASSUME NEW c \in Controllers, Provisionable(c)
      PROVE  /\ SelectedRow(c) \in Selection
             /\ SelectedRow(c).controller = c
             /\ SelectedRow(c).extension = account[controller[c].account].extension
             /\ controller[c].account \in Accounts /\ LiveAccount(controller[c].account)
  <2>1. controller[c].account \in Accounts /\ LiveAccount(controller[c].account)
    BY <1>1 DEF Provisionable, TablesInv, TablesTypeOK, ControllerRow
  <2>2. /\ account[controller[c].account] \in AccountRow
        /\ account[controller[c].account].extension # None
    BY <2>1 DEF TablesInv, TablesTypeOK, NumberedInv
  <2> QED
    BY <2>1, <2>2 DEF SelectedRow, Selection, AccountRow
<1>2. Selected \in SUBSET Selection
  BY <1>1 DEF Selected
<1>3. ASSUME NEW x \in Selected, NEW y \in Selected, x.extension = y.extension
      PROVE  x = y
  <2>1. PICK c \in Controllers : Provisionable(c) /\ x = SelectedRow(c)
    BY DEF Selected
  <2>2. PICK d \in Controllers : Provisionable(d) /\ y = SelectedRow(d)
    BY DEF Selected
  <2>3. controller[c].account = controller[d].account
    BY <1>1, <1>3, <2>1, <2>2 DEF TablesInv, TablesAgree
  <2>4. c = d
    BY <2>1, <2>2, <2>3 DEF Provisionable, TablesInv, TablesAgree
  <2> QED
    BY <2>1, <2>2, <2>4
<1> QED
  BY <1>2, <1>3 DEF Duplicate

LEMMA RenderedTypes ==
    ASSUME NEW rows \in SUBSET Selection
    PROVE  Rendered(rows) \in SUBSET Endpoint
  BY DEF Rendered, Selection, Endpoint

ScriptsTypeOK ==
    /\ script \in [Scripts -> Script]
    /\ file \in SUBSET Endpoint
    /\ loaded \in SUBSET Endpoint
    /\ kills \in Nat
    /\ outdated \in SUBSET Scripts
    /\ followed \in {"nothing", "script", "script and reload"}

ScriptsInv == ScriptsTypeOK /\ NoDuplicateEndpoint

LEMMA ExitKeeps ==
    ASSUME ScriptsInv, NEW p \in Scripts, Exit(p)
    PROVE  /\ script' \in [Scripts -> Script] /\ NoDuplicateEndpoint'
           /\ outdated' \in SUBSET Scripts
  BY DEF ScriptsInv, ScriptsTypeOK, NoDuplicateEndpoint, Exit, Script, Duplicate

LEMMA ScriptKeeps ==
    ASSUME TablesInv, ScriptsInv, NEW p \in Scripts, RunStep(p) \/ Kill(p)
    PROVE  ScriptsInv'
<1> USE DEF ScriptsInv, ScriptsTypeOK
<1>1. CASE Query(p)
  BY <1>1, SelectedTypes DEF Query, Script, NoDuplicateEndpoint, history
<1>2. CASE Render(p)
  <2>1. CASE Renderable(script[p].rows)
    <3>1. script' = [script EXCEPT ![p] = [script[p] EXCEPT !.at = "write"]]
      BY <1>2, <2>1 DEF Render
    <3>2. [script[p] EXCEPT !.at = "write"] \in Script
      BY DEF Script
    <3>3. \A o \in Scripts : script'[o].rows = script[o].rows
      BY <3>1 DEF Script
    <3> QED
      BY <1>2, <2>1, <3>1, <3>2, <3>3 DEF Render, NoDuplicateEndpoint
  <2> QED
    BY <1>2, <2>1, ExitKeeps DEF Render
<1>3. CASE WriteTemporary(p)
  <2>1. script' = [script EXCEPT ![p] = [script[p] EXCEPT !.at = "replace"]]
    BY <1>3 DEF WriteTemporary
  <2>2. [script[p] EXCEPT !.at = "replace"] \in Script
    BY DEF Script
  <2>3. \A o \in Scripts : script'[o].rows = script[o].rows
    BY <2>1 DEF Script
  <2> QED
    BY <1>3, <2>1, <2>2, <2>3 DEF WriteTemporary, NoDuplicateEndpoint, history
<1>4. CASE Replace(p)
  <2>1. script[p].rows \in SUBSET Selection
    BY DEF Script
  <2> QED
    BY <1>4, <2>1, RenderedTypes, ExitKeeps DEF Replace
<1>5. CASE Kill(p)
  <2>1. Exit(p) /\ UNCHANGED <<file, loaded, followed>>
    BY <1>5 DEF Kill
  <2>2. kills' \in Nat
    <3>1. kills \in Nat
      OBVIOUS
    <3> HIDE DEF ScriptsInv
    <3> QED
      BY <1>5, <3>1, ProvisioningAssumption DEF Kill
  <2>3. /\ script' \in [Scripts -> Script] /\ NoDuplicateEndpoint'
        /\ outdated' \in SUBSET Scripts
    BY <2>1, ExitKeeps
  <2>4. /\ file' \in SUBSET Endpoint /\ loaded' \in SUBSET Endpoint
        /\ followed' \in {"nothing", "script", "script and reload"}
    BY <2>1
  <2> QED
    BY <2>2, <2>3, <2>4
<1> QED
  BY <1>1, <1>2, <1>3, <1>4, <1>5 DEF RunStep

-----------------------------------------------------------------------------
(* Invariance. *)

LEMMA InvParts ==
    /\ ProvisioningInv <=> TablesInv /\ ScriptsInv /\ RequestsInv
                           /\ request \in [Requests -> Request]
    /\ ProvisioningInv => AccountsTypeOK
  BY DEF ProvisioningInv, ProvisioningTypeOK, AccountsTypeOK, TablesInv, TablesTypeOK,
         ScriptsInv, ScriptsTypeOK

LEMMA InvPartsNext ==
    TablesInv' /\ ScriptsInv' /\ RequestsInv' /\ request' \in [Requests -> Request]
      => ProvisioningInv'
  BY DEF ProvisioningInv, ProvisioningTypeOK, AccountsTypeOK, TablesInv, TablesTypeOK,
         ScriptsInv, ScriptsTypeOK

LEMMA ProvisioningInitially == ProvisioningInit => ProvisioningInv
<1> SUFFICES ASSUME ProvisioningInit PROVE ProvisioningInv
  OBVIOUS
<1> USE DEF ProvisioningInit, AccountsInit
<1>1. PICK secret \in Secrets :
        account = [a \in Accounts |->
             [row |-> IF Registered[a] = None THEN "unused" ELSE "live",
              extension |-> Registered[a], secret |-> secret, enabled |-> TRUE]]
  OBVIOUS
<1>2. TablesTypeOK
  BY <1>1, AccountsAssumption DEF TablesTypeOK, ControllerRow, AccountRow, RowStates
<1>3. \A a \in Accounts : /\ account[a].extension = Registered[a]
                          /\ LiveAccount(a) <=> Registered[a] # None
  BY <1>1 DEF LiveAccount
<1>4. \A c \in Controllers : /\ controller[c].account = Assigned[c]
                             /\ controller[c].section = None
                             /\ LiveController(c) <=> c \in Present
  BY DEF LiveController
<1>5. NumberedInv
  BY <1>3 DEF NumberedInv
<1>6. TablesAgree
  BY <1>3, <1>4, AccountsAssumption DEF TablesAgree
<1>7. ScriptsInv
  BY DEF ScriptsInv, ScriptsTypeOK, Script, NoDuplicateEndpoint, Duplicate
<1>8. Resting("start") \in Request /\ RequestInv(Resting("start"))
  BY RestingTypes DEF RequestSteps, RequestInv, Resting
<1>9. RequestsInv /\ request \in [Requests -> Request]
  BY <1>8 DEF RequestsInv
<1> QED
  BY <1>2, <1>5, <1>6, <1>7, <1>9, InvParts DEF TablesInv

LEMMA ProvisioningKeeps == ProvisioningInv /\ [ProvisioningNext]_vars => ProvisioningInv'
<1> SUFFICES ASSUME ProvisioningInv, [ProvisioningNext]_vars PROVE ProvisioningInv'
  OBVIOUS
<1>0. TablesInv /\ ScriptsInv /\ RequestsInv /\ request \in [Requests -> Request]
      /\ AccountsTypeOK /\ NumberedInv
  BY InvParts DEF TablesInv
<1>1. CASE \E r \in Requests : AdministratorStep(r)
  <2>1. PICK r \in Requests : RequestStep(r) /\ UNCHANGED <<script, file, loaded, kills>>
    BY <1>1 DEF AdministratorStep
  <2>2. ScriptsInv'
    <3>1. /\ outdated' \in SUBSET Scripts
          /\ followed' \in {"nothing", "script", "script and reload"}
      BY <1>0, <1>1 DEF AdministratorStep, history, ScriptsInv, ScriptsTypeOK
    <3> QED
      BY <1>0, <2>1, <3>1 DEF ScriptsInv, ScriptsTypeOK, NoDuplicateEndpoint
  <2> QED
    BY <1>0, <2>1, <2>2, RequestStepKeeps, RequestKeepsTables, InvPartsNext
<1>2. CASE \E p \in Scripts : RunStep(p) \/ Kill(p)
  <2>1. PICK p \in Scripts : RunStep(p) \/ Kill(p)
    BY <1>2
  <2>2. UNCHANGED tables /\ UNCHANGED request
    BY <2>1 DEF RunStep, Query, Render, WriteTemporary, Replace, Kill
  <2> QED
    BY <1>0, <2>1, <2>2, ScriptKeeps, StillTables, InvPartsNext DEF RequestsInv
<1>3. CASE Reload
  BY <1>0, <1>3, StillTables, InvPartsNext
     DEF Reload, ScriptsInv, ScriptsTypeOK, NoDuplicateEndpoint, RequestsInv
<1>4. CASE UNCHANGED vars
  BY <1>0, <1>4, StillTables, InvPartsNext
     DEF vars, tables, ScriptsInv, ScriptsTypeOK, NoDuplicateEndpoint, RequestsInv
<1> QED
  BY <1>1, <1>2, <1>3, <1>4 DEF ProvisioningNext

\* The tables, the requests and the scripts stay as ProvisioningInv says, for any
\* number of each.
THEOREM ProvisioningInvariance == ProvisioningSpec => []ProvisioningInv
<1> QED
  BY ProvisioningInitially, ProvisioningKeeps, PTL DEF ProvisioningSpec

\* The variables of provisioning keep their types.
THEOREM ProvisioningTyping == ProvisioningSpec => []ProvisioningTypeOK
<1>1. ProvisioningInv => ProvisioningTypeOK
  BY DEF ProvisioningInv
<1> QED
  BY <1>1, ProvisioningInvariance, PTL

\* However many requests check and write in whatever order, an account belongs to
\* one controller and nobody names a row that is gone.
THEOREM TablesTheorem == ProvisioningSpec => []TablesAgree
<1>1. ProvisioningInv => TablesAgree
  BY DEF ProvisioningInv
<1> QED
  BY <1>1, ProvisioningInvariance, PTL

\* No run of the script stops at a duplicate extension.
THEOREM NoDuplicateTheorem == ProvisioningSpec => []NoDuplicateEndpoint
<1>1. ProvisioningInv => NoDuplicateEndpoint
  BY DEF ProvisioningInv
<1> QED
  BY <1>1, ProvisioningInvariance, PTL

-----------------------------------------------------------------------------
(* The refinement. *)

LEMMA PublicationInitially == ProvisioningInit => Publication!Init
<1> SUFFICES ASSUME ProvisioningInit PROVE Publication!Init
  OBVIOUS
<1>1. Rendered(Selected) \in SUBSET Endpoint
  BY ProvisioningInitially, InvParts, SelectedTypes, RenderedTypes
<1>2. Held = [p \in Scripts |-> {}]
  BY DEF Held, ScriptAt, ProvisioningInit
<1> QED
  BY <1>1, <1>2 DEF Publication!Init, ProvisioningInit

LEMMA HeldAfter ==
    ASSUME ScriptsInv, NEW p \in Scripts, NEW q \in Script,
           script' = [script EXCEPT ![p] = q]
    PROVE  Held' = [Held EXCEPT ![p] = IF q.at = "query" THEN {} ELSE {Rendered(q.rows)}]
<1> DEFINE now == IF q.at = "query" THEN {} ELSE {Rendered(q.rows)}
<1>1. /\ script'[p] = q
      /\ \A o \in Scripts \ {p} : script'[o] = script[o]
  BY DEF ScriptsInv, ScriptsTypeOK
<1>2. Held' = [o \in Scripts |->
                 IF script'[o].at = "query" THEN {} ELSE {Rendered(script'[o].rows)}]
  BY DEF Held, ScriptAt, Rendered
<1>3. \A o \in Scripts : Held'[o] = IF o = p THEN now ELSE Held[o]
  BY <1>1, <1>2 DEF Held, ScriptAt
<1> HIDE DEF now
<1>4. [Held EXCEPT ![p] = now] = [o \in Scripts |-> IF o = p THEN now ELSE Held[o]]
  BY DEF Held
<1> QED
  BY <1>2, <1>3, <1>4 DEF now

\* A step that leaves the tables alone leaves the source alone.
LEMMA SourceStill ==
    ASSUME UNCHANGED tables
    PROVE  Rendered(Selected)' = Rendered(Selected)
  BY DEF tables, Rendered, Selected, SelectedRow, Provisionable, EnabledController,
         LiveController, LiveAccount

LEMMA RunPublishes ==
    ASSUME ProvisioningInv, NEW p \in Scripts, RunStep(p) \/ Kill(p)
    PROVE  Publication!Next \/ UNCHANGED Publication!vars
<1> USE DEF Publication!Next, Publication!vars
<1>0. ScriptsInv /\ TablesInv /\ script[p] \in Script
  BY InvParts DEF ScriptsInv, ScriptsTypeOK
<1>1. Rendered(Selected)' = Rendered(Selected)
  BY SourceStill DEF RunStep, Query, Render, WriteTemporary, Replace, Kill
<1>2. ASSUME Exit(p)
      PROVE  Held' = [Held EXCEPT ![p] = {}]
  <2>1. [at |-> "query", rows |-> {}] \in Script
    BY DEF Script
  <2> QED
    BY <1>0, <1>2, <2>1, HeldAfter DEF Exit
<1>3. CASE Query(p)
  <2>1. [at |-> "render", rows |-> Selected] \in Script
    BY <1>0, SelectedTypes DEF Script
  <2>2. Held' = [Held EXCEPT ![p] = {Rendered(Selected)}]
    BY <1>0, <1>3, <2>1, HeldAfter DEF Query
  <2>3. Held[p] = {} /\ file' = file
    BY <1>3 DEF Query, Held
  <2> QED
    BY <1>1, <2>2, <2>3 DEF Publication!Take
<1>4. ASSUME NEW step \in {"write", "replace"}, script' = [script EXCEPT ![p].at = step],
             ~ScriptAt(p, "query")
      PROVE  Held' = Held
  <2>1. script' = [script EXCEPT ![p] = [script[p] EXCEPT !.at = step]]
    BY <1>4
  <2>2. [script[p] EXCEPT !.at = step] \in Script
    BY <1>0 DEF Script
  <2>3. /\ [script[p] EXCEPT !.at = step].at # "query"
        /\ [script[p] EXCEPT !.at = step].rows = script[p].rows
    BY <1>0 DEF Script
  <2>4. Held' = [Held EXCEPT ![p] = {Rendered(script[p].rows)}]
    BY <1>0, <2>1, <2>2, <2>3, HeldAfter
  <2>5. Held[p] = {Rendered(script[p].rows)}
    BY <1>4 DEF Held
  <2> QED
    BY <2>4, <2>5 DEF Held
<1>5. CASE Render(p)
  <2>1. file' = file /\ ~ScriptAt(p, "query")
    BY <1>5 DEF Render, ScriptAt
  <2> QED
    BY <1>1, <1>2, <1>4, <1>5, <2>1 DEF Render, Publication!Abandon
<1>6. CASE WriteTemporary(p)
  <2>1. file' = file /\ ~ScriptAt(p, "query")
    BY <1>6 DEF WriteTemporary, ScriptAt
  <2> QED
    BY <1>1, <1>4, <1>6, <2>1 DEF WriteTemporary
<1>7. CASE Replace(p)
  <2>1. file' \in Held[p]
    BY <1>7 DEF Replace, Held, ScriptAt
  <2> QED
    BY <1>1, <1>2, <1>7, <2>1 DEF Replace, Publication!Publish
<1>8. CASE Kill(p)
  BY <1>1, <1>2, <1>8 DEF Kill, Publication!Abandon
<1> QED
  BY <1>3, <1>5, <1>6, <1>7, <1>8 DEF RunStep

LEMMA PublicationSteps ==
    ProvisioningInv /\ ProvisioningInv' /\ [ProvisioningNext]_vars
      => [Publication!Next]_(Publication!vars)
<1> SUFFICES ASSUME ProvisioningInv, ProvisioningInv', [ProvisioningNext]_vars
             PROVE  Publication!Next \/ UNCHANGED Publication!vars
  OBVIOUS
<1>1. CASE \E r \in Requests : AdministratorStep(r)
  <2>1. UNCHANGED <<script, file>>
    BY <1>1 DEF AdministratorStep
  <2>2. Held' = Held
    BY <2>1 DEF Held, ScriptAt, Rendered
  <2>3. Rendered(Selected)' \in SUBSET Endpoint
    <3>1. TablesInv'
      BY DEF ProvisioningInv, ProvisioningTypeOK, AccountsTypeOK, TablesInv, TablesTypeOK
    <3>2. (Selected \in SUBSET Selection)'
      BY <3>1, SelectedTypes, PTL
    <3>3. (Rendered(Selected) \in SUBSET Endpoint)'
      BY <3>2, RenderedTypes DEF Rendered, Selection, Endpoint
    <3> QED
      BY <3>3 DEF Endpoint
  <2> QED
    BY <2>1, <2>2, <2>3 DEF Publication!Next, Publication!Change
<1>2. CASE \E p \in Scripts : RunStep(p) \/ Kill(p)
  BY <1>2, RunPublishes
<1>3. CASE Reload
  BY <1>3, SourceStill DEF Reload, Held, ScriptAt, Rendered, Publication!vars
<1>4. CASE UNCHANGED vars
  BY <1>4, SourceStill DEF vars, tables, Held, ScriptAt, Rendered, Publication!vars
<1> QED
  BY <1>1, <1>2, <1>3, <1>4 DEF ProvisioningNext

\* The file is always one whole version of the tables, taken while the run that
\* published it was going on: provisioning implements SipPublication.
THEOREM PublicationTheorem == ProvisioningSpec => FileIsPublished
<1>1. ProvisioningSpec => []ProvisioningInv
  BY ProvisioningInvariance
<1> QED
  BY <1>1, PublicationInitially, PublicationSteps, PTL
     DEF FileIsPublished, Publication!Spec, ProvisioningSpec

-----------------------------------------------------------------------------
(* The procedure. *)

LEMMA FollowedInitially == ProvisioningInit => FollowedInv
  BY DEF ProvisioningInit, FollowedInv, ScriptAt

\* A step that leaves the tables alone leaves what is selected alone.
LEMMA SelectedStill ==
    ASSUME UNCHANGED tables
    PROVE  Selected' = Selected
  BY DEF tables, Selected, SelectedRow, Provisionable, EnabledController,
         LiveController, LiveAccount

\* A run that exits leaves the other runs as they are.
LEMMA ExitFollows ==
    ASSUME ScriptsInv, FollowedInv, NEW p \in Scripts, Exit(p), UNCHANGED tables
    PROVE  \A o \in Scripts \ outdated' :
             ScriptAt(o, "query")' \/ script'[o].rows = Selected'
<1>1. /\ script'[p].at = "query" /\ outdated' = outdated \ {p}
      /\ \A o \in Scripts \ {p} : script'[o] = script[o]
  BY DEF Exit, ScriptsInv, ScriptsTypeOK
<1> QED
  BY <1>1, SelectedStill DEF FollowedInv, ScriptAt

LEMMA RunFollows ==
    ASSUME ProvisioningInv, FollowedInv, NEW p \in Scripts, RunStep(p) \/ Kill(p)
    PROVE  FollowedInv'
<1>0. ScriptsInv /\ script \in [Scripts -> Script]
  BY InvParts DEF ScriptsInv, ScriptsTypeOK
<1>1. UNCHANGED <<tables, loaded>> /\ Selected' = Selected
  BY SelectedStill DEF RunStep, Query, Render, WriteTemporary, Replace, Kill
<1>2. Rendered(Selected)' = Rendered(Selected)
  BY <1>1, SourceStill
<1>3. CASE Query(p)
  BY <1>0, <1>1, <1>2, <1>3 DEF Query, FollowedInv, ScriptAt, history
<1>4. CASE Render(p) \/ WriteTemporary(p) \/ Kill(p)
  <2>1. UNCHANGED <<file, followed>>
    BY <1>4 DEF Render, WriteTemporary, Kill, history
  <2>2. CASE Exit(p)
    BY <1>0, <1>1, <1>2, <2>1, <2>2, ExitFollows DEF FollowedInv
  <2>3. ASSUME NEW step \in {"write", "replace"}, script' = [script EXCEPT ![p].at = step],
               outdated' = outdated, ~ScriptAt(p, "query")
        PROVE  FollowedInv'
    <3>1. \A o \in Scripts : /\ script'[o].rows = script[o].rows
                             /\ script'[o].at = IF o = p THEN step ELSE script[o].at
      BY <1>0, <2>3 DEF Script
    <3> QED
      BY <1>1, <1>2, <2>1, <2>3, <3>1 DEF FollowedInv, ScriptAt
  <2> QED
    BY <1>4, <2>2, <2>3 DEF Render, WriteTemporary, Kill, history, ScriptAt
<1>5. CASE Replace(p)
  <2>1. /\ Exit(p) /\ file' = Rendered(script[p].rows) /\ ~ScriptAt(p, "query")
        /\ followed' = IF p \in outdated THEN "nothing"
                       ELSE IF followed = "nothing" THEN "script" ELSE followed
    BY <1>5 DEF Replace, ScriptAt
  <2>2. followed' # "nothing" => file' = Rendered(Selected)
    BY <2>1 DEF FollowedInv
  <2>3. followed' = "script and reload" => followed = "script and reload"
    BY <2>1
  <2> QED
    BY <1>0, <1>1, <1>2, <2>1, <2>2, <2>3, ExitFollows DEF FollowedInv
<1> QED
  BY <1>3, <1>4, <1>5 DEF RunStep

LEMMA FollowedKeeps ==
    ProvisioningInv /\ FollowedInv /\ [ProvisioningNext]_vars => FollowedInv'
<1> SUFFICES ASSUME ProvisioningInv, FollowedInv, [ProvisioningNext]_vars
             PROVE  FollowedInv'
  OBVIOUS
<1>1. CASE \E r \in Requests : AdministratorStep(r)
  <2>1. UNCHANGED <<script, file, loaded>>
    BY <1>1 DEF AdministratorStep
  <2>2. CASE Selected' = Selected
    <3>1. UNCHANGED history
      BY <1>1, <2>2 DEF AdministratorStep
    <3>2. Rendered(Selected)' = Rendered(Selected)
      BY <2>2 DEF Rendered
    <3> QED
      BY <2>1, <2>2, <3>1, <3>2 DEF FollowedInv, ScriptAt, history
  <2>3. CASE Selected' # Selected
    BY <1>1, <2>1, <2>3 DEF AdministratorStep, FollowedInv, ScriptAt
  <2> QED
    BY <2>2, <2>3
<1>2. CASE \E p \in Scripts : RunStep(p) \/ Kill(p)
  BY <1>2, RunFollows
<1>3. CASE Reload
  <2>1. Selected' = Selected /\ Rendered(Selected)' = Rendered(Selected)
    BY <1>3, SelectedStill, SourceStill DEF Reload
  <2> QED
    BY <1>3, <2>1 DEF Reload, FollowedInv, ScriptAt
<1>4. CASE UNCHANGED vars
  <2>1. Selected' = Selected /\ Rendered(Selected)' = Rendered(Selected)
    BY <1>4, SelectedStill, SourceStill DEF vars, tables
  <2> QED
    BY <1>4, <2>1 DEF vars, FollowedInv, ScriptAt
<1> QED
  BY <1>1, <1>2, <1>3, <1>4 DEF ProvisioningNext

\* A controller has credentials exactly if its account is selected, because no
\* controller names an account that is gone.
LEMMA SelectedHaveCredentials ==
    ASSUME ProvisioningInv, NEW c \in Controllers
    PROVE  HasCredentials(c) <=> Provisionable(c)
  BY DEF HasCredentials, Provisionable, ProvisioningInv, TablesAgree

LEMMA LoadedAgrees ==
    ASSUME ProvisioningInv, loaded = Rendered(Selected)
    PROVE  CredentialsAgree
<1>1. ASSUME NEW c \in Controllers, HasCredentials(c), Credentials(c).extension \notin Legacy
      PROVE  Credentials(c) \in loaded
  <2>1. SelectedRow(c) \in Selected
    BY <1>1, SelectedHaveCredentials DEF Selected
  <2>2. /\ SelectedRow(c).extension = Credentials(c).extension
        /\ Credentials(c) = [extension |-> SelectedRow(c).extension,
                             secret |-> SelectedRow(c).secret]
    BY DEF SelectedRow, Credentials
  <2> QED
    BY <1>1, <2>1, <2>2 DEF Rendered
<1>2. ASSUME NEW e \in loaded
      PROVE  \E c \in Controllers : HasCredentials(c) /\ Credentials(c) = e
  <2>1. PICK x \in Selected : e = [extension |-> x.extension, secret |-> x.secret]
    BY DEF Rendered
  <2>2. PICK c \in Controllers : Provisionable(c) /\ x = SelectedRow(c)
    BY DEF Selected
  <2>3. Credentials(c) = e
    BY <2>1, <2>2 DEF SelectedRow, Credentials
  <2> QED
    BY <2>2, <2>3, SelectedHaveCredentials
<1> QED
  BY <1>1, <1>2 DEF CredentialsAgree

\* After the script has been run and Asterisk reloaded, browsers are given exactly
\* the credentials that Asterisk accepts, for any number of requests and of runs that
\* overlap or are killed, until the next change or a run from before the last one
\* (deployment/scripts/README.md:48-49).
THEOREM ProcedureTheorem == ProvisioningSpec => []ProcedureSuffices
<1>1. ProvisioningInit => FollowedInv
  BY FollowedInitially
<1>2. ProvisioningInv /\ FollowedInv /\ [ProvisioningNext]_vars => FollowedInv'
  BY FollowedKeeps
<1>3. ProvisioningInv /\ FollowedInv => ProcedureSuffices
  BY LoadedAgrees DEF FollowedInv, ProcedureSuffices
<1> QED
  BY <1>1, <1>2, <1>3, ProvisioningInvariance, PTL DEF ProvisioningSpec
=============================================================================
