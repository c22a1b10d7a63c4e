-------------------------- MODULE ServerSync_proofs --------------------------
(***************************************************************************)
(* For any number of servers, files, requests and incidents: what people   *)
(* wrote by hand survives, and requests that have read the same roles do   *)
(* not wait for each other.                                                *)
(***************************************************************************)
EXTENDS ServerSyncProperties, FiniteSetTheorems, SequenceTheorems,
        WellFoundedInduction, TLAPS

-----------------------------------------------------------------------------
(* The steps of one request. *)

LEMMA IdleTypes == Idle \in Sync /\ Placed(Idle) /\ Ordered(Idle)
<1>1. 1 \in Files
  BY ServerSyncAssumption DEF Files
<1>2. Idle \in Sync
  BY <1>1 DEF Idle, Sync, Step, Text
<1> QED
  BY <1>2 DEF Idle, Placed, Ordered, Working

LEMMA AfterCommandTypes ==
    ASSUME NEW x \in Sync, x.at \in Working
    PROVE  LET y == AfterCommand(x) IN
           /\ y \in Sync
           /\ y.at \in Working \cup {"report"}
           /\ y.at \notin {"truncate", "fill"}
           /\ y.row = x.row /\ y.rows = x.rows /\ y.done = x.done
<1>1. x.file = FileCount \/ x.file + 1 \in Files
  BY ServerSyncAssumption DEF Sync, Files
<1>2. 1 \in Files
  BY ServerSyncAssumption DEF Files
<1>3. Following(x.at) \in {"read", "reload", "report"}
  BY DEF Following, Repeated
<1>4. Repeated(x.at) \in {"open", "read", "reload"}
  BY DEF Repeated
<1> QED
  BY <1>1, <1>2, <1>3, <1>4 DEF AfterCommand, Sync, Step, Working

LEMMA WithTextTypes ==
    ASSUME NEW x \in Sync, NEW t \in Text
    PROVE  LET y == [x EXCEPT !.text = t] IN
           /\ y \in Sync /\ y.at = x.at /\ y.row = x.row
           /\ y.rows = x.rows /\ y.done = x.done
  BY DEF Sync

LEMMA EmptyText == <<>> \in Text
  BY DEF Text

\* A request that goes on with the same servers keeps what holds of it.
LEMMA SyncKeeps ==
    ASSUME ServerSyncTypeOK, SyncsInv, NEW r \in Requests, NEW x \in Sync,
           Becomes(r, x), Placed(x), Ordered(x)
    PROVE  sync' \in [Requests -> Sync] /\ SyncsInv'
  BY DEF ServerSyncTypeOK, SyncsInv, Becomes

LEMMA GoesOn ==
    ASSUME NEW x, NEW y, Ordered(x), y.row = x.row, y.rows = x.rows, y.done = x.done,
           x.row # None
    PROVE  Ordered(y) /\ Placed(y)
  BY DEF Ordered, Placed

\* A request that does not start on a host disturbs no other one.
LEMMA AloneKeeps ==
    ASSUME ServerSyncTypeOK, AloneInv, NEW r \in Requests, NEW x, Becomes(r, x),
           shared' = shared,
           x.at \in Working \cup {"report"} =>
              sync[r].at \in Working \cup {"report"} /\ x.row = sync[r].row
    PROVE  AloneInv'
<1>1. \A q \in Requests, h \in Hosts : WorksOn(q, h)' => WorksOn(q, h)
  BY DEF WorksOn, Host, Becomes, ServerSyncTypeOK
<1> QED
  BY <1>1 DEF AloneInv

\* A request that is not about to write the file again leaves what is copied.
LEMMA CopiedKeeps ==
    ASSUME ServerSyncTypeOK, CopiedInv, NEW r \in Requests, NEW x, Becomes(r, x),
           shared' = shared \/ shared \subseteq shared', backups' = backups, hand' = hand,
           x.at \notin {"truncate", "fill"}
    PROVE  CopiedInv'
<1>1. \A q \in Requests : sync'[q].at \in {"truncate", "fill"} => sync'[q] = sync[q]
  BY DEF Becomes, ServerSyncTypeOK
<1>2. \A h \in Hosts, i \in Files : Saved(h, i)' = Saved(h, i)
  BY DEF Saved
<1> QED
  BY <1>1, <1>2 DEF CopiedInv, WorksOn, Host, Saved
-----------------------------------------------------------------------------
(* Initially, and where a step stands. *)

LEMMA Initially == ServerSyncInit => ServerSyncInv
<1> SUFFICES ASSUME ServerSyncInit PROVE ServerSyncInv
  OBVIOUS
<1> USE DEF ServerSyncInit
<1>1. ServerSyncTypeOK
  <2>1. server \in [Servers -> Server]
    BY ServerSyncAssumption DEF Server, RoleNames
  <2>2. sync \in [Requests -> Sync]
    BY IdleTypes
  <2>3. parent \in [Hosts -> [Files -> Text]]
    <3>1. Handwritten \in Text
      BY ServerSyncAssumption DEF Text, Token
    <3> QED
      BY <3>1
  <2>4. hand \in [Hosts -> [Files -> SUBSET Lines]]
    BY DEF Written
  <2>5. /\ managed \in [Hosts -> [Files -> Content]]
        /\ backups \in [Hosts -> [Files -> Seq(Text)]]
        /\ loaded \in [Hosts -> [Files -> [file: Content, includes: Nat]]]
    BY DEF Content
  <2> QED
    BY <2>1, <2>2, <2>3, <2>4, <2>5 DEF ServerSyncTypeOK
<1>2. LiveInv
  BY DEF LiveInv, LiveServer
<1>3. SyncsInv
  BY IdleTypes DEF SyncsInv
<1>4. AloneInv /\ CopiedInv
  BY DEF AloneInv, CopiedInv, WorksOn, Idle, Working
<1>5. StaticPartSurvives
  BY DEF StaticPartSurvives
<1> QED
  BY <1>1, <1>2, <1>3, <1>4, <1>5 DEF ServerSyncInv

LEMMA InvParts ==
    ServerSyncInv <=> /\ ServerSyncTypeOK /\ LiveInv /\ SyncsInv
                      /\ AloneInv /\ CopiedInv /\ StaticPartSurvives
  BY DEF ServerSyncInv

\* The host of a request that works.
LEMMA Placement ==
    ASSUME ServerSyncTypeOK, SyncsInv, NEW r \in Requests,
           sync[r].at \in Working \cup {"report"}
    PROVE  /\ sync[r] \in Sync /\ sync[r].row \in Row /\ sync[r].row # None
           /\ Host(r) \in Hosts /\ sync[r].file \in Files
           /\ WorksOn(r, Host(r)) /\ Ordered(sync[r])
<1>1. sync[r] \in Sync /\ Placed(sync[r]) /\ Ordered(sync[r])
  BY DEF ServerSyncTypeOK, SyncsInv
<1>2. sync[r].row \in Row /\ sync[r].row # None
  BY <1>1 DEF Placed, Sync
<1>3. Host(r) \in Hosts
  BY <1>2 DEF Host, Row
<1> QED
  BY <1>1, <1>2, <1>3 DEF WorksOn, Sync

LEMMA RowTypes ==
    ASSUME ServerSyncTypeOK, LiveInv, NEW s \in Servers, LiveServer(s)
    PROVE  RowOf(s) \in Row
<1>1. server[s] \in Server
  BY DEF ServerSyncTypeOK
<1> QED
  BY <1>1 DEF RowOf, Row, LiveInv, Server

LEMMA IncludesTypes ==
    ASSUME NEW t \in Text
    PROVE  Includes(t) \in Nat
<1>1. Len(t) \in Nat /\ DOMAIN t = 1..Len(t)
  BY DEF Text
<1>2. IsFiniteSet(1..Len(t))
  BY <1>1, FS_Interval
<1>3. Positions(t, "include") \subseteq 1..Len(t)
  BY <1>1 DEF Positions
<1> QED
  BY <1>2, <1>3, FS_Subset, FS_CardinalityType DEF Includes

\* Stripping a block leaves a text.
LEMMA StrippedTypes ==
    ASSUME NEW t \in Text, NEW u \in Stripped(t)
    PROVE  u \in Text
<1>1. CASE Block(t) = {}
  BY <1>1 DEF Stripped
<1>2. CASE Block(t) # {}
  <2>1. PICK p \in Block(t) :
          u = SubSeq(t, 1, p[1] - 1) \o SubSeq(t, p[2] + 1, Len(t))
    BY <1>2 DEF Stripped
  <2>2. p[1] \in 1..Len(t) /\ p[2] \in 1..Len(t)
    BY <2>1 DEF Block, Text
  <2>3. SubSeq(t, 1, p[1] - 1) \in Text /\ SubSeq(t, p[2] + 1, Len(t)) \in Text
    BY <2>2 DEF Text
  <2> QED
    BY <2>1, <2>3 DEF Text
<1> QED
  BY <1>1, <1>2

\* Storing statuses keeps the rows' types and who is live.
LEMMA StatusesKeep ==
    ASSUME ServerSyncTypeOK, LiveInv, NEW results, server' = WithStatuses(results)
    PROVE  server' \in [Servers -> Server] /\ LiveInv'
<1>1. ASSUME NEW s \in Servers
      PROVE  /\ server'[s] \in Server
             /\ server'[s].state = server[s].state /\ server'[s].host = server[s].host
  <2>1. server[s] \in Server
    BY DEF ServerSyncTypeOK
  <2>2. \A ok : Status(ok) \in {"SYNCED", "FAILED"}
    BY DEF Status
  <2>3. \/ server'[s] = server[s]
        \/ \E st \in {"SYNCED", "FAILED"} : server'[s] = [server[s] EXCEPT !.status = st]
    BY <2>2 DEF WithStatuses
  <2> QED
    BY <2>1, <2>3 DEF Server
<1>2. server' \in [Servers -> Server]
  BY <1>1 DEF WithStatuses
<1> QED
  BY <1>1, <1>2 DEF LiveInv, LiveServer

\* As long as the configuration, its backups and what was written by hand stay,
\* nothing is lost.
LEMMA StaticKeeps ==
    ASSUME StaticPartSurvives, parent' = parent, backups' = backups, hand' = hand,
           shared \subseteq shared'
    PROVE  StaticPartSurvives'
  BY DEF StaticPartSurvives, Saved

-----------------------------------------------------------------------------
(* One lemma per action, after one for the steps that touch neither the *)
(* configuration nor its backups.                                       *)

\* What the variables beside `sync` keep.
RestTypes ==
    /\ server \in [Servers -> Server] /\ LiveInv
    /\ managed \in [Hosts -> [Files -> Content]]
    /\ loaded \in [Hosts -> [Files -> [file: Content, includes: Nat]]]
    /\ incidents \in Nat /\ unseen \in SUBSET Hosts

LEMMA RequestMoves ==
    ASSUME ServerSyncInv, NEW r \in Requests, NEW x \in Sync, Becomes(r, x),
           Placed(x), Ordered(x),
           x.at \in Working \cup {"report"} =>
              sync[r].at \in Working \cup {"report"} /\ x.row = sync[r].row,
           x.at \notin {"truncate", "fill"},
           RestTypes', parent' = parent, backups' = backups, hand' = hand, shared' = shared
    PROVE  ServerSyncInv'
<1>1. sync' \in [Requests -> Sync] /\ SyncsInv'
  BY InvParts, SyncKeeps
<1>2. ServerSyncTypeOK' /\ LiveInv'
  BY <1>1, InvParts DEF ServerSyncTypeOK, RestTypes
<1>3. AloneInv'
  BY InvParts, AloneKeeps
<1>4. CopiedInv'
  BY InvParts, CopiedKeeps
<1>5. StaticPartSurvives'
  BY InvParts, StaticKeeps
<1> QED
  BY <1>1, <1>2, <1>3, <1>4, <1>5 DEF ServerSyncInv

LEMMA RestStays ==
    ASSUME ServerSyncInv, UNCHANGED <<server, managed, loaded, incidents, unseen>>
    PROVE  RestTypes'
  BY InvParts DEF ServerSyncTypeOK, RestTypes, LiveInv, LiveServer

LEMMA SyncServerKeeps ==
    ASSUME ServerSyncInv, NEW r \in Requests, NEW s \in Servers, SyncServer(r, s)
    PROVE  ServerSyncInv'
<1> DEFINE x == [Idle EXCEPT !.at = "connect", !.rows = {RowOf(s)}]
<1>1. RowOf(s) \in Row
  BY InvParts, RowTypes DEF SyncServer
<1>2. x \in Sync
  BY <1>1, IdleTypes DEF Sync, Step
<1>3. Placed(x) /\ Ordered(x) /\ x.at = "connect"
  BY DEF Placed, Ordered, Idle, Working
<1>4. Becomes(r, x) /\ UNCHANGED <<server, hostVars, incidents, history>>
  BY DEF SyncServer
<1> HIDE DEF x
<1> QED
  BY <1>2, <1>3, <1>4, RestStays, RequestMoves DEF hostVars, history, Working

LEMMA SyncAllKeeps ==
    ASSUME ServerSyncInv, NEW r \in Requests, SyncAll(r)
    PROVE  ServerSyncInv'
<1> DEFINE rows == {RowOf(s) : s \in {t \in Servers : LiveServer(t) /\ server[t].enabled}}
           x == [Idle EXCEPT !.at = IF rows = {} THEN "commit" ELSE "connect",
                             !.all = TRUE, !.rows = rows]
<1>1. rows \in SUBSET Row
  BY InvParts, RowTypes
<1>2. \A y, z \in rows : y.id = z.id => y = z
  BY DEF RowOf
<1>3. Becomes(r, x) /\ UNCHANGED <<server, hostVars, incidents, history>>
  BY DEF SyncAll
<1> HIDE DEF rows
<1>4. x \in Sync
  BY <1>1, IdleTypes DEF Sync, Step
<1>5. Placed(x) /\ Ordered(x) /\ x.at \in {"connect", "commit"}
  BY <1>2 DEF Placed, Ordered, Idle, Working
<1> HIDE DEF x
<1> QED
  BY <1>3, <1>4, <1>5, RestStays, RequestMoves DEF hostVars, history, Working

LEMMA ConnectKeeps ==
    ASSUME ServerSyncInv, NEW r \in Requests, Connect(r)
    PROVE  ServerSyncInv'
<1>1. PICK y \in Due(sync[r].rows) :
        /\ Becomes(r, [sync[r] EXCEPT !.at = "open", !.row = y, !.file = 1,
                                      !.rows = sync[r].rows \ {y}, !.ok = TRUE])
        /\ shared' = IF \E q \in Requests \ {r} : WorksOn(q, y.host)
                     THEN shared \cup {y.host} ELSE shared
  BY DEF Connect
<1> DEFINE x == [sync[r] EXCEPT !.at = "open", !.row = y, !.file = 1,
                                !.rows = sync[r].rows \ {y}, !.ok = TRUE]
<1>2. sync[r] \in Sync /\ Ordered(sync[r])
  BY InvParts DEF ServerSyncTypeOK, SyncsInv
<1>3. y \in sync[r].rows /\ y \in Row /\ \A z \in sync[r].rows : y = z \/ Before(y, z)
  BY <1>2 DEF Due, Sync
<1>4. x \in Sync
  <2>1. 1 \in Files
    BY ServerSyncAssumption DEF Files
  <2> QED
    BY <1>2, <1>3, <2>1 DEF Sync, Step, Working
<1>5. x.row = y /\ x.rows = sync[r].rows \ {y} /\ x.done = sync[r].done /\ x.at = "open"
  BY <1>2 DEF Sync
<1>6. y # None
  BY <1>3, ServerSyncAssumption DEF Row
<1>7. Ordered(x)
  <2>1. ASSUME NEW z \in x.rows PROVE Precedes(y, z)
    <3>1. z \in sync[r].rows /\ z # y
      BY <1>5
    <3>2. z.id # y.id
      BY <1>2, <1>3, <3>1 DEF Ordered
    <3> QED
      BY <1>3, <3>1, <3>2 DEF Precedes
  <2> QED
    BY <1>2, <1>3, <1>5, <2>1 DEF Ordered
<1>8. Placed(x)
  BY <1>5, <1>6 DEF Placed
<1>9. sync' \in [Requests -> Sync] /\ SyncsInv'
  BY <1>1, <1>4, <1>7, <1>8, InvParts, SyncKeeps
<1>10. UNCHANGED <<server, hostVars, incidents, hand, unseen>>
  BY DEF Connect
<1>11. shared \subseteq shared' /\ shared' \in SUBSET Hosts
  BY <1>1, <1>3, InvParts DEF Row, ServerSyncTypeOK
<1>12. ServerSyncTypeOK' /\ LiveInv'
  BY <1>9, <1>10, <1>11, InvParts DEF ServerSyncTypeOK, hostVars, LiveInv, LiveServer
<1>13. AloneInv'
  <2>1. sync'[r] = x /\ \A q \in Requests \ {r} : sync'[q] = sync[q]
    BY <1>1, InvParts DEF Becomes, ServerSyncTypeOK
  <2>2. \A q \in Requests \ {r}, h \in Hosts : WorksOn(q, h)' <=> WorksOn(q, h)
    BY <2>1 DEF WorksOn, Host
  <2>3. \A h \in Hosts : WorksOn(r, h)' => h = y.host
    BY <1>5, <2>1 DEF WorksOn, Host
  <2>4. ASSUME NEW q \in Requests \ {r}, NEW h \in Hosts, WorksOn(q, h), h = y.host
        PROVE  h \in shared'
    BY <1>1, <2>4
  <2> QED
    BY <1>11, <2>2, <2>3, <2>4, InvParts DEF AloneInv
<1>14. CopiedInv'
  BY <1>1, <1>5, <1>10, <1>11, InvParts, CopiedKeeps DEF hostVars
<1>15. StaticPartSurvives'
  BY <1>10, <1>11, InvParts, StaticKeeps DEF hostVars
<1> QED
  BY <1>9, <1>12, <1>13, <1>14, <1>15 DEF ServerSyncInv

\* The commands' end.
LEMMA CommandMoves ==
    ASSUME ServerSyncInv, NEW r \in Requests, sync[r].at \in Working,
           NEW x \in Sync, Becomes(r, x),
           x.row = sync[r].row, x.rows = sync[r].rows, x.done = sync[r].done,
           x.at \in Working \cup {"report"}, x.at \notin {"truncate", "fill"},
           RestTypes', parent' = parent, backups' = backups, hand' = hand, shared' = shared
    PROVE  ServerSyncInv'
<1>1. Ordered(sync[r]) /\ sync[r].row # None
  BY InvParts, Placement
<1>2. Ordered(x) /\ Placed(x)
  BY <1>1, GoesOn
<1> QED
  BY <1>2, RequestMoves

LEMMA OpenKeeps ==
    ASSUME ServerSyncInv, NEW r \in Requests, Open(r)
    PROVE  ServerSyncInv'
<1> DEFINE x == [sync[r] EXCEPT !.at = "write"]
<1>1. sync[r].at \in Working
  BY DEF Open, At, Working
<1>2. sync[r] \in Sync /\ Host(r) \in Hosts /\ sync[r].file \in Files
  BY <1>1, InvParts, Placement
<1>3. /\ x \in Sync /\ x.at = "write" /\ x.row = sync[r].row
      /\ x.rows = sync[r].rows /\ x.done = sync[r].done
  BY <1>2 DEF Sync, Step, Working
<1>4. managed' \in [Hosts -> [Files -> Content]]
  BY <1>2, InvParts DEF Open, ServerSyncTypeOK, Content
<1>5. /\ Becomes(r, x)
      /\ UNCHANGED <<server, parent, backups, loaded, incidents, history>>
  BY DEF Open
<1>6. RestTypes'
  BY <1>4, <1>5, InvParts DEF RestTypes, ServerSyncTypeOK, history, LiveInv, LiveServer
<1> HIDE DEF x
<1> QED
  BY <1>1, <1>3, <1>5, <1>6, CommandMoves DEF history, Working

LEMMA WriteKeeps ==
    ASSUME ServerSyncInv, NEW r \in Requests, Write(r)
    PROVE  ServerSyncInv'
<1> DEFINE x == AfterCommand(sync[r])
<1>1. sync[r].at \in Working
  BY DEF Write, At, Working
<1>2. sync[r] \in Sync /\ Host(r) \in Hosts /\ sync[r].file \in Files
  BY <1>1, InvParts, Placement
<1>3. managed' \in [Hosts -> [Files -> Content]]
  BY <1>2, InvParts DEF Write, ServerSyncTypeOK, Content
<1>4. /\ Becomes(r, x)
      /\ UNCHANGED <<server, parent, backups, loaded, incidents, history>>
  BY DEF Write
<1>5. RestTypes'
  BY <1>3, <1>4, InvParts DEF RestTypes, ServerSyncTypeOK, history, LiveInv, LiveServer
<1> HIDE DEF x
<1> QED
  BY <1>1, <1>2, <1>4, <1>5, AfterCommandTypes, CommandMoves DEF history, x

LEMMA ReadKeeps ==
    ASSUME ServerSyncInv, NEW r \in Requests, Read(r)
    PROVE  ServerSyncInv'
<1>1. sync[r].at \in Working
  BY DEF Read, At, Working
<1>2. sync[r] \in Sync /\ Host(r) \in Hosts /\ sync[r].file \in Files
  BY <1>1, InvParts, Placement
<1>3. PICK rest \in Stripped(parent[Host(r)][sync[r].file]) :
        Becomes(r, [sync[r] EXCEPT !.at = "backup",
                                   !.text = rest \o <<"begin", "include", "end">>])
  BY DEF Read
<1> DEFINE block == <<"begin", "include", "end">>
           x == [sync[r] EXCEPT !.at = "backup", !.text = rest \o block]
<1>4. rest \o block \in Text
  <2>1. parent[Host(r)][sync[r].file] \in Text
    BY <1>2, InvParts DEF ServerSyncTypeOK
  <2>2. rest \in Text
    BY <2>1, StrippedTypes
  <2>3. block \in Text
    BY DEF Text, Token
  <2> QED
    BY <2>2, <2>3 DEF Text
<1> HIDE DEF block
<1>5. /\ x \in Sync /\ x.at = "backup" /\ x.row = sync[r].row
      /\ x.rows = sync[r].rows /\ x.done = sync[r].done
  BY <1>2, <1>4 DEF Sync, Step, Working
<1>6. UNCHANGED <<server, hostVars, incidents, history>>
  BY DEF Read
<1>7. Becomes(r, x)
  BY <1>3 DEF block
<1> HIDE DEF x
<1> QED
  BY <1>1, <1>5, <1>6, <1>7, RestStays, CommandMoves DEF hostVars, history, Working

LEMMA ReloadKeeps ==
    ASSUME ServerSyncInv, NEW r \in Requests, Reload(r)
    PROVE  ServerSyncInv'
<1> DEFINE x == AfterCommand(sync[r])
<1>1. sync[r].at \in Working
  BY DEF Reload, At, Working
<1>2. sync[r] \in Sync /\ Host(r) \in Hosts /\ sync[r].file \in Files
  BY <1>1, InvParts, Placement
<1>3. /\ managed[Host(r)][sync[r].file] \in Content
      /\ parent[Host(r)][sync[r].file] \in Text
  BY <1>2, InvParts DEF ServerSyncTypeOK
<1>4. Includes(parent[Host(r)][sync[r].file]) \in Nat
  BY <1>3, IncludesTypes
<1>5. loaded' \in [Hosts -> [Files -> [file: Content, includes: Nat]]]
  BY <1>2, <1>3, <1>4, InvParts DEF Reload, ServerSyncTypeOK
<1>6. /\ Becomes(r, x)
      /\ UNCHANGED <<server, managed, parent, backups, incidents, history>>
  BY DEF Reload
<1>7. RestTypes'
  BY <1>5, <1>6, InvParts DEF RestTypes, ServerSyncTypeOK, history, LiveInv, LiveServer
<1> HIDE DEF x
<1> QED
  BY <1>1, <1>2, <1>6, <1>7, AfterCommandTypes, CommandMoves DEF history, x

LEMMA DisconnectKeeps ==
    ASSUME ServerSyncInv, NEW r \in Requests, Disconnect(r)
    PROVE  ServerSyncInv'
<1> DEFINE y == [sync[r] EXCEPT !.at = "report", !.ok = FALSE]
           x == [y EXCEPT !.text = <<>>]
<1>1. sync[r].at \in Working
  BY DEF Disconnect
<1>2. sync[r] \in Sync
  BY <1>1, InvParts, Placement
<1>3. /\ x \in Sync /\ x.at = "report" /\ x.row = sync[r].row
      /\ x.rows = sync[r].rows /\ x.done = sync[r].done
  <2>1. /\ y \in Sync /\ y.at = "report" /\ y.row = sync[r].row
        /\ y.rows = sync[r].rows /\ y.done = sync[r].done
    BY <1>2 DEF Sync, Step
  <2> HIDE DEF y
  <2> QED
    BY <2>1, EmptyText, WithTextTypes
<1>4. Becomes(r, x) /\ UNCHANGED <<server, hostVars, history>> /\ incidents' = incidents + 1
  BY DEF Disconnect, Incident
<1>5. RestTypes'
  BY <1>4, InvParts DEF RestTypes, ServerSyncTypeOK, hostVars, history, LiveInv, LiveServer
<1> HIDE DEF x
<1> QED
  BY <1>1, <1>3, <1>4, <1>5, CommandMoves DEF hostVars, history

LEMMA CommandFailsKeeps ==
    ASSUME ServerSyncInv, NEW r \in Requests, CommandFails(r)
    PROVE  ServerSyncInv'
<1> DEFINE y == AfterCommand(sync[r])
           x == [y EXCEPT !.text = <<>>]
<1>1. sync[r].at \in Working
  BY DEF CommandFails
<1>2. sync[r] \in Sync /\ Host(r) \in Hosts
  BY <1>1, InvParts, Placement
<1>3. /\ y \in Sync /\ y.at \in Working \cup {"report"} /\ y.at \notin {"truncate", "fill"}
      /\ y.row = sync[r].row /\ y.rows = sync[r].rows /\ y.done = sync[r].done
  BY <1>1, <1>2, AfterCommandTypes
<1>4. /\ Becomes(r, x) /\ incidents' = incidents + 1 /\ unseen' = unseen \cup {Host(r)}
      /\ UNCHANGED <<server, hostVars, hand, shared>>
  BY DEF CommandFails, Incident
<1> HIDE DEF y
<1>5. /\ x \in Sync /\ x.at = y.at /\ x.row = y.row /\ x.rows = y.rows /\ x.done = y.done
  BY <1>3, EmptyText, WithTextTypes
<1>6. RestTypes'
  BY <1>2, <1>4, InvParts DEF RestTypes, ServerSyncTypeOK, hostVars, LiveInv, LiveServer
<1> HIDE DEF x
<1> QED
  BY <1>1, <1>3, <1>4, <1>5, <1>6, CommandMoves DEF hostVars

\* The UPDATE of sync_all puts the server among those done; the others end.
LEMMA ReportKeeps ==
    ASSUME ServerSyncInv, NEW r \in Requests, Report(r)
    PROVE  ServerSyncInv'
<1> DEFINE result == [row |-> sync[r].row, ok |-> sync[r].ok]
           x == [sync[r] EXCEPT !.at = IF sync[r].rows = {} THEN "commit" ELSE "connect",
                                !.row = None, !.done = sync[r].done \cup {result}]
           y == [Idle EXCEPT !.at = "ended"]
<1>1. /\ sync[r] \in Sync /\ sync[r].row \in Row /\ sync[r].row # None /\ Ordered(sync[r])
  BY InvParts, Placement DEF Report, At
<1>2. UNCHANGED <<hostVars, incidents, history>>
  BY DEF Report
<1>3. CASE sync[r].all
  <2>1. result \in [row: Row, ok: BOOLEAN]
    BY <1>1 DEF Sync
  <2>2. Becomes(r, x) /\ UNCHANGED server
    BY <1>3 DEF Report
  <2>3. result.row = sync[r].row
    OBVIOUS
  <2> HIDE DEF result
  <2>4. /\ x \in Sync /\ x.at \in {"commit", "connect"} /\ x.row = None
        /\ x.rows = sync[r].rows /\ x.done = sync[r].done \cup {result}
    BY <1>1, <2>1 DEF Sync, Step
  <2>5. Ordered(x) /\ Placed(x)
    BY <1>1, <2>3, <2>4 DEF Ordered, Placed, Working
  <2> HIDE DEF x
  <2> QED
    BY <1>2, <2>2, <2>4, <2>5, RestStays, RequestMoves DEF hostVars, history, Working
<1>4. CASE ~sync[r].all
  <2>1. Becomes(r, y) /\ server' = WithStatuses({result})
    BY <1>4 DEF Report
  <2>2. y \in Sync /\ y.at = "ended" /\ Placed(y) /\ Ordered(y)
    BY IdleTypes DEF Sync, Step, Idle, Placed, Ordered, Working
  <2>3. RestTypes'
    BY <1>2, <2>1, InvParts, StatusesKeep DEF RestTypes, ServerSyncTypeOK, hostVars, history
  <2> HIDE DEF y
  <2> QED
    BY <1>2, <2>1, <2>2, <2>3, RequestMoves DEF hostVars, history, Working
<1> QED
  BY <1>3, <1>4

LEMMA CommitKeeps ==
    ASSUME ServerSyncInv, NEW r \in Requests, Commit(r)
    PROVE  ServerSyncInv'
<1> DEFINE y == [Idle EXCEPT !.at = "ended"]
<1>1. /\ Becomes(r, y) /\ server' = WithStatuses(sync[r].done)
      /\ UNCHANGED <<hostVars, incidents, history>>
  BY DEF Commit
<1>2. y \in Sync /\ y.at = "ended" /\ Placed(y) /\ Ordered(y)
  BY IdleTypes DEF Sync, Step, Idle, Placed, Ordered, Working
<1>3. RestTypes'
  BY <1>1, InvParts, StatusesKeep DEF RestTypes, ServerSyncTypeOK, hostVars, history
<1> HIDE DEF y
<1> QED
  BY <1>1, <1>2, <1>3, RequestMoves DEF hostVars, history, Working

-----------------------------------------------------------------------------
(* The steps that write the configuration. *)

LEMMA BackedUpTypes ==
    ASSUME NEW copies \in Seq(Text), NEW t \in Text, NEW taken, NEW c \in BackedUp(copies, t, taken)
    PROVE  c \in Seq(Text)
<1>1. Append(copies, t) \in Seq(Text)
  OBVIOUS
<1>2. ASSUME copies # <<>> PROVE [copies EXCEPT ![Len(copies)] = t] \in Seq(Text)
  BY <1>2
<1> QED
  BY <1>1, <1>2 DEF BackedUp

\* A backup by a request that is alone on the host saves all lines.
LEMMA BackedUpSaves ==
    ASSUME NEW copies \in Seq(Text), NEW t \in Text, NEW c \in BackedUp(copies, t, FALSE)
    PROVE  Written(t) \cup LinesOf(copies) \subseteq LinesOf(c)
<1>1. c = Append(copies, t)
  BY DEF BackedUp
<1>2. \A k \in DOMAIN copies : k \in DOMAIN c /\ c[k] = copies[k]
  BY <1>1
<1>3. Len(copies) + 1 \in DOMAIN c /\ c[Len(copies) + 1] = t
  BY <1>1
<1> QED
  BY <1>2, <1>3 DEF LinesOf

\* The backup holds all that was there, unless another request is at work.
LEMMA BackupKeeps ==
    ASSUME ServerSyncInv, NEW r \in Requests, Backup(r)
    PROVE  ServerSyncInv'
<1>1. sync[r].at \in Working
  BY DEF Backup, At, Working
<1>2. /\ sync[r] \in Sync /\ Host(r) \in Hosts /\ sync[r].file \in Files
      /\ WorksOn(r, Host(r)) /\ Ordered(sync[r]) /\ sync[r].row # None
  BY <1>1, InvParts, Placement
<1> PICK h \in Hosts : h = Host(r)
  BY <1>2
<1> PICK i \in Files : i = sync[r].file
  BY <1>2
<1> DEFINE x == [sync[r] EXCEPT !.at = "truncate"]
           taken == \E q \in Requests \ {r} : WorksOn(q, h)
<1>3. /\ x \in Sync /\ x.at = "truncate" /\ x.row = sync[r].row /\ x.file = i
      /\ x.rows = sync[r].rows /\ x.done = sync[r].done
  BY <1>2 DEF Sync, Step, Working
<1>4. PICK copies \in BackedUp(backups[h][i], parent[h][i], taken) :
        backups' = [backups EXCEPT ![h][i] = copies]
  BY DEF Backup
<1>5. Becomes(r, x) /\ UNCHANGED <<server, managed, parent, loaded, incidents, history>>
  BY DEF Backup
<1>6. backups[h][i] \in Seq(Text) /\ parent[h][i] \in Text
  BY InvParts DEF ServerSyncTypeOK
<1>7. copies \in Seq(Text)
  BY <1>6, BackedUpTypes
<1>8. sync' \in [Requests -> Sync] /\ SyncsInv'
  <2>1. Ordered(x) /\ Placed(x)
    BY <1>2, <1>3, GoesOn
  <2> HIDE DEF x
  <2> QED
    BY <1>3, <1>5, <2>1, InvParts, SyncKeeps
<1>9. ServerSyncTypeOK' /\ LiveInv'
  <2>1. backups' \in [Hosts -> [Files -> Seq(Text)]]
    BY <1>4, <1>7, InvParts DEF ServerSyncTypeOK
  <2> QED
    BY <1>5, <1>8, <2>1, InvParts DEF ServerSyncTypeOK, history, LiveInv, LiveServer
<1>10. AloneInv'
  BY <1>1, <1>3, <1>5, InvParts, AloneKeeps DEF history
<1>11. \A g \in Hosts, j \in Files : g # h \/ j # i => backups'[g][j] = backups[g][j]
  BY <1>4, InvParts DEF ServerSyncTypeOK
<1>12. backups'[h][i] = copies
  BY <1>4, InvParts DEF ServerSyncTypeOK
<1>13. ASSUME h \notin shared
       PROVE  Written(parent[h][i]) \cup LinesOf(backups[h][i]) \subseteq LinesOf(backups'[h][i])
  <2>1. taken = FALSE
    BY <1>2, <1>13, InvParts DEF AloneInv
  <2> HIDE DEF taken
  <2> QED
    BY <1>6, <1>12, <2>1, BackedUpSaves
<1>14. CopiedInv'
  <2> SUFFICES ASSUME NEW q \in Requests, NEW g \in Hosts \ shared,
                      WorksOn(q, g)', sync'[q].at \in {"truncate", "fill"}
               PROVE  hand[g][sync'[q].file] \subseteq LinesOf(backups'[g][sync'[q].file])
    BY <1>5 DEF CopiedInv, history, Saved
  <2>1. CASE q = r
    <3>1. sync'[q] = x /\ g = h
      BY <1>3, <1>5, <2>1, InvParts DEF Becomes, WorksOn, Host, ServerSyncTypeOK
    <3>2. hand[h][i] \subseteq Written(parent[h][i]) \cup LinesOf(backups[h][i])
      BY <3>1, InvParts DEF StaticPartSurvives, Saved
    <3> QED
      BY <1>3, <1>13, <3>1, <3>2
  <2>2. CASE q # r
    <3>1. sync'[q] = sync[q]
      BY <1>5, <2>2, InvParts DEF Becomes, ServerSyncTypeOK
    <3>2. WorksOn(q, g)
      BY <3>1 DEF WorksOn, Host
    <3>3. g # h
      BY <1>2, <2>2, <3>2, InvParts DEF AloneInv
    <3>4. sync[q].file \in Files
      BY InvParts DEF ServerSyncTypeOK, Sync
    <3>5. backups'[g][sync[q].file] = backups[g][sync[q].file]
      BY <1>11, <3>3, <3>4
    <3> QED
      BY <3>1, <3>2, <3>5, InvParts DEF CopiedInv, Saved
  <2> QED
    BY <2>1, <2>2
<1>15. StaticPartSurvives'
  <2> SUFFICES ASSUME NEW g \in Hosts \ shared, NEW j \in Files
               PROVE  hand[g][j] \subseteq Written(parent[g][j]) \cup LinesOf(backups'[g][j])
    BY <1>5 DEF StaticPartSurvives, history, Saved
  <2>1. hand[g][j] \subseteq Written(parent[g][j]) \cup LinesOf(backups[g][j])
    BY InvParts DEF StaticPartSurvives, Saved
  <2>2. CASE g = h /\ j = i
    BY <1>13, <2>1, <2>2
  <2>3. CASE g # h \/ j # i
    BY <1>11, <2>1, <2>3
  <2> QED
    BY <2>2, <2>3
<1> QED
  BY <1>8, <1>9, <1>10, <1>14, <1>15 DEF ServerSyncInv

\* At the steps that empty and fill the file, the backup has what matters.
LEMMA CopiedHere ==
    ASSUME ServerSyncInv, NEW r \in Requests, sync[r].at \in {"truncate", "fill"},
           Host(r) \notin shared
    PROVE  hand[Host(r)][sync[r].file] \subseteq LinesOf(backups[Host(r)][sync[r].file])
<1>1. Host(r) \in Hosts /\ WorksOn(r, Host(r))
  BY InvParts, Placement DEF Working
<1> QED
  BY <1>1, InvParts DEF CopiedInv, Saved

LEMMA StaticAfterWriting ==
    ASSUME ServerSyncInv, NEW r \in Requests, sync[r].at \in {"truncate", "fill"},
           NEW t \in Text, parent' = [parent EXCEPT ![Host(r)][sync[r].file] = t],
           backups' = backups, hand' = hand, shared' = shared
    PROVE  parent' \in [Hosts -> [Files -> Text]] /\ StaticPartSurvives'
<1>1. Host(r) \in Hosts /\ sync[r].file \in Files
  BY InvParts, Placement DEF Working
<1>2. parent' \in [Hosts -> [Files -> Text]]
  BY <1>1, InvParts DEF ServerSyncTypeOK
<1>3. StaticPartSurvives'
  <2> SUFFICES ASSUME NEW g \in Hosts \ shared, NEW j \in Files
               PROVE  hand[g][j] \subseteq Written(parent'[g][j]) \cup LinesOf(backups[g][j])
    BY DEF StaticPartSurvives, Saved
  <2>1. CASE g = Host(r) /\ j = sync[r].file
    BY <2>1, CopiedHere
  <2>2. CASE g # Host(r) \/ j # sync[r].file
    <3>1. parent'[g][j] = parent[g][j]
      BY <2>2, InvParts DEF ServerSyncTypeOK
    <3> QED
      BY <3>1, InvParts DEF StaticPartSurvives, Saved
  <2> QED
    BY <2>1, <2>2
<1> QED
  BY <1>2, <1>3

LEMMA TruncateKeeps ==
    ASSUME ServerSyncInv, NEW r \in Requests, Truncate(r)
    PROVE  ServerSyncInv'
<1> DEFINE x == [sync[r] EXCEPT !.at = "fill"]
<1>1. sync[r].at = "truncate" /\ sync[r].at \in Working
  BY DEF Truncate, At, Working
<1>2. /\ sync[r] \in Sync /\ Host(r) \in Hosts /\ sync[r].file \in Files
      /\ WorksOn(r, Host(r)) /\ Ordered(sync[r]) /\ sync[r].row # None
  BY <1>1, InvParts, Placement
<1>3. /\ x \in Sync /\ x.at = "fill" /\ x.row = sync[r].row /\ x.file = sync[r].file
      /\ x.rows = sync[r].rows /\ x.done = sync[r].done
  BY <1>2 DEF Sync, Step, Working
<1>4. /\ Becomes(r, x) /\ parent' = [parent EXCEPT ![Host(r)][sync[r].file] = <<>>]
      /\ UNCHANGED <<server, managed, backups, loaded, incidents, history>>
  BY DEF Truncate
<1>5. sync' \in [Requests -> Sync] /\ SyncsInv'
  <2>1. Ordered(x) /\ Placed(x)
    BY <1>2, <1>3, GoesOn
  <2> HIDE DEF x
  <2> QED
    BY <1>3, <1>4, <2>1, InvParts, SyncKeeps
<1>6. parent' \in [Hosts -> [Files -> Text]] /\ StaticPartSurvives'
  BY <1>1, <1>4, EmptyText, StaticAfterWriting DEF history
<1>7. ServerSyncTypeOK' /\ LiveInv'
  BY <1>4, <1>5, <1>6, InvParts DEF ServerSyncTypeOK, history, LiveInv, LiveServer
<1>8. AloneInv'
  BY <1>1, <1>3, <1>4, InvParts, AloneKeeps DEF history
<1>9. CopiedInv'
  <2>1. \A q \in Requests, h \in Hosts :
          /\ WorksOn(q, h)' => WorksOn(q, h)
          /\ sync'[q].file = sync[q].file
          /\ sync'[q].at \in {"truncate", "fill"} => sync[q].at \in {"truncate", "fill"}
    BY <1>1, <1>3, <1>4, InvParts DEF Becomes, WorksOn, Host, ServerSyncTypeOK
  <2>2. SUFFICES ASSUME NEW q \in Requests, NEW h \in Hosts \ shared,
                        WorksOn(q, h)', sync'[q].at \in {"truncate", "fill"}
                 PROVE  hand[h][sync[q].file] \subseteq LinesOf(backups[h][sync[q].file])
    BY <1>4, <2>1 DEF CopiedInv, Saved, history
  <2> QED
    BY <2>1, <2>2, InvParts DEF CopiedInv, Saved
<1> QED
  BY <1>5, <1>6, <1>7, <1>8, <1>9 DEF ServerSyncInv

LEMMA FillKeeps ==
    ASSUME ServerSyncInv, NEW r \in Requests, Fill(r)
    PROVE  ServerSyncInv'
<1> DEFINE y == AfterCommand(sync[r])
           x == [y EXCEPT !.text = <<>>]
           there == parent[Host(r)][sync[r].file]
           t == sync[r].text
           over == IF Len(there) <= Len(t) THEN t
                   ELSE t \o SubSeq(there, Len(t) + 1, Len(there))
<1>1. sync[r].at = "fill" /\ sync[r].at \in Working
  BY DEF Fill, At, Working
<1>2. /\ sync[r] \in Sync /\ Host(r) \in Hosts /\ sync[r].file \in Files
      /\ Ordered(sync[r]) /\ sync[r].row # None
  BY <1>1, InvParts, Placement
<1>3. /\ y \in Sync /\ y.at \in Working \cup {"report"} /\ y.at \notin {"truncate", "fill"}
      /\ y.row = sync[r].row /\ y.rows = sync[r].rows /\ y.done = sync[r].done
  BY <1>1, <1>2, AfterCommandTypes
<1>4. /\ Becomes(r, x) /\ parent' = [parent EXCEPT ![Host(r)][sync[r].file] = over]
      /\ UNCHANGED <<server, managed, backups, loaded, incidents, history>>
  BY DEF Fill
<1> HIDE DEF y
<1>5. /\ x \in Sync /\ x.at = y.at /\ x.row = y.row /\ x.rows = y.rows /\ x.done = y.done
  BY <1>3, EmptyText, WithTextTypes
<1>6. over \in Text
  <2>1. there \in Text /\ t \in Text
    BY <1>2, InvParts DEF ServerSyncTypeOK, Sync
  <2> HIDE DEF there, t
  <2> QED
    BY <2>1 DEF Text
<1> HIDE DEF x, over
<1>7. sync' \in [Requests -> Sync] /\ SyncsInv'
  <2>1. Ordered(x) /\ Placed(x)
    BY <1>2, <1>3, <1>5, GoesOn
  <2> QED
    BY <1>4, <1>5, <2>1, InvParts, SyncKeeps
<1>8. parent' \in [Hosts -> [Files -> Text]] /\ StaticPartSurvives'
  BY <1>1, <1>4, <1>6, StaticAfterWriting DEF history
<1>9. ServerSyncTypeOK' /\ LiveInv'
  BY <1>4, <1>7, <1>8, InvParts DEF ServerSyncTypeOK, history, LiveInv, LiveServer
<1>10. AloneInv'
  BY <1>1, <1>3, <1>4, <1>5, InvParts, AloneKeeps DEF history
<1>11. CopiedInv'
  BY <1>3, <1>4, <1>5, InvParts, CopiedKeeps DEF history
<1> QED
  BY <1>7, <1>8, <1>9, <1>10, <1>11 DEF ServerSyncInv

-----------------------------------------------------------------------------
(* Restart, people and administrators. *)

\* Requests that stop, by a restart or as the victim of a deadlock, leave the hosts
\* as they are.
LEMMA StoppedKeeps ==
    ASSUME ServerSyncInv, NEW S \in SUBSET Requests, Stopped(S), incidents' \in Nat
    PROVE  ServerSyncInv'
<1>1. /\ sync' = [r \in Requests |-> IF r \in S THEN [Idle EXCEPT !.at = "ended"] ELSE sync[r]]
      /\ UNCHANGED <<server, hostVars, hand, shared>>
      /\ unseen' = unseen \cup UNION {Touched(r) : r \in S}
  BY DEF Stopped
<1> DEFINE y == [Idle EXCEPT !.at = "ended"]
<1>2. y \in Sync /\ y.at = "ended" /\ Placed(y) /\ Ordered(y)
  BY IdleTypes DEF Sync, Step, Idle, Placed, Ordered, Working
<1> HIDE DEF y
<1>3. \A r \in Requests : sync'[r] = y \/ sync'[r] = sync[r]
  BY <1>1 DEF y
<1>4. sync' \in [Requests -> Sync] /\ SyncsInv'
  BY <1>1, <1>2, <1>3, InvParts DEF ServerSyncTypeOK, SyncsInv
<1>5. unseen' \in SUBSET Hosts
  BY <1>1, InvParts DEF ServerSyncTypeOK, Touched
<1>6. ServerSyncTypeOK' /\ LiveInv'
  <2>1. UNCHANGED <<server, managed, parent, backups, loaded, hand, shared>>
    BY <1>1 DEF hostVars
  <2> QED
    BY <1>4, <1>5, <2>1, InvParts DEF ServerSyncTypeOK, LiveInv, LiveServer
<1>7. \A r \in Requests, h \in Hosts : WorksOn(r, h)' => WorksOn(r, h) /\ sync'[r] = sync[r]
  BY <1>2, <1>3 DEF WorksOn, Host, Working
<1>8. AloneInv'
  BY <1>1, <1>7, InvParts DEF AloneInv
<1>9. CopiedInv'
  <2>1. SUFFICES ASSUME NEW q \in Requests, NEW h \in Hosts \ shared,
                        WorksOn(q, h)', sync'[q].at \in {"truncate", "fill"}
                 PROVE  hand[h][sync[q].file] \subseteq LinesOf(backups[h][sync[q].file])
    BY <1>1, <1>7 DEF CopiedInv, Saved, hostVars
  <2> QED
    BY <1>7, <2>1, InvParts DEF CopiedInv, Saved
<1>10. StaticPartSurvives'
  BY <1>1, InvParts, StaticKeeps DEF hostVars
<1> QED
  BY <1>4, <1>6, <1>8, <1>9, <1>10 DEF ServerSyncInv

LEMMA RestartKeeps ==
    ASSUME ServerSyncInv, Restart \/ AbortVictim
    PROVE  ServerSyncInv'
<1>1. incidents' \in Nat
  <2>1. incidents \in Nat
    BY InvParts DEF ServerSyncTypeOK
  <2>2. CASE Restart
    BY <2>1, <2>2 DEF Restart, Incident
  <2>3. CASE AbortVictim
    BY <2>1, <2>3 DEF AbortVictim
  <2> QED
    BY <2>2, <2>3
<1>2. PICK S \in SUBSET Requests : Stopped(S)
  <2>1. CASE Restart
    BY <2>1 DEF Restart
  <2>2. CASE AbortVictim
    <3>1. PICK r \in Requests : Stopped({r})
      BY <2>2 DEF AbortVictim
    <3> QED
      BY <3>1
  <2> QED
    BY <2>1, <2>2
<1> QED
  BY <1>1, <1>2, StoppedKeeps

\* A file that nobody is about to empty gets a text that has its lines.
LEMMA EditMoves ==
    ASSUME ServerSyncInv, NEW h \in Hosts, NEW i \in Files, Editable(h),
           NEW t \in Text, parent' = [parent EXCEPT ![h][i] = t],
           NEW lines \in SUBSET Lines, hand' = [hand EXCEPT ![h][i] = hand[h][i] \cup lines],
           Written(parent[h][i]) \cup lines \subseteq Written(t),
           UNCHANGED <<server, sync, managed, backups, loaded, shared>>,
           incidents' \in Nat, unseen' \in SUBSET Hosts
    PROVE  ServerSyncInv'
<1>1. \A g \in Hosts, j \in Files : g # h \/ j # i =>
         parent'[g][j] = parent[g][j] /\ hand'[g][j] = hand[g][j]
  BY InvParts DEF ServerSyncTypeOK
<1>2. parent'[h][i] = t /\ hand'[h][i] = hand[h][i] \cup lines
  BY InvParts DEF ServerSyncTypeOK
<1>3. ServerSyncTypeOK' /\ LiveInv' /\ SyncsInv'
  BY InvParts DEF ServerSyncTypeOK, LiveInv, LiveServer, SyncsInv
<1>4. \A r \in Requests, g \in Hosts : WorksOn(r, g)' <=> WorksOn(r, g)
  BY DEF WorksOn, Host
<1>5. AloneInv'
  BY <1>4, InvParts DEF AloneInv
<1>6. CopiedInv'
  <2> SUFFICES ASSUME NEW r \in Requests, NEW g \in Hosts \ shared,
                      WorksOn(r, g), sync[r].at \in {"truncate", "fill"}
               PROVE  hand'[g][sync[r].file] \subseteq LinesOf(backups[g][sync[r].file])
    BY <1>4 DEF CopiedInv, Saved
  <2>1. g # h /\ sync[r].file \in Files
    BY InvParts DEF Editable, ServerSyncTypeOK, Sync
  <2> QED
    BY <1>1, <2>1, InvParts DEF CopiedInv, Saved
<1>7. StaticPartSurvives'
  <2> SUFFICES ASSUME NEW g \in Hosts \ shared, NEW j \in Files
               PROVE  hand'[g][j] \subseteq Written(parent'[g][j]) \cup LinesOf(backups[g][j])
    BY DEF StaticPartSurvives, Saved
  <2>1. hand[g][j] \subseteq Written(parent[g][j]) \cup LinesOf(backups[g][j])
    BY InvParts DEF StaticPartSurvives, Saved
  <2> QED
    BY <1>1, <1>2, <2>1
<1> QED
  BY <1>3, <1>5, <1>6, <1>7 DEF ServerSyncInv

LEMMA EditByHandKeeps ==
    ASSUME ServerSyncInv, NEW h \in Hosts, NEW i \in Files, NEW line \in Lines,
           EditByHand(h, i, line)
    PROVE  ServerSyncInv'
<1> DEFINE old == parent[h][i]
           new == Append(old, line)
<1>1. old \in Text
  BY InvParts DEF ServerSyncTypeOK
<1>2. /\ Editable(h) /\ parent' = [parent EXCEPT ![h][i] = new]
      /\ hand' = [hand EXCEPT ![h][i] = hand[h][i] \cup {line}] /\ incidents' = incidents + 1
      /\ UNCHANGED <<server, sync, managed, backups, loaded, shared, unseen>>
  BY DEF EditByHand, Incident
<1>3. incidents' \in Nat /\ unseen' \in SUBSET Hosts
  BY <1>2, InvParts DEF ServerSyncTypeOK
<1> HIDE DEF old
<1>4. new \in Text /\ Written(old) \cup {line} \subseteq Written(new)
  <2>1. new \in Text
    BY <1>1 DEF Text, Token
  <2>2. \A k \in DOMAIN old : k \in DOMAIN new /\ new[k] = old[k]
    BY <1>1 DEF Text
  <2>3. Len(old) + 1 \in DOMAIN new /\ new[Len(old) + 1] = line
    BY <1>1 DEF Text
  <2> QED
    BY <2>1, <2>2, <2>3 DEF Written
<1> HIDE DEF new
<1>5. {line} \in SUBSET Lines /\ Written(parent[h][i]) \cup {line} \subseteq Written(new)
  BY <1>4 DEF old
<1> QED
  BY <1>2, <1>3, <1>4, <1>5, EditMoves

\* Two texts together have their elements.
LEMMA JoinedTypes ==
    ASSUME NEW a \in Text, NEW b \in Text
    PROVE  a \o b \in Text /\ Written(a) \cup Written(b) \subseteq Written(a \o b)
<1>1. PICK u : u = a \o b
  OBVIOUS
<1>2. /\ u \in Seq(Token) /\ Len(u) = Len(a) + Len(b)
      /\ \A j \in 1..(Len(a) + Len(b)) : u[j] = IF j <= Len(a) THEN a[j] ELSE b[j - Len(a)]
  BY <1>1, ConcatProperties, Zenon DEF Text
<1>3. /\ Len(a) \in Nat /\ DOMAIN a = 1..Len(a)
      /\ Len(b) \in Nat /\ DOMAIN b = 1..Len(b) /\ DOMAIN u = 1..Len(u)
  BY <1>2 DEF Text
<1>4. \A j \in DOMAIN a : j \in DOMAIN u /\ u[j] = a[j]
  BY <1>2, <1>3
<1>5. \A j \in DOMAIN b : Len(a) + j \in DOMAIN u /\ u[Len(a) + j] = b[j]
  <2> SUFFICES ASSUME NEW j \in DOMAIN b
               PROVE  Len(a) + j \in DOMAIN u /\ u[Len(a) + j] = b[j]
    OBVIOUS
  <2>1. /\ Len(a) + j \in 1..(Len(a) + Len(b)) /\ ~(Len(a) + j <= Len(a))
        /\ (Len(a) + j) - Len(a) = j
    BY <1>3
  <2> QED
    BY <1>2, <1>3, <2>1
<1> QED
  BY <1>1, <1>2, <1>4, <1>5 DEF Written, Text

\* A piece of a text has the elements of its range.
LEMMA PieceTypes ==
    ASSUME NEW t \in Text, NEW m \in Int, NEW n \in Int, 1 <= m, n <= Len(t)
    PROVE  /\ SubSeq(t, m, n) \in Text
           /\ {t[j] : j \in m..n} \cap Lines \subseteq Written(SubSeq(t, m, n))
<1>1. \A j \in m..n : t[j] \in Token
  BY DEF Text
<1>2. PICK u : u = SubSeq(t, m, n)
  OBVIOUS
<1>3. /\ u \in Seq(Token) /\ Len(u) = IF m <= n THEN n - m + 1 ELSE 0
      /\ \A j \in 1..(n - m + 1) : u[j] = t[m + j - 1]
  <2>1. u \in Seq(Token)
    BY <1>1, <1>2
  <2>2. Len(u) = IF m <= n THEN n - m + 1 ELSE 0
    BY <1>2
  <2>3. \A j \in 1..(n - m + 1) : u[j] = t[m + j - 1]
    BY <1>2
  <2> QED
    BY <2>1, <2>2, <2>3
<1>4. \A j \in m..n : \E l \in DOMAIN u : u[l] = t[j]
  <2> SUFFICES ASSUME NEW j \in m..n
               PROVE  \E l \in DOMAIN u : u[l] = t[j]
    OBVIOUS
  <2>1. j - m + 1 \in 1..(n - m + 1) /\ m + (j - m + 1) - 1 = j /\ m <= n
    OBVIOUS
  <2>2. DOMAIN u = 1..(n - m + 1)
    BY <1>3, <2>1
  <2> QED
    BY <1>3, <2>1, <2>2
<1> QED
  BY <1>2, <1>3, <1>4 DEF Written, Text

\* A text without the element k.
LEMMA WithoutElement ==
    ASSUME NEW t \in Text, NEW k \in 1..Len(t), t[k] \notin Lines
    PROVE  LET u == SubSeq(t, 1, k - 1) \o SubSeq(t, k + 1, Len(t)) IN
           u \in Text /\ Written(t) \subseteq Written(u)
<1>1. Len(t) \in Nat /\ DOMAIN t = 1..Len(t) /\ k \in Int /\ k <= Len(t)
  BY DEF Text
<1>2. PICK a \in Text : /\ a = SubSeq(t, 1, k - 1)
                        /\ {t[j] : j \in 1..(k - 1)} \cap Lines \subseteq Written(a)
  <2>1. 1 \in Int /\ k - 1 \in Int /\ 1 <= 1 /\ k - 1 <= Len(t)
    BY <1>1
  <2> QED
    BY <2>1, PieceTypes
<1>3. PICK b \in Text : /\ b = SubSeq(t, k + 1, Len(t))
                        /\ {t[j] : j \in (k + 1)..Len(t)} \cap Lines \subseteq Written(b)
  <2>1. k + 1 \in Int /\ Len(t) \in Int /\ 1 <= k + 1 /\ Len(t) <= Len(t)
    BY <1>1
  <2> QED
    BY <2>1, PieceTypes
<1>4. \A j \in DOMAIN t : j = k \/ j \in 1..(k - 1) \/ j \in (k + 1)..Len(t)
  BY <1>1
<1>5. Written(t) \subseteq Written(a) \cup Written(b)
  BY <1>2, <1>3, <1>4, Zenon DEF Written
<1>6. a \o b \in Text /\ Written(a) \cup Written(b) \subseteq Written(a \o b)
  BY JoinedTypes
<1> QED
  BY <1>2, <1>3, <1>5, <1>6

LEMMA DeleteMarkerKeeps ==
    ASSUME ServerSyncInv, NEW h \in Hosts, NEW i \in Files, DeleteMarker(h, i)
    PROVE  ServerSyncInv'
<1> DEFINE old == parent[h][i]
<1>1. old \in Text
  BY InvParts DEF ServerSyncTypeOK
<1>2. PICK k \in Positions(old, "end") :
        parent' = [parent EXCEPT ![h][i] = SubSeq(old, 1, k - 1) \o SubSeq(old, k + 1, Len(old))]
  BY DEF DeleteMarker
<1>3. PICK new : new = SubSeq(old, 1, k - 1) \o SubSeq(old, k + 1, Len(old))
  OBVIOUS
<1>4. /\ Editable(h) /\ incidents' = incidents + 1 /\ unseen' = unseen \cup {h}
      /\ UNCHANGED <<server, sync, managed, backups, loaded, hand, shared>>
  BY DEF DeleteMarker, Incident
<1>5. incidents' \in Nat /\ unseen' \in SUBSET Hosts
  BY <1>4, InvParts DEF ServerSyncTypeOK
<1> PICK none \in SUBSET Lines : none = {}
  OBVIOUS
<1>6. hand' = [hand EXCEPT ![h][i] = hand[h][i] \cup none]
  <2>1. hand[h][i] \cup none = hand[h][i]
    OBVIOUS
  <2>2. hand \in [Hosts -> [Files -> SUBSET Lines]]
    BY InvParts DEF ServerSyncTypeOK
  <2> QED
    BY <1>4, <2>1, <2>2
<1>7. parent' = [parent EXCEPT ![h][i] = new]
  BY <1>2, <1>3
<1>8. new \in Text /\ Written(old) \subseteq Written(new)
  <2> HIDE DEF old
  <2>1. k \in 1..Len(old) /\ old[k] = "end"
    BY <1>1 DEF Positions, Text
  <2>2. old[k] \notin Lines
    BY <2>1, ServerSyncAssumption
  <2> QED
    BY <1>1, <1>3, <2>1, <2>2, WithoutElement
<1>9. new \in Text /\ Written(parent[h][i]) \cup none \subseteq Written(new)
  BY <1>8
<1>10. Editable(h) /\ UNCHANGED <<server, sync, managed, backups, loaded, shared>>
  BY <1>4
<1> HIDE DEF old
<1> QED
  BY <1>5, <1>6, <1>7, <1>9, <1>10, EditMoves

\* One row of asterisk_servers is replaced.
LEMMA RowReplaced ==
    ASSUME ServerSyncInv, NEW s \in Servers, NEW row \in Server,
           row.state = "live" => row.host # None,
           server' = [server EXCEPT ![s] = row]
    PROVE  server' \in [Servers -> Server] /\ LiveInv'
<1>1. server \in [Servers -> Server] /\ LiveInv
  BY InvParts DEF ServerSyncTypeOK
<1>2. server' \in [Servers -> Server]
  BY <1>1
<1>3. \A u \in Servers : server'[u] = IF u = s THEN row ELSE server[u]
  BY <1>1
<1> QED
  BY <1>1, <1>2, <1>3 DEF LiveInv, LiveServer

LEMMA AdministrationKeeps ==
    ASSUME ServerSyncInv, Administration
    PROVE  ServerSyncInv'
<1>1. PICK s \in Servers :
        \/ EnableServer(s) \/ DeleteServer(s)
        \/ \E role \in Roles : AssignRole(s, role)
        \/ \E h \in Hosts : MoveServer(s, h) \/ \E role \in Roles : CreateServer(s, h, role)
  BY DEF Administration
<1>2. /\ server \in [Servers -> Server] /\ incidents \in Nat /\ unseen \in SUBSET Hosts
      /\ LiveInv /\ server[s] \in Server
  BY InvParts DEF ServerSyncTypeOK
<1>3. /\ server' \in [Servers -> Server] /\ LiveInv' /\ incidents' \in Nat
      /\ unseen' \in SUBSET Hosts /\ UNCHANGED <<sync, hostVars, hand, shared>>
  <2>1. CASE EnableServer(s)
    <3> DEFINE row == [server[s] EXCEPT !.enabled = ~server[s].enabled]
    <3>1. /\ server' = [server EXCEPT ![s] = row] /\ incidents' = incidents + 1
          /\ UNCHANGED <<sync, hostVars, hand, shared, unseen>> /\ LiveServer(s)
      BY <2>1 DEF EnableServer, Incident, history
    <3>2. row \in Server /\ row.host = server[s].host
      BY <1>2 DEF Server
    <3>3. row.host # None
      BY <1>2, <3>1, <3>2 DEF LiveInv
    <3> HIDE DEF row
    <3>4. server' \in [Servers -> Server] /\ LiveInv'
      BY <3>1, <3>2, <3>3, RowReplaced
    <3> QED
      BY <1>2, <3>1, <3>3, <3>4
  <2>2. CASE DeleteServer(s)
    <3> DEFINE row == [server[s] EXCEPT !.state = "deleted"]
    <3>1. /\ server' = [server EXCEPT ![s] = row] /\ incidents' = incidents + 1
          /\ UNCHANGED <<sync, hostVars, hand, shared>> /\ LiveServer(s)
          /\ unseen' = unseen \cup {server[s].host}
      BY <2>2 DEF DeleteServer, Incident
    <3>2. row \in Server /\ row.state = "deleted"
      BY <1>2 DEF Server
    <3>3. server[s].host \in Hosts
      BY <1>2, <3>1 DEF LiveInv, Server
    <3> HIDE DEF row
    <3>4. server' \in [Servers -> Server] /\ LiveInv'
      BY <3>1, <3>2, <3>3, RowReplaced
    <3> QED
      BY <1>2, <3>1, <3>3, <3>4
  <2>3. ASSUME NEW h \in Hosts, NEW role \in Roles, CreateServer(s, h, role)
        PROVE  /\ server' \in [Servers -> Server] /\ LiveInv' /\ incidents' \in Nat
               /\ unseen' \in SUBSET Hosts /\ UNCHANGED <<sync, hostVars, hand, shared>>
    <3> DEFINE row == [state |-> "live", host |-> h, role |-> role, enabled |-> TRUE,
                       status |-> "never"]
    <3>1. /\ server' = [server EXCEPT ![s] = row] /\ incidents' = incidents + 1
          /\ UNCHANGED <<sync, hostVars, hand, shared, unseen>>
      BY <2>3 DEF CreateServer, Incident, history
    <3>2. row \in Server /\ row.host # None
      BY ServerSyncAssumption DEF Server
    <3> HIDE DEF row
    <3>3. server' \in [Servers -> Server] /\ LiveInv'
      BY <3>1, <3>2, RowReplaced
    <3> QED
      BY <1>2, <3>1, <3>3
  <2>4. ASSUME NEW h \in Hosts, MoveServer(s, h)
        PROVE  /\ server' \in [Servers -> Server] /\ LiveInv' /\ incidents' \in Nat
               /\ unseen' \in SUBSET Hosts /\ UNCHANGED <<sync, hostVars, hand, shared>>
    <3> DEFINE row == [server[s] EXCEPT !.host = h]
    <3>1. /\ server' = [server EXCEPT ![s] = row] /\ incidents' = incidents + 1
          /\ UNCHANGED <<sync, hostVars, hand, shared>> /\ LiveServer(s)
          /\ unseen' = unseen \cup {server[s].host, h}
      BY <2>4 DEF MoveServer, Incident
    <3>2. row \in Server /\ row.host # None
      BY <1>2, ServerSyncAssumption DEF Server
    <3>3. server[s].host \in Hosts
      BY <1>2, <3>1 DEF LiveInv, Server
    <3> HIDE DEF row
    <3>4. server' \in [Servers -> Server] /\ LiveInv'
      BY <3>1, <3>2, <3>3, RowReplaced
    <3> QED
      BY <1>2, <3>1, <3>3, <3>4
  <2>5. ASSUME NEW role \in Roles, AssignRole(s, role)
        PROVE  /\ server' \in [Servers -> Server] /\ LiveInv' /\ incidents' \in Nat
               /\ unseen' \in SUBSET Hosts /\ UNCHANGED <<sync, hostVars, hand, shared>>
    <3> DEFINE row == [server[s] EXCEPT !.role = role]
    <3>1. /\ server' = [server EXCEPT ![s] = row] /\ incidents' = incidents + 1
          /\ UNCHANGED <<sync, hostVars, hand, shared, unseen>> /\ LiveServer(s)
      BY <2>5 DEF AssignRole, Incident, history
    <3>2. row \in Server /\ row.host = server[s].host
      BY <1>2, ServerSyncAssumption DEF Server
    <3>3. row.host # None
      BY <1>2, <3>1, <3>2 DEF LiveInv
    <3> HIDE DEF row
    <3>4. server' \in [Servers -> Server] /\ LiveInv'
      BY <3>1, <3>2, <3>3, RowReplaced
    <3> QED
      BY <1>2, <3>1, <3>3, <3>4
  <2> QED
    BY <1>1, <2>1, <2>2, <2>3, <2>4, <2>5
<1>4. ServerSyncTypeOK' /\ SyncsInv'
  BY <1>3, InvParts DEF ServerSyncTypeOK, SyncsInv, hostVars
<1>5. AloneInv' /\ CopiedInv'
  BY <1>3, InvParts DEF AloneInv, CopiedInv, WorksOn, Host, Saved, hostVars
<1>6. StaticPartSurvives'
  BY <1>3, InvParts, StaticKeeps DEF hostVars
<1> QED
  BY <1>3, <1>4, <1>5, <1>6 DEF ServerSyncInv

-----------------------------------------------------------------------------
(* All steps. *)

LEMMA RequestKeeps ==
    ASSUME ServerSyncInv, NEW r \in Requests,
           \/ SyncAll(r) \/ \E s \in Servers : SyncServer(r, s)
           \/ SyncStep(r)
           \/ Disconnect(r) \/ CommandFails(r)
    PROVE  ServerSyncInv'
<1>1. CASE SyncAll(r)
  BY <1>1, SyncAllKeeps
<1>2. ASSUME NEW s \in Servers, SyncServer(r, s) PROVE ServerSyncInv'
  BY <1>2, SyncServerKeeps
<1>3. CASE SyncStep(r)
  BY <1>3, ConnectKeeps, OpenKeeps, WriteKeeps, ReadKeeps, BackupKeeps, TruncateKeeps,
     FillKeeps, ReloadKeeps, ReportKeeps, CommitKeeps DEF SyncStep
<1>4. CASE Disconnect(r)
  BY <1>4, DisconnectKeeps
<1>5. CASE CommandFails(r)
  BY <1>5, CommandFailsKeeps
<1> QED
  BY <1>1, <1>2, <1>3, <1>4, <1>5

LEMMA NextKeeps == ServerSyncInv /\ [ServerSyncNext]_vars => ServerSyncInv'
<1> SUFFICES ASSUME ServerSyncInv, [ServerSyncNext]_vars
             PROVE  ServerSyncInv'
  OBVIOUS
<1>1. ASSUME NEW r \in Requests,
             \/ SyncAll(r) \/ \E s \in Servers : SyncServer(r, s)
             \/ SyncStep(r)
             \/ Disconnect(r) \/ CommandFails(r)
      PROVE  ServerSyncInv'
  BY <1>1, RequestKeeps
<1>2. CASE Restart \/ AbortVictim
  BY <1>2, RestartKeeps
<1>3. ASSUME NEW h \in Hosts, NEW i \in Files,
             DeleteMarker(h, i) \/ \E line \in Lines : EditByHand(h, i, line)
      PROVE  ServerSyncInv'
  BY <1>3, DeleteMarkerKeeps, EditByHandKeeps
<1>4. CASE Administration
  BY <1>4, AdministrationKeeps
<1>5. CASE UNCHANGED vars
  <2>1. UNCHANGED <<server, sync, managed, parent, backups, loaded, incidents, hand, shared, unseen>>
    BY <1>5 DEF vars
  <2>2. ServerSyncTypeOK' /\ LiveInv' /\ SyncsInv'
    BY <2>1, InvParts DEF ServerSyncTypeOK, LiveInv, LiveServer, SyncsInv
  <2>3. AloneInv' /\ CopiedInv'
    BY <2>1, InvParts DEF AloneInv, CopiedInv, WorksOn, Host, Saved
  <2>4. StaticPartSurvives'
    BY <2>1, InvParts, StaticKeeps
  <2> QED
    BY <2>2, <2>3, <2>4 DEF ServerSyncInv
<1> QED
  BY <1>1, <1>2, <1>3, <1>4, <1>5 DEF ServerSyncNext

\* How late a row is in the order.
Lateness(x) == Rank(x.role) * (Count + 1) + x.id

LEMMA LatenessOrders ==
    /\ \A x \in Row : Lateness(x) \in 0..(4 * (Count + 1))
    /\ \A x, y \in Row : Before(x, y) => Lateness(x) < Lateness(y)
<1>1. Count \in Nat
  BY ServerSyncAssumption
<1>2. \A x \in Row : Rank(x.role) \in {1, 2, 3} /\ x.id \in 1..Count
  BY DEF Row, Rank, Servers
<1>3. ASSUME NEW x \in Row PROVE Lateness(x) \in 0..(4 * (Count + 1))
  <2>1. CASE Rank(x.role) = 1
    BY <1>1, <1>2, <2>1 DEF Lateness
  <2>2. CASE Rank(x.role) = 2
    BY <1>1, <1>2, <2>2 DEF Lateness
  <2>3. CASE Rank(x.role) = 3
    BY <1>1, <1>2, <2>3 DEF Lateness
  <2> QED
    BY <1>2, <2>1, <2>2, <2>3
<1>4. ASSUME NEW x \in Row, NEW y \in Row, Before(x, y) PROVE Lateness(x) < Lateness(y)
  <2> PICK m \in {1, 2, 3}, n \in {1, 2, 3} : m = Rank(x.role) /\ n = Rank(y.role)
    BY <1>2
  <2>1. m < n \/ (m = n /\ x.id < y.id)
    BY <1>4 DEF Before
  <2>2. m * (Count + 1) + x.id < n * (Count + 1) + y.id
    <3>1. \A k \in {1, 2, 3} : k * (Count + 1) = IF k = 1 THEN Count + 1 ELSE
                                IF k = 2 THEN (Count + 1) + (Count + 1)
                                ELSE (Count + 1) + (Count + 1) + (Count + 1)
      BY <1>1
    <3> QED
      BY <1>1, <1>2, <2>1, <3>1
  <2> QED
    BY <2>2 DEF Lateness
<1> QED
  BY <1>3, <1>4

\* A request that waits is at a server before the one that the other is at, which
\* has done the first one already.
LEMMA WaitsForLater ==
    ASSUME ServerSyncInv, NEW q \in Requests, NEW r \in Requests, WaitsFor(q, r),
           SameRoles(q, r), sync[r].at \in Working \cup {"report"}
    PROVE  /\ sync[q].row \in Row /\ sync[r].row \in Row
           /\ Before(sync[q].row, sync[r].row)
<1>1. sync[q].at \in Working \cup {"report"}
  BY DEF WaitsFor, At
<1>2. /\ sync[q].row \in Row /\ sync[q].row # None
      /\ sync[r].row \in Row /\ sync[r].row # None /\ Ordered(sync[r])
  BY <1>1, InvParts, Placement
<1>3. PICK d \in sync[r].done : d.row.id = sync[q].row.id
  BY DEF WaitsFor
<1>4. Before(d.row, sync[r].row)
  BY <1>2 DEF Ordered, Precedes
<1>5. d.row \in RowsRead(r) /\ sync[q].row \in RowsRead(q)
  BY <1>2 DEF RowsRead
<1>6. d.row.role = sync[q].row.role
  BY <1>3, <1>5 DEF SameRoles
<1> QED
  BY <1>2, <1>3, <1>4, <1>6 DEF Before

\* Among requests that wait for each other there is one at a server that no other of
\* them has gone past, and nothing keeps that one waiting.
LEMMA OrderExcludesDeadlock ==
    ASSUME ServerSyncInv
    PROVE  NoDeadlock
<1> SUFFICES ASSUME NEW S \in SUBSET Requests, S # {}, Deadlocked(S),
                    \A q, r \in S : SameRoles(q, r)
             PROVE  FALSE
  BY DEF NoDeadlock
<1> DEFINE top == 4 * (Count + 1)
           left == [q \in S |-> top - Lateness(sync[q].row)]
           T == {left[q] : q \in S}
           R == OpToRel(<, Nat)
<1>1. \A q \in S : \E r \in S : WaitsFor(q, r)
  BY DEF Deadlocked
<1>2. \A q \in S : sync[q].at \in Working \cup {"report"}
  BY <1>1 DEF WaitsFor, At
<1>3. \A q \in S : \E r \in S : /\ sync[q].row \in Row /\ sync[r].row \in Row
                              /\ Before(sync[q].row, sync[r].row)
  <2> TAKE q \in S
  <2>1. PICK r \in S : WaitsFor(q, r)
    BY <1>1
  <2>2. SameRoles(q, r) /\ sync[r].at \in Working \cup {"report"}
    BY <1>2
  <2> QED
    BY <2>1, <2>2, WaitsForLater
<1>4. top \in Nat
  BY ServerSyncAssumption
<1> HIDE DEF top
<1>5. \A x \in Row : Lateness(x) \in 0..top
  BY LatenessOrders DEF top
<1>6. \A q \in S : left[q] \in Nat
  BY <1>3, <1>4, <1>5
<1>7. \A q \in S : \E r \in S : left[r] < left[q]
  <2> TAKE q \in S
  <2>1. PICK r \in S : /\ sync[q].row \in Row /\ sync[r].row \in Row
                      /\ Before(sync[q].row, sync[r].row)
    BY <1>3
  <2>2. Lateness(sync[q].row) < Lateness(sync[r].row)
    BY <2>1, LatenessOrders
  <2> QED
    BY <1>4, <1>5, <2>1, <2>2
<1> HIDE DEF left
<1>8. T \subseteq Nat /\ T # {}
  BY <1>6
<1>9. PICK x \in T : \A y \in T : ~(<<y, x>> \in R)
  <2>1. IsWellFoundedOn(R, Nat)
    BY NatLessThanWellFounded
  <2> HIDE DEF R, T
  <2> QED
    BY <1>8, <2>1, WFMin
<1>10. PICK q \in S : x = left[q]
  OBVIOUS
<1>11. PICK r \in S : left[r] < left[q]
  BY <1>7
<1>12. <<left[r], left[q]>> \in R
  BY <1>6, <1>11 DEF OpToRel
<1> QED
  BY <1>9, <1>10, <1>12

-----------------------------------------------------------------------------
(* The results. *)

\* Every step of server_management.py and of the people around it keeps the
\* invariant: whoever works on a server alone has copied what it is about to
\* empty, and does its servers in the order in which it has read them.
THEOREM ServerSyncInvariance == ServerSyncSpec => []ServerSyncInv
<1>1. ServerSyncInit => ServerSyncInv
  BY Initially
<1>2. ServerSyncInv /\ [ServerSyncNext]_vars => ServerSyncInv'
  BY NextKeeps
<1> QED
  BY <1>1, <1>2, PTL DEF ServerSyncSpec

\* The rows, the requests and the files on the servers are well-formed
\* (server_management.py:48-67, :191-208).
THEOREM ServerSyncTyping == ServerSyncSpec => []ServerSyncTypeOK
<1>1. ServerSyncInv => ServerSyncTypeOK
  BY InvParts
<1> QED
  BY <1>1, ServerSyncInvariance, PTL

\* What people wrote by hand into the configuration of a server on which no two
\* requests worked at once is there or in a backup (server_management.py:198).
THEOREM StaticPartTheorem == ServerSyncSpec => []StaticPartSurvives
<1>1. ServerSyncInv => StaticPartSurvives
  BY InvParts
<1> QED
  BY <1>1, ServerSyncInvariance, PTL

\* However many requests there are, none of them wait for the rows of each other in
\* a circle unless two of them have read different roles of one server, because each
\* does its servers by role and id (server_management.py:256, :309, :317).
THEOREM NoDeadlockTheorem == ServerSyncSpec => []NoDeadlock
<1>1. ServerSyncInv => NoDeadlock
  BY OrderExcludesDeadlock
<1> QED
  BY <1>1, ServerSyncInvariance, PTL
=============================================================================
