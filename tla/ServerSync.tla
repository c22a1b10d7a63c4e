----------------------------- MODULE ServerSync -----------------------------
(***************************************************************************)
(* server_management.py of the Controller backend: the registry of         *)
(* Asterisk servers, and the requests that write the generated             *)
(* configuration to them through a root shell over SSH.  A request writes  *)
(* each generated file, adds a block that includes it to the hand-written  *)
(* file beside it, reloads Asterisk and stores a status.  Nothing keeps    *)
(* two of them apart; a connection may drop and the backend may stop at    *)
(* any step, and the exit status of a remote command is not looked at.     *)
(***************************************************************************)
EXTENDS Naturals, Sequences, FiniteSets

CONSTANTS
    Requests,     \* requests to synchronise; each is made once
    Hosts,        \* addresses at which an Asterisk server may be
    Lines,        \* what people write into its configuration by hand
    Count,        \* Servers and Files are numbers up to these
    FileCount,
    Registered,   \* Registered[s]: the address of server s at the start, or None
    Handwritten,  \* the lines there at the start
    Roles,        \* the roles that people give to a server
    None,
    MaxIncidents  \* bound: failures, restarts and administrators' changes

Servers == 1..Count
Files == 1..FileCount    \* pjsip, extensions, confbridge: in the order of the code

RoleNames == {"PRIMARY", "STANDBY", "other"}

\* What a request reads of a server.
Row == [id: Servers, host: Hosts, role: RoleNames]

ASSUME ServerSyncAssumption ==
    /\ Count \in Nat /\ FileCount \in Nat \ {0}
    /\ MaxIncidents \in Nat /\ Roles \subseteq RoleNames
    /\ Handwritten \in Seq(Lines)
    /\ None \notin Requests /\ None \notin Hosts /\ None \notin Row
    /\ {"begin", "include", "end"} \cap Lines = {}
    /\ Registered \in [Servers -> Hosts \cup {None}]
    /\ \A s, t \in Servers : Registered[s] # None /\ Registered[s] = Registered[t] => s = t

VARIABLES
    server,    \* the rows of asterisk_servers
    sync,      \* sync[r]: where a request is and what it has read
    managed,   \* managed[h][i]: what the generated file holds
    parent,    \* parent[h][i]: the file that includes it, line by line
    backups,   \* backups[h][i]: copies of parent[h][i], oldest first
    loaded,    \* loaded[h][i]: what Asterisk loaded of it
    incidents,
    hand,      \* history: the lines ever written by hand into parent[h][i]
    shared,    \* history: hosts on which two requests worked at the same time
    unseen     \* history: hosts to which something happened that no row shows

hostVars == <<managed, parent, backups, loaded>>
history == <<hand, shared, unseen>>
vars == <<server, sync, managed, parent, backups, loaded, incidents, hand, shared, unseen>>

Token == Lines \cup {"begin", "include", "end"}
Text == Seq(Token)

\* The content is named after the request that generated it; "empty" is a file
\* opened for writing, "mixed" one that two writers wrote.
Content == Requests \cup {None, "empty", "mixed"}

Server == [state: {"unborn", "live", "deleted"}, host: Hosts \cup {None},
           role: RoleNames, enabled: BOOLEAN, status: {"never", "SYNCED", "FAILED"}]

Working == {"open", "write", "read", "backup", "truncate", "fill", "reload"}
Step == Working \cup {"start", "connect", "report", "commit", "ended"}

Sync == [at: Step, all: BOOLEAN, rows: SUBSET Row, row: Row \cup {None},
         file: Files, text: Text, ok: BOOLEAN, done: SUBSET [row: Row, ok: BOOLEAN]]

ServerSyncTypeOK ==
    /\ server \in [Servers -> Server]
    /\ sync \in [Requests -> Sync]
    /\ managed \in [Hosts -> [Files -> Content]]
    /\ parent \in [Hosts -> [Files -> Text]]
    /\ backups \in [Hosts -> [Files -> Seq(Text)]]
    /\ loaded \in [Hosts -> [Files -> [file: Content, includes: Nat]]]
    /\ incidents \in Nat
    /\ hand \in [Hosts -> [Files -> SUBSET Lines]]
    /\ shared \in SUBSET Hosts
    /\ unseen \in SUBSET Hosts

Positions(t, mark) == {k \in DOMAIN t : t[k] = mark}
Includes(t) == Cardinality(Positions(t, "include"))
Written(t) == {t[k] : k \in DOMAIN t} \cap Lines

Idle == [at |-> "start", all |-> FALSE, rows |-> {}, row |-> None, file |-> 1,
         text |-> <<>>, ok |-> TRUE, done |-> {}]

ServerSyncInit ==
    /\ server = [s \in Servers |->
                   [state |-> IF Registered[s] = None THEN "unborn" ELSE "live",
                    host |-> Registered[s], role |-> "PRIMARY", enabled |-> TRUE,
                    status |-> "never"]]
    /\ sync = [r \in Requests |-> Idle]
    /\ managed = [h \in Hosts |-> [i \in Files |-> None]]
    /\ parent = [h \in Hosts |-> [i \in Files |-> Handwritten]]
    /\ backups = [h \in Hosts |-> [i \in Files |-> <<>>]]
    /\ loaded = [h \in Hosts |-> [i \in Files |-> [file |-> None, includes |-> 0]]]
    /\ incidents = 0
    /\ hand = [h \in Hosts |-> [i \in Files |-> Written(Handwritten)]]
    /\ shared = {}
    /\ unseen = {}

-----------------------------------------------------------------------------
At(r, step) == sync[r].at = step
Host(r) == sync[r].row.host
Becomes(r, x) == sync' = [sync EXCEPT ![r] = x]

\* r has logged in to h and not yet stored what became of it.
WorksOn(r, h) == sync[r].at \in Working \cup {"report"} /\ Host(r) = h

LiveServer(s) == server[s].state = "live"

\* The UPDATEs of sync_all stay uncommitted until its last server is done.
Locked(s, r) == LiveServer(s) /\ \E q \in Requests \ {r} : \E x \in sync[q].done : x.row.id = s

\* ensure_server_schema: CREATE INDEX locks the table, even if the index is
\* there, so it waits for every transaction that has written a row.
SchemaFree == \A r \in Requests : sync[r].done = {}

\* What the script repeats for the next file, and what follows the last one.
Repeated(step) ==
    IF step \in {"open", "write"} THEN "open"
    ELSE IF step \in {"read", "backup", "truncate", "fill"} THEN "read" ELSE "reload"

Following(step) ==
    IF Repeated(step) = "open" THEN "read"
    ELSE IF Repeated(step) = "read" THEN "reload" ELSE "report"

\* Mutant: the loops go on past the last file.
AfterCommandPast(x) == [x EXCEPT !.at = Repeated(x.at), !.file = x.file + 1]

\* A command ends, and the next one is sent whatever became of it.
AfterCommand(x) ==
    IF x.file = FileCount THEN [x EXCEPT !.at = Following(x.at), !.file = 1]
    ELSE [x EXCEPT !.at = Repeated(x.at), !.file = x.file + 1]

\* The order of sync_all, by the role at the time of its SELECT.
Rank(role) == IF role = "PRIMARY" THEN 1 ELSE IF role = "STANDBY" THEN 2 ELSE 3

Before(x, y) == \/ Rank(x.role) < Rank(y.role)
                \/ Rank(x.role) = Rank(y.role) /\ x.id < y.id

(* Requests. *)

RowOf(s) == [id |-> s, host |-> server[s].host, role |-> server[s].role]

\* POST /{server_id}/sync
SyncServer(r, s) ==
    /\ At(r, "start") /\ LiveServer(s)
    /\ Becomes(r, [Idle EXCEPT !.at = "connect", !.rows = {RowOf(s)}])
    /\ UNCHANGED <<server, hostVars, incidents, history>>

\* POST /sync-all reads the enabled servers once.
SyncAll(r) ==
    LET rows == {RowOf(s) : s \in {t \in Servers : LiveServer(t) /\ server[t].enabled}} IN
    /\ At(r, "start") /\ SchemaFree
    /\ Becomes(r, [Idle EXCEPT !.at = IF rows = {} THEN "commit" ELSE "connect",
                               !.all = TRUE, !.rows = rows])
    /\ UNCHANGED <<server, hostVars, incidents, history>>

\* Mutant: the servers are taken by role and then as they come.
DueByRole(rows) == {x \in rows : \A y \in rows : Rank(x.role) <= Rank(y.role)}

\* ORDER BY CASE role ..., id
Due(rows) == {x \in rows : \A y \in rows : x = y \/ Before(x, y)}

\* The login with sudo -i.
Connect(r) ==
    /\ At(r, "connect")
    /\ \E x \in Due(sync[r].rows) :
         /\ Becomes(r, [sync[r] EXCEPT !.at = "open", !.row = x, !.file = 1,
                                       !.rows = sync[r].rows \ {x}, !.ok = TRUE])
         /\ shared' = IF \E q \in Requests \ {r} : WorksOn(q, x.host)
                      THEN shared \cup {x.host} ELSE shared
    /\ UNCHANGED <<server, hostVars, incidents, hand, unseen>>

\* base64 -d > file: the shell empties the file ...
Open(r) ==
    /\ At(r, "open")
    /\ managed' = [managed EXCEPT ![Host(r)][sync[r].file] = "empty"]
    /\ Becomes(r, [sync[r] EXCEPT !.at = "write"])
    /\ UNCHANGED <<server, parent, backups, loaded, incidents, history>>

\* ... and the content is written from its beginning, over what another
\* request wrote in between.
Write(r) ==
    LET h == Host(r)  i == sync[r].file IN
    /\ At(r, "write")
    /\ \E content \in {r} \cup (IF managed[h][i] = "empty" THEN {} ELSE {"mixed"}) :
         managed' = [managed EXCEPT ![h][i] = content]
    /\ Becomes(r, AfterCommand(sync[r]))
    /\ UNCHANGED <<server, parent, backups, loaded, incidents, history>>

\* The first begin marker of t and the first end marker after it, if both are there.
Block(t) ==
    {p \in (DOMAIN t) \X (DOMAIN t) :
       /\ t[p[1]] = "begin" /\ \A k \in Positions(t, "begin") : p[1] <= k
       /\ t[p[2]] = "end" /\ p[1] < p[2]
       /\ \A k \in Positions(t, "end") : p[1] < k => p[2] <= k}

\* Mutant: the block of the last synchronisation stays.
Unstripped(t) == {t}

Stripped(t) ==
    IF Block(t) = {} THEN {t}
    ELSE {SubSeq(t, 1, p[1] - 1) \o SubSeq(t, p[2] + 1, Len(t)) : p \in Block(t)}

\* include_script: reads the parent and prepares its new text ...
Read(r) ==
    /\ At(r, "read")
    /\ \E rest \in Stripped(parent[Host(r)][sync[r].file]) :
         Becomes(r, [sync[r] EXCEPT !.at = "backup",
                                    !.text = rest \o <<"begin", "include", "end">>])
    /\ UNCHANGED <<server, hostVars, incidents, history>>

\* Mutant: there is one backup, which is replaced.
BackedUpOnce(copies, t, taken) == {<<t>>}

\* The copy is named after the second; two requests may take it in the same one.
BackedUp(copies, t, taken) ==
    {Append(copies, t)}
      \cup (IF taken /\ copies # <<>> THEN {[copies EXCEPT ![Len(copies)] = t]} ELSE {})

\* ... copies it ...
Backup(r) ==
    LET h == Host(r)  i == sync[r].file IN
    /\ At(r, "backup")
    /\ \E copies \in BackedUp(backups[h][i], parent[h][i],
                              \E q \in Requests \ {r} : WorksOn(q, h)) :
         backups' = [backups EXCEPT ![h][i] = copies]
    /\ Becomes(r, [sync[r] EXCEPT !.at = "truncate"])
    /\ UNCHANGED <<server, managed, parent, loaded, incidents, history>>

\* ... opens it for writing ...
Truncate(r) ==
    /\ At(r, "truncate")
    /\ parent' = [parent EXCEPT ![Host(r)][sync[r].file] = <<>>]
    /\ Becomes(r, [sync[r] EXCEPT !.at = "fill"])
    /\ UNCHANGED <<server, managed, backups, loaded, incidents, history>>

\* ... and writes it, over what another request wrote in between.
Fill(r) ==
    LET h == Host(r)  i == sync[r].file  t == sync[r].text
        there == parent[h][i]
    IN
    /\ At(r, "fill")
    /\ parent' = [parent EXCEPT ![h][i] =
                    IF Len(there) <= Len(t) THEN t
                    ELSE t \o SubSeq(there, Len(t) + 1, Len(there))]
    /\ Becomes(r, [AfterCommand(sync[r]) EXCEPT !.text = <<>>])
    /\ UNCHANGED <<server, managed, backups, loaded, incidents, history>>

\* asterisk -rx 'pjsip reload', 'dialplan reload', 'module reload ...'
Reload(r) ==
    LET h == Host(r)  i == sync[r].file IN
    /\ At(r, "reload")
    /\ loaded' = [loaded EXCEPT ![h][i] = [file |-> managed[h][i],
                                           includes |-> Includes(parent[h][i])]]
    /\ Becomes(r, AfterCommand(sync[r]))
    /\ UNCHANGED <<server, managed, parent, backups, incidents, history>>

Status(ok) == IF ok THEN "SYNCED" ELSE "FAILED"

\* The UPDATE of a row that is gone changes nothing.
WithStatuses(results) ==
    [s \in Servers |->
       IF LiveServer(s) /\ \E x \in results : x.row.id = s
       THEN [server[s] EXCEPT !.status = Status((CHOOSE x \in results : x.row.id = s).ok)]
       ELSE server[s]]

\* The UPDATE of the row, which sync_server commits at once.
Report(r) ==
    LET x == sync[r]
        result == [row |-> x.row, ok |-> x.ok]
    IN
    /\ At(r, "report") /\ ~Locked(x.row.id, r)
    /\ IF x.all
       THEN /\ Becomes(r, [x EXCEPT !.at = IF x.rows = {} THEN "commit" ELSE "connect",
                                    !.row = None, !.done = x.done \cup {result}])
            /\ UNCHANGED server
       ELSE /\ Becomes(r, [Idle EXCEPT !.at = "ended"])
            /\ server' = WithStatuses({result})
    /\ UNCHANGED <<hostVars, incidents, history>>

Commit(r) ==
    /\ At(r, "commit")
    /\ server' = WithStatuses(sync[r].done)
    /\ Becomes(r, [Idle EXCEPT !.at = "ended"])
    /\ UNCHANGED <<hostVars, incidents, history>>

-----------------------------------------------------------------------------
(* Incidents. *)

Incident == incidents < MaxIncidents /\ incidents' = incidents + 1

\* The connection is lost or a prompt does not come in time: what the command
\* has done so far stays, and the error is reported.
Disconnect(r) ==
    /\ sync[r].at \in Working /\ Incident
    /\ Becomes(r, [sync[r] EXCEPT !.at = "report", !.ok = FALSE, !.text = <<>>])
    /\ UNCHANGED <<server, hostVars, history>>

\* A command fails, for want of space or because Asterisk does not run; the
\* prompt comes back and the next command is sent.
CommandFails(r) ==
    /\ sync[r].at \in Working /\ Incident
    /\ Becomes(r, [AfterCommand(sync[r]) EXCEPT !.text = <<>>])
    /\ unseen' = unseen \cup {Host(r)}
    /\ UNCHANGED <<server, hostVars, hand, shared>>

Begun(r) == sync[r].at \notin {"start", "ended"}

\* The hosts that r changes or has changed without a committed status.
Touched(r) ==
    {h \in Hosts : \/ sync[r].row # None /\ Host(r) = h
                   \/ \E x \in sync[r].done : x.row.host = h}

\* The requests of S end and what they have not committed is rolled back.
Stopped(S) ==
    /\ sync' = [r \in Requests |-> IF r \in S THEN [Idle EXCEPT !.at = "ended"] ELSE sync[r]]
    /\ unseen' = unseen \cup UNION {Touched(r) : r \in S}
    /\ UNCHANGED <<server, hostVars, hand, shared>>

\* The backend stops.
Restart ==
    /\ Incident
    /\ \E r \in Requests : Begun(r)
    /\ Stopped({r \in Requests : Begun(r)})

\* r waits to store the status of a server that q has not committed yet.
WaitsFor(r, q) ==
    /\ At(r, "report") /\ LiveServer(sync[r].row.id)
    /\ \E x \in sync[q].done : x.row.id = sync[r].row.id

\* Some of the requests wait for each other, in a circle or in several.
Deadlocked(S) ==
    \A r \in S : (\E q \in S : WaitsFor(r, q)) /\ \E q \in S : WaitsFor(q, r)

\* PostgreSQL aborts one of those that wait in a circle: the UPDATE of sync_all,
\* which no handler catches, ends it.
AbortVictim ==
    \E S \in SUBSET Requests, r \in Requests :
        r \in S /\ Deadlocked(S) /\ Stopped({r}) /\ UNCHANGED incidents

\* include_script runs for some milliseconds, in which nobody saves the file.
Editable(h) ==
    \A r \in Requests : WorksOn(r, h) => sync[r].at \notin {"backup", "truncate", "fill"}

\* Somebody adds a line to the configuration ...
EditByHand(h, i, line) ==
    /\ Incident /\ Editable(h) /\ line \notin hand[h][i]
    /\ parent' = [parent EXCEPT ![h][i] = Append(parent[h][i], line)]
    /\ hand' = [hand EXCEPT ![h][i] = hand[h][i] \cup {line}]
    /\ UNCHANGED <<server, sync, managed, backups, loaded, shared, unseen>>

\* ... or deletes the line with the end marker.
DeleteMarker(h, i) ==
    /\ Incident /\ Editable(h)
    /\ \E k \in Positions(parent[h][i], "end") :
         parent' = [parent EXCEPT ![h][i] =
                      SubSeq(parent[h][i], 1, k - 1)
                        \o SubSeq(parent[h][i], k + 1, Len(parent[h][i]))]
    /\ unseen' = unseen \cup {h}
    /\ UNCHANGED <<server, sync, managed, backups, loaded, hand, shared>>

\* ip_address is UNIQUE.
Free(h) == \A s \in Servers : LiveServer(s) => server[s].host # h

CreateServer(s, h, role) ==
    /\ Incident /\ SchemaFree /\ server[s].state = "unborn" /\ Free(h)
    /\ server' = [server EXCEPT ![s] = [state |-> "live", host |-> h, role |-> role,
                                        enabled |-> TRUE, status |-> "never"]]
    /\ UNCHANGED <<sync, hostVars, history>>

\* PUT /{server_id} with another address: the status of the old one stays.
MoveServer(s, h) ==
    /\ Incident /\ SchemaFree /\ LiveServer(s) /\ Free(h)
    /\ server' = [server EXCEPT ![s].host = h]
    /\ unseen' = unseen \cup {server[s].host, h}
    /\ UNCHANGED <<sync, hostVars, hand, shared>>

\* PUT /{server_id} with enabled
EnableServer(s) ==
    /\ Incident /\ SchemaFree /\ LiveServer(s)
    /\ server' = [server EXCEPT ![s].enabled = ~server[s].enabled]
    /\ UNCHANGED <<sync, hostVars, history>>

\* PUT /{server_id} with role, which a sync_all that has read the rows does not see.
AssignRole(s, role) ==
    /\ Incident /\ SchemaFree /\ LiveServer(s) /\ server[s].role # role
    /\ server' = [server EXCEPT ![s].role = role]
    /\ UNCHANGED <<sync, hostVars, history>>

DeleteServer(s) ==
    /\ Incident /\ SchemaFree /\ LiveServer(s)
    /\ server' = [server EXCEPT ![s].state = "deleted"]
    /\ unseen' = unseen \cup {server[s].host}
    /\ UNCHANGED <<sync, hostVars, hand, shared>>

-----------------------------------------------------------------------------
SyncStep(r) ==
    \/ Connect(r) \/ Open(r) \/ Write(r)
    \/ Read(r) \/ Backup(r) \/ Truncate(r) \/ Fill(r)
    \/ Reload(r) \/ Report(r) \/ Commit(r)

Administration ==
    \E s \in Servers :
        \/ EnableServer(s) \/ DeleteServer(s)
        \/ \E role \in Roles : AssignRole(s, role)
        \/ \E h \in Hosts : MoveServer(s, h) \/ \E role \in Roles : CreateServer(s, h, role)

ServerSyncNext ==
    \/ \E r \in Requests :
         \/ SyncAll(r) \/ \E s \in Servers : SyncServer(r, s)
         \/ SyncStep(r)
         \/ Disconnect(r) \/ CommandFails(r)
    \/ Restart \/ AbortVictim
    \/ \E h \in Hosts, i \in Files :
         DeleteMarker(h, i) \/ \E line \in Lines : EditByHand(h, i, line)
    \/ Administration

ServerSyncSpec == ServerSyncInit /\ [][ServerSyncNext]_vars
=============================================================================
