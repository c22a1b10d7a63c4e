------------------------ MODULE ServerSyncProperties ------------------------
(***************************************************************************)
(* What the synchronisation of Asterisk servers promises.                  *)
(***************************************************************************)
EXTENDS ServerSync

\* The lines that a sequence of copies has.
LinesOf(copies) == UNION {Written(copies[k]) : k \in DOMAIN copies}

Saved(h, i) == LinesOf(backups[h][i])

\* What people wrote into the configuration of a server is there or in a backup,
\* whatever fails in the middle of however many synchronisations, as long as two
\* of them did not work on the server at once (server_management.py:198).
StaticPartSurvives ==
    \A h \in Hosts \ shared, i \in Files : hand[h][i] \subseteq Written(parent[h][i]) \cup Saved(h, i)

\* A request works on h or has not committed its status.
Busy(h) == \E r \in Requests : Begun(r) /\ h \in Touched(r)

\* h has the files of one synchronisation, includes each once and has loaded them.
Loaded(h) ==
    \E r \in Requests : \A i \in Files :
      /\ managed[h][i] = r
      /\ Includes(parent[h][i]) = 1
      /\ loaded[h][i] = [file |-> r, includes |-> 1]

\* A server whose row says SYNCED has the files of one synchronisation, includes
\* each once and has loaded them, also after others that failed half-way and were
\* repeated, unless something happened to it that no row shows
\* (server_management.py:191-208, :294-319).
SyncedIsLoaded ==
    \A s \in Servers :
        LET h == server[s].host IN
        /\ LiveServer(s) /\ server[s].status = "SYNCED"
        /\ h \notin unseen \cup shared /\ ~Busy(h)
        => Loaded(h)

-----------------------------------------------------------------------------
(* Waiting. *)

\* The rows that r has read.
RowsRead(r) ==
    sync[r].rows \cup {d.row : d \in sync[r].done} \cup ({sync[r].row} \ {None})

\* What q and r have read of a server agrees on its role.
SameRoles(q, r) ==
    \A x \in RowsRead(q), y \in RowsRead(r) : x.id = y.id => x.role = y.role

\* sync_all keeps the rows of the servers it has done locked while it works on the
\* others.  Its ORDER BY keeps requests from waiting for each other in a circle,
\* although servers come and go, move and are switched on and off between their
\* SELECTs; the one thing that defeats it is a server whose role was changed between
\* two of them (server_management.py:256, :309, :317).
NoDeadlock ==
    \A S \in (SUBSET Requests) \ {{}} :
        (\A q, r \in S : SameRoles(q, r)) => ~Deadlocked(S)

-----------------------------------------------------------------------------
(* Why StaticPartSurvives and NoDeadlock hold. *)

LiveInv == \A s \in Servers : LiveServer(s) => server[s].host # None

\* Two requests on one host are noticed.
AloneInv ==
    \A q, r \in Requests, h \in Hosts \ shared : WorksOn(q, h) /\ WorksOn(r, h) => q = r

\* Before a request empties the file, all there is to lose is in a backup.
CopiedInv ==
    \A r \in Requests, h \in Hosts \ shared :
        WorksOn(r, h) /\ sync[r].at \in {"truncate", "fill"}
          => hand[h][sync[r].file] \subseteq Saved(h, sync[r].file)

\* A request that works has a server.
Placed(x) == x.at \in Working \cup {"report"} => x.row # None

\* y is the row of a server that is later in the order than that of x.
Precedes(x, y) == x.id # y.id /\ Before(x, y)

\* It has done the servers before that one and goes on to those after it.
Ordered(x) ==
    /\ \A y, z \in x.rows : y.id = z.id => y = z
    /\ \A d \in x.done, y \in x.rows : Precedes(d.row, y)
    /\ x.row # None => /\ \A y \in x.rows : Precedes(x.row, y)
                       /\ \A d \in x.done : Precedes(d.row, x.row)

SyncsInv == \A r \in Requests : Placed(sync[r]) /\ Ordered(sync[r])

ServerSyncInv ==
    /\ ServerSyncTypeOK /\ LiveInv /\ SyncsInv
    /\ AloneInv /\ CopiedInv /\ StaticPartSurvives

-----------------------------------------------------------------------------
(* Why SyncedIsLoaded holds: on a host to which nothing happened that no row *)
(* shows, each command leaves what the next one and the status rely on.      *)

Trusted == Hosts \ (unseen \cup shared)

\* A configuration as people write it, and one with the block that includes the
\* generated file.
Plain(t) == \A k \in DOMAIN t : t[k] \in Lines

BlockAt(t, p) ==
    /\ p + 2 \in DOMAIN t
    /\ t[p] = "begin" /\ t[p + 1] = "include" /\ t[p + 2] = "end"
    /\ \A k \in DOMAIN t \ {p, p + 1, p + 2} : t[k] \in Lines

OneBlock(t) == \E p \in DOMAIN t : BlockAt(t, p)

ParentInv == \A h \in Trusted, i \in Files : Plain(parent[h][i]) \/ OneBlock(parent[h][i])

\* The loops of sync_server_configuration: files, includes, reloads.
Stage(x) ==
    IF x.at \in {"open", "write"} THEN 1
    ELSE IF x.at \in {"read", "backup", "truncate", "fill"} THEN 2
    ELSE IF x.at = "reload" THEN 3
    ELSE IF x.at = "report" /\ x.ok THEN 4 ELSE 0

\* x has done file i in the n-th loop.
Past(x, n, i) == Stage(x) > n \/ (Stage(x) = n /\ i < x.file)

\* What r, which is at x, has done to the files m, their parents p and what is
\* loaded, l; and what it relies on between the commands that write one file.
Progress(r, x, m, p, l) ==
    \A i \in Files :
      /\ Past(x, 1, i) => m[i] = r
      /\ Past(x, 2, i) => OneBlock(p[i])
      /\ Past(x, 3, i) => l[i] = [file |-> r, includes |-> 1]

Between(x, m, p) ==
    /\ x.at = "write" => m[x.file] = "empty"
    /\ x.at \in {"backup", "truncate", "fill"} => OneBlock(x.text)
    /\ x.at = "fill" => p[x.file] = <<>>

ProgressInv ==
    \A r \in Requests, h \in Trusted :
        WorksOn(r, h) => /\ Progress(r, sync[r], managed[h], parent[h], loaded[h])
                         /\ Between(sync[r], managed[h], parent[h])

\* Only a request at work has a server, and sync_server does one.
ShapeInv ==
    \A r \in Requests : /\ sync[r].row # None => sync[r].at \in Working \cup {"report"}
                        /\ ~sync[r].all => sync[r].done = {}

\* A row that was read is still that of the server, or the server has moved or gone.
Known(x) ==
    /\ server[x.id].state # "unborn"
    /\ \/ LiveServer(x.id) /\ server[x.id].host = x.host
       \/ x.host \in unseen /\ server[x.id].host \in unseen

KnownInv ==
    \A r \in Requests :
        /\ \A x \in sync[r].rows : Known(x)
        /\ \A d \in sync[r].done : Known(d.row)
        /\ sync[r].row # None => Known(sync[r].row)

UniqueInv ==
    \A s, t \in Servers :
        LiveServer(s) /\ LiveServer(t) /\ server[s].host = server[t].host => s = t

\* A success that is not committed, and one that is.
DoneInv ==
    \A r \in Requests : \A d \in sync[r].done :
        d.ok /\ d.row.host \in Trusted
          => Loaded(d.row.host) \/ \E q \in Requests : WorksOn(q, d.row.host)

SyncedInv ==
    \A s \in Servers :
        LET h == server[s].host IN
        LiveServer(s) /\ server[s].status = "SYNCED" /\ h \in Trusted => Loaded(h) \/ Busy(h)

\* After each remote command a request has done what its next command and, in the
\* end, the status it stores rely on, and a row that says SYNCED stays true until
\* another request works on its server (server_management.py:191-208, :294-319).
LoadedInv ==
    /\ ShapeInv /\ ParentInv /\ ProgressInv
    /\ KnownInv /\ UniqueInv /\ DoneInv /\ SyncedInv
=============================================================================
