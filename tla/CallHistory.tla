---------------------------- MODULE CallHistory ----------------------------
(***************************************************************************)
(* The call_history table of the Controller backend and the transactions   *)
(* of recording.py that bring it in line with a listing of channels.  Each *)
(* transaction reads open rows and writes them under `ended_at IS NULL`;   *)
(* no one else writes those rows, so it is one step.                       *)
(***************************************************************************)
EXTENDS ConfBridge, Sequences, FiniteSets

CONSTANT Requests  \* HTTP requests to the Controller backend, each made once

VARIABLES
    outbound,  \* outbound[r]: the row that request r inserted
    incoming   \* incoming[h]: the rows inserted for the caller's channel h

historyVars == <<outbound, incoming>>

\* `own`: source_extension is '9999'.  `aged`: HISTORY_ORIGINATE_TIMEOUT has
\* passed since originated_at.  The status column follows from the others.
Row == [own: BOOLEAN, station: Stations, channel: Channels \cup {None},
        answered: BOOLEAN, aged: BOOLEAN, open: BOOLEAN]

HistoryTypeOK ==
    /\ outbound \in [Requests -> Row \cup {None}]
    /\ incoming \in [Channels -> Seq(Row)]

HistoryInit ==
    /\ outbound = [r \in Requests |-> None]
    /\ incoming = [h \in Channels |-> <<>>]

NewRow(own, e, h) == [own |-> own, station |-> e, channel |-> h,
                      answered |-> FALSE, aged |-> FALSE, open |-> TRUE]

\* Mutant: the station stays NULL.
InsertUnresolved(r, own, e) ==
    /\ outbound' = [outbound EXCEPT ![r] = NewRow(own, None, None)]
    /\ UNCHANGED incoming

\* INSERT after call_station returned.
InsertOutbound(r, own, e) ==
    /\ outbound' = [outbound EXCEPT ![r] = NewRow(own, e, None)]
    /\ UNCHANGED incoming

\* Time passes.
Age(r) ==
    /\ outbound[r] # None /\ outbound[r].open /\ ~outbound[r].aged
    /\ outbound' = [outbound EXCEPT ![r].aged = TRUE]
    /\ UNCHANGED incoming

\* _finish_history
Finished(row) == [row EXCEPT !.open = FALSE]

Seen(row, h, joined) ==
    [row EXCEPT !.channel = h, !.answered = @ \/ joined]

-----------------------------------------------------------------------------
(* _sync_outbound_call_history.  `listed` are the listed channels and `joined` *)
(* those among them that run ConfBridge.                                       *)

\* active_by_extension: the channel of the station that is listed first, in an
\* order Asterisk does not fix.
ActiveAt(listed, e) ==
    {h \in listed : channel[h].role = "callee" /\ channel[h].ext = e}

\* Mutant: nothing ends a row that never had a channel.
UnreachedForever(row) == IF row.channel # None THEN Finished(row) ELSE row

\* A row without a channel whose station has none waits for the timeout.
Unreached(row) ==
    IF row.channel # None \/ row.aged THEN Finished(row) ELSE row

\* Mutant: the timeout is tested first.
MatchedInTime(row, h, joined) ==
    IF row.aged \/ row.channel \notin {None, h} THEN Finished(row)
    ELSE Seen(row, h, h \in joined)

Matched(row, h, joined) ==
    IF row.channel \notin {None, h} THEN Finished(row)
    ELSE Seen(row, h, h \in joined)

\* The SELECT: open rows whose source is 9999.
Synced(row, first, joined) ==
    IF row = None THEN None
    ELSE IF ~row.own \/ ~row.open THEN row
    ELSE IF first[row.station] = None THEN Unreached(row)
    ELSE Matched(row, first[row.station], joined)

SyncOutbound(listed, joined) ==
    \E first \in [Stations -> Channels \cup {None}] :
        /\ \A e \in Stations : IF ActiveAt(listed, e) = {} THEN first[e] = None
                               ELSE first[e] \in ActiveAt(listed, e)
        /\ outbound' = [r \in Requests |-> Synced(outbound[r], first, joined)]

-----------------------------------------------------------------------------
(* _sync_incoming_call_history *)

OpenRows(rows) == {i \in DOMAIN rows : rows[i].open}

\* Mutant: the row of a channel is not looked for.
SyncedIncomingAnew(h, rows, listed, joined) ==
    IF h \notin listed \/ channel[h].role # "caller"
    THEN [i \in DOMAIN rows |-> Finished(rows[i])]
    ELSE IF Len(rows) > 2 THEN rows
    ELSE Append(rows, NewRow(FALSE, channel[h].ext, h))

\* Rows whose channel is not listed are finished.  A listed channel has its open
\* row updated, or gets one.
SyncedIncoming(h, rows, listed, joined) ==
    IF h \notin listed \/ channel[h].role # "caller"
    THEN [i \in DOMAIN rows |-> IF rows[i].open THEN Finished(rows[i]) ELSE rows[i]]
    ELSE IF OpenRows(rows) = {} THEN
        Append(rows, Seen(NewRow(FALSE, channel[h].ext, h), h, h \in joined))
    ELSE [i \in DOMAIN rows |-> IF rows[i].open THEN Seen(rows[i], h, h \in joined)
                                ELSE rows[i]]

SyncIncoming(listed, joined) ==
    incoming' = [h \in Channels |-> SyncedIncoming(h, incoming[h], listed, joined)]
=============================================================================
