------------------------- MODULE StagedCalls_proofs -------------------------
(***************************************************************************)
(* A station is not dialled twice, no history row is closed before its leg *)
(* and a call that comes in is one row, for any number of stations,        *)
(* requests, channels and faults, as long as no listing has failed; the    *)
(* first two for the stations that no call has been checked for in the     *)
(* time between an originate and its channel.                              *)
(***************************************************************************)
EXTENDS StagedCallsProperties, SequenceTheorems, TLAPS

FaultNames == {"listing", "restart", "hangup"}

-----------------------------------------------------------------------------
(* Faults and channels. *)

LEMMA FaultTypes ==
    ASSUME faults \in Seq(FaultNames), NEW kind \in FaultNames, Fault(kind)
    PROVE  faults' \in Seq(FaultNames) /\ (AllListed' => AllListed /\ kind # "listing")
<1>1. faults' = Append(faults, kind)
  BY DEF Fault
<1>2. /\ faults' \in Seq(FaultNames)
      /\ Len(faults') = Len(faults) + 1
      /\ \A i \in 1..Len(faults) : faults'[i] = faults[i]
      /\ faults'[Len(faults) + 1] = kind
      /\ DOMAIN faults' = 1..(Len(faults) + 1)
      /\ DOMAIN faults = 1..Len(faults)
      /\ Len(faults) \in Nat
  BY <1>1
<1> QED
  BY <1>2 DEF AllListed

\* Nobody is dialled: the live callees are among those there were.
Quiet ==
    \A h \in Channels :
        channel'[h].role = "callee" /\ Live(h)' =>
            channel[h].role = "callee" /\ channel[h].ext = channel'[h].ext /\ Live(h)

LEMMA RecordedTypes == ASSUME Recorded PROVE recording' \in BOOLEAN
  BY DEF Recorded

LEMMA CreateTypes ==
    ASSUME BridgeTypeOK, NEW h \in Channels, NEW role \in {"callee", "session", "caller"},
           NEW e \in Stations \cup {None}, NEW st \in {"accepted", "up"},
           Create(h, role, e, st)
    PROVE  channel' \in [Channels -> Channel]
<1>1. [st |-> st, role |-> role, ext |-> e] \in Channel
  BY DEF Channel, ChannelStates
<1> QED
  BY <1>1 DEF Create, BridgeTypeOK

LEMMA AdvanceTypes ==
    ASSUME BridgeTypeOK, PlacedInv, NEW h \in Channels, NEW st \in ChannelStates,
           channel' = [channel EXCEPT ![h].st = st], st = "over" \/ Live(h)
    PROVE  channel' \in [Channels -> Channel] /\ PlacedInv' /\ Quiet
<1>1. channel' = [channel EXCEPT ![h] = [channel[h] EXCEPT !.st = st]]
  OBVIOUS
<1>2. channel[h] \in Channel
  BY DEF BridgeTypeOK
<1>3. [channel[h] EXCEPT !.st = st] \in Channel
  BY <1>2 DEF Channel
<1>4. channel' \in [Channels -> Channel]
  BY <1>1, <1>3 DEF BridgeTypeOK
<1>5. ASSUME NEW g \in Channels, channel'[g].role = "callee", Live(g)'
      PROVE  channel[g].role = "callee" /\ channel[g].ext = channel'[g].ext /\ Live(g)
  <2>1. CASE g = h
    BY <2>1, <1>1, <1>2, <1>5 DEF BridgeTypeOK, Channel, Live
  <2>2. CASE g # h
    BY <2>2, <1>1, <1>5 DEF BridgeTypeOK, Live
  <2> QED
    BY <2>1, <2>2
<1>6. ASSUME NEW g \in Channels
      PROVE  channel'[g].role = channel[g].role /\ channel'[g].ext = channel[g].ext
  <2>1. CASE g = h
    BY <2>1, <1>1, <1>2 DEF BridgeTypeOK, Channel
  <2>2. CASE g # h
    BY <2>2, <1>1 DEF BridgeTypeOK
  <2> QED
    BY <2>1, <2>2
<1> QED
  BY <1>4, <1>5, <1>6 DEF Quiet, PlacedInv

LEMMA EndTypes ==
    ASSUME BridgeTypeOK, PlacedInv, NEW h \in Channels, End(h)
    PROVE  BridgeTypeOK' /\ PlacedInv' /\ Quiet
  BY AdvanceTypes, RecordedTypes DEF End, ChannelStates, BridgeTypeOK

LEMMA StillTypes ==
    ASSUME BridgeTypeOK, PlacedInv, UNCHANGED bridgeVars
    PROVE  BridgeTypeOK' /\ PlacedInv' /\ Quiet
  BY DEF bridgeVars, BridgeTypeOK, PlacedInv, Quiet, Live

LEMMA HangupTypes ==
    ASSUME BridgeTypeOK, PlacedInv, NEW h \in Channels, Hangup(h)
    PROVE  BridgeTypeOK' /\ PlacedInv' /\ Quiet
  BY EndTypes, StillTypes DEF Hangup

LEMMA TryHangupTypes ==
    ASSUME BridgeTypeOK, PlacedInv, faults \in Seq(FaultNames), NEW h \in Channels, TryHangup(h)
    PROVE  /\ BridgeTypeOK' /\ PlacedInv' /\ Quiet
           /\ faults' \in Seq(FaultNames) /\ (AllListed' => AllListed)
<1>1. CASE Hangup(h) /\ UNCHANGED faults
  BY <1>1, HangupTypes DEF AllListed
<1>2. CASE Fault("hangup") /\ UNCHANGED bridgeVars
  BY <1>2, StillTypes, FaultTypes DEF FaultNames
<1> QED
  BY <1>1, <1>2 DEF TryHangup

LEMMA NewcomerTypes ==
    ASSUME BridgeTypeOK, PlacedInv, NEW h \in Channels, NEW role \in {"session", "caller"},
           NEW e \in Stations \cup {None}, Create(h, role, e, "up"),
           role = "caller" => e \in Stations
    PROVE  channel' \in [Channels -> Channel] /\ PlacedInv' /\ Quiet
<1>1. channel' \in [Channels -> Channel]
  BY CreateTypes
<1>2. channel'[h].role = role /\ channel'[h].ext = e
  BY DEF Create, BridgeTypeOK
<1>3. \A g \in Channels : g # h => channel'[g] = channel[g]
  BY DEF Create, BridgeTypeOK
<1> QED
  BY <1>1, <1>2, <1>3 DEF Quiet, Live, PlacedInv

LEMMA PhonesTypes ==
    ASSUME BridgeTypeOK, PlacedInv, NEW h \in Channels,
           \/ Appear(h) \/ Answer(h) \/ End(h) \/ JoinSession(h)
           \/ \E e \in Stations : DialIn(h, e)
    PROVE  BridgeTypeOK' /\ PlacedInv' /\ Quiet
<1>1. CASE Appear(h)
  BY <1>1, AdvanceTypes DEF Appear, Live, ChannelStates, BridgeTypeOK
<1>2. CASE Answer(h)
  BY <1>2, AdvanceTypes, RecordedTypes DEF Answer, Live, ChannelStates, BridgeTypeOK
<1>3. CASE End(h)
  BY <1>3, EndTypes
<1>4. CASE JoinSession(h)
  BY <1>4, NewcomerTypes, RecordedTypes DEF JoinSession, BridgeTypeOK
<1>5. CASE \E e \in Stations : DialIn(h, e)
  BY <1>5, NewcomerTypes DEF DialIn, BridgeTypeOK
<1> QED
  BY <1>1, <1>2, <1>3, <1>4, <1>5

-----------------------------------------------------------------------------
(* The history keeps its types. *)

LEMMA RowTypes ==
    ASSUME NEW row \in Row, NEW h \in Channels, NEW joined
    PROVE  Finished(row) \in Row /\ Seen(row, h, h \in joined) \in Row
  BY DEF Row, Finished, Seen

LEMMA NewRowTypes ==
    ASSUME NEW own \in BOOLEAN, NEW e \in Stations, NEW h \in Channels \cup {None}
    PROVE  NewRow(own, e, h) \in Row
  BY DEF Row, NewRow

LEMMA InsertTypes ==
    ASSUME HistoryTypeOK, NEW r \in Requests, NEW own \in BOOLEAN, NEW e \in Stations,
           InsertOutbound(r, own, e)
    PROVE  HistoryTypeOK'
  BY NewRowTypes DEF InsertOutbound, HistoryTypeOK

LEMMA AgeTypes ==
    ASSUME HistoryTypeOK, NEW r \in Requests, Age(r)
    PROVE  HistoryTypeOK'
<1>1. outbound[r] \in Row
  BY DEF Age, HistoryTypeOK
<1>2. [outbound[r] EXCEPT !.aged = TRUE] \in Row
  BY <1>1 DEF Row
<1> QED
  BY <1>2 DEF Age, HistoryTypeOK

LEMMA SyncedTypes ==
    ASSUME NEW row \in Row \cup {None}, NEW first \in [Stations -> Channels \cup {None}],
           NEW joined
    PROVE  Synced(row, first, joined) \in Row \cup {None}
<1>1. CASE row = None
  BY <1>1 DEF Synced
<1>2. CASE row # None
  <2>1. row \in Row /\ first[row.station] \in Channels \cup {None}
    BY <1>2 DEF Row
  <2>2. Unreached(row) \in Row
    <3> PICK h \in Channels \cup {None} : TRUE
      OBVIOUS
    <3>1. Finished(row) \in Row
      BY <2>1 DEF Row, Finished
    <3> QED
      BY <2>1, <3>1 DEF Unreached
  <2>3. first[row.station] # None => Matched(row, first[row.station], joined) \in Row
    BY <2>1, RowTypes DEF Matched
  <2> QED
    BY <1>2, <2>1, <2>2, <2>3 DEF Synced
<1> QED
  BY <1>1, <1>2

LEMMA AppendTypes ==
    ASSUME NEW rows \in Seq(Row), NEW row \in Row
    PROVE  Append(rows, row) \in Seq(Row)
  OBVIOUS

LEMMA SyncedIncomingTypes ==
    ASSUME BridgeTypeOK, NEW h \in Channels, NEW rows \in Seq(Row), NEW listed, NEW joined,
           channel[h].role = "caller" => channel[h].ext \in Stations
    PROVE  SyncedIncoming(h, rows, listed, joined) \in Seq(Row)
<1>1. \A i \in DOMAIN rows : rows[i] \in Row
  OBVIOUS
<1>2. DOMAIN rows = 1..Len(rows) /\ Len(rows) \in Nat
  OBVIOUS
<1>3. CASE h \notin listed \/ channel[h].role # "caller"
  <2>1. \A i \in 1..Len(rows) :
          (IF rows[i].open THEN Finished(rows[i]) ELSE rows[i]) \in Row
    BY <1>1, <1>2, RowTypes
  <2>2. [i \in DOMAIN rows |-> IF rows[i].open THEN Finished(rows[i]) ELSE rows[i]]
          \in Seq(Row)
    BY <2>1, <1>2
  <2> QED
    BY <1>3, <2>2 DEF SyncedIncoming
<1>4. CASE /\ ~(h \notin listed \/ channel[h].role # "caller")
           /\ OpenRows(rows) = {}
  <2>1. NewRow(FALSE, channel[h].ext, h) \in Row
    BY <1>4, NewRowTypes
  <2>2. Seen(NewRow(FALSE, channel[h].ext, h), h, h \in joined) \in Row
    BY <2>1, RowTypes
  <2>3. Append(rows, Seen(NewRow(FALSE, channel[h].ext, h), h, h \in joined)) \in Seq(Row)
    BY <2>2, AppendTypes
  <2> QED
    BY <1>4, <2>3 DEF SyncedIncoming
<1>5. CASE /\ ~(h \notin listed \/ channel[h].role # "caller")
           /\ OpenRows(rows) # {}
  <2>1. \A i \in 1..Len(rows) :
          (IF rows[i].open THEN Seen(rows[i], h, h \in joined) ELSE rows[i]) \in Row
    BY <1>1, <1>2, RowTypes
  <2>2. [i \in DOMAIN rows |-> IF rows[i].open THEN Seen(rows[i], h, h \in joined)
                               ELSE rows[i]] \in Seq(Row)
    BY <2>1, <1>2
  <2> QED
    BY <1>5, <2>2 DEF SyncedIncoming
<1> QED
  BY <1>3, <1>4, <1>5

LEMMA SyncTypes ==
    ASSUME BridgeTypeOK, PlacedInv, HistoryTypeOK, NEW listed, NEW joined,
           SyncOutbound(listed, joined), SyncIncoming(listed, joined)
    PROVE  HistoryTypeOK'
<1>1. outbound' \in [Requests -> Row \cup {None}]
  <2>1. PICK first \in [Stations -> Channels \cup {None}] :
               outbound' = [r \in Requests |-> Synced(outbound[r], first, joined)]
    BY DEF SyncOutbound
  <2>2. \A r \in Requests : Synced(outbound[r], first, joined) \in Row \cup {None}
    BY SyncedTypes DEF HistoryTypeOK
  <2> QED
    BY <2>1, <2>2
<1>2. \A h \in Channels : SyncedIncoming(h, incoming[h], listed, joined) \in Seq(Row)
  BY SyncedIncomingTypes DEF HistoryTypeOK, PlacedInv
<1>3. incoming' \in [Channels -> Seq(Row)]
  BY <1>2 DEF SyncIncoming
<1> QED
  BY <1>1, <1>3 DEF HistoryTypeOK

LEMMA StillHistory == ASSUME HistoryTypeOK, UNCHANGED historyVars PROVE HistoryTypeOK'
  BY DEF historyVars, HistoryTypeOK

-----------------------------------------------------------------------------
(* Requests. *)

LEMMA ListingTypes ==
    ASSUME faults \in Seq(FaultNames), NEW S, Listing(S)
    PROVE  /\ faults' \in Seq(FaultNames) /\ S \subseteq Channels
           /\ AllListed' => AllListed /\ S = ListedChannels
<1>1. CASE S = ListedChannels /\ UNCHANGED faults
  BY <1>1 DEF ListedChannels, AllListed
<1>2. CASE S = {} /\ Fault("listing")
  BY <1>2, FaultTypes DEF FaultNames
<1> QED
  BY <1>1, <1>2 DEF Listing

LEMMA GoTypes ==
    ASSUME request \in [Requests -> Request], NEW r \in Requests,
           NEW step \in RequestSteps, Go(r, step)
    PROVE  /\ request' \in [Requests -> Request]
           /\ \A q \in Requests : q # r => request'[q] = request[q]
           /\ request'[r].at = step
           /\ step # "done" => /\ request'[r].ext = request[r].ext
                               /\ request'[r].kind = request[r].kind
<1>1. request[r] \in Request
  OBVIOUS
<1>2. CASE step = "done"
  <2>1. request' = [request EXCEPT ![r] = Resting("done")]
    BY <1>2 DEF Go
  <2>2. Resting("done") \in Request /\ Resting("done").at = "done"
    BY DEF Resting, Request, RequestSteps
  <2> QED
    BY <1>2, <2>1, <2>2
<1>3. CASE step # "done"
  <2>1. request' = [request EXCEPT ![r] = [request[r] EXCEPT !.at = step]]
    BY <1>3 DEF Go
  <2>2. /\ [request[r] EXCEPT !.at = step] \in Request
        /\ [request[r] EXCEPT !.at = step].at = step
        /\ [request[r] EXCEPT !.at = step].ext = request[r].ext
        /\ [request[r] EXCEPT !.at = step].kind = request[r].kind
    BY <1>1 DEF Request
  <2> QED
    BY <2>1, <2>2
<1> QED
  BY <1>2, <1>3

\* When nobody is dialled, no station gets a second leg.
LEMMA QuietLegs ==
    ASSUME OneLegPerStation, Quiet, AllListed' => AllListed, overlooked \subseteq overlooked'
    PROVE  OneLegPerStation'
<1> SUFFICES ASSUME AllListed', NEW e \in Overseen', NEW g \in Callees(e)', NEW h \in Callees(e)',
                    Live(g)', Live(h)'
             PROVE  g = h
  BY DEF OneLegPerStation
<1>1. g \in Callees(e) /\ h \in Callees(e) /\ Live(g) /\ Live(h)
  BY DEF Quiet, Callees, Channels
<1> QED
  BY <1>1 DEF OneLegPerStation, Overseen

\* What requests know stays true while others move.
LEMMA OthersMove ==
    ASSUME StagedInv, Quiet, UNCHANGED <<request, overlooked>>, AllListed' => AllListed
    PROVE  NamedInv' /\ KindsInv' /\ LockInv' /\ CheckedInv' /\ OneLegPerStation'
<1> USE DEF StagedInv
<1>1. NamedInv' /\ KindsInv' /\ LockInv'
  BY DEF NamedInv, KindsInv, LockInv, Holds, At
<1>2. CheckedInv'
  <2> SUFFICES ASSUME AllListed', NEW r \in Requests, Checked(r)', request'[r].ext \in Overseen',
                      NEW h \in Callees(request[r].ext)', Live(h)'
               PROVE  FALSE
    BY DEF CheckedInv
  <2>1. Checked(r)
    BY DEF Checked, Holds, At
  <2>2. h \in Callees(request[r].ext) /\ Live(h)
    BY DEF Quiet, Callees, Channels
  <2> QED
    BY <2>1, <2>2 DEF CheckedInv, Overseen
<1> QED
  BY <1>1, <1>2, QuietLegs

\* A request may go on to a step that it may be at, with the lock if it had the
\* lock or found it free, and as checked if it was or if it looked.
LEMMA RequestMoves ==
    ASSUME StagedInv, Quiet, AllListed' => AllListed, overlooked \subseteq overlooked',
           NEW r \in Requests, NEW step \in RequestSteps, Go(r, step),
           request[r].at \notin {"start", "done"}, step # "start",
           step = "find" => request[r].kind = "hangup",
           step \in {"lock", "check", "enforce", "originate"} => request[r].kind # "hangup",
           \/ Holds(r)
           \/ \A q \in Requests : request[q].ext = request[r].ext => ~Holds(q)
           \/ step \in {"lock", "insert", "find", "done"}
           \/ step = "drop" /\ request[r].kind = "hangup",
           \/ Checked(r)
           \/ AllListed' /\ request[r].ext \in Overseen' =>
                 \A h \in Callees(request[r].ext) : ~Live(h)
           \/ step \in {"lock", "check", "insert", "find", "done"}
           \/ step = "drop" /\ request[r].kind = "hangup"
    PROVE  /\ request' \in [Requests -> Request]
           /\ NamedInv' /\ KindsInv' /\ LockInv' /\ CheckedInv' /\ OneLegPerStation'
<1> USE DEF StagedInv
<1>1. /\ request' \in [Requests -> Request]
      /\ \A q \in Requests : q # r => request'[q] = request[q]
      /\ request'[r].at = step
      /\ step # "done" => /\ request'[r].ext = request[r].ext
                          /\ request'[r].kind = request[r].kind
  BY GoTypes DEF StagedTypeOK
<1>2. NamedInv'
  BY <1>1 DEF NamedInv
<1>3. KindsInv'
  BY <1>1 DEF KindsInv, At
<1>4. /\ \A q \in Requests : q # r => (Holds(q)' <=> Holds(q)) /\ (Checked(q)' <=> Checked(q))
      /\ Holds(r)' => step \in {"check", "enforce", "originate", "drop"}
      /\ step = "drop" /\ Holds(r)' => request[r].kind # "hangup"
      /\ Checked(r)' => Holds(r)' /\ step # "check"
  BY <1>1 DEF Checked, Holds, At
<1>5. LockInv'
  <2> SUFFICES ASSUME NEW p \in Requests, NEW q \in Requests, Holds(p)', Holds(q)',
                      request'[p].ext = request'[q].ext, p # q
               PROVE  FALSE
    BY DEF LockInv
  <2>1. CASE p # r /\ q # r
    BY <1>1, <1>4, <2>1 DEF LockInv
  <2>2. CASE p = r
    BY <1>1, <1>4, <2>2 DEF LockInv
  <2>3. CASE q = r
    BY <1>1, <1>4, <2>3 DEF LockInv
  <2> QED
    BY <2>1, <2>2, <2>3
<1>6. CheckedInv'
  <2> SUFFICES ASSUME AllListed', NEW q \in Requests, Checked(q)', request'[q].ext \in Overseen',
                      NEW h \in Callees(request[q].ext)', Live(h)'
               PROVE  FALSE
    BY DEF CheckedInv
  <2>1. request'[q].ext = request[q].ext
    BY <1>1, <1>4
  <2>2. h \in Callees(request[q].ext) /\ Live(h)
    BY <2>1 DEF Quiet, Callees, Channels
  <2>3. CASE q # r
    BY <1>4, <2>1, <2>2, <2>3 DEF CheckedInv, Overseen
  <2>4. CASE q = r
    BY <1>4, <2>1, <2>2, <2>4 DEF CheckedInv, Overseen
  <2> QED
    BY <2>3, <2>4
<1> QED
  BY <1>1, <1>2, <1>3, <1>5, <1>6, QuietLegs

LEMMA ArriveKeeps == ASSUME StagedInv, NEW r \in Requests, Arrive(r) PROVE StagedInv'
<1> USE DEF StagedInv
<1>1. PICK kind \in RequestKinds \cap Workload, e \in Stations :
        request' = [request EXCEPT ![r] =
          [at |-> IF kind = "hangup" THEN "find" ELSE "lock", kind |-> kind, ext |-> e]]
  BY DEF Arrive
<1> DEFINE new == [at |-> IF kind = "hangup" THEN "find" ELSE "lock", kind |-> kind, ext |-> e]
<1>2. new \in Request
  BY DEF Request, RequestSteps
<1>3. /\ request' \in [Requests -> Request]
      /\ request'[r] = new
      /\ \A q \in Requests : q # r => request'[q] = request[q]
  BY <1>1, <1>2 DEF StagedTypeOK
<1>4. BridgeTypeOK' /\ PlacedInv' /\ Quiet /\ HistoryTypeOK' /\ (AllListed' => AllListed)
  BY StillTypes, StillHistory DEF Arrive, StagedTypeOK, AllListed
<1>5. StagedTypeOK'
  BY <1>3, <1>4 DEF StagedTypeOK, Arrive
<1>10. UNCHANGED overlooked
  BY DEF Arrive
<1>6. NamedInv' /\ KindsInv'
  BY <1>3 DEF NamedInv, KindsInv, At
<1>7. /\ ~Holds(r)' /\ ~Checked(r)'
      /\ \A q \in Requests : q # r => (Holds(q)' <=> Holds(q)) /\ (Checked(q)' <=> Checked(q))
  <2>1. request'[r].at \in {"find", "lock"}
    BY <1>3
  <2> HIDE DEF new
  <2> QED
    BY <1>3, <2>1 DEF Holds, Checked, At
<1>8. LockInv'
  BY <1>3, <1>7 DEF LockInv
<1>9. CheckedInv'
  <2> SUFFICES ASSUME AllListed', NEW q \in Requests, Checked(q)', request'[q].ext \in Overseen',
                      NEW h \in Callees(request[q].ext)', Live(h)'
               PROVE  FALSE
    BY <1>3, <1>7 DEF CheckedInv
  <2>1. q # r /\ Checked(q) /\ request'[q] = request[q]
    BY <1>3, <1>7
  <2>2. h \in Callees(request[q].ext) /\ Live(h)
    BY <1>4, <2>1 DEF Quiet, Callees, Channels
  <2> QED
    BY <1>4, <1>10, <2>1, <2>2 DEF CheckedInv, Overseen
<1> QED
  BY <1>4, <1>5, <1>6, <1>8, <1>9, <1>10, QuietLegs

LEMMA LockKeeps == ASSUME StagedInv, NEW r \in Requests, Lock(r) PROVE StagedInv'
<1> USE DEF StagedInv
<1>1. /\ BridgeTypeOK' /\ PlacedInv' /\ Quiet /\ HistoryTypeOK'
      /\ AllListed' => AllListed
  BY StillTypes, StillHistory DEF Lock, StagedTypeOK, AllListed
<1>2. /\ At(r, "lock") /\ Go(r, "check") /\ request[r].kind # "hangup"
      /\ \A q \in Requests : request[q].ext = request[r].ext => ~Holds(q)
  BY DEF Lock, KindsInv, At
<1>3. /\ request' \in [Requests -> Request]
      /\ NamedInv' /\ KindsInv' /\ LockInv' /\ CheckedInv' /\ OneLegPerStation'
  BY <1>1, <1>2, RequestMoves DEF Lock, At, RequestSteps
<1> QED
  BY <1>1, <1>3 DEF StagedTypeOK, Lock

LEMMA CheckKeeps == ASSUME StagedInv, NEW r \in Requests, Check(r) PROVE StagedInv'
<1> USE DEF StagedInv
<1>1. PICK S \in SUBSET Channels, step \in {"done", "enforce"} :
        /\ Listing(S) /\ Go(r, step)
        /\ step = "enforce" =>
             /\ \A h \in S : channel[h].ext # request[r].ext
             /\ overlooked' = overlooked \cup {e \in {request[r].ext} : OnItsWay(e)}
        /\ step = "done" => UNCHANGED overlooked
  BY DEF Check
<1>2. BridgeTypeOK' /\ PlacedInv' /\ Quiet /\ HistoryTypeOK'
  BY StillTypes, StillHistory DEF Check, StagedTypeOK
<1>3. /\ faults' \in Seq(FaultNames)
      /\ AllListed' => AllListed /\ S = ListedChannels
  BY <1>1, ListingTypes DEF StagedTypeOK, FaultNames
<1>4. /\ At(r, "check") /\ Holds(r) /\ request[r].kind # "hangup"
      /\ request[r].ext \in Stations
  BY DEF Check, Holds, KindsInv, NamedInv, At
<1>5. overlooked \subseteq overlooked' /\ overlooked' \in SUBSET Stations
  BY <1>1, <1>4 DEF StagedTypeOK
<1>6. ASSUME step = "enforce", AllListed', request[r].ext \in Overseen',
             NEW h \in Callees(request[r].ext)
      PROVE  ~Live(h)
  <2>1. h \in Channels /\ channel[h].ext = request[r].ext
    BY DEF Callees
  <2>2. channel[h].st # "accepted"
    BY <1>1, <1>6, <2>1 DEF Overseen, OnItsWay
  <2>3. h \notin ListedChannels
    BY <1>1, <1>3, <1>6, <2>1
  <2> QED
    BY <2>1, <2>2, <2>3 DEF Live, ListedChannels, Listed
<1>7. /\ request' \in [Requests -> Request]
      /\ NamedInv' /\ KindsInv' /\ LockInv' /\ CheckedInv' /\ OneLegPerStation'
  <2>1. step \in RequestSteps /\ step \in {"done", "enforce"} /\ Go(r, step)
    BY <1>1 DEF RequestSteps
  <2> QED
    BY <1>2, <1>3, <1>4, <1>5, <1>6, <2>1, RequestMoves DEF At
<1> QED
  BY <1>2, <1>3, <1>5, <1>7 DEF StagedTypeOK, Check, FaultNames

LEMMA EnforceKeeps == ASSUME StagedInv, NEW r \in Requests, Enforce(r) PROVE StagedInv'
<1> USE DEF StagedInv
<1>1. BridgeTypeOK' /\ PlacedInv' /\ Quiet /\ HistoryTypeOK'
  BY StillTypes, StillHistory DEF Enforce, StagedTypeOK
<1>2. PICK step \in {"originate", "drop", "done"} : Go(r, step)
  BY DEF Enforce
<1>3. At(r, "enforce") /\ Holds(r) /\ Checked(r) /\ request[r].kind # "hangup"
  BY DEF Enforce, Holds, Checked, KindsInv, At
<1>4. stale' \in [Tasks -> SUBSET Channels] /\ faults' \in Seq(FaultNames)
      /\ (AllListed' => AllListed)
  <2>1. CASE Fault("listing") /\ UNCHANGED stale
    BY <2>1, FaultTypes DEF StagedTypeOK, FaultNames
  <2>2. CASE /\ stale' = [stale EXCEPT ![r] =
                            Superseded(StationChannels(request[r].ext) \cap Members)]
             /\ UNCHANGED faults
    BY <2>2 DEF StagedTypeOK, FaultNames, AllListed, Superseded, StationChannels,
                ListedChannels
  <2> QED
    BY <2>1, <2>2 DEF Enforce
<1>5. /\ request' \in [Requests -> Request]
      /\ NamedInv' /\ KindsInv' /\ LockInv' /\ CheckedInv' /\ OneLegPerStation'
  BY <1>1, <1>2, <1>3, <1>4, RequestMoves DEF Enforce, At, RequestSteps
<1> QED
  BY <1>1, <1>4, <1>5 DEF StagedTypeOK, Enforce, FaultNames

LEMMA InsertKeeps == ASSUME StagedInv, NEW r \in Requests, Insert(r) PROVE StagedInv'
<1> USE DEF StagedInv
<1>1. BridgeTypeOK' /\ PlacedInv' /\ Quiet /\ (AllListed' => AllListed)
  BY StillTypes DEF Insert, StagedTypeOK, AllListed
<1>2. HistoryTypeOK'
  BY StillHistory, InsertTypes DEF Insert, StagedTypeOK, NamedInv, At
<1>3. /\ request' \in [Requests -> Request]
      /\ NamedInv' /\ KindsInv' /\ LockInv' /\ CheckedInv' /\ OneLegPerStation'
  BY <1>1, RequestMoves DEF Insert, At, RequestSteps
<1> QED
  BY <1>1, <1>2, <1>3 DEF StagedTypeOK, Insert

LEMMA FindKeeps == ASSUME StagedInv, NEW r \in Requests, Find(r) PROVE StagedInv'
<1> USE DEF StagedInv
<1>1. /\ BridgeTypeOK' /\ PlacedInv' /\ Quiet /\ HistoryTypeOK'
      /\ AllListed' => AllListed
  BY StillTypes, StillHistory DEF Find, StagedTypeOK, AllListed
<1>2. PICK step \in {"drop", "done"} : Go(r, step)
  BY DEF Find
<1>3. stale' \in [Tasks -> SUBSET Channels]
  BY DEF Find, StagedTypeOK, StationChannels, ListedChannels
<1>4. At(r, "find") /\ request[r].kind = "hangup"
  BY DEF Find, KindsInv, At
<1>5. /\ request' \in [Requests -> Request]
      /\ NamedInv' /\ KindsInv' /\ LockInv' /\ CheckedInv' /\ OneLegPerStation'
  BY <1>1, <1>2, <1>4, RequestMoves DEF Find, At, RequestSteps
<1> QED
  BY <1>1, <1>3, <1>5 DEF StagedTypeOK, Find

LEMMA DropKeeps == ASSUME StagedInv, NEW r \in Requests, Drop(r) PROVE StagedInv'
<1> USE DEF StagedInv
<1>1. PICK h \in stale[r] : TryHangup(h) /\ stale' = [stale EXCEPT ![r] = @ \ {h}]
  BY DEF Drop
<1>2. r \in Tasks /\ h \in Channels /\ stale' \in [Tasks -> SUBSET Channels]
  BY <1>1 DEF StagedTypeOK, Tasks
<1>3. /\ BridgeTypeOK' /\ PlacedInv' /\ Quiet /\ HistoryTypeOK'
      /\ faults' \in Seq(FaultNames) /\ (AllListed' => AllListed)
  BY <1>1, <1>2, TryHangupTypes, StillHistory DEF Drop, StagedTypeOK, FaultNames
<1>4. PICK step \in {"drop", "done", "originate"} :
        Go(r, step) /\ (step = "originate" => request[r].kind # "hangup")
  BY DEF Drop
<1>5. At(r, "drop") /\ (request[r].kind # "hangup" => Holds(r) /\ Checked(r))
  BY DEF Drop, Holds, Checked, At
<1>6. /\ request' \in [Requests -> Request]
      /\ NamedInv' /\ KindsInv' /\ LockInv' /\ CheckedInv' /\ OneLegPerStation'
  BY <1>3, <1>4, <1>5, RequestMoves DEF Drop, At, RequestSteps
<1> QED
  BY <1>2, <1>3, <1>6 DEF StagedTypeOK, Drop, FaultNames

\* The one step that dials: its request holds the lock and has looked.
LEMMA DialKeeps ==
    ASSUME StagedInv, NEW r \in Requests, At(r, "originate"), NEW h \in Channels,
           Accept(h, request[r].ext), NEW step \in {"insert", "done"}, Go(r, step),
           UNCHANGED <<historyVars, pass, stale, faults, overlooked>>
    PROVE  StagedInv'
<1> USE DEF StagedInv
<1>1. request[r].ext \in Stations /\ Checked(r)
  BY DEF NamedInv, Checked, Holds, At
<1>2. /\ channel' \in [Channels -> Channel] /\ recording' \in BOOLEAN
      /\ channel'[h].role = "callee" /\ channel'[h].ext = request[r].ext
      /\ \A g \in Channels : g # h => channel'[g] = channel[g]
  BY <1>1, CreateTypes DEF Accept, Create, StagedTypeOK, BridgeTypeOK
<1>3. PlacedInv' /\ HistoryTypeOK' /\ (AllListed' <=> AllListed)
  BY <1>1, <1>2, StillHistory DEF PlacedInv, StagedTypeOK, AllListed
<1>4. /\ request' \in [Requests -> Request]
      /\ \A q \in Requests : q # r => request'[q] = request[q]
      /\ request'[r].at = step
      /\ step # "done" => /\ request'[r].ext = request[r].ext
                          /\ request'[r].kind = request[r].kind
  BY GoTypes DEF StagedTypeOK, RequestSteps
<1>5. NamedInv' /\ KindsInv'
  BY <1>1, <1>4 DEF NamedInv, KindsInv, At
<1>6. /\ ~Holds(r)' /\ ~Checked(r)'
      /\ \A q \in Requests : q # r => (Holds(q)' <=> Holds(q)) /\ (Checked(q)' <=> Checked(q))
  BY <1>4 DEF Holds, Checked, At
<1>7. LockInv'
  BY <1>4, <1>6 DEF LockInv
<1>8. \A e \in Stations : \A g \in Channels :
        g # h /\ g \in Callees(e)' /\ Live(g)' => g \in Callees(e) /\ Live(g)
  BY <1>2 DEF Callees, Channels, Live
<1>9. CheckedInv'
  <2> SUFFICES ASSUME AllListed', NEW q \in Requests, Checked(q)', request'[q].ext \in Overseen',
                      NEW g \in Callees(request[q].ext)', Live(g)'
               PROVE  FALSE
    BY DEF CheckedInv
  <2>1. q # r /\ Checked(q) /\ request'[q] = request[q] /\ request[q].ext # request[r].ext
    BY <1>1, <1>4, <1>6 DEF LockInv, Checked
  <2>2. g # h /\ g \in Callees(request[q].ext) /\ Live(g)
    BY <1>2, <2>1 DEF Callees, Channels, Live
  <2> QED
    BY <1>3, <2>1, <2>2 DEF CheckedInv, Overseen
<1>10. OneLegPerStation'
  <2> SUFFICES ASSUME AllListed', NEW e \in Overseen', NEW f \in Callees(e)', NEW g \in Callees(e)',
                      Live(f)', Live(g)', f # g
               PROVE  FALSE
    BY DEF OneLegPerStation
  <2>1. f \in Channels /\ g \in Channels
    BY DEF Callees, Channels
  <2>2. CASE f # h /\ g # h
    BY <1>3, <1>8, <2>1, <2>2 DEF OneLegPerStation, Overseen
  <2>3. CASE f = h \/ g = h
    <3>1. e = request[r].ext
      BY <1>2, <2>3 DEF Callees, Channels
    <3> QED
      BY <1>1, <1>3, <1>8, <2>1, <2>3, <3>1 DEF CheckedInv, Overseen
  <2> QED
    BY <2>2, <2>3
<1> QED
  BY <1>2, <1>3, <1>4, <1>5, <1>7, <1>9, <1>10 DEF StagedTypeOK, BridgeTypeOK

LEMMA OriginateKeeps == ASSUME StagedInv, NEW r \in Requests, Originate(r) PROVE StagedInv'
<1>1. CASE \E h \in Channels : Accept(h, request[r].ext) /\ (Go(r, "insert") \/ Go(r, "done"))
  BY <1>1, DialKeeps DEF Originate
<1>2. CASE Go(r, "done") /\ UNCHANGED bridgeVars
  <2> USE DEF StagedInv
  <2>1. /\ BridgeTypeOK' /\ PlacedInv' /\ Quiet /\ HistoryTypeOK'
        /\ AllListed' => AllListed
    BY <1>2, StillTypes, StillHistory DEF Originate, StagedTypeOK, AllListed
  <2>2. /\ request' \in [Requests -> Request]
        /\ NamedInv' /\ KindsInv' /\ LockInv' /\ CheckedInv' /\ OneLegPerStation'
    BY <1>2, <2>1, RequestMoves DEF Originate, At, RequestSteps
  <2> QED
    BY <2>1, <2>2 DEF StagedTypeOK, Originate
<1> QED
  BY <1>1, <1>2 DEF Originate

-----------------------------------------------------------------------------
(* The loop and the environment. *)

LEMMA NewPassTypes == NewPass \in Pass
  BY DEF NewPass, Pass

LEMMA PassTypes ==
    ASSUME pass \in Pass, NEW step \in {"list", "sessions", "drop", "history", "inspect", "record"},
           PassGo(step)
    PROVE  pass' \in Pass
  BY DEF Pass, PassGo

\* A step of the loop or of the environment that keeps the types keeps it all.
LEMMA OthersKeep ==
    ASSUME StagedInv, UNCHANGED <<request, overlooked>>, Quiet, BridgeTypeOK', PlacedInv', HistoryTypeOK',
           pass' \in Pass, stale' \in [Tasks -> SUBSET Channels],
           faults' \in Seq(FaultNames), AllListed' => AllListed
    PROVE  StagedInv'
<1>1. NamedInv' /\ KindsInv' /\ LockInv' /\ CheckedInv' /\ OneLegPerStation'
  BY OthersMove
<1> QED
  BY <1>1 DEF StagedInv, StagedTypeOK, FaultNames

LEMMA ListKeeps == ASSUME StagedInv, List PROVE StagedInv'
<1> USE DEF StagedInv, StagedTypeOK
<1>1. PICK S \in SUBSET Channels :
        /\ Listing(S)
        /\ pass' = [pass EXCEPT !.at = "sessions", !.listed = S, !.joined = S \cap Members]
  BY DEF List
<1>2. pass' \in Pass
  BY <1>1 DEF Pass
<1>3. BridgeTypeOK' /\ PlacedInv' /\ Quiet /\ HistoryTypeOK'
  BY StillTypes, StillHistory DEF List
<1>4. faults' \in Seq(FaultNames) /\ (AllListed' => AllListed)
  BY <1>1, ListingTypes DEF FaultNames
<1> QED
  BY <1>2, <1>3, <1>4, OthersKeep DEF List

LEMMA SweepKeeps == ASSUME StagedInv, Sweep PROVE StagedInv'
<1> USE DEF StagedInv, StagedTypeOK
<1>1. BridgeTypeOK' /\ PlacedInv' /\ Quiet /\ HistoryTypeOK'
  BY StillTypes, StillHistory DEF Sweep
<1>2. CASE /\ stale' = [stale EXCEPT ![Loop] = IF Sessions(pass.joined) = {} THEN {}
                                               ELSE Superseded(Sessions(Members))]
           /\ PassGo(IF stale'[Loop] = {} THEN "history" ELSE "drop")
           /\ UNCHANGED faults
  <2>1. pass' \in Pass
    BY <1>2, PassTypes
  <2>2. stale' \in [Tasks -> SUBSET Channels]
    BY <1>2 DEF Superseded, Sessions, Members
  <2> QED
    BY <1>1, <1>2, <2>1, <2>2, OthersKeep DEF Sweep, AllListed, FaultNames
<1>3. CASE Fault("listing") /\ PassGo("history") /\ UNCHANGED stale
  <2>1. pass' \in Pass
    BY <1>3, PassTypes
  <2> QED
    BY <1>1, <1>3, <2>1, FaultTypes, OthersKeep DEF Sweep, FaultNames
<1> QED
  BY <1>2, <1>3 DEF Sweep

LEMMA DropSessionKeeps == ASSUME StagedInv, DropSession PROVE StagedInv'
<1> USE DEF StagedInv, StagedTypeOK
<1>1. PICK h \in stale[Loop] : TryHangup(h) /\ stale' = [stale EXCEPT ![Loop] = @ \ {h}]
  BY DEF DropSession
<1>2. h \in Channels /\ stale' \in [Tasks -> SUBSET Channels]
  BY <1>1 DEF Tasks
<1>3. /\ BridgeTypeOK' /\ PlacedInv' /\ Quiet /\ HistoryTypeOK'
      /\ faults' \in Seq(FaultNames) /\ (AllListed' => AllListed)
  BY <1>1, <1>2, TryHangupTypes, StillHistory DEF DropSession, FaultNames
<1>4. pass' \in Pass
  BY PassTypes DEF DropSession
<1> QED
  BY <1>2, <1>3, <1>4, OthersKeep DEF DropSession

LEMMA SynchroniseKeeps == ASSUME StagedInv, Synchronise PROVE StagedInv'
<1> USE DEF StagedInv, StagedTypeOK
<1>1. BridgeTypeOK' /\ PlacedInv' /\ Quiet
  BY StillTypes DEF Synchronise
<1>2. HistoryTypeOK'
  BY SyncTypes DEF Synchronise
<1>3. pass' \in Pass
  BY NewPassTypes DEF Synchronise, Pass
<1> QED
  BY <1>1, <1>2, <1>3, OthersKeep DEF Synchronise, AllListed, FaultNames

LEMMA InspectKeeps == ASSUME StagedInv, Inspect PROVE StagedInv'
<1> USE DEF StagedInv, StagedTypeOK
<1>1. BridgeTypeOK' /\ PlacedInv' /\ Quiet /\ HistoryTypeOK'
  BY StillTypes, StillHistory DEF Inspect
<1>2. pass' \in Pass
  BY NewPassTypes DEF Inspect, Pass, BridgeTypeOK
<1>3. faults' \in Seq(FaultNames) /\ (AllListed' => AllListed)
  BY FaultTypes DEF Inspect, FaultNames, AllListed
<1> QED
  BY <1>1, <1>2, <1>3, OthersKeep DEF Inspect

LEMMA StartOrStopKeeps == ASSUME StagedInv, StartOrStop PROVE StagedInv'
<1> USE DEF StagedInv, StagedTypeOK
<1>1. BridgeTypeOK' /\ PlacedInv' /\ Quiet
  <2>1. CASE UNCHANGED bridgeVars
    BY <2>1, StillTypes
  <2>2. CASE Record(TRUE) \/ Record(FALSE)
    BY <2>2 DEF Record, BridgeTypeOK, PlacedInv, Quiet, Live
  <2> QED
    BY <2>1, <2>2 DEF StartOrStop
<1> QED
  BY <1>1, StillHistory, NewPassTypes, OthersKeep DEF StartOrStop, AllListed, FaultNames

LEMMA PhonesKeeps == ASSUME StagedInv, Phones PROVE StagedInv'
<1> USE DEF StagedInv, StagedTypeOK
<1>1. BridgeTypeOK' /\ PlacedInv' /\ Quiet
  BY PhonesTypes DEF Phones
<1> QED
  BY <1>1, StillHistory, OthersKeep DEF Phones, AllListed, FaultNames

LEMMA ClockKeeps == ASSUME StagedInv, Clock PROVE StagedInv'
<1> USE DEF StagedInv, StagedTypeOK
<1>1. BridgeTypeOK' /\ PlacedInv' /\ Quiet
  BY StillTypes DEF Clock
<1>2. HistoryTypeOK'
  BY AgeTypes DEF Clock
<1> QED
  BY <1>1, <1>2, OthersKeep DEF Clock, AllListed, FaultNames

LEMMA RestartKeeps == ASSUME StagedInv, Restart PROVE StagedInv'
<1> USE DEF StagedInv, StagedTypeOK
<1>1. BridgeTypeOK' /\ PlacedInv' /\ Quiet /\ HistoryTypeOK'
  BY StillTypes, StillHistory DEF Restart
<1>2. faults' \in Seq(FaultNames) /\ (AllListed' => AllListed)
  BY FaultTypes DEF Restart, FaultNames
<1>3. Resting("done") \in Request /\ Resting("done").at = "done"
  BY DEF Resting, Request, RequestSteps
<1>4. /\ request' \in [Requests -> Request]
      /\ \A r \in Requests : request'[r].at \in {"start", "done"}
  BY <1>3 DEF Restart, At
<1>5. NamedInv' /\ KindsInv' /\ LockInv' /\ CheckedInv'
  BY <1>4 DEF NamedInv, KindsInv, LockInv, CheckedInv, Checked, Holds, At
<1>6. pass' \in Pass /\ stale' \in [Tasks -> SUBSET Channels]
  BY NewPassTypes DEF Restart
<1> QED
  BY <1>1, <1>2, <1>4, <1>5, <1>6, QuietLegs DEF Restart, FaultNames

-----------------------------------------------------------------------------
LEMMA StagedInitially == Init => StagedInv
<1> SUFFICES ASSUME Init PROVE StagedInv
  OBVIOUS
<1>1. BridgeTypeOK /\ PlacedInv
  BY DEF Init, BridgeInit, BridgeTypeOK, PlacedInv, Channel, ChannelStates
<1>2. HistoryTypeOK
  BY DEF Init, HistoryInit, HistoryTypeOK
<1>3. \A r \in Requests : request[r] = Resting("start")
  BY DEF Init
<1>4. Resting("start") \in Request /\ Resting("start").at = "start"
  BY DEF Resting, Request, RequestSteps
<1>5. StagedTypeOK
  BY <1>1, <1>2, <1>4, NewPassTypes DEF Init, StagedTypeOK
<1>6. NamedInv /\ KindsInv /\ LockInv /\ CheckedInv
  BY <1>3, <1>4 DEF NamedInv, KindsInv, LockInv, CheckedInv, Checked, Holds, At
<1>7. OneLegPerStation
  BY DEF Init, BridgeInit, OneLegPerStation, Callees
<1> QED
  BY <1>1, <1>5, <1>6, <1>7 DEF StagedInv

LEMMA StutterKeeps == ASSUME StagedInv, UNCHANGED vars PROVE StagedInv'
<1> USE DEF StagedInv, StagedTypeOK
<1>1. BridgeTypeOK' /\ PlacedInv' /\ Quiet
  BY StillTypes DEF vars, bridgeVars
<1>2. HistoryTypeOK'
  BY StillHistory DEF vars, historyVars
<1> QED
  BY <1>1, <1>2, OthersKeep DEF vars, AllListed, FaultNames

LEMMA NextKeeps == StagedInv /\ [Next]_vars => StagedInv'
<1> SUFFICES ASSUME StagedInv, [Next]_vars PROVE StagedInv'
  OBVIOUS
<1>1. CASE \E r \in Requests : Arrive(r) \/ RequestStep(r)
  BY <1>1, ArriveKeeps, LockKeeps, CheckKeeps, EnforceKeeps, OriginateKeeps, InsertKeeps,
     FindKeeps, DropKeeps DEF RequestStep
<1>2. CASE LoopStep
  BY <1>2, ListKeeps, SweepKeeps, DropSessionKeeps, SynchroniseKeeps, InspectKeeps,
     StartOrStopKeeps DEF LoopStep
<1>3. CASE Phones \/ Clock \/ Restart
  BY <1>3, PhonesKeeps, ClockKeeps, RestartKeeps
<1>4. CASE UNCHANGED vars
  BY <1>4, StutterKeeps
<1> QED
  BY <1>1, <1>2, <1>3, <1>4 DEF Next

\* How far the duplicate check goes: the state is well typed, one request at a
\* time holds a station's lock, and what a request has looked up stays true until
\* it dials, if there was nothing on its way that it could not see
\* (calls.py:103-111).
THEOREM StagedInvariance == Spec => []StagedInv
<1> QED
  BY StagedInitially, NextKeeps, PTL DEF Spec

\* The variables of the staged backend keep their types.
THEOREM StagedTyping == Spec => []StagedTypeOK
<1>1. StagedInv => StagedTypeOK
  BY DEF StagedInv
<1> QED
  BY <1>1, StagedInvariance, PTL

\* A station gets a second leg only after a listing failed or a call was checked
\* while an originate of the station had no channel yet; the race of requests, the
\* loss of replies, failed hang-ups and restarts add no other way, because the
\* lock is held from the check until the originate is sent (calls.py:103-111).
THEOREM OneLegTheorem == Spec => []OneLegPerStation
<1>1. StagedInv => OneLegPerStation
  BY DEF StagedInv
<1> QED
  BY <1>1, StagedInvariance, PTL

-----------------------------------------------------------------------------
(* What a step that does not write the history keeps. *)

\* Channels that have appeared keep their names, and end once.
Steady ==
    \A h \in Channels : Appeared(h) =>
        /\ Appeared(h)'
        /\ channel'[h].role = channel[h].role /\ channel'[h].ext = channel[h].ext
        /\ Live(h)' => Live(h)

\* Rows are new, or name what they named.
SameNames ==
    \A r \in Requests : outbound'[r] # None /\ outbound'[r].channel # None =>
        /\ outbound[r] # None
        /\ outbound'[r].channel = outbound[r].channel
        /\ outbound'[r].station = outbound[r].station
        /\ outbound'[r].open = outbound[r].open

\* The pass goes on with its listing, or is over.
SamePass ==
    \/ /\ pass'.listed = pass.listed
       /\ pass'.at \in {"sessions", "drop", "history"} =>
              pass.at \in {"sessions", "drop", "history"}
    \/ pass'.listed = {} /\ pass'.at \notin {"sessions", "drop", "history"}

LEMMA HistoryAside ==
    ASSUME StagedTypeOK, HistoryInv, Steady, SameNames, SamePass, UNCHANGED incoming,
           AllListed' => AllListed, overlooked \subseteq overlooked'
    PROVE  HistoryInv'
<1> USE DEF HistoryInv
<1>1. /\ pass.listed \subseteq Channels
      /\ pass'.listed \subseteq pass.listed
      /\ \A r \in Requests : outbound[r] # None => outbound[r] \in Row
      /\ \A h \in Channels : incoming[h] # <<>> => Appeared(h)
  BY DEF StagedTypeOK, HistoryTypeOK, Pass, SamePass, NamesInv
<1>2. \A r \in Requests : outbound[r] # None /\ outbound[r].channel # None =>
        outbound[r].channel \in Channels /\ Appeared(outbound[r].channel)
  BY DEF NamesInv, Callees
<1>3. NamesInv'
  <2>1. \A h \in pass'.listed : Appeared(h)'
    BY <1>1 DEF NamesInv, Steady
  <2>2. ASSUME NEW r \in Requests, outbound'[r] # None, outbound'[r].channel # None
        PROVE  (outbound[r].channel \in Callees(outbound[r].station) /\ Appeared(outbound[r].channel))'
    BY <1>2, <2>2 DEF NamesInv, Steady, SameNames, Callees, Channels
  <2>3. \A h \in Channels : incoming'[h] # <<>> => channel'[h].role = "caller" /\ Appeared(h)'
    BY DEF NamesInv, Steady
  <2> QED
    BY <2>1, <2>2, <2>3 DEF NamesInv
<1>4. \A h \in Channels : Named(h)' => Named(h) /\ Appeared(h)
  <2> SUFFICES ASSUME NEW h \in Channels, Named(h)' PROVE Named(h) /\ Appeared(h)
    OBVIOUS
  <2>1. CASE incoming'[h] # <<>>
    BY <1>1, <2>1 DEF Named
  <2>2. CASE \E r \in Requests : outbound'[r] # None /\ outbound'[r].channel = h
    <3>1. PICK r \in Requests : outbound'[r] # None /\ outbound'[r].channel = h
      BY <2>2
    <3>2. h # None
      BY ConfBridgeAssumption DEF Channels
    <3> QED
      BY <1>2, <3>1, <3>2 DEF Named, SameNames
  <2> QED
    BY <2>1, <2>2 DEF Named
<1>5. ListingInv'
  <2> SUFFICES ASSUME AllListed' PROVE ListingInv'
    BY DEF ListingInv
  <2>1. AllListed
    OBVIOUS
  <2>2. ASSUME pass'.at \in {"sessions", "drop", "history"}, NEW h \in Channels, Named(h)'
        PROVE  h \in pass'.listed \/ ~Live(h)'
    <3>1. pass'.listed = pass.listed /\ pass.at \in {"sessions", "drop", "history"}
      BY <2>2 DEF SamePass
    <3> QED
      BY <1>4, <2>1, <2>2, <3>1 DEF ListingInv, Steady
  <2>3. ASSUME NEW e \in Overseen', NEW g \in Callees(e)' \cap pass'.listed,
               NEW h \in Callees(e)' \cap pass'.listed
        PROVE  g = h
    <3>1. {g, h} \subseteq Channels \cap pass.listed /\ Appeared(g) /\ Appeared(h)
      BY <1>1 DEF NamesInv
    <3>2. g \in Callees(e) /\ h \in Callees(e)
      BY <3>1 DEF Callees, Steady, Channels
    <3>3. e \in Overseen
      BY DEF Overseen
    <3> QED
      BY <2>1, <3>1, <3>2, <3>3 DEF ListingInv
  <2>4. \A h \in pass'.listed : \A i \in DOMAIN incoming'[h] : incoming'[h][i].open
    BY <1>1, <2>1 DEF ListingInv
  <2> QED
    BY <2>2, <2>3, <2>4 DEF ListingInv
<1>6. RowOutlivesItsLeg'
  <2> SUFFICES ASSUME AllListed' PROVE RowOutlivesItsLeg'
    BY DEF RowOutlivesItsLeg
  <2>1. ASSUME NEW r \in Requests, outbound'[r] # None, ~outbound'[r].open,
               outbound'[r].station \in Overseen', outbound'[r].channel # None
        PROVE  ~Live(outbound[r].channel)'
    BY <1>2, <2>1 DEF RowOutlivesItsLeg, SameNames, Steady, Overseen
  <2>2. ASSUME NEW h \in Channels, NEW i \in DOMAIN incoming'[h]
        PROVE  incoming'[h][i].open \/ ~Live(h)'
    <3>1. incoming[h] # <<>> /\ i \in DOMAIN incoming[h]
      BY <2>2
    <3> QED
      BY <1>1, <2>2, <3>1 DEF RowOutlivesItsLeg, Steady
  <2> QED
    BY <2>1, <2>2 DEF RowOutlivesItsLeg
<1>7. IncomingCallIsOneRow'
  BY DEF IncomingCallIsOneRow
<1> QED
  BY <1>3, <1>5, <1>6, <1>7

-----------------------------------------------------------------------------
(* Channels. *)

LEMMA StillSteady == ASSUME UNCHANGED channel PROVE Steady
  BY DEF Steady, Appeared, Live

LEMMA CreateSteady ==
    ASSUME BridgeTypeOK, NEW h \in Channels, NEW role, NEW e, NEW st, Create(h, role, e, st)
    PROVE  Steady
<1>1. channel[h].st = "unused"
  BY DEF Create, Fresh, Channels
<1>2. \A g \in Channels : g # h => channel'[g] = channel[g]
  BY DEF Create, BridgeTypeOK
<1> QED
  BY <1>1, <1>2 DEF Steady, Appeared, Live

LEMMA AdvanceSteady ==
    ASSUME BridgeTypeOK, NEW h \in Channels, NEW st \in {"ringing", "up", "over"},
           channel' = [channel EXCEPT ![h].st = st], st = "over" \/ Live(h)
    PROVE  Steady
<1>1. channel' = [channel EXCEPT ![h] = [channel[h] EXCEPT !.st = st]]
  OBVIOUS
<1>2. /\ \A g \in Channels : g # h => channel'[g] = channel[g]
      /\ channel'[h] = [channel[h] EXCEPT !.st = st] /\ channel[h] \in Channel
  BY <1>1 DEF BridgeTypeOK
<1>3. /\ channel'[h].st = st
      /\ channel'[h].role = channel[h].role /\ channel'[h].ext = channel[h].ext
  BY <1>2 DEF Channel
<1> QED
  BY <1>2, <1>3 DEF Steady, Appeared, Live

LEMMA HangupSteady ==
    ASSUME BridgeTypeOK, NEW h \in Channels, Hangup(h) \/ End(h) PROVE Steady
  BY AdvanceSteady, StillSteady DEF Hangup, End, bridgeVars

LEMMA TryHangupSteady ==
    ASSUME BridgeTypeOK, NEW h \in Channels, TryHangup(h) PROVE Steady
  BY HangupSteady, StillSteady DEF TryHangup, bridgeVars

LEMMA PhonesSteady == ASSUME BridgeTypeOK, Phones PROVE Steady
<1>1. PICK h \in Channels :
        \/ Appear(h) \/ Answer(h) \/ End(h) \/ JoinSession(h)
        \/ \E e \in Stations : DialIn(h, e)
  BY DEF Phones
<1>2. CASE Appear(h) \/ Answer(h)
  BY <1>2, AdvanceSteady DEF Appear, Answer, Live
<1>3. CASE End(h)
  BY <1>3, HangupSteady
<1>4. CASE JoinSession(h) \/ \E e \in Stations : DialIn(h, e)
  BY <1>4, CreateSteady DEF JoinSession, DialIn
<1> QED
  BY <1>1, <1>2, <1>3, <1>4

-----------------------------------------------------------------------------
(* Steps that leave the history alone, or insert a row. *)

LEMMA SameHistory == ASSUME UNCHANGED historyVars PROVE SameNames /\ UNCHANGED incoming
  BY DEF historyVars, SameNames

LEMMA RequestHistory ==
    ASSUME StagedTypeOK, HistoryInv, NEW r \in Requests, Arrive(r) \/ RequestStep(r)
    PROVE  HistoryInv'
<1>1. SamePass
  BY DEF Arrive, RequestStep, Lock, Check, Enforce, Originate, Insert, Find, Drop, SamePass
<1>2. AllListed' => AllListed
  <2>1. CASE UNCHANGED faults
    BY <2>1 DEF AllListed
  <2>2. CASE \E S \in SUBSET Channels : Listing(S)
    BY <2>2, ListingTypes DEF StagedTypeOK, FaultNames
  <2>3. CASE Fault("listing") \/ Fault("hangup")
    BY <2>3, FaultTypes DEF StagedTypeOK, FaultNames
  <2> QED
    BY <2>1, <2>2, <2>3 DEF Arrive, RequestStep, Lock, Check, Enforce, Originate, Insert, Find,
                            Drop, TryHangup
<1>3. Steady
  <2>1. CASE UNCHANGED bridgeVars
    BY <2>1, StillSteady DEF bridgeVars
  <2>2. CASE Originate(r)
    BY <2>2, CreateSteady, StillSteady DEF Originate, Accept, StagedTypeOK, bridgeVars
  <2>3. CASE Drop(r)
    <3>1. PICK h \in stale[r] : TryHangup(h)
      BY <2>3 DEF Drop
    <3>2. h \in Channels
      BY <3>1 DEF StagedTypeOK, Tasks
    <3> QED
      BY <3>1, <3>2, TryHangupSteady DEF StagedTypeOK
  <2> QED
    BY <2>1, <2>2, <2>3 DEF Arrive, RequestStep, Lock, Check, Enforce, Insert, Find
<1>4. SameNames /\ UNCHANGED incoming
  <2>1. CASE UNCHANGED historyVars
    BY <2>1, SameHistory
  <2>2. CASE \E own \in BOOLEAN, e \in Stations \cup {None} : InsertOutbound(r, own, e)
    <3>1. PICK own \in BOOLEAN, e \in Stations \cup {None} : InsertOutbound(r, own, e)
      BY <2>2
    <3>2. NewRow(own, e, None).channel = None
      BY DEF NewRow
    <3>3. \A q \in Requests : outbound'[q] = IF q = r THEN NewRow(own, e, None) ELSE outbound[q]
      BY <3>1 DEF InsertOutbound, StagedTypeOK, HistoryTypeOK
    <3> QED
      BY <3>1, <3>2, <3>3 DEF InsertOutbound, SameNames
  <2>3. Insert(r) => UNCHANGED historyVars
                     \/ \E own \in BOOLEAN, e \in Stations \cup {None} : InsertOutbound(r, own, e)
    <3>1. request[r].ext \in Stations \cup {None}
      BY DEF StagedTypeOK, Request
    <3> QED
      BY <3>1 DEF Insert
  <2> QED
    BY <2>1, <2>2, <2>3 DEF Arrive, RequestStep, Lock, Check, Enforce, Originate, Find, Drop
<1>5. overlooked \subseteq overlooked'
  BY DEF Arrive, RequestStep, Lock, Check, Enforce, Originate, Insert, Find, Drop
<1> QED
  BY <1>1, <1>2, <1>3, <1>4, <1>5, HistoryAside

LEMMA LoopHistory ==
    ASSUME StagedTypeOK, HistoryInv, Sweep \/ DropSession \/ Inspect \/ StartOrStop
    PROVE  HistoryInv'
<1>1. SamePass
  <2>1. pass \in Pass
    BY DEF StagedTypeOK
  <2>2. CASE Sweep \/ DropSession
    BY <2>1, <2>2 DEF Sweep, DropSession, PassAt, PassGo, SamePass, Pass
  <2>3. CASE pass' = NewPass
    BY <2>3 DEF NewPass, SamePass
  <2>4. CASE pass' = [pass EXCEPT !.at = "record", !.seen = recording]
    <3>1. pass'.listed = pass.listed /\ pass'.at = "record"
      BY <2>1, <2>4 DEF Pass
    <3> QED
      BY <3>1 DEF SamePass
  <2> QED
    BY <2>2, <2>3, <2>4 DEF Inspect, StartOrStop
<1>2. AllListed' => AllListed
  <2>1. UNCHANGED faults \/ Fault("listing") \/ Fault("hangup")
    BY DEF Sweep, DropSession, TryHangup, Inspect, StartOrStop
  <2> QED
    BY <2>1, FaultTypes DEF StagedTypeOK, FaultNames, AllListed
<1>3. Steady
  <2>1. CASE UNCHANGED channel
    BY <2>1, StillSteady
  <2>2. CASE DropSession
    <3>1. PICK h \in stale[Loop] : TryHangup(h)
      BY <2>2 DEF DropSession
    <3>2. h \in Channels
      BY <3>1 DEF StagedTypeOK, Tasks
    <3> QED
      BY <3>1, <3>2, TryHangupSteady DEF StagedTypeOK
  <2> QED
    BY <2>1, <2>2 DEF Sweep, Inspect, StartOrStop, Record, bridgeVars
<1>4. UNCHANGED historyVars
  BY DEF Sweep, DropSession, Inspect, StartOrStop
<1>5. UNCHANGED overlooked
  BY DEF Sweep, DropSession, Inspect, StartOrStop
<1> QED
  BY <1>1, <1>2, <1>3, <1>4, <1>5, SameHistory, HistoryAside

LEMMA EnvironmentHistory ==
    ASSUME StagedTypeOK, HistoryInv, Phones \/ Clock \/ Restart
    PROVE  HistoryInv'
<1>1. SamePass
  BY DEF Phones, Clock, Restart, SamePass, NewPass
<1>2. AllListed' => AllListed
  <2>1. UNCHANGED faults \/ Fault("restart")
    BY DEF Phones, Clock, Restart
  <2> QED
    BY <2>1, FaultTypes DEF StagedTypeOK, FaultNames, AllListed
<1>3. Steady
  BY PhonesSteady, StillSteady DEF StagedTypeOK, Clock, Restart, bridgeVars
<1>4. SameNames /\ UNCHANGED incoming
  <2>1. CASE UNCHANGED historyVars
    BY <2>1, SameHistory
  <2>2. CASE \E r \in Requests : Age(r)
    <3>1. PICK r \in Requests : Age(r)
      BY <2>2
    <3>2. outbound[r] \in Row /\ outbound[r] # None
      BY <3>1 DEF Age, StagedTypeOK, HistoryTypeOK
    <3>3. /\ \A q \in Requests : q # r => outbound'[q] = outbound[q]
          /\ outbound'[r] = [outbound[r] EXCEPT !.aged = TRUE]
      BY <3>1 DEF Age, StagedTypeOK, HistoryTypeOK
    <3>4. /\ outbound'[r].channel = outbound[r].channel
          /\ outbound'[r].station = outbound[r].station
          /\ outbound'[r].open = outbound[r].open
      BY <3>2, <3>3 DEF Row
    <3> QED
      BY <3>1, <3>2, <3>3, <3>4 DEF Age, SameNames
  <2> QED
    BY <2>1, <2>2 DEF Phones, Clock, Restart
<1>5. UNCHANGED overlooked
  BY DEF Phones, Clock, Restart
<1> QED
  BY <1>1, <1>2, <1>3, <1>4, <1>5, HistoryAside

-----------------------------------------------------------------------------
(* The two steps that matter. *)

\* A new pass sees every channel that a row names and that has not ended.
LEMMA ListHistory ==
    ASSUME StagedTypeOK, HistoryInv, OneLegPerStation, List PROVE HistoryInv'
<1> USE DEF HistoryInv
<1>1. PICK S \in SUBSET Channels :
        /\ Listing(S)
        /\ pass' = [pass EXCEPT !.at = "sessions", !.listed = S, !.joined = S \cap Members]
  BY DEF List
<1>2. pass'.listed = S
  BY <1>1 DEF StagedTypeOK, Pass
<1>3. S \subseteq ListedChannels /\ (AllListed' => AllListed /\ S = ListedChannels)
  BY <1>1, ListingTypes DEF Listing, StagedTypeOK, FaultNames
<1>4. UNCHANGED <<channel, outbound, incoming, overlooked>>
  BY DEF List, bridgeVars, historyVars
<1>5. NamesInv'
  BY <1>2, <1>3, <1>4 DEF NamesInv, ListedChannels, Listed, Appeared, Callees
<1>6. ListingInv'
  <2> SUFFICES ASSUME AllListed' PROVE ListingInv'
    BY DEF ListingInv
  <2>1. AllListed /\ pass'.listed = ListedChannels
    BY <1>2, <1>3
  <2>2. ASSUME NEW h \in Channels, Named(h)' PROVE h \in pass'.listed \/ ~Live(h)'
    <3>1. Appeared(h)
      <4>1. CASE incoming[h] # <<>>
        BY <4>1 DEF NamesInv
      <4>2. CASE \E r \in Requests : outbound[r] # None /\ outbound[r].channel = h
        BY <4>2, ConfBridgeAssumption DEF NamesInv, Channels
      <4> QED
        BY <1>4, <2>2, <4>1, <4>2 DEF Named
    <3> QED
      BY <1>4, <2>1, <3>1 DEF Appeared, Live, ListedChannels, Listed
  <2>3. ASSUME NEW e \in Overseen', NEW g \in Callees(e)' \cap pass'.listed,
               NEW h \in Callees(e)' \cap pass'.listed
        PROVE  g = h
    BY <1>4, <2>1 DEF OneLegPerStation, Overseen, Callees, Live, ListedChannels, Listed
  <2>4. ASSUME NEW h \in pass'.listed, NEW i \in DOMAIN incoming'[h]
        PROVE  incoming'[h][i].open
    BY <1>4, <2>1, <2>4 DEF RowOutlivesItsLeg, Live, ListedChannels, Listed
  <2> QED
    BY <2>2, <2>3, <2>4 DEF ListingInv
<1>7. RowOutlivesItsLeg' /\ IncomingCallIsOneRow'
  BY <1>3, <1>4 DEF RowOutlivesItsLeg, IncomingCallIsOneRow, Overseen, Live
<1> QED
  BY <1>5, <1>6, <1>7

\* What the second transaction makes of a row of an outgoing call.
LEMMA SyncedRow ==
    ASSUME StagedTypeOK, HistoryInv, NEW r \in Requests, outbound[r] # None,
           NEW first \in [Stations -> Channels \cup {None}],
           \A e \in Stations : IF ActiveAt(pass.listed, e) = {} THEN first[e] = None
                               ELSE first[e] \in ActiveAt(pass.listed, e),
           outbound'[r] = Synced(outbound[r], first, pass.joined), UNCHANGED channel
    PROVE  LET row == outbound'[r]
           IN  /\ row.station = outbound[r].station
               /\ row.channel # None => row.channel \in Callees(row.station) /\ Appeared(row.channel)
               /\ outbound[r].channel # None => row.channel # None
               /\ AllListed /\ PassAt("history") /\ row.channel # None /\ ~row.open
                  /\ row.station \in Overseen => ~Live(row.channel)
<1> USE DEF HistoryInv
<1> DEFINE old == outbound[r]  g == old.channel  e == old.station
<1>1. old \in Row /\ e \in Stations /\ g \in Channels \cup {None} /\ old.open \in BOOLEAN
  BY DEF StagedTypeOK, HistoryTypeOK, Row
<1>2. g # None => g \in Callees(e) /\ Appeared(g) /\ g \in Channels
  BY <1>1 DEF NamesInv
<1>3. AllListed /\ PassAt("history") /\ g # None => g \in pass.listed \/ ~Live(g)
  BY <1>2 DEF ListingInv, PassAt, Named
<1>4. /\ Finished(old).station = e /\ Finished(old).channel = g
      /\ ~Finished(old).open
  BY <1>1 DEF Finished, Row
<1>5. CASE ~old.own \/ ~old.open
  <2>1. outbound'[r] = old
    BY <1>5 DEF Synced
  <2> QED
    BY <1>2, <2>1 DEF RowOutlivesItsLeg
<1>6. CASE old.own /\ old.open /\ first[e] = None
  <2>1. outbound'[r] = Unreached(old) /\ ActiveAt(pass.listed, e) = {}
    <3>1. None \notin pass.listed
      BY ConfBridgeAssumption DEF StagedTypeOK, Pass, Channels
    <3>2. first[e] \notin ActiveAt(pass.listed, e)
      BY <1>6, <3>1 DEF ActiveAt
    <3> QED
      BY <1>1, <1>6, <3>2 DEF Synced
  <2>2. outbound'[r] = old \/ outbound'[r] = Finished(old)
    BY <2>1 DEF Unreached
  <2>3. g # None => g \notin pass.listed
    BY <1>2, <2>1 DEF ActiveAt, Callees
  <2> QED
    BY <1>2, <1>3, <1>4, <2>2, <2>3
<1>7. CASE old.own /\ old.open /\ first[e] # None
  <2>1. /\ outbound'[r] = Matched(old, first[e], pass.joined)
        /\ first[e] \in Callees(e) \cap pass.listed /\ Appeared(first[e])
    <3>1. first[e] \in ActiveAt(pass.listed, e)
      BY <1>1, <1>7
    <3>2. pass.listed \subseteq Channels
      BY DEF StagedTypeOK, Pass
    <3> QED
      BY <1>7, <3>1, <3>2 DEF Synced, ActiveAt, Callees, NamesInv
  <2>2. CASE g \notin {None, first[e]}
    <3>1. outbound'[r] = Finished(old)
      BY <2>1, <2>2 DEF Matched
    <3>2. AllListed /\ e \in Overseen => g \notin pass.listed
      BY <1>1, <1>2, <2>1, <2>2 DEF ListingInv
    <3> QED
      BY <1>2, <1>3, <1>4, <3>1, <3>2
  <2>3. CASE g \in {None, first[e]}
    <3>1. outbound'[r] = Seen(old, first[e], first[e] \in pass.joined)
      BY <2>1, <2>3 DEF Matched
    <3>2. /\ outbound'[r].station = e /\ outbound'[r].channel = first[e]
          /\ outbound'[r].open
      BY <1>1, <1>7, <3>1 DEF Seen, Row
    <3> QED
      BY <1>7, <2>1, <3>2
  <2> QED
    BY <2>2, <2>3
<1> QED
  BY <1>1, <1>5, <1>6, <1>7

LEMMA AppendToNone ==
    ASSUME NEW row
    PROVE  LET rows == Append(<<>>, row)
           IN  Len(rows) <= 1 /\ DOMAIN rows = {1} /\ rows[1] = row
  OBVIOUS

\* What it makes of the rows of a call that comes in.
LEMMA SyncedRows ==
    ASSUME StagedTypeOK, HistoryInv, NEW h \in Channels,
           incoming'[h] = SyncedIncoming(h, incoming[h], pass.listed, pass.joined),
           UNCHANGED channel
    PROVE  /\ incoming'[h] # <<>> => channel[h].role = "caller" /\ Appeared(h)
           /\ AllListed => Len(incoming'[h]) <= 1
           /\ AllListed /\ PassAt("history") =>
                \A i \in DOMAIN incoming'[h] : incoming'[h][i].open \/ ~Live(h)
<1> USE DEF HistoryInv
<1> DEFINE rows == incoming[h]
<1>1. /\ rows \in Seq(Row) /\ DOMAIN rows = 1..Len(rows) /\ Len(rows) \in Nat
      /\ \A i \in DOMAIN rows : rows[i] \in Row
      /\ AllListed => Len(rows) <= 1
  BY DEF StagedTypeOK, HistoryTypeOK, IncomingCallIsOneRow
<1>2. CASE h \notin pass.listed \/ channel[h].role # "caller"
  <2>1. incoming'[h] = [i \in DOMAIN rows |-> IF rows[i].open THEN Finished(rows[i]) ELSE rows[i]]
    BY <1>2 DEF SyncedIncoming
  <2>2. Len(incoming'[h]) = Len(rows)
    BY <1>1, <2>1
  <2>3. incoming'[h] # <<>> => rows # <<>>
    BY <1>1, <2>1
  <2>4. AllListed /\ PassAt("history") /\ rows # <<>> => ~Live(h)
    BY <1>2 DEF ListingInv, NamesInv, PassAt, Named
  <2>5. DOMAIN incoming'[h] # {} => incoming'[h] # <<>>
    OBVIOUS
  <2> QED
    BY <1>1, <2>2, <2>3, <2>4, <2>5 DEF NamesInv
<1>3. CASE h \in pass.listed /\ channel[h].role = "caller" /\ OpenRows(rows) = {}
  <2> DEFINE row == Seen(NewRow(FALSE, channel[h].ext, h), h, h \in pass.joined)
  <2>1. incoming'[h] = Append(rows, row)
    BY <1>3 DEF SyncedIncoming
  <2>2. row.open
    <3>1. NewRow(FALSE, channel[h].ext, h).open
      BY DEF NewRow
    <3> QED
      BY <3>1 DEF Seen, NewRow
  <2>3. AllListed => rows = <<>>
    <3>1. AllListed => \A i \in DOMAIN rows : rows[i].open
      BY <1>3 DEF ListingInv
    <3>2. AllListed => DOMAIN rows = {}
      BY <1>3, <3>1 DEF OpenRows
    <3> QED
      BY <1>1, <3>2
  <2>4. AllListed => /\ Len(incoming'[h]) <= 1 /\ DOMAIN incoming'[h] = {1}
                     /\ incoming'[h][1] = row
    BY <2>1, <2>3, AppendToNone
  <2>5. Appeared(h)
    BY <1>3 DEF NamesInv
  <2> HIDE DEF row
  <2> QED
    <3>1. AllListed => Len(incoming'[h]) <= 1
      BY <2>4
    <3>2. AllListed => \A i \in DOMAIN incoming'[h] : incoming'[h][i].open
      BY <2>2, <2>4
    <3> QED
      BY <1>3, <2>5, <3>1, <3>2
<1>4. CASE h \in pass.listed /\ channel[h].role = "caller" /\ OpenRows(rows) # {}
  <2>1. incoming'[h] = [i \in DOMAIN rows |-> IF rows[i].open
                          THEN Seen(rows[i], h, h \in pass.joined) ELSE rows[i]]
    BY <1>4 DEF SyncedIncoming
  <2>2. Len(incoming'[h]) = Len(rows) /\ DOMAIN incoming'[h] = DOMAIN rows
    BY <1>1, <2>1
  <2>3. \A i \in DOMAIN rows : rows[i].open => incoming'[h][i].open
    BY <1>1, <2>1 DEF Seen, Row
  <2>4. AllListed => \A i \in DOMAIN rows : rows[i].open
    BY <1>4 DEF ListingInv
  <2>5. Appeared(h)
    BY <1>4 DEF NamesInv
  <2> QED
    BY <1>1, <1>4, <2>2, <2>3, <2>4, <2>5
<1> QED
  BY <1>2, <1>3, <1>4

\* What a transaction closes has ended, although its listing may be old.
LEMMA SynchroniseHistory ==
    ASSUME StagedTypeOK, HistoryInv, Synchronise PROVE HistoryInv'
<1> USE DEF HistoryInv
<1>1. /\ pass'.listed = {} /\ pass'.at \notin {"sessions", "drop", "history"}
      /\ PassAt("history") /\ UNCHANGED <<channel, overlooked>> /\ (AllListed' <=> AllListed)
  BY DEF Synchronise, NewPass, bridgeVars, AllListed, StagedTypeOK, Pass
<1>2. PICK first \in [Stations -> Channels \cup {None}] :
        /\ \A e \in Stations : IF ActiveAt(pass.listed, e) = {} THEN first[e] = None
                               ELSE first[e] \in ActiveAt(pass.listed, e)
        /\ outbound' = [r \in Requests |-> Synced(outbound[r], first, pass.joined)]
  BY DEF Synchronise, SyncOutbound
<1>3. ASSUME NEW r \in Requests, outbound'[r] # None
      PROVE  /\ outbound'[r].channel # None =>
                  /\ outbound'[r].channel \in Callees(outbound'[r].station)
                  /\ Appeared(outbound'[r].channel)
             /\ AllListed /\ outbound'[r].channel # None /\ ~outbound'[r].open
                /\ outbound'[r].station \in Overseen
                  => ~Live(outbound'[r].channel)
  <2>1. outbound'[r] = Synced(outbound[r], first, pass.joined)
    BY <1>2
  <2>2. outbound[r] # None
    BY <1>3, <2>1 DEF Synced
  <2> QED
    BY <1>1, <1>2, <2>1, <2>2, SyncedRow
<1>4. ASSUME NEW h \in Channels
      PROVE  /\ incoming'[h] # <<>> => channel[h].role = "caller" /\ Appeared(h)
             /\ AllListed => Len(incoming'[h]) <= 1
             /\ AllListed => \A i \in DOMAIN incoming'[h] : incoming'[h][i].open \/ ~Live(h)
  <2>1. incoming'[h] = SyncedIncoming(h, incoming[h], pass.listed, pass.joined)
    BY DEF Synchronise, SyncIncoming
  <2> QED
    BY <1>1, <2>1, SyncedRows
<1>5. NamesInv'
  BY <1>1, <1>3, <1>4 DEF NamesInv, Appeared, Callees
<1>6. ListingInv'
  BY <1>1 DEF ListingInv
<1>7. RowOutlivesItsLeg' /\ IncomingCallIsOneRow'
  BY <1>1, <1>3, <1>4 DEF RowOutlivesItsLeg, IncomingCallIsOneRow, Overseen, Live
<1> QED
  BY <1>5, <1>6, <1>7

-----------------------------------------------------------------------------
LEMMA HistoryInitially == Init => HistoryInv
<1> SUFFICES ASSUME Init PROVE HistoryInv
  OBVIOUS
<1>1. /\ \A r \in Requests : outbound[r] = None
      /\ \A h \in Channels : incoming[h] = <<>>
      /\ pass.listed = {} /\ pass.at = "list"
  BY DEF Init, HistoryInit, NewPass
<1> QED
  BY <1>1 DEF HistoryInv, NamesInv, ListingInv, RowOutlivesItsLeg, IncomingCallIsOneRow

LEMMA StutterHistory ==
    ASSUME StagedTypeOK, HistoryInv, UNCHANGED vars PROVE HistoryInv'
<1>1. UNCHANGED <<channel, outbound, incoming, pass, faults, overlooked>>
  BY DEF vars
<1>2. Steady /\ SameNames /\ SamePass /\ (AllListed' => AllListed)
  BY <1>1, StillSteady DEF SameNames, SamePass, AllListed
<1> QED
  BY <1>1, <1>2, HistoryAside

LEMMA NextHistory == StagedInv /\ HistoryInv /\ [Next]_vars => HistoryInv'
<1> SUFFICES ASSUME StagedInv, HistoryInv, [Next]_vars PROVE HistoryInv'
  OBVIOUS
<1>1. StagedTypeOK /\ OneLegPerStation
  BY DEF StagedInv
<1>2. CASE \E r \in Requests : Arrive(r) \/ RequestStep(r)
  BY <1>1, <1>2, RequestHistory
<1>3. CASE LoopStep
  BY <1>1, <1>3, ListHistory, SynchroniseHistory, LoopHistory DEF LoopStep
<1>4. CASE Phones \/ Clock \/ Restart
  BY <1>1, <1>4, EnvironmentHistory
<1>5. CASE UNCHANGED vars
  BY <1>1, <1>5, StutterHistory
<1> QED
  BY <1>2, <1>3, <1>4, <1>5 DEF Next

\* What a row names and a pass has not listed has ended, because a channel that
\* was listed once leaves the listing only when it ends (recording.py:92-218).
THEOREM HistoryInvariance == Spec => []HistoryInv
<1> QED
  BY HistoryInitially, NextHistory, StagedInvariance, PTL DEF Spec

\* The history closes a row while the channel the row names goes on only after a
\* listing failed, and a row of an outgoing call also after its station may have
\* got a second leg: otherwise the channel found by the station's extension is the
\* row's own (recording.py:92-218).
THEOREM RowTheorem == Spec => []RowOutlivesItsLeg
<1>1. HistoryInv => RowOutlivesItsLeg
  BY DEF HistoryInv
<1> QED
  BY <1>1, HistoryInvariance, PTL

\* A call that comes in is one row, however many passes see it and whenever the
\* backend restarts, unless a listing has failed (recording.py:176-218).
THEOREM OneRowTheorem == Spec => []IncomingCallIsOneRow
<1>1. HistoryInv => IncomingCallIsOneRow
  BY DEF HistoryInv
<1> QED
  BY <1>1, HistoryInvariance, PTL
=============================================================================
