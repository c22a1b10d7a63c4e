------------------------ MODULE CallOwnership_proofs ------------------------
(***************************************************************************)
(* Proof of StationMapsHoldOwnChannels: while reading an expired ORM row    *)
(* raises, every map entry of a station, every pointer of its row and every *)
(* local that leads to one is a channel dialled for the call or into it.    *)
(* Nothing that Core finds by asking Asterisk for "the live channel" of a   *)
(* station gets there.  Then of PointersAreUnique: no two rows name one     *)
(* channel, whether or not rows expire.                                     *)
(***************************************************************************)
EXTENDS CallControl_proofs

-----------------------------------------------------------------------------
(* What a step may do to the channels and the calls.                         *)

\* A used channel stays used and keeps its role, its call, its controller and its
\* endpoint; one that comes into use dialled a controller or, as a source, is a
\* controller's.
Roles ==
    \A h \in Channels :
        \/ /\ Used(channel, h) /\ Used(channel', h)
           /\ channel'[h].role = channel[h].role
           /\ channel'[h].call = channel[h].call
           /\ channel'[h].ctl = channel[h].ctl
           /\ channel'[h].ext = channel[h].ext
        \/ /\ ~Used(channel, h)
           /\ channel'[h].role = "inbound" => channel'[h].ctl \in Controllers
           /\ channel'[h].role = "source" => channel'[h].ext \in Controllers

\* A call keeps its controller, unless it is created now.
Births ==
    \A c \in Calls :
        \/ /\ call'[c].source = call[c].source
           /\ call'[c].state = "absent" => call[c].state = "absent"
        \/ call[c].state = "absent" /\ call'[c].state # "absent"

\* A station's pointer is kept, cleared, or set to a channel of its call.
Pointers ==
    \A c \in Calls, e \in Stations :
        LET h == leg'[c][e].channel IN
        h \in {None, leg[c][e].channel} \/ Own(channel', call', c, h)

\* Every row but that of e in the call c keeps its pointer or loses it.
RowsKeepBut(c, e) ==
    \A d \in Calls, x \in Extensions :
        <<d, x>> # <<c, e>> => leg'[d][x].channel \in {None, leg[d][x].channel}

RowsKeep ==
    \A d \in Calls, x \in Extensions : leg'[d][x].channel \in {None, leg[d][x].channel}

\* A station's entry in the adapter's map is kept, removed, or set to a channel of
\* its call.
Entries ==
    \A c \in Calls, e \in Stations :
        LET h == maps'[c].channel[e] IN
        h \in {None, maps[c].channel[e]} \/ Own(channel', call', c, h)

\* A task that moves takes only channels of its call along.
Carried ==
    \A t \in Tasks : task'[t] = task[t] \/ OwnLocals(channel', call', task'[t])

LEMMA OriginStays ==
    ASSUME OriginInv, Roles, Births
    PROVE  OriginInv'
BY DEF OriginInv, Roles, Births

LEMMA SourceStays ==
    ASSUME OriginInv, Births, NEW c \in Calls, call[c].source # None
    PROVE  call'[c].source = call[c].source
BY DEF OriginInv, Births

LEMMA OwnStable ==
    ASSUME AsteriskInv, OriginInv, Roles, Births, NEW c \in Calls, NEW h,
           Own(channel, call, c, h)
    PROVE  Own(channel', call', c, h)
<1>1. /\ h \in Channels /\ Used(channel, h)
      /\ channel'[h].role = channel[h].role /\ channel'[h].call = channel[h].call
      /\ channel'[h].ctl = channel[h].ctl
  BY DEF Own, AsteriskInv, Roles
<1>2. CASE channel[h].role = "callee" /\ channel[h].call = c
  BY <1>1, <1>2 DEF Own
<1>3. CASE channel[h].role = "inbound" /\ channel[h].ctl = call[c].source
  <2>1. call[c].source # None
    BY <1>1, <1>3, TypesAssumption DEF OriginInv
  <2>2. call'[c].source = call[c].source
    BY <2>1, SourceStays
  <2> QED
    BY <1>1, <1>3, <2>2 DEF Own
<1> QED
  BY <1>2, <1>3 DEF Own

LEMMA OwnLocalsStable ==
    ASSUME AsteriskInv, OriginInv, Roles, Births, NEW k, LocalsInv(channel, k),
           OwnLocals(channel, call, k)
    PROVE  OwnLocals(channel', call', k)
<1>1. k.pc \in {"rehydrate", "attach_leg", "add_source", "rung", "mark", "answer", "join"}
        => k.call \in Calls
  BY DEF LocalsInv, Callless
<1> QED
  BY <1>1, OwnStable DEF OwnLocals

\* The invariant is kept by any step that keeps its five parts.
LEMMA OwnStep ==
    ASSUME IInv, OwnInv, Roles, Births, Pointers, Entries, Carried
    PROVE  OwnInv'
<1>1. AsteriskInv /\ OriginInv /\ OriginInv'
  BY OriginStays DEF IInv, OwnInv
<1>2. ASSUME NEW c \in Calls, NEW e \in Stations, leg'[c][e].channel # None
      PROVE  Own(channel', call', c, leg'[c][e].channel)
  BY <1>1, <1>2, OwnStable DEF OwnInv, Pointers
<1>3. ASSUME NEW c \in Calls, NEW e \in Stations, maps'[c].channel[e] # None
      PROVE  Own(channel', call', c, maps'[c].channel[e])
  BY <1>1, <1>3, OwnStable DEF OwnInv, Entries
<1>4. ASSUME NEW t \in Tasks
      PROVE  OwnLocals(channel', call', task'[t])
  <2>1. LocalsInv(channel, task[t]) /\ OwnLocals(channel, call, task[t])
    BY DEF IInv, TasksInv, OwnInv
  <2> QED
    BY <1>1, <2>1, OwnLocalsStable DEF Carried
<1> QED
  BY <1>1, <1>2, <1>3, <1>4 DEF OwnInv

-----------------------------------------------------------------------------
(* Channels keep their roles, whatever the step.                             *)

LEMMA SameRoles ==
    ASSUME AsteriskInv, UNCHANGED channel
    PROVE  Roles
BY DEF AsteriskInv, Roles, Used

LEMMA DialsRoles ==
    ASSUME AsteriskInv, NEW h, NEW e, NEW role \in {"source", "callee"}, NEW c,
           role = "source" => e \in Controllers, Dials(h, e, role, c)
    PROVE  /\ Roles /\ h \in Channels
           /\ channel'[h].role = role /\ channel'[h].call = c
<1>1. h \in Channels /\ ~Used(channel, h)
  BY DEF Dials, Fresh, Used
<1>2. \A g \in Channels :
         channel'[g] = IF g = h THEN [st |-> "dialing", role |-> role, call |-> c,
                                      ctl |-> None, ext |-> e]
                       ELSE channel[g]
  BY DEF Dials, AsteriskInv, AsteriskTypeOK
<1> QED
  BY <1>1, <1>2 DEF AsteriskInv, Roles, Used

LEMMA MoveRoles ==
    ASSUME AsteriskInv, NEW h \in Channels, NEW st, st # "unused", Used(channel, h),
           channel' = [channel EXCEPT ![h].st = st]
    PROVE  Roles
<1>1. channel[h] \in Channel
  BY DEF AsteriskInv, AsteriskTypeOK
<1>2. \A g \in Channels : /\ channel'[g].role = channel[g].role
                          /\ channel'[g].call = channel[g].call
                          /\ channel'[g].ctl = channel[g].ctl
                          /\ channel'[g].ext = channel[g].ext
                          /\ channel'[g].st = IF g = h THEN st ELSE channel[g].st
  BY <1>1 DEF AsteriskInv, AsteriskTypeOK, Channel
<1> QED
  BY <1>2 DEF AsteriskInv, Roles, Used

LEMMA DropsRoles ==
    ASSUME AsteriskInv, NEW h \in Channels, Drops(h)
    PROVE  Roles
<1>1. Used(channel, h)
  BY DEF Drops, InStasis, Ring_, Used
<1> QED
  BY <1>1, MoveRoles DEF Drops

LEMMA PhoneRoles ==
    ASSUME AsteriskInv, NEW h \in Channels, Phone(h)
    PROVE  Roles
<1>1. CASE Rings(h) \/ PickUp(h)
  <2>1. Used(channel, h)
    BY <1>1 DEF Rings, PickUp, Ring_, Used
  <2> QED
    BY <1>1, <2>1, MoveRoles DEF Rings, PickUp
<1>2. ASSUME NEW s \in Controllers, NEW e \in Stations, DialIn(h, s, e)
      PROVE  Roles
  <2>1. ~Used(channel, h)
    BY <1>2 DEF DialIn, Fresh, Used
  <2>2. \A g \in Channels :
           channel'[g] = IF g = h THEN [st |-> "stasis", role |-> "inbound",
                                        call |-> None, ctl |-> s, ext |-> e]
                         ELSE channel[g]
    BY <1>2 DEF DialIn, AsteriskInv, AsteriskTypeOK
  <2> QED
    BY <2>1, <2>2 DEF AsteriskInv, Roles, Used
<1> QED
  BY <1>1, <1>2, DropsRoles DEF Phone, HangUp

LEMMA RequestRoles ==
    ASSUME IInv, NEW r \in Requests, Arrival(r) \/ RequestStep(r)
    PROVE  Roles
<1>1. AsteriskInv /\ task[r] \in Task /\ LocalsInv(channel, task[r])
  BY LocalsOf, Requests_ DEF IInv
<1>2. CASE DropSource(r) \/ Operate(r)
  <2>1. task[r].chan \in Channels
    BY <1>1, <1>2 DEF LocalsInv, Holding, DropSource, Operate, At
  <2> QED
    BY <1>1, <1>2, <2>1, DropsRoles, SameRoles DEF DropSource, Operate, asteriskVars
<1>3. CASE DialSource(r) \/ \E e \in Stations : RingParticipant(r, e)
  <2>1. DialSource(r) => task[r].ctl \in Controllers
    BY <1>1 DEF LocalsInv, Routing, DialSource, At
  <2> QED
    BY <1>1, <1>3, <2>1, DialsRoles, SameRoles
    DEF DialSource, RingParticipant, asteriskVars
<1>4. CASE Arrival(r)
  BY <1>1, <1>4, SameRoles
  DEF Arrival, CallStation, CallStations, ConferenceLookup, ParticipantAction,
      asteriskVars
<1>5. CASE \/ Route(r) \/ RouteStations(r) \/ Rehydrate(r) \/ RetireCall(r)
           \/ OutOfCalls(r) \/ InitiateCall(r) \/ SourceDialed(r) \/ BindSource(r)
           \/ FailCall(r)
  BY <1>1, <1>5, SameRoles
  DEF Route, RouteStations, Rehydrate, RetireCall, OutOfCalls, InitiateCall,
      SourceDialed, BindSource, FailCall, asteriskVars
<1>6. CASE \/ Connect(r) \/ PromoteCall(r) \/ Enroll(r) \/ AddSource(r) \/ AttachLeg(r)
           \/ ReopenLeg(r) \/ FindSource(r) \/ ParticipantRung(r) \/ MarkLeg(r)
  BY <1>1, <1>6, SameRoles
  DEF Connect, PromoteCall, Enroll, AddSource, AttachLeg, ReopenLeg, FindSource,
      ParticipantRung, MarkLeg, asteriskVars
<1>7. CASE \/ Locate(r) \/ Repoint(r) \/ Act(r) \/ Recover(r) \/ ForgetChannel(r)
           \/ Settle(r) \/ LookupFails(r)
  BY <1>1, <1>7, SameRoles
  DEF Locate, Repoint, Act, Recover, ForgetChannel, Settle, LookupFails, asteriskVars
<1> QED
  BY <1>2, <1>3, <1>4, <1>5, <1>6, <1>7 DEF RequestStep

LEMMA HandlerRoles ==
    ASSUME IInv, HandlerStep
    PROVE  Roles
<1>1. /\ AsteriskInv /\ task[Handler] \in Task /\ LocalsInv(channel, task[Handler])
  BY HandlerTask DEF IInv
<1>2. CASE \E e \in Stations : RingParticipant(Handler, e)
  BY <1>1, <1>2, DialsRoles, SameRoles DEF RingParticipant, asteriskVars
<1>3. CASE RejectInbound
  <2>1. task[Handler].chan \in Channels
    BY <1>1, <1>3 DEF LocalsInv, Holding, RejectInbound, At
  <2> QED
    BY <1>1, <1>3, <2>1, DropsRoles, SameRoles DEF RejectInbound, asteriskVars
<1>4. CASE Teardown
  <2>1. task[Handler].legs \in SUBSET Channels
    BY <1>1 DEF Task
  <2> QED
    BY <1>1, <1>4, <2>1, DropsRoles, SameRoles DEF Teardown, Hangs, asteriskVars
<1>5. CASE \E h \in Channels :
             \/ SourceEntered(h) \/ CalleeEntered(h) \/ InboundEntered(h)
             \/ \E type \in EventType : StateChanged(type, h)
             \/ LegEnded(h)
  BY <1>1, <1>5, SameRoles
  DEF SourceEntered, CalleeEntered, InboundEntered, StateChanged, LegEnded, Receives
<1>6. CASE \/ ParticipantRung(Handler) \/ ForgetChannel(Handler) \/ AnswerInbound
           \/ JoinInbound \/ MakeBridge
  BY <1>1, <1>6, SameRoles
  DEF ParticipantRung, ForgetChannel, AnswerInbound, AnswersInbound, JoinInbound,
      MakeBridge, MakesBridge, asteriskVars
<1>7. CASE AddToBridge \/ BridgeAdded \/ BridgeFailed \/ Cleanup
  BY <1>1, <1>7, SameRoles
  DEF AddToBridge, Adds, BridgeAdded, BridgeFailed, BreaksBridge, Cleanup, asteriskVars
<1> QED
  BY <1>2, <1>3, <1>4, <1>5, <1>6, <1>7 DEF HandlerStep

LEMMA NextRoles ==
    ASSUME IInv, [Next]_vars
    PROVE  Roles
BY RequestRoles, HandlerRoles, PhoneRoles, SameRoles
DEF Next, Restart, vars, asteriskVars, IInv

-----------------------------------------------------------------------------
(* Transactions keep the controllers, and pointers other than the one they   *)
(* write.                                                                     *)

LEMMA SameStore ==
    ASSUME UNCHANGED storeVars
    PROVE  Births /\ RowsKeep
BY DEF storeVars, Births, RowsKeep

LEMMA KeepsPointers ==
    ASSUME RowsKeep
    PROVE  Pointers
BY LocalValues DEF RowsKeep, Pointers

LEMMA StateBirths ==
    ASSUME StoreTypeOK, NEW c, NEW x, x # "absent",
           call' = [call EXCEPT ![c].state = x]
    PROVE  Births
<1>1. \A d \in Calls : call[d] \in CallRow
  BY DEF StoreTypeOK
<1>2. \A d \in Calls : /\ call'[d].source = call[d].source
                       /\ call'[d].state = IF d = c THEN x ELSE call[d].state
  BY <1>1 DEF StoreTypeOK, CallRow
<1> QED
  BY <1>2 DEF Births

\* The row of (c, e) becomes l.
LEMMA RowChanges ==
    ASSUME StoreTypeOK, NEW c, NEW e, NEW l,
           leg' = [leg EXCEPT ![c] = [leg[c] EXCEPT ![e] = l]]
    PROVE  /\ RowsKeepBut(c, e)
           /\ c \in Calls /\ e \in Extensions => leg'[c][e] = l
<1>1. \A d \in Calls, x \in Extensions :
         leg'[d][x] = IF d = c /\ x = e THEN l ELSE leg[d][x]
  BY DEF StoreTypeOK
<1> QED
  BY <1>1 DEF RowsKeepBut

LEMMA RowKeeps ==
    ASSUME StoreTypeOK, NEW c, NEW e, NEW l,
           leg' = [leg EXCEPT ![c] = [leg[c] EXCEPT ![e] = l]],
           c \in Calls /\ e \in Extensions => l.channel \in {None, leg[c][e].channel}
    PROVE  RowsKeep
BY RowChanges DEF RowsKeepBut, RowsKeep

LEMMA CreateMoves ==
    ASSUME StoreTypeOK, NEW c \in Absent, NEW s, NEW T, NEW conference,
           NEW state, state # "absent", Create(c, s, T, state, conference)
    PROVE  Births /\ RowsKeep
<1>1. c \in Calls /\ call[c].state = "absent"
  BY DEF Absent
<1>2. Births
  BY <1>1 DEF Create, StoreTypeOK, Births
<1>3. ASSUME NEW d \in Calls, NEW e \in Extensions
      PROVE  leg'[d][e].channel \in {None, leg[d][e].channel}
  <2>1. NewLeg(TRUE).channel = None /\ NewLeg(FALSE).channel = None /\ NoLeg.channel = None
    BY DEF NewLeg, NoLeg
  <2>2. d = c => leg'[d][e] \in {NewLeg(TRUE), NewLeg(FALSE), NoLeg}
    BY <1>1 DEF Create, StoreTypeOK
  <2>3. d # c => leg'[d] = leg[d]
    BY <1>1 DEF Create, StoreTypeOK
  <2> QED
    BY <2>1, <2>2, <2>3
<1> QED
  BY <1>2, <1>3 DEF RowsKeep

\* bind_asterisk_channel writes one pointer.
LEMMA BindMoves ==
    ASSUME StoreTypeOK, NEW c, NEW e, NEW h, BindChannel(c, e, h)
    PROVE  /\ Births /\ RowsKeepBut(c, e)
           /\ c \in Calls /\ e \in Extensions => leg'[c][e].channel = h
<1> DEFINE l == [leg[c][e] EXCEPT !.channel = h]
<1>1. leg' = [leg EXCEPT ![c] = [leg[c] EXCEPT ![e] = l]]
  BY DEF BindChannel
<1>2. c \in Calls /\ e \in Extensions => l.channel = h
  BY LegsTyped DEF LegRow
<1>3. Births
  BY DEF BindChannel, Births
<1> HIDE DEF l
<1> QED
  BY <1>1, <1>2, <1>3, RowChanges

LEMMA MarkBirths ==
    ASSUME StoreTypeOK, NEW c, NEW e, NEW h,
           MarkConnected(c, e, h) \/ MarkRinging(c, e, h)
    PROVE  Births
<1>1. CASE MarkConnected(c, e, h)
  BY <1>1, StateBirths DEF MarkConnected
<1>2. CASE MarkRinging(c, e, h)
  <2>1. \A d \in Calls : call[d] \in CallRow
    BY DEF StoreTypeOK
  <2>2. CASE leg[c][e].gone
    BY <1>2, <2>2, SameStore DEF MarkRinging
  <2>3. CASE ~leg[c][e].gone
    BY <1>2, <2>1, <2>3 DEF MarkRinging, StoreTypeOK, CallRow, Births
  <2> QED
    BY <2>2, <2>3
<1> QED
  BY <1>1, <1>2

LEMMA MarkConnectedMoves ==
    ASSUME StoreTypeOK, NEW c \in Calls, NEW e, NEW h, MarkConnected(c, e, h)
    PROVE  RowsKeepBut(c, e) /\ (e \in Extensions => leg'[c][e].channel = h)
<1> DEFINE l == [leg[c][e] EXCEPT !.channel = h, !.connected = TRUE]
<1>1. e \in Extensions => l.channel = h
  BY LegsTyped DEF LegRow
<1>2. leg' = [leg EXCEPT ![c] = [leg[c] EXCEPT ![e] = l]]
  BY DEF MarkConnected, StoreTypeOK, LegRow
<1> HIDE DEF l
<1> QED
  BY <1>1, <1>2, RowChanges

LEMMA MarkRingingMoves ==
    ASSUME StoreTypeOK, NEW c \in Calls, NEW e, NEW h, MarkRinging(c, e, h)
    PROVE  \/ leg[c][e].gone /\ RowsKeep
           \/ /\ ~leg[c][e].gone /\ RowsKeepBut(c, e)
              /\ e \in Extensions => leg'[c][e].channel = h
<1>1. CASE leg[c][e].gone
  BY <1>1, SameStore DEF MarkRinging
<1>2. CASE ~leg[c][e].gone
  <2> DEFINE l == [leg[c][e] EXCEPT !.channel = h]
  <2>1. e \in Extensions => l.channel = h
    BY LegsTyped DEF LegRow
  <2>2. leg' = [leg EXCEPT ![c] = [leg[c] EXCEPT ![e] = l]]
    BY <1>2 DEF MarkRinging
  <2> HIDE DEF l
  <2> QED
    BY <1>2, <2>1, <2>2, RowChanges
<1> QED
  BY <1>1, <1>2

\* A write of a station's pointer that is a channel of the call.
LEMMA WritePointers ==
    ASSUME NEW c, NEW e, RowsKeepBut(c, e),
           c \in Calls /\ e \in Stations => Own(channel', call', c, leg'[c][e].channel)
    PROVE  Pointers
BY LocalValues DEF RowsKeepBut, Pointers

LEMMA CallMoves ==
    ASSUME StoreTypeOK, NEW c, Fail(c) \/ Promote(c)
    PROVE  Births /\ RowsKeep
<1>1. \A d \in Calls : call[d] \in CallRow
  BY DEF StoreTypeOK
<1>2. CASE Fail(c)
  BY <1>2, StateBirths DEF Fail, RowsKeep
<1>3. CASE Promote(c)
  BY <1>1, <1>3 DEF Promote, StoreTypeOK, CallRow, Births, RowsKeep
<1> QED
  BY <1>2, <1>3

LEMMA AddParticipantMoves ==
    ASSUME StoreTypeOK, NEW c \in Calls, NEW e \in Stations, AddParticipant(c, e)
    PROVE  Births /\ RowsKeep
<1>1. e \in Extensions /\ leg[c][e] \in LegRow
  BY LegsTyped, LocalValues
<1>2. CASE leg[c][e].row
  <2> DEFINE l == [leg[c][e] EXCEPT !.gone = FALSE]
  <2>1. l.channel = leg[c][e].channel
    BY <1>1 DEF LegRow
  <2>2. leg' = [leg EXCEPT ![c] = [leg[c] EXCEPT ![e] = l]]
    BY <1>2 DEF AddParticipant
  <2> HIDE DEF l
  <2> QED
    BY <1>2, <2>1, <2>2, RowKeeps DEF AddParticipant, Births
<1>3. CASE ~leg[c][e].row
  <2>1. leg' = [leg EXCEPT ![c] = [leg[c] EXCEPT ![e] = NewLeg(FALSE)]]
    BY <1>3 DEF AddParticipant
  <2>2. NewLeg(FALSE).channel = None
    BY DEF NewLeg, NoLeg
  <2>3. Births
    BY <1>3 DEF AddParticipant, StoreTypeOK, CallRow, Births
  <2> QED
    BY <2>1, <2>2, <2>3, RowKeeps
<1> QED
  BY <1>2, <1>3

\* A transaction that closes or reopens a row keeps its pointer or clears it.
LEMMA CloseMoves ==
    ASSUME StoreTypeOK, NEW c \in Calls, NEW e, Reopen(c, e) \/ EndLeg(c, e)
    PROVE  Births /\ RowsKeep
<1>1. Births
  BY StateBirths DEF Reopen, EndLeg, Births
<1>2. PICK gone \in BOOLEAN :
        leg' = [leg EXCEPT ![c][e].channel = None, ![c][e].gone = gone]
  BY DEF Reopen, EndLeg
<1> DEFINE l == [leg[c][e] EXCEPT !.channel = None, !.gone = gone]
<1>3. e \in Extensions => l.channel = None
  BY LegsTyped, LocalValues DEF LegRow
<1>4. leg' = [leg EXCEPT ![c] = [leg[c] EXCEPT ![e] = l]]
  BY <1>2 DEF StoreTypeOK, LegRow
<1> HIDE DEF l
<1> QED
  BY <1>1, <1>3, <1>4, RowKeeps

LEMMA RemoveParticipantMoves ==
    ASSUME StoreTypeOK, NEW c, NEW e, RemoveParticipant(c, e)
    PROVE  Births /\ RowsKeep
<1> DEFINE l == [leg[c][e] EXCEPT !.gone = TRUE]
<1>1. c \in Calls /\ e \in Extensions => l.channel = leg[c][e].channel
  BY LegsTyped, LocalValues DEF LegRow
<1>2. leg' = [leg EXCEPT ![c] = [leg[c] EXCEPT ![e] = l]]
  BY DEF RemoveParticipant
<1>3. Births
  BY DEF RemoveParticipant, Births
<1> HIDE DEF l
<1> QED
  BY <1>1, <1>2, <1>3, RowKeeps

LEMMA LegStateMoves ==
    ASSUME StoreTypeOK, NEW c, NEW e, NEW state, LegState(c, e, state)
    PROVE  Births /\ RowsKeep
<1>1. Births
  BY StateBirths DEF LegState
<1>2. CASE UNCHANGED leg
  BY <1>1, <1>2 DEF RowsKeep
<1>3. CASE leg' = [leg EXCEPT ![c][e].connected = TRUE]
  <2> DEFINE l == [leg[c][e] EXCEPT !.connected = TRUE]
  <2>1. c \in Calls /\ e \in Extensions => l.channel = leg[c][e].channel
    BY LegsTyped, LocalValues DEF LegRow
  <2>2. leg' = [leg EXCEPT ![c] = [leg[c] EXCEPT ![e] = l]]
    BY <1>3
  <2> HIDE DEF l
  <2> QED
    BY <1>1, <2>1, <2>2, RowKeeps
<1> QED
  BY <1>2, <1>3 DEF LegState

LEMMA RetireMoves ==
    ASSUME StoreTypeOK, NEW c, Retire(c)
    PROVE  Births /\ RowsKeep
<1>1. CASE call[c].state \in Over
  BY <1>1, SameStore DEF Retire
<1>2. CASE call[c].state \notin Over
  <2>1. Births
    BY <1>2, StateBirths DEF Retire
  <2>2. ASSUME NEW d \in Calls, NEW x \in Extensions
        PROVE  leg'[d][x].channel \in {None, leg[d][x].channel}
    <3>1. x \in Extensions /\ leg[d][x] \in LegRow
      BY LegsTyped, LocalValues
    <3> DEFINE l == [leg[d][x] EXCEPT !.gone = TRUE, !.channel = None]
    <3>2. l.channel = None
      BY <3>1 DEF LegRow
    <3>3. leg'[d][x] \in {l, leg[d][x]}
      <4>1. d = c => leg'[d] = [y \in Extensions |->
                                  IF leg[c][y].row /\ ~leg[c][y].gone
                                  THEN [leg[c][y] EXCEPT !.gone = TRUE, !.channel = None]
                                  ELSE leg[c][y]]
        BY <1>2 DEF Retire, StoreTypeOK
      <4>2. d # c => leg'[d] = leg[d]
        BY <1>2 DEF Retire, StoreTypeOK
      <4> QED
        BY <3>1, <4>1, <4>2
    <3> QED
      BY <3>2, <3>3
  <2> QED
    BY <2>1, <2>2 DEF RowsKeep
<1> QED
  BY <1>1, <1>2

-----------------------------------------------------------------------------
(* Maps: a station's entry is written by AttachTo, and only removed by the    *)
(* rest.                                                                      *)

LEMMA SameEntries ==
    ASSUME UNCHANGED maps
    PROVE  Entries
BY DEF Entries

\* The maps of c become m.
LEMMA MapEntries ==
    ASSUME AdapterInv, NEW c \in Calls, NEW m, maps' = [maps EXCEPT ![c] = m],
           \A e \in Stations :
              \/ m.channel[e] \in {None, maps[c].channel[e]}
              \/ Own(channel', call', c, m.channel[e])
    PROVE  Entries
<1>1. \A d \in Calls : maps'[d] = IF d = c THEN m ELSE maps[d]
  BY DEF AdapterInv, AdapterTypeOK
<1> QED
  BY <1>1 DEF Entries

LEMMA AttachEntry ==
    ASSUME NEW m \in Maps, NEW e, NEW h, NEW x \in Extensions
    PROVE  Attach(m, e, h).channel[x] = IF x = e THEN h ELSE m.channel[x]
<1>1. Attach(m, e, h).channel = [m.channel EXCEPT ![e] = h]
  BY DEF Attach, Maps
<1> QED
  BY <1>1 DEF Maps

LEMMA AttachToEntries ==
    ASSUME AdapterInv, NEW c \in Calls, NEW e, NEW h, AttachTo(c, e, h),
           e \in Stations => Own(channel', call', c, h)
    PROVE  Entries
<1> DEFINE m == Attach(maps[c], e, h)
<1>1. maps[c] \in Maps /\ maps' = [maps EXCEPT ![c] = m]
  BY DEF AttachTo, AdapterInv, AdapterTypeOK
<1>2. \A x \in Stations : m.channel[x] = IF x = e THEN h ELSE maps[c].channel[x]
  BY <1>1, AttachEntry, LocalValues
<1> HIDE DEF m
<1>3. ASSUME NEW x \in Stations
      PROVE  \/ m.channel[x] \in {None, maps[c].channel[x]}
             \/ Own(channel', call', c, m.channel[x])
  <2>1. CASE x = e
    <3>1. m.channel[x] = h /\ Own(channel', call', c, h)
      BY <1>2, <2>1
    <3> QED
      BY <3>1
  <2>2. CASE x # e
    BY <1>2, <2>2
  <2> QED
    BY <2>1, <2>2
<1> QED
  BY <1>1, <1>3, MapEntries

LEMMA PopEntry ==
    ASSUME NEW m, NEW E, NEW h, NEW x \in Extensions
    PROVE  Pop(m, E, h).channel[x] \in {None, m.channel[x]}
BY DEF Pop

LEMMA ForgetEntries ==
    ASSUME AdapterInv, NEW h, Forget(h)
    PROVE  Entries
<1>1. CASE UNCHANGED adapterVars
  BY <1>1, SameEntries DEF adapterVars
<1>2. ASSUME NEW c \in Calls, NEW e \in Extensions,
             maps' = [maps EXCEPT ![c] = Pop(@, {e}, h)]
      PROVE  Entries
  <2>1. \A x \in Stations : Pop(maps[c], {e}, h).channel[x] \in {None, maps[c].channel[x]}
    BY PopEntry, LocalValues
  <2> QED
    BY <1>2, <2>1, MapEntries
<1> QED
  BY <1>1, <1>2 DEF Forget

LEMMA UnmapEntries ==
    ASSUME AdapterInv, NEW c \in Calls, NEW h, Unmap(c, h) \/ UnmapCall(c)
    PROVE  Entries
<1>1. \A x \in Stations : Unmapped(c, h).channel[x] \in {None, maps[c].channel[x]}
  BY PopEntry, LocalValues DEF Unmapped
<1>2. \A x \in Stations : NoMaps.channel[x] = None
  BY LocalValues DEF NoMaps
<1> QED
  BY <1>1, <1>2, MapEntries DEF Unmap, UnmapCall

-----------------------------------------------------------------------------
(* Transactions of every step: no call loses its controller, and a step that  *)
(* gives a row a channel is one of seven.                                     *)

LEMMA RequestWrites ==
    ASSUME IInv, NEW r \in Requests, Arrival(r) \/ RequestStep(r)
    PROVE  /\ Births
           /\ RowsKeep \/ BindSource(r) \/ MarkLeg(r) \/ Repoint(r) \/ Recover(r)
<1>1. /\ StoreTypeOK /\ r \in Tasks /\ task[r] \in Task /\ LocalsInv(channel, task[r])
  BY LocalsOf, Requests_ DEF IInv
<1>2. CASE InitiateCall(r)
  <2>1. PICK c \in Absent :
          IF task[r].kind = "call_stations"
          THEN InitiateConference(c, task[r].ctl, task[r].todo)
          ELSE Initiate(c, task[r].ctl, task[r].ext)
    BY <1>2 DEF InitiateCall
  <2> QED
    BY <1>1, <2>1, CreateMoves DEF InitiateConference, Initiate
<1>3. CASE BindSource(r)
  BY <1>1, <1>3, BindMoves DEF BindSource
<1>4. CASE RetireCall(r) \/ FailCall(r) \/ PromoteCall(r)
  BY <1>1, <1>4, RetireMoves, CallMoves, SameStore DEF RetireCall, FailCall, PromoteCall
<1>5. CASE Enroll(r)
  <2>1. task[r].call \in Calls /\ task[r].ext \in Stations
    BY <1>1, <1>5 DEF Enroll, At, LocalsInv, Callless, Placing
  <2> QED
    BY <1>1, <1>5, <2>1, AddParticipantMoves, SameStore DEF Enroll
<1>6. CASE ReopenLeg(r)
  <2>1. task[r].call \in Calls
    BY <1>1, <1>6 DEF ReopenLeg, At, LocalsInv, Callless
  <2> QED
    BY <1>1, <1>6, <2>1, CloseMoves DEF ReopenLeg
<1>7. CASE MarkLeg(r)
  BY <1>1, <1>7, SameStore, MarkBirths DEF MarkLeg
<1>8. CASE Repoint(r) \/ Recover(r) \/ Settle(r)
  BY <1>1, <1>8, SameStore, BindMoves, RemoveParticipantMoves
  DEF Repoint, Recover, Settle
<1>9. CASE Arrival(r)
  BY <1>9, SameStore
  DEF Arrival, CallStation, CallStations, ConferenceLookup, ParticipantAction
<1>10. CASE \/ Route(r) \/ RouteStations(r) \/ Rehydrate(r) \/ DropSource(r)
            \/ OutOfCalls(r) \/ DialSource(r) \/ SourceDialed(r)
  BY <1>10, SameStore
  DEF Route, RouteStations, Rehydrate, DropSource, OutOfCalls, DialSource,
      SourceDialed, storeVars
<1>11. CASE \/ Connect(r) \/ AddSource(r) \/ AttachLeg(r) \/ FindSource(r)
            \/ \E e \in Stations : RingParticipant(r, e)
            \/ ParticipantRung(r)
  BY <1>11, SameStore
  DEF Connect, AddSource, AttachLeg, FindSource, RingParticipant, ParticipantRung,
      storeVars
<1>12. CASE Locate(r) \/ Act(r) \/ Operate(r) \/ ForgetChannel(r) \/ LookupFails(r)
  BY <1>12, SameStore DEF Locate, Act, Operate, ForgetChannel, LookupFails, storeVars
<1> QED
  BY <1>2, <1>3, <1>4, <1>5, <1>6, <1>7, <1>8, <1>9, <1>10, <1>11, <1>12
  DEF RequestStep

\* The row that the StasisStart of h is about, and its call.
LEMMA EnteredCall ==
    ASSUME IInv, NEW h \in Channels, SourceEntered(h) \/ CalleeEntered(h)
    PROVE  /\ channel[h].call \in Calls /\ channel' = channel
           /\ SourceEntered(h) =>
                MarkConnected(channel[h].call, call[channel[h].call].source, h)
           /\ CalleeEntered(h) =>
                \/ UNCHANGED storeVars
                \/ /\ ~Collides(channel[h].call, channel[h].ext, h)
                   /\ MarkConnected(channel[h].call, channel[h].ext, h)
BY DEF IInv, AsteriskInv, SourceEntered, CalleeEntered, Receives

LEMMA HandlerWrites ==
    ASSUME IInv, HandlerStep
    PROVE  /\ Births
           /\ \/ RowsKeep \/ JoinInbound
              \/ \E h \in Channels : SourceEntered(h) \/ CalleeEntered(h)
<1>1. StoreTypeOK
  BY DEF IInv
<1>2. CASE \E h \in Channels : SourceEntered(h) \/ CalleeEntered(h)
  BY <1>1, <1>2, EnteredCall, MarkBirths, SameStore
<1>3. ASSUME NEW h \in Channels, InboundEntered(h)
      PROVE  Births /\ RowsKeep
  <2>1. channel[h].ext \in Stations
    BY <1>3 DEF IInv, InboundEntered, AsteriskInv
  <2> QED
    BY <1>1, <1>3, <2>1, AddParticipantMoves, SameStore DEF InboundEntered
<1>4. CASE \E h \in Channels :
             (\E type \in EventType : StateChanged(type, h)) \/ LegEnded(h)
  BY <1>1, <1>4, SameStore, LegStateMoves, CloseMoves DEF StateChanged, LegEnded
<1>5. CASE JoinInbound
  BY <1>1, <1>5, SameStore, MarkBirths DEF JoinInbound
<1>6. CASE \/ \E e \in Stations : RingParticipant(Handler, e)
           \/ ParticipantRung(Handler) \/ ForgetChannel(Handler) \/ AnswerInbound
           \/ MakeBridge \/ AddToBridge \/ BridgeAdded \/ BridgeFailed
           \/ RejectInbound \/ Cleanup \/ Teardown
  BY <1>6, SameStore
  DEF RingParticipant, ParticipantRung, ForgetChannel, AnswerInbound, MakeBridge,
      AddToBridge, BridgeAdded, BridgeFailed, RejectInbound, Cleanup, Teardown, storeVars
<1> QED
  BY <1>2, <1>3, <1>4, <1>5, <1>6 DEF HandlerStep

\* What a step gives a row, if it gives one a channel.
Writes ==
    \/ RowsKeep \/ JoinInbound
    \/ \E h \in Channels : SourceEntered(h) \/ CalleeEntered(h)
    \/ \E r \in Requests : BindSource(r) \/ MarkLeg(r) \/ Repoint(r) \/ Recover(r)

LEMMA NextWrites ==
    ASSUME IInv, [Next]_vars
    PROVE  Births /\ Writes
<1>1. CASE HandlerStep
  BY <1>1, HandlerWrites DEF Writes
<1>2. CASE \E r \in Requests : Arrival(r) \/ RequestStep(r)
  BY <1>2, RequestWrites DEF Writes
<1>3. CASE UNCHANGED storeVars
  BY <1>3, SameStore DEF Writes
<1> QED
  BY <1>1, <1>2, <1>3 DEF Next, Phone, Restart, vars

-----------------------------------------------------------------------------
(* While rows expire, what a station's row is given is a channel of its call. *)

LEMMA LocalOwn ==
    ASSUME IInv, OwnInv, NEW t \in Tasks, Roles, Births
    PROVE  /\ task[t].pc \in {"rehydrate", "attach_leg", "add_source"} /\ task[t].old # None
                => Own(channel', call', task[t].call, task[t].old)
           /\ task[t].pc \in {"rung", "mark", "answer", "join"}
                => Own(channel', call', task[t].call, task[t].chan)
<1>1. LocalsInv(channel, task[t]) /\ OwnLocals(channel, call, task[t])
  BY DEF IInv, TasksInv, OwnInv
<1>2. OwnLocals(channel', call', task[t])
  BY <1>1, OwnLocalsStable DEF IInv, OwnInv
<1> QED
  BY <1>2 DEF OwnLocals

LEMMA MarkLegMoves ==
    ASSUME IInv, OwnInv, NEW r \in Requests, MarkLeg(r), Roles, Births
    PROVE  Pointers
<1> DEFINE c == task[r].call
           e == task[r].ext
           h == task[r].chan
<1>1. /\ StoreTypeOK /\ r \in Tasks /\ task[r].pc = "mark" /\ c \in Calls
  BY LocalsOf, Requests_ DEF IInv, MarkLeg, At, LocalsInv, Callless
<1>2. CASE UNCHANGED storeVars
  BY <1>2, SameStore, KeepsPointers
<1>3. CASE MarkRinging(c, e, h)
  <2>1. Own(channel', call', c, h)
    BY <1>1, LocalOwn
  <2>2. \/ RowsKeep
        \/ RowsKeepBut(c, e) /\ (e \in Extensions => leg'[c][e].channel = h)
    BY <1>1, <1>3, MarkRingingMoves
  <2> QED
    BY <2>1, <2>2, KeepsPointers, WritePointers, LocalValues
<1> QED
  BY <1>2, <1>3 DEF MarkLeg

LEMMA EnteredMoves ==
    ASSUME IInv, NEW h \in Channels, SourceEntered(h) \/ CalleeEntered(h)
    PROVE  Pointers
<1> DEFINE c == channel[h].call
           e == channel[h].ext
           s == call[c].source
<1>1. StoreTypeOK /\ c \in Calls /\ channel' = channel
  BY EnteredCall DEF IInv
<1>2. CASE SourceEntered(h)
  <2>1. s \notin Stations
    BY <1>1, TypesAssumption DEF StoreTypeOK, CallRow, Maybe
  <2>2. RowsKeepBut(c, s)
    BY <1>1, <1>2, EnteredCall, MarkConnectedMoves
  <2> QED
    BY <2>1, <2>2, WritePointers
<1>3. CASE CalleeEntered(h)
  <2>1. Own(channel', call', c, h)
    BY <1>1, <1>3 DEF CalleeEntered, Own
  <2>2. \/ UNCHANGED storeVars
        \/ RowsKeepBut(c, e) /\ (e \in Extensions => leg'[c][e].channel = h)
    BY <1>1, <1>3, EnteredCall, MarkConnectedMoves
  <2> QED
    BY <2>1, <2>2, SameStore, KeepsPointers, WritePointers, LocalValues
<1> QED
  BY <1>2, <1>3

LEMMA JoinInboundMoves ==
    ASSUME IInv, OwnInv, JoinInbound, Roles, Births
    PROVE  Pointers
<1> DEFINE c == task[Handler].call
           e == task[Handler].ext
           h == task[Handler].chan
<1>1. /\ StoreTypeOK /\ Handler \in Tasks /\ task[Handler].pc = "join" /\ c \in Calls
  BY HandlerTask DEF IInv, JoinInbound, At, LocalsInv, Callless
<1>2. CASE UNCHANGED storeVars
  BY <1>2, SameStore, KeepsPointers
<1>3. CASE MarkConnected(c, e, h)
  <2>1. Own(channel', call', c, h)
    BY <1>1, LocalOwn
  <2>2. RowsKeepBut(c, e) /\ (e \in Extensions => leg'[c][e].channel = h)
    BY <1>1, <1>3, MarkConnectedMoves
  <2> QED
    BY <2>1, <2>2, WritePointers, LocalValues
<1> QED
  BY <1>2, <1>3 DEF JoinInbound

LEMMA NextMoves ==
    ASSUME IInv, OwnInv, ExpiredRows, [Next]_vars, Roles
    PROVE  Births /\ Pointers
<1>1. Births /\ Writes
  BY NextWrites
<1>2. ASSUME NEW r \in Requests, BindSource(r)
      PROVE  Pointers
  <2>1. StoreTypeOK /\ task[r].ctl \notin Stations
    BY LocalsOf, Requests_, TypesAssumption DEF IInv, Task, Maybe
  <2> QED
    BY <1>2, <2>1, BindMoves, WritePointers DEF BindSource
<1>3. ASSUME NEW r \in Requests, Repoint(r) \/ Recover(r)
      PROVE  Pointers
  BY <1>3, SameStore, KeepsPointers DEF Repoint, Recover
<1> QED
  BY <1>1, <1>2, <1>3, KeepsPointers, MarkLegMoves, EnteredMoves, JoinInboundMoves
  DEF Writes

-----------------------------------------------------------------------------
(* Maps after every step.                                                    *)

LEMMA RehydrateEntries ==
    ASSUME IInv, OwnInv, NEW r \in Requests, Rehydrate(r), Roles, Births
    PROVE  Entries
<1> DEFINE c == task[r].call
           old == task[r].old
           m1 == Attach(maps[c], task[r].ctl, task[r].chan)
           m2 == Attach(m1, channel[old].ext, old)
<1>1. /\ r \in Tasks /\ task[r].pc = "rehydrate" /\ LocalsInv(channel, task[r])
      /\ AsteriskInv /\ AdapterInv
  BY LocalsOf, Requests_ DEF IInv, Rehydrate, At
<1>2. /\ c \in Calls /\ task[r].ctl \in Controllers /\ old \in Channels
      /\ IsOf(channel, task[r].chan, task[r].ctl)
  BY <1>1 DEF LocalsInv, Callless, Routing, Used
<1>3. Own(channel', call', c, old)
  BY <1>1, <1>2, LocalOwn, TypesAssumption
<1>4. maps[c] \in Maps /\ Paired(channel, maps[c]) /\ maps' = [maps EXCEPT ![c] = m2]
  BY <1>1, <1>2 DEF Rehydrate, AdapterInv, AdapterTypeOK
<1>5. m1 \in Maps
  BY <1>2, <1>4, AttachPairs, LocalValues
<1>6. \A x \in Stations : m1.channel[x] = maps[c].channel[x]
  BY <1>2, <1>4, AttachEntry, LocalValues, TypesAssumption
<1> HIDE DEF m1
<1>7. \A x \in Extensions :
         m2.channel[x] = IF x = channel[old].ext THEN old ELSE m1.channel[x]
  BY <1>5, AttachEntry
<1> HIDE DEF m2
<1>8. ASSUME NEW x \in Stations
      PROVE  m2.channel[x] = old \/ m2.channel[x] = maps[c].channel[x]
  BY <1>6, <1>7, LocalValues
<1>9. ASSUME NEW x \in Stations
      PROVE  \/ m2.channel[x] \in {None, maps[c].channel[x]}
             \/ Own(channel', call', c, m2.channel[x])
  BY <1>3, <1>8
<1> QED
  BY <1>1, <1>2, <1>4, <1>9, MapEntries

\* Ringing a station attaches the controller at most.
LEMMA RingAttaches ==
    ASSUME IInv, NEW t \in Tasks, NEW e \in Stations, RingParticipant(t, e),
           NEW m, m = IF t = Handler \/ task[t].chan = None THEN maps[task[t].call]
                      ELSE Attach(maps[task[t].call], task[t].ctl, task[t].chan)
    PROVE  /\ task[t].call \in Calls
           /\ \A x \in Stations : m.channel[x] = maps[task[t].call].channel[x]
<1>1. /\ task[t] \in Task /\ LocalsInv(channel, task[t])
      /\ task[t].pc \in {"targets", "ring"}
  BY LocalsOf DEF IInv, RingParticipant, At
<1>2. task[t].call \in Calls /\ task[t].ctl \notin Stations
  BY <1>1, TypesAssumption DEF LocalsInv, Callless, Task, Maybe
<1>3. maps[task[t].call] \in Maps
  BY <1>2 DEF IInv, AdapterInv, AdapterTypeOK
<1> QED
  BY <1>2, <1>3, AttachEntry, LocalValues

LEMMA RingEntries ==
    ASSUME IInv, NEW t \in Tasks, NEW e \in Stations, RingParticipant(t, e)
    PROVE  Entries
<1>1. PICK m : m = IF t = Handler \/ task[t].chan = None THEN maps[task[t].call]
                   ELSE Attach(maps[task[t].call], task[t].ctl, task[t].chan)
  OBVIOUS
<1>2. maps' = [maps EXCEPT ![task[t].call] = m]
  BY <1>1 DEF RingParticipant
<1>3. /\ task[t].call \in Calls
      /\ \A x \in Stations : m.channel[x] = maps[task[t].call].channel[x]
  BY <1>1, RingAttaches
<1>4. \A x \in Stations : m.channel[x] \in {None, maps[task[t].call].channel[x]}
  BY <1>3
<1>5. AdapterInv
  BY DEF IInv
<1> QED
  BY <1>2, <1>3, <1>4, <1>5, MapEntries

LEMMA RungEntries ==
    ASSUME IInv, OwnInv, NEW t \in Tasks, ParticipantRung(t), Roles, Births
    PROVE  Entries
<1>1. AdapterInv /\ task[t].pc = "rung" /\ task[t].call \in Calls
  BY LocalsOf DEF IInv, ParticipantRung, At, LocalsInv, Callless
<1>2. Own(channel', call', task[t].call, task[t].chan)
  BY <1>1, LocalOwn
<1> QED
  BY <1>1, <1>2, AttachToEntries DEF ParticipantRung

LEMMA RequestEntries ==
    ASSUME IInv, OwnInv, NEW r \in Requests, Arrival(r) \/ RequestStep(r), Roles, Births
    PROVE  Entries
<1>1. /\ AdapterInv /\ r \in Tasks /\ task[r] \in Task /\ LocalsInv(channel, task[r])
  BY LocalsOf, Requests_ DEF IInv
<1>2. task[r].ctl \notin Stations
  BY <1>1, TypesAssumption DEF Task, Maybe
<1>3. CASE Rehydrate(r)
  BY <1>3, RehydrateEntries
<1>4. CASE SourceDialed(r) \/ AddSource(r)
  <2>1. task[r].call \in Calls
    BY <1>1, <1>4 DEF SourceDialed, AddSource, At, LocalsInv, Callless
  <2> QED
    BY <1>1, <1>2, <1>4, <2>1, AttachToEntries, SameEntries
    DEF SourceDialed, AddSource, adapterVars
<1>5. CASE AttachLeg(r)
  <2>1. task[r].pc = "attach_leg" /\ task[r].call \in Calls /\ task[r].old \in Channels
    BY <1>1, <1>5 DEF AttachLeg, At, LocalsInv, Callless, IsOf, Used
  <2>2. Own(channel', call', task[r].call, task[r].old)
    BY <1>1, <2>1, LocalOwn, TypesAssumption
  <2> QED
    BY <1>1, <1>5, <2>1, <2>2, AttachToEntries DEF AttachLeg
<1>6. CASE (\E e \in Stations : RingParticipant(r, e)) \/ ParticipantRung(r)
  BY <1>1, <1>6, RingEntries, RungEntries
<1>7. CASE ForgetChannel(r)
  BY <1>1, <1>7, ForgetEntries DEF ForgetChannel
<1>8. CASE Arrival(r)
  BY <1>8, SameEntries
  DEF Arrival, CallStation, CallStations, ConferenceLookup, ParticipantAction,
      adapterVars
<1>9. CASE \/ Route(r) \/ RouteStations(r) \/ RetireCall(r) \/ DropSource(r)
           \/ OutOfCalls(r) \/ InitiateCall(r) \/ DialSource(r) \/ BindSource(r)
           \/ FailCall(r)
  BY <1>9, SameEntries
  DEF Route, RouteStations, RetireCall, DropSource, OutOfCalls, InitiateCall,
      DialSource, BindSource, FailCall, adapterVars
<1>10. CASE \/ Connect(r) \/ PromoteCall(r) \/ Enroll(r) \/ ReopenLeg(r)
            \/ FindSource(r) \/ MarkLeg(r)
  BY <1>10, SameEntries
  DEF Connect, PromoteCall, Enroll, ReopenLeg, FindSource, MarkLeg, adapterVars
<1>11. CASE \/ Locate(r) \/ Repoint(r) \/ Act(r) \/ Recover(r) \/ Operate(r)
            \/ Settle(r) \/ LookupFails(r)
  BY <1>11, SameEntries
  DEF Locate, Repoint, Act, Recover, Operate, Settle, LookupFails, adapterVars
<1> QED
  BY <1>3, <1>4, <1>5, <1>6, <1>7, <1>8, <1>9, <1>10, <1>11 DEF RequestStep

LEMMA HandlerEntries ==
    ASSUME IInv, OwnInv, HandlerStep, Roles, Births
    PROVE  Entries
<1>1. /\ AdapterInv /\ Handler \in Tasks /\ LocalsInv(channel, task[Handler])
  BY HandlerTask DEF IInv
<1>2. CASE \/ \E e \in Stations : RingParticipant(Handler, e)
           \/ ParticipantRung(Handler)
  BY <1>1, <1>2, RingEntries, RungEntries
<1>3. CASE ForgetChannel(Handler)
  BY <1>1, <1>3, ForgetEntries DEF ForgetChannel
<1>4. CASE AnswerInbound
  <2>1. task[Handler].pc = "answer" /\ task[Handler].call \in Calls
    BY <1>1, <1>4 DEF AnswerInbound, At, LocalsInv, Callless
  <2>2. Own(channel', call', task[Handler].call, task[Handler].chan)
    BY <1>1, <2>1, LocalOwn
  <2> QED
    BY <1>1, <1>4, <2>1, <2>2, AttachToEntries DEF AnswerInbound
<1>5. CASE Cleanup
  <2>1. task[Handler].call \in Calls
    BY <1>1, <1>5 DEF Cleanup, At, LocalsInv, Callless
  <2> QED
    BY <1>1, <1>5, <2>1, UnmapEntries DEF Cleanup
<1>6. CASE \E h \in Channels :
             \/ SourceEntered(h) \/ CalleeEntered(h) \/ InboundEntered(h)
             \/ \E type \in EventType : StateChanged(type, h)
             \/ LegEnded(h)
  BY <1>6, SameEntries
  DEF SourceEntered, CalleeEntered, InboundEntered, StateChanged, LegEnded, adapterVars
<1>7. CASE \/ JoinInbound \/ MakeBridge \/ AddToBridge \/ BridgeAdded \/ BridgeFailed
           \/ RejectInbound \/ Teardown
  BY <1>7, SameEntries
  DEF JoinInbound, MakeBridge, AddToBridge, BridgeKnown, BridgeAdded, BridgedNow,
      BridgeFailed, BridgeForgotten, RejectInbound, Teardown, adapterVars
<1> QED
  BY <1>2, <1>3, <1>4, <1>5, <1>6, <1>7 DEF HandlerStep

LEMMA NextEntries ==
    ASSUME IInv, OwnInv, [Next]_vars, Roles, Births
    PROVE  Entries
<1>1. CASE Restart
  BY <1>1, LocalValues DEF Restart, NoMaps, Entries
<1>2. CASE \E h \in Channels : Phone(h)
  BY <1>2, SameEntries DEF Phone, adapterVars
<1>3. CASE UNCHANGED vars
  BY <1>3, SameEntries DEF vars, adapterVars
<1> QED
  BY <1>1, <1>2, <1>3, RequestEntries, HandlerEntries DEF Next

-----------------------------------------------------------------------------
(* What the tasks carry along.                                               *)

\* Where the channel that a task holds will be taken for one of the call.
Taking == {"route_stations", "rehydrate", "attach_leg", "add_source", "rung", "mark",
           "answer", "join"}

LEMMA CarriedMove ==
    ASSUME TasksInv, NEW t \in Tasks, NEW k, Becomes(t, k),
           k.pc \in Taking => OwnLocals(channel', call', k)
    PROVE  Carried
<1>1. \A u \in Tasks : task'[u] = IF u = t THEN k ELSE task[u]
  BY DEF Becomes, TasksInv
<1>2. OwnLocals(channel', call', k)
  BY DEF OwnLocals, Taking
<1> QED
  BY <1>1, <1>2 DEF Carried

LEMMA CarriedQuiet ==
    ASSUME NEW t \in Tasks, \A u \in Tasks \ {t} : task'[u] = task[u],
           task'[t].pc \notin Taking
    PROVE  Carried
BY DEF Carried, OwnLocals, Taking

LEMMA CarriedStill ==
    ASSUME UNCHANGED task
    PROVE  Carried
BY DEF Carried

LEMMA CarriedGoto ==
    ASSUME TasksInv, NEW t \in Tasks, NEW l, l \notin Taking, Goto(t, l)
    PROVE  Carried
<1> DEFINE k == [task[t] EXCEPT !.pc = l]
<1>1. k.pc = l
  BY LocalsOf DEF Task
<1>2. Becomes(t, k)
  BY DEF Goto
<1> HIDE DEF k
<1> QED
  BY <1>1, <1>2, CarriedMove

LEMMA CarriedFinish ==
    ASSUME TasksInv, NEW t \in Tasks, Finish(t)
    PROVE  Carried
<1> DEFINE l == IF t = Handler THEN "idle" ELSE "done"
<1>1. Resting(l).pc = l /\ l \notin Taking
  BY DEF Resting, Taking
<1>2. Becomes(t, Resting(l))
  BY DEF Finish
<1> HIDE DEF l
<1> QED
  BY <1>1, <1>2, CarriedMove

LEMMA CarriedNotFound ==
    ASSUME TasksInv, NEW t \in Tasks, NotFound(t)
    PROVE  Carried
<1> DEFINE k == [task[t] EXCEPT !.pc = "initiate", !.call = None, !.chan = None]
<1>1. k.pc = "initiate" /\ "initiate" \notin Taking
  BY LocalsOf DEF Task, Taking
<1>2. Becomes(t, k) \/ Finish(t)
  BY DEF NotFound
<1> HIDE DEF k
<1> QED
  BY <1>1, <1>2, CarriedMove, CarriedFinish

LEMMA CarriedRaised ==
    ASSUME TasksInv, Raised("reject")
    PROVE  Carried
BY CarriedGoto, CarriedFinish DEF Raised, Taking, Tasks

LEMMA CarriedArrival ==
    ASSUME IInv, NEW r \in Requests, Arrival(r)
    PROVE  Carried
<1>1. r \in Tasks /\ TasksInv /\ task[r] \in Task
  BY LocalsOf, Requests_ DEF IInv
<1>2. CASE \/ \E e \in Stations : CallStation(r, e)
           \/ \E s \in Controllers : ConferenceLookup(r, s)
  <2>1. /\ \A u \in Tasks \ {r} : task'[u] = task[u]
        /\ task'[r].pc = "route"
    <3>1. CASE \E e \in Stations : CallStation(r, e)
      BY <1>1, <3>1 DEF CallStation, Becomes, TasksInv, Task
    <3>2. CASE \E s \in Controllers : ConferenceLookup(r, s)
      BY <1>1, <3>2 DEF ConferenceLookup, Becomes, TasksInv, Task
    <3> QED
      BY <1>2, <3>1, <3>2
  <2> QED
    BY <1>1, <2>1, CarriedQuiet DEF Taking
<1>3. CASE \E T \in SUBSET Stations : CallStations(r, T)
  <2>1. /\ \A u \in Tasks \ {r} : task'[u] = task[u]
        /\ task'[r].pc = "initiate"
    BY <1>1, <1>3 DEF CallStations, Becomes, TasksInv, Task
  <2> QED
    BY <1>1, <2>1, CarriedQuiet DEF Taking
<1>4. CASE \E e \in Stations, a \in Actions : ParticipantAction(r, e, a)
  <2>1. /\ \A u \in Tasks \ {r} : task'[u] = task[u]
        /\ task'[r].pc = "locate"
    BY <1>1, <1>4 DEF ParticipantAction, Becomes, TasksInv, Task
  <2> QED
    BY <1>1, <2>1, CarriedQuiet DEF Taking
<1> QED
  BY <1>2, <1>3, <1>4 DEF Arrival

\* The conference lookup ends where it reads the row that the rollback expired.
LEMMA CarriedRoute ==
    ASSUME IInv, ExpiredRows, NEW r \in Requests, Route(r)
    PROVE  Carried
<1>1. r \in Tasks /\ TasksInv /\ task[r] \in Task
  BY LocalsOf, Requests_ DEF IInv
<1>2. ASSUME NEW c \in Calls, task[r].kind # "conference_lookup",
             Becomes(r, [task[r] EXCEPT !.pc = "route_stations", !.call = c,
                                        !.chan = OnlyLiveAt(task[r].ctl)])
      PROVE  Carried
  <2> DEFINE h == OnlyLiveAt(task[r].ctl)
             k == [task[r] EXCEPT !.pc = "route_stations", !.call = c, !.chan = h]
  <2> HIDE DEF h
  <2>1. Becomes(r, k)
    BY <1>2 DEF h
  <2>2. k.pc = "route_stations" /\ k.kind # "conference_lookup"
    BY <1>1, <1>2 DEF Task
  <2>3. OwnLocals(channel', call', k)
    BY <2>2 DEF OwnLocals
  <2> QED
    BY <1>1, <2>1, <2>3, CarriedMove
<1> QED
  BY <1>1, <1>2, CarriedNotFound, CarriedFinish DEF Route

\* So the station found live is the one the row points at.
LEMMA CarriedRouteStations ==
    ASSUME IInv, OwnInv, NEW r \in Requests, RouteStations(r), Roles, Births
    PROVE  Carried
<1>1. /\ r \in Tasks /\ TasksInv /\ task[r] \in Task /\ LocalsInv(channel, task[r])
      /\ task[r].pc = "route_stations" /\ OwnLocals(channel, call, task[r])
  BY LocalsOf, Requests_ DEF IInv, RouteStations, At, OwnInv
<1>2. ASSUME NEW e \in OpenLegs(task[r].call), LiveLeg(r, e) # None,
             Becomes(r, [task[r] EXCEPT !.pc = "rehydrate", !.old = LiveLeg(r, e)])
      PROVE  Carried
  <2> DEFINE h == LiveLeg(r, e)
             k == [task[r] EXCEPT !.pc = "rehydrate", !.old = h]
  <2>1. task[r].kind # "conference_lookup"
    BY <1>1 DEF OwnLocals
  <2>2. e \in Stations /\ task[r].call \in Calls
    BY <1>1 DEF OpenLegs, LocalsInv, Callless
  <2>3. leg[task[r].call][e].channel = h /\ h # None
    BY <1>2, <2>1 DEF LiveLeg
  <2>4. Own(channel', call', task[r].call, h)
    BY <2>2, <2>3, OwnStable DEF OwnInv, IInv
  <2>5. Becomes(r, k)
    BY <1>2
  <2> HIDE DEF h
  <2>6. k.pc = "rehydrate" /\ k.kind = task[r].kind /\ k.call = task[r].call /\ k.old = h
    BY <1>1 DEF Task
  <2>7. OwnLocals(channel', call', k)
    BY <2>1, <2>4, <2>6 DEF OwnLocals
  <2> QED
    BY <1>1, <2>5, <2>7, CarriedMove
<1> QED
  BY <1>1, <1>2, CarriedGoto, CarriedFinish DEF RouteStations, Taking

LEMMA CarriedRouting ==
    ASSUME IInv, NEW r \in Requests,
           \/ Rehydrate(r) \/ RetireCall(r) \/ DropSource(r) \/ OutOfCalls(r)
           \/ InitiateCall(r) \/ DialSource(r) \/ SourceDialed(r) \/ BindSource(r)
           \/ FailCall(r)
    PROVE  Carried
<1>1. r \in Tasks /\ TasksInv /\ task[r] \in Task
  BY LocalsOf, Requests_ DEF IInv
<1>2. \/ /\ \A u \in Tasks \ {r} : task'[u] = task[u]
         /\ task'[r].pc \in {"connect", "forget", "dial", "dialed"}
      \/ \E l \in {"drop_source", "fail", "bind"} : Goto(r, l)
      \/ NotFound(r) \/ Finish(r)
  <2>1. CASE Rehydrate(r) \/ RetireCall(r) \/ DropSource(r)
    BY <1>1, <2>1, ZenonT(60) DEF Rehydrate, RetireCall, DropSource, Becomes, TasksInv, Task
  <2>2. CASE OutOfCalls(r) \/ InitiateCall(r) \/ DialSource(r)
    BY <1>1, <2>2 DEF OutOfCalls, InitiateCall, DialSource, Becomes, TasksInv, Task
  <2>3. CASE SourceDialed(r) \/ BindSource(r) \/ FailCall(r)
    BY <2>3 DEF SourceDialed, BindSource, FailCall
  <2> QED
    BY <2>1, <2>2, <2>3
<1> QED
  BY <1>1, <1>2, CarriedQuiet, CarriedGoto, CarriedNotFound, CarriedFinish DEF Taking

\* The leg that a connect goes on with is the one the row points at.
LEMMA CarriedPursue ==
    ASSUME TasksInv, NEW r \in Tasks, NEW h, NEW next \in {"find_source", "ring"},
           NEW chan, Pursue(r, h, next, chan),
           h # None => Own(channel', call', task[r].call, h)
    PROVE  Carried
<1> DEFINE pc == IF h = None THEN next
                 ELSE IF LiveAs(h, task[r].ext) THEN "attach_leg" ELSE "reopen"
           k == [task[r] EXCEPT !.old = h, !.chan = chan, !.next = next, !.pc = pc]
<1>1. Becomes(r, k)
  BY DEF Pursue
<1>2. pc \in {"find_source", "ring", "attach_leg", "reopen"}
  OBVIOUS
<1> HIDE DEF pc
<1>3. k.pc = pc /\ k.old = h /\ k.call = task[r].call
  BY LocalsOf DEF Task
<1>4. OwnLocals(channel', call', k)
  BY <1>2, <1>3 DEF OwnLocals
<1> QED
  BY <1>1, <1>4, CarriedMove

LEMMA CarriedConnect ==
    ASSUME IInv, OwnInv, NEW r \in Requests, Connect(r), Roles, Births
    PROVE  Carried
<1> DEFINE h == leg[task[r].call][task[r].ext].channel
<1>1. /\ r \in Tasks /\ TasksInv
      /\ task[r].call \in Calls /\ task[r].ext \in Stations
  BY LocalsOf, Requests_ DEF IInv, Connect, At, LocalsInv, Callless, Placing
<1>2. h # None => Own(channel', call', task[r].call, h)
  BY <1>1, OwnStable DEF OwnInv, IInv
<1>3. Goto(r, "promote") \/ Pursue(r, h, "find_source", None) \/ Finish(r)
  BY DEF Connect
<1> QED
  BY <1>1, <1>2, <1>3, CarriedGoto, CarriedFinish, CarriedPursue DEF Taking

LEMMA CarriedEnroll ==
    ASSUME IInv, OwnInv, NEW r \in Requests, Enroll(r), Roles, Births
    PROVE  Carried
<1> DEFINE c == task[r].call
           h == leg[c][task[r].ext].channel
           s == call[c].source
           g == OnlyLiveAt(s)
           k == [task[r] EXCEPT !.pc = "add_source", !.old = h, !.chan = g, !.ctl = s]
<1>1. /\ r \in Tasks /\ TasksInv /\ task[r] \in Task
      /\ c \in Calls /\ task[r].ext \in Stations
  BY LocalsOf, Requests_ DEF IInv, Enroll, At, LocalsInv, Callless, Placing
<1>2. h # None => Own(channel', call', c, h)
  BY <1>1, OwnStable DEF OwnInv, IInv
<1>3. Becomes(r, k) \/ Finish(r)
  BY DEF Enroll
<1> HIDE DEF h, s, g
<1>4. k.pc = "add_source" /\ k.old = h /\ k.call = c
  BY <1>1 DEF Task
<1>5. OwnLocals(channel', call', k)
  BY <1>2, <1>4 DEF OwnLocals
<1> QED
  BY <1>1, <1>3, <1>5, CarriedMove, CarriedFinish

LEMMA CarriedAddSource ==
    ASSUME IInv, OwnInv, NEW r \in Requests, AddSource(r), Roles, Births
    PROVE  Carried
<1>1. r \in Tasks /\ TasksInv /\ task[r].pc = "add_source"
  BY Requests_ DEF IInv, AddSource, At
<1>2. task[r].old # None => Own(channel', call', task[r].call, task[r].old)
  BY <1>1, LocalOwn
<1>3. PICK chan : Pursue(r, task[r].old, "ring", chan)
  BY DEF AddSource
<1> QED
  BY <1>1, <1>2, <1>3, CarriedPursue

LEMMA CarriedRing ==
    ASSUME IInv, OwnInv, NEW t \in Tasks, NEW e \in Stations, RingParticipant(t, e),
           Roles, Births
    PROVE  Carried
<1> DEFINE c == task[t].call
           left == task[t].todo \ {e}
<1>1. PICK m : m = IF t = Handler \/ task[t].chan = None THEN maps[c]
                   ELSE Attach(maps[c], task[t].ctl, task[t].chan)
  OBVIOUS
<1>2. /\ c \in Calls /\ m.channel[e] = maps[c].channel[e]
      /\ TasksInv /\ task[t] \in Task /\ AsteriskInv
      /\ t = Handler => task[t].pc = "targets"
  BY <1>1, RingAttaches, LocalsOf DEF IInv, RingParticipant, At
<1>3. ASSUME m.channel[e] # None,
             Becomes(t, [task[t] EXCEPT !.pc = "mark", !.chan = m.channel[e]])
      PROVE  Carried
  <2> DEFINE h == m.channel[e]
             k == [task[t] EXCEPT !.pc = "mark", !.chan = h]
  <2>1. Own(channel', call', c, h)
    BY <1>2, <1>3, OwnStable DEF OwnInv
  <2>2. Becomes(t, k)
    BY <1>3
  <2> HIDE DEF h
  <2>3. k.pc = "mark" /\ k.chan = h /\ k.call = c
    BY <1>2 DEF Task
  <2>4. OwnLocals(channel', call', k)
    BY <2>1, <2>3 DEF OwnLocals
  <2> QED
    BY <1>2, <2>2, <2>4, CarriedMove
<1>4. ASSUME NEW h, Dials(h, e, "callee", c),
             Becomes(t, [task[t] EXCEPT !.pc = "rung", !.chan = h, !.ext = e,
                                        !.todo = left])
      PROVE  Carried
  <2> DEFINE k == [task[t] EXCEPT !.pc = "rung", !.chan = h, !.ext = e, !.todo = left]
  <2>1. Own(channel', call', c, h)
    BY <1>2, <1>4, DialsRoles DEF Own
  <2>2. Becomes(t, k)
    BY <1>4
  <2> HIDE DEF left
  <2>3. k.pc = "rung" /\ k.chan = h /\ k.call = c
    BY <1>2 DEF Task
  <2>4. OwnLocals(channel', call', k)
    BY <2>1, <2>3 DEF OwnLocals
  <2> QED
    BY <1>2, <2>2, <2>4, CarriedMove
<1>5. ASSUME t = Handler, Becomes(t, [task[t] EXCEPT !.todo = left])
      PROVE  Carried
  <2> DEFINE k == [task[t] EXCEPT !.todo = left]
  <2> HIDE DEF left
  <2>1. Becomes(t, k) /\ k.pc = "targets"
    BY <1>2, <1>5 DEF Task, left
  <2> QED
    BY <1>2, <2>1, CarriedMove DEF Taking
<1>6. \/ Finish(t)
      \/ /\ m.channel[e] # None
         /\ Becomes(t, [task[t] EXCEPT !.pc = "mark", !.chan = m.channel[e]])
      \/ t = Handler /\ Becomes(t, [task[t] EXCEPT !.todo = left])
      \/ \E h \in Channels :
           /\ Dials(h, e, "callee", c)
           /\ Becomes(t, [task[t] EXCEPT !.pc = "rung", !.chan = h, !.ext = e,
                                         !.todo = left])
  BY <1>1 DEF RingParticipant, Existing
<1> QED
  BY <1>2, <1>3, <1>4, <1>5, <1>6, CarriedFinish

LEMMA CarriedRung ==
    ASSUME IInv, OwnInv, NEW t \in Tasks, ParticipantRung(t), Roles, Births
    PROVE  Carried
<1>1. TasksInv /\ task[t] \in Task /\ task[t].pc = "rung"
  BY LocalsOf DEF IInv, ParticipantRung, At
<1>2. Own(channel', call', task[t].call, task[t].chan)
  BY <1>1, LocalOwn
<1>3. ASSUME Goto(t, "mark")
      PROVE  Carried
  <2> DEFINE k == [task[t] EXCEPT !.pc = "mark"]
  <2>1. Becomes(t, k)
    BY <1>3 DEF Goto
  <2>2. k.pc = "mark" /\ k.call = task[t].call /\ k.chan = task[t].chan
    BY <1>1 DEF Task
  <2>3. OwnLocals(channel', call', k)
    BY <1>2, <2>2 DEF OwnLocals
  <2> QED
    BY <1>1, <2>1, <2>3, CarriedMove
<1> QED
  BY <1>1, <1>3, CarriedGoto, CarriedFinish DEF ParticipantRung, Taking

LEMMA CarriedLocate ==
    ASSUME IInv, NEW r \in Requests, Locate(r)
    PROVE  Carried
<1> DEFINE onward == IF task[r].kind = "connect" THEN "connect" ELSE "act"
           there(c) == [task[r] EXCEPT !.pc = onward, !.call = c]
           repoint(c) == [task[r] EXCEPT !.pc = "repoint", !.call = c, !.next = onward,
                                         !.chan = Seen(c, task[r].ext)]
<1>1. r \in Tasks /\ TasksInv /\ task[r] \in Task
  BY LocalsOf, Requests_ DEF IInv
<1>2. \A c \in Calls : there(c).pc \notin Taking /\ repoint(c).pc \notin Taking
  BY <1>1 DEF Task, Taking
<1>3. \/ Finish(r)
      \/ \E c \in Calls : Becomes(r, there(c)) \/ Becomes(r, repoint(c))
  BY DEF Locate
<1> HIDE DEF there, repoint
<1> QED
  BY <1>1, <1>2, <1>3, CarriedMove, CarriedFinish

LEMMA CarriedActing ==
    ASSUME IInv, NEW r \in Requests,
           \/ Repoint(r) \/ Act(r) \/ Recover(r) \/ Operate(r)
           \/ ForgetChannel(r) \/ Settle(r) \/ LookupFails(r)
    PROVE  Carried
<1>1. /\ r \in Tasks /\ TasksInv /\ task[r] \in Task /\ LocalsInv(channel, task[r])
  BY LocalsOf, Requests_ DEF IInv
<1>2. CASE Repoint(r)
  <2> DEFINE k == [task[r] EXCEPT !.pc = task[r].next, !.chan = None]
  <2>1. k.pc \in {"connect", "act"}
    BY <1>1, <1>2 DEF Repoint, At, LocalsInv, Task
  <2>2. Becomes(r, k) \/ Finish(r)
    BY <1>2 DEF Repoint
  <2> HIDE DEF k
  <2> QED
    BY <1>1, <2>1, <2>2, CarriedMove, CarriedFinish DEF Taking
<1>3. CASE Act(r)
  <2> DEFINE row == leg[task[r].call][task[r].ext]
             h == IF row.channel # None THEN row.channel ELSE OnlyLiveAt(task[r].ext)
             pc == IF row.channel = h THEN "operate" ELSE "recover"
             k == [task[r] EXCEPT !.chan = h, !.pc = pc]
  <2>1. Becomes(r, k) \/ Finish(r)
    BY <1>3 DEF Act
  <2>2. pc \in {"operate", "recover"}
    OBVIOUS
  <2> HIDE DEF h, pc
  <2>3. k.pc = pc
    BY <1>1 DEF Task
  <2> HIDE DEF k
  <2> QED
    BY <1>1, <2>1, <2>2, <2>3, CarriedMove, CarriedFinish DEF Taking
<1>4. CASE Operate(r)
  <2>1. \/ /\ \A u \in Tasks \ {r} : task'[u] = task[u]
           /\ task'[r].pc \in {"recover", "forget"}
        \/ Goto(r, "settle") \/ Finish(r)
    BY <1>1, <1>4 DEF Operate, Becomes, TasksInv, Task
  <2> QED
    BY <1>1, <2>1, CarriedQuiet, CarriedGoto, CarriedFinish DEF Taking
<1>5. CASE Recover(r) \/ ForgetChannel(r) \/ Settle(r) \/ LookupFails(r)
  <2>1. Goto(r, "operate") \/ Goto(r, "settle") \/ NotFound(r) \/ Finish(r)
    BY <1>5 DEF Recover, ForgetChannel, Settle, LookupFails
  <2> QED
    BY <1>1, <2>1, CarriedGoto, CarriedNotFound, CarriedFinish DEF Taking
<1> QED
  BY <1>2, <1>3, <1>4, <1>5

LEMMA CarriedRequest ==
    ASSUME IInv, OwnInv, ExpiredRows, NEW r \in Requests, Arrival(r) \/ RequestStep(r),
           Roles, Births
    PROVE  Carried
<1>1. r \in Tasks /\ TasksInv /\ task[r] \in Task /\ LocalsInv(channel, task[r])
  BY LocalsOf, Requests_ DEF IInv
<1>2. CASE Arrival(r) \/ Route(r) \/ RouteStations(r)
  BY <1>2, CarriedArrival, CarriedRoute, CarriedRouteStations
<1>3. CASE \/ Rehydrate(r) \/ RetireCall(r) \/ DropSource(r) \/ OutOfCalls(r)
           \/ InitiateCall(r) \/ DialSource(r) \/ SourceDialed(r) \/ BindSource(r)
           \/ FailCall(r)
  BY <1>3, CarriedRouting
<1>4. CASE Connect(r) \/ Enroll(r) \/ AddSource(r)
  BY <1>4, CarriedConnect, CarriedEnroll, CarriedAddSource
<1>5. CASE (\E e \in Stations : RingParticipant(r, e)) \/ ParticipantRung(r)
  BY <1>1, <1>5, CarriedRing, CarriedRung
<1>6. CASE PromoteCall(r) \/ AttachLeg(r) \/ MarkLeg(r)
  <2>1. Goto(r, "enroll") \/ Finish(r)
    BY <1>6 DEF PromoteCall, AttachLeg, MarkLeg
  <2> QED
    BY <1>1, <2>1, CarriedGoto, CarriedFinish DEF Taking
<1>7. CASE ReopenLeg(r)
  <2>1. task[r].next \in {"find_source", "ring"}
    BY <1>1, <1>7 DEF ReopenLeg, At, LocalsInv
  <2> QED
    BY <1>1, <1>7, <2>1, CarriedGoto DEF ReopenLeg, Taking
<1>8. CASE FindSource(r)
  <2>1. \/ Finish(r)
        \/ /\ \A u \in Tasks \ {r} : task'[u] = task[u]
           /\ task'[r].pc = "ring"
    BY <1>1, <1>8 DEF FindSource, Becomes, TasksInv, Task
  <2> QED
    BY <1>1, <2>1, CarriedQuiet, CarriedFinish DEF Taking
<1>9. CASE \/ Locate(r) \/ Repoint(r) \/ Act(r) \/ Recover(r) \/ Operate(r)
           \/ ForgetChannel(r) \/ Settle(r) \/ LookupFails(r)
  BY <1>9, CarriedLocate, CarriedActing
<1> QED
  BY <1>2, <1>3, <1>4, <1>5, <1>6, <1>7, <1>8, <1>9 DEF RequestStep

\* An inbound leg joins a conference of the controller that its channel names.
LEMMA CarriedInbound ==
    ASSUME IInv, NEW h \in Channels, InboundEntered(h), Births
    PROVE  Carried
<1> DEFINE e == channel[h].ext
           local == [task[Handler] EXCEPT !.kind = "inbound", !.ext = e, !.chan = h]
<1>1. /\ Handler \in Tasks /\ TasksInv /\ task[Handler] \in Task
      /\ channel' = channel
  BY HandlerTask DEF IInv, InboundEntered, Receives
<1>2. ASSUME NEW c \in Calls, c \in ActiveConferences(channel[h].ctl),
             Becomes(Handler, [local EXCEPT !.pc = "answer", !.call = c])
      PROVE  Carried
  <2> DEFINE k == [local EXCEPT !.pc = "answer", !.call = c]
  <2>1. Becomes(Handler, k)
    BY <1>2
  <2>2. k.pc = "answer" /\ k.chan = h /\ k.call = c
    BY <1>1 DEF Task
  <2>3. channel[h].ctl = call[c].source /\ call[c].state # "absent"
    BY <1>2 DEF ActiveConferences, ActiveCalls
  <2>4. call'[c].source = call[c].source
    BY <2>3 DEF Births
  <2>5. Own(channel', call', c, h)
    BY <1>1, <2>3, <2>4 DEF InboundEntered, Own
  <2>6. OwnLocals(channel', call', k)
    BY <2>2, <2>5 DEF OwnLocals
  <2> HIDE DEF k
  <2> QED
    BY <1>1, <2>1, <2>6, CarriedMove
<1>3. ASSUME Becomes(Handler, [local EXCEPT !.pc = "reject"])
      PROVE  Carried
  <2> DEFINE k == [local EXCEPT !.pc = "reject"]
  <2>1. Becomes(Handler, k) /\ k.pc = "reject"
    BY <1>1, <1>3 DEF Task
  <2> HIDE DEF k
  <2> QED
    BY <1>1, <2>1, CarriedMove DEF Taking
<1>4. \/ Becomes(Handler, [local EXCEPT !.pc = "reject"])
      \/ \E c \in Calls : /\ c \in ActiveConferences(channel[h].ctl)
                          /\ Becomes(Handler, [local EXCEPT !.pc = "answer", !.call = c])
  BY DEF InboundEntered, IsNewest
<1> QED
  BY <1>2, <1>3, <1>4

LEMMA CarriedAnswer ==
    ASSUME IInv, OwnInv, AnswerInbound, Roles, Births
    PROVE  Carried
<1>1. /\ Handler \in Tasks /\ TasksInv /\ task[Handler] \in Task
      /\ task[Handler].pc = "answer"
  BY HandlerTask DEF IInv, AnswerInbound, At
<1>2. ASSUME Goto(Handler, "join")
      PROVE  Carried
  <2> DEFINE k == [task[Handler] EXCEPT !.pc = "join"]
  <2>1. Becomes(Handler, k)
    BY <1>2 DEF Goto
  <2>2. k.pc = "join" /\ k.call = task[Handler].call /\ k.chan = task[Handler].chan
    BY <1>1 DEF Task
  <2>3. Own(channel', call', task[Handler].call, task[Handler].chan)
    BY <1>1, LocalOwn
  <2>4. OwnLocals(channel', call', k)
    BY <2>2, <2>3 DEF OwnLocals
  <2> QED
    BY <1>1, <2>1, <2>4, CarriedMove
<1> QED
  BY <1>1, <1>2, CarriedGoto DEF AnswerInbound, Taking

LEMMA CarriedHandler ==
    ASSUME IInv, OwnInv, HandlerStep, Roles, Births
    PROVE  Carried
<1>1. Handler \in Tasks /\ TasksInv /\ task[Handler] \in Task
  BY HandlerTask DEF IInv
<1>2. CASE \E h \in Channels : InboundEntered(h)
  BY <1>2, CarriedInbound
<1>3. CASE \/ \E e \in Stations : RingParticipant(Handler, e)
           \/ ParticipantRung(Handler) \/ AnswerInbound
  BY <1>1, <1>3, CarriedRing, CarriedRung, CarriedAnswer
<1>4. CASE \E h \in Channels : SourceEntered(h) \/ CalleeEntered(h) \/ LegEnded(h)
  <2>1. \/ UNCHANGED task
        \/ /\ \A u \in Tasks \ {Handler} : task'[u] = task[u]
           /\ task'[Handler].pc \in {"targets", "bridge", "cleanup"}
    <3>1. CASE \E h \in Channels : SourceEntered(h)
      BY <1>1, <3>1 DEF SourceEntered, Becomes, TasksInv, Task
    <3>2. CASE \E h \in Channels : CalleeEntered(h)
      BY <1>1, <3>2 DEF CalleeEntered, Becomes, TasksInv, Task
    <3>3. CASE \E h \in Channels : LegEnded(h)
      BY <1>1, <3>3 DEF LegEnded, Becomes, TasksInv, Task
    <3> QED
      BY <1>4, <3>1, <3>2, <3>3
  <2> QED
    BY <1>1, <2>1, CarriedQuiet, CarriedStill DEF Taking
<1>5. CASE \E h \in Channels, type \in EventType : StateChanged(type, h)
  BY <1>5, CarriedStill DEF StateChanged
<1>6. CASE ForgetChannel(Handler) \/ JoinInbound \/ MakeBridge \/ BridgeAdded
           \/ BridgeFailed
  <2>1. \/ \E l \in {"settle", "bridge", "bridge_made", "reject"} : Goto(Handler, l)
        \/ NotFound(Handler) \/ Finish(Handler) \/ Raised("reject")
    BY <1>6 DEF ForgetChannel, JoinInbound, MakeBridge, BridgeAdded, BridgeFailed
  <2> QED
    BY <1>1, <2>1, CarriedGoto, CarriedNotFound, CarriedFinish, CarriedRaised DEF Taking
<1>7. CASE AddToBridge
  <2>1. \/ Goto(Handler, "bridge_failed") \/ Finish(Handler)
        \/ \E S : Becomes(Handler, [task[Handler] EXCEPT !.pc = "bridge_added", !.legs = S])
    BY <1>7 DEF AddToBridge
  <2>2. ASSUME NEW S,
               Becomes(Handler, [task[Handler] EXCEPT !.pc = "bridge_added", !.legs = S])
        PROVE  Carried
    <3> DEFINE k == [task[Handler] EXCEPT !.pc = "bridge_added", !.legs = S]
    <3>1. Becomes(Handler, k) /\ k.pc = "bridge_added"
      BY <1>1, <2>2 DEF Task
    <3> HIDE DEF k
    <3> QED
      BY <1>1, <3>1, CarriedMove DEF Taking
  <2> QED
    BY <1>1, <2>1, <2>2, CarriedGoto, CarriedFinish DEF Taking
<1>8. CASE RejectInbound \/ Cleanup \/ Teardown
  <2> DEFINE forget == [task[Handler] EXCEPT !.pc = "forget", !.next = "done"]
             left(S) == [task[Handler] EXCEPT !.pc = "teardown", !.legs = S]
             fewer(h) == [task[Handler] EXCEPT !.legs = @ \ {h}]
  <2>1. /\ forget.pc \notin Taking /\ \A S : left(S).pc \notin Taking
        /\ Teardown => \A h : fewer(h).pc \notin Taking
    BY <1>1 DEF Task, Taking, Teardown, At
  <2>2. \/ Finish(Handler) \/ Becomes(Handler, forget)
        \/ \E S : Becomes(Handler, left(S))
        \/ Teardown /\ \E h : Becomes(Handler, fewer(h))
    BY <1>8 DEF RejectInbound, Cleanup, Teardown
  <2> HIDE DEF forget, left, fewer
  <2> QED
    BY <1>1, <2>1, <2>2, CarriedMove, CarriedFinish
<1> QED
  BY <1>2, <1>3, <1>4, <1>5, <1>6, <1>7, <1>8 DEF HandlerStep

LEMMA NextCarried ==
    ASSUME IInv, OwnInv, ExpiredRows, [Next]_vars, Roles, Births
    PROVE  Carried
<1>1. CASE Restart
  <2>1. \A t \in Tasks : task'[t] \in {task[t], Resting("idle"), Resting("done")}
    BY <1>1 DEF Restart
  <2>2. Resting("idle").pc = "idle" /\ Resting("done").pc = "done"
    BY DEF Resting
  <2> QED
    BY <2>1, <2>2 DEF Carried, OwnLocals
<1> QED
  BY <1>1, CarriedRequest, CarriedHandler, CarriedStill DEF Next, Phone, vars

-----------------------------------------------------------------------------
(* OwnInv holds initially, every step keeps it, and the theorem.              *)

LEMMA InitOwn ==
    ASSUME Init
    PROVE  OwnInv
<1>1. OriginInv
  BY DEF Init, AsteriskInit, StoreInit, OriginInv
<1>2. \A c \in Calls, e \in Stations :
         leg[c][e].channel = None /\ maps[c].channel[e] = None
  BY LocalValues DEF Init, StoreInit, AdapterInit, NoLeg, NoMaps
<1>3. \A t \in Tasks : task[t].pc \in {"idle", "start"}
  BY DEF Init, Resting
<1> QED
  BY <1>1, <1>2, <1>3 DEF OwnInv, OwnLocals

LEMMA NextOwn ==
    ASSUME IInv, OwnInv, ExpiredRows, [Next]_vars
    PROVE  OwnInv'
<1>1. Roles
  BY NextRoles
<1>2. Births /\ Pointers
  BY <1>1, NextMoves
<1>3. Entries /\ Carried
  BY <1>1, <1>2, NextEntries, NextCarried
<1> QED
  BY <1>1, <1>2, <1>3, OwnStep

\* While reading an ORM row loaded before a rollback raises, which is what
\* SQLAlchemy does, no pointer, map entry or local of Core takes a station's
\* channel of another call for one of this call (call_orchestrator.py:96, 176;
\* main.py, the two lookups of a controller's call).
THEOREM OwnershipInvariance == ExpiredRows => (Spec => []OwnInv)
<1>1. Init => OwnInv
  BY InitOwn
<1>2. ExpiredRows /\ IInv /\ OwnInv /\ [Next]_vars => OwnInv'
  BY NextOwn
<1>3. ASSUME ExpiredRows
      PROVE  Spec => []OwnInv
  <2>1. IInv /\ OwnInv /\ [Next]_vars => OwnInv'
    BY <1>2, <1>3
  <2> QED
    BY <1>1, <2>1, Invariance, PTL DEF Spec
<1> QED
  BY <1>3

\* The adapter's map of a call holds, for every station, a channel that was
\* dialled for that call or dialled into it, for any number of calls, stations,
\* requests and faults: connect never adopts the channel that the station has in
\* another call (call_orchestrator.py:96, 176).
THEOREM StationMapsTheorem == ExpiredRows => (Spec => []StationMapsHoldOwnChannels)
<1>1. OwnInv => StationMapsHoldOwnChannels
  BY DEF OwnInv, Own, StationMapsHoldOwnChannels
<1>2. ASSUME ExpiredRows
      PROVE  Spec => []StationMapsHoldOwnChannels
  <2>1. Spec => []OwnInv
    BY <1>2, OwnershipInvariance
  <2> QED
    BY <1>1, <2>1, PTL
<1> QED
  BY <1>2

-----------------------------------------------------------------------------
(* PointersAreUnique.  Where the steps of a request lead: to the labels that  *)
(* PointerLocals speaks of, or to those that PartLocals does.                 *)

Pointing == {"dial", "dialed", "bind", "rung", "mark", "answer", "join", "repoint",
             "recover"}

Parting == {"drop_source", "operate", "route_stations", "retire", "teardown", "answer",
            "join", "reject", "idle"} \cup Bridging

Watched == Pointing \cup Parting

Others(t) == \A u \in Tasks \ {t} : task'[u] = task[u]

LEMMA GotoGoes ==
    ASSUME TasksInv, NEW t \in Tasks, NEW l, Goto(t, l)
    PROVE  /\ Others(t) /\ task'[t].pc = l
           /\ task'[t].kind = task[t].kind /\ task'[t].ctl = task[t].ctl
           /\ task'[t].ext = task[t].ext /\ task'[t].call = task[t].call
           /\ task'[t].chan = task[t].chan /\ task'[t].legs = task[t].legs
BY LocalsOf DEF Goto, Becomes, TasksInv, Task, Others

LEMMA BecomesGoes ==
    ASSUME TasksInv, NEW t \in Tasks, NEW k, Becomes(t, k)
    PROVE  Others(t) /\ task'[t] = k
BY DEF TasksInv, Becomes, Others

LEMMA FinishGoes ==
    ASSUME TasksInv, NEW t \in Tasks, Finish(t)
    PROVE  /\ Others(t) /\ task'[t].kind = "none"
           /\ task'[t].pc = IF t = Handler THEN "idle" ELSE "done"
BY DEF Finish, Becomes, TasksInv, Resting, Others

LEMMA NotFoundGoes ==
    ASSUME TasksInv, NEW r \in Requests, NotFound(r)
    PROVE  Others(r) /\ task'[r].pc \notin Watched
<1>1. r \in Tasks /\ r # Handler /\ task[r] \in Task
  BY Requests_, LocalsOf
<1>2. CASE Finish(r)
  BY <1>1, <1>2, FinishGoes DEF Watched, Pointing, Parting, Bridging
<1>3. CASE Becomes(r, [task[r] EXCEPT !.pc = "initiate", !.call = None, !.chan = None])
  BY <1>1, <1>3
  DEF Becomes, TasksInv, Task, Others, Watched, Pointing, Parting, Bridging
<1> QED
  BY <1>2, <1>3 DEF NotFound

LEMMA EndGoes ==
    ASSUME TasksInv, NEW r \in Requests, Finish(r)
    PROVE  Others(r) /\ task'[r].pc \notin Watched
BY Requests_, FinishGoes DEF Watched, Pointing, Parting, Bridging

LEMMA QuietGoto ==
    ASSUME TasksInv, NEW r \in Requests, NEW l, Goto(r, l), l \notin Watched
    PROVE  Others(r) /\ task'[r].pc \notin Watched
BY Requests_, GotoGoes

LEMMA ArrivalGoes ==
    ASSUME TasksInv, NEW r \in Requests, Arrival(r)
    PROVE  Others(r) /\ task'[r].pc \notin Watched
<1>1. r \in Tasks /\ task[r] \in Task
  BY LocalsOf, Requests_
<1>2. ASSUME NEW e \in Stations, CallStation(r, e)
      PROVE  Others(r) /\ task'[r].pc = "route"
  BY <1>1, <1>2 DEF CallStation, Becomes, TasksInv, Task, Others
<1>3. ASSUME NEW s \in Controllers, ConferenceLookup(r, s)
      PROVE  Others(r) /\ task'[r].pc = "route"
  BY <1>1, <1>3 DEF ConferenceLookup, Becomes, TasksInv, Task, Others
<1>4. ASSUME NEW T \in SUBSET Stations, CallStations(r, T)
      PROVE  Others(r) /\ task'[r].pc = "initiate"
  BY <1>1, <1>4 DEF CallStations, Becomes, TasksInv, Task, Others
<1>5. ASSUME NEW e \in Stations, NEW a \in Actions, ParticipantAction(r, e, a)
      PROVE  Others(r) /\ task'[r].pc = "locate"
  BY <1>1, <1>5 DEF ParticipantAction, Becomes, TasksInv, Task, Others
<1> QED
  BY <1>2, <1>3, <1>4, <1>5 DEF Arrival, Watched, Pointing, Parting, Bridging

LEMMA PursueGoes ==
    ASSUME TasksInv, NEW r \in Requests, NEW h, NEW next \in {"find_source", "ring"},
           NEW chan, Pursue(r, h, next, chan)
    PROVE  Others(r) /\ task'[r].pc \notin Watched
<1>1. r \in Tasks /\ task[r] \in Task
  BY LocalsOf, Requests_
<1>2. Others(r) /\ task'[r].pc \in {next, "attach_leg", "reopen"}
  BY <1>1 DEF Pursue, Becomes, TasksInv, Task, Others
<1> QED
  BY <1>2 DEF Watched, Pointing, Parting, Bridging

LEMMA QuietGoes ==
    ASSUME IInv, NEW r \in Requests,
           \/ Rehydrate(r) \/ DropSource(r) \/ OutOfCalls(r) \/ BindSource(r)
           \/ FailCall(r) \/ Connect(r) \/ PromoteCall(r) \/ Enroll(r) \/ AddSource(r)
           \/ AttachLeg(r) \/ ReopenLeg(r) \/ FindSource(r) \/ MarkLeg(r)
           \/ Repoint(r) \/ ForgetChannel(r) \/ Settle(r) \/ LookupFails(r)
    PROVE  Others(r) /\ task'[r].pc \notin Watched
<1>1. /\ r \in Tasks /\ TasksInv /\ task[r] \in Task /\ LocalsInv(channel, task[r])
  BY LocalsOf, Requests_ DEF IInv
<1>2. ASSUME Others(r) /\ task'[r].pc \in {"connect", "act", "forget", "add_source", "ring"}
      PROVE  Others(r) /\ task'[r].pc \notin Watched
  BY <1>2 DEF Watched, Pointing, Parting, Bridging
<1>3. CASE Rehydrate(r) \/ DropSource(r)
  <2>1. \/ Others(r) /\ task'[r].pc \in {"connect", "forget"}
        \/ Finish(r) \/ NotFound(r)
    BY <1>1, <1>3, ZenonT(60) DEF Rehydrate, DropSource, Becomes, TasksInv, Task, Others
  <2> QED
    BY <1>1, <1>2, <2>1, EndGoes, NotFoundGoes
<1>4. CASE Enroll(r) \/ FindSource(r)
  <2>1. \/ Others(r) /\ task'[r].pc \in {"add_source", "ring"}
        \/ Finish(r)
    BY <1>1, <1>4, ZenonT(60) DEF Enroll, FindSource, Becomes, TasksInv, Task, Others
  <2> QED
    BY <1>1, <1>2, <2>1, EndGoes
<1>5. CASE Repoint(r)
  <2>1. task[r].next \in {"connect", "act"}
    BY <1>1, <1>5 DEF Repoint, At, LocalsInv
  <2>2. \/ Others(r) /\ task'[r].pc \in {"connect", "act"}
        \/ Finish(r)
    BY <1>1, <1>5, <2>1 DEF Repoint, Becomes, TasksInv, Task, Others
  <2> QED
    BY <1>1, <1>2, <2>2, EndGoes
<1>6. CASE \/ OutOfCalls(r) \/ BindSource(r) \/ FailCall(r) \/ PromoteCall(r)
           \/ AttachLeg(r) \/ MarkLeg(r) \/ Settle(r) \/ LookupFails(r)
  <2>1. Goto(r, "enroll") \/ Finish(r)
    BY <1>6, Zenon
    DEF OutOfCalls, BindSource, FailCall, PromoteCall, AttachLeg, MarkLeg, Settle,
        LookupFails
  <2> QED
    BY <1>1, <2>1, EndGoes, QuietGoto DEF Watched, Pointing, Parting, Bridging
<1>7. CASE ReopenLeg(r)
  <2>1. task[r].next \in {"find_source", "ring"}
    BY <1>1, <1>7 DEF ReopenLeg, At, LocalsInv
  <2> QED
    BY <1>1, <1>7, <2>1, QuietGoto
    DEF ReopenLeg, Watched, Pointing, Parting, Bridging
<1>8. CASE Connect(r) \/ AddSource(r)
  <2>1. \/ Goto(r, "promote") \/ Finish(r)
        \/ \E h, chan, next : /\ next \in {"find_source", "ring"}
                              /\ Pursue(r, h, next, chan)
    BY <1>8, Zenon DEF Connect, AddSource
  <2> QED
    BY <1>1, <2>1, EndGoes, QuietGoto, PursueGoes
    DEF Watched, Pointing, Parting, Bridging
<1>9. CASE ForgetChannel(r)
  <2>1. Goto(r, "settle") \/ NotFound(r) \/ Finish(r)
    BY <1>9 DEF ForgetChannel
  <2> QED
    BY <1>1, <2>1, EndGoes, NotFoundGoes, QuietGoto
    DEF Watched, Pointing, Parting, Bridging
<1> QED
  BY <1>3, <1>4, <1>5, <1>6, <1>7, <1>8, <1>9

\* The steps that lead to a label that PartLocals speaks of, and those that lead
\* to one of PointerLocals.
Parts(r) == Route(r) \/ RouteStations(r) \/ RetireCall(r) \/ Recover(r)

Points(r) ==
    \/ InitiateCall(r) \/ DialSource(r) \/ SourceDialed(r) \/ Locate(r)
    \/ ParticipantRung(r) \/ \E e \in Stations : RingParticipant(r, e)

LEMMA PartsGoes ==
    ASSUME IInv, NEW r \in Requests, Parts(r)
    PROVE  Others(r) /\ task'[r].pc \notin Pointing
<1>1. /\ r \in Tasks /\ TasksInv /\ task[r] \in Task
  BY LocalsOf, Requests_ DEF IInv
<1>2. \/ Others(r) /\ task'[r].pc \in {"route_stations", "rehydrate"}
      \/ \E l \in {"retire", "drop_source", "operate"} : Goto(r, l)
      \/ Finish(r) \/ NotFound(r)
  <2>1. CASE Route(r)
    BY <1>1, <2>1, ZenonT(60) DEF Route, Becomes, TasksInv, Task, Others
  <2>2. CASE RouteStations(r)
    BY <1>1, <2>2, ZenonT(60) DEF RouteStations, Becomes, TasksInv, Task, Others
  <2>3. CASE RetireCall(r) \/ Recover(r)
    BY <2>3, Zenon DEF RetireCall, Recover
  <2> QED
    BY <2>1, <2>2, <2>3 DEF Parts
<1> QED
  BY <1>1, <1>2, GotoGoes, EndGoes, NotFoundGoes DEF Watched, Pointing

LEMMA PointsGoes ==
    ASSUME IInv, NEW r \in Requests, Points(r)
    PROVE  Others(r) /\ task'[r].pc \notin Parting
<1>1. /\ r \in Tasks /\ r # Handler /\ TasksInv /\ task[r] \in Task
  BY LocalsOf, Requests_ DEF IInv
<1>2. \/ /\ Others(r)
         /\ task'[r].pc \in {"dial", "dialed", "connect", "act", "repoint", "mark", "rung"}
      \/ \E l \in {"fail", "bind", "mark"} : Goto(r, l)
      \/ Finish(r)
  <2>1. CASE InitiateCall(r)
    BY <1>1, <2>1, ZenonT(60) DEF InitiateCall, Becomes, TasksInv, Task, Others
  <2>2. CASE DialSource(r)
    BY <1>1, <2>2, ZenonT(60) DEF DialSource, Becomes, TasksInv, Task, Others
  <2>3. CASE Locate(r)
    BY <1>1, <2>3, ZenonT(60) DEF Locate, Becomes, TasksInv, Task, Others
  <2>4. ASSUME NEW e \in Stations, RingParticipant(r, e)
        PROVE  \/ Others(r) /\ task'[r].pc \in {"mark", "rung"}
               \/ Finish(r)
    BY <1>1, <2>4, ZenonT(60) DEF RingParticipant, Becomes, TasksInv, Task, Others
  <2>5. CASE SourceDialed(r) \/ ParticipantRung(r)
    BY <1>1, <2>5, Zenon DEF SourceDialed, ParticipantRung
  <2> QED
    BY <2>1, <2>2, <2>3, <2>4, <2>5 DEF Points
<1> QED
  BY <1>1, <1>2, GotoGoes, EndGoes DEF Watched, Parting, Bridging

LEMMA RequestGoes ==
    ASSUME IInv, NEW r \in Requests, Arrival(r) \/ RequestStep(r)
    PROVE  \/ Others(r) /\ task'[r].pc \notin Watched
           \/ Parts(r) \/ Points(r) \/ Act(r) \/ Operate(r)
BY ArrivalGoes, QuietGoes, Zenon DEF IInv, RequestStep, Parts, Points


-----------------------------------------------------------------------------
(* A step keeps PointerInv if it writes at most one row, with a channel that   *)
(* is the controller's own or that no row names yet, and its task knows what   *)
(* it will write.                                                              *)

PointerWrites ==
    \/ RowsKeep
    \/ \E c \in Calls, e \in Stations :
         LET h == leg'[c][e].channel IN
         /\ RowsKeepBut(c, e)
         /\ AtStation(channel, h) /\ ~Collides(c, e, h)
    \/ \E c \in Calls, s \in Controllers :
         RowsKeepBut(c, s) /\ SourceOf(channel, call, c, s, leg'[c][s].channel)

PointerCarried ==
    \A t \in Tasks : task'[t] = task[t] \/ PointerLocals(channel', call', task'[t])

LEMMA AtStationStable ==
    ASSUME Roles, NEW h, AtStation(channel, h)
    PROVE  AtStation(channel', h)
BY DEF Roles, AtStation, Used

LEMMA SourceOfStable ==
    ASSUME AsteriskInv, OriginInv, Roles, Births, NEW c, NEW s \in Controllers, NEW h,
           SourceOf(channel, call, c, s, h)
    PROVE  SourceOf(channel', call', c, s, h)
<1>1. s # None
  BY TypesAssumption
<1>2. call'[c].source = s
  BY <1>1, SourceStays DEF SourceOf
<1> QED
  BY <1>2 DEF SourceOf, Roles, AsteriskInv, Used

LEMMA PointerLocalsStable ==
    ASSUME AsteriskInv, OriginInv, Roles, Births, NEW k,
           PointerLocals(channel, call, k)
    PROVE  PointerLocals(channel', call', k)
<1>1. k.pc \in {"dial", "dialed", "bind"}
        => /\ k.call \in Calls /\ k.ctl \in Controllers
           /\ k.ctl = call'[k.call].source
  BY SourceStays, TypesAssumption DEF PointerLocals
<1>2. k.pc \in {"dialed", "bind"} => SourceOf(channel', call', k.call, k.ctl, k.chan)
  BY SourceOfStable DEF PointerLocals
<1>3. k.pc \in {"rung", "mark", "answer", "join", "repoint", "recover"}
        => k.ext \in Stations /\ AtStation(channel', k.chan)
  BY AtStationStable DEF PointerLocals
<1> QED
  BY <1>1, <1>2, <1>3 DEF PointerLocals

\* Where a row's pointer comes from, after a step.
LEMMA PointerRows ==
    ASSUME PointerInv, PointerWrites, NEW c \in Calls
    PROVE  /\ \A s \in Controllers : leg'[c][s].channel # None =>
                SourceOf(channel, call, c, s, leg'[c][s].channel)
           /\ \A e \in Stations : leg'[c][e].channel # None =>
                AtStation(channel, leg'[c][e].channel)
<1>1. CASE RowsKeep
  BY <1>1, LocalValues DEF RowsKeep, PointerInv
<1>2. ASSUME NEW d \in Calls, NEW e \in Stations, RowsKeepBut(d, e),
             AtStation(channel, leg'[d][e].channel)
      PROVE  /\ \A s \in Controllers : leg'[c][s].channel # None =>
                  SourceOf(channel, call, c, s, leg'[c][s].channel)
             /\ \A x \in Stations : leg'[c][x].channel # None =>
                  AtStation(channel, leg'[c][x].channel)
  BY <1>2, LocalValues, TypesAssumption DEF RowsKeepBut, PointerInv
<1>3. ASSUME NEW d \in Calls, NEW x \in Controllers, RowsKeepBut(d, x),
             SourceOf(channel, call, d, x, leg'[d][x].channel)
      PROVE  /\ \A s \in Controllers : leg'[c][s].channel # None =>
                  SourceOf(channel, call, c, s, leg'[c][s].channel)
             /\ \A e \in Stations : leg'[c][e].channel # None =>
                  AtStation(channel, leg'[c][e].channel)
  BY <1>3, LocalValues, TypesAssumption DEF RowsKeepBut, PointerInv
<1> QED
  BY <1>1, <1>2, <1>3 DEF PointerWrites

\* Two rows of controllers cannot name one channel, nor can a row of a controller
\* and one of a station; a row of a station was free to take its channel.
LEMMA PointersStayUnique ==
    ASSUME PointerInv, PointerWrites
    PROVE  PointersAreUnique'
<1> SUFFICES ASSUME NEW c \in Calls, NEW d \in Calls,
                    NEW e \in Extensions, NEW x \in Extensions,
                    leg'[c][e].channel # None,
                    leg'[c][e].channel = leg'[d][x].channel
             PROVE  c = d /\ e = x
  BY DEF PointersAreUnique
<1>1. CASE e \in Controllers \/ x \in Controllers
  <2>1. e \in Controllers /\ x \in Controllers
    BY <1>1, PointerRows DEF Extensions, SourceOf, AtStation
  <2>2. /\ SourceOf(channel, call, c, e, leg'[c][e].channel)
        /\ SourceOf(channel, call, d, x, leg'[c][e].channel)
    BY <2>1, PointerRows
  <2> QED
    BY <2>2 DEF SourceOf
<1>2. CASE e \in Stations /\ x \in Stations
  <2>1. CASE RowsKeep
    BY <2>1 DEF RowsKeep, PointerInv, PointersAreUnique
  <2>2. ASSUME NEW b \in Calls, NEW y \in Stations, RowsKeepBut(b, y),
               ~Collides(b, y, leg'[b][y].channel)
        PROVE  c = d /\ e = x
    <3>1. ASSUME NEW f \in Calls, NEW z \in Extensions, <<f, z>> # <<b, y>>,
                 leg'[f][z].channel # None
          PROVE  /\ leg'[f][z].channel = leg[f][z].channel
                 /\ leg'[f][z].channel # leg'[b][y].channel
      BY <2>2, <3>1 DEF RowsKeepBut, Collides
    <3>2. CASE <<c, e>> = <<b, y>>
      BY <3>1, <3>2
    <3>3. CASE <<d, x>> = <<b, y>>
      BY <3>1, <3>3
    <3>4. CASE <<c, e>> # <<b, y>> /\ <<d, x>> # <<b, y>>
      BY <3>1, <3>4 DEF PointerInv, PointersAreUnique
    <3> QED
      BY <3>2, <3>3, <3>4
  <2>3. ASSUME NEW b \in Calls, NEW s \in Controllers, RowsKeepBut(b, s)
        PROVE  c = d /\ e = x
    <3>1. /\ leg'[c][e].channel = leg[c][e].channel
          /\ leg'[d][x].channel = leg[d][x].channel
      BY <1>2, <2>3, TypesAssumption DEF RowsKeepBut
    <3>2. /\ leg[c][e].channel # None /\ leg[c][e].channel = leg[d][x].channel
          /\ PointersAreUnique
      BY <3>1 DEF PointerInv
    <3> QED
      BY <3>2 DEF PointersAreUnique
  <2> QED
    BY <2>1, <2>2, <2>3 DEF PointerWrites
<1> QED
  BY <1>1, <1>2 DEF Extensions

LEMMA PointerStep ==
    ASSUME IInv, PointerInv, Roles, Births, PointerWrites, PointerCarried
    PROVE  PointerInv'
<1>1. AsteriskInv /\ OriginInv /\ OriginInv'
  BY OriginStays DEF IInv, PointerInv
<1>2. ASSUME NEW h \in Channels, channel'[h].role = "source"
      PROVE  channel'[h].ext \in Controllers
  BY <1>2 DEF Roles, PointerInv
<1>3. ASSUME NEW c \in Calls
      PROVE  /\ \A s \in Controllers : leg'[c][s].channel # None =>
                  SourceOf(channel', call', c, s, leg'[c][s].channel)
             /\ \A e \in Stations : leg'[c][e].channel # None =>
                  AtStation(channel', leg'[c][e].channel)
  BY <1>1, PointerRows, SourceOfStable, AtStationStable
<1>4. ASSUME NEW t \in Tasks
      PROVE  PointerLocals(channel', call', task'[t])
  <2>1. PointerLocals(channel, call, task[t])
    BY DEF PointerInv
  <2> QED
    BY <1>1, <2>1, PointerLocalsStable DEF PointerCarried
<1> QED
  BY <1>1, <1>2, <1>3, <1>4, PointersStayUnique DEF PointerInv

-----------------------------------------------------------------------------
(* What each step writes into a row.                                          *)

LEMMA LocalPointer ==
    ASSUME PointerInv, NEW t \in Tasks
    PROVE  PointerLocals(channel, call, task[t])
BY DEF PointerInv

LEMMA BindWrites ==
    ASSUME IInv, PointerInv, NEW r \in Requests, BindSource(r)
    PROVE  PointerWrites
<1> DEFINE c == task[r].call
           s == task[r].ctl
<1>1. StoreTypeOK /\ r \in Tasks /\ task[r].pc = "bind"
  BY Requests_ DEF IInv, BindSource, At
<1>2. c \in Calls /\ s \in Controllers /\ SourceOf(channel, call, c, s, task[r].chan)
  BY <1>1, LocalPointer DEF PointerLocals
<1>3. RowsKeepBut(c, s) /\ leg'[c][s].channel = task[r].chan
  BY <1>1, <1>2, BindMoves, LocalValues DEF BindSource
<1> QED
  BY <1>2, <1>3 DEF PointerWrites

\* A row of a station takes a channel that no other row names.
LEMMA StationWrites ==
    ASSUME NEW c \in Calls, NEW e \in Stations, NEW h, AtStation(channel, h),
           RowsKeepBut(c, e), e \in Extensions => leg'[c][e].channel = h,
           ~Collides(c, e, h)
    PROVE  PointerWrites
BY LocalValues DEF PointerWrites

LEMMA RequestPointerWrites ==
    ASSUME IInv, PointerInv, NEW r \in Requests, MarkLeg(r) \/ Repoint(r) \/ Recover(r)
    PROVE  PointerWrites
<1> DEFINE c == task[r].call
           e == task[r].ext
           h == task[r].chan
<1>1. /\ StoreTypeOK /\ r \in Tasks /\ LocalsInv(channel, task[r])
      /\ task[r].pc \in {"mark", "repoint", "recover"}
  BY LocalsOf, Requests_ DEF IInv, MarkLeg, Repoint, Recover, At
<1>2. c \in Calls /\ e \in Stations /\ AtStation(channel, h)
  BY <1>1, LocalPointer DEF PointerLocals, LocalsInv, Callless
<1>3. \/ UNCHANGED storeVars
      \/ BindChannel(c, e, h) /\ ~Collides(c, e, h)
      \/ MarkRinging(c, e, h) /\ (leg[c][e].gone \/ ~Collides(c, e, h))
  BY Zenon DEF MarkLeg, Repoint, Recover
<1>4. ASSUME MarkRinging(c, e, h), leg[c][e].gone \/ ~Collides(c, e, h)
      PROVE  PointerWrites
  <2>1. \/ RowsKeep
        \/ /\ ~leg[c][e].gone /\ RowsKeepBut(c, e)
           /\ e \in Extensions => leg'[c][e].channel = h
    BY <1>1, <1>2, <1>4, MarkRingingMoves
  <2> QED
    BY <1>2, <1>4, <2>1, StationWrites DEF PointerWrites
<1>5. ASSUME BindChannel(c, e, h), ~Collides(c, e, h)
      PROVE  PointerWrites
  <2>1. RowsKeepBut(c, e) /\ leg'[c][e].channel = h
    BY <1>1, <1>2, <1>5, BindMoves, LocalValues
  <2> QED
    BY <1>2, <1>5, <2>1, StationWrites
<1> QED
  BY <1>3, <1>4, <1>5, SameStore DEF PointerWrites

\* The StasisStart of the controller's channel: were the call without a controller,
\* no row would be written.
LEMMA SourceEnteredWrites ==
    ASSUME IInv, NEW h \in Channels, SourceEntered(h)
    PROVE  PointerWrites
<1> DEFINE c == channel[h].call
           s == call[c].source
<1>1. StoreTypeOK /\ c \in Calls /\ MarkConnected(c, s, h)
  BY EnteredCall DEF IInv
<1>2. RowsKeepBut(c, s) /\ (s \in Extensions => leg'[c][s].channel = h)
  BY <1>1, MarkConnectedMoves
<1>3. CASE s \in Controllers
  <2>1. SourceOf(channel, call, c, s, h)
    BY <1>1 DEF SourceEntered, SourceOf
  <2> QED
    BY <1>1, <1>2, <1>3, <2>1, LocalValues DEF PointerWrites
<1>4. CASE s \notin Controllers
  <2>1. s \notin Extensions
    BY <1>1, <1>4, TypesAssumption DEF StoreTypeOK, CallRow, Maybe, Extensions
  <2> QED
    BY <1>2, <2>1 DEF RowsKeepBut, RowsKeep, PointerWrites
<1> QED
  BY <1>3, <1>4

LEMMA CalleeEnteredWrites ==
    ASSUME IInv, NEW h \in Channels, CalleeEntered(h)
    PROVE  PointerWrites
<1> DEFINE c == channel[h].call
           e == channel[h].ext
<1>1. StoreTypeOK /\ c \in Calls /\ e \in Stations /\ AtStation(channel, h)
  BY EnteredCall DEF IInv, AsteriskInv, CalleeEntered, AtStation
<1>2. CASE MarkConnected(c, e, h) /\ ~Collides(c, e, h)
  <2>1. RowsKeepBut(c, e) /\ (e \in Extensions => leg'[c][e].channel = h)
    BY <1>1, <1>2, MarkConnectedMoves
  <2> QED
    BY <1>1, <1>2, <2>1, StationWrites
<1> QED
  BY <1>2, EnteredCall, SameStore DEF PointerWrites

LEMMA JoinInboundWrites ==
    ASSUME IInv, PointerInv, JoinInbound
    PROVE  PointerWrites
<1> DEFINE c == task[Handler].call
           e == task[Handler].ext
           h == task[Handler].chan
<1>1. /\ StoreTypeOK /\ Handler \in Tasks /\ task[Handler].pc = "join"
      /\ LocalsInv(channel, task[Handler])
  BY HandlerTask DEF IInv, JoinInbound, At
<1>2. c \in Calls /\ e \in Stations /\ AtStation(channel, h)
  BY <1>1, LocalPointer DEF PointerLocals, LocalsInv, Callless
<1>3. CASE MarkConnected(c, e, h) /\ ~Collides(c, e, h)
  <2>1. RowsKeepBut(c, e) /\ (e \in Extensions => leg'[c][e].channel = h)
    BY <1>1, <1>2, <1>3, MarkConnectedMoves
  <2> QED
    BY <1>2, <1>3, <2>1, StationWrites
<1>4. CASE UNCHANGED storeVars
  BY <1>4, SameStore DEF PointerWrites
<1> QED
  BY <1>3, <1>4 DEF JoinInbound

LEMMA NextPointerWrites ==
    ASSUME IInv, PointerInv, [Next]_vars
    PROVE  Births /\ PointerWrites
<1>1. Births /\ Writes
  BY NextWrites
<1> QED
  BY <1>1, BindWrites, RequestPointerWrites, SourceEnteredWrites, CalleeEnteredWrites,
     JoinInboundWrites
  DEF Writes, PointerWrites

-----------------------------------------------------------------------------
(* What a task will write.                                                    *)

LEMMA PointerCarriedAt ==
    ASSUME NEW t \in Tasks, Others(t),
           task'[t].pc \in Pointing => PointerLocals(channel', call', task'[t])
    PROVE  PointerCarried
BY DEF PointerCarried, Others, PointerLocals, Pointing

LEMMA InitiatePoints ==
    ASSUME IInv, NEW r \in Requests, InitiateCall(r)
    PROVE  PointerCarried
<1> DEFINE s == task[r].ctl
<1>1. /\ StoreTypeOK /\ TasksInv /\ r \in Tasks /\ task[r] \in Task /\ s \in Controllers
  BY LocalsOf, Requests_ DEF IInv, InitiateCall, At, LocalsInv, Initiating
<1>2. PICK c \in Absent :
        /\ IF task[r].kind = "call_stations"
           THEN InitiateConference(c, s, task[r].todo)
           ELSE Initiate(c, s, task[r].ext)
        /\ Becomes(r, [task[r] EXCEPT !.pc = "dial", !.call = c])
  BY DEF InitiateCall
<1>3. c \in Calls /\ \E T, state, conference : Create(c, s, T, state, conference)
  BY <1>2, Zenon DEF Absent, InitiateConference, Initiate
<1>4. call'[c].source = s
  BY <1>1, <1>3 DEF Create, StoreTypeOK
<1>5. /\ Others(r) /\ task'[r].pc = "dial" /\ task'[r].call = c /\ task'[r].ctl = s
  BY <1>1, <1>2 DEF Becomes, TasksInv, Task, Others
<1>6. PointerLocals(channel', call', task'[r])
  BY <1>1, <1>3, <1>4, <1>5 DEF PointerLocals
<1> QED
  BY <1>1, <1>5, <1>6, PointerCarriedAt

LEMMA DialPoints ==
    ASSUME IInv, PointerInv, NEW r \in Requests, DialSource(r)
    PROVE  PointerCarried
<1> DEFINE c == task[r].call
           s == task[r].ctl
<1>1. /\ AsteriskInv /\ TasksInv /\ r \in Tasks /\ task[r] \in Task
      /\ task[r].pc = "dial" /\ call' = call
  BY LocalsOf, Requests_ DEF IInv, DialSource, At, storeVars
<1>2. c \in Calls /\ s \in Controllers /\ s = call[c].source
  BY <1>1, LocalPointer DEF PointerLocals
<1>3. ASSUME NEW h, Dials(h, s, "source", c),
             Becomes(r, [task[r] EXCEPT !.pc = "dialed", !.chan = h])
      PROVE  PointerCarried
  <2>1. h \in Channels /\ channel'[h].role = "source" /\ channel'[h].call = c
    BY <1>1, <1>2, <1>3, DialsRoles
  <2>2. /\ Others(r) /\ task'[r].pc = "dialed" /\ task'[r].call = c
        /\ task'[r].ctl = s /\ task'[r].chan = h
    BY <1>1, <1>3 DEF Becomes, TasksInv, Task, Others
  <2>3. PointerLocals(channel', call', task'[r])
    BY <1>1, <1>2, <2>1, <2>2 DEF PointerLocals, SourceOf
  <2> QED
    BY <1>1, <2>2, <2>3, PointerCarriedAt
<1>4. CASE Goto(r, "fail")
  BY <1>1, <1>4, GotoGoes, PointerCarriedAt DEF Pointing
<1> QED
  BY <1>3, <1>4, Zenon DEF DialSource

\* A task goes from one label to another with what it holds.
LEMMA PassesPoints ==
    ASSUME IInv, PointerInv, Roles, Births, NEW t \in Tasks, NEW l, Goto(t, l),
           \/ task[t].pc = "dialed" /\ l = "bind"
           \/ task[t].pc \in {"rung", "answer"} /\ l \in {"mark", "join"}
    PROVE  PointerCarried
<1>1. PointerLocals(channel', call', task[t])
  BY LocalPointer, PointerLocalsStable DEF IInv, PointerInv
<1>2. /\ Others(t) /\ task'[t].pc = l /\ task'[t].ctl = task[t].ctl
      /\ task'[t].ext = task[t].ext /\ task'[t].call = task[t].call
      /\ task'[t].chan = task[t].chan
  BY GotoGoes DEF IInv
<1>3. PointerLocals(channel', call', task'[t])
  BY <1>1, <1>2 DEF PointerLocals
<1> QED
  BY <1>2, <1>3, PointerCarriedAt

\* A channel of a station was not dialled for a controller.
LEMMA StationChannel ==
    ASSUME AsteriskInv, PointerInv, NEW e \in Stations, NEW h, IsOf(channel, h, e)
    PROVE  AtStation(channel, h)
BY TypesAssumption DEF PointerInv, AsteriskInv, IsOf, AtStation, Used

LEMMA RingPoints ==
    ASSUME IInv, PointerInv, NEW t \in Tasks, NEW e \in Stations, RingParticipant(t, e)
    PROVE  PointerCarried
<1> DEFINE c == task[t].call
           left == task[t].todo \ {e}
<1>1. PICK m : m = IF t = Handler \/ task[t].chan = None THEN maps[c]
                   ELSE Attach(maps[c], task[t].ctl, task[t].chan)
  OBVIOUS
<1>2. /\ c \in Calls /\ m.channel[e] = maps[c].channel[e]
      /\ AsteriskInv /\ AdapterInv /\ TasksInv /\ task[t] \in Task
  BY <1>1, RingAttaches, LocalsOf DEF IInv
<1>3. ASSUME t # Handler, task[t].ext = e, m.channel[e] # None, UNCHANGED channel,
             Becomes(t, [task[t] EXCEPT !.pc = "mark", !.chan = m.channel[e]])
      PROVE  PointerCarried
  <2>1. AtStation(channel, m.channel[e])
    BY <1>2, <1>3, StationChannel, LocalValues DEF AdapterInv, Paired
  <2>2. /\ Others(t) /\ task'[t].pc = "mark" /\ task'[t].ext = e
        /\ task'[t].chan = m.channel[e]
    BY <1>2, <1>3 DEF Becomes, TasksInv, Task, Others
  <2>3. PointerLocals(channel', call', task'[t])
    BY <1>3, <2>1, <2>2 DEF PointerLocals
  <2> QED
    BY <2>2, <2>3, PointerCarriedAt
<1>4. ASSUME NEW h, Dials(h, e, "callee", c),
             Becomes(t, [task[t] EXCEPT !.pc = "rung", !.chan = h, !.ext = e,
                                        !.todo = left])
      PROVE  PointerCarried
  <2>1. h \in Channels /\ channel'[h].role = "callee"
    BY <1>2, <1>4, DialsRoles
  <2>2. IsOf(channel', h, e)
    BY <1>2, <1>4, DialsKeeps, LocalValues
  <2>3. /\ Others(t) /\ task'[t].pc = "rung" /\ task'[t].ext = e /\ task'[t].chan = h
    BY <1>2, <1>4 DEF Becomes, TasksInv, Task, Others
  <2>4. PointerLocals(channel', call', task'[t])
    BY <2>1, <2>2, <2>3 DEF PointerLocals, AtStation, IsOf
  <2> QED
    BY <2>3, <2>4, PointerCarriedAt
<1>5. ASSUME At(t, "targets"), Becomes(t, [task[t] EXCEPT !.todo = left])
      PROVE  PointerCarried
  <2>1. Others(t) /\ task'[t].pc = "targets"
    BY <1>2, <1>5 DEF Becomes, TasksInv, Task, Others, At
  <2> QED
    BY <2>1, PointerCarriedAt DEF Pointing
<1>6. CASE Finish(t)
  BY <1>2, <1>6, FinishGoes, PointerCarriedAt DEF Pointing
<1>7. \/ Finish(t)
      \/ /\ t # Handler /\ task[t].ext = e /\ m.channel[e] # None /\ UNCHANGED channel
         /\ Becomes(t, [task[t] EXCEPT !.pc = "mark", !.chan = m.channel[e]])
      \/ At(t, "targets") /\ Becomes(t, [task[t] EXCEPT !.todo = left])
      \/ \E h \in Channels :
           /\ Dials(h, e, "callee", c)
           /\ Becomes(t, [task[t] EXCEPT !.pc = "rung", !.chan = h, !.ext = e,
                                         !.todo = left])
  BY <1>1 DEF RingParticipant, Existing, asteriskVars
<1> QED
  BY <1>3, <1>4, <1>5, <1>6, <1>7

LEMMA RungPoints ==
    ASSUME IInv, PointerInv, Roles, Births, NEW t \in Tasks, ParticipantRung(t)
    PROVE  PointerCarried
<1>1. TasksInv /\ task[t].pc = "rung"
  BY DEF IInv, ParticipantRung, At
<1>2. CASE Goto(t, "mark")
  BY <1>1, <1>2, PassesPoints
<1>3. CASE Goto(t, "targets")
  BY <1>1, <1>3, GotoGoes, PointerCarriedAt DEF Pointing
<1>4. CASE Finish(t)
  BY <1>1, <1>4, FinishGoes, PointerCarriedAt DEF Pointing
<1> QED
  BY <1>2, <1>3, <1>4 DEF ParticipantRung

LEMMA LocatePoints ==
    ASSUME IInv, PointerInv, NEW r \in Requests, Locate(r)
    PROVE  PointerCarried
<1> DEFINE e == task[r].ext
           onward == IF task[r].kind = "connect" THEN "connect" ELSE "act"
<1>1. /\ StoreTypeOK /\ AsteriskInv /\ TasksInv /\ r \in Tasks /\ task[r] \in Task
      /\ e \in Stations /\ channel' = channel
  BY LocalsOf, Requests_ DEF IInv, Locate, At, LocalsInv, Placing, asteriskVars
<1>2. ASSUME NEW c \in Calls, Seen(c, e) # None,
             Becomes(r, [task[r] EXCEPT !.pc = "repoint", !.call = c,
                                        !.next = onward, !.chan = Seen(c, e)])
      PROVE  PointerCarried
  <2>1. /\ Others(r) /\ task'[r].pc = "repoint" /\ task'[r].ext = e
        /\ task'[r].chan = Seen(c, e)
    BY <1>1, <1>2 DEF Becomes, TasksInv, Task, Others
  <2>2. leg[c][e].channel \in Maybe(Channels)
    BY <1>1, LegsTyped, LocalValues DEF LegRow
  <2>3. IsOf(channel, Seen(c, e), e)
    BY <1>1, <1>2, <2>2, LiveIsOf, FoundIsOf DEF Seen
  <2>4. PointerLocals(channel', call', task'[r])
    BY <1>1, <2>1, <2>3, StationChannel DEF PointerLocals
  <2> QED
    BY <1>1, <2>1, <2>4, PointerCarriedAt
<1>3. ASSUME NEW c \in Calls, Becomes(r, [task[r] EXCEPT !.pc = onward, !.call = c])
      PROVE  PointerCarried
  <2>1. Others(r) /\ task'[r].pc \in {"connect", "act"}
    BY <1>1, <1>3 DEF Becomes, TasksInv, Task, Others
  <2> QED
    BY <1>1, <2>1, PointerCarriedAt DEF Pointing
<1>4. CASE Finish(r)
  BY <1>1, <1>4, FinishGoes, PointerCarriedAt DEF Pointing
<1> QED
  BY <1>2, <1>3, <1>4, Zenon DEF Locate, IsNewest

\* The station's only live channel is found for a participant action.
LEMMA FoundPoints ==
    ASSUME IInv, PointerInv, NEW r \in Requests, Act(r) \/ Operate(r)
    PROVE  PointerCarried
<1> DEFINE e == task[r].ext
           g == OnlyLiveAt(e)
<1>1. /\ AsteriskInv /\ TasksInv /\ r \in Tasks /\ task[r] \in Task /\ e \in Stations
  BY LocalsOf, Requests_ DEF IInv, Act, Operate, At, LocalsInv, Placing
<1>2. ASSUME Others(r), task'[r].pc = "recover", g # None, channel' = channel,
             task'[r].ext = e, task'[r].chan = g
      PROVE  PointerCarried
  <2>1. AtStation(channel', task'[r].chan)
    BY <1>1, <1>2, FoundIsOf, StationChannel
  <2>2. PointerLocals(channel', call', task'[r])
    BY <1>1, <1>2, <2>1 DEF PointerLocals
  <2> QED
    BY <1>1, <1>2, <2>2, PointerCarriedAt
<1>3. ASSUME Others(r), task'[r].pc \in {"operate", "forget", "settle", "done"}
      PROVE  PointerCarried
  BY <1>1, <1>3, PointerCarriedAt DEF Pointing
<1>4. CASE Act(r)
  <2> DEFINE row == leg[task[r].call][e]
             h == IF row.channel # None THEN row.channel ELSE g
             k == [task[r] EXCEPT !.chan = h,
                                  !.pc = IF row.channel = h THEN "operate" ELSE "recover"]
  <2>1. Finish(r) \/ (h # None /\ Becomes(r, k))
    BY <1>4 DEF Act
  <2>2. channel' = channel
    BY <1>4 DEF Act, asteriskVars
  <2>3. ASSUME h # None, Becomes(r, k)
        PROVE  PointerCarried
    <3>1. /\ Others(r) /\ task'[r].ext = e /\ task'[r].chan = h
          /\ task'[r].pc = IF row.channel = h THEN "operate" ELSE "recover"
      BY <1>1, <2>3 DEF Becomes, TasksInv, Task, Others
    <3> QED
      BY <1>2, <1>3, <2>2, <2>3, <3>1
  <2> QED
    BY <1>1, <1>3, <2>1, <2>3, EndGoes, FinishGoes, Requests_
<1>5. CASE Operate(r)
  <2>1. \/ Goto(r, "settle") \/ Finish(r)
        \/ Becomes(r, [task[r] EXCEPT !.pc = "forget", !.next = "settle"])
        \/ /\ g # None /\ channel' = channel
           /\ Becomes(r, [task[r] EXCEPT !.pc = "recover", !.chan = g, !.old = g])
    BY <1>5, ZenonT(60) DEF Operate, asteriskVars
  <2>2. ASSUME g # None, channel' = channel,
               Becomes(r, [task[r] EXCEPT !.pc = "recover", !.chan = g, !.old = g])
        PROVE  PointerCarried
    <3> HIDE DEF g
    <3>1. /\ Others(r) /\ task'[r].pc = "recover" /\ task'[r].ext = e
          /\ task'[r].chan = g
      BY <1>1, <2>2 DEF Becomes, TasksInv, Task, Others
    <3> QED
      BY <1>2, <2>2, <3>1
  <2>3. ASSUME Becomes(r, [task[r] EXCEPT !.pc = "forget", !.next = "settle"])
        PROVE  Others(r) /\ task'[r].pc = "forget"
    BY <1>1, <2>3 DEF Becomes, TasksInv, Task, Others
  <2> QED
    BY <1>1, <1>3, <2>1, <2>2, <2>3, GotoGoes, FinishGoes, Requests_
<1> QED
  BY <1>4, <1>5

LEMMA InboundPoints ==
    ASSUME IInv, NEW h \in Channels, InboundEntered(h)
    PROVE  PointerCarried
<1> DEFINE e == channel[h].ext
           local == [task[Handler] EXCEPT !.kind = "inbound", !.ext = e, !.chan = h]
<1>1. /\ Handler \in Tasks /\ TasksInv /\ task[Handler] \in Task
      /\ channel' = channel /\ e \in Stations /\ AtStation(channel, h)
  BY HandlerTask DEF IInv, AsteriskInv, InboundEntered, Receives, AtStation
<1>2. ASSUME NEW c \in Calls, Becomes(Handler, [local EXCEPT !.pc = "answer", !.call = c])
      PROVE  PointerCarried
  <2>1. /\ Others(Handler) /\ task'[Handler].pc = "answer" /\ task'[Handler].ext = e
        /\ task'[Handler].chan = h
    BY <1>1, <1>2 DEF Becomes, TasksInv, Task, Others
  <2>2. PointerLocals(channel', call', task'[Handler])
    BY <1>1, <2>1 DEF PointerLocals
  <2> QED
    BY <1>1, <2>1, <2>2, PointerCarriedAt
<1>3. ASSUME Becomes(Handler, [local EXCEPT !.pc = "reject"])
      PROVE  PointerCarried
  <2>1. Others(Handler) /\ task'[Handler].pc = "reject"
    BY <1>1, <1>3 DEF Becomes, TasksInv, Task, Others
  <2> QED
    BY <1>1, <2>1, PointerCarriedAt DEF Pointing
<1> QED
  BY <1>2, <1>3 DEF InboundEntered

\* Where the event task goes when it takes no channel to a row.
LEMMA HandlerGoes ==
    ASSUME IInv, HandlerStep
    PROVE  \/ UNCHANGED task
           \/ Others(Handler) /\ task'[Handler].pc \notin Pointing
           \/ AnswerInbound /\ Goto(Handler, "join")
           \/ \E h \in Channels : InboundEntered(h)
           \/ ParticipantRung(Handler) \/ \E e \in Stations : RingParticipant(Handler, e)
<1>1. Handler \in Tasks /\ TasksInv /\ task[Handler] \in Task
  BY HandlerTask DEF IInv
<1>2. CASE \E h \in Channels : SourceEntered(h)
  <2>1. Others(Handler) /\ task'[Handler].pc = "targets"
    BY <1>1, <1>2 DEF SourceEntered, Becomes, TasksInv, Task, Others
  <2> QED
    BY <2>1 DEF Pointing
<1>3. CASE \E h \in Channels : CalleeEntered(h) \/ LegEnded(h)
  <2>1. \/ UNCHANGED task
        \/ Others(Handler) /\ task'[Handler].pc \in {"bridge", "cleanup"}
    <3>1. CASE \E h \in Channels : CalleeEntered(h)
      BY <1>1, <3>1 DEF CalleeEntered, Becomes, TasksInv, Task, Others
    <3>2. CASE \E h \in Channels : LegEnded(h)
      BY <1>1, <3>2 DEF LegEnded, Becomes, TasksInv, Task, Others
    <3> QED
      BY <1>3, <3>1, <3>2
  <2> QED
    BY <2>1 DEF Pointing
<1>4. CASE \E h \in Channels, type \in EventType : StateChanged(type, h)
  BY <1>4 DEF StateChanged
<1>5. CASE \/ AnswerInbound \/ ForgetChannel(Handler) \/ JoinInbound \/ MakeBridge
           \/ BridgeAdded \/ BridgeFailed
  <2>1. \/ AnswerInbound /\ Goto(Handler, "join")
        \/ \E l \in {"settle", "bridge", "bridge_made", "reject"} : Goto(Handler, l)
        \/ NotFound(Handler) \/ Finish(Handler)
    BY <1>5
    DEF AnswerInbound, ForgetChannel, JoinInbound, MakeBridge, BridgeAdded,
        BridgeFailed, Raised
  <2>2. ASSUME Becomes(Handler, [task[Handler] EXCEPT !.pc = "initiate", !.call = None,
                                                      !.chan = None])
        PROVE  Others(Handler) /\ task'[Handler].pc = "initiate"
    BY <1>1, <2>2 DEF Becomes, TasksInv, Task, Others
  <2> QED
    BY <1>1, <2>1, <2>2, GotoGoes, FinishGoes DEF NotFound, Pointing
<1>6. CASE AddToBridge
  <2> DEFINE k(S) == [task[Handler] EXCEPT !.pc = "bridge_added", !.legs = S]
  <2>1. \/ Goto(Handler, "bridge_failed") \/ Finish(Handler)
        \/ \E S : Becomes(Handler, k(S))
    BY <1>6 DEF AddToBridge
  <2>2. \A S : k(S).pc = "bridge_added"
    BY <1>1 DEF Task
  <2> HIDE DEF k
  <2> QED
    BY <1>1, <2>1, <2>2, BecomesGoes, GotoGoes, FinishGoes DEF Pointing
<1>7. CASE RejectInbound \/ Cleanup \/ Teardown
  <2> DEFINE forget == [task[Handler] EXCEPT !.pc = "forget", !.next = "done"]
             left(S) == [task[Handler] EXCEPT !.pc = "teardown", !.legs = S]
             fewer(h) == [task[Handler] EXCEPT !.legs = @ \ {h}]
  <2>1. /\ forget.pc = "forget" /\ \A S : left(S).pc = "teardown"
        /\ Teardown => \A h : fewer(h).pc = "teardown"
    BY <1>1 DEF Task, Teardown, At
  <2>2. \/ Finish(Handler) \/ Becomes(Handler, forget)
        \/ \E S : Becomes(Handler, left(S))
        \/ Teardown /\ \E h : Becomes(Handler, fewer(h))
    BY <1>7 DEF RejectInbound, Cleanup, Teardown
  <2> HIDE DEF forget, left, fewer
  <2> QED
    BY <1>1, <2>1, <2>2, BecomesGoes, FinishGoes DEF Pointing
<1> QED
  BY <1>2, <1>3, <1>4, <1>5, <1>6, <1>7 DEF HandlerStep

LEMMA NextPointerCarried ==
    ASSUME IInv, PointerInv, [Next]_vars, Roles, Births
    PROVE  PointerCarried
<1>1. TasksInv /\ Handler \in Tasks
  BY HandlerTask DEF IInv
<1>2. ASSUME NEW r \in Requests, Arrival(r) \/ RequestStep(r)
      PROVE  PointerCarried
  <2>1. r \in Tasks
    BY Requests_
  <2>2. ASSUME Others(r), task'[r].pc \notin Pointing
        PROVE  PointerCarried
    BY <2>1, <2>2, PointerCarriedAt
  <2>3. CASE Parts(r)
    BY <2>2, <2>3, PartsGoes
  <2>4. CASE SourceDialed(r)
    BY <2>1, <2>4, PassesPoints DEF SourceDialed, At
  <2>5. CASE Points(r) /\ ~SourceDialed(r)
    BY <2>1, <2>5, InitiatePoints, DialPoints, LocatePoints, RungPoints, RingPoints
    DEF Points
  <2> QED
    BY <1>2, <2>2, <2>3, <2>4, <2>5, RequestGoes, FoundPoints DEF Watched
<1>3. CASE HandlerStep
  <2>1. CASE AnswerInbound /\ Goto(Handler, "join")
    BY <1>1, <2>1, PassesPoints DEF AnswerInbound, At
  <2> QED
    BY <1>1, <1>3, <2>1, HandlerGoes, PointerCarriedAt, InboundPoints, RungPoints,
       RingPoints
    DEF PointerCarried
<1>4. CASE Restart
  <2>1. \A t \in Tasks : task'[t] \in {task[t], Resting("idle"), Resting("done")}
    BY <1>4 DEF Restart
  <2>2. Resting("idle").pc = "idle" /\ Resting("done").pc = "done"
    BY DEF Resting
  <2> QED
    BY <2>1, <2>2 DEF PointerCarried, PointerLocals
<1>5. CASE UNCHANGED task
  BY <1>5 DEF PointerCarried
<1> QED
  BY <1>2, <1>3, <1>4, <1>5 DEF Next, Phone, vars

-----------------------------------------------------------------------------
(* PointerInv holds initially, every step keeps it, and the theorems.         *)

LEMMA InitPointers ==
    ASSUME Init
    PROVE  PointerInv
<1>1. OriginInv /\ \A h \in Channels : channel[h].role # "source"
  BY InitOwn DEF OwnInv, Init, AsteriskInit
<1>2. \A c \in Calls, e \in Extensions : leg[c][e].channel = None
  BY DEF Init, StoreInit, NoLeg
<1>3. \A t \in Tasks : task[t].pc \in {"idle", "start"}
  BY DEF Init, Resting
<1>4. PointersAreUnique
  BY <1>2 DEF PointersAreUnique
<1> QED
  BY <1>1, <1>2, <1>3, <1>4, LocalValues DEF PointerInv, PointerLocals

LEMMA NextPointers ==
    ASSUME IInv, PointerInv, [Next]_vars
    PROVE  PointerInv'
<1>1. Roles /\ Births /\ PointerWrites
  BY NextRoles, NextPointerWrites
<1> QED
  BY <1>1, NextPointerCarried, PointerStep

\* Whether or not rows expire, the row of a controller never names another channel
\* than the one that was dialled for it and its call, a row of a station never
\* names one of those, and whoever writes the pointer of a station looks first
\* whether another row has the channel (call_service.py:34, 50, 262; main.py).
THEOREM PointerInvariance == Spec => []PointerInv
<1>1. Init => PointerInv
  BY InitPointers
<1>2. IInv /\ PointerInv /\ [Next]_vars => PointerInv'
  BY NextPointers
<1> QED
  BY <1>1, <1>2, Invariance, PTL DEF Spec

\* No two rows name one channel, for any number of calls, stations, requests and
\* faults, and whether or not rows expire: the writers that do not expect the
\* unique index to refuse, bind_asterisk_channel and the StasisStart of the
\* controller's channel, are never refused (call_service.py:34, 262).
THEOREM PointersTheorem == Spec => []PointersAreUnique
<1>1. PointerInv => PointersAreUnique
  BY DEF PointerInv
<1> QED
  BY <1>1, PointerInvariance, PTL
=============================================================================
