------------------------- MODULE CallBridging_proofs -------------------------
(***************************************************************************)
(* Proofs of BridgeCacheIsSound, BridgesHoldOwnChannels and                 *)
(* CoreDropsOwnChannels.  What is mapped for a call was dialled for it or   *)
(* belongs to its controller, so addChannel puts only channels of the call  *)
(* into its bridge, takes none out of a bridge that another call does not   *)
(* share, and what is left to hang up when a call ends is of that call;     *)
(* and only the event task, one event at a time, makes, fills and breaks    *)
(* bridges.                                                                 *)
(***************************************************************************)
EXTENDS CallOwnership_proofs

-----------------------------------------------------------------------------
(* BridgeCacheIsSound.  First the controllers: an entry of the map of a call  *)
(* is that of its own controller, and so is a channel about to be mapped.     *)

\* An entry of a controller is kept, removed, or made for the call's own.
SourceEntries ==
    \A c \in Calls, s \in Controllers :
        maps'[c].channel[s] # None => maps[c].channel[s] # None \/ s = call'[c].source

SourceCarried == \A t \in Tasks : task'[t] = task[t] \/ SourceLocals(call', task'[t])

LEMMA SourceLocalsStable ==
    ASSUME AsteriskInv, OriginInv, Births, NEW k, LocalsInv(channel, k),
           SourceLocals(call, k)
    PROVE  SourceLocals(call', k)
<1>1. CASE k.pc \in {"dial", "dialed", "route_stations", "rehydrate"}
  <2>1. k.call \in Calls /\ k.ctl \in Controllers
    BY <1>1 DEF LocalsInv, Callless, Routing
  <2>2. k.ctl = call[k.call].source /\ k.ctl # None
    BY <1>1, <2>1, TypesAssumption DEF SourceLocals
  <2> QED
    BY <2>1, <2>2, SourceStays DEF SourceLocals
<1>2. CASE k.pc \in {"add_source", "ring"} /\ k.chan # None
  <2>1. k.call \in Calls /\ IsOf(channel, k.chan, k.ctl)
    BY <1>2 DEF LocalsInv, Callless
  <2>2. k.ctl \in Extensions
    BY <2>1 DEF IsOf, Used, AsteriskInv
  <2>3. k.ctl = call[k.call].source /\ k.ctl # None
    BY <1>2, <2>2, TypesAssumption DEF SourceLocals, Extensions
  <2> QED
    BY <2>1, <2>3, SourceStays DEF SourceLocals
<1> QED
  BY <1>1, <1>2 DEF SourceLocals

LEMMA SourceStep ==
    ASSUME IInv, OwnInv, SourceInv, Births, SourceEntries, SourceCarried
    PROVE  SourceInv'
<1>1. AsteriskInv /\ OriginInv
  BY DEF IInv, OwnInv
<1>2. ASSUME NEW c \in Calls, NEW s \in Controllers, maps'[c].channel[s] # None
      PROVE  s = call'[c].source
  <2>1. CASE maps[c].channel[s] # None
    <3>1. s = call[c].source /\ s # None
      BY <2>1, TypesAssumption DEF SourceInv
    <3> QED
      BY <1>1, <3>1, SourceStays
  <2> QED
    BY <1>2, <2>1 DEF SourceEntries
<1>3. ASSUME NEW t \in Tasks
      PROVE  SourceLocals(call', task'[t])
  <2>1. LocalsInv(channel, task[t]) /\ SourceLocals(call, task[t])
    BY DEF IInv, TasksInv, SourceInv
  <2> QED
    BY <1>1, <2>1, SourceLocalsStable DEF SourceCarried
<1> QED
  BY <1>2, <1>3 DEF SourceInv

LEMMA SameSourceEntries ==
    ASSUME UNCHANGED maps
    PROVE  SourceEntries
BY DEF SourceEntries

LEMMA MapSourceEntries ==
    ASSUME AdapterInv, NEW c \in Calls, NEW m, maps' = [maps EXCEPT ![c] = m],
           \A s \in Controllers :
              m.channel[s] # None => maps[c].channel[s] # None \/ s = call'[c].source
    PROVE  SourceEntries
<1>1. \A d \in Calls : maps'[d] = IF d = c THEN m ELSE maps[d]
  BY DEF AdapterInv, AdapterTypeOK
<1> QED
  BY <1>1 DEF SourceEntries

LEMMA AttachSource ==
    ASSUME NEW m \in Maps, NEW e, NEW h, NEW s \in Controllers,
           Attach(m, e, h).channel[s] # None
    PROVE  m.channel[s] # None \/ s = e
BY AttachEntry, LocalValues

LEMMA AttachToSourceEntries ==
    ASSUME AdapterInv, NEW c \in Calls, NEW e, NEW h, AttachTo(c, e, h),
           e \in Controllers => e = call'[c].source
    PROVE  SourceEntries
<1> DEFINE m == Attach(maps[c], e, h)
<1>1. maps[c] \in Maps /\ maps' = [maps EXCEPT ![c] = m]
  BY DEF AttachTo, AdapterInv, AdapterTypeOK
<1>2. \A s \in Controllers :
         m.channel[s] # None => maps[c].channel[s] # None \/ s = call'[c].source
  BY <1>1, AttachSource
<1> HIDE DEF m
<1> QED
  BY <1>1, <1>2, MapSourceEntries

LEMMA ForgetSourceEntries ==
    ASSUME AdapterInv, NEW h, Forget(h)
    PROVE  SourceEntries
<1>1. CASE UNCHANGED adapterVars
  BY <1>1, SameSourceEntries DEF adapterVars
<1>2. ASSUME NEW c \in Calls, NEW e \in Extensions,
             maps' = [maps EXCEPT ![c] = Pop(@, {e}, h)]
      PROVE  SourceEntries
  <2> DEFINE m == Pop(maps[c], {e}, h)
  <2>1. \A s \in Controllers : m.channel[s] \in {None, maps[c].channel[s]}
    BY PopEntry, LocalValues
  <2>2. maps' = [maps EXCEPT ![c] = m]
    BY <1>2
  <2> HIDE DEF m
  <2>3. \A s \in Controllers : m.channel[s] # None => maps[c].channel[s] # None
    BY <2>1
  <2> QED
    BY <2>2, <2>3, MapSourceEntries
<1> QED
  BY <1>1, <1>2 DEF Forget

LEMMA UnmapSourceEntries ==
    ASSUME AdapterInv, NEW c \in Calls, NEW h, Unmap(c, h) \/ UnmapCall(c)
    PROVE  SourceEntries
<1>1. \A s \in Controllers : Unmapped(c, h).channel[s] \in {None, maps[c].channel[s]}
  BY PopEntry, LocalValues DEF Unmapped
<1>2. \A s \in Controllers : NoMaps.channel[s] = None
  BY LocalValues DEF NoMaps
<1> QED
  BY <1>1, <1>2, MapSourceEntries DEF Unmap, UnmapCall

LEMMA LocalSource ==
    ASSUME IInv, OwnInv, SourceInv, Births, NEW t \in Tasks
    PROVE  SourceLocals(call', task[t])
<1>1. LocalsInv(channel, task[t]) /\ SourceLocals(call, task[t])
  BY DEF IInv, TasksInv, SourceInv
<1> QED
  BY <1>1, SourceLocalsStable DEF IInv, OwnInv

LEMMA RehydrateSourceEntries ==
    ASSUME IInv, OwnInv, SourceInv, NEW r \in Requests, Rehydrate(r), Roles, Births
    PROVE  SourceEntries
<1> DEFINE c == task[r].call
           old == task[r].old
           m1 == Attach(maps[c], task[r].ctl, task[r].chan)
           m2 == Attach(m1, channel[old].ext, old)
<1>1. /\ r \in Tasks /\ task[r].pc = "rehydrate" /\ LocalsInv(channel, task[r])
      /\ AsteriskInv /\ AdapterInv
  BY LocalsOf, Requests_ DEF IInv, Rehydrate, At
<1>2. /\ c \in Calls /\ task[r].ctl \in Controllers /\ Used(channel, old)
      /\ IsOf(channel, task[r].chan, task[r].ctl)
  BY <1>1 DEF LocalsInv, Callless, Routing
<1>3. Own(channel, call, c, old)
  BY <1>1, <1>2, TypesAssumption DEF OwnInv, OwnLocals, Used
<1>4. channel[old].ext \notin Controllers
  BY <1>1, <1>2, <1>3, TypesAssumption DEF Own, AsteriskInv, Used
<1>5. maps[c] \in Maps /\ Paired(channel, maps[c]) /\ maps' = [maps EXCEPT ![c] = m2]
  BY <1>1, <1>2 DEF Rehydrate, AdapterInv, AdapterTypeOK
<1>6. m1 \in Maps
  BY <1>2, <1>5, AttachPairs, LocalValues
<1>7. task[r].ctl = call'[c].source
  BY <1>1, LocalSource DEF SourceLocals
<1>8. \A s \in Controllers :
         m1.channel[s] # None => maps[c].channel[s] # None \/ s = call'[c].source
  BY <1>5, <1>7, AttachSource
<1> HIDE DEF m1
<1>9. \A s \in Controllers : m2.channel[s] # None => m1.channel[s] # None
  BY <1>4, <1>6, AttachSource
<1> HIDE DEF m2
<1>10. \A s \in Controllers :
          m2.channel[s] # None => maps[c].channel[s] # None \/ s = call'[c].source
  BY <1>8, <1>9
<1> QED
  BY <1>1, <1>2, <1>5, <1>10, MapSourceEntries

LEMMA RingSourceEntries ==
    ASSUME IInv, OwnInv, SourceInv, NEW t \in Tasks, NEW e \in Stations,
           RingParticipant(t, e), Births
    PROVE  SourceEntries
<1> DEFINE c == task[t].call
<1>1. PICK m : m = IF t = Handler \/ task[t].chan = None THEN maps[c]
                   ELSE Attach(maps[c], task[t].ctl, task[t].chan)
  OBVIOUS
<1>2. maps' = [maps EXCEPT ![c] = m]
  BY <1>1, Zenon DEF RingParticipant
<1>3. c \in Calls /\ AdapterInv /\ maps[c] \in Maps
  BY <1>1, RingAttaches DEF IInv, AdapterInv, AdapterTypeOK
<1>4. t # Handler /\ task[t].chan # None => task[t].ctl = call'[c].source
  BY LocalSource, Zenon DEF RingParticipant, At, SourceLocals
<1>5. \A s \in Controllers :
         m.channel[s] # None => maps[c].channel[s] # None \/ s = call'[c].source
  BY <1>1, <1>3, <1>4, AttachSource
<1>6. \A d \in Calls : maps'[d] = IF d = c THEN m ELSE maps[d]
  BY <1>2, <1>3 DEF AdapterInv, AdapterTypeOK
<1> QED
  BY <1>5, <1>6 DEF SourceEntries

\* What a task attaches for a station is a channel of the station.
LEMMA LocalStation ==
    ASSUME IInv, OwnInv, NEW t \in Tasks,
           \/ task[t].pc \in {"rung", "answer"}
           \/ task[t].pc = "attach_leg"
    PROVE  task[t].call \in Calls /\ task[t].ext \notin Controllers
<1>1. AsteriskInv /\ LocalsInv(channel, task[t]) /\ OwnLocals(channel, call, task[t])
  BY DEF IInv, TasksInv, OwnInv
<1>2. task[t].call \in Calls
  BY <1>1 DEF LocalsInv, Callless
<1>3. CASE task[t].pc = "attach_leg"
  BY <1>1, <1>2, <1>3, TypesAssumption DEF LocalsInv, Placing
<1>4. CASE task[t].pc \in {"rung", "answer"}
  <2>1. /\ Own(channel, call, task[t].call, task[t].chan)
        /\ IsOf(channel, task[t].chan, task[t].ext)
    BY <1>1, <1>4 DEF OwnLocals, LocalsInv
  <2>2. task[t].ext \in Stations
    BY <1>1, <2>1 DEF Own, IsOf, Used, AsteriskInv
  <2> QED
    BY <1>2, <2>2, TypesAssumption
<1> QED
  BY <1>3, <1>4

LEMMA RungSourceEntries ==
    ASSUME IInv, OwnInv, NEW t \in Tasks, ParticipantRung(t)
    PROVE  SourceEntries
<1>1. AdapterInv /\ task[t].call \in Calls /\ task[t].ext \notin Controllers
  BY LocalStation DEF IInv, ParticipantRung, At
<1> QED
  BY <1>1, AttachToSourceEntries DEF ParticipantRung

LEMMA RequestSourceEntries ==
    ASSUME IInv, OwnInv, SourceInv, NEW r \in Requests, Arrival(r) \/ RequestStep(r),
           Roles, Births
    PROVE  SourceEntries
<1>1. /\ AdapterInv /\ r \in Tasks /\ task[r] \in Task /\ LocalsInv(channel, task[r])
  BY LocalsOf, Requests_ DEF IInv
<1>2. CASE Rehydrate(r)
  BY <1>2, RehydrateSourceEntries
<1>3. CASE SourceDialed(r)
  <2>1. task[r].call \in Calls /\ task[r].ctl = call'[task[r].call].source
    BY <1>1, <1>3, LocalSource DEF SourceDialed, At, LocalsInv, Callless, SourceLocals
  <2> QED
    BY <1>1, <1>3, <2>1, AttachToSourceEntries DEF SourceDialed
<1>4. CASE AddSource(r)
  <2>1. /\ task[r].call \in Calls
        /\ task[r].chan # None => task[r].ctl = call'[task[r].call].source
    BY <1>1, <1>4, LocalSource DEF AddSource, At, LocalsInv, Callless, SourceLocals
  <2> QED
    BY <1>1, <1>4, <2>1, AttachToSourceEntries, SameSourceEntries
    DEF AddSource, adapterVars
<1>5. CASE AttachLeg(r)
  <2>1. task[r].call \in Calls /\ task[r].ext \notin Controllers
    BY <1>1, <1>5, LocalStation DEF AttachLeg, At
  <2> QED
    BY <1>1, <1>5, <2>1, AttachToSourceEntries DEF AttachLeg
<1>6. CASE (\E e \in Stations : RingParticipant(r, e)) \/ ParticipantRung(r)
  BY <1>1, <1>6, RingSourceEntries, RungSourceEntries
<1>7. CASE ForgetChannel(r)
  BY <1>1, <1>7, ForgetSourceEntries DEF ForgetChannel
<1>8. CASE Arrival(r)
  BY <1>8, SameSourceEntries, Zenon
  DEF Arrival, CallStation, CallStations, ConferenceLookup, ParticipantAction,
      adapterVars
<1>9. CASE \/ Route(r) \/ RouteStations(r) \/ RetireCall(r) \/ DropSource(r)
           \/ OutOfCalls(r) \/ InitiateCall(r) \/ DialSource(r) \/ BindSource(r)
           \/ FailCall(r)
  BY <1>9, SameSourceEntries, Zenon
  DEF Route, RouteStations, RetireCall, DropSource, OutOfCalls, InitiateCall,
      DialSource, BindSource, FailCall, adapterVars
<1>10. CASE \/ Connect(r) \/ PromoteCall(r) \/ Enroll(r) \/ ReopenLeg(r)
            \/ FindSource(r) \/ MarkLeg(r)
  BY <1>10, SameSourceEntries
  DEF Connect, PromoteCall, Enroll, ReopenLeg, FindSource, MarkLeg, adapterVars
<1>11. CASE \/ Locate(r) \/ Repoint(r) \/ Act(r) \/ Recover(r) \/ Operate(r)
            \/ Settle(r) \/ LookupFails(r)
  BY <1>11, SameSourceEntries, Zenon
  DEF Locate, Repoint, Act, Recover, Operate, Settle, LookupFails, adapterVars
<1> QED
  BY <1>2, <1>3, <1>4, <1>5, <1>6, <1>7, <1>8, <1>9, <1>10, <1>11 DEF RequestStep

LEMMA HandlerSourceEntries ==
    ASSUME IInv, OwnInv, SourceInv, HandlerStep, Roles, Births
    PROVE  SourceEntries
<1>1. /\ AdapterInv /\ Handler \in Tasks /\ LocalsInv(channel, task[Handler])
  BY HandlerTask DEF IInv
<1>2. CASE \/ \E e \in Stations : RingParticipant(Handler, e)
           \/ ParticipantRung(Handler)
  BY <1>1, <1>2, RingSourceEntries, RungSourceEntries
<1>3. CASE ForgetChannel(Handler)
  BY <1>1, <1>3, ForgetSourceEntries DEF ForgetChannel
<1>4. CASE AnswerInbound
  <2>1. task[Handler].call \in Calls /\ task[Handler].ext \notin Controllers
    BY <1>1, <1>4, LocalStation DEF AnswerInbound, At
  <2> QED
    BY <1>1, <1>4, <2>1, AttachToSourceEntries DEF AnswerInbound
<1>5. CASE Cleanup
  <2>1. task[Handler].call \in Calls
    BY <1>1, <1>5 DEF Cleanup, At, LocalsInv, Callless
  <2> QED
    BY <1>1, <1>5, <2>1, UnmapSourceEntries DEF Cleanup
<1>6. CASE \E h \in Channels :
             \/ SourceEntered(h) \/ CalleeEntered(h) \/ InboundEntered(h)
             \/ \E type \in EventType : StateChanged(type, h)
             \/ LegEnded(h)
  BY <1>6, SameSourceEntries, Zenon
  DEF SourceEntered, CalleeEntered, InboundEntered, StateChanged, LegEnded, adapterVars
<1>7. CASE \/ JoinInbound \/ MakeBridge \/ AddToBridge \/ BridgeAdded \/ BridgeFailed
           \/ RejectInbound \/ Teardown
  BY <1>7, SameSourceEntries, Zenon
  DEF JoinInbound, MakeBridge, AddToBridge, BridgeKnown, BridgeAdded, BridgedNow,
      BridgeFailed, BridgeForgotten, RejectInbound, Teardown, adapterVars
<1> QED
  BY <1>2, <1>3, <1>4, <1>5, <1>6, <1>7 DEF HandlerStep

LEMMA NextSourceEntries ==
    ASSUME IInv, OwnInv, SourceInv, [Next]_vars, Roles, Births
    PROVE  SourceEntries
<1>1. CASE Restart
  BY <1>1, LocalValues DEF Restart, NoMaps, SourceEntries
<1>2. CASE \E h \in Channels : Phone(h)
  BY <1>2, SameSourceEntries DEF Phone, adapterVars
<1>3. CASE UNCHANGED vars
  BY <1>3, SameSourceEntries DEF vars, adapterVars
<1> QED
  BY <1>1, <1>2, <1>3, RequestSourceEntries, HandlerSourceEntries DEF Next

-----------------------------------------------------------------------------
(* What the tasks know of the controller.                                    *)

Sourcing == {"dial", "dialed", "route_stations", "rehydrate", "add_source", "ring"}

LEMMA SourceMove ==
    ASSUME TasksInv, NEW t \in Tasks, NEW k, Becomes(t, k),
           k.pc \in Sourcing => SourceLocals(call', k)
    PROVE  SourceCarried
<1>1. \A u \in Tasks : task'[u] = IF u = t THEN k ELSE task[u]
  BY DEF Becomes, TasksInv
<1>2. SourceLocals(call', k)
  BY DEF SourceLocals, Sourcing
<1> QED
  BY <1>1, <1>2 DEF SourceCarried

LEMMA SourceQuiet ==
    ASSUME NEW t \in Tasks, \A u \in Tasks \ {t} : task'[u] = task[u],
           task'[t].pc \notin Sourcing
    PROVE  SourceCarried
BY DEF SourceCarried, SourceLocals, Sourcing

LEMMA SourceStill ==
    ASSUME UNCHANGED task
    PROVE  SourceCarried
BY DEF SourceCarried

LEMMA SourceGoto ==
    ASSUME TasksInv, NEW t \in Tasks, NEW l, l \notin Sourcing, Goto(t, l)
    PROVE  SourceCarried
<1> DEFINE k == [task[t] EXCEPT !.pc = l]
<1>1. k.pc = l
  BY LocalsOf DEF Task
<1>2. Becomes(t, k)
  BY DEF Goto
<1> HIDE DEF k
<1> QED
  BY <1>1, <1>2, SourceMove

LEMMA SourceFinish ==
    ASSUME TasksInv, NEW t \in Tasks, Finish(t)
    PROVE  SourceCarried
<1> DEFINE l == IF t = Handler THEN "idle" ELSE "done"
<1>1. Resting(l).pc = l /\ l \notin Sourcing
  BY DEF Resting, Sourcing
<1>2. Becomes(t, Resting(l))
  BY DEF Finish
<1> HIDE DEF l
<1> QED
  BY <1>1, <1>2, SourceMove

LEMMA SourceNotFound ==
    ASSUME TasksInv, NEW t \in Tasks, NotFound(t)
    PROVE  SourceCarried
<1> DEFINE k == [task[t] EXCEPT !.pc = "initiate", !.call = None, !.chan = None]
<1>1. k.pc = "initiate" /\ "initiate" \notin Sourcing
  BY LocalsOf DEF Task, Sourcing
<1>2. Becomes(t, k) \/ Finish(t)
  BY DEF NotFound
<1> HIDE DEF k
<1> QED
  BY <1>1, <1>2, SourceMove, SourceFinish

\* The call that a lookup goes on with is one of the controller it asks for.
LEMMA SourceRoute ==
    ASSUME IInv, OwnInv, NEW r \in Requests, Route(r), Births
    PROVE  SourceCarried
<1>1. /\ r \in Tasks /\ TasksInv /\ task[r] \in Task
      /\ task[r].ctl \in Controllers
  BY LocalsOf, Requests_, Zenon DEF IInv, Route, At, LocalsInv, Routing
<1>2. ASSUME NEW c \in Calls, c \in Candidates(r),
             Becomes(r, [task[r] EXCEPT !.pc = "route_stations", !.call = c,
                                        !.chan = OnlyLiveAt(task[r].ctl)])
      PROVE  SourceCarried
  <2> DEFINE h == OnlyLiveAt(task[r].ctl)
             k == [task[r] EXCEPT !.pc = "route_stations", !.call = c, !.chan = h]
  <2> HIDE DEF h
  <2>1. Becomes(r, k)
    BY <1>2 DEF h
  <2>2. k.pc = "route_stations" /\ k.call = c /\ k.ctl = task[r].ctl
    BY <1>1 DEF Task
  <2>3. call[c].source = task[r].ctl
    BY <1>2 DEF Candidates, ActiveCalls, ActiveConferences
  <2>4. call'[c].source = task[r].ctl
    BY <1>1, <2>3, SourceStays, TypesAssumption DEF OwnInv
  <2>5. SourceLocals(call', k)
    BY <2>2, <2>4 DEF SourceLocals
  <2> HIDE DEF k
  <2> QED
    BY <1>1, <2>1, <2>5, SourceMove
<1> QED
  BY <1>1, <1>2, SourceNotFound, SourceFinish, Zenon DEF Route, IsNewest

LEMMA SourceRouteStations ==
    ASSUME IInv, OwnInv, SourceInv, NEW r \in Requests, RouteStations(r), Births
    PROVE  SourceCarried
<1>1. /\ r \in Tasks /\ TasksInv /\ task[r] \in Task
      /\ task[r].pc = "route_stations"
  BY LocalsOf, Requests_, Zenon DEF IInv, RouteStations, At
<1>2. ASSUME NEW e, Becomes(r, [task[r] EXCEPT !.pc = "rehydrate", !.old = LiveLeg(r, e)])
      PROVE  SourceCarried
  <2> DEFINE h == LiveLeg(r, e)
             k == [task[r] EXCEPT !.pc = "rehydrate", !.old = h]
  <2>1. Becomes(r, k)
    BY <1>2
  <2> HIDE DEF h
  <2>2. k.pc = "rehydrate" /\ k.call = task[r].call /\ k.ctl = task[r].ctl
    BY <1>1 DEF Task
  <2>3. SourceLocals(call', k)
    BY <1>1, <2>2, LocalSource DEF SourceLocals
  <2> HIDE DEF k
  <2> QED
    BY <1>1, <2>1, <2>3, SourceMove
<1> QED
  BY <1>1, <1>2, SourceGoto, SourceFinish, Zenon DEF RouteStations, Sourcing

\* A new call is given the controller of the request.
LEMMA SourceInitiate ==
    ASSUME IInv, NEW r \in Requests, InitiateCall(r)
    PROVE  SourceCarried
<1>1. r \in Tasks /\ TasksInv /\ task[r] \in Task /\ StoreTypeOK
  BY LocalsOf, Requests_ DEF IInv
<1>2. PICK c \in Calls :
         /\ \/ InitiateConference(c, task[r].ctl, task[r].todo)
            \/ Initiate(c, task[r].ctl, task[r].ext)
         /\ Becomes(r, [task[r] EXCEPT !.pc = "dial", !.call = c])
  BY Zenon DEF InitiateCall, Absent
<1> DEFINE k == [task[r] EXCEPT !.pc = "dial", !.call = c]
<1>3. Becomes(r, k)
  BY <1>2
<1>4. k.pc = "dial" /\ k.call = c /\ k.ctl = task[r].ctl
  BY <1>1 DEF Task
<1>5. call'[c].source = task[r].ctl
  <2>1. PICK T, state, conference : Create(c, task[r].ctl, T, state, conference)
    BY <1>2 DEF InitiateConference, Initiate
  <2> QED
    BY <1>1, <2>1 DEF Create, StoreTypeOK
<1>6. SourceLocals(call', k)
  BY <1>4, <1>5 DEF SourceLocals
<1> HIDE DEF k
<1> QED
  BY <1>1, <1>3, <1>6, SourceMove

LEMMA SourceDial ==
    ASSUME IInv, OwnInv, SourceInv, NEW r \in Requests, DialSource(r), Births
    PROVE  SourceCarried
<1>1. /\ r \in Tasks /\ TasksInv /\ task[r] \in Task /\ task[r].pc = "dial"
  BY LocalsOf, Requests_, Zenon DEF IInv, DialSource, At
<1>2. ASSUME NEW h, Becomes(r, [task[r] EXCEPT !.pc = "dialed", !.chan = h])
      PROVE  SourceCarried
  <2> DEFINE k == [task[r] EXCEPT !.pc = "dialed", !.chan = h]
  <2>1. Becomes(r, k)
    BY <1>2
  <2>2. k.pc = "dialed" /\ k.call = task[r].call /\ k.ctl = task[r].ctl
    BY <1>1 DEF Task
  <2>3. SourceLocals(call', k)
    BY <1>1, <2>2, LocalSource DEF SourceLocals
  <2> HIDE DEF k
  <2> QED
    BY <1>1, <2>1, <2>3, SourceMove
<1> QED
  BY <1>1, <1>2, SourceGoto, Zenon DEF DialSource, Sourcing

LEMMA SourceRouting ==
    ASSUME IInv, NEW r \in Requests,
           \/ Rehydrate(r) \/ RetireCall(r) \/ DropSource(r) \/ OutOfCalls(r)
           \/ SourceDialed(r) \/ BindSource(r) \/ FailCall(r)
    PROVE  SourceCarried
<1>1. r \in Tasks /\ TasksInv /\ task[r] \in Task
  BY LocalsOf, Requests_ DEF IInv
<1>2. \/ /\ \A u \in Tasks \ {r} : task'[u] = task[u]
         /\ task'[r].pc \in {"connect", "forget"}
      \/ \E l \in {"drop_source", "bind"} : Goto(r, l)
      \/ NotFound(r) \/ Finish(r)
  <2>1. CASE Rehydrate(r) \/ RetireCall(r) \/ DropSource(r)
    BY <1>1, <2>1, ZenonT(60) DEF Rehydrate, RetireCall, DropSource, Becomes, TasksInv, Task
  <2>2. CASE OutOfCalls(r) \/ SourceDialed(r) \/ BindSource(r) \/ FailCall(r)
    BY <2>2 DEF OutOfCalls, SourceDialed, BindSource, FailCall
  <2> QED
    BY <2>1, <2>2
<1> QED
  BY <1>1, <1>2, SourceQuiet, SourceGoto, SourceNotFound, SourceFinish DEF Sourcing

\* The controller's channel that is looked up for a call is at the call's own.
LEMMA FoundSource ==
    ASSUME AsteriskInv, OriginInv, Births, NEW c \in Calls,
           OnlyLiveAt(call[c].source) # None
    PROVE  call'[c].source = call[c].source
<1>1. call[c].source \in Extensions
  BY FoundIsOf
<1> QED
  BY <1>1, SourceStays, TypesAssumption DEF Extensions

LEMMA SourceConnect ==
    ASSUME IInv, NEW r \in Requests, Connect(r)
    PROVE  SourceCarried
<1> DEFINE h == leg[task[r].call][task[r].ext].channel
           pc == IF h = None THEN "find_source"
                 ELSE IF LiveAs(h, task[r].ext) THEN "attach_leg" ELSE "reopen"
           k == [task[r] EXCEPT !.old = h, !.chan = None, !.next = "find_source", !.pc = pc]
<1>1. r \in Tasks /\ TasksInv /\ task[r] \in Task
  BY LocalsOf, Requests_ DEF IInv
<1>2. Goto(r, "promote") \/ Becomes(r, k) \/ Finish(r)
  BY DEF Connect, Pursue
<1>3. pc \notin Sourcing
  BY DEF Sourcing
<1> HIDE DEF pc, h
<1>4. k.pc = pc
  BY <1>1 DEF Task
<1> HIDE DEF k
<1> QED
  BY <1>1, <1>2, <1>3, <1>4, SourceMove, SourceGoto, SourceFinish DEF Sourcing

LEMMA SourceEnroll ==
    ASSUME IInv, OwnInv, NEW r \in Requests, Enroll(r), Births
    PROVE  SourceCarried
<1> DEFINE c == task[r].call
           h == leg[c][task[r].ext].channel
           s == call[c].source
           g == OnlyLiveAt(s)
           k == [task[r] EXCEPT !.pc = "add_source", !.old = h, !.chan = g, !.ctl = s]
<1>1. /\ r \in Tasks /\ TasksInv /\ task[r] \in Task /\ c \in Calls
      /\ AsteriskInv /\ OriginInv
  BY LocalsOf, Requests_, Zenon DEF IInv, OwnInv, Enroll, At, LocalsInv, Callless
<1>2. g # None => call'[c].source = s
  BY <1>1, FoundSource
<1>3. Becomes(r, k) \/ Finish(r)
  BY DEF Enroll
<1> HIDE DEF h, s, g
<1>4. k.pc = "add_source" /\ k.chan = g /\ k.call = c /\ k.ctl = s
  BY <1>1 DEF Task
<1>5. SourceLocals(call', k)
  BY <1>2, <1>4 DEF SourceLocals
<1> HIDE DEF k
<1> QED
  BY <1>1, <1>3, <1>5, SourceMove, SourceFinish

LEMMA SourceAddSource ==
    ASSUME IInv, OwnInv, SourceInv, NEW r \in Requests, AddSource(r), Births
    PROVE  SourceCarried
<1> DEFINE h == task[r].old
           pc == IF h = None THEN "ring"
                 ELSE IF LiveAs(h, task[r].ext) THEN "attach_leg" ELSE "reopen"
           g == IF h = None THEN task[r].chan ELSE None
           k == [task[r] EXCEPT !.old = h, !.chan = g, !.next = "ring", !.pc = pc]
<1>1. /\ r \in Tasks /\ TasksInv /\ task[r] \in Task /\ task[r].pc = "add_source"
  BY LocalsOf, Requests_ DEF IInv, AddSource, At
<1>2. Becomes(r, k)
  BY DEF AddSource, Pursue
<1>3. pc = "ring" /\ g # None => task[r].ctl = call'[task[r].call].source
  BY <1>1, LocalSource DEF SourceLocals
<1>4. pc \in {"ring", "attach_leg", "reopen"}
  OBVIOUS
<1> HIDE DEF pc, h, g
<1>5. k.pc = pc /\ k.chan = g /\ k.call = task[r].call /\ k.ctl = task[r].ctl
  BY <1>1 DEF Task
<1>6. SourceLocals(call', k)
  BY <1>3, <1>4, <1>5 DEF SourceLocals
<1> HIDE DEF k
<1> QED
  BY <1>1, <1>2, <1>6, SourceMove

LEMMA SourceReopen ==
    ASSUME IInv, NEW r \in Requests, ReopenLeg(r)
    PROVE  SourceCarried
<1> DEFINE k == [task[r] EXCEPT !.pc = task[r].next]
<1>1. /\ r \in Tasks /\ TasksInv /\ task[r] \in Task
      /\ task[r].chan = None /\ task[r].next \in {"find_source", "ring"}
  BY LocalsOf, Requests_ DEF IInv, ReopenLeg, At, LocalsInv
<1>2. Becomes(r, k)
  BY DEF ReopenLeg, Goto
<1>3. k.pc = task[r].next /\ k.chan = None
  BY <1>1 DEF Task
<1>4. SourceLocals(call', k)
  BY <1>1, <1>3 DEF SourceLocals
<1> HIDE DEF k
<1> QED
  BY <1>1, <1>2, <1>4, SourceMove

LEMMA SourceFind ==
    ASSUME IInv, OwnInv, NEW r \in Requests, FindSource(r), Births
    PROVE  SourceCarried
<1> DEFINE c == task[r].call
           s == call[c].source
           h == OnlyLiveAt(s)
           k == [task[r] EXCEPT !.pc = "ring", !.ctl = s, !.chan = h]
<1>1. /\ r \in Tasks /\ TasksInv /\ task[r] \in Task /\ c \in Calls
      /\ AsteriskInv /\ OriginInv
  BY LocalsOf, Requests_ DEF IInv, OwnInv, FindSource, At, LocalsInv, Callless
<1>2. h # None => call'[c].source = s
  BY <1>1, FoundSource
<1>3. Becomes(r, k) \/ Finish(r)
  BY DEF FindSource
<1> HIDE DEF s, h
<1>4. k.chan = h /\ k.call = c /\ k.ctl = s /\ k.pc = "ring"
  BY <1>1 DEF Task
<1>5. SourceLocals(call', k)
  BY <1>2, <1>4 DEF SourceLocals
<1> HIDE DEF k
<1> QED
  BY <1>1, <1>3, <1>5, SourceMove, SourceFinish

LEMMA SourceRing ==
    ASSUME IInv, NEW t \in Tasks, NEW e \in Stations, RingParticipant(t, e)
    PROVE  SourceCarried
<1> DEFINE left == task[t].todo \ {e}
           mark(h) == [task[t] EXCEPT !.pc = "mark", !.chan = h]
           rung(h) == [task[t] EXCEPT !.pc = "rung", !.chan = h, !.ext = e, !.todo = left]
           next == [task[t] EXCEPT !.todo = left]
<1>1. TasksInv /\ task[t] \in Task /\ (t = Handler => task[t].pc = "targets")
  BY LocalsOf, Zenon DEF IInv, RingParticipant, At
<1>2. \/ Finish(t)
      \/ \E h : Becomes(t, mark(h)) \/ Becomes(t, rung(h))
      \/ t = Handler /\ Becomes(t, next)
  BY Zenon DEF RingParticipant
<1>3. /\ \A h : mark(h).pc \notin Sourcing /\ rung(h).pc \notin Sourcing
      /\ t = Handler => next.pc \notin Sourcing
  BY <1>1 DEF Task, Sourcing
<1> HIDE DEF mark, rung, next
<1> QED
  BY <1>1, <1>2, <1>3, SourceMove, SourceFinish

LEMMA SourceActing ==
    ASSUME IInv, NEW r \in Requests,
           \/ Repoint(r) \/ Act(r) \/ Recover(r) \/ Operate(r)
           \/ ForgetChannel(r) \/ Settle(r) \/ LookupFails(r)
    PROVE  SourceCarried
<1>1. /\ r \in Tasks /\ TasksInv /\ task[r] \in Task /\ LocalsInv(channel, task[r])
  BY LocalsOf, Requests_ DEF IInv
<1>2. CASE Repoint(r)
  <2> DEFINE k == [task[r] EXCEPT !.pc = task[r].next, !.chan = None]
  <2>1. k.pc \in {"connect", "act"}
    BY <1>1, <1>2 DEF Repoint, At, LocalsInv, Task
  <2>2. Becomes(r, k) \/ Finish(r)
    BY <1>2 DEF Repoint
  <2> HIDE DEF k
  <2> QED
    BY <1>1, <2>1, <2>2, SourceMove, SourceFinish DEF Sourcing
<1>3. CASE Act(r)
  <2> DEFINE row == leg[task[r].call][task[r].ext]
             h == IF row.channel # None THEN row.channel ELSE OnlyLiveAt(task[r].ext)
             pc == IF row.channel = h THEN "operate" ELSE "recover"
             k == [task[r] EXCEPT !.chan = h, !.pc = pc]
  <2>1. Becomes(r, k) \/ Finish(r)
    BY <1>3 DEF Act
  <2>2. pc \in {"operate", "recover"}
    OBVIOUS
  <2> HIDE DEF h, pc
  <2>3. k.pc = pc
    BY <1>1 DEF Task
  <2> HIDE DEF k
  <2> QED
    BY <1>1, <2>1, <2>2, <2>3, SourceMove, SourceFinish DEF Sourcing
<1>4. CASE Operate(r)
  <2>1. \/ /\ \A u \in Tasks \ {r} : task'[u] = task[u]
           /\ task'[r].pc \in {"recover", "forget"}
        \/ Goto(r, "settle") \/ Finish(r)
    BY <1>1, <1>4 DEF Operate, Becomes, TasksInv, Task
  <2> QED
    BY <1>1, <2>1, SourceQuiet, SourceGoto, SourceFinish DEF Sourcing
<1>5. CASE Recover(r) \/ ForgetChannel(r) \/ Settle(r) \/ LookupFails(r)
  <2>1. Goto(r, "operate") \/ Goto(r, "settle") \/ NotFound(r) \/ Finish(r)
    BY <1>5 DEF Recover, ForgetChannel, Settle, LookupFails
  <2> QED
    BY <1>1, <2>1, SourceGoto, SourceNotFound, SourceFinish DEF Sourcing
<1> QED
  BY <1>2, <1>3, <1>4, <1>5

LEMMA SourceLocate ==
    ASSUME IInv, NEW r \in Requests, Locate(r)
    PROVE  SourceCarried
<1> DEFINE onward == IF task[r].kind = "connect" THEN "connect" ELSE "act"
           there(c) == [task[r] EXCEPT !.pc = onward, !.call = c]
           repoint(c) == [task[r] EXCEPT !.pc = "repoint", !.call = c, !.next = onward,
                                         !.chan = Seen(c, task[r].ext)]
<1>1. r \in Tasks /\ TasksInv /\ task[r] \in Task
  BY LocalsOf, Requests_ DEF IInv
<1>2. \A c \in Calls : there(c).pc \notin Sourcing /\ repoint(c).pc \notin Sourcing
  BY <1>1 DEF Task, Sourcing
<1>3. \/ Finish(r)
      \/ \E c \in Calls : Becomes(r, there(c)) \/ Becomes(r, repoint(c))
  BY Zenon DEF Locate
<1> HIDE DEF there, repoint
<1> QED
  BY <1>1, <1>2, <1>3, SourceMove, SourceFinish

LEMMA SourceArrival ==
    ASSUME IInv, NEW r \in Requests, Arrival(r)
    PROVE  SourceCarried
<1>1. r \in Tasks /\ TasksInv /\ task[r] \in Task
  BY LocalsOf, Requests_ DEF IInv
<1>2. /\ \A u \in Tasks \ {r} : task'[u] = task[u]
      /\ task'[r].pc \in {"route", "initiate", "locate"}
  <2>1. CASE \E e \in Stations : CallStation(r, e)
    BY <1>1, <2>1 DEF CallStation, Becomes, TasksInv, Task
  <2>2. CASE \E T \in SUBSET Stations : CallStations(r, T)
    BY <1>1, <2>2 DEF CallStations, Becomes, TasksInv, Task
  <2>3. CASE \E s \in Controllers : ConferenceLookup(r, s)
    BY <1>1, <2>3 DEF ConferenceLookup, Becomes, TasksInv, Task
  <2>4. CASE \E e \in Stations, a \in Actions : ParticipantAction(r, e, a)
    BY <1>1, <2>4 DEF ParticipantAction, Becomes, TasksInv, Task
  <2> QED
    BY <2>1, <2>2, <2>3, <2>4 DEF Arrival
<1> QED
  BY <1>1, <1>2, SourceQuiet DEF Sourcing

LEMMA SourceRequest ==
    ASSUME IInv, OwnInv, SourceInv, NEW r \in Requests, Arrival(r) \/ RequestStep(r),
           Births
    PROVE  SourceCarried
<1>1. r \in Tasks /\ TasksInv
  BY Requests_ DEF IInv
<1>2. CASE \/ Arrival(r) \/ Route(r) \/ RouteStations(r) \/ Rehydrate(r)
           \/ RetireCall(r) \/ DropSource(r) \/ OutOfCalls(r) \/ InitiateCall(r)
           \/ DialSource(r) \/ SourceDialed(r) \/ BindSource(r) \/ FailCall(r)
  BY <1>2, SourceArrival, SourceRoute, SourceRouteStations, SourceInitiate, SourceDial,
     SourceRouting
<1>3. CASE \/ Connect(r) \/ Enroll(r) \/ AddSource(r) \/ ReopenLeg(r) \/ FindSource(r)
           \/ \E e \in Stations : RingParticipant(r, e)
  BY <1>1, <1>3, SourceConnect, SourceEnroll, SourceAddSource, SourceReopen, SourceFind,
     SourceRing
<1>4. CASE PromoteCall(r) \/ AttachLeg(r) \/ ParticipantRung(r) \/ MarkLeg(r)
  <2>1. \E l \in {"enroll", "mark", "targets"} : Goto(r, l) \/ Finish(r)
    BY <1>4 DEF PromoteCall, AttachLeg, ParticipantRung, MarkLeg
  <2> QED
    BY <1>1, <2>1, SourceGoto, SourceFinish DEF Sourcing
<1>5. CASE \/ Locate(r) \/ Repoint(r) \/ Act(r) \/ Recover(r) \/ Operate(r)
           \/ ForgetChannel(r) \/ Settle(r) \/ LookupFails(r)
  BY <1>5, SourceLocate, SourceActing
<1> QED
  BY <1>2, <1>3, <1>4, <1>5 DEF RequestStep

\* An inbound leg is answered or rejected.
LEMMA InboundGoes ==
    ASSUME IInv, NEW h, InboundEntered(h)
    PROVE  /\ \A u \in Tasks \ {Handler} : task'[u] = task[u]
           /\ task'[Handler].pc \in {"answer", "reject"}
<1> DEFINE local == [task[Handler] EXCEPT !.kind = "inbound", !.ext = channel[h].ext,
                                          !.chan = h]
           reject == [local EXCEPT !.pc = "reject"]
           answer(c) == [local EXCEPT !.pc = "answer", !.call = c]
<1>1. Handler \in Tasks /\ TasksInv /\ task[Handler] \in Task
  BY HandlerTask DEF IInv
<1>2. Becomes(Handler, reject) \/ \E c : Becomes(Handler, answer(c))
  BY DEF InboundEntered
<1>3. reject.pc = "reject" /\ \A c : answer(c).pc = "answer"
  BY <1>1 DEF Task
<1> HIDE DEF reject, answer
<1>4. ASSUME NEW k, Becomes(Handler, k)
      PROVE  task'[Handler] = k /\ \A u \in Tasks \ {Handler} : task'[u] = task[u]
  BY <1>1, <1>4 DEF Becomes, TasksInv
<1> QED
  BY <1>2, <1>3, <1>4

LEMMA SourceHandler ==
    ASSUME IInv, HandlerStep
    PROVE  SourceCarried
<1>1. Handler \in Tasks /\ TasksInv /\ task[Handler] \in Task
  BY HandlerTask DEF IInv
<1>2. CASE \E e \in Stations : RingParticipant(Handler, e)
  BY <1>1, <1>2, SourceRing
<1>3. CASE \E h \in Channels :
             SourceEntered(h) \/ CalleeEntered(h) \/ InboundEntered(h) \/ LegEnded(h)
  <2>1. \/ UNCHANGED task
        \/ /\ \A u \in Tasks \ {Handler} : task'[u] = task[u]
           /\ task'[Handler].pc \in {"targets", "bridge", "answer", "reject", "cleanup"}
    <3>1. CASE \E h \in Channels : SourceEntered(h)
      BY <1>1, <3>1 DEF SourceEntered, Becomes, TasksInv, Task
    <3>2. CASE \E h \in Channels : CalleeEntered(h)
      BY <1>1, <3>2, ZenonT(60) DEF CalleeEntered, Becomes, TasksInv, Task
    <3>3. CASE \E h \in Channels : InboundEntered(h)
      BY <3>3, InboundGoes
    <3>4. CASE \E h \in Channels : LegEnded(h)
      BY <1>1, <3>4, ZenonT(60) DEF LegEnded, Becomes, TasksInv, Task
    <3> QED
      BY <1>3, <3>1, <3>2, <3>3, <3>4
  <2> QED
    BY <1>1, <2>1, SourceQuiet, SourceStill DEF Sourcing
<1>4. CASE \E h \in Channels, type \in EventType : StateChanged(type, h)
  BY <1>4, SourceStill DEF StateChanged
<1>5. CASE \/ ParticipantRung(Handler) \/ ForgetChannel(Handler) \/ AnswerInbound
           \/ JoinInbound \/ MakeBridge \/ BridgeAdded \/ BridgeFailed
  <2>1. \/ \E l \in {"mark", "targets", "settle", "join", "bridge", "bridge_made",
                     "reject"} : Goto(Handler, l)
        \/ NotFound(Handler) \/ Finish(Handler)
    BY <1>5 DEF ParticipantRung, ForgetChannel, AnswerInbound, JoinInbound, MakeBridge,
                BridgeAdded, BridgeFailed, Raised
  <2> QED
    BY <1>1, <2>1, SourceGoto, SourceNotFound, SourceFinish DEF Sourcing
<1>6. CASE AddToBridge \/ RejectInbound \/ Cleanup \/ Teardown
  <2> DEFINE added(S) == [task[Handler] EXCEPT !.pc = "bridge_added", !.legs = S]
             forget == [task[Handler] EXCEPT !.pc = "forget", !.next = "done"]
             left(S) == [task[Handler] EXCEPT !.pc = "teardown", !.legs = S]
             fewer(h) == [task[Handler] EXCEPT !.legs = @ \ {h}]
  <2>1. /\ forget.pc \notin Sourcing
        /\ \A S : added(S).pc \notin Sourcing /\ left(S).pc \notin Sourcing
        /\ Teardown => \A h : fewer(h).pc \notin Sourcing
    BY <1>1 DEF Task, Sourcing, Teardown, At
  <2>2. \/ Finish(Handler) \/ Goto(Handler, "bridge_failed") \/ Becomes(Handler, forget)
        \/ \E S : Becomes(Handler, added(S)) \/ Becomes(Handler, left(S))
        \/ Teardown /\ \E h : Becomes(Handler, fewer(h))
    BY <1>6, Zenon DEF AddToBridge, RejectInbound, Cleanup, Teardown
  <2>3. "bridge_failed" \notin Sourcing
    BY DEF Sourcing
  <2> HIDE DEF added, forget, left, fewer
  <2> QED
    BY <1>1, <2>1, <2>2, <2>3, SourceMove, SourceGoto, SourceFinish
<1> QED
  BY <1>2, <1>3, <1>4, <1>5, <1>6 DEF HandlerStep

LEMMA NextSource ==
    ASSUME IInv, OwnInv, SourceInv, [Next]_vars, Roles, Births
    PROVE  SourceInv'
<1>1. SourceEntries
  BY NextSourceEntries
<1>2. CASE Restart
  <2>1. \A t \in Tasks : task'[t] \in {task[t], Resting("idle"), Resting("done")}
    BY <1>2 DEF Restart
  <2>2. Resting("idle").pc = "idle" /\ Resting("done").pc = "done"
    BY DEF Resting
  <2>3. SourceCarried
    BY <2>1, <2>2 DEF SourceCarried, SourceLocals
  <2> QED
    BY <1>1, <2>3, SourceStep
<1>3. CASE ~Restart
  <2>1. SourceCarried
    BY <1>3, SourceRequest, SourceHandler, SourceStill DEF Next, Phone, vars
  <2> QED
    BY <1>1, <2>1, SourceStep
<1> QED
  BY <1>2, <1>3

-----------------------------------------------------------------------------
(* BridgeInv: what a step may do to the channels that were put in a bridge.  *)

\* No channel enters a bridge; one that is or was in Stasis leaves its bridge
\* only with Stasis.
Still ==
    \A h \in Channels :
        /\ within'[h] \in {None, within[h]}
        /\ channel[h].st \in {"stasis", "over"} =>
             /\ channel'[h].st \in {"stasis", "over"}
             /\ channel'[h].st = "stasis" =>
                  channel[h].st = "stasis" /\ within'[h] = within[h]

Shrinks ==
    /\ bridges' = bridges
    /\ \A c \in Calls : bridgedChannels'[c] \subseteq bridgedChannels[c]

\* A step that makes, breaks and fills no bridge.
Calm ==
    /\ Still /\ Shrinks /\ bridge' = bridge
    /\ \/ task'[Handler] = task[Handler]
       \/ task'[Handler].pc \notin {"bridge_made", "bridge_added"}

LEMMA PlacedStays ==
    ASSUME AsteriskInv, OriginInv, Roles, Births, NEW c \in Calls, NEW h, Placed(c, h),
           channel'[h].st \in {"stasis", "over"},
           channel'[h].st = "stasis" =>
              /\ channel[h].st = "stasis"
              /\ within'[h] \in {within[h], c} \/ SharedWithAnother(h, c)
    PROVE  Placed(c, h)'
<1>1. /\ h \in Channels /\ Used(channel, h)
      /\ channel'[h].role = channel[h].role /\ channel'[h].call = channel[h].call
      /\ channel'[h].ctl = channel[h].ctl /\ channel'[h].ext = channel[h].ext
  BY DEF Placed, Used, Roles
<1>2. SharedWithAnother(h, c) => SharedWithAnother(h, c)'
  BY <1>1, SourceStays DEF SharedWithAnother
<1>3. channel'[h].st = "stasis" => within'[h] = c \/ SharedWithAnother(h, c)'
  BY <1>2 DEF Placed, InStasis
<1> QED
  BY <1>1, <1>3 DEF Placed, InStasis

LEMMA CalmStep ==
    ASSUME IInv, OriginInv, BridgeInv, Roles, Births, Calm
    PROVE  BridgeInv'
<1>1. AsteriskInv
  BY DEF IInv
<1>2. ASSUME NEW c \in Calls, NEW h, Placed(c, h)
      PROVE  Placed(c, h)'
  BY <1>1, <1>2, PlacedStays DEF Calm, Still, Placed
<1>3. bridges' \subseteq bridge'
  BY DEF BridgeInv, Calm, Shrinks
<1>4. \A c \in Calls : Bridged(c)' \subseteq Bridged(c)
  BY DEF Bridged, Calm, Shrinks, At
<1>5. \A c \in Calls : \A h \in Bridged(c)' : (c \in bridges /\ Placed(c, h))'
  BY <1>2, <1>4 DEF BridgeInv, Calm, Shrinks
<1>6. At(Handler, "bridge_made")' => task'[Handler].call \in bridge'
  BY DEF BridgeInv, Calm, At
<1> QED
  BY <1>3, <1>5, <1>6 DEF BridgeInv

-----------------------------------------------------------------------------
(* Requests and phones make, break and fill no bridge.                       *)

LEMMA SameStill ==
    ASSUME UNCHANGED channel, UNCHANGED within
    PROVE  Still
BY DEF Still

LEMMA DialsStill ==
    ASSUME AsteriskInv, NEW h, NEW e, NEW role, NEW c, Dials(h, e, role, c)
    PROVE  Still /\ bridge' = bridge
<1>1. \A g \in Channels : g # h => channel'[g] = channel[g]
  BY DEF Dials, AsteriskInv, AsteriskTypeOK
<1>2. channel[h].st \notin {"stasis", "over"} /\ within' = within /\ bridge' = bridge
  BY DEF Dials, Fresh
<1> QED
  BY <1>1, <1>2 DEF Still

LEMMA DropsStill ==
    ASSUME AsteriskInv, NEW h \in Channels, Drops(h)
    PROVE  Still /\ bridge' = bridge
<1>1. /\ channel[h] \in Channel
      /\ \A g \in Channels \ {h} : channel'[g] = channel[g] /\ within'[g] = within[g]
  BY DEF Drops, AsteriskInv, AsteriskTypeOK
<1>2. \/ InStasis(h) /\ channel'[h].st = "over"
      \/ channel[h].st \in Ring_
  BY <1>1 DEF Drops, AsteriskInv, AsteriskTypeOK, Channel
<1> QED
  BY <1>1, <1>2 DEF Still, InStasis, Ring_, Drops

LEMMA PhoneStill ==
    ASSUME AsteriskInv, NEW h \in Channels, Phone(h)
    PROVE  Still /\ bridge' = bridge
<1>1. CASE Rings(h) \/ PickUp(h)
  <2>1. \A g \in Channels \ {h} : channel'[g] = channel[g]
    BY <1>1 DEF Rings, PickUp, AsteriskInv, AsteriskTypeOK
  <2>2. channel[h].st \notin {"stasis", "over"} /\ within' = within /\ bridge' = bridge
    BY <1>1 DEF Rings, PickUp, Ring_
  <2> QED
    BY <2>1, <2>2 DEF Still
<1>2. CASE HangUp(h)
  BY <1>2, DropsStill DEF HangUp
<1>3. CASE \E s \in Controllers, e \in Stations : DialIn(h, s, e)
  <2>1. \A g \in Channels \ {h} : channel'[g] = channel[g]
    BY <1>3 DEF DialIn, AsteriskInv, AsteriskTypeOK
  <2>2. channel[h].st \notin {"stasis", "over"} /\ within' = within /\ bridge' = bridge
    BY <1>3 DEF DialIn, Fresh
  <2> QED
    BY <2>1, <2>2 DEF Still
<1> QED
  BY <1>1, <1>2, <1>3 DEF Phone

LEMMA SameShrinks ==
    ASSUME UNCHANGED <<bridges, bridgedChannels>>
    PROVE  Shrinks
BY DEF Shrinks

LEMMA ForgetShrinks ==
    ASSUME AdapterInv, NEW h, Forget(h)
    PROVE  Shrinks
<1>1. CASE UNCHANGED adapterVars
  BY <1>1, SameShrinks DEF adapterVars
<1>2. ASSUME NEW c \in Calls, bridges' = bridges,
             bridgedChannels' = [bridgedChannels EXCEPT ![c] = @ \ {h}]
      PROVE  Shrinks
  BY <1>2 DEF Shrinks, AdapterInv, AdapterTypeOK
<1> QED
  BY <1>1, <1>2 DEF Forget

LEMMA RequestStill ==
    ASSUME IInv, NEW r \in Requests, Arrival(r) \/ RequestStep(r)
    PROVE  Still /\ bridge' = bridge
<1>1. AsteriskInv /\ task[r] \in Task /\ LocalsInv(channel, task[r])
  BY LocalsOf, Requests_ DEF IInv
<1>2. CASE DropSource(r) \/ Operate(r)
  <2>1. task[r].chan \in Channels
    BY <1>1, <1>2 DEF LocalsInv, Holding, DropSource, Operate, At
  <2> QED
    BY <1>1, <1>2, <2>1, DropsStill, SameStill DEF DropSource, Operate, asteriskVars
<1>3. CASE DialSource(r) \/ \E e \in Stations : RingParticipant(r, e)
  BY <1>1, <1>3, DialsStill, SameStill, Zenon DEF DialSource, RingParticipant, asteriskVars
<1>4. CASE Arrival(r)
  BY <1>4, SameStill, Zenon
  DEF Arrival, CallStation, CallStations, ConferenceLookup, ParticipantAction,
      asteriskVars
<1>5. CASE \/ Route(r) \/ RouteStations(r) \/ Rehydrate(r) \/ RetireCall(r)
           \/ OutOfCalls(r) \/ InitiateCall(r) \/ SourceDialed(r) \/ BindSource(r)
           \/ FailCall(r)
  BY <1>5, SameStill, Zenon
  DEF Route, RouteStations, Rehydrate, RetireCall, OutOfCalls, InitiateCall,
      SourceDialed, BindSource, FailCall, asteriskVars
<1>6. CASE \/ Connect(r) \/ PromoteCall(r) \/ Enroll(r) \/ AddSource(r) \/ AttachLeg(r)
           \/ ReopenLeg(r) \/ FindSource(r) \/ ParticipantRung(r) \/ MarkLeg(r)
  BY <1>6, SameStill
  DEF Connect, PromoteCall, Enroll, AddSource, AttachLeg, ReopenLeg, FindSource,
      ParticipantRung, MarkLeg, asteriskVars
<1>7. CASE \/ Locate(r) \/ Repoint(r) \/ Act(r) \/ Recover(r) \/ ForgetChannel(r)
           \/ Settle(r) \/ LookupFails(r)
  BY <1>7, SameStill, Zenon
  DEF Locate, Repoint, Act, Recover, ForgetChannel, Settle, LookupFails, asteriskVars
<1> QED
  BY <1>2, <1>3, <1>4, <1>5, <1>6, <1>7 DEF RequestStep

LEMMA RequestShrinks ==
    ASSUME IInv, NEW r \in Requests, Arrival(r) \/ RequestStep(r)
    PROVE  Shrinks
<1>1. CASE \/ Arrival(r) \/ Route(r) \/ RouteStations(r) \/ RetireCall(r)
           \/ DropSource(r) \/ OutOfCalls(r) \/ InitiateCall(r) \/ DialSource(r)
           \/ BindSource(r) \/ FailCall(r)
  BY <1>1, SameShrinks, Zenon
  DEF Arrival, CallStation, CallStations, ConferenceLookup, ParticipantAction, Route,
      RouteStations, RetireCall, DropSource, OutOfCalls, InitiateCall, DialSource,
      BindSource, FailCall, adapterVars
<1>2. CASE \/ Rehydrate(r) \/ SourceDialed(r) \/ AddSource(r) \/ AttachLeg(r)
           \/ (\E e \in Stations : RingParticipant(r, e)) \/ ParticipantRung(r)
  BY <1>2, SameShrinks, Zenon
  DEF Rehydrate, SourceDialed, AddSource, AttachLeg, RingParticipant, ParticipantRung,
      AttachTo, adapterVars
<1>3. CASE ForgetChannel(r)
  BY <1>3, ForgetShrinks DEF ForgetChannel, IInv
<1>4. CASE \/ Connect(r) \/ PromoteCall(r) \/ Enroll(r) \/ ReopenLeg(r)
           \/ FindSource(r) \/ MarkLeg(r)
  BY <1>4, SameShrinks
  DEF Connect, PromoteCall, Enroll, ReopenLeg, FindSource, MarkLeg, adapterVars
<1>5. CASE \/ Locate(r) \/ Repoint(r) \/ Act(r) \/ Recover(r) \/ Operate(r)
           \/ Settle(r) \/ LookupFails(r)
  BY <1>5, SameShrinks, Zenon
  DEF Locate, Repoint, Act, Recover, Operate, Settle, LookupFails, adapterVars
<1> QED
  BY <1>1, <1>2, <1>3, <1>4, <1>5 DEF RequestStep

\* A request changes no local of the event task.
LEMMA RequestTask ==
    ASSUME IInv, NEW r \in Requests, Arrival(r) \/ RequestStep(r)
    PROVE  task'[Handler] = task[Handler]
<1>1. r # Handler /\ Handler \in Tasks /\ TasksInv
  BY Requests_, HandlerTask DEF IInv
<1>2. \A k : Becomes(r, k) => task'[Handler] = task[Handler]
  BY <1>1 DEF Becomes, TasksInv
<1>3. \A l : Goto(r, l) \/ Finish(r) \/ NotFound(r) => task'[Handler] = task[Handler]
  BY <1>2 DEF Goto, Finish, NotFound
<1>4. \A h, next, chan : Pursue(r, h, next, chan) => task'[Handler] = task[Handler]
  BY <1>2 DEF Pursue
<1>5. CASE Arrival(r)
  BY <1>2, <1>5, Zenon
  DEF Arrival, CallStation, CallStations, ConferenceLookup, ParticipantAction
<1>6. CASE \/ Route(r) \/ RouteStations(r) \/ Rehydrate(r) \/ RetireCall(r)
           \/ DropSource(r)
  BY <1>2, <1>3, <1>6, Zenon DEF Route, RouteStations, Rehydrate, RetireCall, DropSource
<1>7. CASE \/ OutOfCalls(r) \/ InitiateCall(r) \/ DialSource(r) \/ SourceDialed(r)
           \/ BindSource(r) \/ FailCall(r)
  BY <1>2, <1>3, <1>7, Zenon
  DEF OutOfCalls, InitiateCall, DialSource, SourceDialed, BindSource, FailCall
<1>8. CASE \/ Connect(r) \/ PromoteCall(r) \/ Enroll(r) \/ AddSource(r)
           \/ AttachLeg(r) \/ ReopenLeg(r) \/ FindSource(r)
  BY <1>2, <1>3, <1>4, <1>8
  DEF Connect, PromoteCall, Enroll, AddSource, AttachLeg, ReopenLeg, FindSource
<1>9. CASE \/ \E e \in Stations : RingParticipant(r, e)
           \/ ParticipantRung(r) \/ MarkLeg(r)
  BY <1>1, <1>2, <1>3, <1>9, Zenon DEF RingParticipant, ParticipantRung, MarkLeg
<1>10. CASE \/ Locate(r) \/ Repoint(r) \/ Act(r) \/ Recover(r)
  BY <1>2, <1>3, <1>10, Zenon DEF Locate, Repoint, Act, Recover
<1>11. CASE Operate(r) \/ ForgetChannel(r) \/ Settle(r) \/ LookupFails(r)
  BY <1>2, <1>3, <1>11 DEF Operate, ForgetChannel, Settle, LookupFails
<1> QED
  BY <1>5, <1>6, <1>7, <1>8, <1>9, <1>10, <1>11 DEF RequestStep

-----------------------------------------------------------------------------
(* Nor do most steps of the event task.                                      *)

\* A step of it that does not go to "bridge_made" or "bridge_added".
LEMMA HandlerMoves_ ==
    ASSUME TasksInv, NEW k, Becomes(Handler, k)
    PROVE  task'[Handler] = k
BY HandlerTask DEF Becomes, TasksInv

Resumes == task'[Handler].pc \notin {"bridge_made", "bridge_added"}

LEMMA GotoResumes ==
    ASSUME TasksInv, NEW l, Goto(Handler, l)
    PROVE  task'[Handler].pc = l
<1>1. task'[Handler] = [task[Handler] EXCEPT !.pc = l]
  BY HandlerMoves_ DEF Goto
<1> QED
  BY <1>1, HandlerTask DEF Task

LEMMA FinishResumes ==
    ASSUME TasksInv, Finish(Handler)
    PROVE  Resumes
BY HandlerMoves_ DEF Finish, Resting, Resumes

LEMMA RaisedResumes ==
    ASSUME TasksInv, Raised("reject")
    PROVE  Resumes
BY GotoResumes, FinishResumes DEF Raised, Resumes

LEMMA EventCalm ==
    ASSUME IInv, \E h \in Channels :
              \/ SourceEntered(h) \/ CalleeEntered(h) \/ InboundEntered(h)
              \/ \E type \in EventType : StateChanged(type, h)
              \/ LegEnded(h)
    PROVE  Calm
<1>1. Handler \in Tasks /\ TasksInv /\ task[Handler] \in Task
  BY HandlerTask DEF IInv
<1>2. Still /\ bridge' = bridge
  BY SameStill, Zenon
  DEF SourceEntered, CalleeEntered, InboundEntered, StateChanged, LegEnded, Receives
<1>3. Shrinks
  BY SameShrinks, Zenon
  DEF SourceEntered, CalleeEntered, InboundEntered, StateChanged, LegEnded, adapterVars
<1>4. task'[Handler] = task[Handler] \/ Resumes
  <2>1. CASE \E h \in Channels : SourceEntered(h)
    BY <1>1, <2>1 DEF SourceEntered, Becomes, TasksInv, Task, Resumes
  <2>2. CASE \E h \in Channels : CalleeEntered(h)
    BY <1>1, <2>2, ZenonT(60) DEF CalleeEntered, Becomes, TasksInv, Task, Resumes
  <2>3. CASE \E h \in Channels : InboundEntered(h)
    BY <2>3, InboundGoes DEF Resumes
  <2>4. CASE \E h \in Channels : LegEnded(h)
    BY <1>1, <2>4, ZenonT(60) DEF LegEnded, Becomes, TasksInv, Task, Resumes
  <2> QED
    BY <2>1, <2>2, <2>3, <2>4 DEF StateChanged
<1> QED
  BY <1>2, <1>3, <1>4 DEF Calm, Resumes

LEMMA HandlerCalm ==
    ASSUME IInv,
           \/ \E e \in Stations : RingParticipant(Handler, e)
           \/ ParticipantRung(Handler) \/ ForgetChannel(Handler)
           \/ AnswerInbound \/ JoinInbound \/ RejectInbound \/ Teardown
    PROVE  Calm
<1>1. /\ Handler \in Tasks /\ TasksInv /\ task[Handler] \in Task
      /\ AsteriskInv /\ AdapterInv /\ LocalsInv(channel, task[Handler])
  BY HandlerTask DEF IInv
<1>2. CASE \E e \in Stations : RingParticipant(Handler, e)
  <2>1. PICK e \in Stations : RingParticipant(Handler, e)
    BY <1>2
  <2>2. Still /\ bridge' = bridge
    BY <1>1, <2>1, DialsStill, SameStill, Zenon DEF RingParticipant, asteriskVars
  <2>3. Shrinks
    BY <2>1, SameShrinks, Zenon DEF RingParticipant
  <2> DEFINE left == task[Handler].todo \ {e}
             rung(h) == [task[Handler] EXCEPT !.pc = "rung", !.chan = h, !.ext = e,
                                              !.todo = left]
             next == [task[Handler] EXCEPT !.todo = left]
  <2>4. \/ Finish(Handler) \/ Becomes(Handler, next) \/ \E h : Becomes(Handler, rung(h))
    BY <2>1, Zenon DEF RingParticipant
  <2>5. next.pc = "targets" /\ \A h : rung(h).pc = "rung"
    BY <1>1, <2>1, Zenon DEF RingParticipant, At, Task
  <2> HIDE DEF next, rung
  <2>6. Resumes
    BY <1>1, <2>4, <2>5, FinishResumes, HandlerMoves_ DEF Resumes
  <2> QED
    BY <2>2, <2>3, <2>6 DEF Calm, Resumes
<1>3. CASE ParticipantRung(Handler) \/ ForgetChannel(Handler) \/ JoinInbound
  <2>1. Still /\ bridge' = bridge
    BY <1>3, SameStill DEF ParticipantRung, ForgetChannel, JoinInbound, asteriskVars
  <2>2. Shrinks
    BY <1>1, <1>3, ForgetShrinks, SameShrinks
    DEF ParticipantRung, ForgetChannel, JoinInbound, AttachTo, adapterVars
  <2>3. \/ \E l \in {"mark", "targets", "settle", "reject", "bridge"} : Goto(Handler, l)
        \/ NotFound(Handler) \/ Finish(Handler)
    BY <1>3 DEF ParticipantRung, ForgetChannel, JoinInbound
  <2>4. NotFound(Handler) => Resumes
    <3> DEFINE k == [task[Handler] EXCEPT !.pc = "initiate", !.call = None, !.chan = None]
    <3>1. k.pc = "initiate"
      BY <1>1 DEF Task
    <3> HIDE DEF k
    <3>2. Becomes(Handler, k) => Resumes
      BY <1>1, <3>1, HandlerMoves_ DEF Resumes
    <3> QED
      BY <1>1, <3>2, FinishResumes DEF NotFound, k
  <2>5. Resumes
    BY <1>1, <2>3, <2>4, GotoResumes, FinishResumes DEF Resumes
  <2> QED
    BY <2>1, <2>2, <2>5 DEF Calm, Resumes
<1>4. CASE AnswerInbound
  <2>1. Still /\ bridge' = bridge
    BY <1>4, SameStill DEF AnswerInbound, AnswersInbound, asteriskVars
  <2>2. Shrinks
    BY <1>4, SameShrinks DEF AnswerInbound, AttachTo
  <2>3. Goto(Handler, "join") \/ Goto(Handler, "reject")
    BY <1>4 DEF AnswerInbound
  <2>4. Resumes
    BY <1>1, <2>3, GotoResumes DEF Resumes
  <2> QED
    BY <2>1, <2>2, <2>4 DEF Calm, Resumes
<1>5. CASE RejectInbound \/ Teardown
  <2>1. /\ RejectInbound => task[Handler].chan \in Channels
        /\ task[Handler].legs \subseteq Channels
    BY <1>1 DEF LocalsInv, Holding, RejectInbound, At, Task
  <2>2. Still /\ bridge' = bridge
    BY <1>1, <1>5, <2>1, DropsStill, SameStill
    DEF RejectInbound, Teardown, Hangs, asteriskVars
  <2>3. Shrinks
    BY <1>5, SameShrinks DEF RejectInbound, Teardown, adapterVars
  <2> DEFINE forget == [task[Handler] EXCEPT !.pc = "forget", !.next = "done"]
             fewer(h) == [task[Handler] EXCEPT !.legs = @ \ {h}]
  <2>4. \/ Finish(Handler) \/ Becomes(Handler, forget)
        \/ Teardown /\ \E h : Becomes(Handler, fewer(h))
    BY <1>5 DEF RejectInbound, Teardown
  <2>5. forget.pc = "forget" /\ (Teardown => \A h : fewer(h).pc = "teardown")
    BY <1>1 DEF Task, Teardown, At
  <2> HIDE DEF forget, fewer
  <2>6. Resumes
    BY <1>1, <2>4, <2>5, FinishResumes, HandlerMoves_ DEF Resumes
  <2> QED
    BY <2>2, <2>3, <2>6 DEF Calm, Resumes
<1> QED
  BY <1>2, <1>3, <1>4, <1>5

LEMMA NextCalm ==
    ASSUME IInv, [Next]_vars
    PROVE  \/ Calm \/ Restart
           \/ MakeBridge \/ AddToBridge \/ BridgeAdded \/ BridgeFailed \/ Cleanup
<1>1. ASSUME NEW r \in Requests, Arrival(r) \/ RequestStep(r)
      PROVE  Calm
  BY <1>1, RequestStill, RequestShrinks, RequestTask DEF Calm
<1>2. CASE \E h \in Channels : Phone(h)
  <2>1. Still /\ bridge' = bridge
    BY <1>2, PhoneStill DEF IInv
  <2>2. Shrinks /\ task' = task
    BY <1>2, SameShrinks DEF Phone, adapterVars
  <2> QED
    BY <2>1, <2>2 DEF Calm
<1>3. CASE UNCHANGED vars
  <2>1. Still /\ Shrinks
    BY <1>3, SameStill, SameShrinks DEF vars, asteriskVars, adapterVars
  <2> QED
    BY <1>3, <2>1 DEF Calm, vars, asteriskVars
<1>4. CASE HandlerStep
  BY <1>4, EventCalm, HandlerCalm DEF HandlerStep
<1> QED
  BY <1>1, <1>2, <1>3, <1>4 DEF Next

-----------------------------------------------------------------------------
(* The steps of bridge_call and cleanup_call that do.                         *)

\* What is mapped for a call was dialled for it, or belongs to its controller.
LEMMA MappedIsOwn ==
    ASSUME IInv, OwnInv, SourceInv, NEW c \in Calls, NEW e \in Extensions,
           NEW h, h = maps[c].channel[e], h # None
    PROVE  /\ h \in Channels
           /\ channel[h].role = "callee" => channel[h].call = c
           /\ \A d \in Calls \ {c} : channel[h].role # "callee" => SharedWithAnother(h, d)
<1>1. AsteriskInv /\ OriginInv /\ IsOf(channel, h, e)
  BY DEF IInv, AdapterInv, Paired, OwnInv
<1>2. CASE e \in Stations
  <2>1. Own(channel, call, c, h)
    BY <1>2 DEF OwnInv
  <2>2. channel[h].role = "inbound" => channel[h].ctl = call[c].source /\ call[c].source # None
    BY <1>1, <2>1, TypesAssumption DEF Own, OriginInv
  <2> QED
    BY <2>1, <2>2, Zenon DEF Own, SharedWithAnother
<1>3. CASE e \in Controllers
  <2>1. e = call[c].source /\ channel[h].ext = e /\ h \in Channels /\ e # None
    BY <1>1, <1>3, TypesAssumption DEF SourceInv, IsOf, Used
  <2>2. channel[h].role # "callee"
    BY <1>1, <1>3, <2>1, TypesAssumption DEF AsteriskInv
  <2> QED
    BY <2>1, <2>2, Zenon DEF SharedWithAnother
<1> QED
  BY <1>2, <1>3 DEF Extensions

LEMMA MakeBridgeKeepsBridges ==
    ASSUME IInv, OriginInv, BridgeInv, Roles, Births, MakeBridge
    PROVE  BridgeInv'
<1> DEFINE c == task[Handler].call
<1>1. Handler \in Tasks /\ TasksInv /\ task[Handler] \in Task /\ AsteriskInv
  BY HandlerTask DEF IInv
<1>2. /\ UNCHANGED <<channel, within, bridges, bridgedChannels>>
      /\ bridge \subseteq bridge'
  BY DEF MakeBridge, MakesBridge, asteriskVars, adapterVars
<1>3. \A d \in Calls : \A h : Placed(d, h) => Placed(d, h)'
  BY <1>1, <1>2, PlacedStays DEF Placed
<1>4. \/ Goto(Handler, "bridge_made") /\ c \in bridge'
      \/ Raised("reject")
  BY DEF MakeBridge, MakesBridge
<1>5. \/ task'[Handler].pc = "bridge_made" /\ task'[Handler].call \in bridge'
      \/ Resumes
  <2>1. CASE Goto(Handler, "bridge_made") /\ c \in bridge'
    <3>1. task'[Handler] = [task[Handler] EXCEPT !.pc = "bridge_made"]
      BY <1>1, <2>1, HandlerMoves_ DEF Goto
    <3> QED
      BY <1>1, <2>1, <3>1 DEF Task
  <2> QED
    BY <1>1, <1>4, <2>1, RaisedResumes
<1>6. \A d \in Calls : Bridged(d)' \subseteq Bridged(d)
  BY <1>2, <1>5 DEF Bridged, At, Resumes
<1> QED
  BY <1>2, <1>3, <1>5, <1>6 DEF BridgeInv, At, Resumes

LEMMA BridgeAddedKeepsBridges ==
    ASSUME IInv, OriginInv, BridgeInv, Roles, Births, BridgeAdded
    PROVE  BridgeInv'
<1> DEFINE c == task[Handler].call
<1>1. Handler \in Tasks /\ TasksInv /\ AsteriskInv /\ AdapterInv
  BY HandlerTask DEF IInv
<1>2. UNCHANGED <<channel, within, bridge, bridges>> /\ Resumes
  BY <1>1, FinishResumes DEF BridgeAdded, BridgedNow, asteriskVars
<1>3. \A d \in Calls : \A h : Placed(d, h) => Placed(d, h)'
  BY <1>1, <1>2, PlacedStays DEF Placed
<1>4. \A d \in Calls :
         bridgedChannels'[d] \subseteq
            bridgedChannels[d] \cup (IF c = d THEN task[Handler].legs ELSE {})
  BY <1>1 DEF BridgeAdded, BridgedNow, AdapterInv, AdapterTypeOK
<1>5. \A d \in Calls : Bridged(d)' \subseteq Bridged(d)
  BY <1>2, <1>4 DEF Bridged, At, Resumes, BridgeAdded
<1> QED
  BY <1>2, <1>3, <1>5 DEF BridgeInv, At, Resumes

\* Breaking the bridge of c moves no channel that is recorded for another call,
\* unless that call shares it.
LEMMA BreakKeepsBridges ==
    ASSUME IInv, OriginInv, BridgeInv, Roles, Births, NEW c \in Calls,
           UNCHANGED channel, BreaksBridge(c) \/ UNCHANGED <<bridge, within>>,
           bridges' = bridges \ {c}, bridgedChannels'[c] = {},
           \A d \in Calls \ {c} : bridgedChannels'[d] = bridgedChannels[d],
           Resumes
    PROVE  BridgeInv'
<1>1. AsteriskInv
  BY DEF IInv
<1>2. bridges' \subseteq bridge'
  BY DEF BridgeInv, BreaksBridge
<1>3. /\ Bridged(c)' = {}
      /\ \A d \in Calls \ {c} : Bridged(d)' \subseteq Bridged(d)
  BY DEF Bridged, At, Resumes
<1>4. ASSUME NEW d \in Calls \ {c}, NEW h, Placed(d, h)
      PROVE  Placed(d, h)'
  <2>1. h \in Channels /\ channel' = channel
    BY <1>4 DEF Placed
  <2>2. within'[h] = within[h] \/ within[h] = c
    BY <2>1 DEF BreaksBridge
  <2>3. channel[h].st = "stasis" => within'[h] = within[h] \/ SharedWithAnother(h, d)
    BY <1>4, <2>2 DEF Placed, InStasis
  <2> QED
    BY <1>1, <1>4, <2>1, <2>3, PlacedStays DEF Placed
<1>5. \A d \in Calls : \A h \in Bridged(d)' : (d \in bridges /\ Placed(d, h))'
  BY <1>3, <1>4 DEF BridgeInv
<1> QED
  BY <1>2, <1>5 DEF BridgeInv, At, Resumes

LEMMA BridgeFailedKeepsBridges ==
    ASSUME IInv, OriginInv, BridgeInv, Roles, Births, BridgeFailed
    PROVE  BridgeInv'
<1> DEFINE c == task[Handler].call
<1>1. TasksInv /\ c \in Calls /\ Resumes
  BY HandlerTask, RaisedResumes DEF IInv, BridgeFailed, At, LocalsInv, Callless
<1>2. CASE bridgedChannels[c] = {}
  <2>1. /\ UNCHANGED <<channel, bridgedChannels>> /\ bridges' = bridges \ {c}
        /\ BreaksBridge(c) \/ UNCHANGED <<bridge, within>>
    BY <1>2 DEF BridgeFailed, BridgeForgotten, BreaksBridge, asteriskVars
  <2> HIDE DEF c
  <2> QED
    BY <1>1, <1>2, <2>1, BreakKeepsBridges
<1>3. CASE bridgedChannels[c] # {}
  <2>1. Still /\ Shrinks /\ bridge' = bridge
    BY <1>3, SameStill, SameShrinks DEF BridgeFailed, adapterVars, asteriskVars
  <2>2. Calm
    BY <1>1, <2>1 DEF Calm, Resumes
  <2> QED
    BY <2>2, CalmStep
<1> QED
  BY <1>2, <1>3

LEMMA CleanupKeepsBridges ==
    ASSUME IInv, OriginInv, BridgeInv, Roles, Births, Cleanup
    PROVE  BridgeInv'
<1> DEFINE c == task[Handler].call
           teardown(S) == [task[Handler] EXCEPT !.pc = "teardown", !.legs = S]
<1>1. TasksInv /\ task[Handler] \in Task /\ c \in Calls /\ AdapterInv
  BY HandlerTask DEF IInv, Cleanup, At, LocalsInv, Callless
<1>2. Resumes
  <2>1. Finish(Handler) \/ \E S : Becomes(Handler, teardown(S))
    BY Zenon DEF Cleanup
  <2>2. \A S : teardown(S).pc = "teardown"
    BY <1>1 DEF Task
  <2> HIDE DEF teardown
  <2> QED
    BY <1>1, <2>1, <2>2, FinishResumes, HandlerMoves_ DEF Resumes
<1>3. CASE Unmap(c, task[Handler].chan) /\ UNCHANGED asteriskVars
  <2>1. Still /\ bridge' = bridge
    BY <1>3, SameStill DEF asteriskVars
  <2>2. Shrinks
    BY <1>1, <1>3 DEF Unmap, Shrinks, AdapterInv, AdapterTypeOK
  <2>3. Calm
    BY <1>2, <2>1, <2>2 DEF Calm, Resumes
  <2> QED
    BY <2>3, CalmStep
<1>4. CASE UnmapCall(c) /\ (BreaksBridge(c) \/ UNCHANGED asteriskVars)
  <2>1. /\ UNCHANGED channel /\ bridges' = bridges \ {c}
        /\ BreaksBridge(c) \/ UNCHANGED <<bridge, within>>
    BY <1>4 DEF UnmapCall, BreaksBridge, asteriskVars
  <2>2. /\ bridgedChannels'[c] = {}
        /\ \A d \in Calls \ {c} : bridgedChannels'[d] = bridgedChannels[d]
    BY <1>1, <1>4 DEF UnmapCall, AdapterInv, AdapterTypeOK
  <2> HIDE DEF c
  <2> QED
    BY <1>1, <1>2, <2>1, <2>2, BreakKeepsBridges
<1> QED
  BY <1>3, <1>4 DEF Cleanup

\* addChannel moves the channels to the bridge of c out of that of another call
\* that shares them, never out of one that does not.
LEMMA AddsPlace ==
    ASSUME IInv, OwnInv, SourceInv, Roles, Births, NEW c \in Calls, NEW S,
           \A h \in S : \E e \in Extensions : h = maps[c].channel[e] /\ h # None,
           CanAdd(c, S), Adds(c, S)
    PROVE  /\ \A d \in Calls : \A h : Placed(d, h) => Placed(d, h)'
           /\ \A h \in S : Placed(c, h)'
<1>1. AsteriskInv /\ OriginInv /\ channel' = channel
  BY DEF IInv, OwnInv, Adds
<1>2. \A h \in S : /\ h \in Channels /\ (channel[h].role = "callee" => channel[h].call = c)
                   /\ \A d \in Calls \ {c} :
                        channel[h].role # "callee" => SharedWithAnother(h, d)
  BY MappedIsOwn
<1>3. \A h \in Channels : within'[h] = IF h \in S THEN c ELSE within[h]
  BY DEF Adds
<1>4. ASSUME NEW d \in Calls, NEW h, Placed(d, h)
      PROVE  Placed(d, h)'
  <2>1. h \in Channels
    BY <1>4 DEF Placed
  <2>2. within'[h] \in {within[h], d} \/ SharedWithAnother(h, d)
    <3>1. CASE h \in S /\ d # c
      BY <1>2, <1>4, <3>1 DEF Placed
    <3> QED
      BY <1>3, <2>1, <3>1
  <2> QED
    BY <1>1, <1>4, <2>2, PlacedStays DEF Placed
<1>5. \A h \in S : Placed(c, h)'
  BY <1>1, <1>2, <1>3 DEF Placed, InStasis, CanAdd
<1> QED
  BY <1>4, <1>5

LEMMA AddToBridgeKeepsBridges ==
    ASSUME IInv, OwnInv, SourceInv, BridgeInv, Roles, Births, AddToBridge
    PROVE  BridgeInv'
<1> DEFINE c == task[Handler].call
           e == task[Handler].ext
           new == At(Handler, "bridge_made")
           pending(f) == {maps[c].channel[f], maps[c].channel[e]}
                           \ (IF new THEN {} ELSE bridgedChannels[c])
           added(S) == [task[Handler] EXCEPT !.pc = "bridge_added", !.legs = S]
<1>1. /\ TasksInv /\ task[Handler] \in Task /\ AsteriskInv /\ AdapterInv /\ OriginInv
      /\ c \in Calls /\ e \in Extensions
  BY HandlerTask, Zenon DEF IInv, OwnInv, AddToBridge, At, LocalsInv, Callless, Handling
<1>2. /\ bridge' = bridge /\ bridges' \subseteq bridge /\ bridges \subseteq bridges'
      /\ c \in bridges'
      /\ \A d \in Calls : bridgedChannels'[d] \subseteq bridgedChannels[d]
  <2>1. bridge' = bridge
    BY Zenon DEF AddToBridge, Adds, asteriskVars
  <2>2. CASE new
    BY <1>1, <2>1, <2>2, Zenon
    DEF AddToBridge, BridgeKnown, BridgeInv, AdapterInv, AdapterTypeOK
  <2>3. CASE ~new
    BY <1>1, <2>1, <2>3, Zenon DEF AddToBridge, adapterVars, BridgeInv
  <2> QED
    BY <2>2, <2>3
<1>3. CASE Resumes /\ UNCHANGED <<channel, within>>
  <2>1. \A d \in Calls : \A h : Placed(d, h) => Placed(d, h)'
    BY <1>1, <1>3, PlacedStays DEF Placed
  <2>2. \A d \in Calls : Bridged(d)' \subseteq Bridged(d)
    BY <1>2, <1>3 DEF Bridged, At, Resumes
  <2> QED
    BY <1>2, <1>3, <2>1, <2>2 DEF BridgeInv, At, Resumes
<1>4. ASSUME NEW f \in Extensions, maps[c].channel[f] # None, maps[c].channel[e] # None,
             CanAdd(c, pending(f)), Adds(c, pending(f)),
             Becomes(Handler, added(pending(f))) \/ Goto(Handler, "bridge_failed")
      PROVE  BridgeInv'
  <2>1. PICK b, S : b \in Calls /\ b = c /\ S = pending(f)
    BY <1>1
  <2>2. \A h \in S : \E x \in Extensions : h = maps[b].channel[x] /\ h # None
    BY <1>1, <1>4, <2>1, Zenon
  <2>3. CanAdd(b, S) /\ Adds(b, S)
    BY <1>4, <2>1, Zenon
  <2>4. \/ task'[Handler].pc = "bridge_failed"
        \/ /\ task'[Handler].pc = "bridge_added" /\ task'[Handler].call = b
           /\ task'[Handler].legs = S
    <3>1. Goto(Handler, "bridge_failed") => task'[Handler].pc = "bridge_failed"
      BY <1>1, GotoResumes
    <3>2. Becomes(Handler, added(S)) => task'[Handler] = added(S)
      BY <1>1, HandlerMoves_
    <3>3. added(S).pc = "bridge_added" /\ added(S).call = b /\ added(S).legs = S
      BY <1>1, <2>1 DEF Task
    <3>4. Becomes(Handler, added(S)) \/ Goto(Handler, "bridge_failed")
      BY <1>4, <2>1, Zenon
    <3> HIDE DEF added
    <3> QED
      BY <3>1, <3>2, <3>3, <3>4
  <2>5. /\ \A d \in Calls : \A h : Placed(d, h) => Placed(d, h)'
        /\ \A h \in S : Placed(b, h)'
    BY <2>1, <2>2, <2>3, AddsPlace
  <2>6. \A d \in Calls : Bridged(d)' \subseteq Bridged(d) \cup (IF d = b THEN S ELSE {})
    BY <1>2, <2>4 DEF Bridged, At
  <2>7. b \in bridges'
    BY <1>2, <2>1
  <2>8. \A d \in Calls : \A h \in Bridged(d)' : d \in bridges' /\ Placed(d, h)'
    BY <1>2, <2>5, <2>6, <2>7 DEF BridgeInv
  <2> QED
    BY <1>2, <2>4, <2>8 DEF BridgeInv, At
<1>5. \/ Resumes /\ UNCHANGED <<channel, within>>
      \/ \E f \in Extensions :
           /\ maps[c].channel[f] # None /\ maps[c].channel[e] # None
           /\ CanAdd(c, pending(f)) /\ Adds(c, pending(f))
           /\ Becomes(Handler, added(pending(f))) \/ Goto(Handler, "bridge_failed")
  <2>1. Goto(Handler, "bridge_failed") \/ Finish(Handler) => Resumes
    BY <1>1, GotoResumes, FinishResumes DEF Resumes
  <2>2. CASE (Goto(Handler, "bridge_failed") \/ Finish(Handler)) /\ UNCHANGED asteriskVars
    BY <2>1, <2>2, Zenon DEF asteriskVars
  <2>3. CASE \E f \in Extensions :
               /\ IsFirst(maps[c], f) /\ maps[c].channel[e] # None
               /\ CanAdd(c, pending(f)) /\ Adds(c, pending(f))
               /\ Becomes(Handler, added(pending(f))) \/ Goto(Handler, "bridge_failed")
    BY <2>3, Zenon DEF IsFirst, Keys
  <2> QED
    BY <2>2, <2>3, Zenon DEF AddToBridge
<1> QED
  BY <1>3, <1>4, <1>5, Zenon

LEMMA RestartKeepsBridges ==
    ASSUME IInv, Restart
    PROVE  BridgeInv'
<1>1. task'[Handler] = Resting("idle")
  BY HandlerTask DEF IInv, Restart
<1>2. task'[Handler].pc = "idle"
  BY <1>1 DEF Resting
<1> QED
  BY <1>2 DEF Restart, BridgeInv, Bridged, At

-----------------------------------------------------------------------------
(* BridgedInv holds initially, every step keeps it, and the theorem.         *)

LEMMA InitBridged ==
    ASSUME Init
    PROVE  BridgedInv
<1>1. OwnInv
  BY InitOwn
<1>2. \A c \in Calls, s \in Controllers : maps[c].channel[s] = None
  BY LocalValues DEF Init, AdapterInit, NoMaps
<1>3. \A t \in Tasks : task[t].pc \in {"idle", "start"}
  BY DEF Init, Resting
<1>4. Handler \in Tasks
  BY DEF Tasks
<1>5. SourceInv
  BY <1>2, <1>3 DEF SourceInv, SourceLocals
<1>6. BridgeInv
  BY <1>3, <1>4 DEF Init, AdapterInit, AsteriskInit, BridgeInv, Bridged, At
<1> QED
  BY <1>1, <1>5, <1>6 DEF BridgedInv

LEMMA NextBridged ==
    ASSUME IInv, BridgedInv, ExpiredRows, [Next]_vars
    PROVE  BridgedInv'
<1>1. OwnInv /\ SourceInv /\ BridgeInv /\ OriginInv
  BY DEF BridgedInv, OwnInv
<1>2. Roles
  BY NextRoles
<1>3. Births
  BY <1>1, <1>2, NextMoves
<1>4. OwnInv'
  BY <1>1, NextOwn
<1>5. SourceInv'
  BY <1>1, <1>2, <1>3, NextSource
<1>6. BridgeInv'
  BY <1>1, <1>2, <1>3, NextCalm, CalmStep, MakeBridgeKeepsBridges,
     AddToBridgeKeepsBridges, BridgeAddedKeepsBridges, BridgeFailedKeepsBridges,
     CleanupKeepsBridges, RestartKeepsBridges
<1> QED
  BY <1>4, <1>5, <1>6 DEF BridgedInv

\* While reading an ORM row loaded before a rollback raises: what is mapped for a
\* call was dialled for it or belongs to its controller, every bridge that Core
\* knows exists, and a channel it takes to be in the bridge is there, for any
\* number of calls, stations, requests and faults.
THEOREM BridgingInvariance == ExpiredRows => (Spec => []BridgedInv)
<1>1. Init => BridgedInv
  BY InitBridged
<1>2. ExpiredRows /\ IInv /\ BridgedInv /\ [Next]_vars => BridgedInv'
  BY NextBridged
<1>3. ASSUME ExpiredRows
      PROVE  Spec => []BridgedInv
  <2>1. IInv /\ BridgedInv /\ [Next]_vars => BridgedInv'
    BY <1>2, <1>3
  <2> QED
    BY <1>1, <2>1, Invariance, PTL DEF Spec
<1> QED
  BY <1>3

\* What AsteriskHttpClient records as in the bridge of a call is in that bridge
\* or has left Stasis, whatever requests, events, refusals and lost replies come
\* together: bridge_call skips no leg that nobody hears (asterisk.py:158).  Only
\* the channel of a controller may be in the bridge of another of its calls.
THEOREM BridgeCacheTheorem == ExpiredRows => (Spec => []BridgeCacheIsSound)
<1>1. BridgedInv => BridgeCacheIsSound
  BY DEF BridgedInv, BridgeInv, Bridged, Placed, BridgeCacheIsSound
<1>2. ASSUME ExpiredRows
      PROVE  Spec => []BridgeCacheIsSound
  <2>1. Spec => []BridgedInv
    BY <1>2, BridgingInvariance
  <2> QED
    BY <1>1, <2>1, PTL
<1> QED
  BY <1>2

-----------------------------------------------------------------------------
(* PartInv.  A channel that is of a call stays so; what a station or the       *)
(* controller has in a call, and what is mapped for it, is of the call.        *)

LEMMA PartStable ==
    ASSUME AsteriskInv, OriginInv, Roles, Births, NEW c, NEW h,
           Part(channel, call, c, h)
    PROVE  Part(channel', call', c, h)
<1>1. /\ c \in Calls /\ h \in Channels /\ Used(channel, h) /\ Used(channel', h)
      /\ channel'[h].role = channel[h].role /\ channel'[h].call = channel[h].call
      /\ channel'[h].ctl = channel[h].ctl /\ channel'[h].ext = channel[h].ext
  BY DEF Part, Used, Roles
<1>2. CASE channel[h].role = "callee"
  BY <1>1, <1>2 DEF Part
<1>3. CASE channel[h].role # "callee"
  <2>1. call'[c].source = call[c].source
    BY <1>1, <1>3, SourceStays DEF Part
  <2> QED
    BY <1>1, <1>3, <2>1 DEF Part
<1> QED
  BY <1>2, <1>3

LEMMA PartLocalsStable ==
    ASSUME AsteriskInv, OriginInv, Roles, Births, NEW k,
           PartLocals(channel, call, k)
    PROVE  PartLocals(channel', call', k)
<1>1. ASSUME NEW h, Used(channel, h), channel[h].role = "inbound"
      PROVE  Used(channel', h) /\ channel'[h].role = "inbound"
  BY <1>1 DEF Used, Roles
<1> QED
  BY <1>1, PartStable DEF PartLocals

LEMMA OwnIsPart ==
    ASSUME AsteriskInv, OriginInv, NEW c \in Calls, NEW h, Own(channel, call, c, h)
    PROVE  Part(channel, call, c, h)
<1>1. Used(channel, h) /\ (channel[h].role = "inbound" => channel[h].ctl # None)
  BY TypesAssumption DEF Own, AsteriskInv, OriginInv
<1> QED
  BY <1>1 DEF Own, Part

LEMMA SourceIsPart ==
    ASSUME AsteriskInv, NEW c \in Calls, NEW s \in Controllers, call[c].source = s,
           NEW h, IsOf(channel, h, s)
    PROVE  Part(channel, call, c, h)
<1>1. /\ Used(channel, h) /\ h \in Channels /\ channel[h].ext = s /\ s # None
      /\ s \notin Stations
  BY TypesAssumption DEF IsOf, Used
<1>2. channel[h].role # "callee"
  BY <1>1 DEF AsteriskInv
<1> QED
  BY <1>1, <1>2 DEF Part

LEMMA MappedIsPart ==
    ASSUME IInv, OwnInv, SourceInv, NEW c \in Calls, NEW e \in Extensions,
           NEW h, h = maps[c].channel[e], h # None
    PROVE  Part(channel, call, c, h)
<1>1. AsteriskInv /\ OriginInv /\ IsOf(channel, h, e)
  BY DEF IInv, AdapterInv, Paired, OwnInv
<1>2. CASE e \in Stations
  BY <1>1, <1>2, OwnIsPart DEF OwnInv
<1>3. CASE e \in Controllers
  BY <1>1, <1>3, SourceIsPart DEF SourceInv
<1> QED
  BY <1>2, <1>3 DEF Extensions

-----------------------------------------------------------------------------
(* Who enters a bridge: what is mapped for its call.                          *)

Enters ==
    \A h \in Channels :
        within'[h] \in {None, within[h]} \/ Part(channel, call, within'[h], h)

LEMMA AddToBridgeEnters ==
    ASSUME IInv, OwnInv, SourceInv, AddToBridge
    PROVE  Enters
<1> DEFINE c == task[Handler].call
           e == task[Handler].ext
           new == At(Handler, "bridge_made")
           pending(f) == {maps[c].channel[f], maps[c].channel[e]}
                           \ (IF new THEN {} ELSE bridgedChannels[c])
<1>1. c \in Calls /\ e \in Extensions
  BY HandlerTask, Zenon DEF IInv, AddToBridge, At, LocalsInv, Callless, Handling
<1>2. \/ UNCHANGED within
      \/ \E f \in Extensions :
           /\ maps[c].channel[f] # None /\ maps[c].channel[e] # None
           /\ Adds(c, pending(f))
  BY Zenon DEF AddToBridge, IsFirst, Keys, asteriskVars
<1>3. ASSUME NEW f \in Extensions, maps[c].channel[f] # None, maps[c].channel[e] # None,
             Adds(c, pending(f))
      PROVE  Enters
  <2>1. \A h \in pending(f) : Part(channel, call, c, h)
    BY <1>1, <1>3, MappedIsPart, Zenon
  <2>2. \A h \in Channels : within'[h] = within[h] \/ (h \in pending(f) /\ within'[h] = c)
    BY <1>3, Zenon DEF Adds
  <2> QED
    BY <2>1, <2>2, Zenon DEF Enters
<1> QED
  BY <1>2, <1>3, Zenon DEF Enters

LEMMA NextEnters ==
    ASSUME IInv, OwnInv, SourceInv, [Next]_vars
    PROVE  Enters
<1>1. CASE Calm
  BY <1>1 DEF Calm, Still, Enters
<1>2. CASE Restart \/ MakeBridge \/ BridgeAdded \/ BridgeFailed \/ Cleanup
  <2>1. UNCHANGED within \/ \E c : BreaksBridge(c)
    BY <1>2, Zenon
    DEF Restart, MakeBridge, MakesBridge, BridgeAdded, BridgeFailed, Cleanup, asteriskVars
  <2> QED
    BY <2>1 DEF BreaksBridge, Enters
<1> QED
  BY <1>1, <1>2, NextCalm, AddToBridgeEnters

-----------------------------------------------------------------------------
(* What a task knows of the channel it will hang up.                          *)

PartCarried == \A t \in Tasks : task'[t] = task[t] \/ PartLocals(channel, call, task'[t])

LEMMA PartCarriedAt ==
    ASSUME NEW t \in Tasks, Others(t),
           task'[t].pc \in Parting => PartLocals(channel, call, task'[t])
    PROVE  PartCarried
<1>1. task'[t].pc \notin Parting => PartLocals(channel, call, task'[t])
  BY DEF Parting, PartLocals
<1> QED
  BY <1>1 DEF PartCarried, Others

LEMMA LocalPart ==
    ASSUME PartInv, NEW t \in Tasks
    PROVE  PartLocals(channel, call, task[t])
BY DEF PartInv

LEMMA FinishParts ==
    ASSUME TasksInv, NEW t \in Tasks, Finish(t)
    PROVE  PartCarried
<1>1. /\ Others(t) /\ task'[t].kind = "none"
      /\ task'[t].pc \in {"idle", "done"}
  BY FinishGoes
<1>2. PartLocals(channel, call, task'[t])
  BY <1>1 DEF PartLocals, Bridging
<1> QED
  BY <1>1, <1>2, PartCarriedAt

\* Locals that are handed on from one label to another.
LEMMA GotoParts ==
    ASSUME TasksInv, PartInv, NEW t \in Tasks, NEW l, Goto(t, l),
           \/ l \notin Parting
           \/ task[t].pc = "retire" /\ l = "drop_source" /\ task[t].chan # None
           \/ task[t].pc = "route_stations" /\ l = "retire"
           \/ /\ \/ task[t].pc \in {"answer", "join"}
                 \/ task[t].pc \in Bridging /\ task[t].kind = "inbound"
              /\ l \in {"join", "reject", "bridge"}
           \/ task[t].pc \in Bridging /\ l \in Bridging
    PROVE  PartCarried
<1>1. /\ Others(t) /\ task'[t].pc = l /\ task'[t].kind = task[t].kind
      /\ task'[t].call = task[t].call /\ task'[t].chan = task[t].chan
  BY GotoGoes
<1>2. PartLocals(channel, call, task[t])
  BY LocalPart
<1>3. l \in Parting => PartLocals(channel, call, task'[t])
  BY <1>1, <1>2 DEF PartLocals, Bridging
<1> QED
  BY <1>1, <1>3, PartCarriedAt

LEMMA RouteParts ==
    ASSUME IInv, NEW r \in Requests, Route(r)
    PROVE  PartCarried
<1>1. /\ r \in Tasks /\ TasksInv /\ task[r] \in Task /\ AsteriskInv
      /\ task[r].ctl \in Controllers
  BY LocalsOf, Requests_ DEF IInv, LocalsInv, Route, At, Routing
<1> DEFINE g == OnlyLiveAt(task[r].ctl)
           k(c) == [task[r] EXCEPT !.pc = "route_stations", !.call = c, !.chan = g]
<1>2. \/ Finish(r) \/ NotFound(r)
      \/ \E c \in Calls : c \in Candidates(r) /\ Becomes(r, k(c))
  BY Zenon DEF Route, IsNewest
<1>3. ASSUME NEW c \in Calls, c \in Candidates(r), Becomes(r, k(c))
      PROVE  PartCarried
  <2>1. call[c].source = task[r].ctl
    BY <1>3 DEF Candidates, ActiveConferences, ActiveCalls
  <2>2. g # None => Part(channel, call, c, g)
    BY <1>1, <2>1, FoundIsOf, SourceIsPart
  <2>3. k(c).pc = "route_stations" /\ k(c).call = c /\ k(c).chan = g
    BY <1>1 DEF Task
  <2> HIDE DEF g, k
  <2>4. PartLocals(channel, call, k(c))
    BY <2>2, <2>3 DEF PartLocals, Bridging
  <2>5. Others(r) /\ task'[r] = k(c)
    BY <1>1, <1>3, BecomesGoes
  <2> QED
    BY <1>1, <2>4, <2>5, PartCarriedAt
<1> QED
  BY <1>1, <1>2, <1>3, NotFoundGoes, PartCarriedAt, FinishParts DEF Watched

LEMMA RetireParts ==
    ASSUME IInv, PartInv, ExpiredRows, NEW r \in Requests,
           RouteStations(r) \/ RetireCall(r) \/ Recover(r)
    PROVE  PartCarried
<1>1. r \in Tasks /\ TasksInv /\ task[r] \in Task
  BY LocalsOf, Requests_ DEF IInv
<1>2. CASE RouteStations(r)
  <2> DEFINE k(h) == [task[r] EXCEPT !.pc = "rehydrate", !.old = h]
  <2>1. \/ task[r].pc = "route_stations" /\ Goto(r, "retire")
        \/ Finish(r) \/ \E h : Becomes(r, k(h))
    BY <1>2, Zenon DEF RouteStations, At
  <2>2. \A h : k(h).pc = "rehydrate"
    BY <1>1 DEF Task
  <2>3. "rehydrate" \notin Parting
    BY DEF Parting, Bridging
  <2> HIDE DEF k
  <2> QED
    BY <1>1, <2>1, <2>2, <2>3, GotoParts, FinishParts, BecomesGoes, PartCarriedAt
<1>3. CASE RetireCall(r) \/ Recover(r)
  <2>1. \/ task[r].pc = "retire" /\ task[r].chan # None /\ Goto(r, "drop_source")
        \/ Finish(r) \/ NotFound(r)
    BY <1>3, Zenon DEF RetireCall, Recover, At
  <2> QED
    BY <1>1, <2>1, GotoParts, FinishParts, NotFoundGoes, PartCarriedAt DEF Watched
<1> QED
  BY <1>2, <1>3

\* A station's action meets the channel that the row names.
LEMMA ActParts ==
    ASSUME IInv, OwnInv, NEW r \in Requests, Act(r)
    PROVE  PartCarried
<1> DEFINE c == task[r].call
           e == task[r].ext
           g == leg[c][e].channel
           h == IF g # None THEN g ELSE OnlyLiveAt(e)
           pc == IF g = h THEN "operate" ELSE "recover"
           k == [task[r] EXCEPT !.chan = h, !.pc = pc]
<1>1. /\ r \in Tasks /\ TasksInv /\ task[r] \in Task /\ AsteriskInv /\ OriginInv
      /\ c \in Calls /\ e \in Stations
  BY LocalsOf, Requests_, Zenon
  DEF IInv, OwnInv, LocalsInv, Act, At, Callless, Placing
<1>2. Finish(r) \/ (h # None /\ Becomes(r, k))
  BY Zenon DEF Act
<1>3. pc \in {"operate", "recover"} /\ (pc = "operate" /\ h # None => g # None /\ h = g)
  OBVIOUS
<1>4. pc = "operate" /\ h # None => Part(channel, call, c, h)
  <2>1. g # None => Own(channel, call, c, g)
    BY <1>1 DEF OwnInv
  <2> HIDE DEF g, pc, h
  <2> QED
    BY <1>1, <1>3, <2>1, OwnIsPart
<1> HIDE DEF pc, h, g
<1>5. k.pc = pc /\ k.call = c /\ k.chan = h
  BY <1>1 DEF Task
<1> HIDE DEF k
<1>6. h # None => PartLocals(channel, call, k)
  BY <1>3, <1>4, <1>5 DEF PartLocals, Bridging
<1> QED
  BY <1>1, <1>2, <1>6, FinishParts, BecomesGoes, PartCarriedAt

LEMMA OperateGoes ==
    ASSUME IInv, NEW r \in Requests, Operate(r)
    PROVE  Others(r) /\ task'[r].pc \notin Parting
<1>1. r \in Tasks /\ TasksInv /\ task[r] \in Task
  BY LocalsOf, Requests_ DEF IInv
<1>2. \/ Others(r) /\ task'[r].pc \in {"forget", "recover"}
      \/ Goto(r, "settle") \/ Finish(r)
  BY <1>1, ZenonT(60) DEF Operate, Becomes, TasksInv, Task, Others
<1>3. \A l \in {"forget", "recover", "settle"} : l \notin Parting
  BY DEF Parting, Bridging
<1> QED
  BY <1>1, <1>2, <1>3, GotoGoes, EndGoes DEF Watched

LEMMA RequestParts ==
    ASSUME IInv, OwnInv, PartInv, ExpiredRows, NEW r \in Requests,
           Arrival(r) \/ RequestStep(r)
    PROVE  PartCarried
<1>1. r \in Tasks
  BY Requests_
<1>2. ASSUME Others(r), task'[r].pc \notin Parting
      PROVE  PartCarried
  BY <1>1, <1>2, PartCarriedAt
<1> QED
  BY <1>2, RequestGoes, PointsGoes, RouteParts, RetireParts, ActParts, OperateGoes
  DEF Watched, Parts

-----------------------------------------------------------------------------
(* And the event task.                                                        *)

LEMMA RaisedParts ==
    ASSUME TasksInv, PartInv, task[Handler].pc \in Bridging, Raised("reject")
    PROVE  PartCarried
BY HandlerTask, GotoParts, FinishParts DEF Raised

LEMMA EnteredParts ==
    ASSUME IInv, PartInv, NEW h \in Channels,
           SourceEntered(h) \/ CalleeEntered(h) \/ LegEnded(h)
    PROVE  PartCarried
<1>1. Handler \in Tasks /\ TasksInv /\ task[Handler] \in Task
  BY HandlerTask DEF IInv
<1>2. UNCHANGED task => PartCarried
  BY DEF PartCarried
<1>3. CASE SourceEntered(h)
  <2>1. Others(Handler) /\ task'[Handler].pc = "targets"
    BY <1>1, <1>3 DEF SourceEntered, Becomes, TasksInv, Task, Others
  <2> QED
    BY <1>1, <2>1, PartCarriedAt DEF Parting, Bridging
<1>4. CASE CalleeEntered(h)
  <2>1. \/ UNCHANGED task
        \/ /\ Others(Handler) /\ task'[Handler].pc = "bridge"
           /\ task'[Handler].kind = task[Handler].kind
    BY <1>1, <1>4, ZenonT(60) DEF CalleeEntered, Becomes, TasksInv, Task, Others
  <2>2. task[Handler].kind # "inbound"
    BY <1>1, <1>4, LocalPart DEF CalleeEntered, Receives, At, PartLocals
  <2>3. task'[Handler].pc = "bridge" /\ task'[Handler].kind # "inbound"
          => PartLocals(channel, call, task'[Handler])
    BY DEF PartLocals, Bridging
  <2> QED
    BY <1>1, <1>2, <2>1, <2>2, <2>3, PartCarriedAt
<1>5. CASE LegEnded(h)
  <2>1. \/ UNCHANGED task
        \/ Others(Handler) /\ task'[Handler].pc = "cleanup"
    BY <1>1, <1>5, ZenonT(60) DEF LegEnded, Becomes, TasksInv, Task, Others
  <2> QED
    BY <1>1, <1>2, <2>1, PartCarriedAt DEF Parting, Bridging
<1> QED
  BY <1>3, <1>4, <1>5

LEMMA InboundParts ==
    ASSUME IInv, NEW h \in Channels, InboundEntered(h)
    PROVE  PartCarried
<1> DEFINE local == [task[Handler] EXCEPT !.kind = "inbound", !.ext = channel[h].ext,
                                          !.chan = h]
           reject == [local EXCEPT !.pc = "reject"]
           answer(c) == [local EXCEPT !.pc = "answer", !.call = c]
<1>1. /\ Handler \in Tasks /\ TasksInv /\ task[Handler] \in Task
      /\ Used(channel, h) /\ channel[h].role = "inbound"
  BY HandlerTask DEF IInv, AsteriskInv, InboundEntered
<1>2. Becomes(Handler, reject) \/ \E c : Becomes(Handler, answer(c))
  BY DEF InboundEntered
<1>3. /\ reject.pc = "reject" /\ reject.chan = h
      /\ \A c : answer(c).pc = "answer" /\ answer(c).chan = h
  BY <1>1 DEF Task
<1> HIDE DEF reject, answer
<1>4. /\ PartLocals(channel, call, reject)
      /\ \A c : PartLocals(channel, call, answer(c))
  BY <1>1, <1>3 DEF PartLocals
<1> QED
  BY <1>1, <1>2, <1>4, BecomesGoes, PartCarriedAt

\* What cleanup_call is left to hang up was mapped for the call that ended.
LEMMA CleanupParts ==
    ASSUME IInv, OwnInv, SourceInv, Cleanup
    PROVE  PartCarried
<1> DEFINE c == task[Handler].call
           rest == Unmapped(c, task[Handler].chan)
           left == MappedChannels(rest)
           k == [task[Handler] EXCEPT !.pc = "teardown", !.legs = left]
<1>1. /\ Handler \in Tasks /\ TasksInv /\ task[Handler] \in Task /\ c \in Calls
  BY HandlerTask DEF IInv, Cleanup, At, LocalsInv, Callless
<1>2. Finish(Handler) \/ Becomes(Handler, k)
  BY Zenon DEF Cleanup
<1>3. ASSUME NEW h \in left
      PROVE  Part(channel, call, c, h)
  <2>1. PICK e \in Extensions : rest.channel[e] = h /\ rest.channel[e] # None
    BY DEF MappedChannels, Keys
  <2>2. rest.channel[e] \in {None, maps[c].channel[e]}
    BY PopEntry DEF Unmapped
  <2> HIDE DEF rest
  <2>3. h = maps[c].channel[e] /\ h # None
    BY <2>1, <2>2
  <2> QED
    BY <1>1, <2>3, MappedIsPart
<1> HIDE DEF left
<1>4. k.pc = "teardown" /\ k.call = c /\ k.legs = left
  BY <1>1 DEF Task
<1> HIDE DEF k
<1>5. PartLocals(channel, call, k)
  BY <1>3, <1>4 DEF PartLocals, Bridging
<1> QED
  BY <1>1, <1>2, <1>5, FinishParts, BecomesGoes, PartCarriedAt

LEMMA TeardownParts ==
    ASSUME IInv, PartInv, Teardown
    PROVE  PartCarried
<1> DEFINE k(h) == [task[Handler] EXCEPT !.legs = @ \ {h}]
<1>1. /\ Handler \in Tasks /\ TasksInv /\ task[Handler] \in Task
      /\ task[Handler].pc = "teardown"
  BY HandlerTask DEF IInv, Teardown, At
<1>2. Finish(Handler) \/ \E h : Becomes(Handler, k(h))
  BY DEF Teardown
<1>3. \A g \in task[Handler].legs : Part(channel, call, task[Handler].call, g)
  BY <1>1, LocalPart DEF PartLocals
<1>4. \A h : /\ k(h).pc = "teardown" /\ k(h).call = task[Handler].call
             /\ k(h).legs \subseteq task[Handler].legs
  BY <1>1 DEF Task
<1> HIDE DEF k
<1>5. \A h : PartLocals(channel, call, k(h))
  BY <1>3, <1>4 DEF PartLocals, Bridging
<1> QED
  BY <1>1, <1>2, <1>5, FinishParts, BecomesGoes, PartCarriedAt

\* The other steps of the event task pass on what it has in hand, or drop it.
LEMMA HandlerMoveParts ==
    ASSUME IInv, PartInv,
           \/ \E e \in Stations : RingParticipant(Handler, e)
           \/ ParticipantRung(Handler) \/ ForgetChannel(Handler)
           \/ AnswerInbound \/ JoinInbound \/ MakeBridge \/ AddToBridge
           \/ BridgeAdded \/ BridgeFailed \/ RejectInbound
    PROVE  PartCarried
<1>1. Handler \in Tasks /\ TasksInv /\ task[Handler] \in Task
  BY HandlerTask DEF IInv
<1>2. ASSUME Others(Handler), task'[Handler].pc \notin Parting
      PROVE  PartCarried
  BY <1>1, <1>2, PartCarriedAt
<1>3. CASE \E e \in Stations : RingParticipant(Handler, e)
  <2>1. PICK e \in Stations : RingParticipant(Handler, e)
    BY <1>3
  <2> DEFINE left == task[Handler].todo \ {e}
             rung(h) == [task[Handler] EXCEPT !.pc = "rung", !.chan = h, !.ext = e,
                                              !.todo = left]
             next == [task[Handler] EXCEPT !.todo = left]
  <2>2. \/ Finish(Handler) \/ Becomes(Handler, next) \/ \E h : Becomes(Handler, rung(h))
    BY <2>1, Zenon DEF RingParticipant
  <2>3. next.pc = "targets" /\ \A h : rung(h).pc = "rung"
    BY <1>1, <2>1, Zenon DEF RingParticipant, At, Task
  <2> HIDE DEF next, rung
  <2> QED
    BY <1>1, <1>2, <2>2, <2>3, FinishParts, BecomesGoes DEF Parting, Bridging
<1>4. CASE ParticipantRung(Handler) \/ ForgetChannel(Handler)
  <2>1. \/ \E l \in {"mark", "targets", "settle"} : Goto(Handler, l)
        \/ NotFound(Handler) \/ Finish(Handler)
    BY <1>4 DEF ParticipantRung, ForgetChannel
  <2>2. ASSUME Becomes(Handler, [task[Handler] EXCEPT !.pc = "initiate", !.call = None,
                                                      !.chan = None])
        PROVE  Others(Handler) /\ task'[Handler].pc = "initiate"
    BY <1>1, <2>2 DEF Becomes, TasksInv, Task, Others
  <2>3. \A l \in {"mark", "targets", "settle", "initiate"} : l \notin Parting
    BY DEF Parting, Bridging
  <2> QED
    BY <1>1, <1>2, <2>1, <2>2, <2>3, GotoParts, FinishParts DEF NotFound
<1>5. CASE AnswerInbound \/ JoinInbound
  <2>1. /\ task[Handler].pc \in {"answer", "join"}
        /\ \E l \in {"join", "reject", "bridge"} : Goto(Handler, l)
    BY <1>5, Zenon DEF AnswerInbound, JoinInbound, At
  <2> QED
    BY <1>1, <2>1, GotoParts
<1>6. CASE MakeBridge \/ BridgeFailed
  <2>1. /\ task[Handler].pc \in Bridging
        /\ Goto(Handler, "bridge_made") \/ Raised("reject")
    BY <1>6, Zenon DEF MakeBridge, BridgeFailed, At, Bridging
  <2> QED
    BY <1>1, <2>1, GotoParts, RaisedParts DEF Bridging
<1>7. CASE AddToBridge
  <2> DEFINE k(S) == [task[Handler] EXCEPT !.pc = "bridge_added", !.legs = S]
  <2>1. task[Handler].pc \in Bridging
    BY <1>7, Zenon DEF AddToBridge, At, Bridging
  <2>2. \/ Goto(Handler, "bridge_failed") \/ Finish(Handler)
        \/ \E S : Becomes(Handler, k(S))
    BY <1>7, Zenon DEF AddToBridge
  <2>3. \A S : k(S).pc = "bridge_added"
    BY <1>1 DEF Task
  <2>4. "bridge_added" \notin Parting /\ "bridge_failed" \in Bridging
    BY DEF Parting, Bridging
  <2> HIDE DEF k
  <2> QED
    BY <1>1, <1>2, <2>1, <2>2, <2>3, <2>4, GotoParts, FinishParts, BecomesGoes
<1>8. CASE BridgeAdded \/ RejectInbound
  <2> DEFINE k == [task[Handler] EXCEPT !.pc = "forget", !.next = "done"]
  <2>1. Finish(Handler) \/ Becomes(Handler, k)
    BY <1>8, Zenon DEF BridgeAdded, RejectInbound
  <2>2. k.pc = "forget"
    BY <1>1 DEF Task
  <2> HIDE DEF k
  <2> QED
    BY <1>1, <1>2, <2>1, <2>2, FinishParts, BecomesGoes DEF Parting, Bridging
<1> QED
  BY <1>3, <1>4, <1>5, <1>6, <1>7, <1>8

LEMMA NextPartCarried ==
    ASSUME IInv, OwnInv, SourceInv, PartInv, ExpiredRows, [Next]_vars
    PROVE  PartCarried
<1>1. CASE HandlerStep
  <2>1. (\E h \in Channels, type \in EventType : StateChanged(type, h)) => UNCHANGED task
    BY DEF StateChanged
  <2>2. UNCHANGED task => PartCarried
    BY DEF PartCarried
  <2> QED
    BY <1>1, <2>1, <2>2, EnteredParts, InboundParts, HandlerMoveParts, CleanupParts,
       TeardownParts, Zenon
    DEF HandlerStep
<1>2. CASE Restart
  <2>1. \A t \in Tasks : task'[t] \in {task[t], Resting("idle"), Resting("done")}
    BY <1>2 DEF Restart
  <2>2. \A l \in {"idle", "done"} : Resting(l).pc = l /\ Resting(l).kind = "none"
    BY DEF Resting
  <2> QED
    BY <2>1, <2>2 DEF PartCarried, PartLocals, Bridging
<1>3. CASE UNCHANGED task
  BY <1>3 DEF PartCarried
<1> QED
  BY <1>1, <1>2, <1>3, RequestParts DEF Next, Phone, vars

-----------------------------------------------------------------------------
(* PartInv holds initially, every step keeps it, and the theorems.            *)

LEMMA InitPart ==
    ASSUME Init
    PROVE  PartInv
<1>1. \A h \in Channels : within[h] = None
  BY DEF Init, AsteriskInit
<1>2. \A t \in Tasks : task[t].pc \in {"idle", "start"} /\ task[t].kind = "none"
  BY DEF Init, Resting
<1> QED
  BY <1>1, <1>2 DEF PartInv, PartLocals, Bridging

LEMMA NextPart ==
    ASSUME IInv, BridgedInv, PartInv, ExpiredRows, [Next]_vars
    PROVE  PartInv'
<1>1. AsteriskInv /\ OwnInv /\ SourceInv /\ OriginInv
  BY DEF IInv, BridgedInv, OwnInv
<1>2. Roles
  BY NextRoles
<1>3. Births
  BY <1>1, <1>2, NextMoves
<1>4. Enters /\ PartCarried
  BY <1>1, NextEnters, NextPartCarried
<1>5. ASSUME NEW h \in Channels, within'[h] # None
      PROVE  Part(channel', call', within'[h], h)
  <2>1. Part(channel, call, within'[h], h)
    BY <1>4, <1>5 DEF Enters, PartInv
  <2> QED
    BY <1>1, <1>2, <1>3, <2>1, PartStable
<1>6. ASSUME NEW t \in Tasks
      PROVE  PartLocals(channel', call', task'[t])
  <2>1. PartLocals(channel, call, task'[t])
    BY <1>4 DEF PartCarried, PartInv
  <2> QED
    BY <1>1, <1>2, <1>3, <2>1, PartLocalsStable
<1> QED
  BY <1>5, <1>6 DEF PartInv

\* While reading an ORM row loaded before a rollback raises: whoever is in the
\* bridge of a call is of that call, and no task is about to hang up a channel of
\* another call (asterisk.py:140-172, 218, 275; main.py:229).
THEOREM PartInvariance == ExpiredRows => (Spec => []PartInv)
<1>1. Init => PartInv
  BY InitPart
<1>2. ExpiredRows /\ IInv /\ BridgedInv /\ PartInv /\ [Next]_vars => PartInv'
  BY NextPart
<1>3. ASSUME ExpiredRows
      PROVE  Spec => []PartInv
  <2>1. IInv /\ BridgedInv /\ PartInv /\ [Next]_vars => PartInv'
    BY <1>2, <1>3
  <2>2. Spec => []BridgedInv
    BY <1>3, BridgingInvariance
  <2> QED
    BY <1>1, <2>1, <2>2, Invariance, PTL DEF Spec
<1> QED
  BY <1>3

\* Nobody is put into a conversation of other people, for any number of calls,
\* controllers, requests and faults: whoever is in the bridge of a call was dialled
\* for it, is its controller, or dialled its controller (asterisk.py:140-172).
THEOREM BridgesHoldTheorem == ExpiredRows => (Spec => []BridgesHoldOwnChannels)
<1>1. PartInv => BridgesHoldOwnChannels
  BY DEF PartInv, Part, Belongs, BridgesHoldOwnChannels
<1>2. ASSUME ExpiredRows
      PROVE  Spec => []BridgesHoldOwnChannels
  <2>1. Spec => []PartInv
    BY <1>2, PartInvariance
  <2> QED
    BY <1>1, <2>1, PTL
<1> QED
  BY <1>2

-----------------------------------------------------------------------------
(* CoreDropsOwnChannels: the steps that hang a channel up, and what they knew.  *)

Lives == \A h \in Channels : Live(h) => Live(h)'

LEMMA SameLives ==
    ASSUME UNCHANGED channel
    PROVE  Lives
BY DEF Lives, Live

LEMMA DialsLives ==
    ASSUME AsteriskInv, NEW h, NEW e, NEW role, NEW c, Dials(h, e, role, c)
    PROVE  Lives
<1>1. \A g \in Channels : g # h => channel'[g] = channel[g]
  BY DEF Dials, AsteriskInv, AsteriskTypeOK
<1>2. ~Live(h)
  BY DEF Dials, Fresh, Live, Ring_
<1> QED
  BY <1>1, <1>2 DEF Lives, Live

LEMMA DropsOne ==
    ASSUME AsteriskInv, NEW g \in Channels, Drops(g), NEW h \in Channels,
           Live(h), ~Live(h)'
    PROVE  h = g
BY DEF Drops, Live, AsteriskInv, AsteriskTypeOK

LEMMA RequestLives ==
    ASSUME IInv, NEW r \in Requests, Arrival(r) \/ RequestStep(r)
    PROVE  Lives \/ DropSource(r) \/ Operate(r)
<1>1. AsteriskInv
  BY DEF IInv
<1>2. CASE DialSource(r) \/ \E e \in Stations : RingParticipant(r, e)
  BY <1>1, <1>2, DialsLives, SameLives, Zenon DEF DialSource, RingParticipant, asteriskVars
<1>3. CASE Arrival(r)
  BY <1>3, SameLives, Zenon
  DEF Arrival, CallStation, CallStations, ConferenceLookup, ParticipantAction,
      asteriskVars
<1>4. CASE \/ Route(r) \/ RouteStations(r) \/ Rehydrate(r) \/ RetireCall(r)
           \/ OutOfCalls(r) \/ InitiateCall(r) \/ SourceDialed(r) \/ BindSource(r)
           \/ FailCall(r)
  BY <1>4, SameLives, Zenon
  DEF Route, RouteStations, Rehydrate, RetireCall, OutOfCalls, InitiateCall,
      SourceDialed, BindSource, FailCall, asteriskVars
<1>5. CASE \/ Connect(r) \/ PromoteCall(r) \/ Enroll(r) \/ AddSource(r) \/ AttachLeg(r)
           \/ ReopenLeg(r) \/ FindSource(r) \/ ParticipantRung(r) \/ MarkLeg(r)
  BY <1>5, SameLives
  DEF Connect, PromoteCall, Enroll, AddSource, AttachLeg, ReopenLeg, FindSource,
      ParticipantRung, MarkLeg, asteriskVars
<1>6. CASE \/ Locate(r) \/ Repoint(r) \/ Act(r) \/ Recover(r) \/ ForgetChannel(r)
           \/ Settle(r) \/ LookupFails(r)
  BY <1>6, SameLives, Zenon
  DEF Locate, Repoint, Act, Recover, ForgetChannel, Settle, LookupFails, asteriskVars
<1> QED
  BY <1>2, <1>3, <1>4, <1>5, <1>6 DEF RequestStep

LEMMA HandlerLives ==
    ASSUME IInv, HandlerStep
    PROVE  Lives \/ RejectInbound \/ Teardown
<1>1. AsteriskInv
  BY DEF IInv
<1>2. CASE \E e \in Stations : RingParticipant(Handler, e)
  BY <1>1, <1>2, DialsLives, SameLives, Zenon DEF RingParticipant, asteriskVars
<1>3. CASE \E h \in Channels :
             \/ SourceEntered(h) \/ CalleeEntered(h) \/ InboundEntered(h)
             \/ \E type \in EventType : StateChanged(type, h)
             \/ LegEnded(h)
  BY <1>3, SameLives, Zenon
  DEF SourceEntered, CalleeEntered, InboundEntered, StateChanged, LegEnded, Receives
<1>4. CASE \/ ParticipantRung(Handler) \/ ForgetChannel(Handler) \/ AnswerInbound
           \/ JoinInbound \/ BridgeAdded
  BY <1>4, SameLives
  DEF ParticipantRung, ForgetChannel, AnswerInbound, AnswersInbound, JoinInbound,
      BridgeAdded, asteriskVars
<1>5. CASE MakeBridge \/ AddToBridge \/ BridgeFailed \/ Cleanup
  BY <1>5, SameLives, Zenon
  DEF MakeBridge, MakesBridge, AddToBridge, Adds, BridgeFailed, BreaksBridge, Cleanup,
      asteriskVars
<1> QED
  BY <1>2, <1>3, <1>4, <1>5 DEF HandlerStep

\* The channel that a step hangs up is the one its task has in hand.
LEMMA TaskDrops ==
    ASSUME IInv, PartInv, [Next]_vars, NEW h \in Channels, NEW t \in Tasks,
           Live(h), ~Live(h)', task'[t] # task[t]
    PROVE  \/ Belongs(h, task[t].call)
           \/ channel[h].role = "inbound" /\ task[t].chan = h
<1>1. TasksInv /\ AsteriskInv /\ Handler \in Tasks
  BY HandlerTask DEF IInv
<1>2. ASSUME NEW c, Part(channel, call, c, h)
      PROVE  Belongs(h, c)
  BY <1>2 DEF Part, Belongs
<1>3. ASSUME NEW r \in Requests, DropSource(r) \/ Operate(r)
      PROVE  Belongs(h, task[t].call)
  <2>1. r \in Tasks /\ task[r].pc \in {"drop_source", "operate"}
    BY <1>3, Requests_, Zenon DEF DropSource, Operate, At
  <2>2. Part(channel, call, task[r].call, task[r].chan)
    BY <2>1, LocalPart DEF PartLocals
  <2>3. Others(r)
    BY <1>1, <1>3, <2>1, QuietGoes, OperateGoes
  <2>4. t = r
    BY <2>3 DEF Others
  <2>5. Drops(task[r].chan) \/ UNCHANGED asteriskVars
    BY <1>3, Zenon DEF DropSource, Operate
  <2>6. h = task[r].chan
    BY <1>1, <2>2, <2>5, DropsOne DEF Part, Used, asteriskVars, Live
  <2> QED
    BY <1>2, <2>2, <2>4, <2>6
<1>4. ASSUME RejectInbound \/ Teardown
      PROVE  \/ Belongs(h, task[t].call)
             \/ channel[h].role = "inbound" /\ task[t].chan = h
  <2>1. Others(Handler)
    BY <1>1, <1>4, BecomesGoes, FinishGoes DEF RejectInbound, Teardown
  <2>2. t = Handler
    BY <2>1 DEF Others
  <2>3. PartLocals(channel, call, task[Handler])
    BY <1>1, LocalPart
  <2>4. CASE RejectInbound
    <3>1. /\ task[Handler].chan \in Channels
          /\ channel[task[Handler].chan].role = "inbound"
      BY <2>3, <2>4 DEF RejectInbound, At, PartLocals, Used
    <3>2. Drops(task[Handler].chan) \/ UNCHANGED asteriskVars
      BY <2>4 DEF RejectInbound
    <3> QED
      BY <1>1, <2>2, <3>1, <3>2, DropsOne DEF asteriskVars, Live
  <2>5. CASE Teardown
    <3>1. \A g \in task[Handler].legs : Part(channel, call, task[Handler].call, g)
      BY <2>3, <2>5 DEF Teardown, At, PartLocals
    <3>2. \/ \E g \in task[Handler].legs : Drops(g)
          \/ UNCHANGED asteriskVars
      BY <2>5 DEF Teardown, Hangs
    <3>3. h \in task[Handler].legs
      BY <1>1, <3>1, <3>2, DropsOne DEF Part, Used, asteriskVars, Live
    <3> QED
      BY <1>2, <2>2, <3>1, <3>3
  <2> QED
    BY <1>4, <2>4, <2>5
<1>5. ~Lives
  BY DEF Lives
<1>6. Restart \/ UNCHANGED vars => Lives
  BY SameLives DEF Restart, vars, asteriskVars
<1>7. (\E g \in Channels : Phone(g)) => UNCHANGED task
  BY DEF Phone
<1> QED
  BY <1>3, <1>4, <1>5, <1>6, <1>7, RequestLives, HandlerLives DEF Next

\* Core cuts off no conversation of another call, for any number of calls,
\* controllers, requests and faults: what it hangs up to end or retire a call, or
\* to disconnect a station, is of the call it works on, or has just dialled in
\* (asterisk.py:218, 275; main.py:229).
THEOREM CoreDropsTheorem == ExpiredRows => (Spec => CoreDropsOwnChannels)
<1>1. IInv /\ PartInv /\ [Next]_vars =>
        [\A h \in Channels, t \in Tasks :
           Live(h) /\ ~Live(h)' /\ task'[t] # task[t] =>
             \/ Belongs(h, task[t].call)
             \/ channel[h].role = "inbound" /\ task[t].chan = h]_vars
  BY TaskDrops
<1>2. ASSUME ExpiredRows
      PROVE  Spec => CoreDropsOwnChannels
  <2>1. Spec => []PartInv
    BY <1>2, PartInvariance
  <2> QED
    BY <1>1, <2>1, Invariance, PTL DEF Spec, CoreDropsOwnChannels
<1> QED
  BY <1>2
=============================================================================
