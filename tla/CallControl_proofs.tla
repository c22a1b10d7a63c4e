------------------------- MODULE CallControl_proofs -------------------------
(***************************************************************************)
(* Proof that IInv is an inductive invariant of CallControl, and what       *)
(* follows from it: TypeOK and ReverseMapComplete.                          *)
(***************************************************************************)
EXTENDS CallControlInvariant, CallStore_proofs, SequenceTheorems, TLAPS

-----------------------------------------------------------------------------
(* What ARI requests and phones do keeps the types and the roles of the     *)
(* channels, and never takes a channel's endpoint away.                     *)

Keeps ==
    \A h \in Channels : Used(channel, h) =>
        Used(channel', h) /\ channel'[h].ext = channel[h].ext

LEMMA AsteriskStays ==
    ASSUME AsteriskInv, UNCHANGED channel,
           bridge' \in SUBSET Calls, within' \in [Channels -> Maybe(Calls)],
           events' \in Seq(Event)
    PROVE  AsteriskInv' /\ Keeps
BY DEF AsteriskInv, AsteriskTypeOK, Keeps, Used

LEMMA AsteriskUnchanged ==
    ASSUME AsteriskInv, UNCHANGED asteriskVars
    PROVE  AsteriskInv' /\ Keeps
BY AsteriskStays DEF asteriskVars, AsteriskInv, AsteriskTypeOK

LEMMA EmitTypes ==
    ASSUME AsteriskTypeOK, NEW es \in Seq(Event), Emit(es)
    PROVE  events' \in Seq(Event)
BY ConcatProperties DEF AsteriskTypeOK, Emit

LEMMA SentTypes ==
    ASSUME NEW type \in EventType, NEW h \in Channels
    PROVE  <<Sent(type, h)>> \in Seq(Event)
BY DEF Sent, Event

\* A channel changes its state only, and was or becomes used.
LEMMA ChannelMoves ==
    ASSUME AsteriskInv, NEW h \in Channels, NEW st \in ChannelStates \ {"unused"},
           Used(channel, h),
           channel' = [channel EXCEPT ![h].st = st],
           bridge' \in SUBSET Calls, within' \in [Channels -> Maybe(Calls)],
           events' \in Seq(Event)
    PROVE  AsteriskInv' /\ Keeps
<1> DEFINE row == [channel[h] EXCEPT !.st = st]
<1>1. channel[h] \in Channel
  BY DEF AsteriskInv, AsteriskTypeOK
<1>2. /\ row \in Channel /\ row.st = st /\ row.ext = channel[h].ext
      /\ row.role = channel[h].role /\ row.call = channel[h].call
  BY <1>1 DEF Channel
<1>3. channel' = [channel EXCEPT ![h] = row]
  OBVIOUS
<1> HIDE DEF row
<1>4. channel' \in [Channels -> Channel]
  BY <1>2, <1>3 DEF AsteriskInv, AsteriskTypeOK
<1>5. \A g \in Channels : channel'[g] = IF g = h THEN row ELSE channel[g]
  BY <1>3 DEF AsteriskInv, AsteriskTypeOK
<1> QED
  BY <1>2, <1>4, <1>5 DEF AsteriskInv, AsteriskTypeOK, Keeps, Used

\* A fresh channel is taken into use.
LEMMA ChannelStarts ==
    ASSUME AsteriskInv, NEW h \in Fresh, NEW row \in Channel,
           channel' = [channel EXCEPT ![h] = row],
           row.st # "unused", row.ext \in Extensions,
           row.role \in {"source", "callee"} => row.call \in Calls,
           row.role \in {"callee", "inbound"} => row.ext \in Stations,
           bridge' \in SUBSET Calls, within' \in [Channels -> Maybe(Calls)],
           events' \in Seq(Event)
    PROVE  AsteriskInv' /\ Keeps
<1>1. channel' \in [Channels -> Channel]
  BY DEF AsteriskInv, AsteriskTypeOK
<1>2. h \in Channels /\ ~Used(channel, h)
  BY DEF Fresh, Used
<1>3. \A g \in Channels : channel'[g] = IF g = h THEN row ELSE channel[g]
  BY DEF AsteriskInv, AsteriskTypeOK
<1> QED
  BY <1>1, <1>2, <1>3 DEF AsteriskInv, AsteriskTypeOK, Keeps, Used

LEMMA DialsKeeps ==
    ASSUME AsteriskInv, NEW h, NEW e \in Extensions, NEW role \in {"source", "callee"},
           role = "callee" => e \in Stations, NEW c \in Calls, Dials(h, e, role, c)
    PROVE  AsteriskInv' /\ Keeps /\ IsOf(channel', h, e)
<1> DEFINE row == [st |-> "dialing", role |-> role, call |-> c,
                   ctl |-> None, ext |-> e]
<1>1. row \in Channel
  BY DEF Channel, ChannelStates, Maybe
<1>2. h \in Fresh /\ h \in Channels
  BY DEF Dials, Fresh
<1>3. channel' = [channel EXCEPT ![h] = row]
  BY DEF Dials
<1>4. AsteriskInv' /\ Keeps
  BY <1>1, <1>2, <1>3, ChannelStarts DEF Dials, AsteriskInv, AsteriskTypeOK
<1>5. channel'[h] = row
  BY <1>2, <1>3 DEF AsteriskInv, AsteriskTypeOK
<1> QED
  BY <1>2, <1>4, <1>5 DEF IsOf, Used

LEMMA DropsKeeps ==
    ASSUME AsteriskInv, NEW h \in Channels, Drops(h)
    PROVE  AsteriskInv' /\ Keeps
<1>1. within' \in [Channels -> Maybe(Calls)] /\ bridge' \in SUBSET Calls
  BY DEF Drops, AsteriskInv, AsteriskTypeOK, Maybe
<1>2. CASE /\ InStasis(h) /\ channel' = [channel EXCEPT ![h].st = "over"]
           /\ Emit(<<Sent("StasisEnd", h)>>)
  <2>1. events' \in Seq(Event)
    BY <1>2, EmitTypes, SentTypes DEF EventType, AsteriskInv
  <2>2. Used(channel, h)
    BY <1>2 DEF InStasis, Used
  <2> QED
    BY <1>1, <1>2, <2>1, <2>2, ChannelMoves DEF ChannelStates
<1>3. CASE /\ channel[h].st \in Ring_
           /\ channel' = [channel EXCEPT ![h].st = "unanswered"]
           /\ UNCHANGED events
  <2>1. Used(channel, h)
    BY <1>3 DEF Ring_, Used
  <2> QED
    BY <1>1, <1>3, <2>1, ChannelMoves DEF ChannelStates, AsteriskInv, AsteriskTypeOK
<1> QED
  BY <1>2, <1>3 DEF Drops

LEMMA HangsKeeps ==
    ASSUME AsteriskInv, NEW h \in Channels, Hangs(h)
    PROVE  AsteriskInv' /\ Keeps
BY DropsKeeps, AsteriskUnchanged DEF Hangs

LEMMA BridgingKeeps ==
    ASSUME AsteriskInv, NEW c \in Calls, NEW S,
           MakesBridge(c) \/ Adds(c, S) \/ BreaksBridge(c)
    PROVE  AsteriskInv' /\ Keeps
BY AsteriskStays DEF MakesBridge, Adds, BreaksBridge, AsteriskInv, AsteriskTypeOK, Maybe

LEMMA AnswersKeeps ==
    ASSUME AsteriskInv, NEW h \in Channels, AnswersInbound(h)
    PROVE  AsteriskInv' /\ Keeps
<1>1. events' \in Seq(Event)
  BY EmitTypes, SentTypes DEF AnswersInbound, EventType, AsteriskInv
<1> QED
  BY <1>1, AsteriskStays DEF AnswersInbound, AsteriskInv, AsteriskTypeOK

LEMMA PhoneKeeps ==
    ASSUME AsteriskInv, NEW h \in Channels, Phone(h)
    PROVE  AsteriskInv' /\ Keeps
<1>1. ASSUME Rings(h)
      PROVE  AsteriskInv' /\ Keeps
  <2>1. events' \in Seq(Event)
    BY <1>1, EmitTypes, SentTypes DEF Rings, EventType, AsteriskInv
  <2> QED
    BY <1>1, <2>1, ChannelMoves
    DEF Rings, Used, ChannelStates, AsteriskInv, AsteriskTypeOK
<1>2. ASSUME PickUp(h)
      PROVE  AsteriskInv' /\ Keeps
  <2>1. <<Sent("Up", h), Sent("StasisStart", h)>> \in Seq(Event)
    BY DEF Sent, Event, EventType
  <2>2. events' \in Seq(Event)
    BY <1>2, <2>1, EmitTypes DEF PickUp, AsteriskInv
  <2>3. Used(channel, h)
    BY <1>2 DEF PickUp, Ring_, Used
  <2> QED
    BY <1>2, <2>2, <2>3, ChannelMoves DEF PickUp, ChannelStates, AsteriskInv, AsteriskTypeOK
<1>3. ASSUME NEW s \in Controllers, NEW e \in Stations, DialIn(h, s, e)
      PROVE  AsteriskInv' /\ Keeps
  <2> DEFINE row == [st |-> "stasis", role |-> "inbound", call |-> None,
                     ctl |-> s, ext |-> e]
  <2>1. events' \in Seq(Event)
    BY <1>3, EmitTypes, SentTypes DEF DialIn, EventType, AsteriskInv
  <2>2. row \in Channel
    BY DEF Channel, ChannelStates, Maybe, Extensions
  <2>3. h \in Fresh /\ channel' = [channel EXCEPT ![h] = row]
    BY <1>3 DEF DialIn
  <2> QED
    BY <1>3, <2>1, <2>2, <2>3, ChannelStarts
    DEF DialIn, Extensions, AsteriskInv, AsteriskTypeOK
<1> QED
  BY <1>1, <1>2, <1>3, DropsKeeps DEF Phone, HangUp

LEMMA ReceivesKeeps ==
    ASSUME AsteriskInv, NEW type, NEW h, Receives(type, h)
    PROVE  AsteriskInv' /\ Keeps
<1>1. events' \in Seq(Event)
  BY HeadTailProperties DEF Receives, AsteriskInv, AsteriskTypeOK
<1> QED
  BY <1>1, AsteriskStays DEF Receives, AsteriskInv, AsteriskTypeOK

-----------------------------------------------------------------------------
(* What GET /channels returns is a channel of the endpoint asked for.        *)

LEMMA FoundIsOf ==
    ASSUME AsteriskInv, NEW e, NEW h, OnlyLiveAt(e) # None, h = OnlyLiveAt(e)
    PROVE  h \in Channels /\ IsOf(channel, h, e) /\ e \in Extensions
<1>1. PICK g \in Channels : LiveAt(e) = {g}
  BY DEF OnlyLiveAt
<1>2. h \in Channels /\ LiveAt(e) = {h}
  BY <1>1 DEF OnlyLiveAt
<1>3. Live(h) /\ channel[h].ext = e
  BY <1>2 DEF LiveAt
<1> QED
  BY <1>2, <1>3 DEF Live, Ring_, IsOf, Used, AsteriskInv

LEMMA FoundTypes ==
    ASSUME NEW e
    PROVE  OnlyLiveAt(e) \in Maybe(Channels)
BY DEF OnlyLiveAt, Maybe

LEMMA LiveIsOf ==
    ASSUME AsteriskInv, NEW e, NEW h \in Maybe(Channels), LiveAs(h, e)
    PROVE  IsOf(channel, h, e) /\ e \in Extensions
BY DEF LiveAs, Live, Ring_, IsOf, Used, Maybe, AsteriskInv

LEMMA IsOfStable ==
    ASSUME Keeps, NEW h, NEW e, IsOf(channel, h, e)
    PROVE  IsOf(channel', h, e)
BY DEF Keeps, IsOf, Used

-----------------------------------------------------------------------------
(* What Core does to the adapter's maps keeps them paired.                   *)

LEMMA PairedStable ==
    ASSUME Keeps, NEW m, Paired(channel, m)
    PROVE  Paired(channel', m)
BY IsOfStable DEF Paired

LEMMA AdapterStays ==
    ASSUME AdapterInv, Keeps, UNCHANGED maps,
           bridges' \in SUBSET Calls, bridgedChannels' \in [Calls -> SUBSET Channels]
    PROVE  AdapterInv'
BY PairedStable DEF AdapterInv, AdapterTypeOK

LEMMA AdapterUnchanged ==
    ASSUME AdapterInv, Keeps, UNCHANGED adapterVars
    PROVE  AdapterInv'
BY AdapterStays DEF adapterVars, AdapterInv, AdapterTypeOK

\* One call's maps are replaced.
LEMMA MapsChange ==
    ASSUME AdapterInv, Keeps, NEW c \in Calls, NEW m \in Maps, Paired(channel', m),
           maps' = [maps EXCEPT ![c] = m],
           bridges' \in SUBSET Calls, bridgedChannels' \in [Calls -> SUBSET Channels]
    PROVE  AdapterInv'
BY PairedStable DEF AdapterInv, AdapterTypeOK

LEMMA AttachPairs ==
    ASSUME NEW ch, NEW m \in Maps, NEW e \in Extensions, NEW h,
           Paired(ch, m), IsOf(ch, h, e)
    PROVE  Attach(m, e, h) \in Maps /\ Paired(ch, Attach(m, e, h))
<1> DEFINE older == IF m.channel[e] # None THEN m.older
                    ELSE m.older \cup (Keys(m) \X {e})
           new == [channel |-> [m.channel EXCEPT ![e] = h], older |-> older,
                   extension |-> [m.extension EXCEPT ![h] = e]]
<1>1. h \in Channels
  BY DEF IsOf, Used
<1>2. Keys(m) \subseteq Extensions
  BY DEF Keys
<1>3. older \in SUBSET (Extensions \X Extensions)
  BY <1>2 DEF Maps
<1>4. Attach(m, e, h) = new
  <2> DEFINE forward == [m.channel EXCEPT ![e] = h]
             reverse == [m.extension EXCEPT ![h] = e]
  <2>1. Attach(m, e, h) = [m EXCEPT !.channel = forward, !.extension = reverse,
                                    !.older = older]
    BY DEF Attach
  <2>2. new = [channel |-> forward, older |-> older, extension |-> reverse]
    OBVIOUS
  <2> HIDE DEF forward, reverse, older, new
  <2> QED
    BY <2>1, <2>2 DEF Maps
<1>5. new \in Maps
  <2> HIDE DEF older
  <2> QED
    BY <1>1, <1>3 DEF Maps, Maybe
<1>6. Paired(ch, new)
  <2> HIDE DEF older
  <2> SUFFICES ASSUME NEW x \in Extensions, new.channel[x] # None
               PROVE  IsOf(ch, new.channel[x], x) /\ new.extension[new.channel[x]] = x
    BY DEF Paired
  <2>1. CASE x = e
    BY <1>1, <2>1 DEF Maps
  <2>2. CASE x # e
    <3>1. new.channel[x] = m.channel[x]
      BY <2>2 DEF Maps
    <3>2. IsOf(ch, m.channel[x], x) /\ m.extension[m.channel[x]] = x
      BY <3>1 DEF Paired
    <3>3. m.channel[x] # h
      BY <2>2, <3>2 DEF IsOf
    <3> QED
      BY <1>1, <3>1, <3>2, <3>3 DEF Maps
  <2> QED
    BY <2>1, <2>2
<1> QED
  BY <1>4, <1>5, <1>6

LEMMA AttachToKeeps ==
    ASSUME AdapterInv, Keeps, NEW c \in Calls, NEW e \in Extensions, NEW h,
           IsOf(channel', h, e), AttachTo(c, e, h)
    PROVE  AdapterInv'
<1>1. maps[c] \in Maps /\ Paired(channel', maps[c])
  BY PairedStable DEF AdapterInv, AdapterTypeOK
<1>2. Attach(maps[c], e, h) \in Maps /\ Paired(channel', Attach(maps[c], e, h))
  BY <1>1, AttachPairs
<1> QED
  BY <1>2, MapsChange DEF AttachTo, AdapterInv, AdapterTypeOK

LEMMA PopPairs ==
    ASSUME NEW ch, NEW m \in Maps, NEW E, NEW h, Paired(ch, m),
           \A x \in Extensions : m.channel[x] # None /\ m.channel[x] = h => x \in E
    PROVE  Pop(m, E, h) \in Maps /\ Paired(ch, Pop(m, E, h))
<1> DEFINE new == Pop(m, E, h)
<1>1. new \in Maps
  BY DEF Pop, Maps, Maybe
<1>2. \A x \in Extensions : new.channel[x] = IF x \in E THEN None ELSE m.channel[x]
  BY DEF Pop
<1>3. new.extension = [m.extension EXCEPT ![h] = None]
  BY DEF Pop
<1> SUFFICES ASSUME NEW x \in Extensions, new.channel[x] # None
             PROVE  IsOf(ch, new.channel[x], x) /\ new.extension[new.channel[x]] = x
  BY <1>1 DEF Paired
<1>4. x \notin E /\ new.channel[x] = m.channel[x]
  BY <1>2
<1>5. IsOf(ch, m.channel[x], x) /\ m.extension[m.channel[x]] = x /\ m.channel[x] # h
  BY <1>4 DEF Paired
<1> QED
  BY <1>3, <1>4, <1>5 DEF IsOf, Used, Maps

LEMMA NoMapsPairs ==
    ASSUME NEW ch
    PROVE  NoMaps \in Maps /\ Paired(ch, NoMaps)
BY DEF NoMaps, Maps, Paired, Maybe

LEMMA ForgetKeeps ==
    ASSUME AdapterInv, Keeps, NEW h, Forget(h)
    PROVE  AdapterInv'
<1>1. CASE UNCHANGED adapterVars
  BY <1>1, AdapterUnchanged
<1>2. ASSUME NEW c \in Calls, NEW e \in Extensions, maps[c].channel[e] = h,
             maps' = [maps EXCEPT ![c] = Pop(@, {e}, h)],
             bridgedChannels' = [bridgedChannels EXCEPT ![c] = @ \ {h}],
             UNCHANGED bridges
      PROVE  AdapterInv'
  <2>1. maps[c] \in Maps /\ Paired(channel', maps[c])
    BY PairedStable DEF AdapterInv, AdapterTypeOK
  <2>2. \A x \in Extensions :
           maps[c].channel[x] # None /\ maps[c].channel[x] = h => x \in {e}
    BY <1>2, <2>1 DEF Paired, IsOf
  <2>3. Pop(maps[c], {e}, h) \in Maps /\ Paired(channel', Pop(maps[c], {e}, h))
    BY <2>1, <2>2, PopPairs
  <2> QED
    BY <1>2, <2>3, MapsChange DEF AdapterInv, AdapterTypeOK
<1> QED
  BY <1>1, <1>2 DEF Forget

LEMMA UnmappedPairs ==
    ASSUME AdapterInv, Keeps, NEW c \in Calls, NEW h
    PROVE  Unmapped(c, h) \in Maps /\ Paired(channel', Unmapped(c, h))
<1>1. maps[c] \in Maps /\ Paired(channel', maps[c])
  BY PairedStable DEF AdapterInv, AdapterTypeOK
<1>2. \A x \in Extensions :
         maps[c].channel[x] # None /\ maps[c].channel[x] = h
           => x \in EndedKeys(maps[c], h)
  BY <1>1 DEF EndedKeys, Paired
<1> QED
  BY <1>1, <1>2, PopPairs DEF Unmapped

LEMMA UnmapKeeps ==
    ASSUME AdapterInv, Keeps, NEW c \in Calls, NEW h, Unmap(c, h)
    PROVE  AdapterInv'
BY UnmappedPairs, MapsChange DEF Unmap, AdapterInv, AdapterTypeOK

LEMMA UnmapCallKeeps ==
    ASSUME AdapterInv, Keeps, NEW c \in Calls, UnmapCall(c)
    PROVE  AdapterInv'
BY NoMapsPairs, MapsChange DEF UnmapCall, AdapterInv, AdapterTypeOK

LEMMA BridgesKeep ==
    ASSUME AdapterInv, Keeps, NEW c \in Calls, NEW S \in SUBSET Channels,
           BridgeKnown(c) \/ BridgedNow(c, S) \/ BridgeForgotten(c)
    PROVE  AdapterInv'
BY AdapterStays
DEF BridgeKnown, BridgedNow, BridgeForgotten, AdapterInv, AdapterTypeOK

-----------------------------------------------------------------------------
(* A step of a task.                                                         *)

LEMMA LocalsStable ==
    ASSUME Keeps, NEW k, LocalsInv(channel, k)
    PROVE  LocalsInv(channel', k)
BY DEF LocalsInv, Initiating, IsOf, Used, Keeps

LEMMA TasksUnchanged ==
    ASSUME TasksInv, Keeps, UNCHANGED task
    PROVE  TasksInv'
BY LocalsStable DEF TasksInv

LEMMA Moves ==
    ASSUME TasksInv, Keeps, NEW t \in Tasks, NEW k \in Task, LocalsInv(channel', k),
           Becomes(t, k)
    PROVE  TasksInv'
<1>1. task' \in [Tasks -> Task]
  BY DEF Becomes, TasksInv
<1>2. \A u \in Tasks : task'[u] = IF u = t THEN k ELSE task[u]
  BY DEF Becomes, TasksInv
<1> QED
  BY <1>1, <1>2, LocalsStable DEF TasksInv

LEMMA RestingOK ==
    ASSUME NEW ch, NEW l \in {"start", "idle", "done"}
    PROVE  Resting(l) \in Task /\ LocalsInv(ch, Resting(l))
<1>1. Resting(l) \in Task
  BY DEF Resting, Task, Labels, Maybe
<1>2. LocalsInv(ch, Resting(l))
  BY DEF Resting, LocalsInv, Callless, Placing, Routing, Handling, Holding, Bridging, Initiating, Actions
<1> QED
  BY <1>1, <1>2

LEMMA Finishes ==
    ASSUME TasksInv, Keeps, NEW t \in Tasks, Finish(t)
    PROVE  TasksInv'
<1> DEFINE k == Resting(IF t = Handler THEN "idle" ELSE "done")
<1>1. k \in Task /\ LocalsInv(channel', k)
  BY RestingOK
<1>2. Becomes(t, k)
  BY DEF Finish
<1> QED
  BY <1>1, <1>2, Moves

LEMMA LocalsOf ==
    ASSUME TasksInv, NEW t \in Tasks
    PROVE  /\ task[t] \in Task /\ LocalsInv(channel, task[t])
           /\ Keeps => LocalsInv(channel', task[t])
BY LocalsStable DEF TasksInv

LEMMA Idle ==
    ASSUME IInv, UNCHANGED <<storeVars, asteriskVars, adapterVars>>
    PROVE  StoreTypeOK' /\ AsteriskInv' /\ Keeps /\ AdapterInv'
BY AsteriskUnchanged, AdapterUnchanged DEF IInv, StoreTypeOK, storeVars

LEMMA LabelNames ==
    /\ "start" \in Labels /\ "idle" \in Labels /\ "done" \in Labels
    /\ "route" \in Labels /\ "route_stations" \in Labels /\ "rehydrate" \in Labels
    /\ "retire" \in Labels /\ "drop_source" \in Labels /\ "initiate" \in Labels
    /\ "dial" \in Labels /\ "dialed" \in Labels /\ "bind" \in Labels
    /\ "fail" \in Labels /\ "connect" \in Labels /\ "promote" \in Labels
    /\ "enroll" \in Labels /\ "add_source" \in Labels /\ "attach_leg" \in Labels
    /\ "reopen" \in Labels /\ "find_source" \in Labels /\ "ring" \in Labels
    /\ "rung" \in Labels /\ "mark" \in Labels /\ "locate" \in Labels
    /\ "repoint" \in Labels /\ "act" \in Labels /\ "recover" \in Labels
    /\ "operate" \in Labels /\ "settle" \in Labels /\ "forget" \in Labels
    /\ "targets" \in Labels /\ "answer" \in Labels /\ "join" \in Labels
    /\ "bridge" \in Labels /\ "bridge_made" \in Labels /\ "bridge_added" \in Labels
    /\ "bridge_failed" \in Labels /\ "reject" \in Labels /\ "cleanup" \in Labels
    /\ "teardown" \in Labels
BY DEF Labels

LEMMA LocalValues ==
    /\ Kinds \subseteq Kinds \cup {"inbound", "none"}
    /\ Actions \subseteq Kinds /\ "call_station" \in Kinds
    /\ "call_stations" \in Kinds /\ "conference_lookup" \in Kinds
    /\ Controllers \subseteq Maybe(Controllers) /\ None \in Maybe(Controllers)
    /\ Extensions \subseteq Maybe(Extensions) /\ None \in Maybe(Extensions)
    /\ Stations \subseteq Extensions /\ Controllers \subseteq Extensions
    /\ Calls \subseteq Maybe(Calls) /\ None \in Maybe(Calls)
    /\ Channels \subseteq Maybe(Channels) /\ None \in Maybe(Channels)
BY DEF Kinds, Maybe, Extensions

LEMMA Requests_ ==
    ASSUME NEW r \in Requests
    PROVE  r \in Tasks /\ r # Handler
BY ControlAssumption DEF Tasks

-----------------------------------------------------------------------------
(* Every action keeps IInv: requests arrive.                                 *)

LEMMA CallStationKeeps ==
    ASSUME IInv, NEW r \in Requests, NEW e \in Stations, CallStation(r, e)
    PROVE  IInv'
<1> DEFINE k == [task[r] EXCEPT !.pc = "route", !.kind = "call_station",
                                !.ctl = ControllerOf[e], !.ext = e]
<1>1. StoreTypeOK' /\ AsteriskInv' /\ Keeps /\ AdapterInv'
  BY Idle DEF CallStation
<1>2. task[r] \in Task /\ LocalsInv(channel', task[r])
  BY <1>1, LocalsOf, Requests_ DEF IInv
<1>3. k \in Task
  BY <1>2, LabelNames, LocalValues, ControlAssumption DEF Task
<1>4. LocalsInv(channel', k)
  BY <1>2, ControlAssumption DEF LocalsInv, Callless, Placing, Routing, Handling, Holding, Bridging, Initiating,
     Task
<1> QED
  BY <1>1, <1>3, <1>4, Moves, Requests_ DEF CallStation, IInv

LEMMA CallStationsKeeps ==
    ASSUME IInv, NEW r \in Requests, NEW T \in SUBSET Stations, CallStations(r, T)
    PROVE  IInv'
<1>1. StoreTypeOK' /\ AsteriskInv' /\ Keeps /\ AdapterInv'
  BY Idle DEF CallStations
<1>2. task[r] \in Task /\ LocalsInv(channel', task[r])
  BY <1>1, LocalsOf, Requests_ DEF IInv
<1>3. PICK e \in T :
        Becomes(r, [task[r] EXCEPT !.pc = "initiate", !.kind = "call_stations",
                                   !.ctl = ControllerOf[e], !.todo = T])
  BY DEF CallStations
<1> DEFINE k == [task[r] EXCEPT !.pc = "initiate", !.kind = "call_stations",
                                !.ctl = ControllerOf[e], !.todo = T]
<1>4. k \in Task
  BY <1>2, LabelNames, LocalValues, ControlAssumption DEF Task
<1>5. LocalsInv(channel', k)
  BY <1>2, ControlAssumption DEF LocalsInv, Callless, Placing, Routing, Handling, Holding, Bridging, Initiating,
     Task, Actions
<1> QED
  BY <1>1, <1>3, <1>4, <1>5, Moves, Requests_ DEF IInv

LEMMA ConferenceLookupKeeps ==
    ASSUME IInv, NEW r \in Requests, NEW s \in Controllers, ConferenceLookup(r, s)
    PROVE  IInv'
<1> DEFINE k == [task[r] EXCEPT !.pc = "route", !.kind = "conference_lookup",
                                !.ctl = s]
<1>1. StoreTypeOK' /\ AsteriskInv' /\ Keeps /\ AdapterInv'
  BY Idle DEF ConferenceLookup
<1>2. task[r] \in Task /\ LocalsInv(channel', task[r])
  BY <1>1, LocalsOf, Requests_ DEF IInv
<1>3. k \in Task
  BY <1>2, LabelNames, LocalValues DEF Task
<1>4. LocalsInv(channel', k)
  BY <1>2 DEF LocalsInv, Callless, Placing, Routing, Handling, Holding, Bridging, Initiating,
     Task, Actions
<1> QED
  BY <1>1, <1>3, <1>4, Moves, Requests_ DEF ConferenceLookup, IInv

LEMMA ParticipantActionKeeps ==
    ASSUME IInv, NEW r \in Requests, NEW e \in Stations, NEW a \in Actions,
           ParticipantAction(r, e, a)
    PROVE  IInv'
<1> DEFINE k == [task[r] EXCEPT !.pc = "locate", !.kind = a, !.ext = e]
<1>1. StoreTypeOK' /\ AsteriskInv' /\ Keeps /\ AdapterInv'
  BY Idle DEF ParticipantAction
<1>2. task[r] \in Task /\ LocalsInv(channel', task[r])
  BY <1>1, LocalsOf, Requests_ DEF IInv
<1>3. k \in Task
  BY <1>2, LabelNames, LocalValues DEF Task
<1>4. LocalsInv(channel', k)
  BY <1>2 DEF LocalsInv, Callless, Placing, Routing, Handling, Holding, Bridging, Initiating,
     Task
<1> QED
  BY <1>1, <1>3, <1>4, Moves, Requests_ DEF ParticipantAction, IInv

-----------------------------------------------------------------------------
(* Every action keeps IInv: routing and creating a call.                     *)

LEMMA NotFoundKeeps ==
    ASSUME TasksInv, Keeps, NEW t \in Tasks, task[t].ctl \in Controllers, NotFound(t)
    PROVE  TasksInv'
<1>1. CASE task[t].kind = "call_station"
  <2> DEFINE k == [task[t] EXCEPT !.pc = "initiate", !.call = None, !.chan = None]
  <2>1. task[t] \in Task /\ LocalsInv(channel', task[t])
    BY LocalsOf
  <2>2. k \in Task
    BY <2>1, LabelNames, LocalValues DEF Task
  <2>3. LocalsInv(channel', k)
    BY <1>1, <2>1
    DEF LocalsInv, Callless, Placing, Routing, Handling, Holding, Bridging, Initiating,
     Task
  <2> QED
    BY <1>1, <2>2, <2>3, Moves DEF NotFound
<1>2. CASE task[t].kind # "call_station"
  BY <1>2, Finishes DEF NotFound
<1> QED
  BY <1>1, <1>2

LEMMA RouteKeeps ==
    ASSUME IInv, NEW r \in Requests, Route(r)
    PROVE  IInv'
<1>1. StoreTypeOK' /\ AsteriskInv' /\ Keeps /\ AdapterInv'
  BY Idle DEF Route
<1>2. task[r] \in Task /\ LocalsInv(channel', task[r]) /\ TasksInv /\ r \in Tasks
  BY <1>1, LocalsOf, Requests_ DEF IInv
<1>3. task[r].ctl \in Controllers
  BY <1>2 DEF Route, At, LocalsInv, Routing
<1>4. ASSUME NEW c \in Calls,
             Becomes(r, [task[r] EXCEPT !.pc = "route_stations", !.call = c,
                                        !.chan = OnlyLiveAt(task[r].ctl)])
      PROVE  TasksInv'
  <2> DEFINE h == OnlyLiveAt(task[r].ctl)
             k == [task[r] EXCEPT !.pc = "route_stations", !.call = c, !.chan = h]
  <2>1. h \in Maybe(Channels)
    BY FoundTypes
  <2>2. h # None => IsOf(channel', h, task[r].ctl)
    BY <1>1, FoundIsOf, IsOfStable DEF IInv
  <2>3. Becomes(r, k)
    BY <1>4
  <2> HIDE DEF h
  <2>4. k \in Task
    BY <1>2, <2>1, LabelNames, LocalValues DEF Task
  <2>5. LocalsInv(channel', k)
    BY <1>2, <1>3, <2>2
    DEF LocalsInv, Callless, Placing, Routing, Handling, Holding, Bridging, Initiating,
     Task
  <2> QED
    BY <1>1, <1>2, <2>3, <2>4, <2>5, Moves
<1>5. TasksInv'
  BY <1>1, <1>2, <1>3, <1>4, NotFoundKeeps, Finishes DEF Route
<1> QED
  BY <1>1, <1>5 DEF IInv

LEMMA LiveLegUsed ==
    ASSUME StoreTypeOK, AsteriskInv, NEW r, task[r].call \in Calls,
           NEW e \in Extensions, LiveLeg(r, e) # None
    PROVE  LiveLeg(r, e) \in Channels /\ Used(channel, LiveLeg(r, e))
<1> DEFINE h == leg[task[r].call][e].channel
<1>1. h \in Maybe(Channels)
  BY LegsTyped DEF LegRow
<1>2. CASE LiveAs(h, e)
  BY <1>1, <1>2, LiveIsOf DEF LiveLeg, IsOf, Used
<1>3. CASE ~LiveAs(h, e)
  <2>1. OnlyLiveAt(e) # None /\ LiveLeg(r, e) = OnlyLiveAt(e)
    BY <1>3 DEF LiveLeg
  <2> QED
    BY <2>1, FoundIsOf DEF IsOf
<1> QED
  BY <1>2, <1>3

LEMMA RouteStationsKeeps ==
    ASSUME IInv, NEW r \in Requests, RouteStations(r)
    PROVE  IInv'
<1>1. StoreTypeOK' /\ AsteriskInv' /\ Keeps /\ AdapterInv'
  BY Idle DEF RouteStations
<1>2. /\ task[r] \in Task /\ LocalsInv(channel', task[r])
      /\ TasksInv /\ r \in Tasks /\ task[r].pc = "route_stations"
  BY <1>1, LocalsOf, Requests_ DEF IInv, RouteStations, At
<1>3. ASSUME Goto(r, "retire")
      PROVE  TasksInv'
  <2> DEFINE k == [task[r] EXCEPT !.pc = "retire"]
  <2>1. k \in Task
    BY <1>2, LabelNames DEF Task
  <2>2. LocalsInv(channel', k)
    BY <1>2
    DEF LocalsInv, Callless, Placing, Routing, Handling, Holding, Bridging, Initiating,
     Task
  <2> QED
    BY <1>1, <1>2, <1>3, <2>1, <2>2, Moves DEF Goto
<1>4. ASSUME task[r].chan # None,
             NEW e \in OpenLegs(task[r].call), LiveLeg(r, e) # None,
             Becomes(r, [task[r] EXCEPT !.pc = "rehydrate", !.old = LiveLeg(r, e)])
      PROVE  TasksInv'
  <2> DEFINE h == LiveLeg(r, e)
             k == [task[r] EXCEPT !.pc = "rehydrate", !.old = h]
  <2>1. e \in Extensions /\ task[r].call \in Calls
    BY <1>2 DEF OpenLegs, Extensions, LocalsInv, Callless
  <2>2. h \in Channels /\ Used(channel', h)
    BY <1>1, <1>4, <2>1, LiveLegUsed DEF IInv, Keeps
  <2>3. Becomes(r, k)
    BY <1>4
  <2> HIDE DEF h
  <2>4. k \in Task
    BY <1>2, <2>2, LabelNames, LocalValues DEF Task
  <2>5. LocalsInv(channel', k)
    BY <1>2, <1>4, <2>2
    DEF LocalsInv, Callless, Placing, Routing, Handling, Holding, Bridging, Initiating,
     Task
  <2> QED
    BY <1>1, <1>2, <2>3, <2>4, <2>5, Moves
<1>5. TasksInv'
  BY <1>1, <1>2, <1>3, <1>4, Finishes DEF RouteStations
<1> QED
  BY <1>1, <1>5 DEF IInv

LEMMA RehydrateKeeps ==
    ASSUME IInv, NEW r \in Requests, Rehydrate(r)
    PROVE  IInv'
<1>1. StoreTypeOK' /\ AsteriskInv' /\ Keeps
  BY AsteriskUnchanged DEF Rehydrate, IInv, StoreTypeOK, storeVars
<1>2. /\ task[r] \in Task /\ LocalsInv(channel', task[r])
      /\ TasksInv /\ r \in Tasks /\ task[r].pc = "rehydrate"
  BY <1>1, LocalsOf, Requests_ DEF IInv, Rehydrate, At
<1> DEFINE c == task[r].call
           old == task[r].old
           m1 == Attach(maps[c], task[r].ctl, task[r].chan)
           m2 == Attach(m1, channel[old].ext, old)
<1>3. /\ c \in Calls /\ task[r].ctl \in Extensions
      /\ IsOf(channel', task[r].chan, task[r].ctl) /\ Used(channel', old)
  BY <1>2, LocalValues DEF LocalsInv, Callless, Routing
<1>4. channel[old].ext \in Extensions /\ IsOf(channel', old, channel[old].ext)
  BY <1>1, <1>3 DEF Rehydrate, asteriskVars, IInv, AsteriskInv, IsOf, Used
<1>5. maps[c] \in Maps /\ Paired(channel', maps[c])
  BY <1>1, <1>3, PairedStable DEF IInv, AdapterInv, AdapterTypeOK
<1>6. m1 \in Maps /\ Paired(channel', m1)
  BY <1>3, <1>5, AttachPairs
<1>7. m2 \in Maps /\ Paired(channel', m2)
  <2> HIDE DEF m1
  <2> QED
    BY <1>4, <1>6, AttachPairs
<1>8. AdapterInv'
  <2>1. maps' = [maps EXCEPT ![c] = m2]
    BY DEF Rehydrate
  <2> HIDE DEF m2, c
  <2> QED
    BY <1>1, <1>3, <1>7, <2>1, MapsChange DEF Rehydrate, IInv, AdapterInv, AdapterTypeOK
<1>9. TasksInv'
  <2>1. CASE task[r].kind = "call_station"
    <3> DEFINE k == [task[r] EXCEPT !.pc = "connect", !.chan = None, !.old = None]
    <3>1. k \in Task
      BY <1>2, LabelNames, LocalValues DEF Task
    <3>2. LocalsInv(channel', k)
      BY <1>2, <2>1
      DEF LocalsInv, Callless, Placing, Routing, Handling, Holding, Bridging, Initiating,
     Task
    <3> QED
      BY <1>1, <1>2, <2>1, <3>1, <3>2, Moves DEF Rehydrate
  <2>2. CASE task[r].kind # "call_station"
    BY <1>1, <1>2, <2>2, Finishes DEF Rehydrate
  <2> QED
    BY <2>1, <2>2
<1> QED
  BY <1>1, <1>8, <1>9 DEF IInv

LEMMA RetireCallKeeps ==
    ASSUME IInv, NEW r \in Requests, RetireCall(r)
    PROVE  IInv'
<1>1. StoreTypeOK' /\ AsteriskInv' /\ Keeps /\ AdapterInv'
  BY RetireTypes, AsteriskUnchanged, AdapterUnchanged DEF RetireCall, IInv
<1>2. /\ task[r] \in Task /\ LocalsInv(channel', task[r])
      /\ TasksInv /\ r \in Tasks /\ task[r].pc = "retire"
  BY <1>1, LocalsOf, Requests_ DEF IInv, RetireCall, At
<1>3. CASE task[r].chan = None
  <2>1. task[r].ctl \in Controllers
    BY <1>2 DEF LocalsInv, Routing
  <2> QED
    BY <1>1, <1>2, <1>3, <2>1, NotFoundKeeps DEF RetireCall, IInv
<1>4. CASE task[r].chan # None
  <2> DEFINE k == [task[r] EXCEPT !.pc = "drop_source"]
  <2>1. k \in Task
    BY <1>2, LabelNames DEF Task
  <2>2. LocalsInv(channel', k)
    <3>1. task[r].chan \in Channels
      BY <1>2, <1>4 DEF Task, Maybe
    <3> QED
      BY <1>2, <3>1
      DEF LocalsInv, Callless, Placing, Routing, Handling, Holding, Bridging, Initiating,
     Task
  <2> QED
    BY <1>1, <1>2, <1>4, <2>1, <2>2, Moves DEF RetireCall, Goto, IInv
<1> QED
  BY <1>3, <1>4

LEMMA DropSourceKeeps ==
    ASSUME IInv, NEW r \in Requests, DropSource(r)
    PROVE  IInv'
<1>1. /\ task[r] \in Task /\ LocalsInv(channel, task[r])
      /\ TasksInv /\ r \in Tasks /\ task[r].pc = "drop_source"
  BY LocalsOf, Requests_ DEF IInv, DropSource, At
<1>2. task[r].chan \in Channels /\ task[r].ctl \in Controllers
  BY <1>1 DEF LocalsInv, Holding, Routing
<1>3. StoreTypeOK' /\ AsteriskInv' /\ Keeps /\ AdapterInv'
  <2>1. AsteriskInv' /\ Keeps
    BY <1>2, DropsKeeps, AsteriskUnchanged DEF DropSource, IInv
  <2> QED
    BY <2>1, AdapterUnchanged DEF DropSource, IInv, StoreTypeOK, storeVars
<1>4. ASSUME NEW next \in {"initiate", "done"},
             next = "initiate" => task[r].kind = "call_station",
             Becomes(r, [task[r] EXCEPT !.pc = "forget", !.next = next])
      PROVE  TasksInv'
  <2> DEFINE k == [task[r] EXCEPT !.pc = "forget", !.next = next]
  <2>1. k \in Task
    BY <1>1, <1>4, LabelNames DEF Task
  <2>2. LocalsInv(channel', k)
    <3>1. LocalsInv(channel', task[r])
      BY <1>1, <1>3, LocalsOf
    <3> QED
      BY <1>1, <1>2, <1>4, <3>1
      DEF LocalsInv, Callless, Placing, Routing, Handling, Holding, Bridging, Initiating,
     Task
  <2> QED
    BY <1>1, <1>3, <1>4, <2>1, <2>2, Moves
<1>5. CASE NotFound(r)
  BY <1>1, <1>2, <1>3, <1>5, NotFoundKeeps DEF IInv
<1>6. CASE ~NotFound(r)
  <2>1. Becomes(r, [task[r] EXCEPT !.pc = "forget", !.next =
                      IF task[r].kind = "call_station" THEN "initiate" ELSE "done"])
    BY <1>6 DEF DropSource
  <2> QED
    BY <1>3, <1>4, <2>1 DEF IInv
<1> QED
  BY <1>3, <1>5, <1>6 DEF IInv

LEMMA OutOfCallsKeeps ==
    ASSUME IInv, NEW r \in Requests, OutOfCalls(r)
    PROVE  IInv'
BY Idle, Finishes, Requests_ DEF OutOfCalls, IInv

LEMMA InitiateCallKeeps ==
    ASSUME IInv, NEW r \in Requests, InitiateCall(r)
    PROVE  IInv'
<1>1. AsteriskInv' /\ Keeps /\ AdapterInv'
  BY AsteriskUnchanged, AdapterUnchanged DEF InitiateCall, IInv
<1>2. /\ task[r] \in Task /\ LocalsInv(channel', task[r])
      /\ TasksInv /\ r \in Tasks /\ task[r].pc = "initiate"
  BY <1>1, LocalsOf, Requests_ DEF IInv, InitiateCall, At
<1>3. /\ task[r].ctl \in Controllers /\ task[r].todo \in SUBSET Stations
      /\ task[r].kind # "call_stations" => task[r].ext \in Stations
  BY <1>2 DEF LocalsInv, Initiating, Task
<1>4. PICK c \in Calls :
        /\ IF task[r].kind = "call_stations"
           THEN InitiateConference(c, task[r].ctl, task[r].todo)
           ELSE Initiate(c, task[r].ctl, task[r].ext)
        /\ Becomes(r, [task[r] EXCEPT !.pc = "dial", !.call = c])
  BY DEF InitiateCall, Absent
<1>5. StoreTypeOK'
  <2>1. "initiated" \in CallStates /\ "conference" \in CallStates
    BY DEF CallStates
  <2>2. CASE task[r].kind = "call_stations"
    BY <1>3, <1>4, <2>1, <2>2, CreateTypes DEF InitiateConference, IInv
  <2>3. CASE task[r].kind # "call_stations"
    BY <1>3, <1>4, <2>1, <2>3, CreateTypes DEF Initiate, IInv
  <2> QED
    BY <2>2, <2>3
<1> DEFINE k == [task[r] EXCEPT !.pc = "dial", !.call = c]
<1>6. k \in Task
  BY <1>2, LabelNames, LocalValues DEF Task
<1>7. LocalsInv(channel', k)
  BY <1>2, <1>3
  DEF LocalsInv, Callless, Placing, Routing, Handling, Holding, Bridging, Initiating,
     Task
<1> QED
  BY <1>1, <1>2, <1>4, <1>5, <1>6, <1>7, Moves DEF IInv

LEMMA DialSourceKeeps ==
    ASSUME IInv, NEW r \in Requests, DialSource(r)
    PROVE  IInv'
<1>1. /\ task[r] \in Task /\ LocalsInv(channel, task[r])
      /\ TasksInv /\ r \in Tasks /\ task[r].pc = "dial"
  BY LocalsOf, Requests_ DEF IInv, DialSource, At
<1>2. task[r].call \in Calls /\ task[r].ctl \in Controllers
      /\ task[r].ctl \in Extensions
  BY <1>1, LocalValues DEF LocalsInv, Callless, Routing
<1>3. ASSUME AsteriskInv' /\ Keeps, TasksInv'
      PROVE  IInv'
  BY <1>3, AdapterUnchanged DEF DialSource, IInv, StoreTypeOK, storeVars
<1>4. ASSUME Keeps, Goto(r, "fail")
      PROVE  TasksInv'
  <2> DEFINE k == [task[r] EXCEPT !.pc = "fail"]
  <2>1. k \in Task
    BY <1>1, LabelNames DEF Task
  <2>2. LocalsInv(channel', k)
    <3>1. LocalsInv(channel', task[r])
      BY <1>1, <1>4, LocalsOf
    <3> QED
      BY <1>1, <3>1
      DEF LocalsInv, Callless, Placing, Routing, Handling, Holding, Bridging, Initiating,
     Task
  <2> QED
    BY <1>1, <1>4, <2>1, <2>2, Moves DEF Goto
<1>5. ASSUME NEW h \in Channels, Dials(h, task[r].ctl, "source", task[r].call),
             Becomes(r, [task[r] EXCEPT !.pc = "dialed", !.chan = h])
      PROVE  IInv'
  <2> DEFINE k == [task[r] EXCEPT !.pc = "dialed", !.chan = h]
  <2>1. AsteriskInv' /\ Keeps /\ IsOf(channel', h, task[r].ctl)
    BY <1>2, <1>5, DialsKeeps DEF IInv
  <2>2. k \in Task
    BY <1>1, LabelNames, LocalValues DEF Task
  <2>3. LocalsInv(channel', k)
    <3>1. LocalsInv(channel', task[r]) /\ h # None
      BY <1>1, <2>1, LocalsOf, TypesAssumption
    <3> QED
      BY <1>1, <1>2, <2>1, <3>1
      DEF LocalsInv, Callless, Placing, Routing, Handling, Holding, Bridging, Initiating,
     Task
  <2> QED
    BY <1>1, <1>3, <1>5, <2>1, <2>2, <2>3, Moves
<1>6. ASSUME NEW h \in Channels, Dials(h, task[r].ctl, "source", task[r].call),
             Goto(r, "fail")
      PROVE  IInv'
  BY <1>2, <1>3, <1>4, <1>6, DialsKeeps DEF IInv
<1>7. ASSUME Goto(r, "fail"), UNCHANGED asteriskVars
      PROVE  IInv'
  BY <1>3, <1>4, <1>7, AsteriskUnchanged DEF IInv
<1> QED
  BY <1>5, <1>6, <1>7 DEF DialSource

LEMMA SourceDialedKeeps ==
    ASSUME IInv, NEW r \in Requests, SourceDialed(r)
    PROVE  IInv'
<1>1. StoreTypeOK' /\ AsteriskInv' /\ Keeps
  BY AsteriskUnchanged DEF SourceDialed, IInv, StoreTypeOK, storeVars
<1>2. /\ task[r] \in Task /\ LocalsInv(channel', task[r])
      /\ TasksInv /\ r \in Tasks /\ task[r].pc = "dialed"
  BY <1>1, LocalsOf, Requests_ DEF IInv, SourceDialed, At
<1>3. /\ task[r].call \in Calls /\ task[r].ctl \in Extensions
      /\ IsOf(channel', task[r].chan, task[r].ctl)
  BY <1>2, LocalValues DEF LocalsInv, Callless, Routing
<1>4. AdapterInv'
  BY <1>1, <1>3, AttachToKeeps DEF SourceDialed, IInv
<1> DEFINE k == [task[r] EXCEPT !.pc = "bind"]
<1>5. k \in Task
  BY <1>2, LabelNames DEF Task
<1>6. LocalsInv(channel', k)
  BY <1>2
  DEF LocalsInv, Callless, Placing, Routing, Handling, Holding, Bridging, Initiating,
     Task
<1> QED
  BY <1>1, <1>2, <1>4, <1>5, <1>6, Moves DEF SourceDialed, Goto, IInv

LEMMA BindSourceKeeps ==
    ASSUME IInv, NEW r \in Requests, BindSource(r)
    PROVE  IInv'
<1>1. task[r].chan \in Maybe(Channels)
  BY LocalsOf, Requests_ DEF IInv, Task
<1> QED
  BY <1>1, BindTypes, AsteriskUnchanged, AdapterUnchanged, Finishes, Requests_
  DEF BindSource, IInv

LEMMA FailCallKeeps ==
    ASSUME IInv, NEW r \in Requests, FailCall(r)
    PROVE  IInv'
BY FailTypes, AsteriskUnchanged, AdapterUnchanged, Finishes, Requests_ DEF FailCall, IInv

-----------------------------------------------------------------------------
(* Every action keeps IInv: connecting a station.                            *)

LEMMA PursueKeeps ==
    ASSUME AsteriskInv, TasksInv, Keeps, NEW r \in Requests, NEW h \in Maybe(Channels),
           NEW next \in {"find_source", "ring"}, NEW chan \in Maybe(Channels),
           h # None => chan = None,
           chan # None => IsOf(channel', chan, task[r].ctl),
           task[r].call \in Calls, task[r].ext \in Stations,
           Pursue(r, h, next, chan)
    PROVE  TasksInv'
<1> DEFINE pc == IF h = None THEN next
                 ELSE IF LiveAs(h, task[r].ext) THEN "attach_leg" ELSE "reopen"
           k == [task[r] EXCEPT !.old = h, !.chan = chan, !.next = next, !.pc = pc]
<1>1. task[r] \in Task /\ LocalsInv(channel', task[r]) /\ r \in Tasks
  BY LocalsOf, Requests_
<1>2. /\ pc \in {"find_source", "ring", "attach_leg", "reopen"}
      /\ pc \in {"find_source", "ring"} => pc = next
      /\ pc = "attach_leg" => IsOf(channel', h, task[r].ext)
      /\ pc = "reopen" => chan = None
  BY LiveIsOf, IsOfStable
<1>3. Becomes(r, k)
  BY DEF Pursue
<1> HIDE DEF pc
<1>4. k \in Task
  BY <1>1, <1>2, LabelNames DEF Task
<1>5. LocalsInv(channel', k)
  BY <1>1, <1>2
  DEF LocalsInv, Callless, Placing, Routing, Handling, Holding, Bridging, Initiating,
     Task
<1> QED
  BY <1>1, <1>3, <1>4, <1>5, Moves

LEMMA ConnectKeeps ==
    ASSUME IInv, NEW r \in Requests, Connect(r)
    PROVE  IInv'
<1>1. StoreTypeOK' /\ AsteriskInv' /\ Keeps /\ AdapterInv'
  BY Idle DEF Connect
<1>2. /\ task[r] \in Task /\ LocalsInv(channel', task[r])
      /\ TasksInv /\ r \in Tasks /\ task[r].pc = "connect"
  BY <1>1, LocalsOf, Requests_ DEF IInv, Connect, At
<1>3. task[r].call \in Calls /\ task[r].ext \in Stations
  BY <1>2 DEF LocalsInv, Callless, Placing
<1>4. ASSUME Goto(r, "promote")
      PROVE  TasksInv'
  <2> DEFINE k == [task[r] EXCEPT !.pc = "promote"]
  <2>1. k \in Task
    BY <1>2, LabelNames DEF Task
  <2>2. LocalsInv(channel', k)
    BY <1>2
    DEF LocalsInv, Callless, Placing, Routing, Handling, Holding, Bridging, Initiating,
     Task
  <2> QED
    BY <1>1, <1>2, <1>4, <2>1, <2>2, Moves DEF Goto
<1>5. ASSUME Pursue(r, leg[task[r].call][task[r].ext].channel, "find_source", None)
      PROVE  TasksInv'
  <2>1. leg[task[r].call][task[r].ext].channel \in Maybe(Channels)
    BY <1>3, LocalValues, LegsTyped DEF IInv, LegRow
  <2> QED
    BY <1>1, <1>2, <1>3, <1>5, <2>1, PursueKeeps, LocalValues DEF IInv
<1>6. TasksInv'
  BY <1>1, <1>2, <1>4, <1>5, Finishes DEF Connect
<1> QED
  BY <1>1, <1>6 DEF IInv

LEMMA PromoteCallKeeps ==
    ASSUME IInv, NEW r \in Requests, PromoteCall(r)
    PROVE  IInv'
<1>1. StoreTypeOK' /\ AsteriskInv' /\ Keeps /\ AdapterInv'
  BY PromoteTypes, AsteriskUnchanged, AdapterUnchanged
  DEF PromoteCall, IInv, StoreTypeOK, storeVars
<1>2. /\ task[r] \in Task /\ LocalsInv(channel', task[r])
      /\ TasksInv /\ r \in Tasks /\ task[r].pc = "promote"
  BY <1>1, LocalsOf, Requests_ DEF IInv, PromoteCall, At
<1>3. ASSUME Goto(r, "enroll")
      PROVE  TasksInv'
  <2> DEFINE k == [task[r] EXCEPT !.pc = "enroll"]
  <2>1. k \in Task
    BY <1>2, LabelNames DEF Task
  <2>2. LocalsInv(channel', k)
    BY <1>2
    DEF LocalsInv, Callless, Placing, Routing, Handling, Holding, Bridging, Initiating,
     Task
  <2> QED
    BY <1>1, <1>2, <1>3, <2>1, <2>2, Moves DEF Goto
<1>4. TasksInv'
  BY <1>1, <1>2, <1>3, Finishes DEF PromoteCall
<1> QED
  BY <1>1, <1>4 DEF IInv

LEMMA EnrollKeeps ==
    ASSUME IInv, NEW r \in Requests, Enroll(r)
    PROVE  IInv'
<1> DEFINE c == task[r].call
           e == task[r].ext
           s == call[c].source
           h == OnlyLiveAt(s)
           k == [task[r] EXCEPT !.pc = "add_source", !.old = leg[c][e].channel,
                                !.chan = h, !.ctl = s]
<1>1. AsteriskInv' /\ Keeps /\ AdapterInv'
  BY AsteriskUnchanged, AdapterUnchanged DEF Enroll, IInv
<1>2. /\ task[r] \in Task /\ LocalsInv(channel', task[r])
      /\ TasksInv /\ r \in Tasks /\ task[r].pc = "enroll"
  BY <1>1, LocalsOf, Requests_ DEF IInv, Enroll, At
<1>3. c \in Calls /\ e \in Stations /\ e \in Extensions
  BY <1>2, LocalValues DEF LocalsInv, Callless, Placing
<1>4. StoreTypeOK'
  BY <1>3, AddParticipantTypes DEF Enroll, IInv, StoreTypeOK, storeVars
<1>5. /\ leg[c][e].channel \in Maybe(Channels)
      /\ s \in Maybe(Controllers)
  BY <1>3, LegsTyped DEF IInv, LegRow, StoreTypeOK, CallRow
<1>6. h \in Maybe(Channels) /\ (h # None => IsOf(channel', h, s))
  BY <1>1, FoundTypes, FoundIsOf, IsOfStable DEF IInv
<1>7. ASSUME Becomes(r, k)
      PROVE  TasksInv'
  <2> HIDE DEF h, s
  <2>1. k \in Task
    BY <1>2, <1>5, <1>6, LabelNames DEF Task
  <2>2. LocalsInv(channel', k)
    BY <1>2, <1>3, <1>6
    DEF LocalsInv, Callless, Placing, Routing, Handling, Holding, Bridging, Initiating,
     Task
  <2> QED
    BY <1>1, <1>2, <1>7, <2>1, <2>2, Moves
<1>8. TasksInv'
  BY <1>1, <1>2, <1>7, Finishes DEF Enroll
<1> QED
  BY <1>1, <1>4, <1>8 DEF IInv

LEMMA AddSourceKeeps ==
    ASSUME IInv, NEW r \in Requests, AddSource(r)
    PROVE  IInv'
<1> DEFINE h == task[r].chan
           old == task[r].old
<1>1. StoreTypeOK' /\ AsteriskInv' /\ Keeps
  BY AsteriskUnchanged DEF AddSource, IInv, StoreTypeOK, storeVars
<1>2. /\ task[r] \in Task /\ LocalsInv(channel', task[r])
      /\ TasksInv /\ r \in Tasks /\ task[r].pc = "add_source"
  BY <1>1, LocalsOf, Requests_ DEF IInv, AddSource, At
<1>3. /\ task[r].call \in Calls /\ task[r].ext \in Stations
      /\ h # None => IsOf(channel', h, task[r].ctl)
      /\ h \in Maybe(Channels) /\ old \in Maybe(Channels)
  BY <1>2 DEF LocalsInv, Callless, Placing, Task
<1>4. AdapterInv'
  <2>1. CASE h = None \/ old = None
    BY <1>1, <2>1, AdapterUnchanged DEF AddSource, IInv
  <2>2. CASE ~(h = None \/ old = None)
    <3>1. IsOf(channel', h, task[r].ctl) /\ AttachTo(task[r].call, task[r].ctl, h)
      BY <1>3, <2>2 DEF AddSource
    <3>2. h \in Channels /\ Used(channel', h) /\ channel'[h].ext = task[r].ctl
      BY <3>1 DEF IsOf, Used
    <3>3. task[r].ctl \in Extensions
      BY <1>1, <3>2 DEF AsteriskInv
    <3> QED
      BY <1>1, <1>3, <3>1, <3>3, AttachToKeeps DEF IInv
  <2> QED
    BY <2>1, <2>2
<1>5. TasksInv'
  <2>1. CASE old = None
    <3>1. Pursue(r, None, "ring", h)
      BY <2>1 DEF AddSource
    <3> QED
      BY <1>1, <1>2, <1>3, <3>1, PursueKeeps, LocalValues DEF IInv
  <2>2. CASE old # None
    <3>1. Pursue(r, old, "ring", None)
      BY <2>2 DEF AddSource
    <3> QED
      BY <1>1, <1>2, <1>3, <3>1, PursueKeeps, LocalValues DEF IInv
  <2> QED
    BY <2>1, <2>2
<1> QED
  BY <1>1, <1>4, <1>5 DEF IInv

LEMMA AttachLegKeeps ==
    ASSUME IInv, NEW r \in Requests, AttachLeg(r)
    PROVE  IInv'
<1>1. StoreTypeOK' /\ AsteriskInv' /\ Keeps
  BY AsteriskUnchanged DEF AttachLeg, IInv, StoreTypeOK, storeVars
<1>2. /\ task[r] \in Task /\ LocalsInv(channel', task[r])
      /\ TasksInv /\ r \in Tasks /\ task[r].pc = "attach_leg"
  BY <1>1, LocalsOf, Requests_ DEF IInv, AttachLeg, At
<1>3. /\ task[r].call \in Calls /\ task[r].ext \in Extensions
      /\ IsOf(channel', task[r].old, task[r].ext)
  BY <1>2, LocalValues DEF LocalsInv, Callless, Placing
<1>4. AdapterInv'
  BY <1>1, <1>3, AttachToKeeps DEF AttachLeg, IInv
<1> QED
  BY <1>1, <1>2, <1>4, Finishes DEF AttachLeg, IInv

LEMMA ReopenLegKeeps ==
    ASSUME IInv, NEW r \in Requests, ReopenLeg(r)
    PROVE  IInv'
<1>1. StoreTypeOK' /\ AsteriskInv' /\ Keeps /\ AdapterInv'
  BY ReopenTypes, AsteriskUnchanged, AdapterUnchanged DEF ReopenLeg, IInv
<1>2. /\ task[r] \in Task /\ LocalsInv(channel', task[r])
      /\ TasksInv /\ r \in Tasks /\ task[r].pc = "reopen"
  BY <1>1, LocalsOf, Requests_ DEF IInv, ReopenLeg, At
<1> DEFINE k == [task[r] EXCEPT !.pc = task[r].next]
<1>3. task[r].next \in {"find_source", "ring"} /\ task[r].chan = None
  BY <1>2 DEF LocalsInv
<1>4. k \in Task
  BY <1>2 DEF Task
<1>5. LocalsInv(channel', k)
  BY <1>2, <1>3
  DEF LocalsInv, Callless, Placing, Routing, Handling, Holding, Bridging, Initiating,
     Task
<1> QED
  BY <1>1, <1>2, <1>4, <1>5, Moves DEF ReopenLeg, Goto, IInv

LEMMA FindSourceKeeps ==
    ASSUME IInv, NEW r \in Requests, FindSource(r)
    PROVE  IInv'
<1> DEFINE s == call[task[r].call].source
           h == OnlyLiveAt(s)
           k == [task[r] EXCEPT !.pc = "ring", !.ctl = s, !.chan = h]
<1>1. StoreTypeOK' /\ AsteriskInv' /\ Keeps /\ AdapterInv'
  BY Idle DEF FindSource
<1>2. /\ task[r] \in Task /\ LocalsInv(channel', task[r])
      /\ TasksInv /\ r \in Tasks /\ task[r].pc = "find_source"
  BY <1>1, LocalsOf, Requests_ DEF IInv, FindSource, At
<1>3. s \in Maybe(Controllers)
  BY <1>2 DEF LocalsInv, Callless, IInv, StoreTypeOK, CallRow
<1>4. h \in Maybe(Channels) /\ (h # None => IsOf(channel', h, s))
  BY <1>1, FoundTypes, FoundIsOf, IsOfStable DEF IInv
<1>5. ASSUME Becomes(r, k)
      PROVE  TasksInv'
  <2> HIDE DEF h, s
  <2>1. k \in Task
    BY <1>2, <1>3, <1>4, LabelNames DEF Task
  <2>2. LocalsInv(channel', k)
    BY <1>2, <1>4
    DEF LocalsInv, Callless, Placing, Routing, Handling, Holding, Bridging, Initiating,
     Task
  <2> QED
    BY <1>1, <1>2, <1>5, <2>1, <2>2, Moves
<1>6. TasksInv'
  BY <1>1, <1>2, <1>5, Finishes DEF FindSource
<1> QED
  BY <1>1, <1>6 DEF IInv

LEMMA RingParticipantKeeps ==
    ASSUME IInv, NEW t \in Tasks, NEW e \in Stations, RingParticipant(t, e)
    PROVE  IInv'
<1> DEFINE c == task[t].call
           own == t = Handler \/ task[t].chan = None
           m == IF own THEN maps[c] ELSE Attach(maps[c], task[t].ctl, task[t].chan)
           left == task[t].todo \ {e}
<1>1. /\ task[t] \in Task /\ LocalsInv(channel, task[t]) /\ TasksInv
      /\ task[t].pc = IF t = Handler THEN "targets" ELSE "ring"
  BY LocalsOf DEF IInv, RingParticipant, At
<1>2. /\ c \in Calls /\ e \in Extensions /\ left \in SUBSET Stations
      /\ ~own => IsOf(channel, task[t].chan, task[t].ctl)
  BY <1>1, LocalValues DEF LocalsInv, Callless, Task
<1>3. m \in Maps /\ Paired(channel, m)
  <2>1. maps[c] \in Maps /\ Paired(channel, maps[c])
    BY <1>2 DEF IInv, AdapterInv, AdapterTypeOK
  <2>2. CASE own
    BY <2>1, <2>2
  <2>3. CASE ~own
    <3>1. /\ task[t].chan \in Channels /\ Used(channel, task[t].chan)
          /\ channel[task[t].chan].ext = task[t].ctl
      BY <1>2, <2>3 DEF IsOf, Used
    <3>2. task[t].ctl \in Extensions
      BY <3>1 DEF IInv, AsteriskInv
    <3> QED
      BY <1>2, <2>1, <2>3, <3>2, AttachPairs
  <2> QED
    BY <2>2, <2>3
<1>4. maps' = [maps EXCEPT ![c] = m] /\ UNCHANGED <<bridges, bridgedChannels, storeVars>>
  BY DEF RingParticipant
<1>5. ASSUME AsteriskInv' /\ Keeps, TasksInv'
      PROVE  IInv'
  <2> HIDE DEF m, c
  <2>1. Paired(channel', m)
    BY <1>3, <1>5, PairedStable
  <2>2. AdapterInv'
    BY <1>2, <1>3, <1>4, <1>5, <2>1, MapsChange DEF IInv, AdapterInv, AdapterTypeOK
  <2> QED
    BY <1>4, <1>5, <2>2 DEF IInv, StoreTypeOK, storeVars
<1>6. ASSUME Finish(t), UNCHANGED asteriskVars
      PROVE  IInv'
  BY <1>1, <1>5, <1>6, AsteriskUnchanged, Finishes DEF IInv
<1>7. ASSUME t # Handler, UNCHANGED asteriskVars, m.channel[e] # None,
             Becomes(t, [task[t] EXCEPT !.pc = "mark", !.chan = m.channel[e]])
      PROVE  IInv'
  <2> DEFINE h == m.channel[e]
             k == [task[t] EXCEPT !.pc = "mark", !.chan = h]
  <2>1. AsteriskInv' /\ Keeps
    BY <1>7, AsteriskUnchanged DEF IInv
  <2>2. h \in Maybe(Channels)
    BY <1>2, <1>3 DEF Maps
  <2>3. Becomes(t, k)
    BY <1>7
  <2> HIDE DEF h
  <2>4. k \in Task
    BY <1>1, <2>2, LabelNames DEF Task
  <2>5. LocalsInv(channel', k)
    <3>1. LocalsInv(channel', task[t])
      BY <1>1, <2>1, LocalsOf
    <3> QED
      BY <1>1, <1>7, <3>1
      DEF LocalsInv, Callless, Placing, Routing, Handling, Holding, Bridging, Initiating,
     Task
  <2> QED
    BY <1>1, <1>5, <2>1, <2>3, <2>4, <2>5, Moves
<1>8. ASSUME t = Handler, UNCHANGED asteriskVars,
             Becomes(t, [task[t] EXCEPT !.todo = left])
      PROVE  IInv'
  <2> DEFINE k == [task[t] EXCEPT !.todo = left]
  <2>1. AsteriskInv' /\ Keeps
    BY <1>8, AsteriskUnchanged DEF IInv
  <2> HIDE DEF left
  <2>2. k \in Task
    BY <1>1, <1>2 DEF Task
  <2>3. LocalsInv(channel', k)
    <3>1. LocalsInv(channel', task[t])
      BY <1>1, <2>1, LocalsOf
    <3> QED
      BY <1>1, <1>8, <3>1
      DEF LocalsInv, Callless, Placing, Routing, Handling, Holding, Bridging, Initiating,
     Task
  <2> QED
    BY <1>1, <1>5, <1>8, <2>1, <2>2, <2>3, Moves
<1>9. ASSUME NEW h \in Channels, Dials(h, e, "callee", c),
             Becomes(t, [task[t] EXCEPT !.pc = "rung", !.chan = h, !.ext = e,
                                        !.todo = left])
      PROVE  IInv'
  <2> DEFINE k == [task[t] EXCEPT !.pc = "rung", !.chan = h, !.ext = e, !.todo = left]
  <2>1. AsteriskInv' /\ Keeps /\ IsOf(channel', h, e)
    BY <1>2, <1>9, DialsKeeps DEF IInv
  <2> HIDE DEF left
  <2>2. k \in Task
    BY <1>1, <1>2, LabelNames, LocalValues DEF Task
  <2>3. LocalsInv(channel', k)
    <3>1. LocalsInv(channel', task[t])
      BY <1>1, <2>1, LocalsOf
    <3> QED
      BY <1>1, <1>2, <2>1, <3>1
      DEF LocalsInv, Callless, Placing, Routing, Handling, Holding, Bridging, Initiating,
     Task
  <2> QED
    BY <1>1, <1>5, <1>9, <2>1, <2>2, <2>3, Moves
<1>10. ASSUME NEW h \in Channels, Dials(h, e, "callee", c), Finish(t)
       PROVE  IInv'
  BY <1>1, <1>2, <1>5, <1>10, DialsKeeps, Finishes DEF IInv
<1> HIDE DEF m
<1> QED
  <2>1. \/ Finish(t) /\ UNCHANGED asteriskVars
        \/ /\ m.channel[e] # None /\ UNCHANGED asteriskVars
           /\ IF t # Handler
              THEN Becomes(t, [task[t] EXCEPT !.pc = "mark", !.chan = m.channel[e]])
              ELSE IF left = {} THEN Finish(t)
              ELSE Becomes(t, [task[t] EXCEPT !.todo = left])
        \/ \E h \in Channels :
             /\ Dials(h, e, "callee", c)
             /\ \/ Becomes(t, [task[t] EXCEPT !.pc = "rung", !.chan = h,
                                              !.ext = e, !.todo = left])
                \/ Finish(t)
    BY DEF RingParticipant, Existing, m
  <2> QED
    BY <2>1, <1>6, <1>7, <1>8, <1>9, <1>10

LEMMA ParticipantRungKeeps ==
    ASSUME IInv, NEW t \in Tasks, ParticipantRung(t)
    PROVE  IInv'
<1>1. StoreTypeOK' /\ AsteriskInv' /\ Keeps
  BY AsteriskUnchanged DEF ParticipantRung, IInv, StoreTypeOK, storeVars
<1>2. /\ task[t] \in Task /\ LocalsInv(channel', task[t])
      /\ TasksInv /\ task[t].pc = "rung"
  BY <1>1, LocalsOf DEF IInv, ParticipantRung, At
<1>3. /\ task[t].call \in Calls /\ task[t].ext \in Extensions
      /\ IsOf(channel', task[t].chan, task[t].ext)
  BY <1>2 DEF LocalsInv, Callless, Handling
<1>4. AdapterInv'
  BY <1>1, <1>3, AttachToKeeps DEF ParticipantRung, IInv
<1>5. ASSUME NEW l \in {"mark", "targets"}, Goto(t, l)
      PROVE  TasksInv'
  <2> DEFINE k == [task[t] EXCEPT !.pc = l]
  <2>1. k \in Task
    BY <1>2, LabelNames DEF Task
  <2>2. LocalsInv(channel', k)
    BY <1>2
    DEF LocalsInv, Callless, Placing, Routing, Handling, Holding, Bridging, Initiating,
     Task
  <2> QED
    BY <1>1, <1>2, <1>5, <2>1, <2>2, Moves DEF Goto
<1>6. TasksInv'
  BY <1>1, <1>2, <1>5, Finishes DEF ParticipantRung
<1> QED
  BY <1>1, <1>4, <1>6 DEF IInv

LEMMA MarkLegKeeps ==
    ASSUME IInv, NEW r \in Requests, MarkLeg(r)
    PROVE  IInv'
<1>1. AsteriskInv' /\ Keeps /\ AdapterInv'
  BY AsteriskUnchanged, AdapterUnchanged DEF MarkLeg, IInv
<1>2. /\ task[r] \in Task /\ LocalsInv(channel, task[r])
      /\ TasksInv /\ r \in Tasks /\ task[r].pc = "mark"
  BY LocalsOf, Requests_ DEF IInv, MarkLeg, At
<1>3. task[r].call \in Calls /\ task[r].chan \in Maybe(Channels)
  BY <1>2 DEF LocalsInv, Callless, Task
<1>4. StoreTypeOK'
  BY <1>3, MarkRingingTypes DEF MarkLeg, IInv, StoreTypeOK, storeVars
<1> QED
  BY <1>1, <1>2, <1>4, Finishes DEF MarkLeg, IInv

-----------------------------------------------------------------------------
(* Every action keeps IInv: acting on a participant.                         *)

LEMMA SeenTypes ==
    ASSUME StoreTypeOK, NEW c \in Calls, NEW e \in Extensions
    PROVE  Seen(c, e) \in Maybe(Channels)
BY LegsTyped, FoundTypes DEF Seen, LegRow

LEMMA LocateKeeps ==
    ASSUME IInv, NEW r \in Requests, Locate(r)
    PROVE  IInv'
<1> DEFINE e == task[r].ext
           onward == IF task[r].kind = "connect" THEN "connect" ELSE "act"
<1>1. StoreTypeOK' /\ AsteriskInv' /\ Keeps /\ AdapterInv'
  BY Idle DEF Locate
<1>2. /\ task[r] \in Task /\ LocalsInv(channel', task[r])
      /\ TasksInv /\ r \in Tasks /\ task[r].pc = "locate"
  BY <1>1, LocalsOf, Requests_ DEF IInv, Locate, At
<1>3. e \in Stations /\ e \in Extensions
  BY <1>2, LocalValues DEF LocalsInv, Placing
<1>4. onward \in {"connect", "act"}
  OBVIOUS
<1>5. ASSUME NEW c \in Calls, Becomes(r, [task[r] EXCEPT !.pc = onward, !.call = c])
      PROVE  TasksInv'
  <2> DEFINE k == [task[r] EXCEPT !.pc = onward, !.call = c]
  <2>1. Becomes(r, k)
    BY <1>5
  <2> HIDE DEF onward
  <2>2. k \in Task
    BY <1>2, <1>4, LabelNames, LocalValues DEF Task
  <2>3. LocalsInv(channel', k)
    BY <1>2, <1>3, <1>4
    DEF LocalsInv, Callless, Placing, Routing, Handling, Holding, Bridging, Initiating,
     Task
  <2> QED
    BY <1>1, <1>2, <2>1, <2>2, <2>3, Moves
<1>6. ASSUME NEW c \in Calls,
             Becomes(r, [task[r] EXCEPT !.pc = "repoint", !.call = c,
                           !.next = onward, !.chan = Seen(c, e)])
      PROVE  TasksInv'
  <2> DEFINE h == Seen(c, e)
             k == [task[r] EXCEPT !.pc = "repoint", !.call = c,
                     !.next = onward, !.chan = h]
  <2>1. Becomes(r, k)
    BY <1>6
  <2>2. h \in Maybe(Channels)
    BY <1>3, SeenTypes DEF IInv
  <2> HIDE DEF onward, h
  <2>3. k \in Task
    BY <1>2, <1>4, <2>2, LabelNames, LocalValues DEF Task
  <2>4. LocalsInv(channel', k)
    BY <1>2, <1>3, <1>4
    DEF LocalsInv, Callless, Placing, Routing, Handling, Holding, Bridging, Initiating,
     Task
  <2> QED
    BY <1>1, <1>2, <2>1, <2>3, <2>4, Moves
<1>7. TasksInv'
  BY <1>1, <1>2, <1>5, <1>6, Finishes DEF Locate
<1> QED
  BY <1>1, <1>7 DEF IInv

LEMMA RepointKeeps ==
    ASSUME IInv, NEW r \in Requests, Repoint(r)
    PROVE  IInv'
<1>1. AsteriskInv' /\ Keeps /\ AdapterInv'
  BY AsteriskUnchanged, AdapterUnchanged DEF Repoint, IInv
<1>2. /\ task[r] \in Task /\ LocalsInv(channel', task[r])
      /\ TasksInv /\ r \in Tasks /\ task[r].pc = "repoint"
  BY <1>1, LocalsOf, Requests_ DEF IInv, Repoint, At
<1>3. StoreTypeOK'
  BY <1>2, BindTypes DEF Repoint, Task, IInv, StoreTypeOK, storeVars
<1> DEFINE k == [task[r] EXCEPT !.pc = task[r].next, !.chan = None]
<1>4. ASSUME Becomes(r, k)
      PROVE  TasksInv'
  <2>1. task[r].next \in {"connect", "act"}
    BY <1>2 DEF LocalsInv
  <2>2. k \in Task
    BY <1>2, LocalValues DEF Task
  <2>3. LocalsInv(channel', k)
    BY <1>2, <2>1
    DEF LocalsInv, Callless, Placing, Routing, Handling, Holding, Bridging, Initiating,
     Task
  <2> QED
    BY <1>1, <1>2, <1>4, <2>2, <2>3, Moves
<1>5. TasksInv'
  BY <1>1, <1>2, <1>4, Finishes DEF Repoint
<1> QED
  BY <1>1, <1>3, <1>5 DEF IInv

LEMMA ActKeeps ==
    ASSUME IInv, NEW r \in Requests, Act(r)
    PROVE  IInv'
<1> DEFINE c == task[r].call
           e == task[r].ext
           h == IF leg[c][e].channel # None THEN leg[c][e].channel ELSE OnlyLiveAt(e)
           pc == IF leg[c][e].channel = h THEN "operate" ELSE "recover"
           k == [task[r] EXCEPT !.chan = h, !.pc = pc]
<1>1. StoreTypeOK' /\ AsteriskInv' /\ Keeps /\ AdapterInv'
  BY Idle DEF Act
<1>2. /\ task[r] \in Task /\ LocalsInv(channel', task[r])
      /\ TasksInv /\ r \in Tasks /\ task[r].pc = "act"
  BY <1>1, LocalsOf, Requests_ DEF IInv, Act, At
<1>3. h \in Maybe(Channels)
  <2>1. c \in Calls /\ e \in Extensions
    BY <1>2, LocalValues DEF LocalsInv, Callless, Placing
  <2> QED
    BY <2>1, LegsTyped, FoundTypes DEF IInv, LegRow
<1>4. pc \in {"operate", "recover"}
  OBVIOUS
<1>5. ASSUME h # None, Becomes(r, k)
      PROVE  TasksInv'
  <2>1. h \in Channels
    BY <1>3, <1>5 DEF Maybe
  <2> HIDE DEF h, pc
  <2>2. k \in Task
    BY <1>2, <1>3, <1>4, LabelNames DEF Task
  <2>3. LocalsInv(channel', k)
    BY <1>2, <1>4, <2>1
    DEF LocalsInv, Callless, Placing, Routing, Handling, Holding, Bridging, Initiating,
     Task
  <2> QED
    BY <1>1, <1>2, <1>5, <2>2, <2>3, Moves
<1>6. TasksInv'
  BY <1>1, <1>2, <1>5, Finishes DEF Act
<1> QED
  BY <1>1, <1>6 DEF IInv

LEMMA RecoverKeeps ==
    ASSUME IInv, NEW r \in Requests, Recover(r)
    PROVE  IInv'
<1>1. AsteriskInv' /\ Keeps /\ AdapterInv'
  BY AsteriskUnchanged, AdapterUnchanged DEF Recover, IInv
<1>2. /\ task[r] \in Task /\ LocalsInv(channel', task[r])
      /\ TasksInv /\ r \in Tasks /\ task[r].pc = "recover"
  BY <1>1, LocalsOf, Requests_ DEF IInv, Recover, At
<1>3. StoreTypeOK'
  BY <1>2, BindTypes DEF Recover, Task, IInv, StoreTypeOK, storeVars
<1>4. ASSUME Goto(r, "operate")
      PROVE  TasksInv'
  <2> DEFINE k == [task[r] EXCEPT !.pc = "operate"]
  <2>1. k \in Task
    BY <1>2, LabelNames DEF Task
  <2>2. LocalsInv(channel', k)
    BY <1>2
    DEF LocalsInv, Callless, Placing, Routing, Handling, Holding, Bridging, Initiating,
     Task
  <2> QED
    BY <1>1, <1>2, <1>4, <2>1, <2>2, Moves DEF Goto
<1>5. TasksInv'
  BY <1>1, <1>2, <1>4, Finishes DEF Recover
<1> QED
  BY <1>1, <1>3, <1>5 DEF IInv

LEMMA OperateKeeps ==
    ASSUME IInv, NEW r \in Requests, Operate(r)
    PROVE  IInv'
<1> DEFINE h == task[r].chan
           found == OnlyLiveAt(task[r].ext)
<1>1. /\ task[r] \in Task /\ LocalsInv(channel, task[r])
      /\ TasksInv /\ r \in Tasks /\ task[r].pc = "operate"
  BY LocalsOf, Requests_ DEF IInv, Operate, At
<1>2. h \in Channels /\ task[r].ext \in Stations
  BY <1>1 DEF LocalsInv, Holding, Placing
<1>3. StoreTypeOK' /\ AsteriskInv' /\ Keeps /\ AdapterInv'
  <2>1. AsteriskInv' /\ Keeps
    BY <1>2, DropsKeeps, AsteriskUnchanged DEF Operate, IInv
  <2> QED
    BY <2>1, AdapterUnchanged DEF Operate, IInv, StoreTypeOK, storeVars
<1>4. LocalsInv(channel', task[r])
  BY <1>1, <1>3, LocalsOf
<1>5. ASSUME Becomes(r, [task[r] EXCEPT !.pc = "forget", !.next = "settle"])
      PROVE  TasksInv'
  <2> DEFINE k == [task[r] EXCEPT !.pc = "forget", !.next = "settle"]
  <2>1. k \in Task
    BY <1>1, LabelNames DEF Task
  <2>2. LocalsInv(channel', k)
    BY <1>1, <1>4
    DEF LocalsInv, Callless, Placing, Routing, Handling, Holding, Bridging, Initiating,
     Task
  <2> QED
    BY <1>1, <1>3, <1>5, <2>1, <2>2, Moves
<1>6. ASSUME Goto(r, "settle")
      PROVE  TasksInv'
  <2> DEFINE k == [task[r] EXCEPT !.pc = "settle"]
  <2>1. k \in Task
    BY <1>1, LabelNames DEF Task
  <2>2. LocalsInv(channel', k)
    BY <1>1, <1>4
    DEF LocalsInv, Callless, Placing, Routing, Handling, Holding, Bridging, Initiating,
     Task
  <2> QED
    BY <1>1, <1>3, <1>6, <2>1, <2>2, Moves DEF Goto
<1>7. ASSUME found # None,
             Becomes(r, [task[r] EXCEPT !.pc = "recover", !.chan = found, !.old = found])
      PROVE  TasksInv'
  <2> DEFINE k == [task[r] EXCEPT !.pc = "recover", !.chan = found, !.old = found]
  <2>1. found \in Channels
    BY <1>7, FoundTypes DEF Maybe
  <2>2. Becomes(r, k)
    BY <1>7
  <2> HIDE DEF found
  <2>3. k \in Task
    BY <1>1, <2>1, LabelNames, LocalValues DEF Task
  <2>4. LocalsInv(channel', k)
    BY <1>1, <1>2, <1>4, <2>1
    DEF LocalsInv, Callless, Placing, Routing, Handling, Holding, Bridging, Initiating,
     Task
  <2> QED
    BY <1>1, <1>3, <2>2, <2>3, <2>4, Moves
<1>8. TasksInv'
  BY <1>1, <1>3, <1>5, <1>6, <1>7, Finishes DEF Operate
<1> QED
  BY <1>3, <1>8 DEF IInv

LEMMA ForgetChannelKeeps ==
    ASSUME IInv, NEW t \in Tasks, ForgetChannel(t)
    PROVE  IInv'
<1>1. StoreTypeOK' /\ AsteriskInv' /\ Keeps /\ AdapterInv'
  BY AsteriskUnchanged, ForgetKeeps DEF ForgetChannel, IInv, StoreTypeOK, storeVars
<1>2. /\ task[t] \in Task /\ LocalsInv(channel', task[t])
      /\ TasksInv /\ task[t].pc = "forget"
  BY <1>1, LocalsOf DEF IInv, ForgetChannel, At
<1>3. ASSUME Goto(t, "settle")
      PROVE  TasksInv'
  <2> DEFINE k == [task[t] EXCEPT !.pc = "settle"]
  <2>1. k \in Task
    BY <1>2, LabelNames DEF Task
  <2>2. LocalsInv(channel', k)
    BY <1>2
    DEF LocalsInv, Callless, Placing, Routing, Handling, Holding, Bridging, Initiating,
     Task
  <2> QED
    BY <1>1, <1>2, <1>3, <2>1, <2>2, Moves DEF Goto
<1>4. ASSUME task[t].next = "initiate", NotFound(t)
      PROVE  TasksInv'
  <2>1. task[t].ctl \in Controllers
    BY <1>2, <1>4 DEF LocalsInv, Initiating
  <2> QED
    BY <1>1, <1>2, <1>4, <2>1, NotFoundKeeps
<1>5. TasksInv'
  BY <1>1, <1>2, <1>3, <1>4, Finishes DEF ForgetChannel
<1> QED
  BY <1>1, <1>5 DEF IInv

LEMMA SettleKeeps ==
    ASSUME IInv, NEW r \in Requests, Settle(r)
    PROVE  IInv'
<1>1. StoreTypeOK'
  BY RemoveParticipantTypes DEF Settle, IInv, StoreTypeOK, storeVars
<1> QED
  BY <1>1, AsteriskUnchanged, AdapterUnchanged, Finishes, Requests_ DEF Settle, IInv

LEMMA LookupFailsKeeps ==
    ASSUME IInv, NEW r \in Requests, LookupFails(r)
    PROVE  IInv'
BY Idle, Finishes, Requests_ DEF LookupFails, IInv

-----------------------------------------------------------------------------
(* Every action keeps IInv: the event task.                                  *)

LEMMA HandlerTask ==
    ASSUME TasksInv
    PROVE  /\ Handler \in Tasks /\ task[Handler] \in Task
           /\ LocalsInv(channel, task[Handler])
           /\ Keeps => LocalsInv(channel', task[Handler])
BY LocalsOf DEF Tasks

LEMMA SourceEnteredKeeps ==
    ASSUME IInv, NEW h \in Channels, SourceEntered(h)
    PROVE  IInv'
<1> DEFINE c == channel[h].call
           T == call[c].targets
           k == [task[Handler] EXCEPT !.pc = "targets", !.call = c, !.todo = T]
<1>1. AsteriskInv' /\ Keeps /\ AdapterInv'
  BY ReceivesKeeps, AdapterUnchanged DEF SourceEntered, IInv
<1>2. /\ Handler \in Tasks /\ task[Handler] \in Task /\ TasksInv
      /\ LocalsInv(channel', task[Handler]) /\ task[Handler].pc = "idle"
  BY <1>1, HandlerTask DEF IInv, SourceEntered, Receives, At
<1>3. c \in Calls
  BY DEF SourceEntered, IInv, AsteriskInv
<1>4. StoreTypeOK'
  BY <1>3, MarkConnectedTypes, LocalValues DEF SourceEntered, IInv
<1>5. T \in SUBSET Stations
  BY <1>3 DEF IInv, StoreTypeOK, CallRow
<1>6. Becomes(Handler, k)
  BY DEF SourceEntered
<1> HIDE DEF c, T
<1>7. k \in Task
  BY <1>2, <1>3, <1>5, LabelNames, LocalValues DEF Task
<1>8. LocalsInv(channel', k)
  BY <1>2, <1>3
  DEF LocalsInv, Callless, Placing, Routing, Handling, Holding, Bridging, Initiating,
     Task
<1> QED
  BY <1>1, <1>2, <1>4, <1>6, <1>7, <1>8, Moves DEF IInv

LEMMA CalleeEnteredKeeps ==
    ASSUME IInv, NEW h \in Channels, CalleeEntered(h)
    PROVE  IInv'
<1> DEFINE c == channel[h].call
           e == channel[h].ext
           k == [task[Handler] EXCEPT !.pc = "bridge", !.call = c, !.ext = e, !.chan = h]
<1>1. AsteriskInv' /\ Keeps /\ AdapterInv'
  BY ReceivesKeeps, AdapterUnchanged DEF CalleeEntered, IInv
<1>2. /\ Handler \in Tasks /\ task[Handler] \in Task /\ TasksInv
      /\ LocalsInv(channel', task[Handler]) /\ task[Handler].pc = "idle"
  BY <1>1, HandlerTask DEF IInv, CalleeEntered, Receives, At
<1>3. c \in Calls /\ e \in Stations /\ e \in Extensions
  BY LocalValues DEF CalleeEntered, IInv, AsteriskInv
<1>4. StoreTypeOK'
  BY <1>3, MarkConnectedTypes, LocalValues
  DEF CalleeEntered, IInv, StoreTypeOK, storeVars
<1>5. ASSUME Becomes(Handler, k)
      PROVE  TasksInv'
  <2> HIDE DEF c, e
  <2>1. k \in Task
    BY <1>2, <1>3, LabelNames, LocalValues DEF Task
  <2>2. LocalsInv(channel', k)
    BY <1>2, <1>3
    DEF LocalsInv, Callless, Placing, Routing, Handling, Holding, Bridging, Initiating,
     Task
  <2> QED
    BY <1>1, <1>2, <1>5, <2>1, <2>2, Moves
<1>6. TasksInv'
  BY <1>1, <1>2, <1>5, TasksUnchanged DEF CalleeEntered
<1> QED
  BY <1>1, <1>4, <1>6 DEF IInv

LEMMA InboundEnteredKeeps ==
    ASSUME IInv, NEW h \in Channels, InboundEntered(h)
    PROVE  IInv'
<1> DEFINE e == channel[h].ext
           local == [task[Handler] EXCEPT !.kind = "inbound", !.ext = e, !.chan = h]
<1>1. AsteriskInv' /\ Keeps /\ AdapterInv'
  BY ReceivesKeeps, AdapterUnchanged DEF InboundEntered, IInv
<1>2. /\ Handler \in Tasks /\ task[Handler] \in Task /\ TasksInv
      /\ LocalsInv(channel', task[Handler]) /\ task[Handler].pc = "idle"
  BY <1>1, HandlerTask DEF IInv, InboundEntered, Receives, At
<1>3. e \in Stations /\ e \in Extensions /\ IsOf(channel', h, e)
  <2>1. e \in Stations /\ Used(channel, h)
    BY DEF InboundEntered, IInv, AsteriskInv
  <2> QED
    BY <1>1, <2>1, LocalValues, IsOfStable DEF IsOf
<1>4. StoreTypeOK'
  BY <1>3, AddParticipantTypes DEF InboundEntered, IInv, StoreTypeOK, storeVars
<1> HIDE DEF e
<1>5. local \in Task /\ local.kind = "inbound" /\ local.ext = e /\ local.chan = h
  BY <1>2, <1>3, LocalValues DEF Task
<1>6. ASSUME Becomes(Handler, [local EXCEPT !.pc = "reject"])
      PROVE  TasksInv'
  <2> DEFINE k == [local EXCEPT !.pc = "reject"]
  <2> HIDE DEF local
  <2>1. k \in Task
    BY <1>5, LabelNames DEF Task
  <2>2. LocalsInv(channel', k)
    BY <1>5
    DEF LocalsInv, Callless, Placing, Routing, Handling, Holding, Bridging, Initiating,
     Task, Actions
  <2> QED
    BY <1>1, <1>2, <1>6, <2>1, <2>2, Moves
<1>7. ASSUME NEW c \in Calls, Becomes(Handler, [local EXCEPT !.pc = "answer", !.call = c])
      PROVE  TasksInv'
  <2> DEFINE k == [local EXCEPT !.pc = "answer", !.call = c]
  <2> HIDE DEF local
  <2>1. k \in Task
    BY <1>5, LabelNames, LocalValues DEF Task
  <2>2. LocalsInv(channel', k)
    BY <1>3, <1>5
    DEF LocalsInv, Callless, Placing, Routing, Handling, Holding, Bridging, Initiating,
     Task, Actions
  <2> QED
    BY <1>1, <1>2, <1>7, <2>1, <2>2, Moves
<1>8. TasksInv'
  BY <1>6, <1>7 DEF InboundEntered, e
<1> QED
  BY <1>1, <1>4, <1>8 DEF IInv

LEMMA AnswerInboundKeeps ==
    ASSUME IInv, AnswerInbound
    PROVE  IInv'
<1>1. /\ Handler \in Tasks /\ task[Handler] \in Task /\ TasksInv
      /\ LocalsInv(channel, task[Handler]) /\ task[Handler].pc = "answer"
  BY HandlerTask DEF IInv, AnswerInbound, At
<1>2. /\ task[Handler].chan \in Channels /\ task[Handler].call \in Calls
      /\ task[Handler].ext \in Extensions
      /\ IsOf(channel, task[Handler].chan, task[Handler].ext)
  BY <1>1 DEF LocalsInv, Callless, Handling, Holding
<1>3. StoreTypeOK' /\ AsteriskInv' /\ Keeps
  BY <1>2, AnswersKeeps, AsteriskUnchanged
  DEF AnswerInbound, IInv, StoreTypeOK, storeVars
<1>4. AdapterInv'
  BY <1>2, <1>3, IsOfStable, AttachToKeeps DEF AnswerInbound, IInv
<1>5. ASSUME NEW l \in {"join", "reject"}, Goto(Handler, l)
      PROVE  TasksInv'
  <2> DEFINE k == [task[Handler] EXCEPT !.pc = l]
  <2>1. k \in Task
    BY <1>1, LabelNames DEF Task
  <2>2. LocalsInv(channel', k)
    <3>1. LocalsInv(channel', task[Handler])
      BY <1>3, HandlerTask DEF IInv
    <3> QED
      BY <1>1, <3>1
      DEF LocalsInv, Callless, Placing, Routing, Handling, Holding, Bridging, Initiating,
     Task
  <2> QED
    BY <1>1, <1>3, <1>5, <2>1, <2>2, Moves DEF Goto
<1>6. TasksInv'
  BY <1>5 DEF AnswerInbound
<1> QED
  BY <1>3, <1>4, <1>6 DEF IInv

LEMMA JoinInboundKeeps ==
    ASSUME IInv, JoinInbound
    PROVE  IInv'
<1>1. AsteriskInv' /\ Keeps /\ AdapterInv'
  BY AsteriskUnchanged, AdapterUnchanged DEF JoinInbound, IInv
<1>2. /\ Handler \in Tasks /\ task[Handler] \in Task /\ TasksInv
      /\ LocalsInv(channel', task[Handler]) /\ task[Handler].pc = "join"
  BY <1>1, HandlerTask DEF IInv, JoinInbound, At
<1>3. task[Handler].call \in Calls /\ task[Handler].chan \in Maybe(Channels)
  BY <1>2 DEF LocalsInv, Callless, Task
<1>4. StoreTypeOK'
  BY <1>3, MarkConnectedTypes DEF JoinInbound, IInv, StoreTypeOK, storeVars
<1>5. ASSUME NEW l \in {"bridge", "reject"}, Goto(Handler, l)
      PROVE  TasksInv'
  <2> DEFINE k == [task[Handler] EXCEPT !.pc = l]
  <2>1. k \in Task
    BY <1>2, LabelNames DEF Task
  <2>2. LocalsInv(channel', k)
    BY <1>2
    DEF LocalsInv, Callless, Placing, Routing, Handling, Holding, Bridging, Initiating,
     Task
  <2> QED
    BY <1>1, <1>2, <1>5, <2>1, <2>2, Moves DEF Goto
<1>6. TasksInv'
  BY <1>5 DEF JoinInbound
<1> QED
  BY <1>1, <1>4, <1>6 DEF IInv

LEMMA RaisedKeeps ==
    ASSUME TasksInv, Keeps, task[Handler].pc \in Bridging, Raised("reject")
    PROVE  TasksInv'
<1> DEFINE k == [task[Handler] EXCEPT !.pc = "reject"]
<1>1. /\ Handler \in Tasks /\ task[Handler] \in Task
      /\ LocalsInv(channel', task[Handler])
  BY HandlerTask
<1>2. CASE task[Handler].kind = "inbound"
  <2>1. k \in Task
    BY <1>1, LabelNames DEF Task
  <2>2. LocalsInv(channel', k)
    BY <1>1, <1>2
    DEF LocalsInv, Callless, Placing, Routing, Handling, Holding, Bridging, Initiating,
     Task
  <2> QED
    BY <1>1, <1>2, <2>1, <2>2, Moves DEF Raised, Goto
<1>3. CASE task[Handler].kind # "inbound"
  BY <1>1, <1>3, Finishes DEF Raised
<1> QED
  BY <1>2, <1>3

LEMMA MakeBridgeKeeps ==
    ASSUME IInv, MakeBridge
    PROVE  IInv'
<1>1. /\ Handler \in Tasks /\ task[Handler] \in Task /\ TasksInv
      /\ LocalsInv(channel, task[Handler]) /\ task[Handler].pc = "bridge"
  BY HandlerTask DEF IInv, MakeBridge, At
<1>2. task[Handler].call \in Calls
  BY <1>1 DEF LocalsInv, Callless
<1>3. StoreTypeOK' /\ AsteriskInv' /\ Keeps /\ AdapterInv'
  <2>1. AsteriskInv' /\ Keeps
    BY <1>2, BridgingKeeps, AsteriskUnchanged DEF MakeBridge, IInv
  <2> QED
    BY <2>1, AdapterUnchanged DEF MakeBridge, IInv, StoreTypeOK, storeVars
<1>4. ASSUME Goto(Handler, "bridge_made")
      PROVE  TasksInv'
  <2> DEFINE k == [task[Handler] EXCEPT !.pc = "bridge_made"]
  <2>1. k \in Task
    BY <1>1, LabelNames DEF Task
  <2>2. LocalsInv(channel', k)
    <3>1. LocalsInv(channel', task[Handler])
      BY <1>3, HandlerTask DEF IInv
    <3> QED
      BY <1>1, <3>1
      DEF LocalsInv, Callless, Placing, Routing, Handling, Holding, Bridging, Initiating,
     Task
  <2> QED
    BY <1>1, <1>3, <1>4, <2>1, <2>2, Moves DEF Goto
<1>5. ASSUME Raised("reject")
      PROVE  TasksInv'
  BY <1>1, <1>3, <1>5, RaisedKeeps DEF Bridging
<1>6. TasksInv'
  BY <1>4, <1>5 DEF MakeBridge
<1> QED
  BY <1>3, <1>6 DEF IInv

LEMMA AddToBridgeKeeps ==
    ASSUME IInv, AddToBridge
    PROVE  IInv'
<1> DEFINE c == task[Handler].call
           e == task[Handler].ext
           m == maps[c]
           pending(f) == {m.channel[f], m.channel[e]}
                           \ (IF At(Handler, "bridge_made") THEN {}
                              ELSE bridgedChannels[c])
<1>1. /\ Handler \in Tasks /\ task[Handler] \in Task /\ TasksInv
      /\ LocalsInv(channel, task[Handler])
      /\ task[Handler].pc \in {"bridge", "bridge_made"}
  BY HandlerTask DEF IInv, AddToBridge, At
<1>2. c \in Calls /\ e \in Extensions
  BY <1>1 DEF LocalsInv, Callless, Handling
<1>3. ASSUME m.channel[e] # None, NEW f \in Extensions, IsFirst(m, f)
      PROVE  pending(f) \in SUBSET Channels
  <2>1. m \in Maps
    BY <1>2 DEF IInv, AdapterInv, AdapterTypeOK
  <2>2. m.channel[f] \in Channels /\ m.channel[e] \in Channels
    BY <1>2, <1>3, <2>1 DEF IsFirst, Keys, Maps, Maybe
  <2> QED
    BY <2>2
<1>4. AsteriskInv' /\ Keeps
  <2>1. UNCHANGED asteriskVars \/ \E S : Adds(c, S)
    BY DEF AddToBridge
  <2> QED
    BY <1>2, <2>1, BridgingKeeps, AsteriskUnchanged DEF IInv
<1>5. AdapterInv'
  <2>1. BridgeKnown(c) \/ UNCHANGED adapterVars
    BY DEF AddToBridge
  <2> QED
    BY <1>2, <1>4, <2>1, BridgesKeep, AdapterUnchanged DEF IInv
<1>6. LocalsInv(channel', task[Handler])
  BY <1>1, <1>4, HandlerTask
<1>7. ASSUME Goto(Handler, "bridge_failed")
      PROVE  TasksInv'
  <2> DEFINE k == [task[Handler] EXCEPT !.pc = "bridge_failed"]
  <2>1. k \in Task
    BY <1>1, LabelNames DEF Task
  <2>2. LocalsInv(channel', k)
    BY <1>1, <1>6
    DEF LocalsInv, Callless, Placing, Routing, Handling, Holding, Bridging, Initiating,
     Task
  <2> QED
    BY <1>1, <1>4, <1>7, <2>1, <2>2, Moves DEF Goto
<1>8. ASSUME m.channel[e] # None, NEW f \in Extensions, IsFirst(m, f),
             Becomes(Handler, [task[Handler] EXCEPT !.pc = "bridge_added",
                                                    !.legs = pending(f)])
      PROVE  TasksInv'
  <2> DEFINE S == pending(f)
             k == [task[Handler] EXCEPT !.pc = "bridge_added", !.legs = S]
  <2>1. S \in SUBSET Channels
    BY <1>3, <1>8
  <2>2. Becomes(Handler, k)
    BY <1>8
  <2> HIDE DEF S
  <2>3. k \in Task
    BY <1>1, <2>1, LabelNames DEF Task
  <2>4. LocalsInv(channel', k)
    BY <1>1, <1>6
    DEF LocalsInv, Callless, Placing, Routing, Handling, Holding, Bridging, Initiating,
     Task
  <2> QED
    BY <1>1, <1>4, <2>2, <2>3, <2>4, Moves
<1>9. TasksInv'
  <2>1. \/ Goto(Handler, "bridge_failed") \/ Finish(Handler)
        \/ \E f \in Extensions :
             /\ m.channel[e] # None /\ IsFirst(m, f)
             /\ Becomes(Handler, [task[Handler] EXCEPT !.pc = "bridge_added",
                                                       !.legs = pending(f)])
    BY DEF AddToBridge
  <2> QED
    BY <1>1, <1>4, <1>7, <1>8, <2>1, Finishes
<1> QED
  BY <1>4, <1>5, <1>9 DEF AddToBridge, IInv, StoreTypeOK, storeVars

LEMMA BridgeAddedKeeps ==
    ASSUME IInv, BridgeAdded
    PROVE  IInv'
<1>1. /\ Handler \in Tasks /\ task[Handler] \in Task /\ TasksInv
      /\ LocalsInv(channel, task[Handler]) /\ task[Handler].pc = "bridge_added"
  BY HandlerTask DEF IInv, BridgeAdded, At
<1>2. task[Handler].call \in Calls /\ task[Handler].legs \in SUBSET Channels
  BY <1>1 DEF LocalsInv, Callless, Task
<1>3. StoreTypeOK' /\ AsteriskInv' /\ Keeps
  BY AsteriskUnchanged DEF BridgeAdded, IInv, StoreTypeOK, storeVars
<1>4. AdapterInv'
  BY <1>2, <1>3, BridgesKeep DEF BridgeAdded, IInv
<1> QED
  BY <1>1, <1>3, <1>4, Finishes DEF BridgeAdded, IInv

LEMMA BridgeFailedKeeps ==
    ASSUME IInv, BridgeFailed
    PROVE  IInv'
<1>1. /\ Handler \in Tasks /\ task[Handler] \in Task /\ TasksInv
      /\ LocalsInv(channel, task[Handler]) /\ task[Handler].pc = "bridge_failed"
  BY HandlerTask DEF IInv, BridgeFailed, At
<1>2. task[Handler].call \in Calls
  BY <1>1 DEF LocalsInv, Callless
<1>3. StoreTypeOK' /\ AsteriskInv' /\ Keeps
  BY <1>2, BridgingKeeps, AsteriskUnchanged
  DEF BridgeFailed, IInv, StoreTypeOK, storeVars
<1>4. AdapterInv'
  BY <1>2, <1>3, BridgesKeep, AdapterUnchanged DEF BridgeFailed, IInv
<1>5. TasksInv'
  BY <1>1, <1>3, RaisedKeeps DEF BridgeFailed, Bridging
<1> QED
  BY <1>3, <1>4, <1>5 DEF IInv

LEMMA RejectInboundKeeps ==
    ASSUME IInv, RejectInbound
    PROVE  IInv'
<1>1. /\ Handler \in Tasks /\ task[Handler] \in Task /\ TasksInv
      /\ LocalsInv(channel, task[Handler]) /\ task[Handler].pc = "reject"
  BY HandlerTask DEF IInv, RejectInbound, At
<1>2. task[Handler].chan \in Channels
  BY <1>1 DEF LocalsInv, Holding
<1>3. StoreTypeOK' /\ AsteriskInv' /\ Keeps /\ AdapterInv'
  <2>1. AsteriskInv' /\ Keeps
    BY <1>2, DropsKeeps, AsteriskUnchanged DEF RejectInbound, IInv
  <2> QED
    BY <2>1, AdapterUnchanged DEF RejectInbound, IInv, StoreTypeOK, storeVars
<1>4. ASSUME Becomes(Handler, [task[Handler] EXCEPT !.pc = "forget", !.next = "done"])
      PROVE  TasksInv'
  <2> DEFINE k == [task[Handler] EXCEPT !.pc = "forget", !.next = "done"]
  <2>1. k \in Task
    BY <1>1, LabelNames DEF Task
  <2>2. LocalsInv(channel', k)
    <3>1. LocalsInv(channel', task[Handler])
      BY <1>3, HandlerTask DEF IInv
    <3> QED
      BY <1>1, <3>1
      DEF LocalsInv, Callless, Placing, Routing, Handling, Holding, Bridging, Initiating,
     Task
  <2> QED
    BY <1>1, <1>3, <1>4, <2>1, <2>2, Moves
<1>5. TasksInv'
  BY <1>1, <1>3, <1>4, Finishes DEF RejectInbound
<1> QED
  BY <1>3, <1>5 DEF IInv

LEMMA StateChangedKeeps ==
    ASSUME IInv, NEW type, NEW h \in Channels, StateChanged(type, h)
    PROVE  IInv'
<1>1. AsteriskInv' /\ Keeps
  BY ReceivesKeeps DEF StateChanged, IInv
<1>2. StoreTypeOK'
  BY LegStateTypes DEF StateChanged, IInv, StoreTypeOK, storeVars
<1> QED
  BY <1>1, <1>2, AdapterUnchanged, TasksUnchanged DEF StateChanged, IInv

LEMMA LegEndedKeeps ==
    ASSUME IInv, NEW h \in Channels, LegEnded(h)
    PROVE  IInv'
<1>1. AsteriskInv' /\ Keeps /\ AdapterInv'
  BY ReceivesKeeps, AdapterUnchanged DEF LegEnded, IInv
<1>2. /\ Handler \in Tasks /\ task[Handler] \in Task /\ TasksInv
      /\ LocalsInv(channel', task[Handler]) /\ task[Handler].pc = "idle"
  BY <1>1, HandlerTask DEF IInv, LegEnded, Receives, At
<1>3. StoreTypeOK'
  BY EndLegTypes DEF LegEnded, IInv, StoreTypeOK, storeVars
<1>4. ASSUME NEW c \in Calls,
             Becomes(Handler, [task[Handler] EXCEPT !.pc = "cleanup", !.call = c,
                                                    !.chan = h])
      PROVE  TasksInv'
  <2> DEFINE k == [task[Handler] EXCEPT !.pc = "cleanup", !.call = c, !.chan = h]
  <2>1. k \in Task
    BY <1>2, LabelNames, LocalValues DEF Task
  <2>2. LocalsInv(channel', k)
    BY <1>2
    DEF LocalsInv, Callless, Placing, Routing, Handling, Holding, Bridging, Initiating,
     Task
  <2> QED
    BY <1>1, <1>2, <1>4, <2>1, <2>2, Moves
<1>5. TasksInv'
  BY <1>1, <1>2, <1>4, TasksUnchanged DEF LegEnded
<1> QED
  BY <1>1, <1>3, <1>5 DEF IInv

LEMMA CleanupKeeps ==
    ASSUME IInv, Cleanup
    PROVE  IInv'
<1> DEFINE c == task[Handler].call
           left == MappedChannels(Unmapped(c, task[Handler].chan))
<1>1. /\ Handler \in Tasks /\ task[Handler] \in Task /\ TasksInv
      /\ LocalsInv(channel, task[Handler]) /\ task[Handler].pc = "cleanup"
  BY HandlerTask DEF IInv, Cleanup, At
<1>2. c \in Calls
  BY <1>1 DEF LocalsInv, Callless
<1>3. StoreTypeOK' /\ AsteriskInv' /\ Keeps
  BY <1>2, BridgingKeeps, AsteriskUnchanged DEF Cleanup, IInv, StoreTypeOK, storeVars
<1>4. AdapterInv'
  BY <1>2, <1>3, UnmapKeeps, UnmapCallKeeps DEF Cleanup, IInv
<1>5. ASSUME Becomes(Handler, [task[Handler] EXCEPT !.pc = "teardown", !.legs = left])
      PROVE  TasksInv'
  <2> DEFINE k == [task[Handler] EXCEPT !.pc = "teardown", !.legs = left]
  <2>1. left \in SUBSET Channels
    <3>1. Unmapped(c, task[Handler].chan) \in Maps
      BY <1>2, <1>3, UnmappedPairs DEF IInv
    <3> QED
      BY <3>1 DEF MappedChannels, Keys, Maps, Maybe
  <2>2. Becomes(Handler, k)
    BY <1>5
  <2> HIDE DEF left
  <2>3. k \in Task
    BY <1>1, <2>1, LabelNames DEF Task
  <2>4. LocalsInv(channel', k)
    <3>1. LocalsInv(channel', task[Handler])
      BY <1>3, HandlerTask DEF IInv
    <3> QED
      BY <1>1, <3>1
      DEF LocalsInv, Callless, Placing, Routing, Handling, Holding, Bridging, Initiating,
     Task
  <2> QED
    BY <1>1, <1>3, <2>2, <2>3, <2>4, Moves
<1>6. TasksInv'
  BY <1>1, <1>3, <1>5, Finishes DEF Cleanup
<1> QED
  BY <1>3, <1>4, <1>6 DEF IInv

LEMMA TeardownKeeps ==
    ASSUME IInv, Teardown
    PROVE  IInv'
<1>1. /\ Handler \in Tasks /\ task[Handler] \in Task /\ TasksInv
      /\ LocalsInv(channel, task[Handler]) /\ task[Handler].pc = "teardown"
  BY HandlerTask DEF IInv, Teardown, At
<1>2. task[Handler].legs \in SUBSET Channels
  BY <1>1 DEF Task
<1>3. StoreTypeOK' /\ AsteriskInv' /\ Keeps /\ AdapterInv'
  <2>1. AsteriskInv' /\ Keeps
    BY <1>2, HangsKeeps, AsteriskUnchanged DEF Teardown, IInv
  <2> QED
    BY <2>1, AdapterUnchanged DEF Teardown, IInv, StoreTypeOK, storeVars
<1>4. ASSUME NEW h \in Channels,
             Becomes(Handler, [task[Handler] EXCEPT !.legs = @ \ {h}])
      PROVE  TasksInv'
  <2> DEFINE S == task[Handler].legs \ {h}
             k == [task[Handler] EXCEPT !.legs = S]
  <2>1. S \in SUBSET Channels /\ Becomes(Handler, k)
    BY <1>2, <1>4
  <2> HIDE DEF S
  <2>2. k \in Task
    BY <1>1, <2>1 DEF Task
  <2>3. LocalsInv(channel', k)
    <3>1. LocalsInv(channel', task[Handler])
      BY <1>3, HandlerTask DEF IInv
    <3> QED
      BY <1>1, <3>1
      DEF LocalsInv, Callless, Placing, Routing, Handling, Holding, Bridging, Initiating,
     Task
  <2> QED
    BY <1>1, <1>3, <2>1, <2>2, <2>3, Moves
<1>5. TasksInv'
  BY <1>1, <1>2, <1>3, <1>4, Finishes DEF Teardown
<1> QED
  BY <1>3, <1>5 DEF IInv

-----------------------------------------------------------------------------
(* Every action keeps IInv: the environment.                                 *)

LEMMA PhoneKeepsInv ==
    ASSUME IInv, NEW h \in Channels, Phone(h)
    PROVE  IInv'
<1>1. AsteriskInv' /\ Keeps
  BY PhoneKeeps DEF IInv
<1> QED
  BY <1>1, AdapterUnchanged, TasksUnchanged DEF Phone, IInv, StoreTypeOK, storeVars

LEMMA RestartKeeps ==
    ASSUME IInv, Restart
    PROVE  IInv'
<1>1. AsteriskInv' /\ Keeps
  BY AsteriskStays DEF Restart, IInv, AsteriskInv, AsteriskTypeOK
<1>2. AdapterInv'
  BY NoMapsPairs DEF Restart, AdapterInv, AdapterTypeOK
<1>3. \A t \in Tasks : /\ task'[t] \in {task[t], Resting("idle"), Resting("done")}
                       /\ task'[t] \in Task /\ LocalsInv(channel', task'[t])
  <2> TAKE t \in Tasks
  <2>1. task'[t] \in {task[t], Resting("idle"), Resting("done")}
    BY DEF Restart
  <2>2. task[t] \in Task /\ LocalsInv(channel', task[t])
    BY <1>1, LocalsOf DEF IInv
  <2> QED
    BY <2>1, <2>2, RestingOK
<1>4. TasksInv'
  BY <1>3 DEF Restart, TasksInv
<1> QED
  BY <1>1, <1>2, <1>4 DEF Restart, IInv, StoreTypeOK, storeVars

-----------------------------------------------------------------------------
(* IInv holds initially and every step keeps it.                             *)

LEMMA InitInv ==
    ASSUME Init
    PROVE  IInv
<1>1. StoreTypeOK
  BY DEF Init, StoreInit, StoreTypeOK, CallRow, CallStates, LegRow, NoLeg, Maybe
<1>2. AsteriskInv
  <2>1. <<>> \in Seq(Event)
    BY EmptySeq
  <2>2. AsteriskTypeOK
    BY <2>1 DEF Init, AsteriskInit, AsteriskTypeOK, Channel, ChannelStates, Maybe
  <2>3. \A h \in Channels : channel[h].st = "unused" /\ channel[h].role = "none"
    BY DEF Init, AsteriskInit
  <2> QED
    BY <2>2, <2>3 DEF AsteriskInv, Used
<1>3. AdapterInv
  BY NoMapsPairs DEF Init, AdapterInit, AdapterInv, AdapterTypeOK
<1>4. TasksInv
  <2>1. \A t \in Tasks : /\ task[t] \in {Resting("idle"), Resting("start")}
                         /\ task[t] \in Task /\ LocalsInv(channel, task[t])
    BY RestingOK DEF Init
  <2>2. task = [t \in Tasks |-> task[t]]
    BY DEF Init
  <2> QED
    BY <2>1, <2>2 DEF TasksInv
<1> QED
  BY <1>1, <1>2, <1>3, <1>4 DEF IInv

LEMMA ArrivalKeeps ==
    ASSUME IInv, NEW r \in Requests, Arrival(r)
    PROVE  IInv'
BY CallStationKeeps, CallStationsKeeps, ConferenceLookupKeeps, ParticipantActionKeeps
   DEF Arrival

LEMMA RequestStepKeeps ==
    ASSUME IInv, NEW r \in Requests, RequestStep(r)
    PROVE  IInv'
<1>1. CASE \/ Route(r) \/ RouteStations(r) \/ Rehydrate(r) \/ RetireCall(r)
           \/ DropSource(r) \/ OutOfCalls(r) \/ InitiateCall(r)
  BY <1>1, RouteKeeps, RouteStationsKeeps, RehydrateKeeps, RetireCallKeeps,
     DropSourceKeeps, OutOfCallsKeeps, InitiateCallKeeps
<1>2. CASE \/ DialSource(r) \/ SourceDialed(r) \/ BindSource(r) \/ FailCall(r)
           \/ Connect(r) \/ PromoteCall(r) \/ Enroll(r) \/ AddSource(r)
  BY <1>2, DialSourceKeeps, SourceDialedKeeps, BindSourceKeeps, FailCallKeeps,
     ConnectKeeps, PromoteCallKeeps, EnrollKeeps, AddSourceKeeps
<1>3. CASE \/ AttachLeg(r) \/ ReopenLeg(r) \/ FindSource(r)
           \/ \E e \in Stations : RingParticipant(r, e)
           \/ ParticipantRung(r) \/ MarkLeg(r)
  BY <1>3, Requests_, AttachLegKeeps, ReopenLegKeeps, FindSourceKeeps,
     RingParticipantKeeps, ParticipantRungKeeps, MarkLegKeeps
<1>4. CASE \/ Locate(r) \/ Repoint(r) \/ Act(r) \/ Recover(r) \/ Operate(r)
           \/ ForgetChannel(r) \/ Settle(r) \/ LookupFails(r)
  BY <1>4, Requests_, LocateKeeps, RepointKeeps, ActKeeps, RecoverKeeps, OperateKeeps,
     ForgetChannelKeeps, SettleKeeps, LookupFailsKeeps
<1> QED
  BY <1>1, <1>2, <1>3, <1>4 DEF RequestStep

LEMMA HandlerStepKeeps ==
    ASSUME IInv, HandlerStep
    PROVE  IInv'
<1>1. Handler \in Tasks
  BY DEF Tasks
<1>2. CASE \E h \in Channels :
             \/ SourceEntered(h) \/ CalleeEntered(h) \/ InboundEntered(h)
             \/ \E type \in EventType : StateChanged(type, h)
             \/ LegEnded(h)
  BY <1>2, SourceEnteredKeeps, CalleeEnteredKeeps, InboundEnteredKeeps,
     StateChangedKeeps, LegEndedKeeps
<1>3. CASE \/ \E e \in Stations : RingParticipant(Handler, e)
           \/ ParticipantRung(Handler) \/ ForgetChannel(Handler)
  BY <1>1, <1>3, RingParticipantKeeps, ParticipantRungKeeps, ForgetChannelKeeps
<1>4. CASE \/ AnswerInbound \/ JoinInbound \/ MakeBridge \/ AddToBridge
           \/ BridgeAdded \/ BridgeFailed \/ RejectInbound \/ Cleanup \/ Teardown
  BY <1>4, AnswerInboundKeeps, JoinInboundKeeps, MakeBridgeKeeps, AddToBridgeKeeps,
     BridgeAddedKeeps, BridgeFailedKeeps, RejectInboundKeeps, CleanupKeeps, TeardownKeeps
<1> QED
  BY <1>2, <1>3, <1>4 DEF HandlerStep

LEMMA NextKeeps ==
    ASSUME IInv, [Next]_vars
    PROVE  IInv'
<1>1. CASE \E r \in Requests : Arrival(r) \/ RequestStep(r)
  BY <1>1, ArrivalKeeps, RequestStepKeeps
<1>2. CASE HandlerStep
  BY <1>2, HandlerStepKeeps
<1>3. CASE \E h \in Channels : Phone(h)
  BY <1>3, PhoneKeepsInv
<1>4. CASE Restart
  BY <1>4, RestartKeeps
<1>5. CASE UNCHANGED vars
  BY <1>5, Idle, TasksUnchanged DEF vars, IInv
<1> QED
  BY <1>1, <1>2, <1>3, <1>4, <1>5 DEF Next

-----------------------------------------------------------------------------
(* The theorems.                                                             *)

\* Whatever requests, ARI replies, events, phones, faults and restarts do, the
\* adapter's maps and every local that a task is about to put into a map pair a
\* channel with the endpoint it was dialled at (asterisk.py, _participants and
\* _channel_participants; call_orchestrator.py and main.py, which fill them).
THEOREM Invariance == Spec => []IInv
<1>1. Init => IInv
  BY InitInv
<1>2. IInv /\ [Next]_vars => IInv'
  BY NextKeeps
<1> QED
  BY <1>1, <1>2, PTL DEF Spec

\* No step of Core writes a value outside its column, map or local variable:
\* every state transition of call_service.py stays within CallState, and every
\* pointer names a channel, a call or an endpoint.
THEOREM TypeCorrect == Spec => []TypeOK
<1>1. IInv => TypeOK
  BY DEF IInv, TypeOK, AsteriskInv, AdapterInv, TasksInv
<1> QED
  BY <1>1, Invariance, PTL

\* cleanup_call (asterisk.py:183) always finds the leg of the channel that ended
\* in the reverse map: its fallback, a search of the forward map, is never
\* needed, for any number of calls, stations, requests and faults.
THEOREM ReverseMapTheorem == Spec => []ReverseMapComplete
<1>1. IInv => ReverseMapComplete
  BY DEF IInv, AdapterInv, Paired, ReverseMapComplete
<1> QED
  BY <1>1, Invariance, PTL

=============================================================================
