------------------------ MODULE CallControlInvariant ------------------------
(***************************************************************************)
(* The inductive invariants.  IInv is behind TypeOK and ReverseMapComplete: *)
(* a channel keeps its endpoint from the moment it is dialled, so it is     *)
(* enough that every map, and every local variable that a task will put     *)
(* into a map, pairs a channel with its own endpoint.  OwnInv adds whose    *)
(* channel it is, BridgedInv where it is, PartInv that what a task hangs up *)
(* is of its call, and PointerInv which row may name it.                    *)
(*                                                                          *)
(* `ch` is the table of channels: channel or, in the proofs, channel'.      *)
(***************************************************************************)
EXTENDS CallControlProperties

Used(ch, h) == h \in Channels /\ ch[h].st # "unused"

\* h is a channel of the endpoint e.
IsOf(ch, h, e) == Used(ch, h) /\ ch[h].ext = e

AsteriskInv ==
    /\ AsteriskTypeOK
    /\ \A h \in Channels :
         /\ Used(channel, h) => channel[h].ext \in Extensions
         /\ channel[h].role # "none" => Used(channel, h)
         /\ channel[h].role \in {"source", "callee"} => channel[h].call \in Calls
         /\ channel[h].role \in {"callee", "inbound"} => channel[h].ext \in Stations

\* The two maps of a call agree with each other and with the channels.
Paired(ch, m) ==
    \A e \in Extensions :
        m.channel[e] # None =>
            IsOf(ch, m.channel[e], e) /\ m.extension[m.channel[e]] = e

AdapterInv ==
    /\ AdapterTypeOK
    /\ \A c \in Calls : Paired(channel, maps[c])

\* Where a task works without a call, or without reading it.
Callless == {"start", "idle", "done", "route", "retire", "drop_source", "initiate",
             "bind", "fail", "locate", "forget", "settle", "reject"}

Routing == {"route", "route_stations", "rehydrate", "retire", "drop_source",
            "initiate", "dial", "dialed"}

\* Where it works for the station `ext`, and where for any endpoint.
Placing == {"locate", "repoint", "act", "recover", "operate", "connect", "promote",
            "enroll", "add_source", "attach_leg", "reopen", "find_source", "ring"}

Handling == {"rung", "answer", "join", "bridge", "bridge_made"}

\* Where `chan` is a channel that a next step may remove, while bridging only
\* that of an inbound leg.
Holding == {"drop_source", "recover", "operate", "answer", "join", "reject"}

Bridging == {"bridge", "bridge_made", "bridge_failed"}

Initiating(k) == k.pc = "initiate" \/ (k.pc = "forget" /\ k.next = "initiate")

\* What the locals k of a task hold when its next step uses them.
LocalsInv(ch, k) ==
    /\ k.pc \notin Callless => k.call \in Calls
    /\ k.kind \in Actions \cup {"call_station"} => k.ext \in Stations
    /\ k.pc \in Placing => k.ext \in Stations
    /\ k.pc \in Handling => k.ext \in Extensions
    /\ k.pc \in Routing \/ Initiating(k) => k.ctl \in Controllers
    /\ Initiating(k) => k.kind \in {"call_station", "call_stations"}
    /\ k.pc \in Holding \/ (k.pc \in Bridging /\ k.kind = "inbound")
         => k.chan \in Channels
    /\ k.pc \in {"route_stations", "rehydrate", "dialed", "add_source", "ring"}
         /\ k.chan # None => IsOf(ch, k.chan, k.ctl)
    /\ k.pc \in {"rehydrate", "dialed"} => k.chan # None
    /\ k.pc = "rehydrate" => Used(ch, k.old)
    /\ k.pc = "attach_leg" => IsOf(ch, k.old, k.ext)
    /\ k.pc = "reopen" => k.chan = None /\ k.next \in {"find_source", "ring"}
    /\ k.pc = "forget" => k.next \in {"settle", "initiate", "done"}
    /\ k.pc = "repoint" => k.next \in {"connect", "act"}
    /\ k.pc \in {"rung", "answer"} => IsOf(ch, k.chan, k.ext)

TasksInv ==
    /\ task \in [Tasks -> Task]
    /\ \A t \in Tasks : LocalsInv(channel, task[t])

\* The inductive invariant: every part of the state has its type, channels have
\* the endpoint and the call they were dialled for, and the adapter's maps and
\* the locals that go into them pair a channel with its own endpoint.
IInv == StoreTypeOK /\ AsteriskInv /\ AdapterInv /\ TasksInv

-----------------------------------------------------------------------------
(* Why StationMapsHoldOwnChannels holds while ORM rows expire: every pointer, *)
(* map entry and local that leads into the map of a call for a station names  *)
(* a channel that was dialled for the call or into it.  `cl` is call or call'.*)

\* h was dialled for the call c, or dialled into it at its controller.
Own(ch, cl, c, h) ==
    /\ h \in Channels
    /\ \/ ch[h].role = "callee" /\ ch[h].call = c
       \/ ch[h].role = "inbound" /\ ch[h].ctl = cl[c].source

\* What the locals k of a task hold for its next step.  A conference lookup
\* ends at the row it cannot read, so it never takes the channel it finds.
OwnLocals(ch, cl, k) ==
    /\ k.pc \in {"route_stations", "rehydrate"} => k.kind # "conference_lookup"
    /\ k.pc \in {"rehydrate", "attach_leg", "add_source"} /\ k.old # None
         => Own(ch, cl, k.call, k.old)
    /\ k.pc \in {"rung", "mark", "answer", "join"} => Own(ch, cl, k.call, k.chan)

\* A channel that dialled in names a controller; a call without a row has none.
OriginInv ==
    /\ \A h \in Channels : channel[h].role = "inbound" => channel[h].ctl \in Controllers
    /\ \A c \in Calls : call[c].state = "absent" => call[c].source = None

\* For a station, every pointer of a row, every map entry and every local on its
\* way there is a channel dialled for the call or into it, also when the station
\* has channels in other calls (call_orchestrator.py:96, 176; main.py:143).
OwnInv ==
    /\ OriginInv
    /\ \A c \in Calls, e \in Stations :
         /\ leg[c][e].channel # None => Own(channel, call, c, leg[c][e].channel)
         /\ maps[c].channel[e] # None => Own(channel, call, c, maps[c].channel[e])
    /\ \A t \in Tasks : OwnLocals(channel, call, task[t])

(* Why BridgeCacheIsSound holds: only the event task changes bridges and the  *)
(* adapter's record of them, and between its steps it knows what it has done. *)

\* A controller's entry in the map of a call is that of the call's own
\* controller, and so is the channel a task is about to map.
SourceLocals(cl, k) ==
    k.pc \in {"dial", "dialed", "route_stations", "rehydrate"}
      \/ (k.pc \in {"add_source", "ring"} /\ k.chan # None)
        => k.ctl = cl[k.call].source

SourceInv ==
    /\ \A c \in Calls, s \in Controllers :
         maps[c].channel[s] # None => s = call[c].source
    /\ \A t \in Tasks : SourceLocals(call, task[t])

\* h has been put into the bridge of c and stays there while it is in Stasis.
Placed(c, h) ==
    /\ h \in Channels /\ channel[h].st \in {"stasis", "over"}
    /\ channel[h].role = "callee" => channel[h].call = c
    /\ InStasis(h) => within[h] = c \/ SharedWithAnother(h, c)

\* The channels that are recorded as in the bridge of c, or will be when the
\* event task goes on.
Bridged(c) ==
    bridgedChannels[c] \cup
        (IF At(Handler, "bridge_added") /\ task[Handler].call = c
         THEN task[Handler].legs ELSE {})

BridgeInv ==
    /\ bridges \subseteq bridge
    /\ \A c \in Calls : \A h \in Bridged(c) : c \in bridges /\ Placed(c, h)
    /\ At(Handler, "bridge_made") => task[Handler].call \in bridge

\* Whatever is mapped for a call was dialled for it or belongs to its controller,
\* so what the event task has put into a bridge, between a request to ARI and its
\* reply too, stays in it (asterisk.py:140-185).
BridgedInv == OwnInv /\ SourceInv /\ BridgeInv

-----------------------------------------------------------------------------
(* Why calls that go on at the same time stay apart: what is mapped for a     *)
(* call, and what a task will hang up, is of that call.                       *)

\* h is of the call c, as Belongs has it.
Part(ch, cl, c, h) ==
    /\ c \in Calls /\ Used(ch, h)
    /\ IF ch[h].role = "callee" THEN ch[h].call = c
       ELSE cl[c].source \in {ch[h].ext, ch[h].ctl} \ {None}

\* A task that works with the locals k hangs up channels of its call, or the
\* channel that has dialled in; while idle, it is done with that one.
PartLocals(ch, cl, k) ==
    /\ \/ k.pc \in {"drop_source", "operate"}
       \/ k.pc \in {"route_stations", "retire"} /\ k.chan # None
       => Part(ch, cl, k.call, k.chan)
    /\ k.pc = "teardown" => \A h \in k.legs : Part(ch, cl, k.call, h)
    /\ k.pc = "idle" => k.kind # "inbound"
    /\ \/ k.pc \in {"answer", "join", "reject"}
       \/ k.pc \in Bridging /\ k.kind = "inbound"
       => Used(ch, k.chan) /\ ch[k.chan].role = "inbound"

\* Whoever is in a bridge is of its call, and no task is about to hang up a
\* channel of another call (asterisk.py:140-172, 218, 275; main.py:229).
PartInv ==
    /\ \A h \in Channels : within[h] # None => Part(channel, call, within[h], h)
    /\ \A t \in Tasks : PartLocals(channel, call, task[t])

-----------------------------------------------------------------------------
(* Why PointersAreUnique holds, whether or not ORM rows expire: a row of a    *)
(* controller names a channel that was dialled for it and for its call, so    *)
(* only rows of stations compete for a channel, and each of their writers     *)
(* meets the unique index.                                                    *)

\* h was dialled for s, the controller of the call c.
SourceOf(ch, cl, c, s, h) ==
    /\ c \in Calls /\ h \in Channels
    /\ ch[h].role = "source" /\ ch[h].call = c /\ cl[c].source = s

\* h is no channel that was dialled for a controller.
AtStation(ch, h) == Used(ch, h) /\ ch[h].role # "source"

\* What a task with the locals k will write into a row.
PointerLocals(ch, cl, k) ==
    /\ k.pc \in {"dial", "dialed", "bind"}
         => k.call \in Calls /\ k.ctl \in Controllers /\ k.ctl = cl[k.call].source
    /\ k.pc \in {"dialed", "bind"} => SourceOf(ch, cl, k.call, k.ctl, k.chan)
    /\ k.pc \in {"rung", "mark", "answer", "join", "repoint", "recover"}
         => k.ext \in Stations /\ AtStation(ch, k.chan)

\* A row of a controller names the channel that was dialled for it and its call,
\* a row of a station none of those, and no two rows name one channel
\* (call_service.py:34, 50, 262).
PointerInv ==
    /\ OriginInv
    /\ \A h \in Channels : channel[h].role = "source" => channel[h].ext \in Controllers
    /\ \A c \in Calls :
         /\ \A s \in Controllers :
              leg[c][s].channel # None => SourceOf(channel, call, c, s, leg[c][s].channel)
         /\ \A e \in Stations :
              leg[c][e].channel # None => AtStation(channel, leg[c][e].channel)
    /\ PointersAreUnique
    /\ \A t \in Tasks : PointerLocals(channel, call, task[t])
=============================================================================
