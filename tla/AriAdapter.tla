---------------------------- MODULE AriAdapter ----------------------------
(***************************************************************************)
(* The process-local maps of AsteriskHttpClient and the synchronous code   *)
(* that changes them between two awaits.  asyncio runs that code without   *)
(* interruption, so each operator below is part of one step.  All maps are *)
(* lost when Core restarts.                                                *)
(*                                                                         *)
(* _bridge_locks is left out: bridge_call and cleanup_call only run in the *)
(* event task, one event at a time, so the lock is always free.            *)
(***************************************************************************)
EXTENDS CallTypes

VARIABLES
    maps,            \* maps[c]: _participants[c] and _channel_participants[c]
    bridges,         \* the keys of _bridges (and of _bridged_channels)
    bridgedChannels  \* _bridged_channels: call -> set of channels

adapterVars == <<maps, bridges, bridgedChannels>>

\* `channel` is the dict extension -> channel, `older` the insertion order of
\* its keys, `extension` the reverse dict channel -> extension.
Maps == [channel: [Extensions -> Maybe(Channels)],
         older: SUBSET (Extensions \X Extensions),
         extension: [Channels -> Maybe(Extensions)]]

AdapterTypeOK ==
    /\ maps \in [Calls -> Maps]
    /\ bridges \in SUBSET Calls
    /\ bridgedChannels \in [Calls -> SUBSET Channels]

NoMaps == [channel |-> [e \in Extensions |-> None],
           older |-> {},
           extension |-> [h \in Channels |-> None]]

AdapterInit ==
    /\ maps = [c \in Calls |-> NoMaps]
    /\ bridges = {}
    /\ bridgedChannels = [c \in Calls |-> {}]

-----------------------------------------------------------------------------
Keys(m) == {e \in Extensions : m.channel[e] # None}

\* Mutant: the controller's channel is not among those to tear down.
MappedStations(m) == {m.channel[e] : e \in Keys(m) \cap Stations}

MappedChannels(m) == {m.channel[e] : e \in Keys(m)}

\* Mutant: off by one.
Triple(E) == \E x, y, z \in E : x # y /\ y # z /\ z # x

\* len(channels) >= 2
Pair(E) == \E x, y \in E : x # y

\* next(iter(channels.values())): the key that was inserted first.
IsFirst(m, e) == e \in Keys(m) /\ \A x \in Keys(m) : <<x, e>> \notin m.older

\* Mutant: the reverse map is forgotten.
AttachForward(m, e, h) == [m EXCEPT !.channel[e] = h]

\* attach_participant_channel, and the end of originate(_participant).
Attach(m, e, h) ==
    [m EXCEPT !.channel[e] = h,
              !.extension[h] = e,
              !.older = IF m.channel[e] # None THEN @
                        ELSE @ \cup (Keys(m) \X {e})]

\* The keys in E and the reverse entry of h are popped.
Pop(m, E, h) ==
    [channel |-> [e \in Extensions |-> IF e \in E THEN None ELSE m.channel[e]],
     older |-> {p \in m.older : p[1] \notin E /\ p[2] \notin E},
     extension |-> [m.extension EXCEPT ![h] = None]]

\* originate_participant: `existing`.
Existing(m, e) == m.channel[e]

AttachTo(c, e, h) ==
    /\ maps' = [maps EXCEPT ![c] = Attach(@, e, h)]
    /\ UNCHANGED <<bridges, bridgedChannels>>

\* remove_channel once its DELETE succeeded: the first call that maps h
\* forgets it.
Forget(h) ==
    \/ /\ \A c \in Calls : h \notin MappedChannels(maps[c])
       /\ UNCHANGED adapterVars
    \/ \E c \in Calls, e \in Extensions :
         /\ maps[c].channel[e] = h
         /\ maps' = [maps EXCEPT ![c] = Pop(@, {e}, h)]
         /\ bridgedChannels' = [bridgedChannels EXCEPT ![c] = @ \ {h}]
         /\ UNCHANGED bridges

-----------------------------------------------------------------------------
(* cleanup_call(c, h) *)

\* The keys that go: the one the reverse map names, whatever channel it is
\* mapped to by now, else those that are mapped to h.
EndedKeys(m, h) ==
    IF m.extension[h] # None THEN {m.extension[h]}
    ELSE {e \in Extensions : m.channel[e] = h}

Unmapped(c, h) == Pop(maps[c], EndedKeys(maps[c], h), h)

\* Two or more channels stay mapped: only h goes.
Unmap(c, h) ==
    /\ maps' = [maps EXCEPT ![c] = Unmapped(c, h)]
    /\ bridgedChannels' = [bridgedChannels EXCEPT ![c] = @ \ {h}]
    /\ UNCHANGED bridges

\* Mutant: the bridge stays known.
UnmapOnly(c) ==
    /\ maps' = [maps EXCEPT ![c] = NoMaps]
    /\ UNCHANGED <<bridges, bridgedChannels>>

\* Fewer than two stay: every map of the call is dropped.
UnmapCall(c) ==
    /\ maps' = [maps EXCEPT ![c] = NoMaps]
    /\ bridges' = bridges \ {c}
    /\ bridgedChannels' = [bridgedChannels EXCEPT ![c] = {}]

-----------------------------------------------------------------------------
(* bridge_call *)

BridgeKnown(c) ==
    /\ bridges' = bridges \cup {c}
    /\ bridgedChannels' = [bridgedChannels EXCEPT ![c] = {}]
    /\ UNCHANGED maps

BridgedNow(c, S) ==
    /\ bridgedChannels' = [bridgedChannels EXCEPT ![c] = @ \cup S]
    /\ UNCHANGED <<maps, bridges>>

BridgeForgotten(c) ==
    /\ bridges' = bridges \ {c}
    /\ UNCHANGED <<maps, bridgedChannels>>
=============================================================================
