---------------------------- MODULE StagedCalls ----------------------------
(***************************************************************************)
(* The Controller backend of a staged deployment, before TCCS_CORE_URL is  *)
(* set: HTTP requests that originate and end calls over AMI, under a       *)
(* PostgreSQL advisory lock per station, next to the background loop of    *)
(* recording.py that polls Asterisk once a second, retires doubled browser *)
(* sessions, keeps the call history and starts and stops the recorder.     *)
(*                                                                         *)
(* Each await of a reply separates two steps.  One worker process is       *)
(* modelled (Dockerfile), so one station has one lock key.                 *)
(***************************************************************************)
EXTENDS CallHistory

CONSTANTS
    Loop,       \* the recording_loop task
    Workload,   \* the kinds of request that are made, and "session", "caller"
    MaxFaults   \* bound: failed listings and hang-ups plus restarts

RequestKinds ==
    {"station",  \* POST /calls/stations/{id}, source_extension 9999
     "other",    \* the same with another source_extension
     "direct",   \* POST /calls/direct, and one member of an emergency group
     "hangup"}   \* POST /conference/stations/{id}/hangup

ASSUME StagedAssumption ==
    /\ Workload \subseteq RequestKinds \cup {"session", "caller"}
    /\ MaxFaults \in Nat
    /\ Loop \notin Requests

VARIABLES
    request,  \* request[r]: where the request is
    pass,     \* where the loop is in its pass, and what it has read
    stale,    \* stale[p]: the channels that p is about to hang up, by name
    faults,   \* the kinds of faults so far, in order
    overlooked  \* history, which no step reads: the stations for which a call has
                \* passed the duplicate check while an originate had no channel yet

vars == <<channel, recording, outbound, incoming, request, pass, stale, faults,
          overlooked>>

Tasks == Requests \cup {Loop}

RequestSteps == {"start", "lock", "check", "enforce", "originate", "insert",
                 "find", "drop", "done"}

Request == [at: RequestSteps, kind: RequestKinds \cup {None},
            ext: Stations \cup {None}]

Pass == [at: {"list", "sessions", "drop", "history", "inspect", "record"},
         listed: SUBSET Channels, joined: SUBSET Channels, seen: BOOLEAN]

StagedTypeOK ==
    /\ BridgeTypeOK
    /\ HistoryTypeOK
    /\ request \in [Requests -> Request]
    /\ pass \in Pass
    /\ stale \in [Tasks -> SUBSET Channels]
    /\ faults \in Seq({"listing", "restart", "hangup"})
    /\ overlooked \in SUBSET Stations

Resting(step) == [at |-> step, kind |-> None, ext |-> None]

NewPass == [at |-> "list", listed |-> {}, joined |-> {}, seen |-> FALSE]

Init ==
    /\ BridgeInit
    /\ HistoryInit
    /\ request = [r \in Requests |-> Resting("start")]
    /\ pass = NewPass
    /\ stale = [p \in Tasks |-> {}]
    /\ faults = <<>>
    /\ overlooked = {}

-----------------------------------------------------------------------------
At(r, step) == request[r].at = step

Go(r, step) ==
    request' = [request EXCEPT ![r] = IF step = "done" THEN Resting("done")
                                      ELSE [@ EXCEPT !.at = step]]

PassAt(step) == pass.at = step

PassGo(step) == pass' = [pass EXCEPT !.at = step]

Fault(kind) == Len(faults) < MaxFaults /\ faults' = Append(faults, kind)

\* A failed `core show channels concise` reads as an empty list (_run_cli).
Listing(S) == \/ S = ListedChannels /\ UNCHANGED faults
              \/ S = {} /\ Fault("listing")

\* Mutant: off by one.
SupersededTwice(S) == {h \in S : \E g, f \in S : f > g /\ g > h}


\* All but the channel with the highest number.
Superseded(S) == {h \in S : \E g \in S : g > h}

-----------------------------------------------------------------------------
(* call_station, without Core *)

\* Mutant: no lock.
HoldsNothing(r) == FALSE

\* Mutant: the commit comes before the originate.
HoldsWhileLooking(r) == request[r].at \in {"check", "enforce"} \/
                        (At(r, "drop") /\ request[r].kind # "hangup")

\* pg_advisory_xact_lock is held until the transaction ends.
Holds(r) == request[r].at \in {"check", "enforce", "originate"} \/
            (At(r, "drop") /\ request[r].kind # "hangup")

Arrive(r) ==
    /\ At(r, "start")
    /\ \E kind \in RequestKinds \cap Workload, e \in Stations :
         request' = [request EXCEPT ![r] =
             [at |-> IF kind = "hangup" THEN "find" ELSE "lock", kind |-> kind, ext |-> e]]
    /\ UNCHANGED <<bridgeVars, historyVars, pass, stale, faults, overlooked>>

Lock(r) ==
    /\ At(r, "lock")
    /\ \A q \in Requests : request[q].ext = request[r].ext => ~Holds(q)
    /\ Go(r, "check")
    /\ UNCHANGED <<bridgeVars, historyVars, pass, stale, faults, overlooked>>

\* An originate of the station has been sent and there is no channel to list.
OnItsWay(e) == \E h \in Channels : channel[h].ext = e /\ channel[h].st = "accepted"

\* _reject_duplicate_station_call: any listed channel of the station in the
\* stations' or controllers' context.
Check(r) ==
    /\ At(r, "check")
    /\ \E S \in SUBSET Channels :
         /\ Listing(S)
         /\ \/ /\ \E h \in S : channel[h].ext = request[r].ext
               /\ Go(r, "done")
               /\ UNCHANGED overlooked
            \/ /\ \A h \in S : channel[h].ext # request[r].ext
               /\ Go(r, "enforce")
               /\ overlooked' = overlooked \cup {e \in {request[r].ext} : OnItsWay(e)}
    /\ UNCHANGED <<bridgeVars, historyVars, pass, stale>>

\* enforce_single_conference_channel for the station; a listing that fails here
\* is an error and ends the request.
Enforce(r) ==
    /\ At(r, "enforce")
    /\ \/ /\ stale' = [stale EXCEPT ![r] =
                         Superseded(StationChannels(request[r].ext) \cap Members)]
          /\ Go(r, IF stale'[r] = {} THEN "originate" ELSE "drop")
          /\ UNCHANGED faults
       \/ Fault("listing") /\ Go(r, "done") /\ UNCHANGED stale
    /\ UNCHANGED <<bridgeVars, historyVars, pass, overlooked>>

\* originate_to_conference and the commit that releases the lock.  A reply that
\* is lost or late is an error, whatever Asterisk makes of the action, and when.
Originate(r) ==
    /\ At(r, "originate")
    /\ \/ \E h \in Channels :
            /\ Accept(h, request[r].ext)
            /\ Go(r, "insert") \/ Go(r, "done")
       \/ Go(r, "done") /\ UNCHANGED bridgeVars
    /\ UNCHANGED <<historyVars, pass, stale, faults, overlooked>>

\* A direct call has no history row.
Insert(r) ==
    /\ At(r, "insert")
    /\ IF request[r].kind = "direct" THEN UNCHANGED historyVars
       ELSE InsertOutbound(r, request[r].kind = "station", request[r].ext)
    /\ Go(r, "done")
    /\ UNCHANGED <<bridgeVars, pass, stale, faults, overlooked>>

\* hangup_station_channel: the first channel of the station that is listed.
Find(r) ==
    /\ At(r, "find")
    /\ \/ \E h \in StationChannels(request[r].ext) :
            /\ stale' = [stale EXCEPT ![r] = {h}]
            /\ Go(r, "drop")
       \/ /\ StationChannels(request[r].ext) = {}
          /\ Go(r, "done")
          /\ UNCHANGED stale
    /\ UNCHANGED <<bridgeVars, historyVars, pass, faults, overlooked>>

\* A Hangup action, which may fail and leave the channel up.
TryHangup(h) ==
    \/ Hangup(h) /\ UNCHANGED faults
    \/ Fault("hangup") /\ UNCHANGED bridgeVars

\* The Hangup actions of a request, one at a time; a call passes over errors, and
\* the request to hang up has no other one to send.
Drop(r) ==
    /\ At(r, "drop")
    /\ \E h \in stale[r] :
         /\ TryHangup(h)
         /\ stale' = [stale EXCEPT ![r] = @ \ {h}]
    /\ Go(r, IF stale'[r] # {} THEN "drop"
             ELSE IF request[r].kind = "hangup" THEN "done" ELSE "originate")
    /\ UNCHANGED <<historyVars, pass, overlooked>>

RequestStep(r) ==
    \/ Lock(r) \/ Check(r) \/ Enforce(r) \/ Originate(r) \/ Insert(r)
    \/ Find(r) \/ Drop(r)

-----------------------------------------------------------------------------
(* recording_loop *)

\* active_channel_details, once for the whole pass.
List ==
    /\ PassAt("list")
    /\ \E S \in SUBSET Channels :
         /\ Listing(S)
         /\ pass' = [pass EXCEPT !.at = "sessions", !.listed = S, !.joined = S \cap Members]
    /\ UNCHANGED <<bridgeVars, historyVars, request, stale, overlooked>>

Sessions(S) == {h \in S : channel[h].role = "session"}

\* _enforce_controller_sessions lists the channels again if the pass has seen a
\* session; an error is passed over.
Sweep ==
    /\ PassAt("sessions")
    /\ \/ /\ stale' = [stale EXCEPT ![Loop] = IF Sessions(pass.joined) = {} THEN {}
                                             ELSE Superseded(Sessions(Members))]
          /\ PassGo(IF stale'[Loop] = {} THEN "history" ELSE "drop")
          /\ UNCHANGED faults
       \/ /\ Sessions(pass.joined) # {} /\ Fault("listing")
          /\ PassGo("history")
          /\ UNCHANGED stale
    /\ UNCHANGED <<bridgeVars, historyVars, request, overlooked>>

DropSession ==
    /\ PassAt("drop")
    /\ \E h \in stale[Loop] :
         /\ TryHangup(h)
         /\ stale' = [stale EXCEPT ![Loop] = @ \ {h}]
    /\ PassGo(IF stale'[Loop] = {} THEN "history" ELSE "drop")
    /\ UNCHANGED <<historyVars, request, overlooked>>

\* The two transactions on the history; nobody else writes the rows of the
\* second, and a restart between them only delays it to the next pass.
Synchronise ==
    /\ PassAt("history")
    /\ SyncOutbound(pass.listed, pass.joined)
    /\ SyncIncoming(pass.listed, pass.joined)
    /\ pass' = IF pass.joined = {} THEN NewPass
               ELSE [pass EXCEPT !.at = "inspect", !.listed = {}]
    /\ UNCHANGED <<bridgeVars, request, stale, faults, overlooked>>

\* _is_recording; its failure ends the pass.
Inspect ==
    /\ PassAt("inspect")
    /\ \/ pass' = [pass EXCEPT !.at = "record", !.seen = recording] /\ UNCHANGED faults
       \/ Fault("listing") /\ pass' = NewPass
    /\ UNCHANGED <<bridgeVars, historyVars, request, stale, overlooked>>

\* Mutant: the controller counts as well.
AnyoneJoined == pass.joined # {}

StationJoined == \E h \in pass.joined : channel[h].role = "callee"

\* Asterisk refuses to record a conference that is gone, or twice.
StartOrStop ==
    /\ PassAt("record")
    /\ IF StationJoined /\ ~pass.seen /\ Members # {} THEN Record(TRUE)
       ELSE IF ~StationJoined /\ pass.seen THEN Record(FALSE)
       ELSE UNCHANGED bridgeVars
    /\ pass' = NewPass
    /\ UNCHANGED <<historyVars, request, stale, faults, overlooked>>

LoopStep ==
    List \/ Sweep \/ DropSession \/ Synchronise \/ Inspect \/ StartOrStop

-----------------------------------------------------------------------------
(* The environment. *)

Phones ==
    /\ \E h \in Channels :
         \/ Appear(h) \/ Answer(h) \/ End(h)
         \/ "session" \in Workload /\ JoinSession(h)
         \/ "caller" \in Workload /\ \E e \in Stations : DialIn(h, e)
    /\ UNCHANGED <<historyVars, request, pass, stale, faults, overlooked>>

Clock ==
    /\ \E r \in Requests : Age(r)
    /\ UNCHANGED <<bridgeVars, request, pass, stale, faults, overlooked>>

\* The Controller backend restarts: requests in progress are lost and their
\* locks released, the loop begins a new pass.
Restart ==
    /\ Fault("restart")
    /\ request' = [r \in Requests |-> IF At(r, "start") THEN request[r]
                                      ELSE Resting("done")]
    /\ pass' = NewPass
    /\ stale' = [p \in Tasks |-> {}]
    /\ UNCHANGED <<bridgeVars, historyVars, overlooked>>

Next ==
    \/ \E r \in Requests : Arrive(r) \/ RequestStep(r)
    \/ LoopStep
    \/ Phones \/ Clock \/ Restart

Spec == Init /\ [][Next]_vars
=============================================================================
