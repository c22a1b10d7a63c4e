----------------------- MODULE StagedCallsProperties -----------------------
(***************************************************************************)
(* What the staged Controller backend promises.                            *)
(***************************************************************************)
EXTENDS StagedCalls

\* The code cannot tell an empty listing from one that failed; some promises
\* last until a listing fails.
AllListed == \A i \in DOMAIN faults : faults[i] # "listing"

\* Nor can it tell a station that nobody called from one whose originate is still
\* without a channel (Async: true, ami.py:121); a promise about one station lasts
\* until a call has passed the duplicate check that way.
Overseen == Stations \ overlooked

Callees(e) == {h \in Channels : channel[h].role = "callee" /\ channel[h].ext = e}

\* A station is never dialled while it has a leg or may still get one, although
\* requests race, locks end with their transactions and hang-ups fail
\* (calls.py:103-111).  The two ways to a second leg are a listing that failed and
\* a check made in the time between an originate and its channel.
OneLegPerStation ==
    AllListed => \A e \in Overseen : \A g, h \in Callees(e) :
                     Live(g) /\ Live(h) => g = h

\* The history never closes a row while the channel the row names goes on,
\* although the loop works from a listing that is out of date and finds the
\* channel by the station's extension (recording.py:92-173).  A call that goes out
\* needs the station to have one leg; one that comes in needs nothing of the kind.
RowOutlivesItsLeg ==
    AllListed =>
        /\ \A r \in Requests :
             outbound[r] # None /\ ~outbound[r].open /\ outbound[r].station \in Overseen
               => outbound[r].channel = None \/ ~Live(outbound[r].channel)
        /\ \A h \in Channels : \A i \in DOMAIN incoming[h] :
             incoming[h][i].open \/ ~Live(h)

\* A call that comes in is one row, however many passes see it and whenever the
\* backend restarts.
IncomingCallIsOneRow == AllListed => \A h \in Channels : Len(incoming[h]) <= 1

-----------------------------------------------------------------------------
(* Why OneLegPerStation holds. *)

\* Only a hangup looks for a channel; only a call takes the lock.
KindsInv ==
    \A r \in Requests :
        /\ At(r, "find") => request[r].kind = "hangup"
        /\ request[r].at \in {"lock", "check", "enforce", "originate"}
             => request[r].kind # "hangup"

\* One request at a time holds the lock of a station.
LockInv ==
    \A p, q \in Requests :
        Holds(p) /\ Holds(q) /\ request[p].ext = request[q].ext => p = q

\* The duplicate check has passed and the lock is still held.
Checked(r) == Holds(r) /\ ~At(r, "check")

\* What the check saw stays true until the request has dialled.
CheckedInv ==
    AllListed => \A r \in Requests : Checked(r) /\ request[r].ext \in Overseen =>
                     \A h \in Callees(request[r].ext) : ~Live(h)

\* A channel that a station answers or dials from has its extension.
PlacedInv ==
    \A h \in Channels : channel[h].role \in {"callee", "caller"} => channel[h].ext \in Stations

\* So has a request that is under way.
NamedInv ==
    \A r \in Requests : request[r].at \notin {"start", "done"} => request[r].ext \in Stations

StagedInv ==
    /\ StagedTypeOK /\ PlacedInv /\ NamedInv /\ KindsInv
    /\ LockInv /\ CheckedInv /\ OneLegPerStation

-----------------------------------------------------------------------------
(* Why the history is right. *)

\* The loop may have listed it.
Appeared(h) == channel[h].st \in {"ringing", "up", "over"}

Named(h) == \/ \E r \in Requests : outbound[r] # None /\ outbound[r].channel = h
            \/ incoming[h] # <<>>

\* Rows name channels of their station that have been listed.
NamesInv ==
    /\ \A h \in pass.listed : Appeared(h)
    /\ \A r \in Requests : outbound[r] # None /\ outbound[r].channel # None =>
         /\ outbound[r].channel \in Callees(outbound[r].station)
         /\ Appeared(outbound[r].channel)
    /\ \A h \in Channels : incoming[h] # <<>> => channel[h].role = "caller" /\ Appeared(h)

\* The listing that a pass works from may be old, but what a row names and is not
\* in it has ended.
ListingInv ==
    AllListed =>
        /\ pass.at \in {"sessions", "drop", "history"} =>
             \A h \in Channels : Named(h) => h \in pass.listed \/ ~Live(h)
        /\ \A e \in Overseen : \A g, h \in Callees(e) \cap pass.listed : g = h
        /\ \A h \in pass.listed : \A i \in DOMAIN incoming[h] : incoming[h][i].open

HistoryInv ==
    /\ NamesInv /\ ListingInv
    /\ RowOutlivesItsLeg /\ IncomingCallIsOneRow

-----------------------------------------------------------------------------
(* Liveness.  asyncio runs the loop, each CLI and AMI call is answered or      *)
(* times out, and time passes.  Nothing is assumed of Asterisk, of people or   *)
(* of requests.                                                                *)

Fairness ==
    /\ WF_vars(LoopStep)
    /\ WF_vars(Clock)

FairSpec == Spec /\ Fairness

OpenOwnRow(r) == outbound[r] # None /\ outbound[r].own /\ outbound[r].open

\* A row that the history accounts for (source 9999) is closed once its station
\* has no channel, even if none ever came.
OwnRowIsClosed ==
    \A r \in Requests :
        OpenOwnRow(r) ~> ~OpenOwnRow(r) \/ \E h \in Callees(outbound[r].station) : Listed(h)


\* Of two sessions of a browser that reconnected one goes, even if the hang-up
\* fails the first time.
SecondSessionGoes ==
    \A g, h \in Channels :
        g # h /\ {g, h} \subseteq Sessions(Members) ~> ~({g, h} \subseteq Sessions(Members))

StationMembers == {h \in Members : channel[h].role = "callee"}

\* The recorder runs while a station is in the conference and not for a
\* controller alone, although Asterisk starts it for whoever comes first and the
\* loop decides on what it listed before it asked for the recorder.
RecordingFollowsStations ==
    /\ ~recording /\ StationMembers # {} ~> recording \/ StationMembers = {}
    /\ recording /\ StationMembers = {} ~> ~recording \/ StationMembers # {}
=============================================================================
