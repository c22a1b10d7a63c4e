---------------------------- MODULE ConfBridge ----------------------------
(***************************************************************************)
(* Asterisk as the Controller backend uses it while TCCS_CORE_URL is not   *)
(* set: PJSIP channels, the ConfBridge conference of one controller and    *)
(* its recorder, seen through `core show channels concise` and driven by   *)
(* AMI.  The server is not part of the repository; every definition here   *)
(* is read off the dialplan and the way controller/backend/app uses it.    *)
(***************************************************************************)
EXTENDS Naturals

CONSTANTS
    Stations,     \* SIP extensions 10xx of the controller's section
    MaxChannels,  \* bound: how many channels are ever created
    None          \* "no value": SQL NULL, Python None

ASSUME ConfBridgeAssumption == MaxChannels \in Nat /\ None \notin Stations \cup Nat

VARIABLES
    channel,   \* channel[h]: the h-th channel; names end in a growing number
    recording  \* the conference is being recorded

bridgeVars == <<channel, recording>>

Channels == 1..MaxChannels

\* `accepted`: an originate is on its way to Asterisk, which may make a channel of
\* it at any time from now on, or never.
ChannelStates == {"unused", "accepted", "ringing", "up", "over"}

\* A callee is dialled for the controller and answers into extension 900, a
\* session is a controller's browser that dialled 900, a caller is a station
\* that dialled 9999 and is handed to Stasis.
Channel == [st: ChannelStates, role: {"none", "callee", "session", "caller"},
            ext: Stations \cup {None}]

BridgeTypeOK ==
    /\ channel \in [Channels -> Channel]
    /\ recording \in BOOLEAN

BridgeInit ==
    /\ channel = [h \in Channels |-> [st |-> "unused", role |-> "none", ext |-> None]]
    /\ recording = FALSE

\* Channels are created in the order of their numbers.
Fresh(h) == \A g \in Channels : (channel[g].st = "unused") <=> (g >= h)

Live(h) == channel[h].st \in {"accepted", "ringing", "up"}

\* What `core show channels concise` shows.
Listed(h) == channel[h].st \in {"ringing", "up"}
ListedChannels == {h \in Channels : Listed(h)}

StationChannels(e) == {h \in ListedChannels : channel[h].ext = e}

\* Listed with the application ConfBridge.
InConference(h) == channel[h].st = "up" /\ channel[h].role \in {"callee", "session"}
Members == {h \in Channels : InConference(h)}

-----------------------------------------------------------------------------
Create(h, role, e, st) ==
    /\ Fresh(h)
    /\ channel' = [channel EXCEPT ![h] = [st |-> st, role |-> role, ext |-> e]]

\* Someone joins or leaves: record_conference=yes in confbridge.conf starts the
\* recorder with the first member and stops it with the last.
Recorded == recording' = (Members' # {} /\ (recording \/ Members = {}))

\* AMI Originate with Async: true: a reply says nothing of the channel.
Accept(h, e) == Create(h, "callee", e, "accepted") /\ UNCHANGED recording

\* The station dials 9999; nothing answers it while Core does not run.
DialIn(h, e) == Create(h, "caller", e, "up") /\ UNCHANGED recording

\* A browser dials 900; an older session of the same controller may still be up.
JoinSession(h) == Create(h, "session", None, "up") /\ Recorded

\* The originated channel appears and rings; originates of one station differ in
\* nothing before that.
Appear(h) ==
    /\ channel[h].st = "accepted"
    /\ \A g \in Channels : channel[g] = channel[h] => g >= h
    /\ channel' = [channel EXCEPT ![h].st = "ringing"]
    /\ UNCHANGED recording

\* The station answers and runs extension 900.
Answer(h) ==
    /\ channel[h].st = "ringing"
    /\ channel' = [channel EXCEPT ![h].st = "up"]
    /\ Recorded

\* The channel is hung up, rejected or not answered in time.
End(h) ==
    /\ Live(h)
    /\ channel' = [channel EXCEPT ![h].st = "over"]
    /\ Recorded

\* AMI Hangup of a channel by its name, as far as Asterisk gets it; one that is
\* gone gives an error that changes nothing.
Hangup(h) ==
    \/ End(h)
    \/ ~Live(h) /\ UNCHANGED bridgeVars

\* `confbridge record start` and `stop`.
Record(on) == recording' = on /\ UNCHANGED channel
=============================================================================
