----------------------------- MODULE Asterisk -----------------------------
(***************************************************************************)
(* The Asterisk server as TCCS Core uses it: channels and mixing bridges   *)
(* driven by ARI requests, and the Stasis events it sends to Core over one *)
(* WebSocket, in order.  The server is not part of the repository; every   *)
(* definition here is read off the way the code in core/app uses ARI.      *)
(*                                                                         *)
(* A request takes effect when it is sent; the caller sees the reply in a  *)
(* later step, so anything may happen in between.                          *)
(***************************************************************************)
EXTENDS CallTypes, Sequences

CONSTANT Faults  \* which faults and races the environment may show

FaultKinds ==
    {"refused",       \* an ARI request may be rejected
     "timeout",       \* an ARI request may take effect and its reply be lost
     "lost_event",    \* an event may be lost (WebSocket down)
     "restart",       \* Core may restart
     "early_answer",  \* a phone may answer before Core has read the reply to
                      \* the request that dialled it
     "two_lines"}     \* a phone may take or make a call while it is in one

ASSUME FaultsAssumption == Faults \subseteq FaultKinds

VARIABLES
    channel,  \* channel[h]: an ARI channel
    bridge,   \* the calls whose mixing bridge tccs-<call> exists
    within,   \* within[h]: the call whose bridge channel h is in
    events    \* the events sent and not yet received by Core

asteriskVars == <<channel, bridge, within, events>>

\* dialing -> ringing -> stasis -> over, or -> unanswered.
ChannelStates ==
    {"unused", "dialing", "ringing", "stasis", "unanswered", "over"}

\* `role`, `call`, `ctl` and `ext` are what the Stasis arguments of the channel
\* say: source,<call>,.. / callee,<call>,<ext> / inbound,<controller>,<ext>;
\* `ext` is also the endpoint in the channel's name, PJSIP/<ext>-...
Channel == [st: ChannelStates, role: {"source", "callee", "inbound", "none"},
            call: Maybe(Calls), ctl: Maybe(Controllers), ext: Maybe(Extensions)]

EventType == {"StasisStart", "Ringing", "Up", "StasisEnd"}

Event == [type: EventType, channel: Channels]

AsteriskTypeOK ==
    /\ channel \in [Channels -> Channel]
    /\ bridge \in SUBSET Calls
    /\ within \in [Channels -> Maybe(Calls)]
    /\ events \in Seq(Event)

AsteriskInit ==
    /\ channel = [h \in Channels |-> [st |-> "unused", role |-> "none",
                                      call |-> None, ctl |-> None, ext |-> None]]
    /\ bridge = {}
    /\ within = [h \in Channels |-> None]
    /\ events = <<>>

-----------------------------------------------------------------------------
(* What GET /channels and GET /channels/{id} show. *)

Ring_ == {"dialing", "ringing"}

Live(h) == channel[h].st \in Ring_ \cup {"stasis"}

InStasis(h) == channel[h].st = "stasis"

Fresh == {h \in Channels : channel[h].st = "unused"}

LiveAt(e) == {h \in Channels : Live(h) /\ channel[h].ext = e}

\* find_active_channel(participant): exactly one live channel, or None.
OnlyLiveAt(e) ==
    IF \E h \in Channels : LiveAt(e) = {h}
    THEN CHOOSE h \in Channels : LiveAt(e) = {h}
    ELSE None

\* find_active_channel(participant, channel_id).
LiveAs(h, e) == h # None /\ Live(h) /\ channel[h].ext = e

-----------------------------------------------------------------------------
(* Events. *)

Sent(type, h) == [type |-> type, channel |-> h]

Emit(es) ==
    \/ events' = events \o es
    \/ "lost_event" \in Faults /\ events' = events

-----------------------------------------------------------------------------
(* Effects of ARI requests, on channel, bridge, within and events. *)

\* POST /channels
Dials(h, e, role, c) ==
    /\ h \in Fresh
    /\ channel' = [channel EXCEPT ![h] =
                     [st |-> "dialing", role |-> role, call |-> c,
                      ctl |-> None, ext |-> e]]
    /\ UNCHANGED <<bridge, within, events>>

\* The channel goes away.  Only one that entered Stasis leaves it.
Drops(h) ==
    /\ within' = [within EXCEPT ![h] = None]
    /\ UNCHANGED bridge
    /\ \/ /\ InStasis(h)
          /\ channel' = [channel EXCEPT ![h].st = "over"]
          /\ Emit(<<Sent("StasisEnd", h)>>)
       \/ /\ channel[h].st \in Ring_
          /\ channel' = [channel EXCEPT ![h].st = "unanswered"]
          /\ UNCHANGED events

\* DELETE /channels/{id}, 404 included
Hangs(h) == IF Live(h) THEN Drops(h) ELSE UNCHANGED asteriskVars

\* POST /channels/{id}/answer
AnswersInbound(h) ==
    /\ Emit(<<Sent("Up", h)>>)
    /\ UNCHANGED <<channel, bridge, within>>

\* POST /bridges, 409 included
MakesBridge(c) ==
    /\ bridge' = bridge \cup {c}
    /\ UNCHANGED <<channel, within, events>>

\* POST /bridges/{id}/addChannel
CanAdd(c, S) == c \in bridge /\ \A h \in S : InStasis(h)

Adds(c, S) ==
    /\ within' = [h \in Channels |-> IF h \in S THEN c ELSE within[h]]
    /\ UNCHANGED <<channel, bridge, events>>

\* DELETE /bridges/{id}, 404 included
BreaksBridge(c) ==
    /\ bridge' = bridge \ {c}
    /\ within' = [h \in Channels |-> IF within[h] = c THEN None ELSE within[h]]
    /\ UNCHANGED <<channel, events>>

-----------------------------------------------------------------------------
(* What people at the phones do. *)

Rings(h) ==
    /\ channel[h].st = "dialing"
    /\ channel' = [channel EXCEPT ![h].st = "ringing"]
    /\ Emit(<<Sent("Ringing", h)>>)
    /\ UNCHANGED <<bridge, within>>

\* A phone in a conversation takes no second call unless it has two lines.
PickUp(h) ==
    /\ channel[h].st \in Ring_
    /\ \/ "two_lines" \in Faults
       \/ \A g \in Channels : channel[g].ext = channel[h].ext => ~InStasis(g)
    /\ channel' = [channel EXCEPT ![h].st = "stasis"]
    /\ Emit(<<Sent("Up", h), Sent("StasisStart", h)>>)
    /\ UNCHANGED <<bridge, within>>

\* A phone hangs up, rejects the call or lets it ring out.
HangUp(h) == Live(h) /\ Drops(h)

\* A station dials a controller: Stasis(tccs-core,inbound,<controller>,<ext>).
DialIn(h, s, e) ==
    /\ h \in Fresh
    /\ "two_lines" \in Faults \/ LiveAt(e) = {}
    /\ channel' = [channel EXCEPT ![h] =
                     [st |-> "stasis", role |-> "inbound", call |-> None,
                      ctl |-> s, ext |-> e]]
    /\ Emit(<<Sent("StasisStart", h)>>)
    /\ UNCHANGED <<bridge, within>>
=============================================================================
