------------------------ MODULE CallControlProperties ------------------------
(***************************************************************************)
(* What TCCS Core call control promises, and what its comments and         *)
(* documents say of it.                                                    *)
(***************************************************************************)
EXTENDS CallControl, FiniteSets

\* The HTTP requests that have arrived are answered and every event is handled.
AtRest ==
    /\ At(Handler, "idle")
    /\ events = <<>>
    /\ \A r \in Requests : task[r].pc \in {"start", "done"}

\* The channels mixed in the bridge of c.
Talking(c) == {h \in Channels : within[h] = c}

-----------------------------------------------------------------------------
(* The adapter's maps. *)

\* The reverse map of AsteriskHttpClient covers its forward map: cleanup_call
\* (asterisk.py:183) always finds the leg of the channel that ended, and the
\* fallback written for older state is never needed.
ReverseMapComplete ==
    \A c \in Calls, e \in Extensions :
        maps[c].channel[e] # None => maps[c].extension[maps[c].channel[e]] = e

\* h is no station that was dialled for c, and its controller has another call.
\* Core looks up the controller's channel by its endpoint (asterisk.py:294), so
\* the other call may have taken h for its own and moved it to its bridge.
SharedWithAnother(h, c) ==
    /\ channel[h].role # "callee"
    /\ \E d \in Calls \ {c} :
         call[d].source \in {channel[h].ext, channel[h].ctl} \ {None}

\* What the adapter believes to be in a bridge is there, or has left Stasis:
\* bridge_call never skips a leg that nobody hears (asterisk.py:158).
BridgeCacheIsSound ==
    /\ bridges \subseteq bridge
    /\ \A c \in Calls : \A h \in bridgedChannels[c] :
         /\ c \in bridges
         /\ InStasis(h) => within[h] = c \/ SharedWithAnother(h, c)

\* The adapter's map of a call holds, for a station, a channel that was dialled
\* for that call or dialled into it: connect never adopts a channel the station
\* has in another call (call_orchestrator.py:96, 176).
StationMapsHoldOwnChannels ==
    \A c \in Calls, e \in Stations :
        LET h == maps[c].channel[e] IN
        h # None => \/ channel[h].call = c
                    \/ channel[h].role = "inbound" /\ channel[h].ctl = call[c].source

-----------------------------------------------------------------------------
(* Calls that go on at the same time, of one controller or of several. *)

\* h is of the call c: a station that was dialled for it, the controller's own
\* channel, or a station that dialled its controller.
Belongs(h, c) ==
    IF channel[h].role = "callee" THEN channel[h].call = c
    ELSE c \in Calls /\ call[c].source \in {channel[h].ext, channel[h].ctl} \ {None}

\* Nobody is put into a conversation of other people: whoever is in the bridge of
\* a call is of that call (asterisk.py:140-172).
BridgesHoldOwnChannels ==
    \A h \in Channels : within[h] # None => Belongs(h, within[h])

\* Core never cuts off a conversation of another call.  What it hangs up, to end
\* or retire a call or to disconnect a station (asterisk.py:218, 275; main.py:229),
\* is of the call it works on, or has just dialled in and found no conference.
CoreDropsOwnChannels ==
    [][\A h \in Channels, t \in Tasks :
         Live(h) /\ ~Live(h)' /\ task'[t] # task[t] =>
           \/ Belongs(h, task[t].call)
           \/ channel[h].role = "inbound" /\ task[t].chan = h]_vars

\* No two rows name one channel.  So an event finds the one leg it is about, and
\* the transactions that do not expect the unique index to refuse, binding the
\* controller's channel and its StasisStart, never fail (call_service.py:34, 262).
PointersAreUnique ==
    \A c, d \in Calls, e, x \in Extensions :
        leg[c][e].channel # None /\ leg[c][e].channel = leg[d][x].channel
          => c = d /\ e = x

-----------------------------------------------------------------------------
(* The database against Asterisk. *)

\* No station has dialled into the conference it was called into: doing so is
\* another way to rejoin, whose row is not opened again.
NoDialIn == \A h \in Channels : channel[h].role # "inbound"

\* A station that talks in a call has an open row there, with a channel: the
\* actions of the controller reach it and its leg keeps the call alive.
TalkingStationIsOpen ==
    AtRest /\ NoDialIn => \A c \in Calls : \A h \in Talking(c) :
                  channel[h].ext \in Stations => Counts(leg[c][channel[h].ext])

\* Nobody talks in a call that the database says is over.
NobodyTalksInAnEndedCall ==
    AtRest /\ NoDialIn => \A c \in Calls :
                  call[c].state \in Over => Cardinality(Talking(c)) <= 1

\* When the station hangs up, the controller's leg of an individual call goes
\* too (asterisk_event_processor.py:102), whoever hung up and whatever was
\* still ringing: an individual call that is over has no live channel.
EndedIndividualCallIsCleared ==
    AtRest => \A c \in Calls, h \in Channels :
                  call[c].state \in Over /\ ~call[c].conference
                      /\ channel[h].call = c => ~Live(h)

\* The handler's part of it: having handled the StasisEnd that ended an
\* individual call, Core has dropped the controller's channel, unless that one
\* had left by itself.
ControllerIsDropped ==
    [][Cleanup /\ At(Handler, "idle")' =>
         LET c == task[Handler].call IN
         call[c].state \in Over /\ ~call[c].conference =>
             \A s \in Controllers, h \in Channels : Owns(c, s, h) => ~Live(h)']_vars

-----------------------------------------------------------------------------
(* What a step may never do. *)

\* One StasisEnd never drops a surviving conference (cleanup_call's docstring):
\* if two legs still talk, both stay where they are.
SurvivingConferenceIsKept ==
    [][Cleanup \/ Teardown =>
         \A c \in Calls :
             Cardinality(Talking(c)) >= 2 => Talking(c)' = Talking(c)]_vars

\* One unreachable target does not keep the others from being rung.
EveryTargetIsAttempted ==
    [][At(Handler, "targets") /\ At(Handler, "idle")'
         => Cardinality(task[Handler].todo) <= 1]_vars

-----------------------------------------------------------------------------
(* Liveness.  asyncio runs every ready task and every ARI request is answered *)
(* or times out, so each task that can take a step takes one eventually.      *)
(* Nothing is assumed of phones, or of requests arriving.                     *)

Fairness == WF_vars(HandlerStep) /\ \A r \in Requests : WF_vars(RequestStep(r))

FairSpec == Spec /\ Fairness

\* The controller's phone is in the call.
SourceIn(c) ==
    \E h \in Channels : InStasis(h) /\ channel[h].role = "source" /\ channel[h].call = c

\* A station that answers is bridged, unless it or the controller leaves.
AnsweredStationIsBridged ==
    \A h \in Channels :
        channel[h].role = "callee" /\ InStasis(h)
          ~> within[h] # None \/ ~Live(h) \/ ~SourceIn(channel[h].call)

\* Once the controller is in the call, every target is rung while it stays.
EveryTargetIsRung ==
    \A c \in Calls, e \in Stations :
        e \in call[c].targets /\ SourceIn(c)
          ~> \/ ~SourceIn(c)
             \/ \E h \in Channels : channel[h].call = c /\ channel[h].ext = e
=============================================================================
