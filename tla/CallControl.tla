---------------------------- MODULE CallControl ----------------------------
(***************************************************************************)
(* Call control of TCCS Core: the HTTP requests it serves concurrently and *)
(* the single task that handles ARI events one at a time, over the         *)
(* database (CallStore), the ARI adapter's maps (AriAdapter) and Asterisk. *)
(*                                                                         *)
(* Every request and the event handler is a task.  A step of a task runs   *)
(* from one await to the next: it uses the reply of the previous ARI       *)
(* request, runs one database transaction or changes the adapter's maps,   *)
(* and sends the next ARI request.  Tasks interleave between steps.        *)
(***************************************************************************)
EXTENDS CallStore, Asterisk, AriAdapter

CONSTANTS
    Requests,      \* the HTTP requests of the run
    Handler,       \* the event task
    Workload,      \* what may happen: kinds of requests, "dial_in", "ring"
    ExpiredRows,   \* does reading an ORM row loaded before a rollback raise?
    ControllerOf   \* the controller that a station's section is assigned to

Actions == {"connect", "mute", "disconnect"}

Kinds == Actions \cup {"call_station", "call_stations", "conference_lookup"}

ASSUME ControlAssumption ==
    /\ Handler \notin Requests
    /\ Workload \subseteq Kinds \cup {"dial_in", "ring"}
    /\ ExpiredRows \in BOOLEAN
    /\ ControllerOf \in [Stations -> Controllers]

VARIABLE task

vars == <<storeVars, asteriskVars, adapterVars, task>>

Tasks == Requests \cup {Handler}

Labels ==
    {"start", "idle", "done",
     \* routing and creating a call
     "route", "route_stations", "rehydrate", "retire", "drop_source",
     "initiate", "dial", "dialed", "bind", "fail",
     \* connecting a station to a call
     "connect", "promote", "enroll", "add_source", "attach_leg", "reopen",
     "find_source", "ring", "rung", "mark",
     \* acting on a participant
     "locate", "repoint", "act", "recover", "operate", "settle", "forget",
     \* handling an event
     "targets", "answer", "join", "bridge", "bridge_made", "bridge_added",
     "bridge_failed", "reject", "cleanup", "teardown"}

\* A task's locals: `chan` is the channel the current operation works on,
\* `old` the pointer read from the database, `next` where "reopen" and
\* "forget" return to, `todo` the targets left, `legs` the channels left.
Task == [pc: Labels, kind: Kinds \cup {"inbound", "none"},
         ctl: Maybe(Controllers), ext: Maybe(Extensions), call: Maybe(Calls),
         chan: Maybe(Channels), old: Maybe(Channels), next: Labels,
         todo: SUBSET Stations, legs: SUBSET Channels]

Resting(l) == [pc |-> l, kind |-> "none", ctl |-> None, ext |-> None,
               call |-> None, chan |-> None, old |-> None, next |-> "done",
               todo |-> {}, legs |-> {}]

TypeOK ==
    /\ StoreTypeOK
    /\ AsteriskTypeOK
    /\ AdapterTypeOK
    /\ task \in [Tasks -> Task]

Init ==
    /\ StoreInit
    /\ AsteriskInit
    /\ AdapterInit
    /\ task = [t \in Tasks |-> Resting(IF t = Handler THEN "idle" ELSE "start")]

-----------------------------------------------------------------------------
(* Control flow of a task. *)

At(t, l) == task[t].pc = l

Becomes(t, locals) == task' = [task EXCEPT ![t] = locals]

Goto(t, l) == Becomes(t, [task[t] EXCEPT !.pc = l])

\* The request is answered (with whatever status), the event is handled.
Finish(t) == Becomes(t, Resting(IF t = Handler THEN "idle" ELSE "done"))

IsNewest(c, S) == c \in S /\ \A d \in S : d <= c

Refusal == "refused" \in Faults
Timeout == "timeout" \in Faults

-----------------------------------------------------------------------------
(* Requests arrive.  call_station and call_stations are the Controller's    *)
(* sequences of Core requests; so are the participant actions, which first  *)
(* ask Core for the station's active call.                                  *)

CallStation(r, e) ==
    /\ At(r, "start") /\ "call_station" \in Workload
    /\ Becomes(r, [task[r] EXCEPT !.pc = "route", !.kind = "call_station",
                                  !.ctl = ControllerOf[e], !.ext = e])
    /\ UNCHANGED <<storeVars, asteriskVars, adapterVars>>

CallStations(r, T) ==
    /\ At(r, "start") /\ "call_stations" \in Workload
    /\ \E e \in T :
         Becomes(r, [task[r] EXCEPT !.pc = "initiate", !.kind = "call_stations",
                                    !.ctl = ControllerOf[e], !.todo = T])
    /\ UNCHANGED <<storeVars, asteriskVars, adapterVars>>

ConferenceLookup(r, s) ==
    /\ At(r, "start") /\ "conference_lookup" \in Workload
    /\ Becomes(r, [task[r] EXCEPT !.pc = "route", !.kind = "conference_lookup",
                                  !.ctl = s])
    /\ UNCHANGED <<storeVars, asteriskVars, adapterVars>>

ParticipantAction(r, e, action) ==
    /\ At(r, "start") /\ action \in Workload
    /\ Becomes(r, [task[r] EXCEPT !.pc = "locate", !.kind = action, !.ext = e])
    /\ UNCHANGED <<storeVars, asteriskVars, adapterVars>>

-----------------------------------------------------------------------------
(* GET active-calls/source and active-conferences/source: is the newest     *)
(* call of the controller live?  If not, retire it.                         *)

Candidates(r) ==
    IF task[r].kind = "call_station" THEN ActiveCalls(task[r].ctl)
    ELSE ActiveConferences(task[r].ctl)

\* HTTP 404: call_station goes on to create a call.
NotFound(r) ==
    IF task[r].kind = "call_station"
    THEN Becomes(r, [task[r] EXCEPT !.pc = "initiate", !.call = None,
                                    !.chan = None])
    ELSE Finish(r)

\* Read the call, then GET the controller's only live channel.  The conference
\* endpoint reads the call's id after session.rollback().
Route(r) ==
    /\ At(r, "route")
    /\ \/ Candidates(r) = {} /\ NotFound(r)
       \/ /\ Candidates(r) # {} /\ ExpiredRows
          /\ task[r].kind = "conference_lookup"
          /\ Finish(r)
       \/ \E c \in Calls :
            /\ IsNewest(c, Candidates(r))
            /\ ~ExpiredRows \/ task[r].kind # "conference_lookup"
            /\ Becomes(r, [task[r] EXCEPT !.pc = "route_stations", !.call = c,
                                          !.chan = OnlyLiveAt(task[r].ctl)])
    /\ UNCHANGED <<storeVars, asteriskVars, adapterVars>>

\* The live channel of an open leg: the persisted one; without a pointer the
\* conference endpoint takes the station's only live channel.
LiveLeg(r, e) ==
    LET h == leg[task[r].call][e].channel IN
    IF LiveAs(h, e) THEN h
    ELSE IF h = None /\ task[r].kind = "conference_lookup" THEN OnlyLiveAt(e)
    ELSE None

\* Read the open station legs, roll back, and look for a live one.
RouteStations(r) ==
    LET open == OpenLegs(task[r].call)
        live == {e \in open : LiveLeg(r, e) # None}
        raises == ExpiredRows /\ open # {}
    IN
    /\ At(r, "route_stations")
    /\ \/ /\ task[r].chan = None \/ (live = {} /\ ~raises)
          /\ Goto(r, "retire")
       \/ /\ task[r].chan # None /\ raises
          /\ Finish(r)
       \/ /\ task[r].chan # None /\ ~raises
          /\ \E e \in live :
               Becomes(r, [task[r] EXCEPT !.pc = "rehydrate",
                                          !.old = LiveLeg(r, e)])
    /\ UNCHANGED <<storeVars, asteriskVars, adapterVars>>

\* The call is live: map the controller and the one station that was found.
Rehydrate(r) ==
    LET c == task[r].call IN
    /\ At(r, "rehydrate")
    /\ maps' = [maps EXCEPT ![c] =
                  Attach(Attach(@, task[r].ctl, task[r].chan),
                         channel[task[r].old].ext, task[r].old)]
    /\ IF task[r].kind = "call_station"
       THEN Becomes(r, [task[r] EXCEPT !.pc = "connect", !.chan = None,
                                       !.old = None])
       ELSE Finish(r)
    /\ UNCHANGED <<bridges, bridgedChannels, storeVars, asteriskVars>>

RetireCall(r) ==
    /\ At(r, "retire")
    /\ Retire(task[r].call)
    /\ IF task[r].chan = None THEN NotFound(r) ELSE Goto(r, "drop_source")
    /\ UNCHANGED <<asteriskVars, adapterVars>>

\* Remove the controller's channel; a failure is swallowed.
DropSource(r) ==
    LET h == task[r].chan IN
    /\ At(r, "drop_source")
    /\ \/ /\ Live(h) /\ Drops(h)
          /\ \/ Becomes(r, [task[r] EXCEPT !.pc = "forget", !.next =
                   IF task[r].kind = "call_station" THEN "initiate" ELSE "done"])
             \/ Timeout /\ NotFound(r)
       \/ /\ ~Live(h) \/ Refusal
          /\ NotFound(r)
          /\ UNCHANGED asteriskVars
    /\ UNCHANGED <<storeVars, adapterVars>>

-----------------------------------------------------------------------------
(* POST calls, group-calls and general-calls. *)

\* The ids of the instance are used up: the request is dropped.
OutOfCalls(r) ==
    /\ At(r, "initiate") /\ Absent = {}
    /\ Finish(r)
    /\ UNCHANGED <<storeVars, asteriskVars, adapterVars>>

InitiateCall(r) ==
    /\ At(r, "initiate")
    /\ \E c \in Absent :
         /\ \A d \in Absent : c <= d
         /\ IF task[r].kind = "call_stations"
            THEN InitiateConference(c, task[r].ctl, task[r].todo)
            ELSE Initiate(c, task[r].ctl, task[r].ext)
         /\ Becomes(r, [task[r] EXCEPT !.pc = "dial", !.call = c])
    /\ UNCHANGED <<asteriskVars, adapterVars>>

\* originate: POST /channels for the controller's phone.
DialSource(r) ==
    /\ At(r, "dial")
    /\ \/ \E h \in Channels :
            /\ Dials(h, task[r].ctl, "source", task[r].call)
            /\ \/ Becomes(r, [task[r] EXCEPT !.pc = "dialed", !.chan = h])
               \/ Timeout /\ Goto(r, "fail")
       \/ /\ Refusal \/ Fresh = {}
          /\ Goto(r, "fail")
          /\ UNCHANGED asteriskVars
    /\ UNCHANGED <<storeVars, adapterVars>>

SourceDialed(r) ==
    /\ At(r, "dialed")
    /\ AttachTo(task[r].call, task[r].ctl, task[r].chan)
    /\ Goto(r, "bind")
    /\ UNCHANGED <<storeVars, asteriskVars>>

\* The unique index has no reason to refuse: only this row can name a channel
\* that was dialled for this controller and this call.
BindSource(r) ==
    /\ At(r, "bind")
    /\ BindChannel(task[r].call, task[r].ctl, task[r].chan)
    /\ Finish(r)
    /\ UNCHANGED <<asteriskVars, adapterVars>>

FailCall(r) ==
    /\ At(r, "fail")
    /\ Fail(task[r].call)
    /\ Finish(r)
    /\ UNCHANGED <<asteriskVars, adapterVars>>

-----------------------------------------------------------------------------
(* POST calls/{c}/participants/{e}/connect: add_station_to_active_call for a *)
(* call that is no conference yet, else rejoin_conference_participant.       *)

\* Mutant: whatever live channel the station has is taken for its leg.
PursueAny(r, h, next, chan) ==
    LET found == OnlyLiveAt(task[r].ext) IN
    Becomes(r, [task[r] EXCEPT
        !.old = found, !.chan = chan, !.next = next,
        !.pc = IF found = None THEN next ELSE "attach_leg"])

\* Where the persisted pointer h leads: to a live channel, or to be cleared
\* before `next`, or straight there.
Pursue(r, h, next, chan) ==
    Becomes(r, [task[r] EXCEPT
        !.old = h, !.chan = chan, !.next = next,
        !.pc = IF h = None THEN next
               ELSE IF LiveAs(h, task[r].ext) THEN "attach_leg" ELSE "reopen"])

Connect(r) ==
    LET c == task[r].call
        e == task[r].ext
    IN
    /\ At(r, "connect")
    /\ \/ ~IsActive(c) /\ Finish(r)
       \/ IsActive(c) /\ ~call[c].conference /\ Goto(r, "promote")
       \/ /\ IsActive(c) /\ call[c].conference
          /\ IF leg[c][e].row THEN Pursue(r, leg[c][e].channel, "find_source", None)
             ELSE Finish(r)
    /\ UNCHANGED <<storeVars, asteriskVars, adapterVars>>

PromoteCall(r) ==
    LET c == task[r].call IN
    /\ At(r, "promote")
    /\ \/ IsActive(c) /\ Promote(c) /\ Goto(r, "enroll")
       \/ ~IsActive(c) /\ Finish(r) /\ UNCHANGED storeVars
    /\ UNCHANGED <<asteriskVars, adapterVars>>

\* Add the row if there is none, read the pointer, GET the controller's channel.
Enroll(r) ==
    LET c == task[r].call
        e == task[r].ext
    IN
    /\ At(r, "enroll")
    /\ \/ /\ ~leg[c][e].row /\ ~IsActive(c)
          /\ Finish(r)
          /\ UNCHANGED storeVars
       \/ /\ leg[c][e].row \/ IsActive(c)
          /\ IF leg[c][e].row THEN UNCHANGED storeVars ELSE AddParticipant(c, e)
          /\ Becomes(r, [task[r] EXCEPT !.pc = "add_source",
                                        !.old = leg[c][e].channel,
                                        !.chan = OnlyLiveAt(call[c].source),
                                        !.ctl = call[c].source])
    /\ UNCHANGED <<asteriskVars, adapterVars>>

\* Map the controller's channel, if it was found; GET the persisted one.
AddSource(r) ==
    LET c == task[r].call
        h == task[r].chan
    IN
    /\ At(r, "add_source")
    /\ IF h = None \/ task[r].old = None THEN UNCHANGED adapterVars
       ELSE AttachTo(c, task[r].ctl, h)
    /\ Pursue(r, task[r].old, "ring", IF task[r].old = None THEN h ELSE None)
    /\ UNCHANGED <<storeVars, asteriskVars>>

AttachLeg(r) ==
    /\ At(r, "attach_leg")
    /\ AttachTo(task[r].call, task[r].ext, task[r].old)
    /\ Finish(r)
    /\ UNCHANGED <<storeVars, asteriskVars>>

ReopenLeg(r) ==
    /\ At(r, "reopen")
    /\ Reopen(task[r].call, task[r].ext)
    /\ Goto(r, task[r].next)
    /\ UNCHANGED <<asteriskVars, adapterVars>>

FindSource(r) ==
    LET s == call[task[r].call].source
        h == OnlyLiveAt(s)
    IN
    /\ At(r, "find_source")
    /\ IF h = None THEN Finish(r)
       ELSE Becomes(r, [task[r] EXCEPT !.pc = "ring", !.ctl = s, !.chan = h])
    /\ UNCHANGED <<storeVars, asteriskVars, adapterVars>>

\* originate_participant(c, e), after mapping the controller's channel if one
\* was found.  The handler rings the targets of a call that its source entered
\* one after the other; an exception ends its loop.
RingParticipant(t, e) ==
    LET c == task[t].call
        m == IF t = Handler \/ task[t].chan = None THEN maps[c]
             ELSE Attach(maps[c], task[t].ctl, task[t].chan)
        left == task[t].todo \ {e}
    IN
    /\ IF t = Handler THEN At(t, "targets") /\ e \in task[t].todo
       ELSE At(t, "ring") /\ e = task[t].ext
    /\ maps' = [maps EXCEPT ![c] = m]
    /\ \/ Keys(m) = {} /\ Finish(t) /\ UNCHANGED asteriskVars
       \/ /\ Keys(m) # {} /\ Existing(m, e) # None
          /\ IF t # Handler
             THEN Becomes(t, [task[t] EXCEPT !.pc = "mark", !.chan = Existing(m, e)])
             ELSE IF left = {} THEN Finish(t)
             ELSE Becomes(t, [task[t] EXCEPT !.todo = left])
          /\ UNCHANGED asteriskVars
       \/ /\ Keys(m) # {} /\ Existing(m, e) = None
          /\ \/ \E h \in Channels :
                  /\ Dials(h, e, "callee", c)
                  /\ \/ Becomes(t, [task[t] EXCEPT !.pc = "rung", !.chan = h,
                                                   !.ext = e, !.todo = left])
                     \/ Timeout /\ Finish(t)
             \/ /\ Refusal \/ Fresh = {}
                /\ Finish(t)
                /\ UNCHANGED asteriskVars
    /\ UNCHANGED <<bridges, bridgedChannels, storeVars>>

\* Mutant: the loop over the targets returns after the first.
FirstRung(t) ==
    /\ At(t, "rung")
    /\ AttachTo(task[t].call, task[t].ext, task[t].chan)
    /\ IF t # Handler THEN Goto(t, "mark") ELSE Finish(t)
    /\ UNCHANGED <<storeVars, asteriskVars>>

ParticipantRung(t) ==
    /\ At(t, "rung")
    /\ AttachTo(task[t].call, task[t].ext, task[t].chan)
    /\ IF t # Handler THEN Goto(t, "mark")
       ELSE IF task[t].todo = {} THEN Finish(t)
       ELSE Goto(t, "targets")
    /\ UNCHANGED <<storeVars, asteriskVars>>

MarkLeg(r) ==
    LET c == task[r].call
        e == task[r].ext
        h == task[r].chan
    IN
    /\ At(r, "mark")
    /\ IF ~leg[c][e].gone /\ Collides(c, e, h) THEN UNCHANGED storeVars
       ELSE MarkRinging(c, e, h)
    /\ Finish(r)
    /\ UNCHANGED <<asteriskVars, adapterVars>>

-----------------------------------------------------------------------------
(* Participant actions: find the station's call, then its channel, then mute *)
(* or remove the channel.  `muted` and the mute itself are left out.         *)

\* The channel that active-calls/participant believes carries leg (c, e).
Seen(c, e) ==
    IF LiveAs(leg[c][e].channel, e) THEN leg[c][e].channel ELSE OnlyLiveAt(e)

\* GET active-calls/participant
Locate(r) ==
    LET e == task[r].ext
        found == {c \in Calls : Counts(leg[c][e]) /\ IsActive(c) /\ Seen(c, e) # None}
        onward == IF task[r].kind = "connect" THEN "connect" ELSE "act"
    IN
    /\ At(r, "locate")
    /\ \/ found = {} /\ Finish(r)
       \/ \E c \in Calls :
            /\ IsNewest(c, found)
            /\ IF Owns(c, e, Seen(c, e))
               THEN Becomes(r, [task[r] EXCEPT !.pc = onward, !.call = c])
               ELSE Becomes(r, [task[r] EXCEPT !.pc = "repoint", !.call = c,
                                 !.next = onward, !.chan = Seen(c, e)])
    /\ UNCHANGED <<storeVars, asteriskVars, adapterVars>>

\* Roll back, then write the channel found live into the row, unless it was
\* disconnected meanwhile; the unique index turns a channel of another row into an error.
Repoint(r) ==
    LET c == task[r].call
        e == task[r].ext
        h == task[r].chan
        onward == [task[r] EXCEPT !.pc = task[r].next, !.chan = None]
    IN
    /\ At(r, "repoint")
    /\ \/ ExpiredRows /\ Finish(r) /\ UNCHANGED storeVars
       \/ ~ExpiredRows /\ leg[c][e].gone /\ Becomes(r, onward) /\ UNCHANGED storeVars
       \/ /\ ~ExpiredRows /\ ~leg[c][e].gone /\ Collides(c, e, h)
          /\ Finish(r)
          /\ UNCHANGED storeVars
       \/ /\ ~ExpiredRows /\ ~leg[c][e].gone /\ ~Collides(c, e, h)
          /\ BindChannel(c, e, h)
          /\ Becomes(r, onward)
    /\ UNCHANGED <<asteriskVars, adapterVars>>

\* Read the row; without a pointer, GET the station's only live channel.
Act(r) ==
    LET c == task[r].call
        e == task[r].ext
        h == IF leg[c][e].channel # None THEN leg[c][e].channel ELSE OnlyLiveAt(e)
    IN
    /\ At(r, "act")
    /\ IF leg[c][e].gone \/ ~leg[c][e].row \/ h = None THEN Finish(r)
       ELSE Becomes(r, [task[r] EXCEPT !.chan = h,
                          !.pc = IF leg[c][e].channel = h THEN "operate"
                                 ELSE "recover"])
    /\ UNCHANGED <<storeVars, asteriskVars, adapterVars>>

Recover(r) ==
    LET c == task[r].call
        e == task[r].ext
        h == task[r].chan
    IN
    /\ At(r, "recover")
    /\ IF ExpiredRows \/ leg[c][e].gone \/ Collides(c, e, h)
       THEN Finish(r) /\ UNCHANGED storeVars
       ELSE BindChannel(c, e, h) /\ Goto(r, "operate")
    /\ UNCHANGED <<asteriskVars, adapterVars>>

\* The ARI operation.  A 404 is answered once by looking for the station's
\* live channel: `old` remembers that this was done.
Operate(r) ==
    LET h == task[r].chan
        found == OnlyLiveAt(task[r].ext)
    IN
    /\ At(r, "operate")
    /\ \/ /\ Live(h) /\ task[r].kind = "disconnect"
          /\ Drops(h)
          /\ \/ Becomes(r, [task[r] EXCEPT !.pc = "forget", !.next = "settle"])
             \/ Timeout /\ Finish(r)
       \/ /\ Live(h) /\ task[r].kind = "mute"
          /\ IF InStasis(h) THEN Goto(r, "settle") ELSE Finish(r)
          /\ UNCHANGED asteriskVars
       \/ /\ ~Live(h)
          /\ IF task[r].old # None \/ found = None THEN Finish(r)
             ELSE Becomes(r, [task[r] EXCEPT !.pc = "recover", !.chan = found,
                                             !.old = found])
          /\ UNCHANGED asteriskVars
       \/ Refusal /\ Finish(r) /\ UNCHANGED asteriskVars
    /\ UNCHANGED <<storeVars, adapterVars>>

\* remove_channel after a successful DELETE.
ForgetChannel(t) ==
    /\ At(t, "forget")
    /\ Forget(task[t].chan)
    /\ \/ task[t].next = "settle" /\ Goto(t, "settle")
       \/ task[t].next = "initiate" /\ NotFound(t)
       \/ task[t].next = "done" /\ Finish(t)
    /\ UNCHANGED <<storeVars, asteriskVars>>

Settle(r) ==
    /\ At(r, "settle")
    /\ IF task[r].kind = "disconnect" THEN RemoveParticipant(task[r].call, task[r].ext)
       ELSE UNCHANGED storeVars
    /\ Finish(r)
    /\ UNCHANGED <<asteriskVars, adapterVars>>

\* A GET of the lookup in progress is refused or times out: the request is
\* answered with an error and what it did so far stays.
LookupFails(r) ==
    /\ Refusal \/ Timeout
    /\ task[r].pc \in {"route_stations", "rehydrate", "locate", "act",
                       "add_source", "attach_leg", "reopen", "find_source"}
    /\ Finish(r)
    /\ UNCHANGED <<storeVars, asteriskVars, adapterVars>>

-----------------------------------------------------------------------------
(* The event task handles the event at the head of the stream. *)

Receives(type, h) ==
    /\ At(Handler, "idle")
    /\ events # <<>>
    /\ Head(events) = Sent(type, h)
    /\ events' = Tail(events)
    /\ UNCHANGED <<channel, bridge, within>>

\* The controller's phone entered Stasis: mark it, then ring every target.  As
\* in BindSource, the unique index has no reason to refuse.
SourceEntered(h) ==
    LET c == channel[h].call
        s == call[c].source
    IN
    /\ Receives("StasisStart", h) /\ channel[h].role = "source"
    /\ MarkConnected(c, s, h)
    /\ Becomes(Handler, [task[Handler] EXCEPT !.pc = "targets", !.call = c,
                                              !.todo = call[c].targets])
    /\ UNCHANGED adapterVars

\* A station that was rung entered Stasis.
CalleeEntered(h) ==
    LET c == channel[h].call
        e == channel[h].ext
    IN
    /\ Receives("StasisStart", h) /\ channel[h].role = "callee"
    /\ \/ Collides(c, e, h) /\ UNCHANGED <<storeVars, task>>
       \/ /\ ~Collides(c, e, h)
          /\ MarkConnected(c, e, h)
          /\ Becomes(Handler, [task[Handler] EXCEPT !.pc = "bridge", !.call = c,
                                                    !.ext = e, !.chan = h])
    /\ UNCHANGED adapterVars

\* A station dialled a controller: it joins the controller's newest conference.
InboundEntered(h) ==
    LET conferences == ActiveConferences(channel[h].ctl)
        e == channel[h].ext
        local == [task[Handler] EXCEPT !.kind = "inbound", !.ext = e, !.chan = h]
    IN
    /\ Receives("StasisStart", h) /\ channel[h].role = "inbound"
    /\ \/ /\ conferences = {}
          /\ Becomes(Handler, [local EXCEPT !.pc = "reject"])
          /\ UNCHANGED storeVars
       \/ \E c \in Calls :
            /\ IsNewest(c, conferences)
            /\ AddParticipant(c, e)
            /\ Becomes(Handler, [local EXCEPT !.pc = "answer", !.call = c])
    /\ UNCHANGED adapterVars

\* Map the inbound channel and answer it.
AnswerInbound ==
    LET h == task[Handler].chan IN
    /\ At(Handler, "answer")
    /\ AttachTo(task[Handler].call, task[Handler].ext, h)
    /\ \/ /\ InStasis(h) /\ AnswersInbound(h)
          /\ Goto(Handler, "join") \/ (Timeout /\ Goto(Handler, "reject"))
       \/ /\ ~InStasis(h) \/ Refusal
          /\ Goto(Handler, "reject")
          /\ UNCHANGED asteriskVars
    /\ UNCHANGED storeVars

JoinInbound ==
    LET c == task[Handler].call
        e == task[Handler].ext
        h == task[Handler].chan
    IN
    /\ At(Handler, "join")
    /\ IF Collides(c, e, h) THEN Goto(Handler, "reject") /\ UNCHANGED storeVars
       ELSE MarkConnected(c, e, h) /\ Goto(Handler, "bridge")
    /\ UNCHANGED <<asteriskVars, adapterVars>>

\* bridge_call raised: a callee's event is given up, an inbound channel removed.
Raised(l) ==
    IF task[Handler].kind = "inbound" THEN Goto(Handler, l) ELSE Finish(Handler)

\* bridge_call up to POST /bridges.
MakeBridge ==
    LET c == task[Handler].call IN
    /\ At(Handler, "bridge")
    /\ \/ ~Pair(Keys(maps[c])) /\ Raised("reject") /\ UNCHANGED asteriskVars
       \/ /\ Pair(Keys(maps[c])) /\ c \notin bridges
          /\ \/ /\ MakesBridge(c)
                /\ Goto(Handler, "bridge_made") \/ (Timeout /\ Raised("reject"))
             \/ Refusal /\ Raised("reject") /\ UNCHANGED asteriskVars
    /\ UNCHANGED <<storeVars, adapterVars>>

\* Add the first mapped channel and the participant's, unless they are in.
AddToBridge ==
    LET c == task[Handler].call
        e == task[Handler].ext
        m == maps[c]
        new == At(Handler, "bridge_made")
        pending(f) == {m.channel[f], m.channel[e]}
                        \ (IF new THEN {} ELSE bridgedChannels[c])
    IN
    /\ new \/ (At(Handler, "bridge") /\ Pair(Keys(m)) /\ c \in bridges)
    /\ IF new THEN BridgeKnown(c) ELSE UNCHANGED adapterVars
    /\ \/ /\ m.channel[e] = None
          /\ Goto(Handler, "bridge_failed")
          /\ UNCHANGED asteriskVars
       \/ /\ m.channel[e] # None
          /\ \E f \in Extensions :
               /\ IsFirst(m, f)
               /\ \/ /\ pending(f) = {}
                     /\ Finish(Handler)
                     /\ UNCHANGED asteriskVars
                  \/ /\ pending(f) # {} /\ CanAdd(c, pending(f))
                     /\ Adds(c, pending(f))
                     /\ \/ Becomes(Handler, [task[Handler] EXCEPT
                                     !.pc = "bridge_added", !.legs = pending(f)])
                        \/ Timeout /\ Goto(Handler, "bridge_failed")
                  \/ /\ pending(f) # {}
                     /\ ~CanAdd(c, pending(f)) \/ Refusal
                     /\ Goto(Handler, "bridge_failed")
                     /\ UNCHANGED asteriskVars
    /\ UNCHANGED storeVars

BridgeAdded ==
    /\ At(Handler, "bridge_added")
    /\ BridgedNow(task[Handler].call, task[Handler].legs)
    /\ Finish(Handler)
    /\ UNCHANGED <<storeVars, asteriskVars>>

\* The exception path deletes a bridge that holds no channel.
BridgeFailed ==
    LET c == task[Handler].call IN
    /\ At(Handler, "bridge_failed")
    /\ IF bridgedChannels[c] = {}
       THEN /\ BridgeForgotten(c)
            /\ BreaksBridge(c) \/ (Refusal /\ UNCHANGED asteriskVars)
       ELSE UNCHANGED <<adapterVars, asteriskVars>>
    /\ Raised("reject")
    /\ UNCHANGED storeVars

\* remove_channel of an inbound leg; a failure is swallowed.
RejectInbound ==
    LET h == task[Handler].chan IN
    /\ At(Handler, "reject")
    /\ \/ /\ Live(h) /\ Drops(h)
          /\ \/ Becomes(Handler, [task[Handler] EXCEPT !.pc = "forget",
                                                       !.next = "done"])
             \/ Timeout /\ Finish(Handler)
       \/ /\ ~Live(h) \/ Refusal
          /\ Finish(Handler)
          /\ UNCHANGED asteriskVars
    /\ UNCHANGED <<storeVars, adapterVars>>

\* ChannelStateChange
StateChanged(type, h) ==
    /\ type \in {"Ringing", "Up"}
    /\ Receives(type, h)
    /\ \/ /\ \A c \in Calls, e \in Extensions : ~Owns(c, e, h)
          /\ UNCHANGED storeVars
       \/ \E c \in Calls, e \in Extensions :
            Owns(c, e, h) /\ LegState(c, e, type)
    /\ UNCHANGED <<adapterVars, task>>

\* StasisEnd: the row that points at h is closed, then the call cleaned up.
\* An event of a channel that no row points at is dropped.
LegEnded(h) ==
    /\ Receives("StasisEnd", h)
    /\ \/ /\ \A c \in Calls, e \in Extensions : ~Owns(c, e, h)
          /\ UNCHANGED <<storeVars, task>>
       \/ \E c \in Calls, e \in Extensions :
            /\ Owns(c, e, h)
            /\ EndLeg(c, e)
            /\ Becomes(Handler, [task[Handler] EXCEPT !.pc = "cleanup",
                                                      !.call = c, !.chan = h])
    /\ UNCHANGED adapterVars

\* cleanup_call: unmap h; if fewer than two channels stay mapped, delete the
\* bridge and then the channels that are left.
Cleanup ==
    LET c == task[Handler].call
        h == task[Handler].chan
        rest == Unmapped(c, h)
        left == MappedChannels(rest)
    IN
    /\ At(Handler, "cleanup")
    /\ \/ /\ Pair(Keys(rest))
          /\ Unmap(c, h)
          /\ Finish(Handler)
          /\ UNCHANGED asteriskVars
       \/ /\ ~Pair(Keys(rest))
          /\ UnmapCall(c)
          /\ \/ /\ IF c \in bridges THEN BreaksBridge(c) ELSE UNCHANGED asteriskVars
                /\ \/ left = {} /\ Finish(Handler)
                   \/ /\ left # {}
                      /\ Becomes(Handler, [task[Handler] EXCEPT
                                              !.pc = "teardown", !.legs = left])
                   \/ Timeout /\ c \in bridges /\ Finish(Handler)
             \/ /\ Refusal /\ c \in bridges
                /\ Finish(Handler)
                /\ UNCHANGED asteriskVars
    /\ UNCHANGED storeVars

\* DELETE the channels that are left; an error other than 404 ends the loop.
Teardown ==
    /\ At(Handler, "teardown")
    /\ \/ \E h \in task[Handler].legs :
            /\ Hangs(h)
            /\ \/ task[Handler].legs = {h} /\ Finish(Handler)
               \/ /\ task[Handler].legs # {h}
                  /\ Becomes(Handler, [task[Handler] EXCEPT !.legs = @ \ {h}])
               \/ Timeout /\ Finish(Handler)
       \/ Refusal /\ Finish(Handler) /\ UNCHANGED asteriskVars
    /\ UNCHANGED <<storeVars, adapterVars>>

-----------------------------------------------------------------------------
(* The environment. *)

\* Unless phones are that fast, Core has finished dialling h before h answers.
Dialling(h) ==
    \E t \in Tasks : /\ task[t].pc \in {"dialed", "bind", "rung", "mark"}
                     /\ task[t].chan = h

Phone(h) ==
    /\ \/ "ring" \in Workload /\ Rings(h)
       \/ ("early_answer" \in Faults \/ ~Dialling(h)) /\ PickUp(h)
       \/ HangUp(h)
       \/ \E s \in Controllers, e \in Stations :
            "dial_in" \in Workload /\ DialIn(h, s, e)
    /\ UNCHANGED <<storeVars, adapterVars, task>>

\* Core restarts: the database and the channels stay, the maps, the tasks in
\* progress and the events on their way are lost.
Restart ==
    /\ "restart" \in Faults
    /\ maps' = [c \in Calls |-> NoMaps]
    /\ bridges' = {}
    /\ bridgedChannels' = [c \in Calls |-> {}]
    /\ events' = <<>>
    /\ task' = [t \in Tasks |-> IF t = Handler THEN Resting("idle")
                                ELSE IF At(t, "start") THEN task[t]
                                ELSE Resting("done")]
    /\ UNCHANGED <<storeVars, channel, bridge, within>>

-----------------------------------------------------------------------------
RequestStep(r) ==
    \/ Route(r) \/ RouteStations(r) \/ Rehydrate(r) \/ RetireCall(r)
    \/ DropSource(r) \/ OutOfCalls(r) \/ InitiateCall(r) \/ DialSource(r)
    \/ SourceDialed(r) \/ BindSource(r) \/ FailCall(r)
    \/ Connect(r) \/ PromoteCall(r) \/ Enroll(r) \/ AddSource(r)
    \/ AttachLeg(r) \/ ReopenLeg(r) \/ FindSource(r)
    \/ \E e \in Stations : RingParticipant(r, e)
    \/ ParticipantRung(r) \/ MarkLeg(r)
    \/ Locate(r) \/ Repoint(r) \/ Act(r) \/ Recover(r) \/ Operate(r)
    \/ ForgetChannel(r) \/ Settle(r) \/ LookupFails(r)

HandlerStep ==
    \/ \E h \in Channels :
         \/ SourceEntered(h) \/ CalleeEntered(h) \/ InboundEntered(h)
         \/ \E type \in EventType : StateChanged(type, h)
         \/ LegEnded(h)
    \/ \E e \in Stations : RingParticipant(Handler, e)
    \/ ParticipantRung(Handler) \/ ForgetChannel(Handler)
    \/ AnswerInbound \/ JoinInbound \/ MakeBridge \/ AddToBridge
    \/ BridgeAdded \/ BridgeFailed \/ RejectInbound \/ Cleanup \/ Teardown

Arrival(r) ==
    \/ \E e \in Stations : CallStation(r, e)
    \/ \E T \in SUBSET Stations : CallStations(r, T)
    \/ \E s \in Controllers : ConferenceLookup(r, s)
    \/ \E e \in Stations, a \in Actions : ParticipantAction(r, e, a)

Next ==
    \/ \E r \in Requests : Arrival(r) \/ RequestStep(r)
    \/ HandlerStep
    \/ \E h \in Channels : Phone(h)
    \/ Restart

Spec == Init /\ [][Next]_vars
=============================================================================
