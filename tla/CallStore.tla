----------------------------- MODULE CallStore -----------------------------
(***************************************************************************)
(* The PostgreSQL state of TCCS Core (calls, call_participants) and the    *)
(* transactions of CallService, CallOrchestrator and the HTTP endpoints    *)
(* that write it.  One transaction is one atomic step.  A transaction that *)
(* raises leaves the database alone: its caller tests the condition.       *)
(***************************************************************************)
EXTENDS CallTypes

VARIABLES
    call,  \* call[c]: the row of table calls
    leg    \* leg[c][e]: the row of table call_participants for (c, e)

storeVars == <<call, leg>>

Over == {"ended", "failed"}

\* Only the states the code ever writes (on_hold is declared and never used).
\* "absent" is a call that has no row yet.
CallStates ==
    {"absent", "initiated", "ringing", "connected", "conference"} \cup Over

\* `conference` stands for conference_id IS NOT NULL; promote_to_conference
\* writes mode and conference_id together, so it is mode /= 'individual' too.
CallRow == [state: CallStates, source: Maybe(Controllers),
            conference: BOOLEAN, targets: SUBSET Stations]

\* `connected` and `gone` stand for connected_at and disconnected_at not NULL.
LegRow == [row: BOOLEAN, channel: Maybe(Channels),
           connected: BOOLEAN, gone: BOOLEAN]

NoLeg == [row |-> FALSE, channel |-> None, connected |-> FALSE, gone |-> FALSE]

NewLeg(up) == [NoLeg EXCEPT !.row = TRUE, !.connected = up]

StoreTypeOK ==
    /\ call \in [Calls -> CallRow]
    /\ leg \in [Calls -> [Extensions -> LegRow]]

StoreInit ==
    /\ call = [c \in Calls |-> [state |-> "absent", source |-> None,
                                conference |-> FALSE, targets |-> {}]]
    /\ leg = [c \in Calls |-> [e \in Extensions |-> NoLeg]]

-----------------------------------------------------------------------------
(* What the queries read. *)

Absent == {c \in Calls : call[c].state = "absent"}

IsActive(c) == call[c].state \notin Over

ActiveCalls(s) ==
    {c \in Calls : /\ call[c].state \notin Over \cup {"absent"}
                   /\ call[c].source = s}

\* Mutant: the query forgets the controller.
AllConferences(s) == {c \in Calls : IsActive(c) /\ call[c].conference}

ActiveConferences(s) == {c \in ActiveCalls(s) : call[c].conference}

\* A leg that _active_participants counts: not disconnected, with a channel.
Counts(row) == row.row /\ ~row.gone /\ row.channel # None

\* The station legs of c (role = 'participant') that are not disconnected.
OpenLegs(c) == {e \in Stations : leg[c][e].row /\ ~leg[c][e].gone}

\* The unique index on asterisk_channel_id refuses to give h to leg (c, e).
Collides(c, e, h) ==
    \E d \in Calls, x \in Extensions :
        leg[d][x].channel = h /\ <<d, x>> # <<c, e>>

Owns(c, e, h) == leg[c][e].channel = h

-----------------------------------------------------------------------------
(* Transactions. *)

Create(c, s, T, state, conference) ==
    /\ call' = [call EXCEPT ![c] = [state |-> state, source |-> s,
                                    conference |-> conference, targets |-> T]]
    /\ leg' = [leg EXCEPT ![c] =
                 [e \in Extensions |-> IF e = s THEN NewLeg(TRUE)
                                       ELSE IF e \in T THEN NewLeg(FALSE)
                                       ELSE NoLeg]]

Initiate(c, s, e) == Create(c, s, {e}, "initiated", FALSE)

InitiateConference(c, s, T) == Create(c, s, T, "conference", TRUE)

BindChannel(c, e, h) ==
    /\ leg' = [leg EXCEPT ![c][e].channel = h]
    /\ UNCHANGED call

\* Mutant: StasisStart marks the call, and leaves the pointer to originate.
MarkCallConnected(c, e, h) ==
    /\ leg' = [leg EXCEPT ![c][e].connected = TRUE]
    /\ call' = [call EXCEPT ![c].state = "connected"]

\* Mutant: the UPDATE forgets the call's id.
MarkConnectedAnywhere(c, e, h) ==
    /\ leg' = [d \in Calls |-> IF leg[d][e].row
                               THEN [leg[d] EXCEPT ![e].channel = h, ![e].connected = TRUE]
                               ELSE leg[d]]
    /\ call' = [call EXCEPT ![c].state = "connected"]

\* mark_asterisk_leg(connected=True): also revives a call that is over.
MarkConnected(c, e, h) ==
    /\ leg' = [leg EXCEPT ![c][e].channel = h, ![c][e].connected = TRUE]
    /\ call' = [call EXCEPT ![c].state = "connected"]

\* mark_asterisk_leg(connected=False): a late reply loses to a disconnect.
MarkRinging(c, e, h) ==
    IF leg[c][e].gone THEN UNCHANGED storeVars
    ELSE /\ leg' = [leg EXCEPT ![c][e].channel = h]
         /\ call' = [call EXCEPT ![c].state =
                       IF @ = "initiated" THEN "ringing" ELSE @]

Fail(c) ==
    /\ call' = [call EXCEPT ![c].state = "failed"]
    /\ UNCHANGED leg

Promote(c) ==
    /\ call' = [call EXCEPT ![c].conference = TRUE]
    /\ UNCHANGED leg

AddParticipant(c, e) ==
    IF leg[c][e].row
    THEN /\ leg' = [leg EXCEPT ![c][e].gone = FALSE]
         /\ UNCHANGED call
    ELSE /\ leg' = [leg EXCEPT ![c][e] = NewLeg(FALSE)]
         /\ call' = [call EXCEPT ![c].targets = @ \cup {e}]

RemoveParticipant(c, e) ==
    /\ leg' = [leg EXCEPT ![c][e].gone = TRUE]
    /\ UNCHANGED call

\* The stale pointer of a leg about to be rung again is cleared.
Reopen(c, e) ==
    /\ leg' = [leg EXCEPT ![c][e].channel = None, ![c][e].gone = FALSE]
    /\ UNCHANGED call

\* Mutant: the event's own word for the state is stored.
RawState(c, e, state) ==
    /\ call' = [call EXCEPT ![c].state = state]
    /\ UNCHANGED leg

\* ChannelStateChange of the channel of leg (c, e).
LegState(c, e, state) ==
    \/ /\ state = "Ringing"
       /\ call' = [call EXCEPT ![c].state = "ringing"]
       /\ UNCHANGED leg
    \/ /\ state = "Up"
       /\ call' = [call EXCEPT ![c].state = "connected"]
       /\ leg' = [leg EXCEPT ![c][e].connected = TRUE]

\* Mutant: the end of any leg ends the call.
EndLegEndsCall(c, e) ==
    /\ leg' = [leg EXCEPT ![c][e].channel = None, ![c][e].gone = TRUE]
    /\ call' = [call EXCEPT ![c].state = "ended"]

\* StasisEnd of the channel of leg (c, e): the station leg of an individual
\* call, or the last counting station leg of any call, ends the call.
EndLeg(c, e) ==
    /\ leg' = [leg EXCEPT ![c][e].channel = None, ![c][e].gone = TRUE]
    /\ IF \/ ~call[c].conference /\ e \in Stations
          \/ \A x \in Stations \ {e} : ~Counts(leg[c][x])
       THEN call' = [call EXCEPT ![c].state = "ended"]
       ELSE UNCHANGED call

\* An orphaned call is retired together with all of its legs.
Retire(c) ==
    IF call[c].state \in Over THEN UNCHANGED storeVars
    ELSE /\ call' = [call EXCEPT ![c].state = "ended"]
         /\ leg' = [leg EXCEPT ![c] =
                      [e \in Extensions |->
                         IF leg[c][e].row /\ ~leg[c][e].gone
                         THEN [leg[c][e] EXCEPT !.gone = TRUE, !.channel = None]
                         ELSE leg[c][e]]]
=============================================================================
