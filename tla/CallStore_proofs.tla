-------------------------- MODULE CallStore_proofs --------------------------
(***************************************************************************)
(* Every transaction of CallStore keeps StoreTypeOK.                       *)
(***************************************************************************)
EXTENDS CallStore, TLAPS

LEMMA CreateTypes ==
    ASSUME StoreTypeOK, NEW c, NEW s \in Controllers, NEW T \in SUBSET Stations,
           NEW state \in CallStates, NEW conference \in BOOLEAN,
           Create(c, s, T, state, conference)
    PROVE  StoreTypeOK'
<1>1. \A up \in BOOLEAN : NewLeg(up) \in LegRow
  BY DEF NewLeg, NoLeg, LegRow, Maybe
<1>2. [state |-> state, source |-> s, conference |-> conference, targets |-> T]
        \in CallRow
  BY DEF CallRow, Maybe
<1>3. NoLeg \in LegRow
  BY DEF NoLeg, LegRow, Maybe
<1> QED
  BY <1>1, <1>2, <1>3 DEF Create, StoreTypeOK

LEMMA LegTypes ==
    ASSUME NEW F \in [Calls -> [Extensions -> LegRow]],
           NEW c, NEW e, NEW l, e \in Extensions /\ c \in Calls => l \in LegRow
    PROVE  [F EXCEPT ![c] = [F[c] EXCEPT ![e] = l]]
             \in [Calls -> [Extensions -> LegRow]]
<1>1. c \in Calls => [F[c] EXCEPT ![e] = l] \in [Extensions -> LegRow]
  OBVIOUS
<1> QED
  BY <1>1

LEMMA RowUpdates ==
    \A l \in LegRow :
        /\ [l EXCEPT !.gone = FALSE] \in LegRow
        /\ [l EXCEPT !.gone = TRUE] \in LegRow
        /\ [l EXCEPT !.connected = TRUE] \in LegRow
        /\ [l EXCEPT !.channel = None, !.gone = TRUE] \in LegRow
        /\ [l EXCEPT !.channel = None, !.gone = FALSE] \in LegRow
        /\ [l EXCEPT !.gone = TRUE, !.channel = None] \in LegRow
        /\ \A h \in Maybe(Channels) :
              [l EXCEPT !.channel = h, !.connected = TRUE] \in LegRow
BY DEF LegRow, Maybe

LEMMA LegsTyped ==
    ASSUME StoreTypeOK, NEW c \in Calls, NEW e \in Extensions
    PROVE  leg[c][e] \in LegRow
BY DEF StoreTypeOK

LEMMA BindTypes ==
    ASSUME StoreTypeOK, NEW c, NEW e, NEW h \in Maybe(Channels),
           BindChannel(c, e, h)
    PROVE  StoreTypeOK'
<1> DEFINE l == [leg[c][e] EXCEPT !.channel = h]
<1>1. e \in Extensions /\ c \in Calls => l \in LegRow
  BY LegsTyped DEF LegRow
<1>2. leg' = [leg EXCEPT ![c] = [leg[c] EXCEPT ![e] = l]]
  BY DEF BindChannel
<1>3. leg' \in [Calls -> [Extensions -> LegRow]]
  <2> HIDE DEF l
  <2> QED
    BY <1>1, <1>2, LegTypes DEF StoreTypeOK
<1> QED
  BY <1>3 DEF StoreTypeOK, BindChannel


LEMMA CallStateTypes ==
    ASSUME StoreTypeOK, NEW c, NEW x \in CallStates,
           call' = [call EXCEPT ![c].state = x]
    PROVE  call' \in [Calls -> CallRow]
<1> DEFINE row == [call[c] EXCEPT !.state = x]
<1>1. c \in Calls => row \in CallRow
  BY DEF StoreTypeOK, CallRow
<1>2. call' = [call EXCEPT ![c] = row]
  OBVIOUS
<1> HIDE DEF row
<1> QED
  BY <1>1, <1>2 DEF StoreTypeOK

LEMMA MarkConnectedTypes ==
    ASSUME StoreTypeOK, NEW c \in Calls, NEW e, NEW h \in Maybe(Channels),
           MarkConnected(c, e, h)
    PROVE  StoreTypeOK'
<1> DEFINE l == [leg[c][e] EXCEPT !.channel = h, !.connected = TRUE]
<1>1. e \in Extensions => l \in LegRow
  BY RowUpdates, LegsTyped
<1>2. leg' = [leg EXCEPT ![c] = [leg[c] EXCEPT ![e] = l]]
  BY DEF MarkConnected, StoreTypeOK, LegRow
<1>3. leg' \in [Calls -> [Extensions -> LegRow]]
  <2> HIDE DEF l
  <2> QED
    BY <1>1, <1>2, LegTypes DEF StoreTypeOK
<1>4. call' \in [Calls -> CallRow]
  BY CallStateTypes DEF MarkConnected, CallStates
<1> QED
  BY <1>3, <1>4 DEF StoreTypeOK

LEMMA MarkRingingTypes ==
    ASSUME StoreTypeOK, NEW c \in Calls, NEW e, NEW h \in Maybe(Channels),
           MarkRinging(c, e, h)
    PROVE  StoreTypeOK'
<1>1. CASE leg[c][e].gone
  BY <1>1 DEF MarkRinging, StoreTypeOK, storeVars
<1>2. CASE ~leg[c][e].gone
  <2> DEFINE l == [leg[c][e] EXCEPT !.channel = h]
             x == IF call[c].state = "initiated" THEN "ringing" ELSE call[c].state
  <2>1. e \in Extensions => l \in LegRow
    BY LegsTyped DEF LegRow
  <2>2. leg' = [leg EXCEPT ![c] = [leg[c] EXCEPT ![e] = l]]
    BY <1>2 DEF MarkRinging
  <2>3. leg' \in [Calls -> [Extensions -> LegRow]]
    <3> HIDE DEF l
    <3> QED
      BY <2>1, <2>2, LegTypes DEF StoreTypeOK
  <2>4. x \in CallStates
    BY DEF StoreTypeOK, CallRow, CallStates
  <2>5. call' = [call EXCEPT ![c].state = x]
    BY <1>2 DEF MarkRinging
  <2>6. call' \in [Calls -> CallRow]
    <3> HIDE DEF x
    <3> QED
      BY <2>4, <2>5, CallStateTypes
  <2> QED
    BY <2>3, <2>6 DEF StoreTypeOK
<1> QED
  BY <1>1, <1>2

LEMMA FailTypes ==
    ASSUME StoreTypeOK, NEW c, Fail(c)
    PROVE  StoreTypeOK'
<1>1. call' \in [Calls -> CallRow]
  BY CallStateTypes DEF Fail, CallStates, Over
<1> QED
  BY <1>1 DEF Fail, StoreTypeOK

LEMMA PromoteTypes ==
    ASSUME StoreTypeOK, NEW c, Promote(c)
    PROVE  StoreTypeOK'
<1> DEFINE row == [call[c] EXCEPT !.conference = TRUE]
<1>1. c \in Calls => row \in CallRow
  BY DEF StoreTypeOK, CallRow
<1>2. call' = [call EXCEPT ![c] = row]
  BY DEF Promote
<1>3. call' \in [Calls -> CallRow]
  <2> HIDE DEF row
  <2> QED
    BY <1>1, <1>2 DEF StoreTypeOK
<1> QED
  BY <1>3 DEF StoreTypeOK, Promote

LEMMA AddParticipantTypes ==
    ASSUME StoreTypeOK, NEW c \in Calls, NEW e \in Stations, AddParticipant(c, e)
    PROVE  StoreTypeOK'
<1>1. CASE leg[c][e].row
  <2> DEFINE l == [leg[c][e] EXCEPT !.gone = FALSE]
  <2>1. l \in LegRow
    BY RowUpdates, LegsTyped DEF Extensions
  <2>2. leg' = [leg EXCEPT ![c] = [leg[c] EXCEPT ![e] = l]]
    BY <1>1 DEF AddParticipant
  <2>3. leg' \in [Calls -> [Extensions -> LegRow]]
    <3> HIDE DEF l
    <3> QED
      BY <2>1, <2>2, LegTypes DEF StoreTypeOK
  <2> QED
    BY <1>1, <2>3 DEF AddParticipant, StoreTypeOK
<1>2. CASE ~leg[c][e].row
  <2> DEFINE row == [call[c] EXCEPT !.targets = call[c].targets \cup {e}]
  <2>1. NewLeg(FALSE) \in LegRow
    BY DEF NewLeg, NoLeg, LegRow, Maybe
  <2>2. leg' = [leg EXCEPT ![c] = [leg[c] EXCEPT ![e] = NewLeg(FALSE)]]
    BY <1>2 DEF AddParticipant
  <2>3. leg' \in [Calls -> [Extensions -> LegRow]]
    BY <2>1, <2>2, LegTypes DEF StoreTypeOK
  <2>4. row \in CallRow
    BY DEF StoreTypeOK, CallRow
  <2>5. call' = [call EXCEPT ![c] = row]
    BY <1>2 DEF AddParticipant
  <2>6. call' \in [Calls -> CallRow]
    <3> HIDE DEF row
    <3> QED
      BY <2>4, <2>5 DEF StoreTypeOK
  <2> QED
    BY <2>3, <2>6 DEF StoreTypeOK
<1> QED
  BY <1>1, <1>2

LEMMA RemoveParticipantTypes ==
    ASSUME StoreTypeOK, NEW c, NEW e, RemoveParticipant(c, e)
    PROVE  StoreTypeOK'
<1> DEFINE l == [leg[c][e] EXCEPT !.gone = TRUE]
<1>1. e \in Extensions /\ c \in Calls => l \in LegRow
  BY RowUpdates, LegsTyped
<1>2. leg' = [leg EXCEPT ![c] = [leg[c] EXCEPT ![e] = l]]
  BY DEF RemoveParticipant
<1>3. leg' \in [Calls -> [Extensions -> LegRow]]
  <2> HIDE DEF l
  <2> QED
    BY <1>1, <1>2, LegTypes DEF StoreTypeOK
<1> QED
  BY <1>3 DEF StoreTypeOK, RemoveParticipant

LEMMA ReopenTypes ==
    ASSUME StoreTypeOK, NEW c, NEW e, Reopen(c, e)
    PROVE  StoreTypeOK'
<1> DEFINE l == [leg[c][e] EXCEPT !.channel = None, !.gone = FALSE]
<1>1. e \in Extensions /\ c \in Calls => l \in LegRow
  BY RowUpdates, LegsTyped
<1>2. leg' = [leg EXCEPT ![c] = [leg[c] EXCEPT ![e] = l]]
  BY DEF Reopen, StoreTypeOK, LegRow
<1>3. leg' \in [Calls -> [Extensions -> LegRow]]
  <2> HIDE DEF l
  <2> QED
    BY <1>1, <1>2, LegTypes DEF StoreTypeOK
<1> QED
  BY <1>3 DEF StoreTypeOK, Reopen

LEMMA LegStateTypes ==
    ASSUME StoreTypeOK, NEW c, NEW e, NEW state, LegState(c, e, state)
    PROVE  StoreTypeOK'
<1>1. call' \in [Calls -> CallRow]
  BY CallStateTypes DEF LegState, CallStates
<1>2. CASE UNCHANGED leg
  BY <1>1, <1>2 DEF StoreTypeOK
<1>3. CASE leg' = [leg EXCEPT ![c][e].connected = TRUE]
  <2> DEFINE l == [leg[c][e] EXCEPT !.connected = TRUE]
  <2>1. e \in Extensions /\ c \in Calls => l \in LegRow
    BY RowUpdates, LegsTyped
  <2>2. leg' = [leg EXCEPT ![c] = [leg[c] EXCEPT ![e] = l]]
    BY <1>3
  <2>3. leg' \in [Calls -> [Extensions -> LegRow]]
    <3> HIDE DEF l
    <3> QED
      BY <2>1, <2>2, LegTypes DEF StoreTypeOK
  <2> QED
    BY <1>1, <2>3 DEF StoreTypeOK
<1> QED
  BY <1>2, <1>3 DEF LegState

LEMMA EndLegTypes ==
    ASSUME StoreTypeOK, NEW c, NEW e, EndLeg(c, e)
    PROVE  StoreTypeOK'
<1> DEFINE l == [leg[c][e] EXCEPT !.channel = None, !.gone = TRUE]
<1>1. e \in Extensions /\ c \in Calls => l \in LegRow
  BY RowUpdates, LegsTyped
<1>2. leg' = [leg EXCEPT ![c] = [leg[c] EXCEPT ![e] = l]]
  BY DEF EndLeg, StoreTypeOK, LegRow
<1>3. leg' \in [Calls -> [Extensions -> LegRow]]
  <2> HIDE DEF l
  <2> QED
    BY <1>1, <1>2, LegTypes DEF StoreTypeOK
<1>4. call' \in [Calls -> CallRow]
  <2>1. call' = call \/ call' = [call EXCEPT ![c].state = "ended"]
    BY DEF EndLeg
  <2> QED
    BY <2>1, CallStateTypes DEF CallStates, Over, StoreTypeOK
<1> QED
  BY <1>3, <1>4 DEF StoreTypeOK

LEMMA RetireTypes ==
    ASSUME StoreTypeOK, NEW c, Retire(c)
    PROVE  StoreTypeOK'
<1>1. CASE call[c].state \in Over
  BY <1>1 DEF Retire, StoreTypeOK, storeVars
<1>2. CASE call[c].state \notin Over
  <2>1. call' \in [Calls -> CallRow]
    BY <1>2, CallStateTypes DEF Retire, CallStates, Over
  <2> DEFINE l(e) == IF leg[c][e].row /\ ~leg[c][e].gone
                     THEN [leg[c][e] EXCEPT !.gone = TRUE, !.channel = None]
                     ELSE leg[c][e]
  <2>2. c \in Calls => \A e \in Extensions : l(e) \in LegRow
    BY RowUpdates, LegsTyped
  <2>3. leg' = [leg EXCEPT ![c] = [e \in Extensions |-> l(e)]]
    BY <1>2 DEF Retire
  <2>4. leg' \in [Calls -> [Extensions -> LegRow]]
    <3> HIDE DEF l
    <3> QED
      BY <2>2, <2>3 DEF StoreTypeOK
  <2> QED
    BY <2>1, <2>4 DEF StoreTypeOK
<1> QED
  BY <1>1, <1>2
=============================================================================
