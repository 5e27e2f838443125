--------------------------- MODULE FailoverProofs ---------------------------
(***************************************************************************)
(* The latch on structured output, for any number of sessions, gateways    *)
(* and attempts: what takes it off, and that every session obeys it.       *)
(***************************************************************************)
EXTENDS MCService, TLAPS

\* What a gateway does with response_format does not change, and the latch is
\* one bit for each of them.
LatchType == kind \in [Gateways -> Kinds] /\ structured \in [Gateways -> BOOLEAN]

\* The row of an operation that is under way.
Fields == {"at", "first", "sent", "attempt", "retry", "waited", "spent", "faultless"}
Row(r) == r = [f \in Fields |-> r[f]]

\* A session is in no operation or in one with its row.
CallType ==
    /\ call = [s \in Sessions |-> call[s]]
    /\ \A s \in Sessions : call[s] = NoCall \/ Row(call[s])

IInv == LatchType /\ LatchOnEvidence /\ CallType

(***************************************************************************)
(* What takes the latch off                                                *)
(***************************************************************************)

\* The latch stays, or it falls for a gateway that gave cause.
LatchSteps ==
    \/ UNCHANGED <<kind, structured>>
    \/ \E g \in Gateways : kind[g] # "strict" /\ Latch(g)

LEMMA LatchStepKeeps ==
    ASSUME LatchType, LatchOnEvidence, LatchSteps PROVE LatchType' /\ LatchOnEvidence'
BY DEF LatchType, LatchOnEvidence, LatchSteps, Latch

\* Of the answers, an off-schema body and a rejection move the latch, an
\* empty body and an outage do not.
LEMMA RespondSteps ==
    ASSUME NEW s \in Sessions, Respond(s) PROVE LatchSteps
<1>1. PICK g \in Gateways :
        Valid(s, g) \/ OffSchema(s, g) \/ Empty(s, g) \/ Rejected(s, g) \/ Unreachable(s, g)
            \/ Refused(s, g)
  BY DEF Respond
<1>2. CASE Valid(s, g)
  BY <1>2 DEF Valid, Keep, LatchSteps
<1>3. CASE OffSchema(s, g)
  <2>1. kind[g] # "strict" /\ (Latch(g) \/ Keep)
    BY <1>3 DEF OffSchema
  <2> QED BY <2>1 DEF Keep, LatchSteps
<1>4. CASE Empty(s, g)
  BY <1>4 DEF Empty, EmptyIsEvidence, Keep, LatchSteps
<1>5. CASE Rejected(s, g)
  <2>1. kind[g] # "strict" /\ (Latch(g) \/ Keep)
    BY <1>5 DEF Rejected, Unlatched
  <2> QED BY <2>1 DEF Keep, LatchSteps
<1>6. CASE Unreachable(s, g)
  BY <1>6 DEF Unreachable, Keep, LatchSteps
<1>7. CASE Refused(s, g)
  BY <1>7 DEF Refused, Keep, LatchSteps
<1> QED BY <1>1, <1>2, <1>3, <1>4, <1>5, <1>6, <1>7

LEMMA NextSteps ==
    ASSUME [Next]_vars PROVE LatchSteps
<1>1. CASE \E s \in Sessions : Begin(s)
  BY <1>1 DEF Begin, LatchSteps
<1>2. CASE \E s \in Sessions : Respond(s)
  BY <1>2, RespondSteps
<1>3. CASE \E s \in Sessions : Cancel(s)
  BY <1>3 DEF Cancel, LatchSteps
<1>4. CASE \E g \in Gateways : Turn(g)
  BY <1>4 DEF Turn, LatchSteps
<1>5. CASE \E g \in Gateways : Elsewhere(g)
  BY <1>5 DEF Elsewhere, LatchSteps
<1>6. CASE Tick
  BY <1>6 DEF Tick, LatchSteps
<1>7. CASE UNCHANGED vars
  BY <1>7 DEF vars, LatchSteps
<1> QED BY <1>1, <1>2, <1>3, <1>4, <1>5, <1>6, <1>7 DEF Next

(***************************************************************************)
(* How it is obeyed                                                        *)
(***************************************************************************)

Obedience == \A s \in Sessions, g \in Gateways : Obeyed(s, g)

\* The request of s goes on as it was sent.
GoesOn(s, row) ==
    /\ Row(row) /\ row.at = call[s].at
    /\ row.sent = call[s].sent /\ row.attempt = call[s].attempt

\* It ends, is sent as the latch now says, or goes on.
Follows(s, row) ==
    row = NoCall \/ (Row(row) /\ row.sent = structured'[row.at]) \/ GoesOn(s, row)

\* A row with fields changed is a row.
LEMMA ChangedRow ==
    ASSUME NEW r, Row(r), NEW attempt, NEW sent, NEW retry, NEW waited, NEW spent, NEW faultless
    PROVE  /\ Row([r EXCEPT !.attempt = attempt, !.sent = sent, !.retry = retry, !.waited = waited])
           /\ Row([r EXCEPT !.sent = sent, !.retry = retry, !.waited = waited])
           /\ Row([r EXCEPT !.retry = retry, !.waited = waited])
           /\ Row([r EXCEPT !.waited = waited, !.spent = spent])
           /\ Row([r EXCEPT !.faultless = faultless])
BY DEF Row, Fields

LEMMA FollowersObey ==
    ASSUME NEW s \in Sessions, NEW row, Follows(s, row), CallType,
           call' = [call EXCEPT ![s] = row]
    PROVE  CallType' /\ Obedience
<1>1. call'[s] = row /\ \A t \in Sessions : t # s => call'[t] = call[t]
  BY DEF CallType
<1>2. CallType'
  BY <1>1 DEF CallType, Follows, GoesOn
<1>3. ASSUME NEW t \in Sessions, NEW g \in Gateways PROVE Obeyed(t, g)
  <2>1. CASE t # s
    BY <1>1, <2>1 DEF Obeyed, At
  <2>2. CASE t = s /\ row = NoCall
    BY <1>1, <2>2 DEF Obeyed, At, NoCall
  <2>3. CASE t = s /\ row.sent = structured'[row.at]
    BY <1>1, <2>3 DEF Obeyed, At
  <2>4. CASE t = s /\ GoesOn(s, row)
    BY <1>1, <2>4 DEF Obeyed, At, GoesOn
  <2> QED BY <2>1, <2>2, <2>3, <2>4 DEF Follows
<1> QED BY <1>2, <1>3 DEF Obedience

LEMMA AllGoOnObeys ==
    ASSUME CallType, call' = [s \in Sessions |-> call'[s]],
           \A s \in Sessions : call'[s] = call[s] \/ GoesOn(s, call'[s])
    PROVE  CallType' /\ Obedience
<1>1. CallType'
  BY DEF CallType, GoesOn
<1>2. ASSUME NEW s \in Sessions, NEW g \in Gateways PROVE Obeyed(s, g)
  BY DEF Obeyed, At, GoesOn
<1> QED BY <1>1, <1>2 DEF Obedience

LEMMA SentFollows ==
    ASSUME NEW s \in Sessions, NEW g, NEW first, NEW spent, NEW faultless
    PROVE  Follows(s, Sent(structured', g, first, spent, faultless))
BY DEF Follows, Sent, Row, Fields

LEMMA FailedObeys ==
    ASSUME NEW s \in Sessions, Failed(s), CallType PROVE CallType' /\ Obedience
<1>1. PICK h, f : call' = [call EXCEPT ![s] = Sent(structured', h, FALSE, call[s].spent, f)]
  BY DEF Failed
<1> QED BY <1>1, SentFollows, FollowersObey

LEMMA ReaskedObeys ==
    ASSUME NEW s \in Sessions, NEW g \in Gateways, At(s, g), Reasked(s, g), CallType
    PROVE  CallType' /\ Obedience
<1>1. CASE Failed(s)
  BY <1>1, FailedObeys
<1>2. CASE Resent(s, [call[s] EXCEPT !.attempt = @ + 1, !.sent = structured'[g],
                                     !.retry = 0, !.waited = 0])
  <2> DEFINE row == [call[s] EXCEPT !.attempt = @ + 1, !.sent = structured'[g],
                                    !.retry = 0, !.waited = 0]
  <2>1. Row(call[s]) /\ call[s].at = g
    BY DEF CallType, At, NoCall
  <2>2. Row(row) /\ row.at = g /\ row.sent = structured'[g]
    BY <2>1, ChangedRow DEF Row, Fields
  <2> QED BY <1>2, <2>2, FollowersObey DEF Resent, Follows
<1> QED BY <1>1, <1>2 DEF Reasked

LEMMA RejectedObeys ==
    ASSUME NEW s \in Sessions, NEW g \in Gateways, Rejected(s, g), CallType
    PROVE  CallType' /\ Obedience
<1> DEFINE row == [call[s] EXCEPT !.sent = structured'[g], !.retry = 0, !.waited = 0]
<1>1. Failed(s) \/ Resent(s, row)
  BY DEF Rejected
<1>2. CASE Failed(s)
  BY <1>2, FailedObeys
<1>3. CASE Resent(s, row)
  <2>1. Row(call[s]) /\ call[s].at = g
    BY DEF Rejected, CallType, At, NoCall
  <2>2. Row(row) /\ row.at = g /\ row.sent = structured'[g]
    BY <2>1, ChangedRow DEF Row, Fields
  <2> QED BY <1>3, <2>2, FollowersObey DEF Resent, Follows
<1> QED BY <1>1, <1>2, <1>3

LEMMA UnreachableObeys ==
    ASSUME NEW s \in Sessions, NEW g \in Gateways, Unreachable(s, g), CallType
    PROVE  CallType' /\ Obedience
<1> DEFINE row == [call[s] EXCEPT !.retry = @ + 1, !.waited = 0]
<1>1. Failed(s) \/ Resent(s, row)
  BY DEF Unreachable
<1>2. CASE Failed(s)
  BY <1>2, FailedObeys
<1>3. CASE Resent(s, row)
  <2>1. Row(call[s])
    BY DEF Unreachable, CallType, At, NoCall
  <2>2. GoesOn(s, row)
    BY <2>1, ChangedRow DEF Row, Fields, GoesOn
  <2> QED BY <1>3, <2>2, FollowersObey DEF Resent, Follows
<1> QED BY <1>1, <1>2, <1>3

LEMMA RespondObeys ==
    ASSUME NEW s \in Sessions, Respond(s), CallType PROVE CallType' /\ Obedience
<1>1. PICK g \in Gateways :
        Valid(s, g) \/ OffSchema(s, g) \/ Empty(s, g) \/ Rejected(s, g) \/ Unreachable(s, g)
            \/ Refused(s, g)
  BY DEF Respond
<1>2. CASE Valid(s, g)
  BY <1>2, FollowersObey DEF Valid, Answered, Follows
<1>3. CASE OffSchema(s, g)
  BY <1>3, ReaskedObeys DEF OffSchema
<1>4. CASE Empty(s, g)
  BY <1>4, ReaskedObeys DEF Empty
<1>5. CASE Rejected(s, g)
  BY <1>5, RejectedObeys
<1>6. CASE Unreachable(s, g)
  BY <1>6, UnreachableObeys
<1>7. CASE Refused(s, g)
  BY <1>7, FailedObeys DEF Refused
<1> QED BY <1>1, <1>2, <1>3, <1>4, <1>5, <1>6, <1>7

LEMMA NextObeys ==
    ASSUME [Next]_vars, CallType PROVE CallType' /\ Obedience
<1> USE DEF CallType
<1>1. ASSUME NEW s \in Sessions, Begin(s) PROVE CallType' /\ Obedience
  <2>1. PICK g, f : call' = [call EXCEPT ![s] = Sent(structured', g, TRUE, 0, f)]
    BY <1>1 DEF Begin
  <2> QED BY <2>1, SentFollows, FollowersObey
<1>2. CASE \E s \in Sessions : Respond(s)
  BY <1>2, RespondObeys
<1>3. CASE \E s \in Sessions : Cancel(s)
  BY <1>3, FollowersObey DEF Cancel, Follows
<1>4. ASSUME NEW g \in Gateways, Turn(g) PROVE CallType' /\ Obedience
  <2>1. call' = [s \in Sessions |->
          IF At(s, g) THEN [call[s] EXCEPT !.faultless = FALSE] ELSE call[s]]
    BY <1>4 DEF Turn
  <2>2. ASSUME NEW s \in Sessions PROVE call'[s] = call[s] \/ GoesOn(s, call'[s])
    <3>1. CASE ~At(s, g)
      BY <2>1, <3>1
    <3>2. CASE At(s, g)
      <4>1. Row(call[s])
        BY <3>2 DEF At, NoCall
      <4>2. call'[s] = [call[s] EXCEPT !.faultless = FALSE]
        BY <2>1, <3>2
      <4> QED BY <4>1, <4>2, ChangedRow DEF Row, Fields, GoesOn
    <3> QED BY <3>1, <3>2
  <2> QED BY <2>1, <2>2, AllGoOnObeys
<1>5. CASE \E g \in Gateways : Elsewhere(g)
  BY <1>5, AllGoOnObeys DEF Elsewhere
<1>6. CASE Tick
  <2>1. call' = [s \in Sessions |->
          IF ~Calling(s) THEN call[s]
          ELSE [call[s] EXCEPT !.waited = @ + 1, !.spent = IF @ > Deadline THEN @ ELSE @ + 1]]
    BY <1>6 DEF Tick
  <2>2. ASSUME NEW s \in Sessions PROVE call'[s] = call[s] \/ GoesOn(s, call'[s])
    <3>1. CASE ~Calling(s)
      BY <2>1, <3>1
    <3>2. CASE Calling(s)
      <4>1. Row(call[s])
        BY <3>2 DEF Calling, NoCall
      <4>2. PICK waited, spent :
              call'[s] = [call[s] EXCEPT !.waited = waited, !.spent = spent]
        BY <2>1, <3>2
      <4> QED BY <4>1, <4>2, ChangedRow DEF Row, Fields, GoesOn
    <3> QED BY <3>1, <3>2
  <2> QED BY <2>1, <2>2, AllGoOnObeys
<1>7. CASE UNCHANGED vars
  BY <1>7, AllGoOnObeys DEF vars
<1> QED BY <1>1, <1>2, <1>3, <1>4, <1>5, <1>6, <1>7 DEF Next

(***************************************************************************)
(* Theorems                                                                *)
(***************************************************************************)

LEMMA InitEstablishes == Init => IInv
BY DEF Init, Supported, Honouring, IInv, LatchType, LatchOnEvidence, CallType

LEMMA NextKeeps ==
    ASSUME IInv, [Next]_vars PROVE IInv' /\ Obedience
<1>1. LatchType' /\ LatchOnEvidence'
  BY NextSteps, LatchStepKeeps DEF IInv
<1>2. CallType' /\ Obedience
  BY NextObeys DEF IInv
<1> QED BY <1>1, <1>2 DEF IInv

\* openai_compatible_ai_service.py: the latch of a gateway that answers neither
\* 400 nor with a body that does not fit is never taken off, whatever its outages
\* and its empty answers; and once any gateway's is off, however it came to be,
\* no attempt that begins asks it for structured output.
THEOREM SpecLatchStands == Spec => []LatchOnEvidence /\ LatchIsObeyed
<1>1. Init => IInv
  BY InitEstablishes
<1>2. IInv /\ [Next]_vars => IInv' /\ [Obedience]_vars
  BY NextKeeps
<1>3. IInv => LatchOnEvidence
  BY DEF IInv
<1> QED BY <1>1, <1>2, <1>3, PTL DEF Spec, LatchIsObeyed, Obedience

\* The same for the service, whose other parts call no gateway.
THEOREM ServiceLatchStands == MCSpec => LatchStands
<1>1. MCInit => IInv
  BY InitEstablishes DEF MCInit
<1>2. [MCNext]_allVars => [Next]_vars
  BY DEF MCNext, allVars
<1>3. IInv /\ [MCNext]_allVars => IInv' /\ [Obedience]_vars
  BY <1>2, NextKeeps
<1>4. IInv => LatchOnEvidence
  BY DEF IInv
<1> QED BY <1>1, <1>3, <1>4, PTL DEF MCSpec, LatchStands, LatchIsObeyed, Obedience
=============================================================================
