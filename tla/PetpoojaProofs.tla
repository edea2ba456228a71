--------------------------- MODULE PetpoojaProofs ---------------------------
(***************************************************************************)
(* What is exchanged with the POS, for any number of callers, workers,     *)
(* callbacks, outlets, orders and items.  The kitchen ticket (KotPush):    *)
(* one per order as long as no answer of the POS is lost (LostAnswers) and *)
(* until a push takes over the lease of a dead one (takenOver).  The       *)
(* callbacks (PosCallback) against everything else that moves the order.   *)
(* The catalogue: no product is retired on the word of a short feed, and   *)
(* no stock callback is answered before it is kept.                        *)
(***************************************************************************)
EXTENDS PosCallback, Catalogue, FiniteSetTheorems, TLAPS

-----------------------------------------------------------------------------
(* The callbacks.                                                          *)

CallShape == call = [h \in Handler |-> call[h]]

(* The event a marker remembers was applied: if it was an end, the order   *)
(* has ended.                                                              *)
MarkedEnds == lastEvent \in {"delivered", "cancelled"} => Ended

CancelIsAsked == orderStatus = "CANCELLED" => request # "none" \/ refunded

CallbackInv == /\ CallShape /\ MarkedEnds /\ CancelIsAsked
        /\ NoEndIsLost /\ OutletsApart

USE DEF Ended, Terminal, Ending

LEMMA CallbackInitInv == CallbackInit => CallbackInv
BY CallbackAssumption DEF CallbackInit, CallbackInv, CallShape, MarkedEnds, CancelIsAsked,
    NoEndIsLost, OutletsApart

(* The normalisation tells the two ends from everything else.              *)
LEMMA EndsAreEnds == ASSUME NEW e
                     PROVE  /\ e = "delivered" => Canonical(e) = "DELIVERED"
                            /\ e = "cancelled" <=> Canonical(e) = "CANCELLED"
BY DEF Canonical

(* A callback that is resolved names the order's own outlet, or is the     *)
(* legacy client with credentials.                                         *)
LEMMA ResolutionStaysHome ==
    ASSUME NEW s, NEW scoped \in {LinkedTo[s.rest], None},
           By(s, scoped) # "nobody", MaySteer(s, scoped)
    PROVE  \/ LinkedTo[s.rest] = OrderBranch[Focus]
           \/ s.rest = None /\ s.trusted /\ By(s, scoped) = "client-legacy"
<1>1. ~Contradicts(s, scoped)
  BY DEF By
<1>2. CASE s.rest = None
  <2>1. scoped = None
    BY <1>2, CallbackAssumption
  <2>2. s.trusted
    BY <2>1, CallbackAssumption DEF MaySteer
  <2>3. ~FoundByPos(s, scoped)
    BY <2>1, CallbackAssumption DEF FoundByPos
  <2>4. ClientRefs(s, scoped) = {Focus} => s.legacy = Focus
    BY <2>1 DEF ClientRefs
  <2> QED BY <1>1, <1>2, <2>2, <2>3, <2>4 DEF By
<1>3. CASE s.rest # None
  <2>1. scoped # None /\ scoped = LinkedTo[s.rest]
    BY <1>1, <1>3 DEF Contradicts
  <2>2. \/ Focus \in ClientRefs(s, scoped)
        \/ FoundByPos(s, scoped)
    BY <1>1, CallbackAssumption DEF By, ClientRefs
  <2>3. Focus \in ClientRefs(s, scoped) => OrderBranch[Focus] = scoped
    BY <1>1, <2>1 DEF Contradicts
  <2> QED BY <2>1, <2>2, <2>3 DEF FoundByPos
<1> QED BY <1>2, <1>3

(* The steps that touch nothing the invariant speaks of.                   *)
LEMMA QuietSteps ==
    ASSUME CallbackInv,
           UNCHANGED <<orderStatus, lastEvent, request, refunded, review,
                       unparked, call, answered>>
    PROVE  CallbackInv'
BY DEF CallbackInv, CallShape, MarkedEnds, CancelIsAsked, NoEndIsLost, OutletsApart

LEMMA CallbackNextInv == CallbackInv /\ [CallbackNext]_allVars => CallbackInv'
<1> SUFFICES ASSUME CallbackInv, [CallbackNext]_allVars PROVE CallbackInv'
  OBVIOUS
<1>0. CallShape /\ MarkedEnds /\ CancelIsAsked /\ NoEndIsLost /\ OutletsApart
  BY DEF CallbackInv
<1>1. ASSUME KotStep PROVE CallbackInv'
  BY <1>1, QuietSteps DEF KotStep
<1>2. ASSUME NEW e \in PosEvent, PosMoves(e) PROVE CallbackInv'
  BY <1>2, QuietSteps DEF PosMoves
<1>3. ASSUME NEW h \in Handler, Receive(h) PROVE CallbackInv'
  <2>1. PICK s \in Shape, e \in emitted :
          \E scoped \in {LinkedTo[s.rest], None} : Takes(h, s, scoped, e)
    BY <1>3 DEF Receive
  <2>2. PICK scoped \in {LinkedTo[s.rest], None} : Takes(h, s, scoped, e)
    BY <2>1
  <2>3. UNCHANGED <<orderStatus, lastEvent, request, refunded, review, unparked,
                    answered>>
    BY <1>3 DEF Receive
  <2>4. OutletsApart'
    BY <1>0, <2>2, ResolutionStaysHome DEF Takes, OutletsApart, CallShape
  <2>5. CallShape'
    BY <1>0, <2>2 DEF Takes, CallShape
  <2> QED BY <1>0, <2>3, <2>4, <2>5
      DEF CallbackInv, MarkedEnds, CancelIsAsked, NoEndIsLost
<1>4. ASSUME NEW h \in Handler, ReceiveAndPark(h) PROVE CallbackInv'
  <2>1. /\ review' \/ unparked'
        /\ UNCHANGED <<orderStatus, lastEvent, request, refunded, call>>
    BY <1>4 DEF ReceiveAndPark, ParkForReview
  <2> QED BY <1>0, <2>1
      DEF CallbackInv, CallShape, MarkedEnds, CancelIsAsked, NoEndIsLost, OutletsApart
<1>5. ASSUME NEW h \in Handler,
             call' = [call EXCEPT ![h] = Idle]
      PROVE  CallShape' /\ OutletsApart'
  BY <1>0, <1>5 DEF CallShape, OutletsApart
<1>6. ASSUME NEW h \in Handler, Refuse(h) PROVE CallbackInv'
  <2>1. /\ review' \/ unparked'
        /\ UNCHANGED <<orderStatus, lastEvent, request, refunded>>
    BY <1>6 DEF Refuse, ParkForReview
  <2>2. call' = [call EXCEPT ![h] = Idle]
    BY <1>6 DEF Refuse, Over
  <2> QED BY <1>0, <1>5, <2>1, <2>2
      DEF CallbackInv, MarkedEnds, CancelIsAsked, NoEndIsLost
<1>7. ASSUME NEW h \in Handler, Ignore(h) PROVE CallbackInv'
  <2>1. UNCHANGED <<orderStatus, lastEvent, request, refunded, review, unparked>>
    BY <1>7 DEF Ignore
  <2>2. /\ call' = [call EXCEPT ![h] = Idle]
        /\ answered' = answered \cup ({call[h].event} \cap Ending)
    BY <1>7 DEF Ignore, Over, Answer200
  <2>3. Ended \/ lastEvent = call[h].event
    BY <1>7 DEF Ignore, Plan, Replayed
  <2>4. NoEndIsLost'
    BY <1>0, <2>1, <2>2, <2>3 DEF NoEndIsLost, MarkedEnds
  <2> QED BY <1>0, <1>5, <2>1, <2>2, <2>4 DEF CallbackInv, MarkedEnds, CancelIsAsked
<1>8. ASSUME NEW h \in Handler, Apply(h) PROVE CallbackInv'
  <2> DEFINE e == call[h].event
  <2>1. /\ ~Ended
        /\ lastEvent' = e
        /\ orderStatus' = IF Canonical(e) = "unknown" THEN orderStatus
                          ELSE Canonical(e)
        /\ request' = IF AsksRefund(call[h]) THEN "PENDING" ELSE request
        /\ UNCHANGED <<refunded, review, unparked>>
    BY <1>8 DEF Apply, Plan
  <2>2. /\ call' = [call EXCEPT ![h] = Idle]
        /\ answered' = answered \cup ({e} \cap Ending)
    BY <1>8 DEF Apply, Over, Answer200
  <2>3. e \in {"delivered", "cancelled"} => Ended'
    BY <2>1, EndsAreEnds
  <2>4. MarkedEnds' /\ NoEndIsLost'
    BY <1>0, <2>1, <2>2, <2>3 DEF MarkedEnds, NoEndIsLost
  <2>5. orderStatus' = "CANCELLED" => Canonical(e) = "CANCELLED"
    BY <2>1
  <2>6. CancelIsAsked'
    BY <2>1, <2>5 DEF CancelIsAsked, AsksRefund
  <2> QED BY <1>5, <2>2, <2>4, <2>6 DEF CallbackInv
<1>9. ASSUME NEW h \in Handler, CallFails(h) PROVE CallbackInv'
  <2>1. /\ call' = [call EXCEPT ![h] = Idle]
        /\ UNCHANGED <<orderStatus, lastEvent, request, refunded, review,
                       unparked, answered>>
    BY <1>9 DEF CallFails
  <2> QED BY <1>0, <1>5, <2>1 DEF CallbackInv, MarkedEnds, CancelIsAsked, NoEndIsLost
<1>10. ASSUME MarkerAges \/ RiderDelivers \/ MoneyGoesBack PROVE CallbackInv'
  <2>1. UNCHANGED <<request, review, unparked, call, answered>>
    BY <1>10 DEF MarkerAges, RiderDelivers, MoneyGoesBack
  <2>2. MarkedEnds' /\ CancelIsAsked' /\ (Ended => Ended')
    BY <1>0, <1>10, CallbackAssumption
       DEF MarkerAges, RiderDelivers, MoneyGoesBack, MarkedEnds, CancelIsAsked
  <2> QED BY <1>0, <2>1, <2>2 DEF CallbackInv, CallShape, NoEndIsLost, OutletsApart
<1>11. ASSUME NEW m \in Staff, ReadRequest(m) \/ RejectRequest(m) PROVE CallbackInv'
  <2>1. /\ UNCHANGED <<orderStatus, lastEvent, refunded, review, unparked, call,
                       answered>>
        /\ request' \in {request, "REJECTED"}
    BY <1>11 DEF ReadRequest, RejectRequest
  <2> QED BY <1>0, <2>1
      DEF CallbackInv, CallShape, MarkedEnds, CancelIsAsked, NoEndIsLost, OutletsApart
<1>12. CASE UNCHANGED allVars
  BY <1>12, QuietSteps DEF allVars, callbackVars
<1> QED BY <1>1, <1>2, <1>3, <1>4, <1>6, <1>7, <1>8, <1>9, <1>10, <1>11, <1>12
    DEF CallbackNext

LEMMA CallbackInvIsInvariant == CallbackSpec => []CallbackInv
BY CallbackInitInv, CallbackNextInv, PTL DEF CallbackSpec

-----------------------------------------------------------------------------

(* Whatever the POS reports as delivered or cancelled, and is answered     *)
(* with success, has ended the order or was put before a person.           *)
THEOREM EndsAreHeard == CallbackSpec => []NoEndIsLost
<1>1. CallbackInv => NoEndIsLost
  BY DEF CallbackInv
<1> QED BY <1>1, CallbackInvIsInvariant, PTL

(* No callback of another outlet, or of one that is not linked, gets to    *)
(* the transaction on the order.                                           *)
THEOREM OutletsStayApart == CallbackSpec => []OutletsApart
<1>1. CallbackInv => OutletsApart
  BY DEF CallbackInv
<1> QED BY <1>1, CallbackInvIsInvariant, PTL

(* No callback, rider or member of staff takes an order out of its end.    *)
THEOREM EndsAreFinal == CallbackSpec => EndedStays
<1>1. [CallbackNext]_allVars => [Ended => orderStatus' = orderStatus]_allVars
  <2> SUFFICES ASSUME CallbackNext, Ended PROVE orderStatus' = orderStatus
    OBVIOUS
  <2> QED
    BY DEF CallbackNext, KotStep, PosMoves, Receive, ReceiveAndPark, Refuse, Ignore,
           Apply, Plan, CallFails, MarkerAges, RiderDelivers, MoneyGoesBack,
           ReadRequest, RejectRequest
<1> QED BY <1>1, PTL DEF CallbackSpec, EndedStays

(* A cancellation of the POS has the refund asked for, and a request that  *)
(* staff rejected is not opened again.                                     *)
THEOREM RefundIsAskedOnce == CallbackSpec => CancelAsksOnce
<1> DEFINE Step1 == /\ orderStatus' = "CANCELLED" => request' # "none" \/ refunded'
                    /\ request = "REJECTED" => request' = "REJECTED"
<1>1. CallbackInv /\ [CallbackNext]_allVars => [Step1]_allVars
  <2> SUFFICES ASSUME CallbackInv, CallbackNext PROVE Step1
    OBVIOUS
  <2>1. CancelIsAsked'
    BY CallbackNextInv DEF CallbackInv
  <2>2. request = "REJECTED" => request' = "REJECTED"
    BY DEF CallbackNext, KotStep, PosMoves, Receive, ReceiveAndPark, Refuse, Ignore,
           Apply, AsksRefund, CallFails, MarkerAges, RiderDelivers, MoneyGoesBack,
           ReadRequest, RejectRequest
  <2> QED BY <2>1, <2>2 DEF CancelIsAsked
<1> QED BY <1>1, CallbackInvIsInvariant, PTL DEF CallbackSpec, CancelAsksOnce

(* The acceptance of a ticket stands, whether the push or a callback       *)
(* recorded it, and the retry worker does not give such an order up.       *)
THEOREM AcceptanceSurvivesCallbacks == CallbackSpec => AcceptedIsKept
<1>1. [CallbackNext]_allVars => [accepted => accepted' /\ told' = told]_vars
  <2> SUFFICES ASSUME CallbackNext, accepted,
                      ~(UNCHANGED vars)
               PROVE  accepted' /\ told' = told
    BY DEF allVars
  <2>1. ASSUME KotStep PROVE accepted' /\ told' = told
    BY <2>1 DEF KotStep, ReadOrder, ClaimPush, SentAway, Post, Save, Fail,
           RecordFailure, Park, Kill, Scan, ClaimRetry, GiveBack, GiveUp,
           MayGiveUp, PushLeaseExpires, RetryLeaseExpires, ParkStale, docVars
  <2>2. ASSUME NEW h \in Handler, Apply(h) PROVE accepted' /\ told' = told
    BY <2>2 DEF Apply
  <2> QED
    BY <2>1, <2>2
       DEF CallbackNext, PosMoves, Receive, ReceiveAndPark, Refuse, Ignore,
           CallFails, MarkerAges, RiderDelivers, MoneyGoesBack, ReadRequest,
           RejectRequest
<1> QED BY <1>1, PTL DEF CallbackSpec, AcceptedIsKept

HIDE DEF Ended, Terminal, Ending

-----------------------------------------------------------------------------
(* The kitchen ticket.                                                     *)

(* An execution between its claim and its record holds the live lease, and *)
(* nobody else has moved the order on, except to give it up.               *)
WorkingHolds ==
    \A p \in Pusher : Working(p) =>
        /\ pushLease = p /\ ~pushStale
        /\ ~accepted /\ ~ambiguous
        /\ status \in {"processing", "failed"}

(* What an execution knows of its POST.                                    *)
AnswerFits ==
    \A p \in Pusher :
        /\ pc[p] = "saving" => answer[p] = "accepted"
        /\ pc[p] = "failing" => answer[p] # "none"
        /\ (/\ ~LostAnswers /\ ~takenOver
            /\ pc[p] = "posting" \/ (pc[p] = "failing" /\ answer[p] = "rejected"))
             => tickets = 0

ParkedIsParked == ambiguous => status = "reconciliation_required"
RetryHasNoLease == status = "pending_retry" => pushLease = None
StaleIsHeld == pushStale => pushLease # None
CallingIsYoung == \A w \in Worker : pc[w] = "calling" => ~pushStale

(* The three properties, as long as the POS's answers arrive.              *)
Rung ==
    ~LostAnswers => OneTicketUnlessTakenOver /\ RungIsNotRetried /\ RungIsKnown

IInv == /\ TypeOK /\ WorkingHolds /\ AnswerFits /\ ParkedIsParked
        /\ RetryHasNoLease /\ StaleIsHeld /\ CallingIsYoung /\ Rung

USE ConstantsAssumption DEF Pusher, Status, Step, Answer, Working, Goto,
    docVars, leaseVars, execVars

LEMMA InitIInv == Init => IInv
<1> SUFFICES ASSUME Init PROVE IInv
  OBVIOUS
<1>1. TypeOK
  <2>1. DocTypes
    BY DEF Init, DocTypes
  <2>2. LeaseTypes
    BY DEF Init, LeaseTypes
  <2>3. ExecTypes
    BY DEF Init, ExecTypes
  <2>4. Counts
    BY DEF Init, Counts
  <2> QED BY <2>1, <2>2, <2>3, <2>4 DEF TypeOK
<1>2. WorkingHolds /\ AnswerFits
  BY DEF Init, WorkingHolds, AnswerFits
<1>3. ParkedIsParked /\ RetryHasNoLease /\ StaleIsHeld /\ CallingIsYoung
  BY DEF Init, ParkedIsParked, RetryHasNoLease, StaleIsHeld, CallingIsYoung
<1>4. Rung
  BY DEF Init, Rung, OneTicketUnlessTakenOver, RungIsNotRetried, RungIsKnown
<1> QED BY <1>1, <1>2, <1>3, <1>4 DEF IInv

LEMMA TypeIsInvariant == TypeOK /\ [Next]_vars => TypeOK'
<1> SUFFICES ASSUME TypeOK, [Next]_vars PROVE TypeOK'
  OBVIOUS
<1> USE DEF TypeOK, DocTypes, LeaseTypes, ExecTypes, Counts
<1>1. ASSUME NEW p \in Pusher, ReadOrder(p) PROVE TypeOK'
  <2>1. ASSUME accepted \/ Blocked PROVE TypeOK'
    BY <1>1, <2>1 DEF ReadOrder, Leave, Blocked
  <2>2. ASSUME ~(accepted \/ Blocked) PROVE TypeOK'
    BY <1>1, <2>2 DEF ReadOrder, Leave, Blocked
  <2> QED BY <1>1, <2>1, <2>2 DEF ReadOrder
<1>2. ASSUME NEW p \in Pusher, ClaimPush(p) PROVE TypeOK'
  BY <1>2 DEF ClaimPush, MayPush, PushLive, Blocked
<1>3. ASSUME NEW p \in Pusher, SentAway(p) PROVE TypeOK'
  BY <1>3 DEF SentAway, Leave
<1>4. ASSUME NEW p \in Pusher, Post(p) PROVE TypeOK'
  BY <1>4 DEF Post, Outcomes
<1>5. ASSUME NEW p \in Pusher, Save(p) PROVE TypeOK'
  <2>1. ASSUME status' = "synced", accepted' = TRUE, ReleaseBoth, Leave(p) PROVE TypeOK'
    <3>1. DocTypes'
      BY <1>5, <2>1 DEF Save, Leave, ReleaseBoth
    <3>2. LeaseTypes'
      BY <1>5, <2>1 DEF Save, Leave, ReleaseBoth
    <3>3. ExecTypes'
      BY <1>5, <2>1 DEF Save, Leave, ReleaseBoth
    <3>4. Counts'
      BY <1>5, <2>1 DEF Save, Leave, ReleaseBoth
    <3> QED BY <3>1, <3>2, <3>3, <3>4
  <2>2. ASSUME Goto(p, "failing"), UNCHANGED <<status, accepted, leaseVars, answer, seen>> PROVE TypeOK'
    <3>1. DocTypes'
      BY <1>5, <2>2 DEF Save, Leave, ReleaseBoth
    <3>2. LeaseTypes'
      BY <1>5, <2>2 DEF Save, Leave, ReleaseBoth
    <3>3. ExecTypes'
      BY <1>5, <2>2 DEF Save, Leave, ReleaseBoth
    <3>4. Counts'
      BY <1>5, <2>2 DEF Save, Leave, ReleaseBoth
    <3> QED BY <3>1, <3>2, <3>3, <3>4
  <2> QED BY <1>5, <2>1, <2>2 DEF Save
<1>6. ASSUME NEW p \in Pusher, Fail(p) PROVE TypeOK'
  <2>1. ASSUME accepted, UNCHANGED docVars PROVE TypeOK'
    <3>1. DocTypes'
      BY <1>6, <2>1 DEF Fail, Leave, ReleaseBoth, RecordFailure, Park, OneMore
    <3>2. LeaseTypes'
      BY <1>6, <2>1 DEF Fail, Leave, ReleaseBoth, RecordFailure, Park, OneMore
    <3>3. ExecTypes'
      BY <1>6, <2>1 DEF Fail, Leave, ReleaseBoth, RecordFailure, Park, OneMore
    <3>4. Counts'
      BY <1>6, <2>1 DEF Fail, Leave, ReleaseBoth, RecordFailure, Park, OneMore
    <3> QED BY <3>1, <3>2, <3>3, <3>4
  <2>2. ASSUME ~accepted, RecordFailure(p, retries) PROVE TypeOK'
    <3>1. DocTypes'
      BY <1>6, <2>2 DEF Fail, Leave, ReleaseBoth, RecordFailure, Park, OneMore
    <3>2. LeaseTypes'
      BY <1>6, <2>2 DEF Fail, Leave, ReleaseBoth, RecordFailure, Park, OneMore
    <3>3. ExecTypes'
      BY <1>6, <2>2 DEF Fail, Leave, ReleaseBoth, RecordFailure, Park, OneMore
    <3>4. Counts'
      BY <1>6, <2>2 DEF Fail, Leave, ReleaseBoth, RecordFailure, Park, OneMore
    <3> QED BY <3>1, <3>2, <3>3, <3>4
  <2>3. ASSUME RecordFailure(p, seen[p]) PROVE TypeOK'
    <3>1. DocTypes'
      BY <1>6, <2>3 DEF Fail, Leave, ReleaseBoth, RecordFailure, Park, OneMore
    <3>2. LeaseTypes'
      BY <1>6, <2>3 DEF Fail, Leave, ReleaseBoth, RecordFailure, Park, OneMore
    <3>3. ExecTypes'
      BY <1>6, <2>3 DEF Fail, Leave, ReleaseBoth, RecordFailure, Park, OneMore
    <3>4. Counts'
      BY <1>6, <2>3 DEF Fail, Leave, ReleaseBoth, RecordFailure, Park, OneMore
    <3> QED BY <3>1, <3>2, <3>3, <3>4
  <2> QED BY <1>6, <2>1, <2>2, <2>3 DEF Fail
<1>7. ASSUME NEW p \in Pusher, Kill(p) PROVE TypeOK'
  BY <1>7 DEF Kill, Leave
<1>8. ASSUME NEW w \in Worker, Scan(w) PROVE TypeOK'
  BY <1>8 DEF Scan
<1>9. ASSUME NEW w \in Worker, ClaimRetry(w) PROVE TypeOK'
  <2>1. ASSUME status = "pending_retry" /\ ~RetryLive /\ ~PushLive PROVE TypeOK'
    BY <1>9, <2>1 DEF ClaimRetry, PushLive, RetryLive
  <2>2. ASSUME ~(status = "pending_retry" /\ ~RetryLive /\ ~PushLive) PROVE TypeOK'
    BY <1>9, <2>2 DEF ClaimRetry, PushLive, RetryLive
  <2> QED BY <1>9, <2>1, <2>2 DEF ClaimRetry
<1>10. ASSUME NEW w \in Worker, GiveBack(w) PROVE TypeOK'
  <2>1. ASSUME status = "processing" /\ ~accepted /\ ~PushLive PROVE TypeOK'
    BY <1>10, <2>1 DEF GiveBack, PushLive
  <2>2. ASSUME ~(status = "processing" /\ ~accepted /\ ~PushLive) PROVE TypeOK'
    BY <1>10, <2>2 DEF GiveBack, PushLive
  <2> QED BY <1>10, <2>1, <2>2 DEF GiveBack
<1>11. ASSUME NEW w \in Worker, GiveUp(w) PROVE TypeOK'
  <2>1. ASSUME MayGiveUp PROVE TypeOK'
    BY <1>11, <2>1 DEF GiveUp, MayGiveUp
  <2>2. ASSUME ~MayGiveUp PROVE TypeOK'
    BY <1>11, <2>2 DEF GiveUp, MayGiveUp
  <2> QED BY <1>11, <2>1, <2>2 DEF GiveUp
<1>12. CASE PushLeaseExpires
  BY <1>12 DEF PushLeaseExpires
<1>13. CASE RetryLeaseExpires
  BY <1>13 DEF RetryLeaseExpires
<1>14. CASE ParkStale
  BY <1>14 DEF ParkStale, PushLive, RetryLive, Park, ReleaseBoth
<1>15. CASE UNCHANGED vars
  BY <1>15 DEF vars
<1> QED
  BY <1>1, <1>2, <1>3, <1>4, <1>5, <1>6, <1>7, <1>8, <1>9, <1>10, <1>11, <1>12, <1>13, <1>14, <1>15 DEF Next, PushSteps

LEMMA NextIInv == IInv /\ [Next]_vars => IInv'
<1> SUFFICES ASSUME IInv, [Next]_vars PROVE IInv'
  OBVIOUS
<1>0. TypeOK /\ TypeOK'
  BY TypeIsInvariant DEF IInv
<1> USE DEF IInv, WorkingHolds, AnswerFits, ParkedIsParked,
       RetryHasNoLease, StaleIsHeld, CallingIsYoung, Rung,
       OneTicketUnlessTakenOver, RungIsNotRetried, RungIsKnown
<1>1. ASSUME NEW p \in Pusher, ReadOrder(p) PROVE IInv'
  <2>1. ASSUME accepted \/ Blocked PROVE IInv'
    BY <1>1, <2>1, <1>0 DEF TypeOK, DocTypes, LeaseTypes, ExecTypes, Counts, ReadOrder, Leave, Blocked
  <2>2. ASSUME ~(accepted \/ Blocked) PROVE IInv'
    BY <1>1, <2>2, <1>0 DEF TypeOK, DocTypes, LeaseTypes, ExecTypes, Counts, ReadOrder, Leave, Blocked
  <2> QED BY <1>1, <2>1, <2>2 DEF TypeOK, DocTypes, LeaseTypes, ExecTypes, Counts, ReadOrder
<1>2. ASSUME NEW p \in Pusher, ClaimPush(p) PROVE IInv'
  BY <1>2, <1>0 DEF TypeOK, DocTypes, LeaseTypes, ExecTypes, Counts, ClaimPush, MayPush, PushLive, Blocked
<1>3. ASSUME NEW p \in Pusher, SentAway(p) PROVE IInv'
  BY <1>3, <1>0 DEF TypeOK, DocTypes, LeaseTypes, ExecTypes, Counts, SentAway, Leave
<1>4. ASSUME NEW p \in Pusher, Post(p) PROVE IInv'
  BY <1>4, <1>0 DEF TypeOK, DocTypes, LeaseTypes, ExecTypes, Counts, Post, Outcomes
<1>5. ASSUME NEW p \in Pusher, Save(p) PROVE IInv'
  <2>1. ASSUME status' = "synced", accepted' = TRUE, ReleaseBoth, Leave(p) PROVE IInv'
    BY <1>5, <2>1, <1>0 DEF TypeOK, DocTypes, LeaseTypes, ExecTypes, Counts, Save, Leave, ReleaseBoth
  <2>2. ASSUME Goto(p, "failing"), UNCHANGED <<status, accepted, leaseVars, answer, seen>> PROVE IInv'
    BY <1>5, <2>2, <1>0 DEF TypeOK, DocTypes, LeaseTypes, ExecTypes, Counts, Save, Leave, ReleaseBoth
  <2> QED BY <1>5, <2>1, <2>2 DEF TypeOK, DocTypes, LeaseTypes, ExecTypes, Counts, Save
<1>6. ASSUME NEW p \in Pusher, Fail(p) PROVE IInv'
  <2>1. ASSUME accepted, UNCHANGED docVars PROVE IInv'
    BY <1>6, <2>1, <1>0 DEF TypeOK, DocTypes, LeaseTypes, ExecTypes, Counts, Fail, Leave, ReleaseBoth, RecordFailure, Park, OneMore
  <2>2. ASSUME ~accepted, RecordFailure(p, retries) PROVE IInv'
    BY <1>6, <2>2, <1>0 DEF TypeOK, DocTypes, LeaseTypes, ExecTypes, Counts, Fail, Leave, ReleaseBoth, RecordFailure, Park, OneMore
  <2>3. ASSUME RecordFailure(p, seen[p]) PROVE IInv'
    BY <1>6, <2>3, <1>0 DEF TypeOK, DocTypes, LeaseTypes, ExecTypes, Counts, Fail, Leave, ReleaseBoth, RecordFailure, Park, OneMore
  <2> QED BY <1>6, <2>1, <2>2, <2>3 DEF TypeOK, DocTypes, LeaseTypes, ExecTypes, Counts, Fail
<1>7. ASSUME NEW p \in Pusher, Kill(p) PROVE IInv'
  BY <1>7, <1>0 DEF TypeOK, DocTypes, LeaseTypes, ExecTypes, Counts, Kill, Leave
<1>8. ASSUME NEW w \in Worker, Scan(w) PROVE IInv'
  BY <1>8, <1>0 DEF TypeOK, DocTypes, LeaseTypes, ExecTypes, Counts, Scan
<1>9. ASSUME NEW w \in Worker, ClaimRetry(w) PROVE IInv'
  <2>1. ASSUME status = "pending_retry" /\ ~RetryLive /\ ~PushLive PROVE IInv'
    BY <1>9, <2>1, <1>0 DEF TypeOK, DocTypes, LeaseTypes, ExecTypes, Counts, ClaimRetry, PushLive, RetryLive
  <2>2. ASSUME ~(status = "pending_retry" /\ ~RetryLive /\ ~PushLive) PROVE IInv'
    BY <1>9, <2>2, <1>0 DEF TypeOK, DocTypes, LeaseTypes, ExecTypes, Counts, ClaimRetry, PushLive, RetryLive
  <2> QED BY <1>9, <2>1, <2>2 DEF TypeOK, DocTypes, LeaseTypes, ExecTypes, Counts, ClaimRetry
<1>10. ASSUME NEW w \in Worker, GiveBack(w) PROVE IInv'
  <2>1. ASSUME status = "processing" /\ ~accepted /\ ~PushLive PROVE IInv'
    BY <1>10, <2>1, <1>0 DEF TypeOK, DocTypes, LeaseTypes, ExecTypes, Counts, GiveBack, PushLive
  <2>2. ASSUME ~(status = "processing" /\ ~accepted /\ ~PushLive) PROVE IInv'
    BY <1>10, <2>2, <1>0 DEF TypeOK, DocTypes, LeaseTypes, ExecTypes, Counts, GiveBack, PushLive
  <2> QED BY <1>10, <2>1, <2>2 DEF TypeOK, DocTypes, LeaseTypes, ExecTypes, Counts, GiveBack
<1>11. ASSUME NEW w \in Worker, GiveUp(w) PROVE IInv'
  <2>1. ASSUME MayGiveUp PROVE IInv'
    BY <1>11, <2>1, <1>0 DEF TypeOK, DocTypes, LeaseTypes, ExecTypes, Counts, GiveUp, MayGiveUp
  <2>2. ASSUME ~MayGiveUp PROVE IInv'
    BY <1>11, <2>2, <1>0 DEF TypeOK, DocTypes, LeaseTypes, ExecTypes, Counts, GiveUp, MayGiveUp
  <2> QED BY <1>11, <2>1, <2>2 DEF TypeOK, DocTypes, LeaseTypes, ExecTypes, Counts, GiveUp
<1>12. CASE PushLeaseExpires
  BY <1>12, <1>0 DEF TypeOK, DocTypes, LeaseTypes, ExecTypes, Counts, PushLeaseExpires
<1>13. CASE RetryLeaseExpires
  BY <1>13, <1>0 DEF TypeOK, DocTypes, LeaseTypes, ExecTypes, Counts, RetryLeaseExpires
<1>14. CASE ParkStale
  BY <1>14, <1>0 DEF TypeOK, DocTypes, LeaseTypes, ExecTypes, Counts, ParkStale, PushLive, RetryLive, Park, ReleaseBoth
<1>15. CASE UNCHANGED vars
  BY <1>15, <1>0 DEF TypeOK, DocTypes, LeaseTypes, ExecTypes, Counts, vars
<1> QED
  BY <1>1, <1>2, <1>3, <1>4, <1>5, <1>6, <1>7, <1>8, <1>9, <1>10, <1>11, <1>12, <1>13, <1>14, <1>15 DEF TypeOK, DocTypes, LeaseTypes, ExecTypes, Counts, Next, PushSteps

LEMMA IInvIsInvariant == Spec => []IInv
BY InitIInv, NextIInv, PTL DEF Spec

(* Type correctness of the order, the leases and the executions.           *)
THEOREM TypeCorrect == Spec => []TypeOK
<1>1. IInv => TypeOK
  BY DEF IInv
<1> QED BY <1>1, IInvIsInvariant, PTL

(* pushOrderToPetpooja rings once unless a dead push's lease is taken over. *)
THEOREM RingsOnce == Spec => [](~LostAnswers => OneTicketUnlessTakenOver)
<1>1. IInv => (~LostAnswers => OneTicketUnlessTakenOver)
  BY DEF IInv, Rung
<1> QED BY <1>1, IInvIsInvariant, PTL

(* No path of the failure transaction or of the retry worker puts a rung   *)
(* ticket up for another attempt.                                          *)
THEOREM NoBlindRetry == Spec => [](~LostAnswers => RungIsNotRetried)
<1>1. IInv => (~LostAnswers => RungIsNotRetried)
  BY DEF IInv, Rung
<1> QED BY <1>1, IInvIsInvariant, PTL

(* A rung ticket is recorded, parked or under a lease, wherever the        *)
(* instance died.                                                          *)
THEOREM NoLostTicket == Spec => [](~LostAnswers => RungIsKnown)
<1>1. IInv => (~LostAnswers => RungIsKnown)
  BY DEF IInv, Rung
<1> QED BY <1>1, IInvIsInvariant, PTL

(* No step un-accepts an order or gives an accepted one up.                *)
THEOREM AcceptanceStays == Spec => AcceptedIsKept
<1>1. TypeOK /\ [Next]_vars => [accepted => accepted' /\ told' = told]_vars
  <2> SUFFICES ASSUME TypeOK, Next, accepted PROVE accepted' /\ told' = told
    BY DEF vars
  <2> QED
    BY DEF Next, PushSteps, TypeOK, DocTypes, ReadOrder, ClaimPush, MayPush, SentAway,
           Post, Save, Fail, RecordFailure, Park, Kill, Scan, ClaimRetry,
           GiveBack, GiveUp, MayGiveUp, PushLeaseExpires, RetryLeaseExpires,
           ParkStale
<1> QED BY <1>1, TypeCorrect, PTL DEF Spec, AcceptedIsKept

HIDE ConstantsAssumption DEF Pusher, Status, Step, Answer, Working, Goto,
    docVars, leaseVars, execVars

-----------------------------------------------------------------------------
(* The catalogue.                                                          *)

SyncRecord == [step : SyncStep, previous : Count, observed : Count,
               feed : SUBSET Item, inStock : SUBSET Item,
               todo : SUBSET Item, restore : SUBSET Item,
               retire : SUBSET Item, refused : BOOLEAN]
ToggleRecord ==
    {s \in [step : ToggleStep, item : Item \cup {NoItem}, to : BOOLEAN, current : BOOLEAN] :
       s.step # "idle" => s.item \in Item}
StockMessage == [item : Item, to : BOOLEAN]

(* A sync that has a feed has the whole menu, or less than half of what is *)
(* stored: documents are added, never taken away.                          *)
FeedIsWholeOrShort(s) ==
    s.step \in {"writing", "scanning"} =>
        s.feed = Item \/ 2 * Cardinality(s.feed) < Cardinality(Stored)

(* Nothing is marked for retirement, by any run.                           *)
NothingToRetire ==
    ~halved =>
        /\ listed = Item
        /\ \A i \in Item : ~product[i].ghostRetired
        /\ \A r \in Sync : sync[r].retire = {} /\ FeedIsWholeOrShort(sync[r])

(* The types, and that a toggle at work has an item.                       *)
CatalogueTypes ==
    /\ listed \subseteq Item /\ on \subseteq Item
    /\ product \in [Item -> Product]
    /\ known \in Count
    /\ sync \in [Sync -> SyncRecord]
    /\ toggle \in [Toggle -> ToggleRecord]
    /\ callbacks \subseteq StockMessage /\ parked \subseteq StockMessage
    /\ halved \in BOOLEAN

CatalogueInv == CatalogueTypes /\ NothingToRetire

-----------------------------------------------------------------------------
(* Sizes.                                                                  *)

LEMMA ItemsCount ==
    /\ Cardinality(Item) \in Nat
    /\ \A S \in SUBSET Item : IsFiniteSet(S) /\ Cardinality(S) \in Count
<1>1. IsFiniteSet(Item) /\ Cardinality(Item) \in Nat
  BY CatalogueAssumption, FS_CardinalityType
<1>2. ASSUME NEW S \in SUBSET Item PROVE IsFiniteSet(S) /\ Cardinality(S) \in Count
  <2>1. IsFiniteSet(S) /\ Cardinality(S) <= Cardinality(Item)
    BY <1>1, FS_Subset
  <2>2. Cardinality(S) \in Nat
    BY <2>1, FS_CardinalityType
  <2> QED BY <1>1, <2>1, <2>2 DEF Count
<1> QED BY <1>1, <1>2

LEMMA SmallerCounts ==
    ASSUME NEW S \in SUBSET Item, NEW T \in SUBSET S
    PROVE  Cardinality(T) <= Cardinality(S)
BY ItemsCount, FS_Subset

LEMMA MaxOfPair ==
    ASSUME NEW a \in Count, NEW b \in Count
    PROVE  MaxOf({a, b}) \in Nat /\ b <= MaxOf({a, b})
<1>1. \E n \in {a, b} : \A m \in {a, b} : m <= n
  BY ItemsCount DEF Count
<1>2. MaxOf({a, b}) \in {a, b} /\ \A m \in {a, b} : m <= MaxOf({a, b})
  BY <1>1 DEF MaxOf
<1> QED BY <1>2, ItemsCount DEF Count

LEMMA MaxOfThree ==
    ASSUME NEW a \in Count, NEW b \in Count, NEW c \in Count
    PROVE  MaxOf({a, b, c}) \in Count
<1>1. \E n \in {a, b, c} : \A m \in {a, b, c} : m <= n
  BY ItemsCount DEF Count
<1>2. MaxOf({a, b, c}) \in {a, b, c}
  BY <1>1 DEF MaxOf
<1> QED BY <1>2

-----------------------------------------------------------------------------
LEMMA NoSyncType ==
    /\ NoSync \in SyncRecord /\ NoSync.retire = {} /\ NoSync.step = "idle"
    /\ NoToggle \in ToggleRecord
BY ItemsCount DEF NoSync, SyncRecord, SyncStep, Count, NoToggle, ToggleRecord, ToggleStep

LEMMA CatalogueInitInv == CatalogueInit => CatalogueInv
<1> SUFFICES ASSUME CatalogueInit PROVE CatalogueInv
  OBVIOUS
<1>1. known \in Count
  BY ItemsCount DEF CatalogueInit
<1>2. CatalogueTypes
  BY <1>1, NoSyncType DEF CatalogueInit, Product, CatalogueTypes
<1>3. NothingToRetire
  BY NoSyncType DEF CatalogueInit, NothingToRetire, FeedIsWholeOrShort
<1> QED BY <1>2, <1>3 DEF CatalogueInv

(* A step of one sync, on itself: it retires nothing.                      *)
LEMMA PutSync ==
    ASSUME CatalogueInv, NEW r \in Sync, NEW s \in SyncRecord, Put(r, s)
    PROVE  /\ sync' \in [Sync -> SyncRecord]
           /\ sync'[r] = s
           /\ \A q \in Sync \ {r} : sync'[q] = sync[q]
BY DEF CatalogueInv, Put, CatalogueTypes

(* Steps that write no product and give no feed.                           *)
LEMMA QuietSync ==
    ASSUME CatalogueInv, NEW r \in Sync, NEW s \in SyncRecord, Put(r, s),
           product' = product, listed' = listed, halved' \in BOOLEAN,
           halved => halved',
           ~halved' => s.retire = {} /\ FeedIsWholeOrShort(s)
    PROVE  NothingToRetire'
<1> SUFFICES ASSUME ~halved' PROVE NothingToRetire'
  BY DEF NothingToRetire
<1>1. ~halved /\ Stored' = Stored
  BY DEF CatalogueInv, CatalogueTypes, Stored
<1>2. /\ sync'[r] = s /\ s.retire = {} /\ FeedIsWholeOrShort(s)
      /\ \A q \in Sync \ {r} : sync'[q] = sync[q]
  BY PutSync
<1>3. \A q \in Sync : sync'[q].retire = {} /\ FeedIsWholeOrShort(sync'[q])
  BY <1>1, <1>2 DEF CatalogueInv, NothingToRetire
<1>4. \A q \in Sync : FeedIsWholeOrShort(sync'[q]) => FeedIsWholeOrShort(sync[q])'
  BY <1>1 DEF FeedIsWholeOrShort
<1> QED BY <1>1, <1>3, <1>4 DEF CatalogueInv, NothingToRetire

(* Steps that only add documents to the store.                            *)
LEMMA StoreGrows ==
    ASSUME CatalogueInv, product' \in [Item -> Product], listed' = listed,
           halved' = halved, sync' \in [Sync -> SyncRecord],
           \A i \in Item : /\ product[i].there => product'[i].there
                           /\ product'[i].ghostRetired => product[i].ghostRetired,
           \A q \in Sync : ~halved =>
               /\ sync'[q].retire = {}
               /\ FeedIsWholeOrShort(sync'[q])
    PROVE  NothingToRetire'
<1>1. Stored \in SUBSET Stored' /\ Stored' \in SUBSET Item
  BY DEF Stored
<1>2. Cardinality(Stored) <= Cardinality(Stored')
  BY <1>1, SmallerCounts
<1>3. ASSUME NEW q \in Sync, FeedIsWholeOrShort(sync'[q])
      PROVE  FeedIsWholeOrShort(sync[q])'
  <2>1. sync'[q].feed \in SUBSET Item
    BY DEF SyncRecord
  <2>2. Cardinality(sync'[q].feed) \in Nat /\ Cardinality(Stored) \in Nat
        /\ Cardinality(Stored') \in Nat
    BY <1>1, <2>1, ItemsCount DEF Count, Stored
  <2> QED BY <1>2, <1>3, <2>2 DEF FeedIsWholeOrShort
<1>4. ASSUME ~halved
      PROVE  /\ listed' = Item
             /\ \A i \in Item : ~product'[i].ghostRetired
             /\ \A q \in Sync : sync'[q].retire = {} /\ FeedIsWholeOrShort(sync[q])'
  BY <1>3, <1>4 DEF CatalogueInv, NothingToRetire
<1> QED BY <1>4 DEF NothingToRetire

-----------------------------------------------------------------------------
(* Types of the steps.                                                     *)

LEMMA OvertakeType ==
    ASSUME CatalogueInv, NEW items, Overtake(items)
    PROVE  toggle' \in [Toggle -> ToggleRecord]
<1>1. toggle \in [Toggle -> ToggleRecord]
  BY DEF CatalogueInv, CatalogueTypes
<1>2. ASSUME NEW t \in Toggle
      PROVE  [toggle[t] EXCEPT !.current = FALSE] \in ToggleRecord
  BY <1>1 DEF ToggleRecord
<1> QED BY <1>1, <1>2 DEF Overtake

LEMMA BecomeType ==
    ASSUME CatalogueInv, NEW t \in Toggle, NEW s \in ToggleRecord, Become(t, s)
    PROVE  toggle' \in [Toggle -> ToggleRecord]
BY DEF CatalogueInv, Become, CatalogueTypes

LEMMA SetStockType ==
    ASSUME CatalogueInv, NEW t \in Toggle, SetStock(t)
    PROVE  /\ product' \in [Item -> Product]
           /\ toggle' \in [Toggle -> ToggleRecord]
           /\ toggle[t].item \in Item => product'[toggle[t].item].inStock = toggle[t].to
           /\ \A i \in Item : /\ product'[i].there = product[i].there
                              /\ product'[i].ghostRetired = product[i].ghostRetired
<1>1. toggle \in [Toggle -> ToggleRecord] /\ product \in [Item -> Product]
  BY DEF CatalogueInv, CatalogueTypes
<1>2. ASSUME NEW u \in Toggle
      PROVE  [toggle[u] EXCEPT !.current = FALSE] \in ToggleRecord
  BY <1>1 DEF ToggleRecord
<1>3. toggle' \in [Toggle -> ToggleRecord]
  BY <1>1, <1>2, NoSyncType DEF SetStock
<1>4. ASSUME toggle[t].item \in Item
      PROVE  [product[toggle[t].item] EXCEPT !.inStock = toggle[t].to] \in Product
  BY <1>1, <1>4 DEF ToggleRecord, Product
<1>5. product' \in [Item -> Product]
  BY <1>1, <1>4 DEF SetStock
<1>6. toggle[t].item \in Item => product'[toggle[t].item].inStock = toggle[t].to
  BY <1>1 DEF SetStock, Product
<1>7. \A i \in Item : /\ product'[i].there = product[i].there
                      /\ product'[i].ghostRetired = product[i].ghostRetired
  BY <1>1 DEF SetStock, Product
<1> QED BY <1>3, <1>5, <1>6, <1>7

-----------------------------------------------------------------------------
(* The steps of a sync.                                                    *)

LEMMA ReadBranchInv ==
    ASSUME CatalogueInv, NEW r \in Sync, ReadBranch(r) PROVE CatalogueInv'
<1> DEFINE s == [NoSync EXCEPT !.step = "fetching", !.previous = known]
<1>1. s \in SyncRecord /\ s.retire = {} /\ s.step = "fetching"
  BY NoSyncType DEF CatalogueInv, NoSync, SyncRecord, SyncStep, CatalogueTypes
<1>2. Put(r, s)
  BY DEF ReadBranch
<1> HIDE DEF s
<1>3. sync' \in [Sync -> SyncRecord]
  BY <1>1, <1>2, PutSync
<1>4. CatalogueTypes'
  BY <1>3 DEF CatalogueInv, ReadBranch, pos, CatalogueTypes, SyncRecord
<1>5. FeedIsWholeOrShort(s)
  BY <1>1 DEF FeedIsWholeOrShort
<1>6. product' = product /\ listed' = listed /\ halved' = halved
  BY DEF ReadBranch, pos
<1>7. NothingToRetire'
  BY <1>1, <1>2, <1>4, <1>5, <1>6, QuietSync DEF CatalogueTypes
<1> QED BY <1>4, <1>7 DEF CatalogueInv

LEMMA IngestRecord ==
    ASSUME CatalogueInv, NEW r \in Sync, NEW feed \in SUBSET Item, Ingest(r, feed),
           ~halved => sync[r].retire = {}
    PROVE  \E s \in SyncRecord :
             /\ Put(r, s) /\ s.feed = feed
             /\ ~halved => s.retire = {}
             /\ s.step = IF feed = {} THEN "marking" ELSE "writing"
<1> DEFINE s == [sync[r] EXCEPT !.step = IF feed = {} THEN "marking" ELSE "writing",
                           !.feed = feed, !.inStock = on \cap feed, !.todo = feed]
<1>1. sync[r] \in SyncRecord
  BY DEF CatalogueInv, CatalogueTypes
<1>2. s \in SyncRecord
  BY <1>1 DEF SyncRecord, SyncStep
<1>3. s.feed = feed /\ s.retire = sync[r].retire
      /\ s.step = IF feed = {} THEN "marking" ELSE "writing"
  BY <1>1 DEF SyncRecord
<1>4. Put(r, s)
  BY DEF Ingest
<1> HIDE DEF s
<1> QED BY <1>2, <1>3, <1>4

LEMMA FetchInv ==
    ASSUME CatalogueInv, NEW r \in Sync, Fetch(r) \/ FetchShort(r) PROVE CatalogueInv'
<1>1. PICK feed \in SUBSET listed :
         /\ Ingest(r, feed)
         /\ \/ feed = listed /\ halved' = halved
            \/ halved' = (halved \/ (feed # {} /\ 2 * Cardinality(feed) >= Cardinality(Stored)))
  BY DEF Fetch, FetchShort
<1>2. feed \in SUBSET Item /\ halved \in BOOLEAN /\ halved' \in BOOLEAN
  BY <1>1 DEF CatalogueInv, CatalogueTypes
<1>3. ~halved => sync[r].retire = {}
  BY DEF CatalogueInv, NothingToRetire
<1>4. PICK s \in SyncRecord :
             /\ Put(r, s) /\ s.feed = feed
             /\ ~halved => s.retire = {}
             /\ s.step = IF feed = {} THEN "marking" ELSE "writing"
  BY <1>1, <1>2, <1>3, IngestRecord
<1>5. sync' \in [Sync -> SyncRecord]
  BY <1>4, PutSync
<1>6. UNCHANGED <<pos, product, known, toggle, callbacks, parked>>
  BY DEF Fetch, FetchShort
<1>7. CatalogueTypes'
  BY <1>2, <1>5, <1>6 DEF CatalogueInv, pos, CatalogueTypes, SyncRecord
<1>8. halved => halved'
  BY <1>1
<1>9. ASSUME ~halved' PROVE s.retire = {} /\ FeedIsWholeOrShort(s)
  <2>1. ~halved
    BY <1>8, <1>9
  <2>2. CASE feed = listed
    <3>1. feed = Item
      BY <2>1, <2>2 DEF CatalogueInv, NothingToRetire
    <3> QED BY <1>4, <2>1, <3>1 DEF FeedIsWholeOrShort
  <2>3. CASE feed = {}
    BY <1>4, <2>1, <2>3 DEF FeedIsWholeOrShort
  <2>4. CASE feed # {} /\ feed # listed
    <3>1. ~(2 * Cardinality(feed) >= Cardinality(Stored))
      BY <1>1, <1>9, <2>4
    <3>2. Cardinality(feed) \in Nat /\ Cardinality(Stored) \in Nat
      BY <1>2, ItemsCount DEF Count, Stored
    <3>3. 2 * Cardinality(feed) < Cardinality(Stored)
      BY <3>1, <3>2
    <3> QED BY <1>4, <2>1, <3>3 DEF FeedIsWholeOrShort
  <2> QED BY <2>2, <2>3, <2>4
<1>10. product' = product /\ listed' = listed
  BY <1>6 DEF pos
<1>11. NothingToRetire'
  BY <1>2, <1>4, <1>8, <1>9, <1>10, QuietSync
<1> QED BY <1>7, <1>11 DEF CatalogueInv

(* The end of a run, however it comes.                                     *)
LEMMA EndSyncInv ==
    ASSUME CatalogueInv, NEW r \in Sync, Put(r, NoSync), known' \in Count,
           UNCHANGED <<pos, product, toggle, callbacks, parked, halved>>
    PROVE CatalogueInv'
<1>1. sync' \in [Sync -> SyncRecord]
  BY NoSyncType, PutSync
<1>2. CatalogueTypes'
  BY <1>1 DEF CatalogueInv, pos, CatalogueTypes, SyncRecord
<1>3. FeedIsWholeOrShort(NoSync)
  BY NoSyncType DEF FeedIsWholeOrShort
<1>4. product' = product /\ listed' = listed /\ halved' = halved /\ halved' \in BOOLEAN
  BY <1>2 DEF pos, CatalogueTypes
<1>5. NothingToRetire'
  BY <1>3, <1>4, NoSyncType, QuietSync
<1> QED BY <1>2, <1>5 DEF CatalogueInv

LEMMA StampInv ==
    ASSUME CatalogueInv, NEW r \in Sync, Stamp(r) PROVE CatalogueInv'
<1>1. sync[r] \in SyncRecord
  BY DEF CatalogueInv, CatalogueTypes
<1>2. /\ sync[r].previous \in Count /\ sync[r].observed \in Count
      /\ Cardinality(sync[r].feed) \in Count
  BY <1>1, ItemsCount DEF SyncRecord
<1>3. known' \in Count
  BY <1>2, MaxOfThree DEF Stamp
<1> QED BY <1>3, EndSyncInv DEF Stamp

LEMMA KillSyncInv ==
    ASSUME CatalogueInv, NEW r \in Sync, KillSync(r) \/ FetchRefused(r)
    PROVE  CatalogueInv'
<1>1. known' \in Count
  BY DEF CatalogueInv, KillSync, FetchRefused, CatalogueTypes
<1> QED BY <1>1, EndSyncInv DEF KillSync, FetchRefused

(* Before a scan the feed is whole or short; what is not in a whole feed   *)
(* is not stored either, and a short one is refused.                       *)
LEMMA NothingToScan ==
    ASSUME CatalogueInv, ~halved, NEW r \in Sync, sync[r].step = "scanning",
           NEW absent, absent = {i \in Stored \ sync[r].feed : ~product[i].ghostRetired},
           NEW active, active = Cardinality((Stored \cap sync[r].feed) \cup absent),
           NEW candidates, candidates = {i \in absent : product[i].inStock}
    PROVE  \/ candidates = {}
           \/ TooMuch(sync[r].feed, candidates, MaxOf({sync[r].previous, active}))
<1>1. sync[r] \in SyncRecord
  BY DEF CatalogueInv, CatalogueTypes
<1>2. FeedIsWholeOrShort(sync[r]) /\ \A i \in Item : ~product[i].ghostRetired
  BY DEF CatalogueInv, NothingToRetire
<1>3. CASE sync[r].feed = Item
  BY <1>3 DEF Stored
<1>4. CASE 2 * Cardinality(sync[r].feed) < Cardinality(Stored)
  <2>1. (Stored \cap sync[r].feed) \cup absent = Stored
    BY <1>2 DEF Stored
  <2>2. active \in Count /\ sync[r].previous \in Count /\ active = Cardinality(Stored)
    BY <1>1, <2>1, ItemsCount DEF SyncRecord, Stored
  <2>3. /\ MaxOf({sync[r].previous, active}) \in Nat
        /\ active <= MaxOf({sync[r].previous, active})
    BY <2>2, MaxOfPair
  <2>4. Cardinality(sync[r].feed) \in Nat /\ Cardinality(Stored) \in Nat
    BY <1>1, ItemsCount DEF SyncRecord, Stored, Count
  <2>5. 2 * Cardinality(sync[r].feed) < MaxOf({sync[r].previous, active})
    BY <1>4, <2>2, <2>3, <2>4
  <2> QED BY <2>5 DEF TooMuch
<1> QED BY <1>2, <1>3, <1>4 DEF FeedIsWholeOrShort

LEMMA ScanInv ==
    ASSUME CatalogueInv, NEW r \in Sync, ScanCatalogue(r) PROVE CatalogueInv'
<1>1. sync[r] \in SyncRecord /\ product \in [Item -> Product]
  BY DEF CatalogueInv, CatalogueTypes
<1>2. PICK absent, active, candidates :
        /\ absent = {i \in Stored \ sync[r].feed : ~product[i].ghostRetired}
        /\ active = Cardinality((Stored \cap sync[r].feed) \cup absent)
        /\ candidates = {i \in absent : product[i].inStock}
  OBVIOUS
<1>3. PICK refuse \in BOOLEAN :
        refuse = TooMuch(sync[r].feed, candidates, MaxOf({sync[r].previous, active}))
  BY DEF TooMuch
<1> DEFINE s == [sync[r] EXCEPT
                    !.step = "marking", !.refused = refuse,
                    !.observed = IF refuse THEN active ELSE 0,
                    !.previous = IF refuse THEN @ ELSE 0,
                    !.restore = {i \in Stored \cap sync[r].feed : product[i].ghostRetired},
                    !.retire = IF refuse THEN {} ELSE candidates]
<1>4. Put(r, s)
  BY <1>2, <1>3 DEF ScanCatalogue
<1>5. active \in Count /\ candidates \in SUBSET Item /\ 0 \in Count
  <2>1. (Stored \cap sync[r].feed) \cup absent \in SUBSET Item
    BY <1>2 DEF Stored
  <2> QED BY <1>2, <2>1, ItemsCount DEF Stored, Count
<1>6. s \in SyncRecord
  BY <1>1, <1>5 DEF SyncRecord, SyncStep, Stored
<1>7. s.step = "marking" /\ s.retire = IF refuse THEN {} ELSE candidates
  BY <1>1 DEF SyncRecord
<1> HIDE DEF s
<1>8. sync' \in [Sync -> SyncRecord]
  BY <1>4, <1>6, PutSync
<1>9. UNCHANGED <<pos, product, known, toggle, callbacks, parked, halved>>
  BY DEF ScanCatalogue
<1>10. CatalogueTypes'
  BY <1>8, <1>9 DEF CatalogueInv, pos, CatalogueTypes, SyncRecord
<1>11. ASSUME ~halved PROVE s.retire = {} /\ FeedIsWholeOrShort(s)
  <2>1. sync[r].step = "scanning"
    BY DEF ScanCatalogue
  <2>2. candidates = {} \/ refuse
    BY <1>2, <1>3, <1>11, <2>1, NothingToScan
  <2> QED BY <1>7, <2>2 DEF FeedIsWholeOrShort
<1>12. product' = product /\ listed' = listed /\ halved' = halved /\ halved' \in BOOLEAN
  BY <1>9, <1>10 DEF pos, CatalogueTypes
<1>13. NothingToRetire'
  BY <1>4, <1>6, <1>11, <1>12, QuietSync
<1> QED BY <1>10, <1>13 DEF CatalogueInv

LEMMA PassFailsInv ==
    ASSUME CatalogueInv, NEW r \in Sync, PassFails(r) PROVE CatalogueInv'
<1> DEFINE s == [sync[r] EXCEPT !.step = "marking", !.restore = {}, !.retire = {},
                              !.refused = @ /\ sync[r].restore = {}]
<1>1. sync[r] \in SyncRecord
  BY DEF CatalogueInv, CatalogueTypes
<1>2. s \in SyncRecord /\ s.step = "marking" /\ s.retire = {}
  BY <1>1 DEF SyncRecord, SyncStep
<1>3. Put(r, s)
  BY DEF PassFails
<1> HIDE DEF s
<1>4. sync' \in [Sync -> SyncRecord]
  BY <1>2, <1>3, PutSync
<1>5. UNCHANGED <<pos, product, known, toggle, callbacks, parked, halved>>
  BY DEF PassFails
<1>6. CatalogueTypes'
  BY <1>4, <1>5 DEF CatalogueInv, pos, CatalogueTypes, SyncRecord
<1>7. product' = product /\ listed' = listed /\ halved' = halved /\ halved' \in BOOLEAN
  BY <1>5, <1>6 DEF pos, CatalogueTypes
<1>8. FeedIsWholeOrShort(s)
  BY <1>2 DEF FeedIsWholeOrShort
<1>9. NothingToRetire'
  BY <1>2, <1>3, <1>7, <1>8, QuietSync
<1> QED BY <1>6, <1>9 DEF CatalogueInv

-----------------------------------------------------------------------------
(* The steps that write products.                                          *)

(* A sync that goes on with the feed it has and retires no more than it    *)
(* was to.                                                                 *)
LEMMA SyncGoesOn ==
    ASSUME CatalogueInv, NEW r \in Sync, NEW s \in SyncRecord, Put(r, s),
           s.feed = sync[r].feed, s.retire \subseteq sync[r].retire,
           s.step \in {"writing", "scanning"} => sync[r].step \in {"writing", "scanning"}
    PROVE  \A q \in Sync : ~halved => sync'[q].retire = {} /\ FeedIsWholeOrShort(sync'[q])
<1> SUFFICES ASSUME ~halved, NEW q \in Sync
             PROVE  sync'[q].retire = {} /\ FeedIsWholeOrShort(sync'[q])
  OBVIOUS
<1>1. sync[q].retire = {} /\ FeedIsWholeOrShort(sync[q])
      /\ sync[r].retire = {} /\ FeedIsWholeOrShort(sync[r])
  BY DEF CatalogueInv, NothingToRetire
<1>2. s.retire = {} /\ FeedIsWholeOrShort(s)
  BY <1>1 DEF FeedIsWholeOrShort
<1>3. sync'[r] = s /\ (q # r => sync'[q] = sync[q])
  BY PutSync
<1> QED BY <1>1, <1>2, <1>3

LEMMA WriteBatchInv ==
    ASSUME CatalogueInv, NEW r \in Sync, WriteBatch(r) PROVE CatalogueInv'
<1>1. sync[r] \in SyncRecord /\ product \in [Item -> Product]
  BY DEF CatalogueInv, CatalogueTypes
<1>2. PICK batch \in SUBSET sync[r].todo :
         /\ product' = [i \in Item |->
                IF i \in batch
                THEN [product[i] EXCEPT !.there = TRUE,
                                        !.inStock = i \in sync[r].inStock]
                ELSE product[i]]
         /\ Overtake(batch)
         /\ Put(r, IF batch = sync[r].todo
                   THEN [sync[r] EXCEPT !.step = "scanning", !.todo = {}, !.inStock = {}]
                   ELSE [sync[r] EXCEPT !.todo = @ \ batch])
  BY DEF WriteBatch
<1>3. PICK s : s = IF batch = sync[r].todo
                   THEN [sync[r] EXCEPT !.step = "scanning", !.todo = {}, !.inStock = {}]
                   ELSE [sync[r] EXCEPT !.todo = @ \ batch]
  OBVIOUS
<1>4. Put(r, s)
  BY <1>2, <1>3
<1>5. /\ s \in SyncRecord /\ s.feed = sync[r].feed /\ s.retire = sync[r].retire
  BY <1>1, <1>3 DEF SyncRecord, SyncStep
<1>6. sync[r].step = "writing"
  BY DEF WriteBatch
<1>7. \A i \in Item : [product[i] EXCEPT !.there = TRUE, !.inStock = i \in sync[r].inStock]
                        \in Product
  <2>1. \A i \in Item, b \in BOOLEAN :
          [product[i] EXCEPT !.there = TRUE, !.inStock = b] \in Product
    BY <1>1 DEF Product
  <2>2. ASSUME NEW i \in Item
        PROVE  [product[i] EXCEPT !.there = TRUE, !.inStock = i \in sync[r].inStock]
                 \in Product
    <3>1. CASE i \in sync[r].inStock
      <4>1. (i \in sync[r].inStock) = TRUE
        BY <3>1
      <4> QED BY <2>1, <4>1
    <3>2. CASE i \notin sync[r].inStock
      <4>1. (i \in sync[r].inStock) = FALSE
        BY <3>2
      <4> QED BY <2>1, <4>1
    <3> QED BY <3>1, <3>2
  <2> QED BY <2>2
<1>8. product' \in [Item -> Product]
  BY <1>1, <1>2, <1>7
<1>9. \A i \in Item : /\ product[i].there => product'[i].there
                      /\ product'[i].ghostRetired = product[i].ghostRetired
  BY <1>1, <1>2 DEF Product
<1>10. sync' \in [Sync -> SyncRecord] /\ toggle' \in [Toggle -> ToggleRecord]
  BY <1>2, <1>4, <1>5, PutSync, OvertakeType
<1>11. UNCHANGED <<pos, known, callbacks, parked, halved>>
  BY DEF WriteBatch
<1>12. CatalogueTypes'
  BY <1>8, <1>10, <1>11
     DEF CatalogueInv, pos, CatalogueTypes, SyncRecord, ToggleRecord
<1>13. \A q \in Sync : ~halved => sync'[q].retire = {} /\ FeedIsWholeOrShort(sync'[q])
  BY <1>4, <1>5, <1>6, SyncGoesOn
<1>14. listed' = listed /\ halved' = halved
  BY <1>11 DEF pos
<1>15. NothingToRetire'
  BY <1>8, <1>9, <1>10, <1>13, <1>14, StoreGrows
<1> QED BY <1>12, <1>15 DEF CatalogueInv

LEMMA RestoreInv ==
    ASSUME CatalogueInv, NEW r \in Sync, Restore(r) PROVE CatalogueInv'
<1>1. sync[r] \in SyncRecord /\ product \in [Item -> Product]
  BY DEF CatalogueInv, CatalogueTypes
<1>2. PICK i \in sync[r].restore :
         /\ product' = [product EXCEPT ![i].ghostRetired = FALSE]
         /\ Overtake({i})
         /\ Put(r, [sync[r] EXCEPT !.restore = @ \ {i}])
  BY DEF Restore
<1>3. PICK s : s = [sync[r] EXCEPT !.restore = @ \ {i}]
  OBVIOUS
<1>4. Put(r, s)
  BY <1>2, <1>3
<1>5. /\ s \in SyncRecord /\ s.feed = sync[r].feed /\ s.retire = sync[r].retire
      /\ s.step = sync[r].step
  BY <1>1, <1>3 DEF SyncRecord, SyncStep
<1>6. i \in Item /\ [product[i] EXCEPT !.ghostRetired = FALSE] \in Product
  BY <1>1 DEF SyncRecord, Product
<1>7. product' \in [Item -> Product]
  BY <1>1, <1>2, <1>6
<1>8. \A j \in Item : /\ product[j].there => product'[j].there
                      /\ product'[j].ghostRetired => product[j].ghostRetired
  BY <1>1, <1>2, <1>6 DEF Product
<1>9. sync' \in [Sync -> SyncRecord] /\ toggle' \in [Toggle -> ToggleRecord]
  BY <1>2, <1>4, <1>5, PutSync, OvertakeType
<1>10. UNCHANGED <<pos, known, callbacks, parked, halved>>
  BY DEF Restore
<1>11. CatalogueTypes'
  BY <1>7, <1>9, <1>10
     DEF CatalogueInv, pos, CatalogueTypes, SyncRecord, ToggleRecord
<1>12. \A q \in Sync : ~halved => sync'[q].retire = {} /\ FeedIsWholeOrShort(sync'[q])
  BY <1>4, <1>5, SyncGoesOn
<1>13. listed' = listed /\ halved' = halved
  BY <1>10 DEF pos
<1>14. NothingToRetire'
  BY <1>7, <1>8, <1>9, <1>12, <1>13, StoreGrows
<1> QED BY <1>11, <1>14 DEF CatalogueInv

(* Something was marked: the menu has changed, or half of it was fed.      *)
LEMMA RetireInv ==
    ASSUME CatalogueInv, NEW r \in Sync, Retire(r) PROVE CatalogueInv'
<1>1. sync[r] \in SyncRecord /\ product \in [Item -> Product]
  BY DEF CatalogueInv, CatalogueTypes
<1>2. PICK i \in sync[r].retire :
         /\ product' = [product EXCEPT ![i].inStock = FALSE, ![i].ghostRetired = TRUE]
         /\ Overtake({i})
         /\ Put(r, [sync[r] EXCEPT !.retire = @ \ {i}])
  BY DEF Retire
<1>3. halved
  BY <1>2 DEF CatalogueInv, NothingToRetire
<1>4. i \in Item /\ [product[i] EXCEPT !.inStock = FALSE, !.ghostRetired = TRUE] \in Product
  BY <1>1 DEF SyncRecord, Product
<1>5. product' = [product EXCEPT ![i] = [@ EXCEPT !.inStock = FALSE, !.ghostRetired = TRUE]]
  BY <1>1, <1>2, <1>4 DEF Product
<1>6. product' \in [Item -> Product]
  BY <1>1, <1>4, <1>5
<1>7. [sync[r] EXCEPT !.retire = @ \ {i}] \in SyncRecord
  BY <1>1 DEF SyncRecord
<1>8. sync' \in [Sync -> SyncRecord] /\ toggle' \in [Toggle -> ToggleRecord]
  BY <1>2, <1>7, PutSync, OvertakeType
<1>9. UNCHANGED <<pos, known, callbacks, parked, halved>>
  BY DEF Retire
<1>10. CatalogueTypes'
  BY <1>6, <1>8, <1>9
     DEF CatalogueInv, pos, CatalogueTypes, SyncRecord, ToggleRecord
<1>11. NothingToRetire'
  BY <1>3, <1>9 DEF NothingToRetire
<1> QED BY <1>10, <1>11 DEF CatalogueInv

-----------------------------------------------------------------------------
(* The POS, its callbacks and the toggles pushed to it.                    *)

(* Steps that leave the catalogue as it is.                                *)
LEMMA CatalogueStays ==
    ASSUME CatalogueInv, toggle' \in [Toggle -> ToggleRecord], on' \subseteq Item,
           callbacks' \subseteq StockMessage, parked' \subseteq StockMessage,
           UNCHANGED <<listed, known, sync, halved>>,
           product' \in [Item -> Product],
           \A i \in Item : /\ product'[i].there = product[i].there
                           /\ product'[i].ghostRetired = product[i].ghostRetired
    PROVE  CatalogueInv'
<1>1. sync' \in [Sync -> SyncRecord] /\ sync' = sync
  BY DEF CatalogueInv, CatalogueTypes
<1>2. CatalogueTypes'
  BY <1>1
     DEF CatalogueInv, CatalogueTypes, SyncRecord, ToggleRecord, StockMessage
<1>3. \A q \in Sync : ~halved => sync'[q].retire = {} /\ FeedIsWholeOrShort(sync'[q])
  BY <1>1 DEF CatalogueInv, NothingToRetire
<1>4. NothingToRetire'
  BY <1>1, <1>3, StoreGrows
<1> QED BY <1>2, <1>4 DEF CatalogueInv

LEMMA PosStepInv ==
    ASSUME CatalogueInv, NEW i \in Item, EditMenu(i) \/ TogglePos(i)
    PROVE  CatalogueInv'
<1>1. CASE EditMenu(i)
  <2>1. listed' \subseteq Item /\ halved'
    BY <1>1 DEF EditMenu, CatalogueInv, CatalogueTypes
  <2>2. UNCHANGED <<on, product, known, sync, toggle, callbacks, parked>>
    BY <1>1 DEF EditMenu
  <2>3. CatalogueTypes'
    BY <2>1, <2>2, <1>1 DEF CatalogueInv, CatalogueTypes, EditMenu
  <2> QED BY <2>1, <2>3 DEF CatalogueInv, NothingToRetire
<1>2. CASE TogglePos(i)
  <2>1. [item |-> i, to |-> i \notin on] \in StockMessage
    BY DEF StockMessage
  <2>2. on' \subseteq Item /\ callbacks' \subseteq StockMessage
    BY <1>2, <2>1 DEF TogglePos, CatalogueInv, CatalogueTypes
  <2>3. UNCHANGED <<listed, product, known, sync, toggle, parked, halved>>
    BY <1>2 DEF TogglePos
  <2>4. toggle' \in [Toggle -> ToggleRecord] /\ product' \in [Item -> Product]
        /\ parked' \subseteq StockMessage
    BY <2>3 DEF CatalogueInv, CatalogueTypes
  <2> QED BY <2>2, <2>3, <2>4, CatalogueStays
<1> QED BY <1>1, <1>2

LEMMA MessageType ==
    ASSUME CatalogueInv, NEW t \in Toggle
    PROVE  /\ toggle[t] \in ToggleRecord
           /\ toggle[t].step # "idle" => Message(t) \in StockMessage
           /\ Message(t).item = toggle[t].item /\ Message(t).to = toggle[t].to
<1>1. toggle[t] \in ToggleRecord
  BY DEF CatalogueInv, CatalogueTypes
<1> QED BY <1>1 DEF ToggleRecord, StockMessage, Message

(* Steps of a toggle that write no product.                                *)
LEMMA ToggleMoves ==
    ASSUME CatalogueInv, NEW t \in Toggle, NEW s \in ToggleRecord, Become(t, s),
           on' \subseteq Item, callbacks' \subseteq StockMessage,
           parked' \subseteq StockMessage,
           UNCHANGED <<listed, product, known, sync, halved>>
    PROVE  CatalogueInv'
<1>1. toggle' \in [Toggle -> ToggleRecord]
  BY BecomeType
<1>2. product' \in [Item -> Product]
  BY DEF CatalogueInv, CatalogueTypes
<1> QED BY <1>1, <1>2, CatalogueStays

LEMMA ReceiveStockInv ==
    ASSUME CatalogueInv, NEW t \in Toggle, ReceiveStock(t) PROVE CatalogueInv'
<1>1. PICK m \in callbacks :
        Become(t, [step |-> "received", item |-> m.item, to |-> m.to, current |-> TRUE])
  BY DEF ReceiveStock
<1>2. m \in StockMessage
  BY DEF CatalogueInv, CatalogueTypes
<1>3. [step |-> "received", item |-> m.item, to |-> m.to, current |-> TRUE] \in ToggleRecord
  BY <1>2 DEF StockMessage, ToggleRecord, ToggleStep
<1>4. UNCHANGED <<listed, on, product, known, sync, callbacks, parked, halved>>
  BY DEF ReceiveStock, pos
<1>5. on' \subseteq Item /\ callbacks' \subseteq StockMessage /\ parked' \subseteq StockMessage
  BY <1>4 DEF CatalogueInv, CatalogueTypes
<1> QED BY <1>1, <1>3, <1>4, <1>5, ToggleMoves

LEMMA ReceiveUnknownInv ==
    ASSUME CatalogueInv, NEW t \in Toggle, ReceiveUnknown(t) PROVE CatalogueInv'
<1>1. UNCHANGED <<listed, on, product, known, sync, toggle, halved>>
  BY DEF ReceiveUnknown, pos
<1>2. callbacks' \subseteq StockMessage /\ parked' \subseteq StockMessage
  BY DEF CatalogueInv, ReceiveUnknown, AnswerPos, CatalogueTypes
<1>3. on' \subseteq Item /\ toggle' \in [Toggle -> ToggleRecord]
      /\ product' \in [Item -> Product]
  BY <1>1 DEF CatalogueInv, CatalogueTypes
<1> QED BY <1>1, <1>2, <1>3, CatalogueStays

LEMMA SetStockInv ==
    ASSUME CatalogueInv, NEW t \in Toggle, ApplyStock(t) \/ PushCommit(t)
    PROVE  CatalogueInv'
<1>1. SetStock(t) /\ UNCHANGED <<listed, on, known, sync, parked, halved>>
  BY DEF ApplyStock, PushCommit, pos
<1>2. callbacks' \subseteq StockMessage
  BY DEF CatalogueInv, ApplyStock, PushCommit, AnswerPos, CatalogueTypes
<1>3. on' \subseteq Item /\ parked' \subseteq StockMessage
  BY <1>1 DEF CatalogueInv, CatalogueTypes
<1>4. /\ product' \in [Item -> Product]
      /\ toggle' \in [Toggle -> ToggleRecord]
      /\ \A i \in Item : /\ product'[i].there = product[i].there
                         /\ product'[i].ghostRetired = product[i].ghostRetired
  BY <1>1, SetStockType
<1> QED BY <1>1, <1>2, <1>3, <1>4, CatalogueStays

(* Only a callback it has read is parked by an overtaken toggle.           *)
LEMMA AnswerOvertakenInv ==
    ASSUME CatalogueInv, NEW t \in Toggle, AnswerOvertaken(t)
    PROVE  CatalogueInv'
<1>1. UNCHANGED <<listed, on, product, known, sync, callbacks, halved>>
  BY DEF AnswerOvertaken, pos
<1>2. parked' \subseteq StockMessage
  BY MessageType DEF CatalogueInv, AnswerOvertaken, CatalogueTypes
<1>3. on' \subseteq Item /\ callbacks' \subseteq StockMessage
  BY <1>1 DEF CatalogueInv, CatalogueTypes
<1>4. Become(t, NoToggle)
  BY DEF AnswerOvertaken
<1> QED BY <1>1, <1>2, <1>3, <1>4, NoSyncType, ToggleMoves

LEMMA ToggleEndsInv ==
    ASSUME CatalogueInv, NEW t \in Toggle, ReceiveFails(t) \/ PushFails(t)
    PROVE  CatalogueInv'
<1>1. UNCHANGED <<listed, on, product, known, sync, callbacks, parked, halved>>
  BY DEF ReceiveFails, PushFails, pos
<1>2. on' \subseteq Item /\ callbacks' \subseteq StockMessage /\ parked' \subseteq StockMessage
  BY <1>1 DEF CatalogueInv, CatalogueTypes
<1>3. Become(t, NoToggle)
  BY DEF ReceiveFails, PushFails
<1> QED BY <1>1, <1>2, <1>3, NoSyncType, ToggleMoves

LEMMA PushStartInv ==
    ASSUME CatalogueInv, NEW t \in Toggle, PushStart(t) PROVE CatalogueInv'
<1>1. PICK i \in Stored, to \in BOOLEAN :
         Become(t, [step |-> "calling", item |-> i, to |-> to, current |-> TRUE])
  BY DEF PushStart
<1>2. [step |-> "calling", item |-> i, to |-> to, current |-> TRUE] \in ToggleRecord
  BY DEF Stored, ToggleRecord, ToggleStep
<1>3. UNCHANGED <<listed, on, product, known, sync, callbacks, parked, halved>>
  BY DEF PushStart, pos
<1>4. on' \subseteq Item /\ callbacks' \subseteq StockMessage /\ parked' \subseteq StockMessage
  BY <1>3 DEF CatalogueInv, CatalogueTypes
<1> QED BY <1>1, <1>2, <1>3, <1>4, ToggleMoves

LEMMA PushCallInv ==
    ASSUME CatalogueInv, NEW t \in Toggle, PushCall(t)
    PROVE  CatalogueInv'
<1>1. toggle[t] \in ToggleRecord
  BY DEF CatalogueInv, CatalogueTypes
<1>2. [toggle[t] EXCEPT !.step = "pushed"] \in ToggleRecord /\ toggle[t].item \in Item
  <2>1. toggle[t].step = "calling"
    BY DEF PushCall
  <2>2. toggle[t].item \in Item
    BY <1>1, <2>1 DEF ToggleRecord
  <2> QED BY <1>1, <2>2 DEF ToggleRecord, ToggleStep
<1>3. PICK s \in ToggleRecord : Become(t, s)
  BY <1>2, NoSyncType DEF PushCall
<1>4. on \subseteq Item
  BY DEF CatalogueInv, CatalogueTypes
<1>5. on' \subseteq Item
  BY <1>2, <1>4 DEF PushCall
<1>6. UNCHANGED <<listed, product, known, sync, callbacks, parked, halved>>
  BY DEF PushCall
<1>7. callbacks' \subseteq StockMessage /\ parked' \subseteq StockMessage
  BY <1>6 DEF CatalogueInv, CatalogueTypes
<1> QED BY <1>3, <1>5, <1>6, <1>7, ToggleMoves

-----------------------------------------------------------------------------
LEMMA CatalogueNextInv ==
    CatalogueInv /\ [CatalogueNext]_catalogueVars => CatalogueInv'
<1> SUFFICES ASSUME CatalogueInv, [CatalogueNext]_catalogueVars PROVE CatalogueInv'
  OBVIOUS
<1>1. CASE UNCHANGED catalogueVars
  BY <1>1 DEF catalogueVars, pos, CatalogueInv, CatalogueTypes, NothingToRetire,
              FeedIsWholeOrShort, Stored
<1>2. ASSUME NEW i \in Item, EditMenu(i) \/ TogglePos(i) PROVE CatalogueInv'
  BY <1>2, PosStepInv
<1>3. ASSUME NEW r \in Sync, ReadBranch(r) PROVE CatalogueInv'
  BY <1>3, ReadBranchInv
<1>4. ASSUME NEW r \in Sync, SyncSteps(r) PROVE CatalogueInv'
  BY <1>4, FetchInv, WriteBatchInv, ScanInv, RestoreInv, RetireInv, StampInv DEF SyncSteps
<1>5. ASSUME NEW r \in Sync, PassFails(r) \/ KillSync(r) \/ FetchShort(r) \/ FetchRefused(r)
      PROVE CatalogueInv'
  BY <1>5, PassFailsInv, KillSyncInv, FetchInv
<1>6. ASSUME NEW t \in Toggle, ToggleSteps(t) PROVE CatalogueInv'
  BY <1>6, ReceiveStockInv, ReceiveUnknownInv, SetStockInv, AnswerOvertakenInv,
     PushCallInv, ToggleEndsInv DEF ToggleSteps
<1>7. ASSUME NEW t \in Toggle, PushStart(t) \/ ReceiveFails(t) PROVE CatalogueInv'
  BY <1>7, PushStartInv, ToggleEndsInv
<1> HIDE DEF CatalogueInv
<1> QED BY <1>1, <1>2, <1>3, <1>4, <1>5, <1>6, <1>7 DEF CatalogueNext

LEMMA CatalogueInvIsInvariant == CatalogueSpec => []CatalogueInv
BY CatalogueInitInv, CatalogueNextInv, PTL DEF CatalogueSpec

(* Every variable of the catalogue keeps its type, and what a sync or a    *)
(* toggle carries with it too.                                             *)
THEOREM CatalogueTypeCorrect == CatalogueSpec => []CatalogueTypeOK
<1>1. CatalogueInv => CatalogueTypeOK
  BY DEF CatalogueInv, CatalogueTypes, CatalogueTypeOK, SyncRecord, ToggleRecord, StockMessage
<1> QED BY <1>1, CatalogueInvIsInvariant, PTL

(* A truncated feed takes nothing off sale: retireAbsentProducts, with any *)
(* number of overlapping, dying or repeated syncs and any size of menu,    *)
(* marks no product while the POS keeps its menu and every short feed has  *)
(* less than half of what is stored.                                       *)
THEOREM ShortFeedIsSafe == CatalogueSpec => []ShortFeedRetiresNothing
<1>1. CatalogueInv => ShortFeedRetiresNothing
  BY DEF CatalogueInv, NothingToRetire, ShortFeedRetiresNothing
<1> QED BY <1>1, CatalogueInvIsInvariant, PTL

(* A stock callback stops being delivered only in the step that puts it on *)
(* the product, or that parks it because there is no product.              *)
LEMMA AnswerKeeps ==
    ASSUME CatalogueInv, [CatalogueNext]_catalogueVars,
           NEW m \in callbacks \ callbacks'
    PROVE  \/ product'[m.item].inStock = m.to
           \/ ~product[m.item].there /\ m \in parked'
<1>1. m \in StockMessage
  BY DEF CatalogueInv, CatalogueTypes
<1>2. ASSUME NEW t \in Toggle, ApplyStock(t)
      PROVE  product'[m.item].inStock = m.to
  <2>1. m = Message(t) /\ SetStock(t)
    BY <1>2 DEF ApplyStock, AnswerPos
  <2>2. m.item = toggle[t].item /\ m.to = toggle[t].to
    BY <2>1, MessageType
  <2>3. toggle[t].item \in Item
    BY <1>1, <2>2 DEF StockMessage
  <2> QED BY <2>1, <2>2, <2>3, SetStockType
<1>3. ASSUME NEW t \in Toggle, ReceiveUnknown(t)
      PROVE  ~product[m.item].there /\ m \in parked'
  BY <1>3 DEF ReceiveUnknown, AnswerPos
<1>4. ASSUME NEW t \in Toggle, ToggleSteps(t)
      PROVE  ApplyStock(t) \/ ReceiveUnknown(t)
  BY <1>4 DEF ToggleSteps, ReceiveStock, AnswerOvertaken, PushCall, PushCommit, PushFails
<1>5. ASSUME NEW r \in Sync,
             ReadBranch(r) \/ SyncSteps(r) \/ PassFails(r) \/ KillSync(r) \/ FetchShort(r)
               \/ FetchRefused(r)
      PROVE  callbacks' = callbacks
  BY <1>5 DEF ReadBranch, SyncSteps, PassFails, KillSync, FetchShort, FetchRefused,
              Fetch, WriteBatch, ScanCatalogue, Restore, Retire, Stamp
<1>6. ASSUME NEW i \in Item, EditMenu(i) \/ TogglePos(i) PROVE callbacks \subseteq callbacks'
  BY <1>6 DEF EditMenu, TogglePos
<1>7. ASSUME NEW t \in Toggle, PushStart(t) \/ ReceiveFails(t) PROVE callbacks' = callbacks
  BY <1>7 DEF PushStart, ReceiveFails
<1>8. UNCHANGED catalogueVars => callbacks' = callbacks
  BY DEF catalogueVars
<1> QED BY <1>2, <1>3, <1>4, <1>5, <1>6, <1>7, <1>8 DEF CatalogueNext

(* A callback answered 200 is on the product as it is answered, or, with   *)
(* no product, in front of an operator: handlePetpoojaStockWebhook, every  *)
(* interleaving with syncs, other callbacks and the display's own toggles. *)
THEOREM AnswersAreKept == CatalogueSpec => AnsweredIsKept
<1>1. CatalogueInv /\ [CatalogueNext]_catalogueVars
        => [\A m \in callbacks \ callbacks' :
              \/ product'[m.item].inStock = m.to
              \/ ~product[m.item].there /\ m \in parked']_catalogueVars
  BY AnswerKeeps
<1> QED BY <1>1, CatalogueInvIsInvariant, PTL DEF CatalogueSpec, AnsweredIsKept
=============================================================================
