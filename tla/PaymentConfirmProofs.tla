------------------------ MODULE PaymentConfirmProofs ------------------------
(***************************************************************************)
(* Proofs about PaymentConfirm for any number of verifiers, deliveries,    *)
(* payments, events and crashes.                                           *)
(*                                                                         *)
(* The argument: what an execution has learned about its payment at the    *)
(* gateway stays true (a captured payment stays captured), and what it has *)
(* written is never taken back (a binding is never replaced, a parked      *)
(* payment stays parked).  So every label carries a fact about the store   *)
(* that no rival can falsify, and the ack at the end may rely on it.       *)
(***************************************************************************)
EXTENDS PaymentConfirm, TLAPS

(* The gateway announces a capture only after it happened.                 *)
EmittedIsTrue ==
    \A e \in emitted :
        e.kind # "failed" => gateway[e.pay] \in {"captured", "mispaid"}

(* What verifyPayment knows at each label.                                 *)
VerifierKnows ==
    \A v \in Verifier :
        /\ pc[v] \in {"idle", "fetch", "uncaptured", "truth", "split",
                      "finish", "debit", "parking"}
        /\ pc[v] # "idle" => pay[v] \in Payment
        /\ pc[v] \in {"truth", "split", "finish", "debit"}
              => gateway[pay[v]] = "captured"
        /\ pc[v] = "debit" => bound = pay[v]

(* What a delivery knows at each label.                                    *)
DeliveryKnows ==
    \A d \in Delivery :
        /\ pc[d] \in {"idle", "takeover", "claimed", "confirm", "split",
                      "debit", "parking", "completing"}
        /\ pc[d] # "idle" => /\ event[d] \in emitted
                             /\ pay[d] = event[d].pay
        /\ pc[d] \in {"confirm", "split", "debit"}
              => gateway[pay[d]] = "captured"
        /\ pc[d] \in {"split", "debit"} => bound = pay[d]
        /\ pc[d] = "completing" /\ event[d].kind # "failed"
              => Accounted(pay[d])

IInv ==
    /\ TypeOK
    /\ EmittedIsTrue
    /\ VerifierKnows
    /\ DeliveryKnows
    /\ BoundIsCaptured
    /\ AckedIsAccounted
    /\ CoinsFollowTheBinding
    /\ BoundNeverFails

LEMMA InitIInv == Init => IInv
<1> SUFFICES ASSUME Init PROVE IInv
  OBVIOUS
<1> QED
  BY ConstantsAssumption
  DEF Init, IInv, TypeOK, EmittedIsTrue, VerifierKnows, DeliveryKnows,
      BoundIsCaptured, AckedIsAccounted, CoinsFollowTheBinding,
      BoundNeverFails, StatusCode, PayStatus, Claim, GatewayStatus, PC, Actor

(* The inductive step, one action at a time.                              *)
LEMMA StepIInv == IInv /\ [Next]_vars => IInv'
<1> SUFFICES ASSUME IInv, [Next]_vars PROVE IInv'
  OBVIOUS
<1> USE ConstantsAssumption
    DEF IInv, TypeOK, EmittedIsTrue, VerifierKnows, DeliveryKnows,
        BoundIsCaptured, AckedIsAccounted, CoinsFollowTheBinding,
        BoundNeverFails, Accounted, Foreign, Actor, StatusCode, Terminal,
        PayStatus, Claim, GatewayStatus, PC, EventKind, orderVars,
        ledgerVars, gateVars, callVars, Goto, Return, Park
<1>1. ASSUME NEW v \in Verifier, NEW p \in Payment, StartVerify(v, p) PROVE IInv'
  BY <1>1 DEF StartVerify
<1>2. ASSUME NEW v \in Verifier, FetchAccepts(v) PROVE IInv'
  BY <1>2 DEF FetchAccepts
<1>3. ASSUME NEW v \in Verifier, FetchMismatch(v) PROVE IInv'
  BY <1>3 DEF FetchMismatch
<1>4. ASSUME NEW v \in Verifier, FetchUncaptured(v) PROVE IInv'
  BY <1>4 DEF FetchUncaptured
<1>5. ASSUME NEW v \in Verifier, AwaitCapture(v) PROVE IInv'
  BY <1>5 DEF AwaitCapture
<1>6. ASSUME NEW v \in Verifier, TruthRefuses(v) PROVE IInv'
  BY <1>6 DEF TruthRefuses
<1>7. ASSUME NEW v \in Verifier, TruthAllows(v) PROVE IInv'
  BY <1>7 DEF TruthAllows
<1>8. ASSUME NEW v \in Verifier, VerifySplits(v) PROVE IInv'
  BY <1>8 DEF VerifySplits, RouteSplit
<1>9. ASSUME NEW v \in Verifier, VerifyConflicts(v) PROVE IInv'
  BY <1>9 DEF VerifyConflicts
<1>10. ASSUME NEW v \in Verifier, VerifyBusy(v) PROVE IInv'
  BY <1>10 DEF VerifyBusy
<1>11. ASSUME NEW v \in Verifier, FinishConfirms(v) PROVE IInv'
  BY <1>11 DEF FinishConfirms, AlreadyCompleted, VerifySeesLater,
               WriteConfirmed, MintOtp
<1>12. ASSUME NEW v \in Verifier, FinishConflicts(v) PROVE IInv'
  BY <1>12 DEF FinishConflicts
<1>13. ASSUME NEW v \in Verifier, FinishFindsConfirmed(v) PROVE IInv'
  BY <1>13 DEF FinishFindsConfirmed, MintOtp
<1>14. ASSUME NEW v \in Verifier, VerifyDebits(v) PROVE IInv'
  BY <1>14 DEF VerifyDebits
<1>15. ASSUME NEW v \in Verifier, VerifyParks(v) PROVE IInv'
  BY <1>15 DEF VerifyParks
<1>16. ASSUME NEW d \in Delivery, NEW e \in Event, ClaimNew(d, e) PROVE IInv'
  BY <1>16 DEF ClaimNew, Deliverable, SetClaim, Receive
<1>17. ASSUME NEW d \in Delivery, NEW e \in Event, FindStaleClaim(d, e) PROVE IInv'
  BY <1>17 DEF FindStaleClaim, Deliverable, Receive
<1>18. ASSUME NEW d \in Delivery, TakeOver(d) PROVE IInv'
  BY <1>18 DEF TakeOver, SetClaim
<1>19. ASSUME NEW d \in Delivery, WebhookParksUnbindable(d) PROVE IInv'
  BY <1>19 DEF WebhookParksUnbindable, MoneyEvent
<1>20. ASSUME NEW d \in Delivery, WebhookBinds(d) PROVE IInv'
  BY <1>20 DEF WebhookBinds, MoneyEvent
<1>21. ASSUME NEW d \in Delivery, WebhookConfirms(d) PROVE IInv'
  BY <1>21 DEF WebhookConfirms, WriteConfirmed, MintOtp
<1>22. ASSUME NEW d \in Delivery, WebhookSuppressed(d) PROVE IInv'
  BY <1>22 DEF WebhookSuppressed
<1>23. ASSUME NEW d \in Delivery, WebhookParks(d) PROVE IInv'
  BY <1>23 DEF WebhookParks
<1>24. ASSUME NEW d \in Delivery, WebhookSplits(d) PROVE IInv'
  BY <1>24 DEF WebhookSplits, RouteSplit
<1>25. ASSUME NEW d \in Delivery, WebhookDebits(d) PROVE IInv'
  BY <1>25 DEF WebhookDebits
<1>26. ASSUME NEW d \in Delivery, WebhookFails(d) PROVE IInv'
  BY <1>26 DEF WebhookFails
<1>27. ASSUME NEW d \in Delivery, Complete(d) PROVE IInv'
  BY <1>27 DEF Complete, SetClaim
<1>28. ASSUME NEW p \in Payment, Authorize(p) PROVE IInv'
  BY <1>28 DEF Authorize
<1>29. ASSUME NEW p \in Payment, AttemptFails(p) PROVE IInv'
  BY <1>29 DEF AttemptFails
<1>30. ASSUME NEW p \in Payment, Capture(p) PROVE IInv'
  BY <1>30 DEF Capture
<1>31. ASSUME NEW e \in Event, Expire(e) PROVE IInv'
  BY <1>31 DEF Expire
<1>32. ASSUME NEW e \in Event, ClaimGoesStale(e) PROVE IInv'
  BY <1>32 DEF ClaimGoesStale
<1>33. ASSUME NEW s \in BumpCode, Bump(s) PROVE IInv'
  BY <1>33 DEF Bump
<1>34. ASSUME NEW a \in Actor, Abort(a) PROVE IInv'
  BY <1>34 DEF Abort
<1>35. ASSUME PlaceOrder PROVE IInv'
  BY <1>35 DEF PlaceOrder
<1>36. ASSUME WorkerPaysOut PROVE IInv'
  BY <1>36 DEF WorkerPaysOut
<1>37. CASE UNCHANGED vars
  BY <1>37 DEF vars
<1> QED
  BY <1>1, <1>2, <1>3, <1>4, <1>5, <1>6, <1>7, <1>8, <1>9, <1>10, <1>11,
     <1>12, <1>13, <1>14, <1>15, <1>16, <1>17, <1>18, <1>19, <1>20, <1>21,
     <1>22, <1>23, <1>24, <1>25, <1>26, <1>27, <1>28, <1>29, <1>30, <1>31,
     <1>32, <1>33, <1>34, <1>35, <1>36, <1>37
  DEF Next, VerifyStep, DeliveryStep

LEMMA Invariance == Spec => []IInv
<1>1. Init => IInv
  BY InitIInv
<1>2. IInv /\ [Next]_vars => IInv'
  BY StepIInv
<1> QED
  BY <1>1, <1>2, PTL DEF Spec

-----------------------------------------------------------------------------
(* Every variable keeps its type, for any number of executions.            *)
THEOREM TypeCorrect == Spec => []TypeOK
<1>1. IInv => TypeOK
  BY DEF IInv
<1> QED
  BY <1>1, Invariance, PTL

(* No order is confirmed by a payment the gateway did not capture for its  *)
(* amount, through either channel.                                         *)
THEOREM ConfirmedByCapture == Spec => []BoundIsCaptured
<1>1. IInv => BoundIsCaptured
  BY DEF IInv
<1> QED
  BY <1>1, Invariance, PTL

(* An acked money event leaves its payment bound or parked, through any    *)
(* number of crashes, takeovers of the claim and concurrent deliveries.    *)
THEOREM NoSilentMoney == Spec => []AckedIsAccounted
<1>1. IInv => AckedIsAccounted
  BY DEF IInv
<1> QED
  BY <1>1, Invariance, PTL

(* Coins are debited for the payment the order is bound to and no other.   *)
THEOREM DebitsFollowTheBinding == Spec => []CoinsFollowTheBinding
<1>1. IInv => CoinsFollowTheBinding
  BY DEF IInv
<1> QED
  BY <1>1, Invariance, PTL

(* No payment.failed, late or replayed, fails an order with a capture.     *)
THEOREM CapturedOrderNeverFails == Spec => []BoundNeverFails
<1>1. IInv => BoundNeverFails
  BY DEF IInv
<1> QED
  BY <1>1, Invariance, PTL

-----------------------------------------------------------------------------
(* What no step takes back: the binding, the OTP hash, and the status of a *)
(* paid order, which only the kitchen moves.                               *)
Kept ==
    /\ bound # None => bound' = bound
    /\ otp # None => otp' = otp
    /\ paymentStatus = "completed" /\ status \in Later
         /\ status' = "CONFIRMED" => callVars' = callVars

LEMMA StepKept == [Next]_vars => Kept
<1> SUFFICES ASSUME [Next]_vars PROVE Kept
  OBVIOUS
<1> USE DEF Kept, Later, Terminal, orderVars, callVars, Foreign
<1>1. ASSUME NEW v \in Verifier, NEW p \in Payment, StartVerify(v, p) PROVE Kept
  BY <1>1 DEF StartVerify
<1>2. ASSUME NEW v \in Verifier, FetchAccepts(v) PROVE Kept
  BY <1>2 DEF FetchAccepts
<1>3. ASSUME NEW v \in Verifier, FetchMismatch(v) PROVE Kept
  BY <1>3 DEF FetchMismatch
<1>4. ASSUME NEW v \in Verifier, FetchUncaptured(v) PROVE Kept
  BY <1>4 DEF FetchUncaptured
<1>5. ASSUME NEW v \in Verifier, AwaitCapture(v) PROVE Kept
  BY <1>5 DEF AwaitCapture
<1>6. ASSUME NEW v \in Verifier, TruthRefuses(v) PROVE Kept
  BY <1>6 DEF TruthRefuses
<1>7. ASSUME NEW v \in Verifier, TruthAllows(v) PROVE Kept
  BY <1>7 DEF TruthAllows
<1>8. ASSUME NEW v \in Verifier, VerifySplits(v) PROVE Kept
  BY <1>8 DEF VerifySplits, RouteSplit
<1>9. ASSUME NEW v \in Verifier, VerifyConflicts(v) PROVE Kept
  BY <1>9 DEF VerifyConflicts
<1>10. ASSUME NEW v \in Verifier, VerifyBusy(v) PROVE Kept
  BY <1>10 DEF VerifyBusy
<1>11. ASSUME NEW v \in Verifier, FinishConfirms(v) PROVE Kept
  BY <1>11 DEF FinishConfirms, AlreadyCompleted, VerifySeesLater,
               WriteConfirmed, MintOtp
<1>12. ASSUME NEW v \in Verifier, FinishConflicts(v) PROVE Kept
  BY <1>12 DEF FinishConflicts
<1>13. ASSUME NEW v \in Verifier, FinishFindsConfirmed(v) PROVE Kept
  BY <1>13 DEF FinishFindsConfirmed, MintOtp
<1>14. ASSUME NEW v \in Verifier, VerifyDebits(v) PROVE Kept
  BY <1>14 DEF VerifyDebits
<1>15. ASSUME NEW v \in Verifier, VerifyParks(v) PROVE Kept
  BY <1>15 DEF VerifyParks
<1>16. ASSUME NEW d \in Delivery, NEW e \in Event, ClaimNew(d, e) PROVE Kept
  BY <1>16 DEF ClaimNew
<1>17. ASSUME NEW d \in Delivery, NEW e \in Event, FindStaleClaim(d, e) PROVE Kept
  BY <1>17 DEF FindStaleClaim
<1>18. ASSUME NEW d \in Delivery, TakeOver(d) PROVE Kept
  BY <1>18 DEF TakeOver
<1>19. ASSUME NEW d \in Delivery, WebhookParksUnbindable(d) PROVE Kept
  BY <1>19 DEF WebhookParksUnbindable
<1>20. ASSUME NEW d \in Delivery, WebhookBinds(d) PROVE Kept
  BY <1>20 DEF WebhookBinds
<1>21. ASSUME NEW d \in Delivery, WebhookConfirms(d) PROVE Kept
  BY <1>21 DEF WebhookConfirms, WriteConfirmed, MintOtp, WebhookSeesLater
<1>22. ASSUME NEW d \in Delivery, WebhookSuppressed(d) PROVE Kept
  BY <1>22 DEF WebhookSuppressed
<1>23. ASSUME NEW d \in Delivery, WebhookParks(d) PROVE Kept
  BY <1>23 DEF WebhookParks
<1>24. ASSUME NEW d \in Delivery, WebhookSplits(d) PROVE Kept
  BY <1>24 DEF WebhookSplits, RouteSplit
<1>25. ASSUME NEW d \in Delivery, WebhookDebits(d) PROVE Kept
  BY <1>25 DEF WebhookDebits
<1>26. ASSUME NEW d \in Delivery, WebhookFails(d) PROVE Kept
  BY <1>26 DEF WebhookFails
<1>27. ASSUME NEW d \in Delivery, Complete(d) PROVE Kept
  BY <1>27 DEF Complete
<1>28. ASSUME NEW p \in Payment, Authorize(p) PROVE Kept
  BY <1>28 DEF Authorize
<1>29. ASSUME NEW p \in Payment, AttemptFails(p) PROVE Kept
  BY <1>29 DEF AttemptFails
<1>30. ASSUME NEW p \in Payment, Capture(p) PROVE Kept
  BY <1>30 DEF Capture
<1>31. ASSUME NEW e \in Event, Expire(e) PROVE Kept
  BY <1>31 DEF Expire
<1>32. ASSUME NEW e \in Event, ClaimGoesStale(e) PROVE Kept
  BY <1>32 DEF ClaimGoesStale
<1>33. ASSUME NEW s \in BumpCode, Bump(s) PROVE Kept
  BY <1>33 DEF Bump
<1>34. ASSUME NEW a \in Actor, Abort(a) PROVE Kept
  BY <1>34 DEF Abort
<1>35. ASSUME PlaceOrder PROVE Kept
  BY <1>35 DEF PlaceOrder
<1>36. ASSUME WorkerPaysOut PROVE Kept
  BY <1>36 DEF WorkerPaysOut
<1>37. CASE UNCHANGED vars
  BY <1>37 DEF vars
<1> QED
  BY <1>1, <1>2, <1>3, <1>4, <1>5, <1>6, <1>7, <1>8, <1>9, <1>10, <1>11,
     <1>12, <1>13, <1>14, <1>15, <1>16, <1>17, <1>18, <1>19, <1>20, <1>21,
     <1>22, <1>23, <1>24, <1>25, <1>26, <1>27, <1>28, <1>29, <1>30, <1>31,
     <1>32, <1>33, <1>34, <1>35, <1>36, <1>37
  DEF Next, VerifyStep, DeliveryStep

(* The first captured payment stays authoritative: no second capture ever  *)
(* takes the order over.                                                   *)
THEOREM FirstCaptureWins == Spec => FirstCaptureStays
<1>1. [Next]_vars => (bound # None => bound' = bound)
  BY StepKept DEF Kept
<1> QED
  BY <1>1, PTL DEF Spec, FirstCaptureStays

(* The delivery OTP is minted once: confirm, webhook and backfill never    *)
(* replace a hash.                                                         *)
THEOREM OtpMintedOnce == Spec => OtpNeverReplaced
<1>1. [Next]_vars => (otp # None => otp' = otp)
  BY StepKept DEF Kept
<1> QED
  BY <1>1, PTL DEF Spec, OtpNeverReplaced

(* No repeated confirmation takes a paid order back from the kitchen.      *)
THEOREM PaidOrderMovesForward == Spec => PaidOrderNeverRegresses
<1>1. [Next]_vars => (paymentStatus = "completed" /\ status \in Later
                        /\ status' = "CONFIRMED" => callVars' = callVars)
  BY StepKept DEF Kept
<1> QED
  BY <1>1, PTL DEF Spec, PaidOrderNeverRegresses

=============================================================================
