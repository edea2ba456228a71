--------------------------- MODULE PaymentConfirm ---------------------------
(***************************************************************************)
(* How ONE order learns that it is paid: verifyPayment, called by the app  *)
(* (payments/razorpay.service.ts), the payment.captured, order.paid and    *)
(* payment.failed webhooks (payments/webhookHandler.ts) and the kitchen's  *)
(* bumpOrderStatus (orders/orderStatus.ts), all running at the same time.  *)
(*                                                                         *)
(* A verifier is one execution of verifyPayment; a delivery is one         *)
(* execution of the webhook handler.  A label stands before every read or  *)
(* write of the store and every gateway call, so the executions interleave *)
(* between them; a Firestore transaction is one action.                    *)
(*                                                                         *)
(* The Route split is called here and modelled in RouteTransfer: only its  *)
(* result and the payment it paid out of matter.  The kitchen ticket, the  *)
(* audit docs and the marker shown to the payer decide nothing here.       *)
(***************************************************************************)
EXTENDS Naturals, FiniteSets

CONSTANTS Verifier,     \* executions of verifyPayment
          Delivery,     \* executions of the webhook handler
          Payment,      \* gateway payments made for the order
          Event,        \* webhook events, [kind |-> ..., pay |-> ...]
          None,         \* absent value
          HasOtp,       \* the order is handed over against an OTP
          BumpCode,     \* status codes the kitchen and the payer write
          MissesWindow, \* TRUE: a first delivery may come 15 minutes late
          MaxCrashes    \* exploration bound on executions cut short

Terminal   == {"DELIVERED", "CANCELLED"}
StatusCode == {"PLACED", "CONFIRMED", "PREPARING", "READY_FOR_PICKUP",
               "OUT_FOR_DELIVERY"} \cup Terminal
EventKind == {"captured", "order_paid", "failed"}

ASSUME ConstantsAssumption ==
    /\ Verifier \cap Delivery = {}
    /\ None \notin Payment \cup Event \cup Verifier \cup Delivery
    /\ Event \subseteq [kind : EventKind, pay : Payment]
    /\ BumpCode \subseteq StatusCode
    /\ MissesWindow \in BOOLEAN /\ HasOtp \in BOOLEAN
    /\ MaxCrashes \in Nat

Actor == Verifier \cup Delivery

VARIABLES
    status,         \* orders/{id}.status.code, "absent" without a document
    paymentStatus,  \* paymentStatus, and "payment.status" written with it
    bound,          \* payment.razorpayPaymentId; payment.status with it
    otp,            \* who minted deliveryOtpHash
    paidOut,        \* the payment the Route split paid out of
    debited,        \* ledger docs coin_redemption_<gateway order>
    parked,         \* payments in unmatched_payments/payment_discrepancies
    claim,          \* payment_audits/aud_evt_<event>
    gateway,        \* what payments.fetch says of each payment
    emitted,        \* events the gateway delivers until they are acked
    expired,        \* events created more than 15 minutes ago
    pc, pay, event, \* locals of each execution
    crashes

orderVars == <<status, paymentStatus, bound, otp, paidOut>>
ledgerVars == <<debited, parked, claim>>
gateVars  == <<gateway, emitted, expired>>
callVars  == <<pc, pay, event>>
vars == <<orderVars, ledgerVars, gateVars, callVars, crashes>>

PayStatus == {"pending", "awaiting_capture", "failed", "completed"}
Claim     == {"none", "held", "stale", "done"}
(* mispaid: captured, for another amount or currency than the order's.     *)
GatewayStatus == {"created", "authorized", "captured", "mispaid", "failed"}
PC == {"idle", "fetch", "uncaptured", "truth", "split", "finish", "debit",
       "parking", "takeover", "claimed", "confirm", "completing"}

TypeOK ==
    /\ status \in StatusCode \cup {"absent"}
    /\ paymentStatus \in PayStatus
    /\ bound \in Payment \cup {None}
    /\ otp \in Actor \cup {None}
    /\ paidOut \in Payment \cup {None}
    /\ debited \subseteq Payment
    /\ parked \subseteq Payment
    /\ claim \in [Event -> Claim]
    /\ gateway \in [Payment -> GatewayStatus]
    /\ emitted \subseteq Event
    /\ expired \subseteq Event
    /\ pc \in [Actor -> PC]
    /\ pay \in [Actor -> Payment \cup {None}]
    /\ event \in [Actor -> Event \cup {None}]
    /\ crashes \in Nat

Init ==
    /\ status \in {"absent", "PLACED"}
    /\ paymentStatus = "pending" /\ bound = None /\ otp = None
    /\ paidOut = None
    /\ debited = {} /\ parked = {}
    /\ claim = [e \in Event |-> "none"]
    /\ gateway = [p \in Payment |-> "created"]
    /\ emitted = {} /\ expired = {}
    /\ pc = [a \in Actor |-> "idle"]
    /\ pay = [a \in Actor |-> None]
    /\ event = [a \in Actor |-> None]
    /\ crashes = 0

-----------------------------------------------------------------------------
(* Shared steps of the executions *)

Goto(a, label) ==
    /\ pc' = [pc EXCEPT ![a] = label]
    /\ UNCHANGED <<pay, event>>

(* The execution ends; its locals are gone.                                *)
Return(a) ==
    /\ pc' = [pc EXCEPT ![a] = "idle"]
    /\ pay' = [pay EXCEPT ![a] = None]
    /\ event' = [event EXCEPT ![a] = None]

Foreign(p) == bound \notin {None, p}

(* mintDeliveryOtp: only an eligible order that has no hash yet.           *)
MintOtp(a) == otp' = IF HasOtp /\ otp = None THEN a ELSE otp

(* The confirmation written by both channels.                              *)
WriteConfirmed(a) ==
    /\ paymentStatus' = "completed"
    /\ bound' = pay[a]
    /\ status' = "CONFIRMED"
    /\ MintOtp(a)
    /\ UNCHANGED paidOut

Park(a) ==
    /\ parked' = parked \cup {pay[a]}
    /\ UNCHANGED <<debited, claim>>

(* executeRouteSplit with the payment of a, when it returns and is not in  *)
(* conflict or busy.  A receipt that is there is returned before the       *)
(* binding is looked at; a cancelled order is refused and its payment      *)
(* parked; otherwise the branch is paid out of the payment, or the payout  *)
(* is flagged for later.                                                   *)
RouteSplit(a) ==
    /\ UNCHANGED <<status, paymentStatus, bound, otp>>
    /\ \/ paidOut # None /\ UNCHANGED <<paidOut, ledgerVars>>
       \/ /\ paidOut = None /\ ~Foreign(pay[a])
          /\ \/ status = "CANCELLED" /\ Park(a) /\ UNCHANGED paidOut
             \/ /\ status # "CANCELLED"
                /\ paidOut' \in {None, pay[a]}
                /\ UNCHANGED ledgerVars

(* A payment is settled with the order or is on a list somebody reviews.   *)
Accounted(p) == p = bound \/ p \in parked

-----------------------------------------------------------------------------
(* The gateway and the clock *)

(* Checkout: the payer authorizes a payment or the attempt fails; a failed *)
(* attempt may still be authorized late.                                   *)
Authorize(p) ==
    /\ gateway[p] \in {"created", "failed"}
    /\ gateway' = [gateway EXCEPT ![p] = "authorized"]
    /\ UNCHANGED <<orderVars, ledgerVars, emitted, expired, callVars, crashes>>

AttemptFails(p) ==
    /\ gateway[p] = "created"
    /\ gateway' = [gateway EXCEPT ![p] = "failed"]
    /\ emitted' = emitted \cup {e \in Event : e.pay = p /\ e.kind = "failed"}
    /\ UNCHANGED <<orderVars, ledgerVars, expired, callVars, crashes>>

Capture(p) ==
    /\ gateway[p] = "authorized"
    /\ \E s \in {"captured", "mispaid"} :
           gateway' = [gateway EXCEPT ![p] = s]
    /\ emitted' = emitted \cup {e \in Event : e.pay = p /\ e.kind # "failed"}
    /\ UNCHANGED <<orderVars, ledgerVars, expired, callVars, crashes>>

(* Fifteen minutes pass before a delivery has claimed the event; the age   *)
(* of a claimed one is not looked at.                                      *)
Expire(e) ==
    /\ MissesWindow
    /\ e \in emitted \ expired /\ claim[e] = "none"
    /\ expired' = expired \cup {e}
    /\ UNCHANGED <<orderVars, ledgerVars, gateway, emitted, callVars, crashes>>

(* The executions that work under the claim of event e.                    *)
WorkingOn(e) == {d \in Delivery : event[d] = e /\ pc[d] # "takeover"}

(* Ten minutes pass: longer than any execution lives (60 s).               *)
ClaimGoesStale(e) ==
    /\ claim[e] = "held" /\ WorkingOn(e) = {}
    /\ claim' = [claim EXCEPT ![e] = "stale"]
    /\ UNCHANGED <<orderVars, debited, parked, gateVars, callVars, crashes>>

-----------------------------------------------------------------------------
(* verifyPayment *)

(* The signature binds the payment to a gateway order, and the intent of   *)
(* that binds it to this order.  A missing order is created from the       *)
(* intent; whoever creates it, it is placed and unpaid.                    *)
StartVerify(v, p) ==
    /\ pc[v] = "idle"
    /\ gateway[p] \in {"authorized", "captured", "mispaid"}
    /\ pc' = [pc EXCEPT ![v] = "fetch"]
    /\ pay' = [pay EXCEPT ![v] = p]
    /\ status' = IF status = "absent" THEN "PLACED" ELSE status
    /\ UNCHANGED <<paymentStatus, bound, otp, paidOut, ledgerVars, gateVars,
                   event, crashes>>

(* assertLivePaymentMatchesOrder.                                          *)
FetchAccepts(v) ==
    /\ pc[v] = "fetch"
    /\ gateway[pay[v]] = "captured"
    /\ Goto(v, "truth")
    /\ UNCHANGED <<orderVars, ledgerVars, gateVars, crashes>>

FetchMismatch(v) ==
    /\ pc[v] = "fetch"
    /\ gateway[pay[v]] = "mispaid"
    /\ Park(v)
    /\ Return(v)
    /\ UNCHANGED <<orderVars, gateVars, crashes>>

FetchUncaptured(v) ==
    /\ pc[v] = "fetch"
    /\ gateway[pay[v]] = "authorized"
    /\ Goto(v, "uncaptured")
    /\ UNCHANGED <<orderVars, ledgerVars, gateVars, crashes>>

(* The write that follows looks at nothing: no transaction, no guard.      *)
AwaitCapture(v) ==
    /\ pc[v] = "uncaptured"
    /\ paymentStatus' = "awaiting_capture"
    /\ Park(v)
    /\ Return(v)
    /\ UNCHANGED <<status, bound, otp, paidOut, gateVars, crashes>>

(* The fresh read before any money moves.                                  *)
TruthRefuses(v) ==
    /\ pc[v] = "truth"
    /\ status = "CANCELLED" \/ Foreign(pay[v])
    /\ Goto(v, "parking")
    /\ UNCHANGED <<orderVars, ledgerVars, gateVars, crashes>>

TruthAllows(v) ==
    /\ pc[v] = "truth"
    /\ status # "CANCELLED" /\ ~Foreign(pay[v])
    /\ Goto(v, "split")
    /\ UNCHANGED <<orderVars, ledgerVars, gateVars, crashes>>

VerifySplits(v) ==
    /\ v \in Verifier /\ pc[v] = "split"
    /\ RouteSplit(v)
    /\ Goto(v, "finish")
    /\ UNCHANGED <<gateVars, crashes>>

VerifyConflicts(v) ==
    /\ v \in Verifier /\ pc[v] = "split"
    /\ paidOut = None /\ Foreign(pay[v])
    /\ Goto(v, "parking")
    /\ UNCHANGED <<orderVars, ledgerVars, gateVars, crashes>>

(* The lease of the payout is taken: 202, the app calls again.             *)
VerifyBusy(v) ==
    /\ v \in Verifier /\ pc[v] = "split"
    /\ paidOut = None /\ ~Foreign(pay[v])
    /\ Return(v)
    /\ UNCHANGED <<orderVars, ledgerVars, gateVars, crashes>>

(* finishVerifiedPayment: what its transaction reads.  READY_FOR_PICKUP is *)
(* not among its later statuses.                                           *)
AlreadyCompleted == paymentStatus = "completed" \/ status = "CONFIRMED"
VerifySeesLater ==
    status \in {"PREPARING", "OUT_FOR_DELIVERY"} \cup Terminal

FinishConfirms(v) ==
    /\ pc[v] = "finish" /\ ~Foreign(pay[v])
    /\ ~AlreadyCompleted /\ ~VerifySeesLater
    /\ WriteConfirmed(v)
    /\ Goto(v, "debit")
    /\ UNCHANGED <<ledgerVars, gateVars, crashes>>

FinishConflicts(v) ==
    /\ pc[v] = "finish" /\ Foreign(pay[v])
    /\ Goto(v, "parking")
    /\ UNCHANGED <<orderVars, ledgerVars, gateVars, crashes>>

(* Confirmed by somebody else, or past it: at most the missing OTP hash is *)
(* written, no binding; the answer is "ok" unless the order is cancelled.  *)
FinishFindsConfirmed(v) ==
    /\ pc[v] = "finish" /\ ~Foreign(pay[v])
    /\ AlreadyCompleted \/ VerifySeesLater
    /\ IF AlreadyCompleted /\ ~VerifySeesLater
       THEN MintOtp(v) ELSE UNCHANGED otp
    /\ Return(v)
    /\ UNCHANGED <<status, paymentStatus, bound, paidOut, ledgerVars, gateVars,
                   crashes>>

(* debitRedeemedCoins, once per gateway order; a failure is only logged.   *)
VerifyDebits(v) ==
    /\ v \in Verifier /\ pc[v] = "debit"
    /\ debited' \in {debited, debited \cup {pay[v]}}
    /\ Return(v)
    /\ UNCHANGED <<orderVars, parked, claim, gateVars, crashes>>

(* parkSecondCaptureMismatch, or the park doc of a cancelled order.        *)
VerifyParks(v) ==
    /\ v \in Verifier /\ pc[v] = "parking"
    /\ Park(v)
    /\ Return(v)
    /\ UNCHANGED <<orderVars, gateVars, crashes>>

-----------------------------------------------------------------------------
(* handleRazorpayWebhook *)

(* Deliveries are repeated until one is acked.  A done event is acked and  *)
(* a held one answered 500 with nothing written.                           *)
Deliverable(d, e) == d \in Delivery /\ pc[d] = "idle" /\ e \in emitted

Receive(d, e, label) ==
    /\ pc' = [pc EXCEPT ![d] = label]
    /\ pay' = [pay EXCEPT ![d] = e.pay]
    /\ event' = [event EXCEPT ![d] = e]

SetClaim(e, c) ==
    /\ claim' = [claim EXCEPT ![e] = c]
    /\ UNCHANGED <<debited, parked>>

(* A first delivery: the claim doc is created, unless the event is too old *)
(* (it is created and deleted again, and the delivery refused).            *)
ClaimNew(d, e) ==
    /\ Deliverable(d, e) /\ claim[e] = "none" /\ e \notin expired
    /\ SetClaim(e, "held")
    /\ Receive(d, e, "claimed")
    /\ UNCHANGED <<orderVars, gateVars, crashes>>

(* Mutant: a claim found without completion is taken for a processed one.  *)
FindStaleClaim_Acked(d, e) ==
    /\ Deliverable(d, e) /\ claim[e] = "stale"
    /\ emitted' = emitted \ {e}
    /\ UNCHANGED <<orderVars, ledgerVars, gateway, expired, callVars, crashes>>

(* A claim of a delivery that died is read, then stamped: two writes.      *)
FindStaleClaim(d, e) ==
    /\ Deliverable(d, e) /\ claim[e] = "stale"
    /\ Receive(d, e, "takeover")
    /\ UNCHANGED <<orderVars, ledgerVars, gateVars, crashes>>

(* Merged over whatever the doc says by then.                              *)
TakeOver(d) ==
    /\ pc[d] = "takeover"
    /\ IF claim[event[d]] = "done" THEN UNCHANGED ledgerVars
       ELSE SetClaim(event[d], "held")
    /\ Goto(d, "claimed")
    /\ UNCHANGED <<orderVars, gateVars, crashes>>

MoneyEvent(d) == event[d].kind \in {"captured", "order_paid"}

(* No such order, or another amount or currency.                           *)
WebhookParksUnbindable(d) ==
    /\ pc[d] = "claimed" /\ MoneyEvent(d)
    /\ status = "absent" \/ gateway[pay[d]] = "mispaid"
    /\ Park(d)
    /\ Goto(d, "completing")
    /\ UNCHANGED <<orderVars, gateVars, crashes>>

WebhookBinds(d) ==
    /\ pc[d] = "claimed" /\ MoneyEvent(d)
    /\ status # "absent" /\ gateway[pay[d]] # "mispaid"
    /\ Goto(d, "confirm")
    /\ UNCHANGED <<orderVars, ledgerVars, gateVars, crashes>>

(* Mutant: the guard lists READY, which no bump writes.                    *)
WebhookSeesLater_Vocabulary ==
    status \in {"PREPARING", "READY", "OUT_FOR_DELIVERY"} \cup Terminal

(* The confirmation transaction.                                           *)
WebhookSeesLater ==
    status \in {"PREPARING", "READY_FOR_PICKUP", "OUT_FOR_DELIVERY"}
              \cup Terminal

WebhookConfirms(d) ==
    /\ pc[d] = "confirm"
    /\ ~WebhookSeesLater /\ ~Foreign(pay[d])
    /\ WriteConfirmed(d)
    /\ Goto(d, "split")
    /\ UNCHANGED <<ledgerVars, gateVars, crashes>>

(* Mutant: a suppressed confirmation is acked without a park doc.          *)
WebhookSuppressed_NotParked(d) ==
    /\ pc[d] = "confirm"
    /\ WebhookSeesLater \/ Foreign(pay[d])
    /\ Goto(d, "completing")
    /\ UNCHANGED <<orderVars, ledgerVars, gateVars, crashes>>

(* Mutant: the payout and the debit follow whether or not it confirmed.    *)
WebhookSuppressed_GoesOn(d) ==
    /\ pc[d] = "confirm"
    /\ WebhookSeesLater \/ Foreign(pay[d])
    /\ Goto(d, "split")
    /\ UNCHANGED <<orderVars, ledgerVars, gateVars, crashes>>

WebhookSuppressed(d) ==
    /\ pc[d] = "confirm"
    /\ WebhookSeesLater \/ Foreign(pay[d])
    /\ Goto(d, "parking")
    /\ UNCHANGED <<orderVars, ledgerVars, gateVars, crashes>>

WebhookParks(d) ==
    /\ d \in Delivery /\ pc[d] = "parking"
    /\ Park(d)
    /\ Goto(d, "completing")
    /\ UNCHANGED <<orderVars, gateVars, crashes>>

(* A busy or conflicting split is acked like any other result.             *)
WebhookSplits(d) ==
    /\ d \in Delivery /\ pc[d] = "split"
    /\ \/ RouteSplit(d)
       \/ UNCHANGED <<orderVars, ledgerVars>>
    /\ Goto(d, "debit")
    /\ UNCHANGED <<gateVars, crashes>>

(* The gateway order is named by payment.captured only.                    *)
WebhookDebits(d) ==
    /\ d \in Delivery /\ pc[d] = "debit"
    /\ debited' \in {debited} \cup
         {debited \cup {p} : p \in {q \in {pay[d]} : event[d].kind = "captured"}}
    /\ Goto(d, "completing")
    /\ UNCHANGED <<orderVars, parked, claim, gateVars, crashes>>

(* payment.failed: an unknown order parks the failure, a paid order and a  *)
(* failure of another attempt ignore it.                                   *)
WebhookFails(d) ==
    /\ pc[d] = "claimed" /\ event[d].kind = "failed"
    /\ IF status = "absent" THEN Park(d) /\ UNCHANGED paymentStatus
       ELSE /\ paymentStatus' = IF paymentStatus = "completed" \/ bound # None
                                THEN paymentStatus ELSE "failed"
            /\ UNCHANGED ledgerVars
    /\ Goto(d, "completing")
    /\ UNCHANGED <<status, bound, otp, paidOut, gateVars, crashes>>

(* The claim is completed and the event acked.                             *)
Complete(d) ==
    /\ pc[d] = "completing"
    /\ SetClaim(event[d], "done")
    /\ Return(d)
    /\ UNCHANGED <<orderVars, gateVars, crashes>>

-----------------------------------------------------------------------------
(* The kitchen, the payer and the retry job *)

(* The app writes the order of a checkout.                                 *)
PlaceOrder ==
    /\ status = "absent"
    /\ status' = "PLACED"
    /\ UNCHANGED <<paymentStatus, bound, otp, paidOut, ledgerVars, gateVars,
                   callVars, crashes>>

(* bumpOrderStatus, and the payer's own cancellation: any status from any  *)
(* that is not terminal, paid or not.                                      *)
Bump(s) ==
    /\ status \notin Terminal \cup {"absent"}
    /\ status' = s
    /\ UNCHANGED <<paymentStatus, bound, otp, paidOut, ledgerVars, gateVars,
                   callVars, crashes>>

(* retryPendingRouteTransfersWorker pays out of the recorded payment.      *)
WorkerPaysOut ==
    /\ bound # None /\ paidOut = None /\ status # "CANCELLED"
    /\ paidOut' = bound
    /\ UNCHANGED <<status, paymentStatus, bound, otp, ledgerVars, gateVars,
                   callVars, crashes>>

(* A call throws (503 or 500) or the function is killed; nothing is        *)
(* released, the claim of a delivery stays.                                *)
Abort(a) ==
    /\ pc[a] # "idle" /\ crashes < MaxCrashes
    /\ crashes' = crashes + 1
    /\ Return(a)
    /\ UNCHANGED <<orderVars, ledgerVars, gateVars>>

-----------------------------------------------------------------------------
VerifyStep(v) ==
    \/ \E p \in Payment : StartVerify(v, p)
    \/ FetchAccepts(v) \/ FetchMismatch(v) \/ FetchUncaptured(v)
    \/ AwaitCapture(v) \/ TruthRefuses(v) \/ TruthAllows(v)
    \/ VerifySplits(v) \/ VerifyConflicts(v) \/ VerifyBusy(v)
    \/ FinishConfirms(v) \/ FinishConflicts(v) \/ FinishFindsConfirmed(v)
    \/ VerifyDebits(v) \/ VerifyParks(v)

DeliveryStep(d) ==
    \/ \E e \in Event : ClaimNew(d, e) \/ FindStaleClaim(d, e)
    \/ TakeOver(d) \/ WebhookParksUnbindable(d) \/ WebhookBinds(d)
    \/ WebhookConfirms(d) \/ WebhookSuppressed(d) \/ WebhookParks(d)
    \/ WebhookSplits(d) \/ WebhookDebits(d) \/ WebhookFails(d)
    \/ Complete(d)

Next ==
    \/ \E v \in Verifier : VerifyStep(v)
    \/ \E d \in Delivery : DeliveryStep(d)
    \/ \E p \in Payment : Authorize(p) \/ AttemptFails(p) \/ Capture(p)
    \/ \E e \in Event : Expire(e) \/ ClaimGoesStale(e)
    \/ \E s \in BumpCode : Bump(s)
    \/ \E a \in Actor : Abort(a)
    \/ PlaceOrder \/ WorkerPaysOut

Spec == Init /\ [][Next]_vars

(* The gateway repeats a delivery until it is acked, a running delivery is *)
(* not suspended for ever, and ten minutes pass.  Nothing is assumed of    *)
(* the app, the kitchen or the payer.                                      *)
FairSpec ==
    /\ Spec
    /\ \A d \in Delivery : WF_vars(DeliveryStep(d))
    /\ \A e \in Event : WF_vars(ClaimGoesStale(e))

-----------------------------------------------------------------------------
(* Safety *)

(* A payment bound to the order was captured, for the order's amount, by   *)
(* whichever channel confirmed it.                                         *)
BoundIsCaptured == bound # None => gateway[bound] = "captured"

(* No acked event loses money: once payment.captured or order.paid is      *)
(* done, its payment is bound to the order or parked for review, whatever  *)
(* crashed, was taken over or raced in between.                            *)
AckedIsAccounted ==
    \A e \in Event :
        claim[e] = "done" /\ e.kind # "failed" => Accounted(e.pay)

(* Redeemed coins are debited for the payment that settled the order only, *)
(* although verify and both webhooks each debit after their own confirm.   *)
CoinsFollowTheBinding == debited \subseteq {bound}

(* A late or replayed payment.failed never fails an order with a bound     *)
(* capture, whatever happened to paymentStatus in between.                 *)
BoundNeverFails == bound # None => paymentStatus # "failed"

(* The first captured payment stays authoritative.                         *)
FirstCaptureStays == [][bound # None => bound' = bound]_vars

(* The OTP the payer was shown opens the handover: its hash is minted once *)
(* whichever of confirm, webhook and backfill comes first.                 *)
OtpNeverReplaced == [][otp # None => otp' = otp]_vars

(* Once the order is paid, no repeated confirmation takes it back from the *)
(* kitchen's later status; only the kitchen does.                          *)
Later == {"PREPARING", "READY_FOR_PICKUP", "OUT_FOR_DELIVERY"} \cup Terminal
PaidOrderNeverRegresses ==
    [][paymentStatus = "completed" /\ status \in Later
       /\ status' = "CONFIRMED" => callVars' = callVars]_vars

(* Liveness: with a gateway that repeats its deliveries, every captured    *)
(* payment is in the end bound or parked, without any help of the app.     *)
CapturedIsAccounted ==
    \A p \in Payment :
        gateway[p] \in {"captured", "mispaid"} ~> Accounted(p)

-----------------------------------------------------------------------------
(* What a comment promises and the code does not keep *)

(* "A retried verify must not regress a later/terminal status": not by     *)
(* verifyPayment, whose later statuses miss READY_FOR_PICKUP.              *)
ConfirmNeverRegresses ==
    [][(status \in Later /\ status' = "CONFIRMED") => callVars' = callVars]_vars
=============================================================================
