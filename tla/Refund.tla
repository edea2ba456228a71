------------------------------- MODULE Refund -------------------------------
(***************************************************************************)
(* Refunds of ONE order with a captured payment: autoRefund                *)
(* (payments/razorpay.service.ts) and the refund.processed webhook         *)
(* (payments/webhookHandler.ts) against the gateway, which dedupes by the  *)
(* idempotency key made of order, payment and refund request.              *)
(*                                                                         *)
(* A worker is one execution of autoRefund for a request id and an amount; *)
(* several executions may carry the same id, and the same id may come back *)
(* with another amount.  No transaction is held during the POST.  The      *)
(* platform ends an execution (60 s for the API) before its 10-minute      *)
(* lease; the model lets a lease run out under a live execution as well.   *)
(* A call that is refused, or replays a completed request, writes nothing: *)
(* it is a stuttering step.                                                *)
(*                                                                         *)
(* A refund made for a request has the request's name; a Legacy refund was *)
(* recorded before there was a ledger; a Dashboard refund is made on the   *)
(* gateway's own site.  Amounts are in paise and the capture is known      *)
(* (payment.capturedAmountPaise); a request without an amount is Full.     *)
(***************************************************************************)
EXTENDS Naturals, FiniteSets, Functions

CONSTANTS Worker,     \* executions of autoRefund
          Request,    \* refund request ids
          Legacy,     \* refunds recorded as refundId/refundAmount only
          Dashboard,  \* refunds made on the gateway's dashboard
          Capture,    \* captured paise
          Amount,     \* amounts a caller may name
          Full,       \* no amount: everything
          None        \* absent value

RefundId == Request \cup Legacy \cup Dashboard

ASSUME ConstantsAssumption ==
    /\ Request \cap (Legacy \cup Dashboard) = {}
    /\ Legacy \cap Dashboard = {}
    /\ None \notin RefundId
    /\ IsFiniteSet(RefundId)
    /\ Capture \in Nat \ {0}
    /\ Amount \subseteq 1..Capture
    /\ Full \notin Amount /\ None \notin Amount /\ None # Full

VARIABLES
    refundStatus,  \* orders/{id}.refundStatus
    ledger,        \* refundLedger: paise by refund id, 0 when absent
    total,         \* refundedTotalPaise
    keyed,         \* refundKeyedReceipts
    scalar,        \* refundId, the receipt named last
    fullShape,     \* refundAmount is null next to a refundId
    claim,         \* refundActiveClaim.requestId
    claimStale,    \* the claim is 10 minutes old
    req,           \* payment_refund_requests: status by request
    wanted,        \* ... and requestedPaise
    pc, id, amount,   \* locals of each execution
    refunded,      \* gateway: paise returned by refund id, 0 when none
    body,          \* gateway: the amount a key was first used with
    inFlight,      \* gateway: POSTs undecided after their caller gave up
    notice         \* the refund.processed event of each refund, see Notice

docVars  == <<refundStatus, ledger, total, keyed, scalar, fullShape>>
claimVars == <<claim, claimStale, req, wanted>>
callVars == <<pc, id, amount>>
gateVars == <<refunded, body, inFlight, notice>>
vars == <<docVars, claimVars, callVars, gateVars>>

Status == {"none", "refunding", "partially_refunded", "refunded"}

(* No delivery has claimed the event (aud_evt_{id}) and its 15 minutes are *)
(* not over, or they are; or one has claimed it.                           *)
Notice == {"fresh", "late", "claimed"}

TypeOK ==
    /\ refundStatus \in Status
    /\ ledger \in [RefundId -> 0..Capture]
    /\ total \in Nat
    /\ keyed \subseteq Request
    /\ scalar \in RefundId \cup {None}
    /\ fullShape \in BOOLEAN
    /\ claim \in Request \cup {None}
    /\ claimStale \in BOOLEAN
    /\ req \in [Request -> {"none", "pending", "completed"}]
    /\ wanted \in [Request -> Amount \cup {Full, None}]
    /\ pc \in [Worker -> {"idle", "posting", "recording"}]
    /\ id \in [Worker -> Request \cup {None}]
    /\ amount \in [Worker -> Amount \cup {Full, None}]
    /\ refunded \in [RefundId -> 0..Capture]
    /\ body \in [Request -> Amount \cup {Full, None}]
    /\ inFlight \subseteq Request
    /\ notice \in [RefundId -> Notice]

SumOf(f) == FoldFunction(+, 0, f)
Larger(m, n) == IF m >= n THEN m ELSE n

(* The order may carry the last of its legacy receipts: of a partial       *)
(* refund with its amount, or of a full one, whose amount is null.  A      *)
(* total, if there is one, was kept as the last amount or as the sum.      *)
Init ==
    /\ ledger = [r \in RefundId |-> 0]
    /\ keyed = {}
    /\ scalar \in Legacy \cup {None}
    /\ fullShape \in BOOLEAN
    /\ fullShape => scalar # None
    /\ \E past \in [Legacy -> {0, Capture} \cup Amount] :
         /\ IF scalar = None THEN \A x \in Legacy : past[x] = 0
                             ELSE past[scalar] > 0
         /\ SumOf(past) <= Capture
         /\ fullShape => past[scalar] = Capture
         /\ refunded = [x \in RefundId |-> IF x \in Legacy THEN past[x] ELSE 0]
         /\ total \in IF scalar = None
                      THEN {0} ELSE {0, past[scalar], SumOf(past)}
    /\ refundStatus = IF scalar = None THEN "none" ELSE "refunded"
    /\ claim = None /\ claimStale = FALSE
    /\ req = [r \in Request |-> "none"]
    /\ wanted = [r \in Request |-> None]
    /\ pc = [w \in Worker |-> "idle"]
    /\ id = [w \in Worker |-> None]
    /\ amount = [w \in Worker |-> None]
    /\ body = [r \in Request |-> None]
    /\ inFlight = {}
    /\ notice = [x \in RefundId |-> IF x \in Legacy THEN "late" ELSE "fresh"]

-----------------------------------------------------------------------------
(* The record of what was returned.                                        *)

(* A receipt with an amount that the ledger does not hold yet.  Only a     *)
(* legacy one can be, and it names what the gateway returned.              *)
ScalarUnrepresented == scalar # None /\ ~fullShape /\ ledger[scalar] = 0

FoldedLedger ==
    IF ScalarUnrepresented
    THEN [ledger EXCEPT ![scalar] = refunded[scalar]]
    ELSE ledger

(* recordedRefundedPaise                                                   *)
Recorded_TotalOnly == total
Recorded == Larger(total, SumOf(FoldedLedger))

(* The ledger once refund x is entered: a gateway refund counts once.      *)
LedgerWith(x) ==
    IF ledger[x] = 0 THEN [FoldedLedger EXCEPT ![x] = refunded[x]]
                     ELSE FoldedLedger

(* refundedTotalPaise after that.                                          *)
TotalWith_AddsAgain(x) == total + refunded[x]
TotalWith(x) == Larger(total, SumOf(LedgerWith(x)))

(* refundStatus === "refunded" with refundAmount null, or a record that    *)
(* reaches the capture.                                                    *)
FullyRefunded ==
    \/ Recorded >= Capture
    \/ refundStatus = "refunded" /\ scalar # None /\ fullShape

(* Money went back in this amount and no request accounts for it.          *)
UnkeyedAmount(a) ==
    /\ a # Full
    /\ \/ \E x \in RefundId \ keyed : ledger[x] = a
       \/ ScalarUnrepresented /\ refunded[scalar] = a

WithinRemaining(a) == IF a = Full THEN Recorded = 0
                                  ELSE a + Recorded <= Capture

-----------------------------------------------------------------------------
(* autoRefund.                                                             *)

(* A pending request is recovered only with the amount it was made for.    *)
Recovery(r, a) == req[r] = "pending" /\ wanted[r] = a

(* The lease, whatever refundStatus says: a stale claim may be taken over  *)
(* by its own request only.                                                *)
ClaimAllows_AnyStale(r) == claim = None \/ claimStale
ClaimAllows(r) == claim = None \/ (claim = r /\ claimStale)

Fresh(r, a) ==
    /\ req[r] = "none"
    /\ ~UnkeyedAmount(a)
    /\ ~FullyRefunded
    /\ WithinRemaining(a)

(* The claim transaction.                                                  *)
Claim(w, r, a) ==
    /\ pc[w] = "idle"
    /\ ClaimAllows(r)
    /\ Recovery(r, a) \/ Fresh(r, a)
    /\ refundStatus' = "refunding"
    /\ ledger' = FoldedLedger
    /\ claim' = r /\ claimStale' = FALSE
    /\ req' = [req EXCEPT ![r] = "pending"]
    /\ wanted' = [wanted EXCEPT ![r] = a]
    /\ pc' = [pc EXCEPT ![w] = "posting"]
    /\ id' = [id EXCEPT ![w] = r]
    /\ amount' = [amount EXCEPT ![w] = a]
    /\ UNCHANGED <<total, keyed, scalar, fullShape, gateVars>>

Remaining == Capture - SumOf(refunded)

(* What the gateway returns for a key used with amount a, 0 when it        *)
(* refuses: the first refund made under the key, and nothing beyond the    *)
(* capture.                                                                *)
Returns(r, a) ==
    IF refunded[r] # 0 THEN IF body[r] = a THEN refunded[r] ELSE 0
    ELSE IF a = Full THEN Remaining
    ELSE IF a <= Remaining THEN a ELSE 0

(* The POST reaches the gateway and the answer comes back.                 *)
PostAnswers(w) ==
    /\ pc[w] = "posting"
    /\ LET r == id[w]  a == amount[w]
       IN /\ body[r] \in {None, a}
          /\ Returns(r, a) # 0
          /\ refunded' = [refunded EXCEPT ![r] = Returns(r, a)]
          /\ body' = [body EXCEPT ![r] = a]
    /\ pc' = [pc EXCEPT ![w] = "recording"]
    /\ UNCHANGED <<docVars, claimVars, id, amount, inFlight, notice>>

(* REFUND_GATEWAY_FAILED, or the instance dies: the POST was refused or     *)
(* never arrived, or its answer is lost and it may still land.  The claim  *)
(* and the pending request stay.                                           *)
PostFails(w) ==
    /\ pc[w] = "posting"
    /\ pc' = [pc EXCEPT ![w] = "idle"]
    /\ \/ UNCHANGED <<body, inFlight>>
       \/ /\ body[id[w]] \in {None, amount[w]}
          /\ body' = [body EXCEPT ![id[w]] = amount[w]]
          /\ inFlight' = inFlight \cup {id[w]}
    /\ UNCHANGED <<docVars, claimVars, id, amount, refunded, notice>>

PostLands(r) ==
    /\ r \in inFlight
    /\ inFlight' = inFlight \ {r}
    /\ refunded' = [refunded EXCEPT ![r] = Returns(r, body[r])]
    /\ UNCHANGED <<docVars, claimVars, callVars, body, notice>>

(* The claim is released only by an execution of the request that holds it. *)
StillOwns(r) == claim \in {None, r}

(* The completion transaction: order and request together.                 *)
Complete(w) ==
    /\ pc[w] = "recording"
    /\ pc' = [pc EXCEPT ![w] = "idle"]
    /\ LET r == id[w]
           done == amount[w] = Full \/ TotalWith(r) >= Capture
       IN /\ ledger' = LedgerWith(r)
          /\ total' = TotalWith(r)
          /\ scalar' = r
          /\ fullShape' = (amount[w] = Full)
          /\ keyed' = keyed \cup {r}
          /\ req' = [req EXCEPT ![r] = "completed"]
          /\ IF StillOwns(r)
             THEN /\ refundStatus' = IF done THEN "refunded"
                                             ELSE "partially_refunded"
                  /\ claim' = None /\ claimStale' = FALSE
             ELSE UNCHANGED <<refundStatus, claim, claimStale>>
    /\ UNCHANGED <<wanted, id, amount, gateVars>>

(* The instance dies between the answer and the completion transaction.    *)
Kill(w) ==
    /\ pc[w] = "recording"
    /\ pc' = [pc EXCEPT ![w] = "idle"]
    /\ UNCHANGED <<docVars, claimVars, id, amount, gateVars>>

ClaimGoesStale ==
    /\ claim # None
    /\ claimStale' = TRUE
    /\ UNCHANGED <<docVars, claim, req, wanted, callVars, gateVars>>

-----------------------------------------------------------------------------
(* The webhook and the gateway's own refunds.                              *)

(* Fifteen minutes pass before a delivery has claimed the event.           *)
NoticeExpires(x) ==
    /\ refunded[x] # 0 /\ notice[x] = "fresh"
    /\ notice' = [notice EXCEPT ![x] = "late"]
    /\ UNCHANGED <<docVars, claimVars, callVars, refunded, body, inFlight>>

(* A delivery claims the event.  One that comes late deletes its claim     *)
(* again and is refused (401); where that delete fails the claim stays,    *)
(* and whoever takes it over is not asked for the event's age.             *)
NoticeTaken(x) ==
    /\ refunded[x] # 0 /\ notice[x] # "claimed"
    /\ notice' = [notice EXCEPT ![x] = "claimed"]
    /\ UNCHANGED <<docVars, claimVars, callVars, refunded, body, inFlight>>

(* refund.processed for refund x under a claim, once or, when the claim is *)
(* taken over before it was completed, again.                              *)
RefundProcessed_AlwaysRefunded(x) ==
    /\ notice[x] = "claimed"
    /\ ledger' = LedgerWith(x)
    /\ total' = TotalWith(x)
    /\ refundStatus' = "refunded"
    /\ scalar' = x /\ fullShape' = FALSE
    /\ UNCHANGED <<keyed, claimVars, callVars, gateVars>>
RefundProcessed(x) ==
    /\ notice[x] = "claimed"
    /\ ledger' = LedgerWith(x)
    /\ total' = TotalWith(x)
    /\ refundStatus' = IF TotalWith(x) < Capture THEN "partially_refunded"
                                                 ELSE "refunded"
    /\ scalar' = x /\ fullShape' = FALSE
    /\ UNCHANGED <<keyed, claimVars, callVars, gateVars>>

DashboardRefund(d, a) ==
    /\ refunded[d] = 0
    /\ a <= Remaining
    /\ refunded' = [refunded EXCEPT ![d] = a]
    /\ UNCHANGED <<docVars, claimVars, callVars, body, inFlight, notice>>

Next ==
    \/ \E w \in Worker :
         \/ \E r \in Request, a \in Amount \cup {Full} : Claim(w, r, a)
         \/ PostAnswers(w) \/ PostFails(w) \/ Complete(w) \/ Kill(w)
    \/ \E r \in Request : PostLands(r)
    \/ ClaimGoesStale
    \/ \E x \in RefundId :
         NoticeTaken(x) \/ NoticeExpires(x) \/ RefundProcessed(x)
    \/ \E d \in Dashboard, a \in Amount : DashboardRefund(d, a)

Spec == Init /\ [][Next]_vars

(* The 15 minutes pass or a delivery has claimed the event; a claimed one  *)
(* is redelivered until a delivery completes its claim.                    *)
NoticeSettles(x) == NoticeExpires(x) \/ (ledger[x] = 0 /\ RefundProcessed(x))

(* Time passes and the gateway redelivers what is not acknowledged; of the *)
(* executions that have the gateway's answer not all die before they have  *)
(* written it down.                                                        *)
FairSpec ==
    /\ Spec
    /\ \A x \in Request \cup Dashboard : WF_vars(NoticeSettles(x))
    /\ \A w \in Worker : SF_vars(Complete(w))

-----------------------------------------------------------------------------
(* Safety.                                                                 *)

(* The record the cap is computed from never says that more was returned   *)
(* than the gateway returned, however often a refund is recorded by its    *)
(* webhook, by its execution and by a takeover.                            *)
RecordNeverOverstates == Recorded <= SumOf(refunded)

Undecided(r) == req[r] = "pending" /\ refunded[r] = 0

(* What was promised fits: the undecided request and everything already    *)
(* returned stay within the capture, unless somebody refunds on the        *)
(* dashboard or the order had several refunds before there was a ledger,   *)
(* of which it names the last.                                             *)
OneLegacyRefund ==
    \A x, y \in Legacy : refunded[x] # 0 /\ refunded[y] # 0 => x = y

AskWithinCapture ==
    (\A d \in Dashboard : refunded[d] = 0) /\ OneLegacyRefund =>
        \A r \in Request : Undecided(r) =>
            IF wanted[r] = Full THEN SumOf(refunded) = 0
                                ELSE wanted[r] + SumOf(refunded) <= Capture

(* A POST without an answer yet, on its way or in an execution.            *)
Asking(r) ==
    /\ refunded[r] = 0
    /\ r \in inFlight \/ \E w \in Worker : pc[w] = "posting" /\ id[w] = r

(* Two requests never have the gateway's decision open at a time, also     *)
(* when a webhook has rewritten refundStatus meanwhile, and after lost     *)
(* answers and takeovers.                                                  *)
OneRequestAtATime ==
    \A r1, r2 \in Request : Asking(r1) /\ Asking(r2) => r1 = r2

(* Every use of an idempotency key carries the body it was first used      *)
(* with; the gateway rejects another one.                                  *)
SameBodyPerKey ==
    \A w \in Worker :
        pc[w] = "posting" => body[id[w]] \in {None, amount[w]}

(* A pending request holds the order's claim, so it can be retried, and a  *)
(* claim belongs to a pending request: no completion releases or blocks    *)
(* another request.                                                        *)
PendingIsClaimed == \A r \in Request : req[r] = "pending" <=> claim = r

(* A completed request was paid out and stands in the ledger.              *)
CompletedIsRecorded ==
    \A r \in Request : req[r] = "completed" =>
        /\ refunded[r] # 0
        /\ ledger[r] = refunded[r]

(* The terminal stamp is put on only when the whole capture is back with   *)
(* the customer.                                                           *)
RefundedStampIsFull ==
    [][refundStatus # "refunded" /\ refundStatus' = "refunded"
         => SumOf(refunded) >= Capture]_vars

(* Every refund the gateway makes gets into the ledger, by its event or by *)
(* the execution that asked for it - or no delivery of the event came in   *)
(* time and the executions are gone.  A refund made for a request then     *)
(* still holds the order's claim: no other refund can be asked for before  *)
(* a repeat of the request has recorded it.                                *)
Gone(r) == \A w \in Worker : ~(pc[w] = "recording" /\ id[w] = r)
Missed(x) ==
    /\ notice[x] = "late"
    /\ x \in Request => Gone(x) /\ claim = x
RefundsAreRecorded ==
    \A x \in Request \cup Dashboard :
        refunded[x] # 0 ~> ledger[x] = refunded[x] \/ Missed(x)
=============================================================================
