--------------------------- MODULE RouteTransfer ---------------------------
(***************************************************************************)
(* The Razorpay Route payout of ONE order: executeRouteSplit               *)
(* (payments/razorpay.service.ts), attemptRouteTransfer and the scheduled  *)
(* retryPendingRouteTransfersWorker (payments/routeTransfers.ts), with the *)
(* gateway whose `payments.transfer` POST is not idempotent.               *)
(*                                                                         *)
(* A caller is one execution of executeRouteSplit, by verifyPayment or by  *)
(* the payment.captured webhook, for one captured payment.  A worker is    *)
(* one invocation of the retry job; it takes the payment recorded on the   *)
(* order.  Between the claim transaction and the final write the gateway   *)
(* is called with no transaction held.                                     *)
(*                                                                         *)
(* Time is abstract: the 10-minute lease outlives every function timeout   *)
(* (60 s for the API and the webhook, 540 s for the worker), so a lease    *)
(* expires only when its owner is dead.                                    *)
(***************************************************************************)
EXTENDS Naturals, FiniteSets

CONSTANTS Caller,       \* executions of executeRouteSplit
          Worker,       \* invocations of the retry job
          Payment,      \* captured gateway payments of the order
          None,         \* absent value
          SlowGateway,  \* TRUE: a POST may land after its caller gave up
          MaxRetry,     \* routeTransferRetryCount allows this many retries
          MaxCrashes    \* exploration bound on crashed executions

ASSUME ConstantsAssumption ==
    /\ Caller \cap Worker = {}
    /\ None \notin Payment /\ None \notin Caller \cup Worker
    /\ SlowGateway \in BOOLEAN
    /\ MaxRetry \in Nat
    /\ MaxCrashes \in Nat

Actor == Caller \cup Worker

VARIABLES
    rts,          \* orders/{id}.routeTransferStatus
    lease,        \* who stamped routeTransferClaimedAt, None when deleted
    leaseDead,    \* the stamp is at least TRANSFER_CLAIM_TTL_MS old
    retryCount,   \* routeTransferRetryCount
    manual,       \* routeTransferNeedsManualSettlement
    refused,      \* routeTransferTerminalRefusal
    receipt,      \* the payment whose transfer "payment.routeTransfer" names
    bound,        \* the payment recorded on the order
    terminal,     \* isOrderTerminalForRouteTransfer(order)
    parked,       \* payments with a doc unmatched_payments/ump_term_<pay>
    branch,       \* branches/{id}.razorpayAccountId, or "missing" branchId
    split,        \* pricing.split.branchTransferPaise against the capture
    pc, pay, sawTransferred, outcome,   \* locals of each execution
    landed,       \* gateway: transfers of our order that exist, per payment
    orphans,      \* gateway: POSTs still in flight that nobody waits for
    late,         \* history: transfers made by such POSTs, per payment
    crashes

docVars   == <<rts, lease, leaseDead, retryCount, manual, refused, receipt>>
orderVars == <<bound, terminal, branch, split>>
callVars  == <<pc, pay, sawTransferred, outcome>>
gateVars  == <<landed, orphans, late>>
vars == <<docVars, orderVars, parked, callVars, gateVars, crashes>>

RouteStatus == {"none", "transferring", "transferred", "pending_retry",
                "needs_reconciliation", "failed"}
Outcome == {"ok", "unknown", "skipped", "config", "rejected",
            "busy", "conflict", "transferred", "flagged", "no_split"}
PC == {"idle", "entered", "claimed", "attempting", "posting", "writing",
       "done"}

(* The executions that hold the claim: from the claim to the final write.  *)
Working(a) == pc[a] \in {"claimed", "attempting", "posting", "writing"}

TypeOK ==
    /\ rts \in RouteStatus
    /\ lease \in Actor \cup {None}
    /\ leaseDead \in BOOLEAN
    /\ retryCount \in Nat
    /\ manual \in BOOLEAN /\ refused \in BOOLEAN
    /\ receipt \in Payment \cup {None}
    /\ bound \in Payment \cup {None}
    /\ terminal \in BOOLEAN
    /\ parked \subseteq Payment
    /\ branch \in {"linked", "unlinked", "malformed", "missing"}
    /\ split \in {"payable", "over", "zero"}
    /\ pc \in [Actor -> PC]
    /\ pay \in [Actor -> Payment \cup {None}]
    /\ sawTransferred \in [Actor -> BOOLEAN]
    /\ outcome \in [Actor -> Outcome \cup {None}]
    /\ landed \in [Payment -> Nat]
    /\ orphans \in [Payment -> Nat] /\ late \in [Payment -> Nat]
    /\ crashes \in Nat

Init ==
    /\ rts = "none" /\ lease = None /\ leaseDead = FALSE /\ retryCount = 0
    /\ manual = FALSE /\ refused = FALSE /\ receipt = None
    /\ bound = None /\ terminal = FALSE /\ parked = {}
    /\ branch \in {"linked", "unlinked", "malformed", "missing"}
    /\ split \in {"payable", "over", "zero"}
    /\ pc = [a \in Actor |-> "idle"]
    /\ pay = [a \in Actor |-> None]
    /\ sawTransferred = [a \in Actor |-> FALSE]
    /\ outcome = [a \in Actor |-> None]
    /\ landed = [p \in Payment |-> 0]
    /\ orphans = [p \in Payment |-> 0] /\ late = [p \in Payment |-> 0]
    /\ crashes = 0

-----------------------------------------------------------------------------
(* Document writes shared by several handlers *)

(* The claim: transferring plus a fresh stamp.                             *)
StampLease(a) ==
    /\ rts' = "transferring"
    /\ lease' = a
    /\ leaseDead' = FALSE

ReleaseLease ==
    /\ lease' = None
    /\ leaseDead' = FALSE

(* Mutant: the stamp is a timestamp sentinel that reads as 0.              *)
LeaseHeld_Unreadable == FALSE

(* A lease that another execution may still be working under.  The claim   *)
(* of executeRouteSplit and that of the worker test it alike.              *)
LeaseHeld == rts = "transferring" /\ lease # None /\ ~leaseDead

(* recordTerminalRefusalInTx: the order doc and the park doc of payment p  *)
(* (none when the order has no recorded payment) in one transaction.       *)
RecordRefusal(p) ==
    /\ rts' = "failed"
    /\ refused' = TRUE
    /\ ReleaseLease
    /\ parked' = IF p = None THEN parked ELSE parked \cup {p}
    /\ UNCHANGED <<retryCount, manual, receipt>>

Return(a, result) ==
    /\ pc' = [pc EXCEPT ![a] = IF a \in Caller THEN "done" ELSE "idle"]
    /\ outcome' = [outcome EXCEPT ![a] = result]
    /\ UNCHANGED <<pay, sawTransferred>>

Goto(a, label) ==
    /\ pc' = [pc EXCEPT ![a] = label]
    /\ UNCHANGED <<pay, sawTransferred, outcome>>

-----------------------------------------------------------------------------
(* executeRouteSplit *)

(* The caller read the order before calling; the early return on           *)
(* "transferred" looks at that snapshot.  It comes from verifyPayment or   *)
(* the webhook, which refuse a payment foreign to the recorded one.        *)
Enter(c, p) ==
    /\ pc[c] = "idle"
    /\ bound \in {None, p}
    /\ pc' = [pc EXCEPT ![c] = "entered"]
    /\ pay' = [pay EXCEPT ![c] = p]
    /\ sawTransferred' = [sawTransferred EXCEPT ![c] = (rts = "transferred")]
    /\ UNCHANGED <<docVars, orderVars, parked, outcome, gateVars, crashes>>

(* Early returns before the claim: settled snapshot, nothing to split,     *)
(* and the unconditional flag of an order without a branch.                *)
AlreadyTransferred(c) ==
    /\ pc[c] = "entered"
    /\ sawTransferred[c]
    /\ Return(c, "transferred")
    /\ UNCHANGED <<docVars, orderVars, parked, gateVars, crashes>>

NothingToSplit(c) ==
    /\ pc[c] = "entered"
    /\ ~sawTransferred[c] /\ split = "zero"
    /\ Return(c, "no_split")
    /\ UNCHANGED <<docVars, orderVars, parked, gateVars, crashes>>

FlagMissingBranch(c) ==
    /\ pc[c] = "entered"
    /\ ~sawTransferred[c] /\ split # "zero" /\ branch = "missing"
    /\ rts' = "failed" /\ manual' = TRUE
    /\ ReleaseLease
    /\ Return(c, "flagged")
    /\ UNCHANGED <<retryCount, refused, receipt, orderVars, parked, gateVars,
                   crashes>>

(* The claim transaction, on the fresh document.                           *)
CanClaim(c) ==
    /\ pc[c] = "entered"
    /\ ~sawTransferred[c] /\ split # "zero" /\ branch # "missing"

ClaimDone(c) ==
    /\ CanClaim(c)
    /\ rts = "transferred" \/ receipt # None
    /\ Return(c, "transferred")
    /\ UNCHANGED <<docVars, orderVars, parked, gateVars, crashes>>

Unsettled == rts # "transferred" /\ receipt = None

ClaimConflict(c) ==
    /\ CanClaim(c) /\ Unsettled
    /\ bound \notin {None, pay[c]}
    /\ Return(c, "conflict")
    /\ UNCHANGED <<docVars, orderVars, parked, gateVars, crashes>>

ClaimBusy(c) ==
    /\ CanClaim(c) /\ Unsettled
    /\ bound \in {None, pay[c]}
    /\ LeaseHeld
    /\ Return(c, "busy")
    /\ UNCHANGED <<docVars, orderVars, parked, gateVars, crashes>>

ClaimRefused(c) ==
    /\ CanClaim(c) /\ Unsettled
    /\ bound \in {None, pay[c]}
    /\ ~LeaseHeld
    /\ terminal
    /\ RecordRefusal(pay[c])
    /\ Return(c, "flagged")
    /\ UNCHANGED <<orderVars, gateVars, crashes>>

Claim(c) ==
    /\ CanClaim(c) /\ Unsettled
    /\ bound \in {None, pay[c]}
    /\ ~LeaseHeld
    /\ ~terminal
    /\ StampLease(c)
    /\ Goto(c, "attempting")
    /\ UNCHANGED <<retryCount, manual, refused, receipt, orderVars, parked,
                   gateVars, crashes>>

(* The write after the attempt, unconditional: no fence on the lease.      *)
Writing(a, results) == pc[a] = "writing" /\ outcome[a] \in results

SplitTransferred(c) ==
    /\ c \in Caller /\ Writing(c, {"ok"})
    /\ rts' = "transferred" /\ receipt' = pay[c] /\ manual' = FALSE
    /\ Return(c, "transferred")
    /\ UNCHANGED <<lease, leaseDead, retryCount, refused, orderVars, parked,
                   gateVars, crashes>>

SplitUnknown(c) ==
    /\ c \in Caller /\ Writing(c, {"unknown"})
    /\ rts' = "needs_reconciliation" /\ ReleaseLease
    /\ Return(c, "flagged")
    /\ UNCHANGED <<retryCount, manual, refused, receipt, orderVars, parked,
                   gateVars, crashes>>

SplitManual(c) ==
    /\ c \in Caller /\ Writing(c, {"skipped"})
    /\ rts' = "failed" /\ manual' = TRUE /\ ReleaseLease
    /\ Return(c, "flagged")
    /\ UNCHANGED <<retryCount, refused, receipt, orderVars, parked, gateVars,
                   crashes>>

SplitRetryLater(c) ==
    /\ c \in Caller /\ Writing(c, {"rejected", "config"})
    /\ rts' = "pending_retry" /\ retryCount' = 0 /\ ReleaseLease
    /\ Return(c, "flagged")
    /\ UNCHANGED <<manual, refused, receipt, orderVars, parked, gateVars,
                   crashes>>

-----------------------------------------------------------------------------
(* attemptRouteTransfer *)

Attempted(a, result) ==
    /\ pc' = [pc EXCEPT ![a] = "writing"]
    /\ outcome' = [outcome EXCEPT ![a] = result]
    /\ UNCHANGED <<pay, sawTransferred>>

(* Every refusal that needs no gateway call, in the order of the guards.   *)
AttemptRefusedLocally(a) ==
    /\ pc[a] = "attempting"
    /\ \/ /\ split # "payable"
          /\ Attempted(a, "rejected")
       \/ /\ split = "payable" /\ branch = "unlinked"
          /\ Attempted(a, "skipped")
       \/ /\ split = "payable" /\ branch = "malformed"
          /\ Attempted(a, "config")
    /\ UNCHANGED <<docVars, orderVars, parked, gateVars, crashes>>

(* The inline read of the branch throws: nothing was sent.                 *)
AccountReadFails(a) ==
    /\ pc[a] = "attempting"
    /\ Attempted(a, "rejected")
    /\ UNCHANGED <<docVars, orderVars, parked, gateVars, crashes>>

CanReconcile(a) ==
    pc[a] = "attempting" /\ split = "payable" /\ branch = "linked"

(* findExistingTransferForPayment failed or timed out.                     *)
LookupFails(a) ==
    /\ CanReconcile(a)
    /\ Attempted(a, "unknown")
    /\ UNCHANGED <<docVars, orderVars, parked, gateVars, crashes>>

(* ... found our transfer of this payment: its receipt is reused.          *)
LookupFinds(a) ==
    /\ CanReconcile(a)
    /\ landed[pay[a]] > 0
    /\ Attempted(a, "ok")
    /\ UNCHANGED <<docVars, orderVars, parked, gateVars, crashes>>

LookupFindsNothing(a) ==
    /\ CanReconcile(a)
    /\ landed[pay[a]] = 0
    /\ Goto(a, "posting")
    /\ UNCHANGED <<docVars, orderVars, parked, gateVars, crashes>>

Land(p) == landed' = [landed EXCEPT ![p] = @ + 1] /\ UNCHANGED <<orphans, late>>

(* What may have become of a POST nobody got an answer to.                 *)
FateOfPost(p) ==
    \/ Land(p)
    \/ UNCHANGED gateVars
    \/ /\ SlowGateway
       /\ orphans' = [orphans EXCEPT ![p] = @ + 1]
       /\ UNCHANGED <<landed, late>>

PostSucceeds(a) ==
    /\ pc[a] = "posting"
    /\ Land(pay[a])
    /\ Attempted(a, "ok")
    /\ UNCHANGED <<docVars, orderVars, parked, crashes>>

(* A 4xx proves that nothing moved.                                        *)
PostRejected(a) ==
    /\ pc[a] = "posting"
    /\ Attempted(a, "rejected")
    /\ UNCHANGED <<docVars, orderVars, parked, gateVars, crashes>>

(* Mutant: a timeout is taken for a success.                               *)
PostUnknown_TakenAsOk(a) ==
    /\ pc[a] = "posting"
    /\ FateOfPost(pay[a])
    /\ Attempted(a, "ok")
    /\ UNCHANGED <<docVars, orderVars, parked, crashes>>

(* The 30 s timeout, a reset, a 5xx: the outcome is unknown.               *)
PostUnknown(a) ==
    /\ pc[a] = "posting"
    /\ FateOfPost(pay[a])
    /\ Attempted(a, "unknown")
    /\ UNCHANGED <<docVars, orderVars, parked, crashes>>

-----------------------------------------------------------------------------
(* retryPendingRouteTransfersWorker *)

(* Mutant: the tick serves pending_retry only, no crash-recovery sweep.     *)
Claimable_NoSweep == rts = "pending_retry"

(* The claim transaction re-reads every candidate of the two queries.  The *)
(* worker looks for a receipt under payment.routeTransfer only, where no   *)
(* handler writes one, so the status alone tells it an order is settled.   *)
Claimable ==
    /\ rts \in {"pending_retry", "transferring"}
    /\ ~LeaseHeld

WorkerRefuses(w) ==
    /\ pc[w] = "idle"
    /\ Claimable /\ terminal
    /\ RecordRefusal(bound)
    /\ UNCHANGED <<orderVars, callVars, gateVars, crashes>>

WorkerClaims(w) ==
    /\ pc[w] = "idle"
    /\ Claimable /\ ~terminal
    /\ StampLease(w)
    /\ Goto(w, "claimed")
    /\ UNCHANGED <<retryCount, manual, refused, receipt, orderVars, parked,
                   gateVars, crashes>>

(* processDoc re-reads the order before money moves.  A failed read leaves *)
(* the claim to expire; a settled order is left alone.                     *)
RereadStops(w) ==
    /\ w \in Worker /\ pc[w] = "claimed"
    /\ Return(w, None)
    /\ UNCHANGED <<docVars, orderVars, parked, gateVars, crashes>>

(* Cancelled since the claim: refuse, if the lease is still ours.          *)
RereadRefuses(w) ==
    /\ w \in Worker /\ pc[w] = "claimed"
    /\ rts # "transferred"
    /\ terminal /\ lease = w
    /\ RecordRefusal(bound)
    /\ Return(w, None)
    /\ UNCHANGED <<orderVars, gateVars, crashes>>

(* Missing branch, split or payment id: failed for good, lease kept.       *)
RereadIncomplete(w) ==
    /\ w \in Worker /\ pc[w] = "claimed"
    /\ rts # "transferred" /\ ~terminal
    /\ branch = "missing" \/ split = "zero" \/ bound = None
    /\ rts' = "failed"
    /\ Return(w, None)
    /\ UNCHANGED <<lease, leaseDead, retryCount, manual, refused, receipt,
                   orderVars, parked, gateVars, crashes>>

RereadProceeds(w) ==
    /\ w \in Worker /\ pc[w] = "claimed"
    /\ rts # "transferred" /\ ~terminal
    /\ branch # "missing" /\ split # "zero" /\ bound # None
    /\ pc' = [pc EXCEPT ![w] = "attempting"]
    /\ pay' = [pay EXCEPT ![w] = bound]
    /\ UNCHANGED <<docVars, orderVars, parked, sawTransferred, outcome,
                   gateVars, crashes>>

(* The worker's writes, unconditional as well.                             *)
RetryTransferred(w) ==
    /\ w \in Worker /\ Writing(w, {"ok"})
    /\ rts' = "transferred" /\ receipt' = pay[w] /\ retryCount' = 0
    /\ Return(w, None)
    /\ UNCHANGED <<lease, leaseDead, manual, refused, orderVars, parked,
                   gateVars, crashes>>

RetryUnknown(w) ==
    /\ w \in Worker /\ Writing(w, {"unknown"})
    /\ rts' = "needs_reconciliation" /\ ReleaseLease
    /\ Return(w, None)
    /\ UNCHANGED <<retryCount, manual, refused, receipt, orderVars, parked,
                   gateVars, crashes>>

RetryManual(w) ==
    /\ w \in Worker /\ Writing(w, {"skipped", "config"})
    /\ rts' = "failed" /\ manual' = TRUE /\ ReleaseLease
    /\ Return(w, None)
    /\ UNCHANGED <<retryCount, refused, receipt, orderVars, parked, gateVars,
                   crashes>>

RetryRejected(w) ==
    /\ w \in Worker /\ Writing(w, {"rejected"})
    /\ retryCount' = retryCount + 1
    /\ rts' = IF retryCount' > MaxRetry THEN "failed" ELSE "pending_retry"
    /\ ReleaseLease
    /\ Return(w, None)
    /\ UNCHANGED <<manual, refused, receipt, orderVars, parked, gateVars,
                   crashes>>

-----------------------------------------------------------------------------
(* The surroundings: the instance, the gateway, the rest of the backend *)

(* An instance dies between two steps; a POST it was waiting for meets any *)
(* fate.                                                                   *)
Crash(a) ==
    /\ crashes < MaxCrashes
    /\ Working(a)
    /\ crashes' = crashes + 1
    /\ IF pc[a] = "posting" THEN FateOfPost(pay[a]) ELSE UNCHANGED gateVars
    /\ Return(a, None)
    /\ UNCHANGED <<docVars, orderVars, parked>>

(* Ten minutes after the stamp.  The owner is dead by then, and a POST it  *)
(* sent has been decided.                                                  *)
LeaseExpires ==
    /\ lease # None /\ ~leaseDead
    /\ ~Working(lease)
    /\ \A p \in Payment : orphans[p] = 0
    /\ leaseDead' = TRUE
    /\ UNCHANGED <<rts, lease, retryCount, manual, refused, receipt,
                   orderVars, parked, callVars, gateVars, crashes>>

OrphanDecided(p) ==
    /\ orphans[p] > 0
    /\ orphans' = [orphans EXCEPT ![p] = @ - 1]
    /\ \/ /\ landed' = [landed EXCEPT ![p] = @ + 1]
          /\ late' = [late EXCEPT ![p] = @ + 1]
       \/ UNCHANGED <<landed, late>>
    /\ UNCHANGED <<docVars, orderVars, parked, callVars, crashes>>

(* verifyPayment or the webhook records the order's payment.               *)
Bind(p) ==
    /\ bound = None /\ ~terminal
    /\ bound' = p
    /\ UNCHANGED <<docVars, terminal, branch, split, parked, callVars,
                   gateVars, crashes>>

(* The order is cancelled or refunded.                                     *)
Terminate ==
    /\ ~terminal
    /\ terminal' = TRUE
    /\ UNCHANGED <<docVars, bound, branch, split, parked, callVars, gateVars,
                   crashes>>

(* Staff link the branch's account.                                        *)
LinkBranch ==
    /\ branch \in {"unlinked", "malformed"}
    /\ branch' = "linked"
    /\ UNCHANGED <<docVars, bound, terminal, split, parked, callVars,
                   gateVars, crashes>>

CallerStep(c) ==
    \/ AlreadyTransferred(c) \/ NothingToSplit(c) \/ FlagMissingBranch(c)
    \/ ClaimDone(c) \/ ClaimConflict(c) \/ ClaimBusy(c) \/ ClaimRefused(c)
    \/ Claim(c)
    \/ SplitTransferred(c) \/ SplitUnknown(c) \/ SplitManual(c)
    \/ SplitRetryLater(c)

Attempt(a) ==
    \/ AttemptRefusedLocally(a) \/ AccountReadFails(a)
    \/ LookupFails(a) \/ LookupFinds(a) \/ LookupFindsNothing(a)
    \/ PostSucceeds(a) \/ PostRejected(a) \/ PostUnknown(a)

WorkerStep(w) ==
    \/ WorkerRefuses(w) \/ WorkerClaims(w)
    \/ RereadStops(w) \/ RereadRefuses(w) \/ RereadIncomplete(w)
    \/ RereadProceeds(w)
    \/ RetryTransferred(w) \/ RetryUnknown(w) \/ RetryManual(w)
    \/ RetryRejected(w)

Environment ==
    \/ LeaseExpires
    \/ Terminate
    \/ LinkBranch
    \/ \E p \in Payment : OrphanDecided(p) \/ Bind(p)
    \/ \E a \in Actor : Crash(a)

Next ==
    \/ \E c \in Caller : CallerStep(c) \/ \E p \in Payment : Enter(c, p)
    \/ \E w \in Worker : WorkerStep(w)
    \/ \E a \in Actor : Attempt(a)
    \/ Environment

Spec == Init /\ [][Next]_vars

(* An execution that is not killed goes on, the retry job fires every five *)
(* minutes, time passes and the gateway decides.  Strong fairness on the   *)
(* re-read says that the order document does not stay unreadable for ever. *)
Fairness ==
    /\ \A c \in Caller : WF_vars(CallerStep(c))
    /\ \A a \in Actor : WF_vars(Attempt(a))
    /\ \A w \in Worker :
          /\ WF_vars(WorkerStep(w))
          /\ SF_vars(RereadRefuses(w) \/ RereadIncomplete(w)
                                      \/ RereadProceeds(w))
    /\ WF_vars(LeaseExpires)
    /\ \A p \in Payment : WF_vars(OrphanDecided(p))

FairSpec == Spec /\ Fairness

-----------------------------------------------------------------------------
(* Properties *)

(* Claim-then-work: between a claim and its final write no other execution *)
(* works on the same order's payout, in spite of takeovers and crashes.    *)
OneAttemptAtATime ==
    \A a, b \in Actor : Working(a) /\ Working(b) => a = b

(* An order marked transferred carries the receipt of a transfer that      *)
(* exists at the gateway (executeRouteSplit, processDoc: never a           *)
(* fabricated settlement).                                                 *)
TransferredIsTrue ==
    rts = "transferred" => receipt # None /\ landed[receipt] > 0

(* No handler takes a settled order back to another state or swaps its     *)
(* receipt, although every final write is unconditional.                   *)
TransferredIsFinal ==
    [][rts = "transferred" =>
          rts' = "transferred" /\ receipt' = receipt]_vars

(* Reconcile-before-POST: when a POST that timed out has been decided by   *)
(* the time anyone looks, no payment is transferred twice.                 *)
OnePayoutPerPayment ==
    ~SlowGateway => \A p \in Payment : landed[p] <= 1

(* A terminal refusal and the park doc of the order's payment commit       *)
(* together (recordTerminalRefusalInTx).                                   *)
RefusedPaymentIsParked ==
    refused /\ bound # None => bound \in parked

(* A refusal is never recorded over a payout that is being sent ("would    *)
(* falsely imply that no payout was sent"), and none is started after it.  *)
RefusalEndsAttempts ==
    refused => \A a \in Actor : ~Working(a)

(* A claimed or retryable payout does not stay so for ever: a crash        *)
(* between claim and POST cannot park the payout.                          *)
SplitSettles ==
    rts \in {"transferring", "pending_retry"}
        ~> rts \notin {"transferring", "pending_retry"}

(* executeRouteSplit: "so the non-idempotent payments.transfer POST can    *)
(* never fire twice for one order".                                        *)
PayoutNeverFiresTwice ==
    \A p, q \in Payment :
        landed[p] <= 1 /\ (landed[p] > 0 /\ landed[q] > 0 => p = q)

-----------------------------------------------------------------------------
(* What the three pieces promise together: see Payout.                     *)
P == INSTANCE Payout WITH
        paid <- landed,
        settled <- IF rts = "transferred" THEN receipt ELSE None

(* The payout protocol implements the abstract payout.                     *)
ImplementsPayout == P!Spec

=============================================================================
