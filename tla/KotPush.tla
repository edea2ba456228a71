------------------------------ MODULE KotPush ------------------------------
(***************************************************************************)
(* The kitchen ticket (KOT) of ONE order: pushOrderToPetpooja              *)
(* (petpooja/orderPush.ts), called by the payment webhook and by the       *)
(* kitchen's own button, and retryPendingPetpoojaOrdersWorker              *)
(* (petpooja/petpooja.scheduler.ts), which retries, parks what a dead      *)
(* instance left and gives up.                                             *)
(*                                                                         *)
(* The POS does not dedupe: every POST it registers rings the kitchen.     *)
(* A lease lives 10 minutes, longer than the platform lets an execution    *)
(* run, so it expires only when its owner is gone.  The two shapes of an   *)
(* accepted order (petpoojaOrderId, petpoojaAcceptedNoId) are one flag.    *)
(***************************************************************************)
EXTENDS Naturals, FiniteSets

CONSTANTS Caller,        \* webhook deliveries and taps on the button
          Worker,        \* overlapping instances of the retry worker
          RetryLimit,    \* attempts before giving up (3 in the code)
          LostAnswers,   \* the connection may break after the POS registered
          None

Pusher == Caller \cup Worker

ASSUME ConstantsAssumption ==
    /\ Caller \cap Worker = {}
    /\ None \notin Pusher
    /\ RetryLimit \in Nat
    /\ LostAnswers \in BOOLEAN

VARIABLES
    status,     \* petpoojaStatus
    accepted,   \* petpoojaOrderId or petpoojaAcceptedNoId is set
    ambiguous,  \* petpoojaAmbiguousProcessing
    kotFailed,  \* kotSyncFailed: the branch sees that the ticket needs a hand
    retries,    \* petpoojaRetryCount, up to RetryLimit + 1
    pushLease,  pushStale,    \* petpoojaPushClaimedAt: holder, 10 minutes old
    retryLease, retryStale,   \* petpoojaClaimedAt, the worker's
    pc,
    answer,     \* what the execution knows of its POST
    seen,       \* the retry count it read at its start
    tickets,    \* POS: tickets rung, up to 2
    told,       \* the branch was told to enter the ticket by hand
    takenOver   \* history: a push took over the lease of a dead one

docVars == <<status, accepted, ambiguous, kotFailed, retries>>
leaseVars == <<pushLease, pushStale, retryLease, retryStale>>
execVars == <<pc, answer, seen>>
vars == <<docVars, leaseVars, execVars, tickets, told, takenOver>>

Status == {"none", "processing", "pending_retry", "synced",
           "reconciliation_required", "failed"}
Step == {"idle", "retryable", "exhausted", "calling", "claiming", "posting",
         "saving", "failing"}
Answer == {"none", "accepted", "ambiguous", "rejected"}

DocTypes ==
    /\ status \in Status
    /\ accepted \in BOOLEAN /\ ambiguous \in BOOLEAN /\ kotFailed \in BOOLEAN
    /\ told \in BOOLEAN /\ takenOver \in BOOLEAN
LeaseTypes ==
    /\ pushLease \in Pusher \cup {None} /\ pushStale \in BOOLEAN
    /\ retryLease \in Worker \cup {None} /\ retryStale \in BOOLEAN
ExecTypes ==
    /\ pc \in [Pusher -> Step]
    /\ answer \in [Pusher -> Answer]
Counts ==
    /\ retries \in 0..RetryLimit + 1
    /\ seen \in [Pusher -> 0..RetryLimit + 1]
    /\ tickets \in 0..2
TypeOK == DocTypes /\ LeaseTypes /\ ExecTypes /\ Counts

Init ==
    /\ status = "none" /\ retries = 0
    /\ accepted = FALSE /\ ambiguous = FALSE /\ kotFailed = FALSE
    /\ pushLease = None /\ pushStale = FALSE
    /\ retryLease = None /\ retryStale = FALSE
    /\ pc = [p \in Pusher |-> "idle"]
    /\ answer = [p \in Pusher |-> "none"]
    /\ seen = [p \in Pusher |-> 0]
    /\ tickets = 0 /\ told = FALSE /\ takenOver = FALSE

Goto(p, step) == pc' = [pc EXCEPT ![p] = step]

(* The locals go with the execution.                                       *)
Leave(p) ==
    /\ Goto(p, "idle")
    /\ answer' = [answer EXCEPT ![p] = "none"]
    /\ seen' = [seen EXCEPT ![p] = 0]

OneMore(n) == IF n > RetryLimit THEN n ELSE n + 1

PushLive == pushLease # None /\ ~pushStale
RetryLive == retryLease # None /\ ~retryStale

ReleaseBoth ==
    /\ pushLease' = None /\ pushStale' = FALSE
    /\ retryLease' = None /\ retryStale' = FALSE

-----------------------------------------------------------------------------
(* pushOrderToPetpooja.                                                    *)

(* An operator has to look at the kitchen first.                           *)
Blocked ==
    \/ status = "reconciliation_required" \/ ambiguous
    \/ (kotFailed /\ status = "failed")

(* The read at the start, outside the transaction.                         *)
ReadOrder(p) ==
    /\ pc[p] = "calling" \/ (p \in Caller /\ pc[p] = "idle")
    /\ IF accepted \/ Blocked
       THEN Leave(p)
       ELSE /\ Goto(p, "claiming")
            /\ seen' = [seen EXCEPT ![p] = retries]
            /\ UNCHANGED answer
    /\ UNCHANGED <<docVars, leaseVars, tickets, told, takenOver>>

MayPush_NoLease == ~Blocked /\ ~accepted
MayPush == ~Blocked /\ ~accepted /\ ~PushLive

(* The claim transaction: blocked, dup, busy and gone send the caller away. *)
ClaimPush_LeaseOnly(p) ==
    /\ pc[p] = "claiming"
    /\ MayPush
    /\ pushLease' = p /\ pushStale' = FALSE
    /\ takenOver' = (takenOver \/ pushStale)
    /\ Goto(p, "posting")
    /\ UNCHANGED <<status, accepted, ambiguous, kotFailed, retries, retryLease,
                   retryStale, answer, seen, tickets, told>>
ClaimPush(p) ==
    /\ pc[p] = "claiming"
    /\ MayPush
    /\ status' = "processing"
    /\ pushLease' = p /\ pushStale' = FALSE
    /\ takenOver' = (takenOver \/ pushStale)
    /\ Goto(p, "posting")
    /\ UNCHANGED <<accepted, ambiguous, kotFailed, retries, retryLease,
                   retryStale, answer, seen, tickets, told>>

SentAway(p) ==
    /\ pc[p] = "claiming"
    /\ Leave(p)
    /\ UNCHANGED <<docVars, leaseVars, tickets, told, takenOver>>

(* What the POS did with the POST and what the execution can tell of it:   *)
(* a clean answer, a refusal or an error page, a timeout, and a connection *)
(* that breaks or a body that cannot be read.                              *)
Outcomes ==
    {<<1, "accepted">>, <<0, "rejected">>, <<0, "ambiguous">>, <<1, "ambiguous">>}
        \cup (IF LostAnswers THEN {<<1, "rejected">>} ELSE {})

Post(p) ==
    /\ pc[p] = "posting"
    /\ \E o \in Outcomes :
         /\ tickets' = IF tickets + o[1] > 2 THEN 2 ELSE tickets + o[1]
         /\ answer' = [answer EXCEPT ![p] = o[2]]
         /\ Goto(p, IF o[2] = "accepted" THEN "saving" ELSE "failing")
    /\ UNCHANGED <<docVars, leaseVars, seen, told, takenOver>>

(* The plain write of the acceptance, or its failure.                      *)
Save(p) ==
    /\ pc[p] = "saving"
    /\ \/ /\ status' = "synced" /\ accepted' = TRUE
          /\ ReleaseBoth
          /\ Leave(p)
       \/ /\ Goto(p, "failing")
          /\ UNCHANGED <<status, accepted, leaseVars, answer, seen>>
    /\ UNCHANGED <<ambiguous, kotFailed, retries, tickets, told, takenOver>>

(* The order is parked for an operator, and never retried.                 *)
Park ==
    /\ status' = "reconciliation_required"
    /\ ambiguous' = TRUE /\ kotFailed' = TRUE
    /\ UNCHANGED retries

RecordFailure(p, count) ==
    \/ /\ answer[p] \in {"accepted", "ambiguous"}
       /\ Park
       /\ accepted' = (accepted \/ answer[p] = "accepted")
    \/ /\ answer[p] = "rejected"
       /\ status' = "pending_retry" /\ retries' = OneMore(count)
       /\ UNCHANGED <<accepted, ambiguous, kotFailed>>

(* The failure transaction re-reads the order; if it fails itself, the     *)
(* same record is written without looking.                                 *)
Fail(p) ==
    /\ pc[p] = "failing"
    /\ \/ (accepted /\ UNCHANGED docVars)
       \/ (~accepted /\ RecordFailure(p, retries))
       \/ RecordFailure(p, seen[p])
    /\ ReleaseBoth
    /\ Leave(p)
    /\ UNCHANGED <<tickets, told, takenOver>>

Kill(p) ==
    /\ pc[p] # "idle"
    /\ Leave(p)
    /\ UNCHANGED <<docVars, leaseVars, tickets, told, takenOver>>

Working(p) == pc[p] \in {"posting", "saving", "failing"}

(* An execution that was running when a lease was taken is over before the *)
(* lease is.  (A worker that is calling claimed before the push lease.)    *)
PushLeaseExpires ==
    /\ pushLease # None /\ ~Working(pushLease)
    /\ \A w \in Worker : pc[w] # "calling"
    /\ pushStale' = TRUE
    /\ UNCHANGED <<docVars, pushLease, retryLease, retryStale, execVars, tickets,
                   told, takenOver>>

RetryLeaseExpires ==
    /\ retryLease # None
    /\ pc[retryLease] \in {"idle", "retryable", "exhausted"}
    /\ retryStale' = TRUE
    /\ UNCHANGED <<docVars, pushLease, pushStale, retryLease, execVars, tickets,
                   told, takenOver>>

-----------------------------------------------------------------------------
(* retryPendingPetpoojaOrdersWorker.                                       *)

(* Parks a push whose lease ran out, without another POST.                 *)
ParkStale ==
    /\ status = "processing" /\ ~accepted
    /\ ~PushLive /\ ~RetryLive
    /\ Park
    /\ ReleaseBoth
    /\ UNCHANGED <<accepted, execVars, tickets, told, takenOver>>

(* The scan sorts the order by the retry count it reads.                   *)
Scan(w) ==
    /\ pc[w] = "idle"
    /\ status = "pending_retry"
    /\ Goto(w, IF retries > RetryLimit THEN "exhausted" ELSE "retryable")
    /\ UNCHANGED <<docVars, leaseVars, answer, seen, tickets, told, takenOver>>

(* The claim transaction; a lost claim ends the worker's interest.         *)
ClaimRetry(w) ==
    /\ pc[w] = "retryable"
    /\ IF status = "pending_retry" /\ ~RetryLive /\ ~PushLive
       THEN /\ status' = "processing"
            /\ retryLease' = w /\ retryStale' = FALSE
            /\ Goto(w, "calling")
       ELSE Goto(w, "idle") /\ UNCHANGED <<status, retryLease, retryStale>>
    /\ UNCHANGED <<accepted, ambiguous, kotFailed, retries, pushLease, pushStale,
                   answer, seen, tickets, told, takenOver>>

(* The push threw before it claimed: the worker gives its claim back.      *)
GiveBack(w) ==
    /\ pc[w] = "calling"
    /\ IF status = "processing" /\ ~accepted /\ ~PushLive
       THEN status' = "pending_retry" /\ retryLease' = None /\ retryStale' = FALSE
       ELSE UNCHANGED <<status, retryLease, retryStale>>
    /\ Goto(w, "idle")
    /\ UNCHANGED <<accepted, ambiguous, kotFailed, retries, pushLease, pushStale,
                   answer, seen, tickets, told, takenOver>>

(* The dead letter: the branch is told to enter the ticket by hand.        *)
MayGiveUp_OnStaleScan == TRUE
MayGiveUp ==
    /\ ~accepted /\ ~ambiguous
    /\ status \notin {"synced", "reconciliation_required"}

GiveUp(w) ==
    /\ pc[w] = "exhausted"
    /\ IF MayGiveUp
       THEN status' = "failed" /\ kotFailed' = TRUE /\ told' = TRUE
       ELSE UNCHANGED <<status, kotFailed, told>>
    /\ Goto(w, "idle")
    /\ UNCHANGED <<accepted, ambiguous, retries, leaseVars, answer, seen,
                   tickets, takenOver>>

PushSteps(p) == \/ ReadOrder(p) \/ ClaimPush(p) \/ SentAway(p)
                \/ Post(p) \/ Save(p) \/ Fail(p)

Next ==
    \/ \E p \in Pusher : PushSteps(p) \/ Kill(p)
    \/ \E w \in Worker : Scan(w) \/ ClaimRetry(w) \/ GiveBack(w) \/ GiveUp(w)
    \/ PushLeaseExpires \/ RetryLeaseExpires
    \/ ParkStale

Spec == Init /\ [][Next]_vars

(* Executions run on until the platform kills them, leases run out, and    *)
(* the worker is scheduled every five minutes; it is not killed for ever   *)
(* at the same place.                                                      *)
Fairness ==
    /\ WF_vars(PushLeaseExpires) /\ WF_vars(RetryLeaseExpires)
    /\ SF_vars(ParkStale)
    /\ \A p \in Pusher : WF_vars(PushSteps(p) /\ pc[p] # "idle")
    /\ \A w \in Worker : /\ SF_vars(Scan(w)) /\ SF_vars(ClaimRetry(w))
                         /\ SF_vars(ReadOrder(w)) /\ SF_vars(GiveUp(w))

FairSpec == Spec /\ Fairness

-----------------------------------------------------------------------------
(* Properties.                                                             *)

(* The kitchen rings once, whoever calls, retries, crashes or times out,   *)
(* unless a caller took over the lease of a push that died.                *)
OneTicketUnlessTakenOver == tickets > 1 => takenOver

(* A ticket that was rung is never up for another attempt: a failed write, *)
(* a timeout or a crash after the POS registered ends with an operator.    *)
RungIsNotRetried ==
    status = "pending_retry" /\ ~accepted /\ ~takenOver => tickets = 0

(* No rung ticket is lost: the order knows it, shows it to an operator, or *)
(* still is under the lease of the push that made it.                      *)
RungIsKnown ==
    tickets > 0 => accepted \/ ambiguous \/ pushLease # None \/ takenOver

(* An accepted order stays accepted, and is not offered to an operator as  *)
(* given up.                                                               *)
AcceptedIsKept == [][accepted => accepted' /\ told' = told]_vars

(* Every push that was started ends with a ticket the order knows or with  *)
(* a flag the branch sees, also when the instance died on the way.         *)
KotIsResolved == pushLease # None ~> accepted \/ kotFailed

(* What the code says of its lease and of its crash lane: an order is      *)
(* never POSTed a second time.                                             *)
OneTicket == tickets < 2
=============================================================================
