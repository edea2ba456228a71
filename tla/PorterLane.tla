------------------------------ MODULE PorterLane ------------------------------
(***************************************************************************)
(* Porter's direct lane for ONE delivery order (porter.service.ts): the    *)
(* branch books, rebooks and calls off a courier, sends its own rider, and *)
(* checks the customer's code at the door; Porter calls back; a job polls  *)
(* the orders that went quiet.  Only the booking claim and the in-house    *)
(* assignment are transactions: everything else reads the order, decides,  *)
(* and merges its write later.                                             *)
(*                                                                         *)
(* The router's own claims on the same order are the subject of Dispatch;  *)
(* here its fields stay empty.  A booking is a number; request_id echoes   *)
(* the order, so every booking of the order carries the same hint.         *)
(***************************************************************************)
EXTENDS Naturals, FiniteSets

CONSTANTS Call,        \* executions that can overlap: taps and callbacks
          MaxBookings, \* bound: bookings that exist at Porter
          MaxCalls,    \* bound: taps and callbacks that begin
          MaxCrashes,   \* bound: executions that die
          MaxPolls,    \* MAX_FAILED_POLLS (12 in the code)
          OtpMax,      \* OTP_MAX_ATTEMPTS (3 in the code)
          Absent

ASSUME LaneAssumption ==
    /\ Absent \notin Nat
    /\ MaxBookings \in Nat /\ MaxCalls \in Nat /\ MaxCrashes \in Nat
    /\ MaxPolls \in Nat \ {0} /\ OtpMax \in Nat \ {0}

BookingNo == 1..MaxBookings

VARIABLES
    doc,      \* the fields of orders/{id} this lane reads and writes
    claimOld,   \* porterDispatchClaimedAt is more than 10 minutes old
    quiet,      \* updatedAt is more than 15 minutes old
    locked,     \* deliveryOtpLockedUntil lies ahead
    run,        \* what each execution is doing, with what it has read
    poll,       \* the polling job, one at a time under its scheduler lease
    porter,     \* Porter: how far each booking is
    mapped,     \* porter_order_map
    processed,  \* porter_webhook_events marked processed
    calls, crashes

limits == <<calls, crashes>>
laneVars == <<doc, claimOld, quiet, locked, run, poll, porter, mapped, processed,
              limits>>

LaneStatus == {"none", "dispatched", "in_transit", "delivered",
               "rider_cancelled", "needs_review"}
PorterDispatchStatus == {"none", "dispatch_pending", "dispatched",
                         "dispatch_failed", "needs_reconciliation",
                         "cancelled_by_store"}
RebookTrigger == {"none", "carrier_cancelled", "staff_cancelled"}
PorterEvent == {"DRIVER_ALLOCATED", "ARRIVED_AT_PICKUP", "STARTED_DELIVERY",
                "DELIVERED", "RIDER_CANCELLED"}
Stage == {"none", "searching", "allocated", "started", "delivered"}
InFlight == {"posting", "booked", "refused", "ambiguous"}
LaneStep == InFlight \cup {"idle", "mapping", "cancelling", "right", "wrong",
                         "applying", "marking"}

Doc == [deliveryStatus : LaneStatus,
        closed : BOOLEAN,                \* status.terminal
        porterOrderId : BookingNo \cup {Absent},
        porterDispatchStatus : PorterDispatchStatus,
        inHouse : BOOLEAN,               \* dispatchType manual_branch_terminal
        needsRebook : BOOLEAN,
        rebookTrigger : RebookTrigger,
        otp : BOOLEAN,                   \* a delivery code is on the order
        attempts : 0..OtpMax,
        porterPollCount : 0..MaxPolls]

(* of: the booking; event: the callback's; status and count: what was read *)
Run == [step : LaneStep, of : BookingNo \cup {Absent},
        event : PorterEvent \cup {Absent}, status : LaneStatus,
        count : 0..OtpMax]
Poll == [step : {"idle", "asking", "answered"}, of : BookingNo \cup {Absent},
         status : LaneStatus, count : 0..MaxPolls,
         answer : {"none", "failed", "dark", "underway", "started", "delivered"}]

Idle == [step |-> "idle", of |-> Absent, event |-> Absent, status |-> "none",
         count |-> 0]
NoPoll == [step |-> "idle", of |-> Absent, status |-> "none", count |-> 0,
           answer |-> "none"]

LaneTypeOK ==
    /\ doc \in Doc
    /\ claimOld \in BOOLEAN /\ quiet \in BOOLEAN /\ locked \in BOOLEAN
    /\ run \in [Call -> Run]
    /\ poll \in Poll
    /\ porter \in [BookingNo -> [stage : Stage, off : BOOLEAN]]
    /\ mapped \subseteq BookingNo
    /\ processed \subseteq BookingNo \X PorterEvent
    /\ calls \in 0..MaxCalls /\ crashes \in 0..MaxCrashes

LaneInit ==
    /\ doc = [deliveryStatus |-> "none", closed |-> FALSE,
              porterOrderId |-> Absent, porterDispatchStatus |-> "none",
              inHouse |-> FALSE, needsRebook |-> FALSE,
              rebookTrigger |-> "none", otp |-> TRUE, attempts |-> 0,
              porterPollCount |-> 0]
    /\ claimOld = FALSE /\ quiet = FALSE /\ locked = FALSE
    /\ run = [c \in Call |-> Idle]
    /\ poll = NoPoll
    /\ porter = [b \in BookingNo |-> [stage |-> "none", off |-> FALSE]]
    /\ mapped = {} /\ processed = {}
    /\ calls = 0 /\ crashes = 0

-----------------------------------------------------------------------------
(* What the code reads off the order.                                      *)

Active == doc.deliveryStatus \in {"dispatched", "in_transit"}
Closed == doc.deliveryStatus = "delivered" \/ doc.closed
Dispatched == doc.porterOrderId # Absent /\ Active      \* isDispatched
ClaimPending == doc.porterDispatchStatus = "dispatch_pending"
InHouseRides == doc.inHouse /\ Active

Rebookable == \/ doc.needsRebook
              \/ doc.deliveryStatus \in {"rider_cancelled", "needs_review"}

(* An execution ends, with or without an answer to its caller.             *)
End(c) == run' = [run EXCEPT ![c] = Idle]
Reach(c, step) == run' = [run EXCEPT ![c].step = step]

(* A merge write that stamps updatedAt.                                    *)
Merge(o) == doc' = o /\ quiet' = FALSE

Begin(c, r) ==
    /\ run[c].step = "idle"
    /\ calls < MaxCalls
    /\ calls' = calls + 1
    /\ run' = [run EXCEPT ![c] = r]

-----------------------------------------------------------------------------
(* Booking.                                                                *)

(* Mutant: a stale claim and a fresh one are both taken over.              *)
Free_AnyClaim == ~Closed /\ ~Dispatched /\ ~InHouseRides

(* Mutant: a finished order can be booked again.                           *)
Free_EvenFinished == ~Dispatched /\ ~InHouseRides /\ ~(ClaimPending /\ ~claimOld)

(* The claim transaction goes through: nothing is finished, dispatched,    *)
(* in-house or claimed less than 10 minutes ago.                           *)
Free ==
    /\ ~Closed
    /\ ~Dispatched
    /\ ~InHouseRides
    /\ ~(ClaimPending /\ ~claimOld)

(* /porter/book.  What it reads before the claim (addresses, the branch)   *)
(* does not change; a refused claim answers the tap and writes nothing.    *)
Book(c) ==
    /\ Free
    /\ Begin(c, [Idle EXCEPT !.step = "posting", !.status = doc.deliveryStatus])
    /\ doc' = [doc EXCEPT !.porterDispatchStatus = "dispatch_pending"]
    /\ claimOld' = FALSE
    /\ UNCHANGED <<quiet, locked, poll, porter, mapped, processed, crashes>>

(* /porter/rebook: books only what the courier dropped.  The flag is read  *)
(* before the claim, which decides again whether the order is free.        *)
Rebook(c) == Rebookable /\ Book(c)

(* POST /v1/orders/create.  Only an answer without an id is ambiguous; a   *)
(* timeout or an HTTP 5xx counts as refused, though it leaves a booking as *)
(* well as not.                                                            *)
Post(c) ==
    /\ run[c].step = "posting"
    /\ \/ \E b \in BookingNo :
            /\ porter[b].stage = "none"
            /\ \A a \in 1..(b - 1) : porter[a].stage # "none"
            /\ porter' = [porter EXCEPT ![b].stage = "searching"]
            /\ \E answer \in {"booked", "refused", "ambiguous"} :
                 run' = [run EXCEPT ![c].step = answer,
                                    ![c].of = IF answer = "booked" THEN b ELSE Absent]
       \/ /\ \E answer \in {"refused", "ambiguous"} : Reach(c, answer)
          /\ UNCHANGED porter
    /\ UNCHANGED <<doc, claimOld, quiet, locked, poll, mapped, processed, limits>>

(* The failure is written for staff to retry, or to reconcile.             *)
WriteFailed(c) ==
    /\ run[c].step \in {"refused", "ambiguous"}
    /\ Merge([doc EXCEPT !.porterDispatchStatus =
                  IF run[c].step = "ambiguous" THEN "needs_reconciliation"
                                               ELSE "dispatch_failed"])
    /\ End(c)
    /\ UNCHANGED <<claimOld, locked, poll, porter, mapped, processed, limits>>

WriteBooked(c) ==
    /\ run[c].step = "booked"
    /\ Merge([doc EXCEPT !.porterOrderId = run[c].of,
                           !.deliveryStatus = "dispatched",
                           !.porterDispatchStatus = "dispatched",
                           !.needsRebook = FALSE,
                           !.rebookTrigger = "none"])
    /\ Reach(c, "mapping")
    /\ UNCHANGED <<claimOld, locked, poll, porter, mapped, processed, limits>>

WriteMap(c) ==
    /\ run[c].step = "mapping"
    /\ mapped' = mapped \cup {run[c].of}
    /\ End(c)
    /\ UNCHANGED <<doc, claimOld, quiet, locked, poll, porter, processed, limits>>

-----------------------------------------------------------------------------
(* /porter/cancel: reads, then writes whatever has happened since.         *)

CancelRead(c) ==
    /\ Dispatched
    /\ Begin(c, [Idle EXCEPT !.step = "cancelling",
                             !.status = doc.deliveryStatus])
    /\ UNCHANGED <<doc, claimOld, quiet, locked, poll, porter, mapped,
                   processed, crashes>>

CancelWrite(c) ==
    /\ run[c].step = "cancelling"
    /\ Merge([doc EXCEPT !.deliveryStatus = "rider_cancelled",
                           !.porterDispatchStatus = "cancelled_by_store",
                           !.needsRebook = TRUE,
                           !.rebookTrigger = "staff_cancelled"])
    /\ End(c)
    /\ UNCHANGED <<claimOld, locked, poll, porter, mapped, processed, limits>>

-----------------------------------------------------------------------------
(* /dispatch/manual: the branch's own rider, in one transaction.           *)

(* Mutant: an order whose courier dropped out counts as unbound.           *)
MayAssign_ByStatus ==
    /\ ~Closed /\ ~Dispatched /\ ~InHouseRides
    /\ doc.porterDispatchStatus # "needs_reconciliation"

MayAssign ==
    /\ ~Closed
    /\ doc.porterOrderId = Absent     \* a lingering id still resolves callbacks
    /\ ~InHouseRides
    /\ ~ClaimPending                  \* fresh or stale: no proof of a cancel
    /\ doc.porterDispatchStatus # "needs_reconciliation"

ManualDispatch ==
    /\ MayAssign
    /\ Merge([doc EXCEPT !.inHouse = TRUE,
                           !.deliveryStatus = "dispatched",
                           !.needsRebook = FALSE,
                           !.rebookTrigger = "none"])
    /\ UNCHANGED <<claimOld, locked, run, poll, porter, mapped, processed, limits>>

-----------------------------------------------------------------------------
(* /orders/verifyDeliveryOtp: the customer's code.                         *)

VerifyRead(c) ==
    /\ doc.otp /\ ~locked
    /\ \E answer \in {"right", "wrong"} :
         Begin(c, [Idle EXCEPT !.step = answer, !.count = doc.attempts,
                               !.status = doc.deliveryStatus])
    /\ UNCHANGED <<doc, claimOld, quiet, locked, poll, porter, mapped,
                   processed, crashes>>

(* Mutant: the lock is written with every wrong answer, on or off.         *)
LockAfter_Overwritten(c) == run[c].count + 1 >= OtpMax

(* A wrong answer engages the lock and never takes it off: the field is    *)
(* not part of the write below the maximum.                                *)
LockAfter(c) == locked \/ run[c].count + 1 >= OtpMax

VerifyWrong(c) ==
    /\ run[c].step = "wrong"
    /\ Merge([doc EXCEPT !.attempts =
                  IF run[c].count < OtpMax THEN run[c].count + 1 ELSE OtpMax])
    /\ locked' = LockAfter(c)
    /\ End(c)
    /\ UNCHANGED <<claimOld, poll, porter, mapped, processed, limits>>

VerifyRight(c) ==
    /\ run[c].step = "right"
    /\ Merge([doc EXCEPT !.attempts = 0, !.otp = FALSE,
                           !.deliveryStatus = "delivered", !.closed = TRUE])
    /\ locked' = FALSE
    /\ End(c)
    /\ UNCHANGED <<claimOld, poll, porter, mapped, processed, limits>>

-----------------------------------------------------------------------------
(* /porter/webhook.  Porter tells each stage a booking has reached, in any *)
(* order and more than once; an event older than 15 minutes is parked and  *)
(* changes nothing.                                                        *)

Reached == [DRIVER_ALLOCATED  |-> {"allocated", "started", "delivered"},
            ARRIVED_AT_PICKUP |-> {"allocated", "started", "delivered"},
            STARTED_DELIVERY  |-> {"started", "delivered"},
            DELIVERED         |-> {"delivered"}]

Told(b, e) == IF e = "RIDER_CANCELLED" THEN porter[b].off
                                       ELSE porter[b].stage \in Reached[e]

(* Whether a callback finds this order: by the map unless the echoed       *)
(* request_id says another, by the hint, and without one by the id that is *)
(* on the order.                                                           *)
Hint == {"this", "other", "absent"}
Resolves(b, hint) ==
    IF b \in mapped THEN hint # "other"
    ELSE hint = "this" \/ (hint = "absent" /\ doc.porterOrderId = b)

TooLate(e) == e # "DELIVERED" /\ doc.deliveryStatus = "delivered"

(* A callback that is too late or finds no order is parked and marked.     *)
HookRead(c) == \E b \in BookingNo, e \in PorterEvent, hint \in Hint :
    /\ Told(b, e)
    /\ <<b, e>> \notin processed
    /\ IF Resolves(b, hint) /\ ~TooLate(e)
         THEN Begin(c, [Idle EXCEPT !.step = "applying", !.of = b, !.event = e,
                                    !.status = doc.deliveryStatus])
         ELSE Begin(c, [Idle EXCEPT !.step = "marking", !.of = b, !.event = e])
    /\ UNCHANGED <<doc, claimOld, quiet, locked, poll, porter, mapped,
                   processed, crashes>>

(* What the event makes of the order: only a courier who was not yet       *)
(* moving when the order was read is put back to "dispatched".             *)
Applied(e, seen) ==
    CASE e = "DRIVER_ALLOCATED" ->
           IF seen \in {"in_transit", "delivered"} THEN doc
           ELSE [doc EXCEPT !.deliveryStatus = "dispatched"]
      [] e = "ARRIVED_AT_PICKUP" -> doc
      [] e = "STARTED_DELIVERY" ->
           [doc EXCEPT !.deliveryStatus = "in_transit", !.closed = FALSE]
      [] e = "DELIVERED" ->
           [doc EXCEPT !.deliveryStatus = "delivered", !.closed = TRUE]
      [] e = "RIDER_CANCELLED" ->
           [doc EXCEPT !.deliveryStatus = "rider_cancelled",
                         !.closed = FALSE, !.needsRebook = TRUE,
                         !.rebookTrigger = "carrier_cancelled"]

HookWrite(c) ==
    /\ run[c].step = "applying"
    /\ Merge(Applied(run[c].event, run[c].status))
    /\ Reach(c, "marking")
    /\ UNCHANGED <<claimOld, locked, poll, porter, mapped, processed, limits>>

HookMark(c) ==
    /\ run[c].step = "marking"
    /\ processed' = processed \cup {<<run[c].of, run[c].event>>}
    /\ End(c)
    /\ UNCHANGED <<doc, claimOld, quiet, locked, poll, porter, mapped, limits>>

-----------------------------------------------------------------------------
(* The polling job: an order on its way that nobody has touched for 15     *)
(* minutes.                                                                *)

PollRead ==
    /\ poll.step = "idle"
    /\ Dispatched
    /\ quiet
    /\ poll' = [step |-> "asking", of |-> doc.porterOrderId,
                status |-> doc.deliveryStatus, count |-> doc.porterPollCount,
                answer |-> "none"]
    /\ UNCHANGED <<doc, claimOld, quiet, locked, run, porter, mapped,
                   processed, limits>>

(* GET /v1/orders/{id}: a cancelled booking is an answer the job has no    *)
(* case for.  A poll that failed counts more ("dark") when the order had   *)
(* been left alone for two hours at the read, not just 15 minutes.         *)
PollAnswer ==
    /\ poll.step = "asking"
    /\ \E answer \in {"failed", "dark",
                      IF porter[poll.of].off THEN "underway"
                      ELSE CASE porter[poll.of].stage = "started" -> "started"
                             [] porter[poll.of].stage = "delivered" -> "delivered"
                             [] OTHER -> "underway"} :
         poll' = [poll EXCEPT !.step = "answered", !.answer = answer]
    /\ UNCHANGED <<doc, claimOld, quiet, locked, run, porter, mapped,
                   processed, limits>>

(* Mutant: the failed polls are not counted, and every failed poll resets  *)
(* the two-hour clock.                                                     *)
Failures_Forgotten == 1
Failures == poll.count + 1

PollVerdict ==
    CASE poll.answer \in {"failed", "dark"} ->
           IF Failures >= MaxPolls \/ poll.answer = "dark"
             THEN [doc EXCEPT !.deliveryStatus = "needs_review",
                                !.needsRebook = TRUE,
                                !.porterPollCount =
                                    IF Failures < MaxPolls THEN Failures ELSE MaxPolls]
             ELSE [doc EXCEPT !.porterPollCount = Failures]
      [] poll.answer = "started" ->
           [doc EXCEPT !.deliveryStatus = "in_transit", !.closed = FALSE,
                         !.porterPollCount = 0]
      [] poll.answer = "delivered" ->
           [doc EXCEPT !.deliveryStatus = "delivered", !.closed = TRUE,
                         !.porterPollCount = 0]
      [] OTHER -> [doc EXCEPT !.porterPollCount = 0]

PollWrite ==
    /\ poll.step = "answered"
    /\ Merge(PollVerdict)
    /\ poll' = NoPoll
    /\ UNCHANGED <<claimOld, locked, run, porter, mapped, processed, limits>>

-----------------------------------------------------------------------------
(* Porter, the clock and the platform.                                     *)

NextStage == [searching |-> "allocated", allocated |-> "started",
              started |-> "delivered"]

CourierMoves == \E b \in BookingNo :
    /\ porter[b].stage \in DOMAIN NextStage /\ ~porter[b].off
    /\ porter' = [porter EXCEPT ![b].stage = NextStage[porter[b].stage]]
    /\ UNCHANGED <<doc, claimOld, quiet, locked, run, poll, mapped, processed,
                   limits>>

CourierDropsOut == \E b \in BookingNo :
    /\ porter[b].stage \in DOMAIN NextStage /\ ~porter[b].off
    /\ porter' = [porter EXCEPT ![b].off = TRUE]
    /\ UNCHANGED <<doc, claimOld, quiet, locked, run, poll, mapped, processed,
                   limits>>

(* A POST gives up after 15 seconds: no claim of a living execution is 10  *)
(* minutes old.                                                            *)
ClaimAges ==
    /\ ClaimPending /\ ~claimOld
    /\ \A c \in Call : run[c].step \notin InFlight
    /\ claimOld' = TRUE
    /\ UNCHANGED <<doc, quiet, locked, run, poll, porter, mapped, processed,
                   limits>>

Quietens ==
    /\ ~quiet /\ Dispatched
    /\ quiet' = TRUE
    /\ UNCHANGED <<doc, claimOld, locked, run, poll, porter, mapped, processed,
                   limits>>

LockEnds ==
    /\ locked /\ locked' = FALSE
    /\ UNCHANGED <<doc, claimOld, quiet, run, poll, porter, mapped, processed,
                   limits>>

(* An execution dies, or a write that ends it fails.                       *)
Crash(c) ==
    /\ run[c].step # "idle"
    /\ crashes < MaxCrashes
    /\ crashes' = crashes + 1
    /\ End(c)
    /\ UNCHANGED <<doc, claimOld, quiet, locked, poll, porter, mapped,
                   processed, calls>>

Proceed(c) ==
    \/ Post(c) \/ WriteFailed(c) \/ WriteBooked(c) \/ WriteMap(c)
    \/ CancelWrite(c) \/ VerifyWrong(c) \/ VerifyRight(c)
    \/ HookWrite(c) \/ HookMark(c)

Start(c) == Book(c) \/ Rebook(c) \/ CancelRead(c) \/ VerifyRead(c) \/ HookRead(c)

PollStep == PollRead \/ PollAnswer \/ PollWrite

LaneNext ==
    \/ \E c \in Call : Start(c) \/ Proceed(c) \/ Crash(c)
    \/ ManualDispatch
    \/ PollStep
    \/ CourierMoves \/ CourierDropsOut \/ ClaimAges \/ Quietens \/ LockEnds

LaneSpec == LaneInit /\ [][LaneNext]_laneVars

(* Executions go on, the job runs every 5 minutes, time passes.            *)
FairLaneSpec ==
    /\ LaneSpec
    /\ WF_laneVars(\E c \in Call : Proceed(c))
    /\ WF_laneVars(PollStep)
    /\ WF_laneVars(Quietens)

-----------------------------------------------------------------------------
(* Properties.                                                             *)

Flying(c) == run[c].step \in InFlight

(* Until a courier is on the order, at most one execution has a booking    *)
(* under way at Porter and the claim is its own and fresh, whatever taps,  *)
(* deaths, late answers and callbacks come between (claimPorterDispatch).  *)
FirstBookingIsAlone ==
    doc.porterOrderId = Absent =>
        \A c \in Call : Flying(c) =>
            /\ ClaimPending /\ ~claimOld
            /\ \A d \in Call \ {c} : ~Flying(d)

(* The branch's own rider is sent only while no booking is under way, none *)
(* is left unreconciled and no id is left that Porter's callbacks resolve  *)
(* to: manualBranchDispatch against every other lane.                      *)
InHouseRidesAlone ==
    [][doc'.inHouse /\ ~doc.inHouse =>
          /\ \A c \in Call : ~Flying(c)
          /\ doc.porterDispatchStatus # "needs_reconciliation"
          /\ doc.porterOrderId = Absent]_laneVars

(* A delivered order is taken back only by an execution that read it       *)
(* before it was delivered - their merges do not look again: no callback,  *)
(* claim, cancellation or poll that began on a delivered order moves it    *)
(* (the terminal guards, on the read of each).                             *)
RewindIsStale ==
    [][doc.deliveryStatus = "delivered" /\ doc'.deliveryStatus # "delivered" =>
          \/ poll.step = "answered" /\ poll'.step = "idle"
             /\ poll.status # "delivered"
          \/ \E c \in Call : /\ run'[c] # run[c]
                             /\ run[c].step \in {"booked", "cancelling", "applying"}
                             /\ run[c].status # "delivered"]_laneVars

(* The lockout of the delivery code outlives the wrong answers that were   *)
(* under way when it engaged: only time or the right code ends it, though  *)
(* those answers write back a counter they read before (verifyDeliveryOtp).*)
LockoutStands ==
    [][locked /\ ~locked' => doc'.otp = FALSE \/ doc' = doc]_laneVars

(* When the food is at the door and every callback is lost, the order does *)
(* not stay on its way: the job learns of it or hands it to the branch     *)
(* (pollActivePorterOrdersWorker).                                         *)
AtTheDoor(b) ==
    /\ porter[b].stage = "delivered"
    /\ doc.porterOrderId = b
    /\ Active
NoDeliveryGoesDark ==
    \A b \in BookingNo : AtTheDoor(b) ~> ~(Active /\ doc.porterOrderId = b)

(* What handlePorterWebhook says of an event of a booking that is not the  *)
(* one on the order ("the event is parked, no blind flip"): it leaves the  *)
(* order as it is.                                                         *)
ForeignEventIsParked ==
    [][\A c \in Call :
          /\ run[c].step = "applying" /\ run'[c].step = "marking"
          /\ doc.porterOrderId \in BookingNo
          /\ run[c].of # doc.porterOrderId
          => doc' = doc]_laneVars
===============================================================================
