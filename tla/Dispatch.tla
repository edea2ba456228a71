------------------------------- MODULE Dispatch -------------------------------
(***************************************************************************)
(* The rider of ONE delivery order: dispatch.router.ts books one from the  *)
(* carriers, its two jobs rebook and clean up, dispatch.webhooks.ts        *)
(* applies the carriers' callbacks, and manualBranchDispatch               *)
(* (porter.service.ts) sends the branch's own rider.                       *)
(*                                                                         *)
(* A booking is named by the generation of the claim it was made under and *)
(* its carrier: the correlation token that travels with the POST carries   *)
(* the generation.  Porter is the lane by hand: its "booking" asks the     *)
(* staff to paste what they booked in Porter's own app.  A claim's lease   *)
(* lives 10 minutes and no function runs longer than 9, so a lease expires *)
(* only when its owner is gone.                                            *)
(***************************************************************************)
EXTENDS Naturals, FiniteSets

CONSTANTS Carrier,   \* carriers booked through their API
          Porter,    \* the lane by hand
          Staff,     \* taps on the delivery queue
          Worker,    \* instances of the auto-rebook job
          MaxTaps,   \* bound: bookings asked for or pasted by staff
          MaxFaults, \* bound: killed instances and failed writes
          MaxGen,    \* bound: claims
          AutoRebookMax,  \* AUTO_REBOOK_MAX_ATTEMPTS (2 in the code)
          None

Walker == Staff \cup Worker
Lane == Carrier \cup {Porter}
Pasted == <<0, Porter>>
Booked == (1..MaxGen) \X Carrier
Booking == Booked \cup {Pasted}
Correlation == (1..MaxGen) \X (Lane \cup {None})

(* What the code leaves open, recorded when it happens: a callback is       *)
(* written over an order that belongs to another booking by then, or puts  *)
(* a ride back on its way that had ended, or binds a ride to an order it   *)
(* leaves under review; a POST that counts as refused left a booking.      *)
Slip == {"moved_on", "revived", "under_review", "left_behind"}

ASSUME ConstantsAssumption ==
    /\ Porter \notin Carrier /\ None \notin Lane \cup Booking \cup Correlation
    /\ Staff \cap Worker = {}
    /\ MaxTaps \in Nat /\ MaxFaults \in Nat /\ MaxGen \in Nat
    /\ AutoRebookMax \in Nat \ {0}

VARIABLES
    order,      \* the fields of orders/{id} that dispatch reads and writes
    leaseOld,   \* dispatchClaimedAt is more than 10 minutes old
    stamped,    \* dispatch_correlation_map: the lane POSTed to, of the last claim
    walk,       \* the executions of dispatchBook and of the worker
    callback,   \* a carrier event read against the order and not yet written
    live,       \* riders on the way that the branch has not let go
    calledOff, delivered,   \* carriers: what became of the other bookings
    slips,      \* history, read by no action: what has gone astray, see Slip
    taps, faults

remote == <<live, calledOff, delivered, slips>>
bounds == <<taps, faults>>
vars == <<order, leaseOld, stamped, walk, callback, remote, bounds>>

DeliveryStatus == {"none", "dispatched", "in_transit", "delivered",
                   "rider_cancelled", "needs_review"}
DispatchStatus == {"none", "dispatch_pending", "dispatched", "dispatch_failed",
                   "manual_pending", "cancelled_by_store",
                   "needs_reconciliation"}
AutoTrigger == {"carrier_cancelled", "dispatch_failed"}
Trigger == AutoTrigger \cup {"none", "staff_cancelled", "manual_review"}
Event == {"DRIVER_ALLOCATED", "ARRIVED_AT_PICKUP", "STARTED_DELIVERY",
          "DELIVERED", "CARRIER_CANCELLED", "OTHERWISE_CANCELLED"}
Step == {"idle", "clearing", "called", "claiming", "quoting", "walking",
         "posting", "booked", "unknown", "counting"}

Order == [deliveryStatus : DeliveryStatus,
          dispatchStatus : DispatchStatus,
          needsRebook : BOOLEAN,
          rebookTrigger : Trigger,
          binding : Booking \cup {None},      \* dispatchProvider, dispatchOrderId
          released : SUBSET Booking,          \* dispatchReleasedBindings
          generation : 0..MaxGen,
          pending : Correlation \cup {None},  \* dispatchPendingCorrelation
          tries : 0..AutoRebookMax,           \* autoRebookAttempts
          closed : BOOLEAN,                   \* status.terminal
          inHouse : BOOLEAN]                  \* dispatchType

(* The locals of an execution.  Binding, released and calledOff are of the *)
(* order as it was read before the claim: the booking to retire, with the  *)
(* history to add it to, and whether the trigger was a carrier's cancel.   *)
Walk == [step : Step, binding : Booking \cup {None}, released : SUBSET Booking,
         calledOff : BOOLEAN, mine : 0..MaxGen, todo : SUBSET Lane,
         at : Lane \cup {None}, exclude : SUBSET Lane, tries : 0..AutoRebookMax]

Callback == [of : Booked, event : Event]

TypeOK ==
    /\ order \in Order /\ leaseOld \in BOOLEAN
    /\ stamped \in Lane \cup {None}
    /\ walk \in [Walker -> Walk]
    /\ callback \in Callback \cup {None}
    /\ live \subseteq Booking
    /\ calledOff \subseteq Booked /\ delivered \subseteq Booked
    /\ slips \subseteq Slip
    /\ taps \in 0..MaxTaps /\ faults \in 0..MaxFaults

NoWalk == [step |-> "idle", binding |-> None, released |-> {}, calledOff |-> FALSE,
           mine |-> 0, todo |-> {}, at |-> None, exclude |-> {}, tries |-> 0]

Init ==
    /\ order = [deliveryStatus |-> "none", dispatchStatus |-> "none",
                needsRebook |-> FALSE, rebookTrigger |-> "none",
                binding |-> None, released |-> {}, generation |-> 0,
                pending |-> None, tries |-> 0, closed |-> FALSE,
                inHouse |-> FALSE]
    /\ leaseOld = FALSE
    /\ stamped = None
    /\ walk = [p \in Walker |-> NoWalk]
    /\ callback = None
    /\ live = {} /\ calledOff = {} /\ delivered = {} /\ slips = {}
    /\ taps = 0 /\ faults = 0

-----------------------------------------------------------------------------
(* What the code reads off an order.                                       *)

Terminal == order.deliveryStatus = "delivered" \/ order.closed
OnItsWay == order.deliveryStatus \in {"dispatched", "in_transit"}
InHouseActive == order.inHouse /\ OnItsWay

HasOwnedLiveBooking ==
    /\ order.dispatchStatus = "dispatched"
    /\ ~order.needsRebook
    /\ order.deliveryStatus # "needs_review"
    /\ order.binding # None
IsActiveDispatch == HasOwnedLiveBooking \/ (OnItsWay /\ order.binding # None)

Pending == order.dispatchStatus = "dispatch_pending"
FreshPending == Pending /\ ~leaseOld

(* Mutant: only the lane on the order counts as evidence.                 *)
MayHoldRemoteBooking_NoRow ==
    Pending /\ order.pending # None /\ order.pending[2] # None

(* staleClaimMayHoldRemoteBooking: the row is stamped before every POST.   *)
MayHoldRemoteBooking ==
    /\ Pending /\ order.pending # None
    /\ order.pending[2] # None \/ stamped # None

Contained ==
    \/ order.deliveryStatus = "needs_review"
    \/ order.rebookTrigger = "manual_review"

(* staleClaimParkWrite.                                                    *)
ParkClaim ==
    /\ order' = [order EXCEPT !.dispatchStatus = "needs_reconciliation",
                              !.needsRebook = FALSE, !.rebookTrigger = "none"]
    /\ leaseOld' = FALSE

(* buildReleasedBindingWrite: the order with binding b retired into history *)
(* h, both as they were read by whoever writes.                            *)
Releasing(o, b, h) ==
    IF b = None THEN o ELSE [o EXCEPT !.released = h \cup {b}, !.binding = None]

(* Riders the branch no longer counts on: their bookings are in released   *)
(* history, or staff have seen to them.                                    *)
LetGo(bookings) == live' = live \ bookings

-----------------------------------------------------------------------------
(* dispatchBook and the worker's loop around it.                           *)

At(p, step) == walk[p].step = step
Holding(p) ==
    walk[p].step \in {"quoting", "walking", "posting", "booked", "unknown"}
Return(p) == walk' = [walk EXCEPT ![p] = NoWalk]
(* The worker catches what dispatchBook throws and counts the attempt.     *)
Throw(p) ==
    walk' = [walk EXCEPT ![p] =
               IF p \in Worker
               THEN [NoWalk EXCEPT !.step = "counting", !.tries = walk[p].tries]
               ELSE NoWalk]

(* The read before the claim, outside its transaction.                     *)
ReadOrder(p) ==
    walk' = [walk EXCEPT ![p].step = "claiming",
                         ![p].binding = order.binding,
                         ![p].released = IF order.binding = None THEN {}
                                         ELSE order.released,
                         ![p].calledOff =
                            order.rebookTrigger = "carrier_cancelled"]

(* POST /dispatch/book, and /dispatch/rebook behind its own guard.         *)
Tap(p) ==
    /\ At(p, "idle") /\ taps < MaxTaps
    /\ ~Terminal
    /\ ReadOrder(p)
    /\ taps' = taps + 1
    /\ UNCHANGED <<order, leaseOld, stamped, callback, remote, faults>>

(* autoRebookDispatchWorker: the scan, and what it decides from it later.  *)
Scan(w) ==
    /\ At(w, "idle")
    /\ order.needsRebook
    /\ walk' = [walk EXCEPT ![w] =
         [NoWalk EXCEPT
            !.step = IF /\ order.rebookTrigger \in AutoTrigger
                        /\ ~Terminal
                        /\ order.tries < AutoRebookMax
                     THEN "called" ELSE "clearing",
            !.exclude = {b[2] : b \in order.released \cup ({order.binding} \ {None})},
            !.tries = order.tries]]
    /\ UNCHANGED <<order, leaseOld, stamped, callback, remote, bounds>>

ClearFlag(w) ==
    /\ At(w, "clearing")
    /\ order' = [order EXCEPT !.needsRebook = FALSE]
    /\ Return(w)
    /\ UNCHANGED <<leaseOld, stamped, callback, remote, bounds>>

WorkerCalls(w) ==
    /\ At(w, "called")
    /\ IF Terminal THEN Throw(w) ELSE ReadOrder(w)
    /\ UNCHANGED <<order, leaseOld, stamped, callback, remote, bounds>>

(* claimDispatch, in the order of its early returns.  The walk that follows *)
(* takes every lane but the excluded ones, in any ranking; lanes that give *)
(* no quote are the ones left over when it ends.                           *)
Refused == Terminal \/ InHouseActive
Reused == ~Refused /\ IsActiveDispatch
Unreconciled ==
    ~Refused /\ ~IsActiveDispatch /\ order.dispatchStatus = "needs_reconciliation"
Claimable == ~Refused /\ ~IsActiveDispatch /\ ~FreshPending
                /\ order.dispatchStatus # "needs_reconciliation"

ClaimThrows(p) ==
    /\ At(p, "claiming")
    /\ Refused \/ Unreconciled
    /\ Throw(p)
    /\ UNCHANGED <<order, leaseOld, stamped, callback, remote, bounds>>

(* A replay of the stored booking, or 202: the worker counts neither.      *)
ClaimAnswers(p) ==
    /\ At(p, "claiming")
    /\ Reused \/ (~Refused /\ ~Unreconciled /\ FreshPending)
    /\ Return(p)
    /\ UNCHANGED <<order, leaseOld, stamped, callback, remote, bounds>>

ClaimParks(p) ==
    /\ At(p, "claiming")
    /\ Claimable /\ MayHoldRemoteBooking
    /\ ParkClaim
    /\ Throw(p)
    /\ UNCHANGED <<stamped, callback, remote, bounds>>

Claim(p) ==
    /\ At(p, "claiming")
    /\ Claimable /\ ~MayHoldRemoteBooking
    /\ order.generation < MaxGen
    /\ LET g == order.generation + 1 IN
         /\ order' = [order EXCEPT !.dispatchStatus = "dispatch_pending",
                                   !.generation = g, !.pending = <<g, None>>]
         /\ walk' = [walk EXCEPT ![p].step = "quoting", ![p].mine = g,
                                 ![p].todo = Lane \ walk[p].exclude,
                                 ![p].exclude = {}]
    /\ leaseOld' = FALSE /\ stamped' = None
    /\ UNCHANGED <<callback, remote, bounds>>

(* Out of the radius, no carrier configured, or a fare staff must confirm: *)
(* releaseClaimIdle.                                                       *)
ReleaseIdle(p) ==
    /\ At(p, "quoting")
    /\ order' = [order EXCEPT !.dispatchStatus = "none"]
    /\ leaseOld' = FALSE
    /\ Throw(p)
    /\ UNCHANGED <<stamped, callback, remote, bounds>>

Walking(p) == walk[p].step \in {"quoting", "walking"}

(* Mutant: the POST is made without the evidence.                          *)
Stamp_Forgotten(p) ==
    /\ Walking(p)
    /\ \E lane \in walk[p].todo :
         walk' = [walk EXCEPT ![p].step = "posting", ![p].at = lane,
                              ![p].todo = @ \ {lane}]
    /\ UNCHANGED <<order, leaseOld, stamped, callback, remote, bounds>>

(* The evidence that a POST may have been made, just before it.            *)
Stamp(p) ==
    /\ Walking(p)
    /\ \E lane \in walk[p].todo :
         /\ stamped' = IF walk[p].mine = order.generation THEN lane ELSE stamped
         /\ walk' = [walk EXCEPT ![p].step = "posting", ![p].at = lane,
                                 ![p].todo = @ \ {lane}]
    /\ UNCHANGED <<order, leaseOld, callback, remote, bounds>>

Mine(p) == <<walk[p].mine, walk[p].at>>

(* A lane's answer ends the walk, a refusal (ProviderDispatchError) does not. *)
EndWalk(p, step) ==
    walk' = [walk EXCEPT ![p].step = step, ![p].todo = {}]

(* A network failure or an HTTP 5xx counts as a refusal, although it says  *)
(* nothing about what the carrier did with the request.                    *)
PostRefused(p) ==
    /\ At(p, "posting") /\ walk[p].at \in Carrier
    /\ walk' = [walk EXCEPT ![p].step = "walking", ![p].at = None]
    /\ \/ UNCHANGED <<live, slips>>
       \/ live' = live \cup {Mine(p)} /\ slips' = slips \cup {"left_behind"}
    /\ UNCHANGED <<order, leaseOld, stamped, callback, calledOff, delivered,
                   bounds>>

PostBooked(p) ==
    /\ At(p, "posting") /\ walk[p].at \in Carrier
    /\ live' = live \cup {Mine(p)}
    /\ EndWalk(p, "booked")
    /\ UNCHANGED <<order, leaseOld, stamped, callback, calledOff, delivered, slips,
                   bounds>>

(* PROVIDER_BOOK_AMBIGUOUS: the rider may be on the way.                   *)
PostUnknown(p) ==
    /\ At(p, "posting") /\ walk[p].at \in Carrier
    /\ live' \in {live, live \cup {Mine(p)}}
    /\ EndWalk(p, "unknown")
    /\ UNCHANGED <<order, leaseOld, stamped, callback, calledOff, delivered, slips,
                   bounds>>

(* The settling writes are plain writes of what the execution knows.       *)
Settle(p, written) ==
    /\ order' = written
    /\ leaseOld' = FALSE
    /\ UNCHANGED <<stamped, callback, calledOff, delivered, slips, bounds>>
Released(p) == {walk[p].binding} \ {None}

SaveBooked(p) ==
    /\ At(p, "booked")
    /\ Settle(p, [order EXCEPT !.binding = Mine(p),
                               !.deliveryStatus = "dispatched",
                               !.dispatchStatus = "dispatched",
                               !.generation = walk[p].mine, !.pending = None,
                               !.needsRebook = FALSE,
                               !.rebookTrigger = "none", !.tries = 0])
    /\ Return(p)
    /\ UNCHANGED live

SaveUnknown(p) ==
    /\ At(p, "unknown")
    /\ Settle(p, Releasing([order EXCEPT
                              !.dispatchStatus = "needs_reconciliation",
                              !.generation = walk[p].mine,
                              !.pending = Mine(p),
                              !.needsRebook = FALSE, !.rebookTrigger = "none"],
                           walk[p].binding, walk[p].released))
    /\ LetGo(Released(p))
    /\ Throw(p)

(* Porter's "booking" answers at once, without a request.                  *)
SaveManual(p) ==
    /\ At(p, "posting") /\ walk[p].at = Porter
    /\ Settle(p, Releasing([order EXCEPT
                              !.dispatchStatus = "manual_pending",
                              !.needsRebook = FALSE, !.rebookTrigger = "none"],
                           walk[p].binding, walk[p].released))
    /\ LetGo(Released(p))
    /\ Return(p)

(* releaseClaimFailed: no lane is left or wanted any more, or an adapter   *)
(* threw a plain error before its request.                                 *)
SaveFailed(p) ==
    /\ Walking(p) \/ (At(p, "posting") /\ walk[p].at \in Carrier)
    /\ Settle(p, Releasing([order EXCEPT
                              !.dispatchStatus = "dispatch_failed",
                              !.needsRebook = TRUE,
                              !.rebookTrigger =
                                IF walk[p].calledOff
                                THEN @ ELSE "dispatch_failed"],
                           walk[p].binding, walk[p].released))
    /\ LetGo(Released(p))
    /\ Throw(p)

(* The write that would settle the claim fails: the claim stays, the       *)
(* caller gets its error.                                                  *)
SaveFails(p) ==
    /\ Holding(p)
    /\ faults < MaxFaults /\ faults' = faults + 1
    /\ Throw(p)
    /\ UNCHANGED <<order, leaseOld, stamped, callback, remote, taps>>

(* Mutant: a failed attempt is not counted.                                *)
CountAttempt_NeverClears(w) ==
    /\ At(w, "counting")
    /\ Return(w)
    /\ UNCHANGED <<order, leaseOld, stamped, callback, remote, bounds>>

(* The count is of the scan, not of the order as it is now.                *)
CountAttempt(w) ==
    /\ At(w, "counting")
    /\ LET n == walk[w].tries + 1 IN
         order' = [order EXCEPT !.tries = n,
                                !.needsRebook = @ /\ n < AutoRebookMax]
    /\ Return(w)
    /\ UNCHANGED <<leaseOld, stamped, callback, remote, bounds>>

(* The platform kills the instance, anywhere.                              *)
Kill(p) ==
    /\ ~At(p, "idle")
    /\ faults < MaxFaults /\ faults' = faults + 1
    /\ Return(p)
    /\ UNCHANGED <<order, leaseOld, stamped, callback, remote, taps>>

-----------------------------------------------------------------------------
(* The lease and sweepStaleDispatchClaims.                                 *)

LeaseExpires ==
    /\ FreshPending
    /\ \A p \in Walker : Holding(p) => walk[p].mine # order.generation
    /\ leaseOld' = TRUE
    /\ UNCHANGED <<order, stamped, walk, callback, remote, bounds>>

(* Mutant: the job looks at fresh claims instead of stale ones.            *)
Sweep_FreshOnly ==
    /\ Pending /\ ~leaseOld /\ MayHoldRemoteBooking
    /\ \A p \in Walker : Holding(p) => walk[p].mine # order.generation
    /\ ParkClaim
    /\ UNCHANGED <<stamped, walk, callback, remote, bounds>>

Sweep ==
    /\ Pending /\ leaseOld /\ MayHoldRemoteBooking
    /\ ParkClaim
    /\ UNCHANGED <<stamped, walk, callback, remote, bounds>>

-----------------------------------------------------------------------------
(* The staff's other handlers, each one transaction.                       *)

(* savePorterManualBooking.  Whoever pastes has seen to what was unclear.  *)
Paste ==
    /\ ~Terminal /\ ~InHouseActive
    /\ ~IsActiveDispatch
    /\ ~FreshPending
    /\ order' = [order EXCEPT !.binding = Pasted, !.deliveryStatus = "dispatched",
                              !.dispatchStatus = "dispatched",
                              !.needsRebook = FALSE, !.rebookTrigger = "none",
                              !.tries = 0]
    /\ leaseOld' = FALSE
    /\ live' = {Pasted}
    /\ taps < MaxTaps /\ taps' = taps + 1
    /\ UNCHANGED <<stamped, walk, callback, calledOff, delivered, slips, faults>>

(* dispatchCancel: local only, the carrier is not told.                    *)
Cancel ==
    /\ ~Terminal /\ IsActiveDispatch
    /\ order' = Releasing([order EXCEPT !.deliveryStatus = "rider_cancelled",
                                        !.dispatchStatus = "cancelled_by_store",
                                        !.needsRebook = TRUE,
                                        !.rebookTrigger = "staff_cancelled"],
                          order.binding, order.released)
    /\ leaseOld' = FALSE
    /\ LetGo({order.binding})
    /\ UNCHANGED <<stamped, walk, callback, calledOff, delivered, slips, bounds>>

(* manualBranchDispatch.                                                   *)
AssignInHouse ==
    /\ ~Terminal
    /\ order.binding = None
    /\ ~InHouseActive
    /\ ~Pending /\ order.dispatchStatus # "needs_reconciliation"
    /\ order' = [order EXCEPT !.inHouse = TRUE, !.deliveryStatus = "dispatched",
                              !.needsRebook = FALSE, !.rebookTrigger = "none",
                              !.tries = 0]
    /\ UNCHANGED <<leaseOld, stamped, walk, callback, remote, bounds>>

(* bumpOrderStatus closes the order.                                       *)
Close ==
    /\ ~Terminal
    /\ order' = [order EXCEPT !.closed = TRUE]
    /\ UNCHANGED <<leaseOld, stamped, walk, callback, remote, bounds>>

-----------------------------------------------------------------------------
(* The carriers.                                                           *)

CallOff(b) ==
    /\ b \in live
    /\ live' = live \ {b} /\ calledOff' = calledOff \cup {b}
    /\ UNCHANGED <<order, leaseOld, stamped, walk, callback, delivered, slips, bounds>>

Deliver(b) ==
    /\ b \in live
    /\ live' = live \ {b} /\ delivered' = delivered \cup {b}
    /\ UNCHANGED <<order, leaseOld, stamped, walk, callback, calledOff, slips, bounds>>

(* A carrier may say of a booking what is true of it, or was.              *)
Sends(b, event) ==
    \/ event \in {"DRIVER_ALLOCATED", "ARRIVED_AT_PICKUP", "STARTED_DELIVERY"}
       /\ b \in live \cup calledOff \cup delivered
    \/ event = "DELIVERED" /\ b \in delivered
    \/ event \in {"CARRIER_CANCELLED", "OTHERWISE_CANCELLED"} /\ b \in calledOff

(* computeWebhookEventPatch: events it does not apply, and what it writes. *)
Ignored(event) ==
    \/ event = "DRIVER_ALLOCATED" /\ order.deliveryStatus = "in_transit"
    \/ event = "ARRIVED_AT_PICKUP"
       /\ order.deliveryStatus \notin {"none", "dispatched"}

Patched(o, event) ==
    CASE event = "ARRIVED_AT_PICKUP" -> o
      [] event = "DRIVER_ALLOCATED" -> [o EXCEPT !.deliveryStatus = "dispatched"]
      [] event = "STARTED_DELIVERY" ->
           [o EXCEPT !.deliveryStatus = "in_transit", !.closed = FALSE]
      [] event = "DELIVERED" ->
           [o EXCEPT !.deliveryStatus = "delivered", !.closed = TRUE]
      [] event = "CARRIER_CANCELLED" ->
           [o EXCEPT !.deliveryStatus = "rider_cancelled", !.closed = FALSE,
                     !.needsRebook = TRUE, !.rebookTrigger = "carrier_cancelled"]
      [] event = "OTHERWISE_CANCELLED" ->
           [o EXCEPT !.deliveryStatus = "needs_review", !.needsRebook = FALSE,
                     !.rebookTrigger = "manual_review"]

(* The ownership proof and the terminal and containment guards, on a read  *)
(* outside any transaction; what fails them is parked or dropped, and an   *)
(* arrival at the store touches only the customer's mirror.                *)
CallbackRead(b, event) ==
    /\ callback = None
    /\ Sends(b, event) /\ event # "ARRIVED_AT_PICKUP"
    /\ order.binding = b
    /\ order.deliveryStatus = "delivered" => event = "DELIVERED"
    /\ Contained => event = "DELIVERED"
    /\ ~Ignored(event)
    /\ callback' = [of |-> b, event |-> event]
    /\ UNCHANGED <<order, leaseOld, stamped, walk, remote, bounds>>

(* The merge write knows nothing of what happened since the read.          *)
Revives(event) ==
    /\ event \in {"DRIVER_ALLOCATED", "STARTED_DELIVERY"}
    /\ order.deliveryStatus \in {"rider_cancelled", "needs_review", "delivered"}

CallbackWrite ==
    /\ callback # None
    /\ order' = Patched(order, callback.event)
    /\ slips' = slips \cup
                  {s \in {"moved_on"} : order.binding # callback.of} \cup
                  {s \in {"revived"} : Revives(callback.event)}
    /\ callback' = None
    /\ UNCHANGED <<leaseOld, stamped, walk, live, calledOff, delivered, bounds>>

(* The handler dies before its write, and no redelivery comes.             *)
CallbackLost ==
    /\ callback # None
    /\ callback' = None
    /\ UNCHANGED <<order, leaseOld, stamped, walk, remote, bounds>>

(* The first callback of a booking nobody could record binds it, in a      *)
(* transaction, if it carries the token of the pending correlation.        *)
CallbackBinds(b, event) ==
    /\ Sends(b, event)
    /\ order.binding = None /\ ~Terminal
    /\ order.dispatchStatus = "needs_reconciliation"
    /\ order.pending \in {<<b[1], None>>, b}
    /\ LET bound == [order EXCEPT !.binding = b, !.dispatchStatus = "dispatched",
                                  !.pending = None]
       IN  order' = IF Ignored(event) THEN bound
                    ELSE Patched([bound EXCEPT !.deliveryStatus = "dispatched"],
                                 event)
    /\ slips' = slips \cup {s \in {"under_review"} : Ignored(event) /\ Contained}
    /\ UNCHANGED <<leaseOld, stamped, walk, callback, live, calledOff, delivered,
                   bounds>>

-----------------------------------------------------------------------------
WalkStep(p) ==
    \/ ClaimThrows(p) \/ ClaimAnswers(p) \/ ClaimParks(p) \/ Claim(p)
    \/ ReleaseIdle(p) \/ Stamp(p)
    \/ PostRefused(p) \/ PostBooked(p) \/ PostUnknown(p)
    \/ SaveBooked(p) \/ SaveUnknown(p) \/ SaveManual(p) \/ SaveFailed(p)
WorkerStep(w) ==
    Scan(w) \/ ClearFlag(w) \/ WorkerCalls(w) \/ WalkStep(w) \/ CountAttempt(w)
CarrierStep ==
    \/ CallbackWrite \/ CallbackLost
    \/ \E b \in Booked :
         \/ CallOff(b) \/ Deliver(b)
         \/ \E event \in Event : CallbackRead(b, event) \/ CallbackBinds(b, event)

Next ==
    \/ \E p \in Walker : SaveFails(p) \/ Kill(p)
    \/ \E p \in Staff : Tap(p) \/ WalkStep(p)
    \/ \E w \in Worker : WorkerStep(w)
    \/ LeaseExpires \/ Sweep
    \/ Paste \/ Cancel \/ AssignInHouse \/ Close
    \/ CarrierStep

Spec == Init /\ [][Next]_vars

(* An execution that is not killed goes on; the clock and the two          *)
(* five-minute jobs keep running.                                          *)
FairSpec ==
    /\ Spec
    /\ \A p \in Staff : WF_vars(WalkStep(p))
    /\ \A w \in Worker : WF_vars(WorkerStep(w))
    /\ WF_vars(LeaseExpires \/ Sweep)

-----------------------------------------------------------------------------
(* Properties.                                                             *)

(* The double-rider guard of claimDispatch and of what settles a claim:     *)
(* apart from riders the branch has released or reconciled by hand, a      *)
(* second rider, the branch's own included, is on the way only after one   *)
(* of the slips - never through races of taps, jobs and callbacks that     *)
(* find their order, ambiguous answers, dead instances or failed writes.   *)
(* Each of the slips does lead to a second one.                            *)
OneRider ==
    slips = {} => Cardinality(live) + (IF InHouseActive THEN 1 ELSE 0) <= 1

(* No rider is lost before one of the slips: one the branch has not let go *)
(* is the order's booking, or belongs to the claim that is pending or      *)
(* parked, whose row names its carrier.                                    *)
LiveIsTraceable ==
    slips = {} =>
        \A b \in live :
            \/ order.binding = b
            \/ /\ order.dispatchStatus \in {"dispatch_pending",
                                            "needs_reconciliation"}
               /\ b = <<order.generation, stamped>>

(* Whoever claimed still holds, until a callback goes astray: the plain    *)
(* writes that settle a walk find the order in that walk's own claim.      *)
ClaimIsHeld ==
    slips \cap {"moved_on", "revived"} = {} =>
        \A p \in Walker :
            Holding(p) => FreshPending /\ order.generation = walk[p].mine

(* A claim whose POST may have gone out never stays pending: whoever holds *)
(* it settles it or, if that one died, it is parked for reconciliation.    *)
StrandedClaimEnds == MayHoldRemoteBooking ~> ~Pending

(* An order flagged for a rebook does not stay flagged, whatever callbacks *)
(* are written over it: it is booked, put in the hands of staff, the       *)
(* worker gives up after its attempts, or a late callback says that the    *)
(* old ride is on its way after all, and the worker takes its word.        *)
FlagIsResolved ==
    order.needsRebook ~> ~order.needsRebook \/ (OnItsWay /\ order.binding # None)
=============================================================================
