---------------------------- MODULE PosCallback -----------------------------
(***************************************************************************)
(* What the POS says back: handlePetpoojaWebhook of                        *)
(* petpooja/item86ingSync.ts, composed with the push of the kitchen ticket *)
(* (KotPush), and disposeRefundRequest of payments/refundRequests.ts.      *)
(*                                                                         *)
(* One order (Focus) is followed; the others are there for a callback to   *)
(* name.  A callback is resolved by plain reads and applied by a           *)
(* transaction that reads the order again; in between, the push, the       *)
(* dispatch webhooks, the refund executor and other callbacks act.  The    *)
(* POS redelivers what it likes, whenever it likes.  It numbers its        *)
(* tickets: ticket n has the POS id n, and 0 is no id.                     *)
(*                                                                         *)
(* The order was paid online.  Store-status pings are only recorded, and   *)
(* left out.  Two branches of the plan can never be taken and are absent:  *)
(* the one that writes a proven POS id, and a cancellation without         *)
(* credentials (refused as an end before).                                 *)
(***************************************************************************)
EXTENDS KotPush

CONSTANTS Order, Focus,   \* the orders, and the one this is about
          OrderBranch,    \* the outlet each order belongs to
          LinkedTo,       \* restID (or None, for its absence) -> outlet or None
          Shape,          \* the references a callback may carry
          PosEvent,       \* what the POS may report of a ticket
          Handler,        \* callbacks being handled at a time
          Staff           \* those who reject refund requests

Ending == {"delivered", "cancelled", "reject"}

ASSUME CallbackAssumption ==
    /\ Focus \in Order /\ None \notin Order
    /\ LinkedTo[None] = None
    /\ OrderBranch[Focus] # None
    /\ None \notin Ending

VARIABLES
    posId,        \* petpoojaOrderId of the order
    orderStatus,  \* status.code
    lastEvent,    \* petpoojaWebhookEventId inside its 15 minutes, or None
    request,      \* refunds/refund_pos_cancel_{order}
    refunded,     \* refundStatus = "refunded"
    review,       \* unmatched_petpooja_orders has an entry for the order
    unparked,     \* history: an entry could not be written
    emitted,      \* POS: the events it has sent
    call,         \* handler -> the resolved callback before its transaction
    rejecting,    \* staff who have read a pending request
    answered      \* history: ends and refusals answered with success

callbackVars == <<posId, orderStatus, lastEvent, request, refunded, review,
                  unparked, emitted, call, rejecting, answered>>
allVars == <<vars, callbackVars>>

(* normalizePetpoojaStatus: a refusal is no status it knows.               *)
Canonical(e) ==
    CASE e = "accept" -> "CONFIRMED"
      [] e = "food ready" -> "READY_FOR_PICKUP"
      [] e = "dispatch" -> "OUT_FOR_DELIVERY"
      [] e = "delivered" -> "DELIVERED"
      [] e = "cancelled" -> "CANCELLED"
      [] OTHER -> "unknown"

Terminal == {"DELIVERED", "CANCELLED"}
Ended == orderStatus \in Terminal
Accepting(e) == Canonical(e) \notin {"CANCELLED", "unknown"}

Idle == [event |-> None, by |-> "nobody", rest |-> None, posRef |-> None,
         withRef |-> FALSE, trusted |-> FALSE]

CallbackInit ==
    /\ Init
    /\ posId = 0 /\ orderStatus = "PLACED" /\ lastEvent = None
    /\ request = "none" /\ refunded = FALSE
    /\ review = FALSE /\ unparked = FALSE
    /\ emitted = {} /\ answered = {} /\ rejecting = {}
    /\ call = [h \in Handler |-> Idle]

-----------------------------------------------------------------------------
(* The push, which learns the POS id when the answer carries one.          *)

LearnsId == posId' \in {posId} \cup 1..tickets

KotStep ==
    /\ \/ \E p \in Pusher : Save(p) /\ IF pc'[p] = "idle" THEN LearnsId
                                                         ELSE UNCHANGED posId
       \/ \E p \in Pusher : Fail(p) /\ IF /\ answer[p] = "accepted"
                                         /\ docVars' # docVars
                                      THEN LearnsId ELSE UNCHANGED posId
       \/ /\ \/ \E p \in Pusher : \/ ReadOrder(p) \/ ClaimPush(p) \/ SentAway(p)
                                  \/ Post(p) \/ Kill(p)
             \/ \E w \in Worker : \/ Scan(w) \/ ClaimRetry(w) \/ GiveBack(w)
                                  \/ GiveUp(w)
             \/ PushLeaseExpires \/ RetryLeaseExpires \/ ParkStale
          /\ UNCHANGED posId
    /\ UNCHANGED <<orderStatus, lastEvent, request, refunded, review, unparked,
                   emitted, call, rejecting, answered>>

(* The kitchen works on a ticket it has.                                   *)
PosMoves(e) ==
    /\ tickets > 0
    /\ e \in PosEvent \ emitted
    /\ emitted \cap Ending = {}
    /\ e = "reject" => emitted = {}
    /\ emitted' = emitted \cup {e}
    /\ UNCHANGED <<vars, posId, orderStatus, lastEvent, request, refunded, review,
                   unparked, call, rejecting, answered>>

-----------------------------------------------------------------------------
(* Resolution: which order a callback is about.  scoped is the outlet its  *)
(* restID was found to be linked to.                                       *)

(* orderID is a client reference only when the outlet is known.            *)
ClientRefs(s, scoped) ==
    Order \cap ({s.legacy} \cup (IF scoped # None THEN {s.callback} ELSE {}))

(* A claimed outlet that is not linked, a reference to another outlet's    *)
(* order, or references to two orders: never pick.                         *)
Contradicts_NoOutlet(s, scoped) == Cardinality(ClientRefs(s, scoped)) > 1
Contradicts(s, scoped) ==
    \/ s.rest # None /\ scoped = None
    \/ scoped # None /\ \E r \in ClientRefs(s, scoped) : OrderBranch[r] # scoped
    \/ Cardinality(ClientRefs(s, scoped)) > 1

PosRef(s) == IF s.callback # None THEN s.callback ELSE s.explicit

(* resolveOrderByPosOrderId: only when no client reference named an order. *)
FoundByPos(s, scoped) ==
    /\ ClientRefs(s, scoped) = {}
    /\ scoped = OrderBranch[Focus]
    /\ posId # 0 /\ PosRef(s) = posId

By(s, scoped) ==
    IF Contradicts(s, scoped) THEN "nobody"
    ELSE IF s.legacy = Focus THEN "client-legacy"
    ELSE IF ClientRefs(s, scoped) = {Focus} THEN "client-callback"
    ELSE IF FoundByPos(s, scoped) THEN "pos" ELSE "nobody"

(* Without credentials the outlet has to be named, and be the order's.     *)
MaySteer(s, scoped) == s.trusted \/ scoped = OrderBranch[Focus]

Answer200(e) == answered' = answered \cup ({e} \cap Ending)

(* Best effort: the callback is answered with success in either case.      *)
ParkForReview ==
    \/ review' = TRUE /\ UNCHANGED unparked
    \/ unparked' = TRUE /\ UNCHANGED review

Takes(h, s, scoped, e) ==
    /\ By(s, scoped) # "nobody" /\ MaySteer(s, scoped)
    /\ call' = [call EXCEPT ![h] =
                  [event |-> e, by |-> By(s, scoped), rest |-> s.rest,
                   posRef |-> PosRef(s), withRef |-> s.callback # None,
                   trusted |-> s.trusted]]

(* The link lookup may fail, which reads as an outlet that is not linked.  *)
Receive(h) ==
    /\ call[h] = Idle
    /\ \E s \in Shape, e \in emitted :
         \E scoped \in {LinkedTo[s.rest], None} : Takes(h, s, scoped, e)
    /\ UNCHANGED <<vars, posId, orderStatus, lastEvent, request, refunded, review,
                   unparked, emitted, rejecting, answered>>

(* Nothing resolved, or not for this caller: parked.  (An order that is    *)
(* not Focus takes the callback away.)                                     *)
ReceiveAndPark(h) == \E s \in Shape, e \in emitted :
    \E scoped \in {LinkedTo[s.rest], None} :
      /\ call[h] = Idle
      /\ \/ Contradicts(s, scoped)
         \/ ClientRefs(s, scoped) = {} /\ ~FoundByPos(s, scoped)
         \/ By(s, scoped) # "nobody" /\ ~MaySteer(s, scoped)
      /\ ParkForReview /\ Answer200(e)
      /\ UNCHANGED <<vars, posId, orderStatus, lastEvent, request, refunded,
                     emitted, call, rejecting>>

-----------------------------------------------------------------------------
(* The transaction: planStatusUpdate on a fresh read of the order.         *)

MayEnd(c) == c.trusted \/ Canonical(c.event) \notin Terminal
Bound(c) == c.by = "pos" => posId = c.posRef
Replayed(c) == lastEvent = c.event

Over(h) ==
    /\ call' = [call EXCEPT ![h] = Idle]
    /\ Answer200(call[h].event)

(* A refused end, and a POS id the order no longer has, go to a person.    *)
Refuse_Silently(h) ==
    /\ call[h] # Idle
    /\ ~MayEnd(call[h]) \/ ~Bound(call[h])
    /\ Over(h)
    /\ UNCHANGED <<vars, posId, orderStatus, lastEvent, request, refunded,
                   review, unparked, emitted, rejecting>>
Refuse(h) ==
    /\ call[h] # Idle
    /\ ~MayEnd(call[h]) \/ ~Bound(call[h])
    /\ ParkForReview
    /\ Over(h)
    /\ UNCHANGED <<vars, posId, orderStatus, lastEvent, request, refunded,
                   emitted, rejecting>>

Plan(c) == MayEnd(c) /\ Bound(c) /\ ~Replayed(c) /\ ~Ended

(* A redelivery of the last event, or an order that is over: only logged.  *)
Ignore(h) ==
    /\ call[h] # Idle
    /\ MayEnd(call[h]) /\ Bound(call[h]) /\ ~Plan(call[h])
    /\ Over(h)
    /\ UNCHANGED <<vars, posId, orderStatus, lastEvent, request, refunded,
                   review, unparked, emitted, rejecting>>

(* An acceptance under our own reference is the acknowledgement that the   *)
(* push may have missed.                                                   *)
Acknowledges(c) ==
    /\ c.trusted /\ Accepting(c.event) /\ posId = 0
    /\ c.by = "client-callback" \/ (c.by = "client-legacy" /\ c.withRef)

(* A cancellation asks for the money back, unless that was done or asked.  *)
(* Any other PENDING row of `refunds` for the order would do as an ask as  *)
(* well, but nothing writes one: the collection has this one row of an     *)
(* order.                                                                  *)
AsksRefund_KnownTicketOnly(c) ==
    /\ Canonical(c.event) = "CANCELLED"
    /\ ~refunded /\ request = "none"
    /\ posId # 0
AsksRefund(c) ==
    /\ Canonical(c.event) = "CANCELLED"
    /\ ~refunded /\ request = "none"

Apply(h) ==
    /\ call[h] # Idle
    /\ Plan(call[h])
    /\ IF Acknowledges(call[h])
       THEN accepted' = TRUE /\ status' = "synced"
       ELSE UNCHANGED <<accepted, status>>
    /\ lastEvent' = call[h].event
    /\ orderStatus' = IF Canonical(call[h].event) = "unknown" THEN orderStatus
                      ELSE Canonical(call[h].event)
    /\ request' = IF AsksRefund(call[h]) THEN "PENDING" ELSE request
    /\ Over(h)
    /\ UNCHANGED <<ambiguous, kotFailed, retries, leaseVars, execVars, tickets,
                   told, takenOver, posId, refunded, review, unparked, emitted,
                   rejecting>>

(* A read or the transaction fails, or the instance dies: no success is    *)
(* answered.                                                               *)
CallFails(h) ==
    /\ call[h] # Idle
    /\ call' = [call EXCEPT ![h] = Idle]
    /\ UNCHANGED <<vars, posId, orderStatus, lastEvent, request, refunded, review,
                   unparked, emitted, rejecting, answered>>

(* Fifteen minutes pass.                                                   *)
MarkerAges ==
    /\ lastEvent # None
    /\ lastEvent' = None
    /\ UNCHANGED <<vars, posId, orderStatus, request, refunded, review, unparked,
                   emitted, call, rejecting, answered>>

-----------------------------------------------------------------------------
(* The other writers of the order.                                         *)

(* A rider reports the delivery (the dispatch webhooks).                   *)
RiderDelivers ==
    /\ ~Ended
    /\ orderStatus' = "DELIVERED"
    /\ UNCHANGED <<vars, posId, lastEvent, request, refunded, review, unparked,
                   emitted, call, rejecting, answered>>

(* The refund executor, which looks at no request (module Refund).         *)
MoneyGoesBack ==
    /\ ~refunded
    /\ refunded' = TRUE
    /\ UNCHANGED <<vars, posId, orderStatus, lastEvent, request, review, unparked,
                   emitted, call, rejecting, answered>>

(* disposeRefundRequest: a read, and a write that looks at nothing.        *)
ReadRequest(m) ==
    /\ m \notin rejecting
    /\ request = "PENDING"
    /\ rejecting' = rejecting \cup {m}
    /\ UNCHANGED <<vars, posId, orderStatus, lastEvent, request, refunded, review,
                   unparked, emitted, call, answered>>

RejectRequest(m) ==
    /\ m \in rejecting
    /\ request' = "REJECTED"
    /\ rejecting' = rejecting \ {m}
    /\ UNCHANGED <<vars, posId, orderStatus, lastEvent, refunded, review, unparked,
                   emitted, call, answered>>

CallbackNext ==
    \/ KotStep
    \/ \E e \in PosEvent : PosMoves(e)
    \/ \E h \in Handler : \/ Receive(h) \/ ReceiveAndPark(h) \/ Refuse(h)
                          \/ Ignore(h) \/ Apply(h) \/ CallFails(h)
    \/ MarkerAges
    \/ RiderDelivers \/ MoneyGoesBack
    \/ \E m \in Staff : ReadRequest(m) \/ RejectRequest(m)

CallbackSpec == CallbackInit /\ [][CallbackNext]_allVars

-----------------------------------------------------------------------------
(* Properties.                                                             *)

CallbackTypes ==
    /\ posId \in 0..2
    /\ orderStatus \in {"PLACED", "CONFIRMED", "READY_FOR_PICKUP",
                        "OUT_FOR_DELIVERY"} \cup Terminal
    /\ lastEvent \in PosEvent \cup {None}
    /\ request \in {"none", "PENDING", "REJECTED"}
    /\ emitted \subseteq PosEvent /\ answered \subseteq Ending
    /\ rejecting \subseteq Staff

(* An order that is over stays what it is, whatever the POS sends late,    *)
(* twice or after a rider's own report.                                    *)
EndedStays == [][Ended => orderStatus' = orderStatus]_allVars

(* A delivery or a cancellation that was answered with success has ended   *)
(* the order or waits for a person, also when it came without credentials, *)
(* under an id that was replaced or while the outlet could not be looked   *)
(* up.                                                                     *)
NoEndIsLost ==
    answered \cap {"delivered", "cancelled"} # {} => Ended \/ review \/ unparked

(* An order the POS cancelled has its refund asked for, once: the request  *)
(* is there, or was rejected, or the money had gone back already, and no   *)
(* later cancellation opens it again.                                      *)
CancelAsksOnce ==
    [][/\ orderStatus' = "CANCELLED" => request' # "none" \/ refunded'
       /\ request = "REJECTED" => request' = "REJECTED"]_allVars

(* No callback that names another outlet, or an outlet that is not linked, *)
(* gets as far as the order.                                               *)
OutletsApart == \A h \in Handler : call[h] # Idle =>
    \/ LinkedTo[call[h].rest] = OrderBranch[Focus]
    \/ call[h].rest = None /\ call[h].trusted /\ call[h].by = "client-legacy"

(* What the repository says of the callback, that accept, food ready and   *)
(* reject are the channel the webhook maps: a kitchen's refusal that was   *)
(* answered with success ends the order or is shown to a person.           *)
RefusalIsHeard == "reject" \in answered => Ended \/ review \/ unparked
=============================================================================
