------------------------- MODULE MCPaymentConfirm -------------------------
(***************************************************************************)
(* Instances of PaymentConfirm for TLC: one payment with all of its events *)
(* or two payments that race for the order.                                *)
(***************************************************************************)
EXTENDS PaymentConfirm, TLC

CONSTANTS p1, p2

OnePayment == [kind : {"captured", "order_paid", "failed"}, pay : {p1}]

TwoCaptures == [kind : {"captured"}, pay : {p1, p2}]

(* Each kind of event, the second payment told by the event of its order.  *)
CaptureAgainstOther ==
    [kind : {"captured"}, pay : {p1}]
        \cup [kind : {"order_paid", "failed"}, pay : {p2}]

(* OUT_FOR_DELIVERY is treated like PREPARING by every handler, PLACED is  *)
(* where an order begins and DELIVERED freezes it like CANCELLED.          *)
Kitchen == {"CONFIRMED", "PREPARING", "READY_FOR_PICKUP", "CANCELLED"}

Moves == {"PREPARING", "CANCELLED"}

ReadyOrCancelled == {"READY_FOR_PICKUP", "CANCELLED"}

Symmetry == Permutations(Verifier) \cup Permutations(Delivery)
============================================================================
