------------------------------ MODULE MCCheckout ------------------------------
(* One burger, at 100 rupees and 120 after an edit; one key without and    *)
(* one with coins.                                                         *)
EXTENDS Checkout, TLC

CONSTANTS k1, k2

OneBurger == [o \in Order |-> Item]
WithAndWithoutCoins ==
    [k \in Key |-> IF k = k1 THEN [coins |-> 0, coupon |-> NoCoupon] ELSE
     [coins |-> 8, coupon |-> [NoCoupon EXCEPT !.percent = TRUE, !.off = 10]]]
Dearer == [edited \in BOOLEAN |-> IF edited THEN 12000 ELSE 10000]
Symmetry == Permutations(Order) \cup Permutations(Call)
UpAndDown == {-5, 3}
=============================================================================
