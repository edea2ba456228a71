------------------------------- MODULE Pricing -------------------------------
(***************************************************************************)
(* What a basket costs and how the money is split (pricing.engine.ts), in  *)
(* paise.  Math.round of the code is RoundDiv; nothing here is negative.   *)
(***************************************************************************)
EXTENDS Integers

Least(a, b) == IF a <= b THEN a ELSE b
Greatest(a, b) == IF a >= b THEN a ELSE b

(* n / d to the nearest whole, halves up.                                  *)
RoundDiv(n, d) == (2 * n + d) \div (2 * d)

(* A coupon: percent of the food in whole rupees, or an amount in rupees;  *)
(* cap = 0 when the coupon has none.                                       *)
Coupon == [percent : BOOLEAN, off : Int, cap : Nat, minOrder : Nat]
NoCoupon == [percent |-> FALSE, off |-> 0, cap |-> 0, minOrder |-> 0]

(* Corrupt values neither inflate the bill nor make it negative.           *)
CouponOff(food, c) ==
    LET raw == IF c.percent
               THEN 100 * RoundDiv(food * Least(100, Greatest(0, c.off)), 10000)
               ELSE 100 * c.off
        capped == IF c.cap = 0 THEN raw ELSE Least(raw, 100 * c.cap)
    IN IF food < 100 * c.minOrder THEN 0 ELSE Greatest(0, Least(capped, food))

(* One coin is one rupee, up to a fifth of the food in whole rupees.       *)
LoyaltyOff(food, discount, coins) ==
    Least(100 * coins,
          Least(100 * RoundDiv(food, 500), Greatest(0, food - discount)))

Packaging(orderType, fee) == IF orderType = "dinein" THEN 0 ELSE fee
Delivery(orderType, fee) == IF orderType = "delivery" THEN Greatest(0, fee) ELSE 0

(* 5% on the food that is left to pay.                                     *)
Gst(taxable) == RoundDiv(5 * taxable, 100)

(* What is charged: whole rupees.                                          *)
GrandTotal(taxable, fees) == 100 * RoundDiv(taxable + fees + Gst(taxable), 100)

RoyaltyLeg(taxable, percentage) == RoundDiv(taxable * percentage, 100)
BranchLeg(taxable, fees, percentage) ==
    taxable - RoyaltyLeg(taxable, percentage) + fees + Gst(taxable)

(* calculateOrderPricing for food that has been looked up in the menu.     *)
Quote(food, coupon, coins, fees, percentage) ==
    LET discount == CouponOff(food, coupon)
        loyalty == LoyaltyOff(food, discount, coins)
        taxable == Greatest(0, food - discount - loyalty)
    IN [total |-> GrandTotal(taxable, fees), coins |-> loyalty \div 100,
        brand |-> RoyaltyLeg(taxable, percentage),
        branch |-> BranchLeg(taxable, fees, percentage)]
=============================================================================
