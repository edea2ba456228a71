------------------------------- MODULE Payout -------------------------------
(***************************************************************************)
(* What the Route payout of one order promises, whoever executes it: of    *)
(* each payment at most one transfer is made that somebody waited for, the *)
(* order is settled at most once, and only by a transfer that was made.    *)
(* The gateway may make others, of requests whose callers had given up.    *)
(***************************************************************************)
EXTENDS Naturals

CONSTANTS Payment, None

VARIABLES paid,     \* transfers made out of each payment
          late,     \* those of them that nobody waited for any more
          settled   \* the payment whose transfer settled the order

Init ==
    /\ paid = [p \in Payment |-> 0]
    /\ late = [p \in Payment |-> 0]
    /\ settled = None

PayOut(p) ==
    /\ paid[p] = late[p]
    /\ paid' = [paid EXCEPT ![p] = @ + 1]
    /\ UNCHANGED <<late, settled>>

PaidLate(p) ==
    /\ paid' = [paid EXCEPT ![p] = @ + 1]
    /\ late' = [late EXCEPT ![p] = @ + 1]
    /\ UNCHANGED settled

Settle(p) ==
    /\ settled = None
    /\ paid[p] > 0
    /\ settled' = p
    /\ UNCHANGED <<paid, late>>

Next == \E p \in Payment : PayOut(p) \/ PaidLate(p) \/ Settle(p)

Spec == Init /\ [][Next]_<<paid, late, settled>>
=============================================================================
