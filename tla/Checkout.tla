------------------------------- MODULE Checkout -------------------------------
(***************************************************************************)
(* Checkout of one customer (createPaymentOrder, razorpay.service.ts) and  *)
(* the customer's Grill Coins (customerCoins.ts).  Every call carries the  *)
(* idempotency key of a basket; payment_intents/{key} is the claim that    *)
(* binds the key to one gateway order.  Calls overlap, die and are         *)
(* repeated.  What happens to a captured payment is PaymentConfirm's: here *)
(* it is one step, with the amount check it makes.                         *)
(***************************************************************************)
EXTENDS Pricing, FiniteSets, Functions

CONSTANTS Order,        \* the customer's unpaid orders
          Item, Basket, \* what is sold, what each order holds
          Key, Request, \* idempotency keys, and the coins and coupon of each
          Call,         \* overlapping executions of createPaymentOrder
          Price,        \* the price of an item, before and after a menu edit
          OrderType, PackagingFee, DeliveryFee, Percentage,   \* and the royalty
          Opening, TicketCoins,     \* the wallet, and a ticket's compensation
          Delta,                    \* what staff add to or take from a wallet
          MaxMints,                 \* bound on gateway orders
          MaxExpiries,              \* bound on lapses of each intent
          MaxActs,                  \* bound on menu edits and adjustments
          MaxFaults,                \* bound on deaths and failed writes
          None

ASSUME ConstantsAssumption ==
    /\ IsFiniteSet(Item) /\ Basket \in [Order -> SUBSET Item]
    /\ Request \in [Key -> [coins : Nat, coupon : Coupon]]
    /\ Price \in [BOOLEAN -> Nat \ {0}] /\ Percentage \in 0..100
    /\ OrderType \in {"delivery", "takeaway", "dinein"}
    /\ PackagingFee \in Nat /\ DeliveryFee \in Nat
    /\ Opening \in Nat /\ TicketCoins \in Nat /\ Delta \subseteq Int
    /\ {MaxMints, MaxExpiries, MaxActs, MaxFaults} \subseteq Nat
    /\ None \notin Order \cup Key \cup Nat

VARIABLES
    menu,       \* products/{id}: price and stock
    order,      \* orders/{id}: the server's pricing stamp and the payment
    rzp,        \* the gateway's orders
    minted,
    intent,     \* payment_intents/{key}
    call,       \* what each execution is doing
    handed,     \* history: the answers with a gateway order
    parked,     \* captured payments parked for review
    balance,    \* customers/{id}.loyaltyPoints
    ledger,     \* coin_transactions
    lapsed,     \* how often the intent of a key has expired
    acts, faults

wallet == <<balance, ledger>>
vars == <<menu, order, rzp, minted, intent, call, handed, parked, wallet, lapsed,
          acts, faults>>

Gate == 1..MaxMints
Step == {"idle", "checked", "free", "stamped", "minted", "lost", "superseding"}

TypeOK ==
    /\ menu \in [Item -> [edited : BOOLEAN, inStock : BOOLEAN]]
    /\ order \in [Order -> [stamp : Nat, paid : 0..MaxMints]]
    /\ rzp \in [Gate -> [order : Order \cup {None}, amount : Nat,
                         captured : BOOLEAN]]
    /\ minted \in 0..MaxMints
    /\ intent \in [Key -> [rzp : 0..MaxMints, order : Order \cup {None},
                           coins : Nat, expired : BOOLEAN]]
    /\ call \in [Call -> [step : Step, order : Order \cup {None},
                          key : Key \cup {None}, amount : Nat, coins : Nat,
                          rzp : 0..MaxMints]]
    /\ handed \subseteq [rzp : Gate, order : Order, key : Key, claimed : BOOLEAN]
    /\ parked \subseteq Gate
    /\ balance \in Nat
    /\ ledger \in [staff : Int, ticket : Nat, redeemed : [Gate -> Nat \cup {None}]]
    /\ lapsed \in [Key -> 0..MaxExpiries]

NoOrder == [order |-> None, amount |-> 0, captured |-> FALSE]
NoIntent == [rzp |-> 0, order |-> None, coins |-> 0, expired |-> FALSE]
NoCall == [step |-> "idle", order |-> None, key |-> None, amount |-> 0,
           coins |-> 0, rzp |-> 0]

Init ==
    /\ menu = [i \in Item |-> [edited |-> FALSE, inStock |-> TRUE]]
    /\ order = [o \in Order |-> [stamp |-> 0, paid |-> 0]]
    /\ rzp = [g \in Gate |-> NoOrder] /\ minted = 0
    /\ intent = [k \in Key |-> NoIntent]
    /\ call = [c \in Call |-> NoCall]
    /\ handed = {} /\ parked = {}
    /\ balance = Opening
    /\ ledger = [staff |-> 0, ticket |-> 0, redeemed |-> [g \in Gate |-> None]]
    /\ lapsed = [k \in Key |-> 0]
    /\ acts = 0 /\ faults = 0

Act == acts < MaxActs /\ acts' = acts + 1
Fault == faults < MaxFaults /\ faults' = faults + 1

Become(c, s) == call' = [call EXCEPT ![c] = s]

-----------------------------------------------------------------------------
(* createPaymentOrder.                                                     *)

(* assertPayableOrderDoc and resolveRedeemableCoins: an unpaid order of    *)
(* this customer, and coins the wallet holds.                              *)
Begin(c) ==
    /\ call[c].step = "idle"
    /\ \E o \in Order, k \in Key :
         /\ order[o].paid = 0
         /\ Request[k].coins <= balance
         /\ Become(c, [NoCall EXCEPT !.step = "checked", !.order = o, !.key = k])
    /\ UNCHANGED <<menu, order, rzp, minted, intent, handed, parked, wallet,
                   lapsed, acts, faults>>

Live(i) == i.rzp # 0 /\ ~i.expired

(* The answer with gateway order g; claimed unless the intent could not be *)
(* stored.                                                                 *)
Answer(c, g, claimed) ==
    /\ handed' = handed \cup {[rzp |-> g, order |-> call[c].order,
                               key |-> call[c].key, claimed |-> claimed]}
    /\ Become(c, NoCall)

(* Mutant: the binding is not compared.                                    *)
Converge_Any(c, i) == Answer(c, i.rzp, TRUE)

(* assertIntentBoundToOrder: a live intent goes to its own order only.     *)
Converge(c, i) ==
    IF i.order = call[c].order
    THEN Answer(c, i.rzp, TRUE)
    ELSE Become(c, NoCall) /\ UNCHANGED handed

(* The lookup of the key.                                                  *)
Lookup(c) ==
    /\ call[c].step = "checked"
    /\ LET i == intent[call[c].key] IN
         IF Live(i) THEN Converge(c, i)
         ELSE Become(c, [call[c] EXCEPT !.step = "free"]) /\ UNCHANGED handed
    /\ UNCHANGED <<menu, order, rzp, minted, intent, parked, wallet, lapsed,
                   acts, faults>>

(* Another basket than the one on file, an item off the menu, an outage.   *)
Refuse(c) ==
    /\ call[c].step = "free"
    /\ Become(c, NoCall)
    /\ UNCHANGED <<menu, order, rzp, minted, intent, handed, parked, wallet,
                   lapsed, acts, faults>>

(* The prices of the menu, never the client's.                             *)
Food(o) == SumFunctionOnSet([i \in Item |-> Price[menu[i].edited]], Basket[o])

Priced(o, k) ==
    Quote(Food(o), Request[k].coupon, Request[k].coins,
          Packaging(OrderType, PackagingFee) + Delivery(OrderType, DeliveryFee),
          Percentage)

(* The order is priced as it is stored, and the pricing is stamped on it.  *)
Stamp(c) ==
    /\ call[c].step = "free"
    /\ \A i \in Basket[call[c].order] : menu[i].inStock
    /\ LET o == call[c].order
           q == Priced(o, call[c].key)
       IN /\ order' = [order EXCEPT ![o].stamp = q.total]
          /\ Become(c, [call[c] EXCEPT !.step = "stamped", !.amount = q.total,
                                       !.coins = q.coins])
    /\ UNCHANGED <<menu, rzp, minted, intent, handed, parked, wallet, lapsed,
                   acts, faults>>

(* orders.create at the gateway; its answer may get lost.                  *)
Mint(c) ==
    /\ call[c].step = "stamped"
    /\ minted < MaxMints /\ minted' = minted + 1
    /\ rzp' = [rzp EXCEPT ![minted'] = [order |-> call[c].order,
                                        amount |-> call[c].amount,
                                        captured |-> FALSE]]
    /\ \/ Become(c, [call[c] EXCEPT !.step = "minted", !.rzp = minted'])
          /\ UNCHANGED faults
       \/ Become(c, NoCall) /\ Fault
    /\ UNCHANGED <<menu, order, intent, handed, parked, wallet, lapsed, acts>>

MintFails(c) ==
    /\ call[c].step = "stamped"
    /\ Become(c, NoCall)
    /\ UNCHANGED <<menu, order, rzp, minted, intent, handed, parked, wallet,
                   lapsed, acts, faults>>

Fresh(c) == [rzp |-> call[c].rzp, order |-> call[c].order,
             coins |-> call[c].coins, expired |-> FALSE]

Bind(c) == intent' = [intent EXCEPT ![call[c].key] = Fresh(c)]

(* Mutant: a blind write where the code creates.                           *)
Claim_Set(c) ==
    /\ call[c].step = "minted"
    /\ Bind(c) /\ Answer(c, call[c].rzp, TRUE)
    /\ UNCHANGED <<menu, order, rzp, minted, parked, wallet, lapsed, acts, faults>>

(* create(): the first call of a key wins.                                 *)
Claim(c) ==
    /\ call[c].step = "minted"
    /\ IF intent[call[c].key].rzp = 0
       THEN Bind(c) /\ Answer(c, call[c].rzp, TRUE)
       ELSE Become(c, [call[c] EXCEPT !.step = "lost"]) /\ UNCHANGED <<intent, handed>>
    /\ UNCHANGED <<menu, order, rzp, minted, parked, wallet, lapsed, acts, faults>>

(* Any other failure of create() does not block the customer.              *)
ClaimFails(c) ==
    /\ call[c].step = "minted"
    /\ Fault
    /\ Answer(c, call[c].rzp, FALSE)
    /\ UNCHANGED <<menu, order, rzp, minted, intent, parked, wallet, lapsed, acts>>

(* resolveLostClaim: the winner's order, unless its intent has lapsed.     *)
ResolveLost(c) ==
    /\ call[c].step = "lost"
    /\ LET winner == intent[call[c].key] IN
         IF winner.expired
         THEN Become(c, [call[c] EXCEPT !.step = "superseding"]) /\ UNCHANGED handed
         ELSE Converge(c, winner)
    /\ UNCHANGED <<menu, order, rzp, minted, intent, parked, wallet, lapsed,
                   acts, faults>>

(* supersedeExpiredIntent, in a transaction.                               *)
Supersede(c) ==
    /\ call[c].step = "superseding"
    /\ IF Live(intent[call[c].key])
       THEN Converge(c, intent[call[c].key]) /\ UNCHANGED intent
       ELSE Bind(c) /\ Answer(c, call[c].rzp, TRUE)
    /\ UNCHANGED <<menu, order, rzp, minted, parked, wallet, lapsed, acts, faults>>

(* Death, or a 503 of a lookup or write that failed: the client retries    *)
(* with the same key.                                                      *)
Die(c) ==
    /\ call[c].step # "idle"
    /\ Fault
    /\ Become(c, NoCall)
    /\ UNCHANGED <<menu, order, rzp, minted, intent, handed, parked, wallet,
                   lapsed, acts>>

-----------------------------------------------------------------------------
(* The customer, the menu, the clock.                                      *)

(* INTENT_TTL_MS has gone by.                                              *)
Expire(k) ==
    /\ Live(intent[k]) /\ lapsed[k] < MaxExpiries
    /\ intent' = [intent EXCEPT ![k].expired = TRUE]
    /\ lapsed' = [lapsed EXCEPT ![k] = @ + 1]
    /\ UNCHANGED <<menu, order, rzp, minted, call, handed, parked, wallet, acts,
                   faults>>

EditMenu(i) ==
    /\ Act
    /\ \/ menu' = [menu EXCEPT ![i].edited = ~@]
       \/ menu' = [menu EXCEPT ![i].inStock = ~@]
    /\ UNCHANGED <<order, rzp, minted, intent, call, handed, parked, wallet, lapsed,
                   faults>>

(* The customer pays a gateway order the app was given.                    *)
Pay(g) ==
    /\ \E h \in handed : h.rzp = g
    /\ ~rzp[g].captured
    /\ rzp' = [rzp EXCEPT ![g].captured = TRUE]
    /\ UNCHANGED <<menu, order, minted, intent, call, handed, parked, wallet, lapsed,
                   acts, faults>>

(* verifyPayment and the webhook: the captured amount against the stamp,   *)
(* and one payment per order; anything else is parked.                     *)
Confirm(g) ==
    /\ rzp[g].captured /\ g \notin parked
    /\ LET o == rzp[g].order IN
         /\ order[o].paid # g
         /\ IF order[o].stamp = rzp[g].amount /\ order[o].paid = 0
            THEN order' = [order EXCEPT ![o].paid = g] /\ UNCHANGED parked
            ELSE parked' = parked \cup {g} /\ UNCHANGED order
    /\ UNCHANGED <<menu, rzp, minted, intent, call, handed, wallet, lapsed, acts,
                   faults>>

-----------------------------------------------------------------------------
(* The wallet.                                                             *)

(* resolveIntentRedemption: what the intent of this gateway order redeems. *)
Redemption(g) ==
    LET bound == {k \in Key : intent[k].rzp = g}
    IN IF bound = {} THEN 0 ELSE intent[CHOOSE k \in bound : TRUE].coins

(* Mutant: the ledger row is not looked for.                               *)
Debit_Again(g) ==
    /\ \E o \in Order : order[o].paid = g
    /\ Redemption(g) > 0
    /\ LET debit == Least(balance, Redemption(g)) IN
         /\ balance' = balance - debit
         /\ ledger' = [ledger EXCEPT !.redeemed[g] = debit]
    /\ UNCHANGED <<menu, order, rzp, minted, intent, call, handed, parked, lapsed,
                   acts, faults>>

(* debitRedeemedCoins, of each confirmation: once per gateway order, and   *)
(* never more than the wallet holds.                                       *)
Debit(g) ==
    /\ \E o \in Order : order[o].paid = g
    /\ Redemption(g) > 0 /\ ledger.redeemed[g] = None
    /\ LET debit == Least(balance, Redemption(g)) IN
         /\ balance' = balance - debit
         /\ ledger' = [ledger EXCEPT !.redeemed[g] = debit]
    /\ UNCHANGED <<menu, order, rzp, minted, intent, call, handed, parked, lapsed,
                   acts, faults>>

(* adjustCustomerCoins: the ledger has what was applied.                   *)
Adjust ==
    /\ Act
    /\ \E delta \in Delta :
         /\ balance' = Greatest(0, balance + delta)
         /\ ledger' = [ledger EXCEPT !.staff = @ + balance' - balance]
    /\ UNCHANGED <<menu, order, rzp, minted, intent, call, handed, parked, lapsed,
                   faults>>

(* creditTicketLoyaltyCoins: one row per ticket.                           *)
CreditTicket ==
    /\ Act
    /\ ledger.ticket = 0
    /\ balance' = balance + TicketCoins
    /\ ledger' = [ledger EXCEPT !.ticket = TicketCoins]
    /\ UNCHANGED <<menu, order, rzp, minted, intent, call, handed, parked, lapsed,
                   faults>>

-----------------------------------------------------------------------------
Next ==
    \/ \E c \in Call :
         \/ Begin(c) \/ Lookup(c) \/ Refuse(c) \/ Stamp(c) \/ Mint(c) \/ MintFails(c)
         \/ Claim(c) \/ ClaimFails(c) \/ ResolveLost(c) \/ Supersede(c) \/ Die(c)
    \/ \E k \in Key : Expire(k)
    \/ \E i \in Item : EditMenu(i)
    \/ \E g \in Gate : Pay(g) \/ Confirm(g) \/ Debit(g)
    \/ Adjust \/ CreditTicket

Spec == Init /\ [][Next]_vars

-----------------------------------------------------------------------------
(* Properties.                                                             *)

(* However calls overlap, die and are repeated, the app gets one payable   *)
(* order per key, and another one only after the intent has lapsed: no     *)
(* second order the customer could pay for the same checkout.              *)
OneOrderPerKey ==
    \A k \in Key :
        Cardinality({h.rzp : h \in {x \in handed : x.key = k /\ x.claimed}})
            <= 1 + lapsed[k]

(* A gateway order is handed out for the order it was minted for: a client *)
(* that comes back with the same key and a new order does not pay the old  *)
(* one.                                                                    *)
HandedToItsOrder == \A h \in handed : rzp[h.rzp].order = h.order

(* A binding that is live is never replaced, only left to lapse: a late    *)
(* call that saw it lapsed must not unbind what another has put there.     *)
LiveBindingStands ==
    [][\A k \in Key : Live(intent[k]) /\ intent'[k] # intent[k]
          => intent'[k] = [intent[k] EXCEPT !.expired = TRUE]]_vars

(* The wallet is what the ledger says, through concurrent redemptions,     *)
(* retried confirmations, adjustments and credits.                         *)
Redeemed == [g \in Gate |-> IF ledger.redeemed[g] = None THEN 0
                                                       ELSE ledger.redeemed[g]]
LedgerBalances ==
    balance = Opening + ledger.staff + ledger.ticket
              - SumFunctionOnSet(Redeemed, Gate)

(* What the comment over the stamp expects of it: whatever the customer    *)
(* pays for an unpaid order is what the order's stamp says.                *)
CaptureMatchesStamp ==
    \A g \in Gate : rzp[g].captured /\ order[rzp[g].order].paid = 0
                        => rzp[g].amount = order[rzp[g].order].stamp
=============================================================================
