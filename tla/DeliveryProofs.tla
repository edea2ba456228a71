--------------------------- MODULE DeliveryProofs ---------------------------
(***************************************************************************)
(* The two delivery lanes, for any number of staff, executions, callbacks, *)
(* carriers, bookings and faults.  The router (Dispatch): one rider at a   *)
(* time and none lost; types, then the claim that makes the settling       *)
(* writes safe, then the riders.  Porter's direct lane (PorterLane): the   *)
(* first booking is alone, because the claim that lets it in is.           *)
(***************************************************************************)
EXTENDS Dispatch, PorterLane, FiniteSetTheorems, TLAPS

-----------------------------------------------------------------------------
(* The router.                                                             *)

(* What an execution of the walk has established at each step.             *)
LocalFits(x) ==
    /\ x.step # "clearing" => x.tries < AutoRebookMax
    /\ x.step \in {"quoting", "walking", "posting", "booked", "unknown"}
         => x.mine \in 1..MaxGen
    /\ x.step = "posting" => x.at \in Lane
    /\ x.step \in {"booked", "unknown"} => x.at \in Carrier
LocalsFit == \A p \in Walker : LocalFits(walk[p])

-----------------------------------------------------------------------------
(* Types.                                                                  *)

LEMMA InitTypes == Init => TypeOK /\ LocalsFit
<1> SUFFICES ASSUME Init PROVE TypeOK /\ LocalsFit
  OBVIOUS
<1>1. NoWalk \in Walk /\ LocalFits(NoWalk)
  BY ConstantsAssumption DEF NoWalk, Walk, Step, LocalFits
<1>2. order \in Order
  BY ConstantsAssumption DEF Init, Order, DeliveryStatus, DispatchStatus, Trigger, AutoTrigger
<1>3. /\ walk \in [Walker -> Walk] /\ leaseOld \in BOOLEAN
      /\ stamped \in Lane \cup {None} /\ callback \in Callback \cup {None}
  BY <1>1 DEF Init
<1>4. /\ live \subseteq Booking /\ calledOff \subseteq Booked
      /\ delivered \subseteq Booked /\ slips \subseteq Slip
  BY DEF Init
<1>5. taps \in 0..MaxTaps /\ faults \in 0..MaxFaults
  BY ConstantsAssumption DEF Init
<1>6. LocalsFit
  BY <1>1 DEF Init, LocalsFit
<1> QED BY <1>2, <1>3, <1>4, <1>5, <1>6 DEF TypeOK

LEMMA Words ==
    /\ {"dispatched", "in_transit", "delivered", "rider_cancelled",
        "needs_review"} \subseteq DeliveryStatus
    /\ {"none", "dispatch_pending", "dispatched", "dispatch_failed",
        "manual_pending", "cancelled_by_store", "needs_reconciliation"}
         \subseteq DispatchStatus
    /\ {"none", "carrier_cancelled", "dispatch_failed", "staff_cancelled",
        "manual_review"} \subseteq Trigger
BY DEF DeliveryStatus, DispatchStatus, Trigger, AutoTrigger

LEMMA Names ==
    /\ None \notin Booking /\ Pasted \in Booking
    /\ \A g \in 1..MaxGen, c \in Carrier : <<g, c>> \in Booked /\ <<g, c>> \in Booking
    /\ \A g \in 1..MaxGen, l \in Lane \cup {None} : <<g, l>> \in Correlation
BY ConstantsAssumption DEF Booking, Booked, Pasted, Lane, Correlation

(* Retiring a booking keeps an order an order.                             *)
LEMMA ReleasingIsTyped ==
    ASSUME NEW o \in Order, NEW b \in Booking \cup {None}, NEW h \in SUBSET Booking
    PROVE  Releasing(o, b, h) \in Order
<1>1. CASE b = None
  BY <1>1 DEF Releasing
<1>2. CASE b # None
  BY <1>2 DEF Releasing, Order
<1> QED BY <1>1, <1>2

LEMMA OrderIsTyped == TypeOK /\ LocalsFit /\ [Next]_vars => order' \in Order
<1> SUFFICES ASSUME TypeOK, LocalsFit, [Next]_vars PROVE order' \in Order
  OBVIOUS
<1>1. order \in Order /\ walk \in [Walker -> Walk] /\ 0 \in 0..AutoRebookMax
  BY ConstantsAssumption DEF TypeOK
<1>2. \A p \in Walker : walk[p].binding \in Booking \cup {None}
                          /\ walk[p].released \in SUBSET Booking
  BY <1>1 DEF Walk
<1>3. ASSUME NEW p \in Walker,
             SaveFails(p) \/ Kill(p) \/ Tap(p) \/ Scan(p) \/ WorkerCalls(p)
               \/ ClaimThrows(p) \/ ClaimAnswers(p) \/ Stamp(p)
               \/ PostRefused(p) \/ PostBooked(p) \/ PostUnknown(p)
      PROVE  order' \in Order
  BY <1>1, <1>3 DEF SaveFails, Kill, Tap, Scan, WorkerCalls, ClaimThrows,
     ClaimAnswers, Stamp, PostRefused, PostBooked, PostUnknown
<1>4. ASSUME LeaseExpires \/ CallbackLost
               \/ (\E b \in Booked : CallOff(b) \/ Deliver(b)
                     \/ \E event \in Event : CallbackRead(b, event))
      PROVE  order' \in Order
  BY <1>1, <1>4 DEF LeaseExpires, CallbackLost, CallOff, Deliver, CallbackRead
<1>5. ASSUME NEW w \in Worker, ClearFlag(w) PROVE order' \in Order
  BY <1>1, <1>5 DEF ClearFlag, Order
<1>6. ASSUME NEW w \in Worker, CountAttempt(w) PROVE order' \in Order
  <2>1. walk[w].tries + 1 \in 0..AutoRebookMax
    BY ConstantsAssumption, <1>1, <1>6 DEF LocalsFit, LocalFits, CountAttempt, At, Walk, Walker
  <2> QED BY <1>1, <1>6, <2>1 DEF CountAttempt, Order
<1>7. ASSUME ParkClaim PROVE order' \in Order
  BY <1>1, <1>7, Words DEF ParkClaim, Order
<1>8. ASSUME NEW p \in Walker, Claim(p) PROVE order' \in Order
  <2>1. order.generation + 1 \in 1..MaxGen
    BY ConstantsAssumption, <1>1, <1>8 DEF Claim, Order
  <2>2. <<order.generation + 1, None>> \in Correlation
    BY <2>1, Names
  <2>3. order' = [order EXCEPT !.dispatchStatus = "dispatch_pending",
                               !.generation = order.generation + 1,
                               !.pending = <<order.generation + 1, None>>]
    BY <1>8 DEF Claim
  <2>4. order.generation + 1 \in 0..MaxGen
    BY <2>1
  <2> QED BY <1>1, <2>2, <2>3, <2>4, Words DEF Order
<1>9. ASSUME NEW p \in Walker, ReleaseIdle(p) PROVE order' \in Order
  BY <1>1, <1>9, Words DEF ReleaseIdle, Order
<1>10. ASSUME NEW p \in Walker, SaveBooked(p) PROVE order' \in Order
  <2>1. Mine(p) \in Booking /\ walk[p].mine \in 0..MaxGen
    BY <1>10, Names DEF LocalsFit, LocalFits, SaveBooked, At, Mine
  <2> QED BY <1>1, <1>10, <2>1, Words DEF SaveBooked, Settle, Order
<1>11. ASSUME NEW p \in Walker, SaveUnknown(p) PROVE order' \in Order
  <2>1. Mine(p) \in Correlation /\ walk[p].mine \in 0..MaxGen
    BY <1>11, Names DEF LocalsFit, LocalFits, SaveUnknown, At, Mine, Lane
  <2>2. [order EXCEPT !.dispatchStatus = "needs_reconciliation",
                      !.generation = walk[p].mine, !.pending = Mine(p),
                      !.needsRebook = FALSE, !.rebookTrigger = "none"] \in Order
    BY <1>1, <2>1, Words DEF Order
  <2> QED BY <1>2, <1>11, <2>2, ReleasingIsTyped DEF SaveUnknown, Settle
<1>12. ASSUME NEW p \in Walker, SaveManual(p) PROVE order' \in Order
  <2>1. [order EXCEPT !.dispatchStatus = "manual_pending",
                      !.needsRebook = FALSE, !.rebookTrigger = "none"] \in Order
    BY <1>1, Words DEF Order
  <2> QED BY <1>2, <1>12, <2>1, ReleasingIsTyped DEF SaveManual, Settle
<1>13. ASSUME NEW p \in Walker, SaveFailed(p) PROVE order' \in Order
  <2>1. ASSUME NEW t \in Trigger
        PROVE  [order EXCEPT !.dispatchStatus = "dispatch_failed",
                             !.needsRebook = TRUE, !.rebookTrigger = t] \in Order
    BY <1>1, Words DEF Order
  <2>2. order.rebookTrigger \in Trigger /\ "dispatch_failed" \in Trigger
    BY <1>1, Words DEF Order
  <2>3. PICK t \in Trigger :
          order' = Releasing([order EXCEPT !.dispatchStatus = "dispatch_failed",
                                           !.needsRebook = TRUE,
                                           !.rebookTrigger = t],
                             walk[p].binding, walk[p].released)
    <3>1. CASE walk[p].calledOff
      BY <1>13, <2>2, <3>1 DEF SaveFailed, Settle
    <3>2. CASE ~walk[p].calledOff
      BY <1>13, <2>2, <3>2 DEF SaveFailed, Settle
    <3> QED BY <3>1, <3>2
  <2> QED BY <1>2, <2>1, <2>3, ReleasingIsTyped
<1>14. ASSUME Paste PROVE order' \in Order
  BY <1>1, <1>14, Words, Names DEF Paste, Order
<1>15. ASSUME Cancel PROVE order' \in Order
  <2>1. [order EXCEPT !.deliveryStatus = "rider_cancelled",
                      !.dispatchStatus = "cancelled_by_store",
                      !.needsRebook = TRUE,
                      !.rebookTrigger = "staff_cancelled"] \in Order
    BY <1>1, Words DEF Order
  <2>2. order.binding \in Booking \cup {None} /\ order.released \in SUBSET Booking
    BY <1>1 DEF Order
  <2> QED BY <1>15, <2>1, <2>2, ReleasingIsTyped DEF Cancel
<1>16. ASSUME AssignInHouse \/ Close PROVE order' \in Order
  BY <1>1, <1>16, Words DEF AssignInHouse, Close, Order
<1>17. ASSUME NEW o \in Order, NEW event \in Event PROVE Patched(o, event) \in Order
  BY <1>17, Words DEF Patched, Event, Order
<1>18. ASSUME CallbackWrite PROVE order' \in Order
  BY <1>1, <1>17, <1>18 DEF CallbackWrite, Callback, TypeOK
<1>19. ASSUME NEW b \in Booked, NEW event \in Event, CallbackBinds(b, event)
       PROVE  order' \in Order
  <2>1. [order EXCEPT !.binding = b, !.dispatchStatus = "dispatched",
                      !.pending = None] \in Order
    BY <1>1, Words DEF Order, Booking
  <2>2. [[order EXCEPT !.binding = b, !.dispatchStatus = "dispatched",
                       !.pending = None]
           EXCEPT !.deliveryStatus = "dispatched"] \in Order
    BY <2>1, Words DEF Order
  <2> QED BY <1>17, <1>19, <2>1, <2>2 DEF CallbackBinds
<1>20. CASE UNCHANGED vars
  BY <1>1, <1>20 DEF vars
<1> QED
  BY <1>3, <1>4, <1>5, <1>6, <1>7, <1>8, <1>9, <1>10, <1>11, <1>12, <1>13,
     <1>14, <1>15, <1>16, <1>18, <1>19, <1>20
  DEF Next, WalkStep, WorkerStep, CarrierStep, Walker, ClaimParks, Sweep

(* What ReadOrder writes into the locals keeps them typed.                 *)
LEMMA ReadingIsTyped ==
    ASSUME NEW x \in Walk, NEW b \in Booking \cup {None},
           NEW h \in SUBSET Booking, NEW f \in BOOLEAN
    PROVE  [x EXCEPT !.step = "claiming", !.binding = b, !.released = h,
                     !.calledOff = f] \in Walk
<1> DEFINE y == [x EXCEPT !.step = "claiming", !.binding = b, !.released = h]
<1>1. "claiming" \in Step
  BY DEF Step
<1>2. y \in Walk
  BY <1>1 DEF Walk
<1>3. ASSUME NEW z \in Walk PROVE [z EXCEPT !.calledOff = f] \in Walk
  <2>1. [z EXCEPT !.calledOff = TRUE] \in Walk
    BY DEF Walk
  <2>2. [z EXCEPT !.calledOff = FALSE] \in Walk
    BY DEF Walk
  <2> QED BY <2>1, <2>2
<1>4. [x EXCEPT !.step = "claiming", !.binding = b, !.released = h, !.calledOff = f]
        = [y EXCEPT !.calledOff = f]
  BY DEF Walk
<1> QED BY <1>2, <1>3, <1>4

LEMMA WalkIsTyped ==
    TypeOK /\ LocalsFit /\ order' \in Order /\ [Next]_vars
        => walk' \in [Walker -> Walk] /\ LocalsFit'
<1> SUFFICES ASSUME TypeOK, LocalsFit, order' \in Order, [Next]_vars
             PROVE  walk' \in [Walker -> Walk] /\ LocalsFit'
  OBVIOUS
<1>1. order \in Order /\ walk \in [Walker -> Walk]
  BY DEF TypeOK
(* It is enough to look at the locals of the one that moves.               *)
<1>2. ASSUME NEW p \in Walker, NEW x \in Walk, LocalFits(x),
             walk' = [walk EXCEPT ![p] = x]
      PROVE  walk' \in [Walker -> Walk] /\ LocalsFit'
  BY <1>1, <1>2 DEF LocalsFit
<1>3. NoWalk \in Walk /\ LocalFits(NoWalk)
  BY ConstantsAssumption DEF NoWalk, Walk, Step, LocalFits
<1>4. ASSUME NEW p \in Walker, Return(p)
      PROVE  walk' \in [Walker -> Walk] /\ LocalsFit'
  BY <1>2, <1>3, <1>4 DEF Return
<1>5. ASSUME NEW p \in Walker, ~At(p, "clearing"), Throw(p)
      PROVE  walk' \in [Walker -> Walk] /\ LocalsFit'
  <2>1. CASE p \in Worker
    <3> DEFINE x == [NoWalk EXCEPT !.step = "counting", !.tries = walk[p].tries]
    <3>1. walk[p].tries \in 0..AutoRebookMax /\ walk[p].tries < AutoRebookMax
      BY <1>1, <1>5 DEF Walk, LocalFits, LocalsFit, At
    <3>2. x \in Walk
      BY <1>3, <3>1 DEF Walk, Step
    <3>3. LocalFits(x)
      BY <3>1 DEF NoWalk, LocalFits
    <3>4. walk' = [walk EXCEPT ![p] = x]
      BY <1>5, <2>1 DEF Throw
    <3> QED BY <1>2, <3>2, <3>3, <3>4
  <2>2. CASE p \notin Worker
    BY <1>2, <1>3, <1>5, <2>2 DEF Throw
  <2> QED BY <2>1, <2>2
<1>6. ASSUME NEW p \in Walker, ~At(p, "clearing"), ReadOrder(p)
      PROVE  walk' \in [Walker -> Walk] /\ LocalsFit'
  <2> DEFINE x == [walk[p] EXCEPT !.step = "claiming", !.binding = order.binding,
                     !.released = IF order.binding = None THEN {} ELSE order.released,
                     !.calledOff = order.rebookTrigger = "carrier_cancelled"]
  <2>1. order.binding \in Booking \cup {None} /\ order.released \in SUBSET Booking
    BY <1>1 DEF Order
  <2>2. (IF order.binding = None THEN {} ELSE order.released) \in SUBSET Booking
    BY <2>1
  <2>3. (order.rebookTrigger = "carrier_cancelled") \in BOOLEAN
    OBVIOUS
  <2>4. walk[p] \in Walk
    BY <1>1
  <2>5. x \in Walk
    BY <2>1, <2>2, <2>3, <2>4, ReadingIsTyped, Zenon
  <2>6. LocalFits(x)
    BY <1>1, <1>6 DEF LocalFits, LocalsFit, At, Walk
  <2>7. walk' = [walk EXCEPT ![p] = x]
    BY <1>1, <1>6 DEF ReadOrder
  <2> QED BY <1>2, <2>5, <2>6, <2>7
<1>7. ASSUME NEW w \in Worker, Scan(w)
      PROVE  walk' \in [Walker -> Walk] /\ LocalsFit'
  <2>1. order.released \in SUBSET Booking /\ order.binding \in Booking \cup {None}
          /\ order.tries \in 0..AutoRebookMax
    BY <1>1 DEF Order
  <2>2. {b[2] : b \in order.released \cup ({order.binding} \ {None})} \in SUBSET Lane
    BY <2>1 DEF Booking, Booked, Pasted, Lane
  <2>3. PICK s \in {"called", "clearing"} :
          /\ s = "called" => order.tries < AutoRebookMax
          /\ walk' = [walk EXCEPT ![w] =
               [NoWalk EXCEPT !.step = s,
                  !.exclude = {b[2] : b \in order.released \cup ({order.binding} \ {None})},
                  !.tries = order.tries]]
    <3>1. CASE order.rebookTrigger \in AutoTrigger /\ ~Terminal
                 /\ order.tries < AutoRebookMax
      BY <1>7, <3>1 DEF Scan
    <3>2. CASE ~(order.rebookTrigger \in AutoTrigger /\ ~Terminal
                   /\ order.tries < AutoRebookMax)
      BY <1>7, <3>2 DEF Scan
    <3> QED BY <3>1, <3>2
  <2> DEFINE x == [NoWalk EXCEPT !.step = s,
                     !.exclude = {b[2] : b \in order.released \cup ({order.binding} \ {None})},
                     !.tries = order.tries]
  <2>4. x \in Walk
    BY <1>3, <2>1, <2>2 DEF Walk, Step
  <2>5. LocalFits(x)
    BY <2>3 DEF NoWalk, LocalFits
  <2>6. w \in Walker /\ walk' = [walk EXCEPT ![w] = x]
    BY <2>3 DEF Walker
  <2> HIDE DEF x
  <2> QED BY <1>2, <2>4, <2>5, <2>6
<1>8. ASSUME NEW p \in Walker, Claim(p)
      PROVE  walk' \in [Walker -> Walk] /\ LocalsFit'
  <2> DEFINE x == [walk[p] EXCEPT !.step = "quoting", !.mine = order.generation + 1,
                     !.todo = Lane \ walk[p].exclude, !.exclude = {}]
  <2>1. order.generation + 1 \in 1..MaxGen /\ order.generation + 1 \in 0..MaxGen
    BY ConstantsAssumption, <1>1, <1>8 DEF Claim, Order
  <2>2. x \in Walk
    BY ZenonT(40), <1>1, <2>1 DEF Walk, Step
  <2>3. LocalFits(x)
    BY <1>1, <1>8, <2>1 DEF Claim, LocalFits, LocalsFit, At, Walk
  <2>4. walk' = [walk EXCEPT ![p] = x]
    BY <1>1, <1>8 DEF Claim
  <2> QED BY <1>2, <2>2, <2>3, <2>4
<1>9. ASSUME NEW p \in Walker, Stamp(p)
      PROVE  walk' \in [Walker -> Walk] /\ LocalsFit'
  <2>1. PICK lane \in walk[p].todo :
          walk' = [walk EXCEPT ![p].step = "posting", ![p].at = lane,
                               ![p].todo = @ \ {lane}]
    BY <1>9 DEF Stamp
  <2> DEFINE x == [walk[p] EXCEPT !.step = "posting", !.at = lane,
                                  !.todo = @ \ {lane}]
  <2>2. lane \in Lane
    BY <1>1 DEF Walk
  <2>3. x \in Walk
    BY ZenonT(40), <1>1, <2>2 DEF Walk, Step
  <2>4. LocalFits(x)
    BY <1>1, <1>9, <2>2 DEF Stamp, Walking, LocalFits, LocalsFit, Walk
  <2>5. walk' = [walk EXCEPT ![p] = x]
    BY <1>1, <2>1
  <2> QED BY <1>2, <2>3, <2>4, <2>5
<1>10. ASSUME NEW p \in Walker, PostRefused(p)
       PROVE  walk' \in [Walker -> Walk] /\ LocalsFit'
  <2> DEFINE x == [walk[p] EXCEPT !.step = "walking", !.at = None]
  <2>1. x \in Walk
    BY ZenonT(40), <1>1 DEF Walk, Step
  <2>2. LocalFits(x)
    BY <1>1, <1>10 DEF PostRefused, LocalFits, LocalsFit, At, Walk
  <2>3. walk' = [walk EXCEPT ![p] = x]
    BY <1>1, <1>10 DEF PostRefused
  <2> QED BY <1>2, <2>1, <2>2, <2>3
<1>11. ASSUME NEW p \in Walker, PostBooked(p) \/ PostUnknown(p)
       PROVE  walk' \in [Walker -> Walk] /\ LocalsFit'
  <2>1. PICK s \in {"booked", "unknown"} :
          walk' = [walk EXCEPT ![p].step = s, ![p].todo = {}]
    BY <1>11 DEF PostBooked, PostUnknown, EndWalk
  <2> DEFINE x == [walk[p] EXCEPT !.step = s, !.todo = {}]
  <2>2. x \in Walk
    BY ZenonT(40), <1>1 DEF Walk, Step
  <2>3. LocalFits(x)
    BY <1>1, <1>11 DEF PostBooked, PostUnknown, LocalFits, LocalsFit, At, Walk
  <2>4. walk' = [walk EXCEPT ![p] = x]
    BY <1>1, <2>1
  <2> QED BY <1>2, <2>2, <2>3, <2>4
<1>12. ASSUME walk' = walk PROVE walk' \in [Walker -> Walk] /\ LocalsFit'
  BY <1>1, <1>12 DEF LocalsFit
<1>13. ASSUME NEW p \in Walker,
              Kill(p) \/ ClaimAnswers(p) \/ SaveBooked(p) \/ SaveManual(p)
                \/ ClearFlag(p) \/ CountAttempt(p)
       PROVE  Return(p)
  BY <1>13 DEF Kill, ClaimAnswers, SaveBooked, SaveManual, ClearFlag, CountAttempt
<1>14. ASSUME NEW p \in Walker,
              SaveFails(p) \/ ClaimThrows(p) \/ ClaimParks(p) \/ ReleaseIdle(p)
                \/ SaveUnknown(p) \/ SaveFailed(p)
       PROVE  ~At(p, "clearing") /\ Throw(p)
  BY <1>14 DEF SaveFails, ClaimThrows, ClaimParks, ReleaseIdle, SaveUnknown,
     SaveFailed, At, Holding, Walking
<1>15. ASSUME NEW p \in Walker, Tap(p) \/ WorkerCalls(p)
       PROVE  ~At(p, "clearing") /\ (Throw(p) \/ ReadOrder(p))
  BY <1>15 DEF Tap, WorkerCalls, At
<1>16. ASSUME \/ LeaseExpires \/ Sweep \/ Paste \/ Cancel \/ AssignInHouse \/ Close
              \/ CarrierStep \/ UNCHANGED vars
       PROVE  walk' = walk
  BY <1>16 DEF LeaseExpires, Sweep, Paste, Cancel, AssignInHouse, Close, CarrierStep,
     CallbackWrite, CallbackLost, CallOff, Deliver, CallbackRead, CallbackBinds, vars
<1> QED
  BY <1>4, <1>5, <1>6, <1>7, <1>8, <1>9, <1>10, <1>11, <1>12, <1>13, <1>14,
     <1>15, <1>16
  DEF Next, WalkStep, WorkerStep, Walker

LEMMA RestIsTyped ==
    TypeOK /\ LocalsFit /\ [Next]_vars =>
        /\ leaseOld' \in BOOLEAN /\ stamped' \in Lane \cup {None}
        /\ callback' \in Callback \cup {None}
        /\ live' \subseteq Booking
        /\ calledOff' \subseteq Booked /\ delivered' \subseteq Booked
        /\ slips' \subseteq Slip
        /\ taps' \in 0..MaxTaps /\ faults' \in 0..MaxFaults
<1> DEFINE Rest == /\ leaseOld \in BOOLEAN /\ stamped \in Lane \cup {None}
                   /\ callback \in Callback \cup {None}
                   /\ live \subseteq Booking
                   /\ calledOff \subseteq Booked /\ delivered \subseteq Booked
                   /\ slips \subseteq Slip
                   /\ taps \in 0..MaxTaps /\ faults \in 0..MaxFaults
<1> SUFFICES ASSUME TypeOK, LocalsFit, [Next]_vars PROVE Rest'
  OBVIOUS
<1>1. Rest /\ walk \in [Walker -> Walk] /\ (TRUE \in BOOLEAN /\ FALSE \in BOOLEAN)
  BY DEF TypeOK
<1>2. ASSUME NEW p \in Walker,
             SaveFails(p) \/ Kill(p) \/ Tap(p) \/ Scan(p) \/ ClearFlag(p)
               \/ WorkerCalls(p) \/ CountAttempt(p) \/ ClaimThrows(p)
               \/ ClaimAnswers(p) \/ ClaimParks(p) \/ Claim(p) \/ ReleaseIdle(p)
      PROVE  Rest'
  <2>1. CASE SaveFails(p) \/ Kill(p)
    BY ConstantsAssumption, <1>1, <2>1 DEF SaveFails, Kill, remote
  <2>2. CASE Tap(p)
    BY ConstantsAssumption, <1>1, <2>2 DEF Tap, remote
  <2>3. CASE Scan(p) \/ ClearFlag(p) \/ WorkerCalls(p) \/ CountAttempt(p)
    BY <1>1, <2>3 DEF Scan, ClearFlag, WorkerCalls, CountAttempt, remote, bounds
  <2>4. CASE ClaimThrows(p) \/ ClaimAnswers(p) \/ ClaimParks(p)
    BY <1>1, <2>4 DEF ClaimThrows, ClaimAnswers, ClaimParks, ParkClaim, remote, bounds
  <2>5. CASE Claim(p) \/ ReleaseIdle(p)
    BY <1>1, <2>5 DEF Claim, ReleaseIdle, remote, bounds
  <2> QED BY <1>2, <2>1, <2>2, <2>3, <2>4, <2>5
<1>3. ASSUME NEW p \in Walker, Stamp(p) PROVE Rest'
  <2>1. walk[p].todo \subseteq Lane
    BY <1>1 DEF Walk
  <2> QED BY <1>1, <1>3, <2>1 DEF Stamp, remote, bounds
<1>4. ASSUME NEW p \in Walker, PostRefused(p) \/ PostBooked(p) \/ PostUnknown(p)
      PROVE  Rest'
  <2>1. Mine(p) \in Booking
    <3>1. walk[p].mine \in 1..MaxGen /\ walk[p].at \in Carrier
      BY <1>4 DEF PostRefused, PostBooked, PostUnknown, At, LocalsFit, LocalFits
    <3> QED BY <3>1, Names DEF Mine
  <2>2. UNCHANGED <<leaseOld, stamped, callback, calledOff, delivered, taps, faults>>
    BY <1>4 DEF PostRefused, PostBooked, PostUnknown, bounds
  <2>3. live' \in {live, live \cup {Mine(p)}} /\ slips' \subseteq Slip
    BY <1>1, <1>4 DEF PostRefused, PostBooked, PostUnknown, Slip
  <2> QED BY <1>1, <2>1, <2>2, <2>3
<1>5. ASSUME NEW p \in Walker,
             SaveBooked(p) \/ SaveUnknown(p) \/ SaveManual(p) \/ SaveFailed(p)
      PROVE  Rest'
  BY <1>1, <1>5 DEF SaveBooked, SaveUnknown, SaveManual, SaveFailed, Settle, LetGo,
     bounds
<1>6. ASSUME LeaseExpires \/ Sweep \/ AssignInHouse \/ Close \/ CallbackLost
      PROVE  Rest'
  BY <1>1, <1>6 DEF LeaseExpires, Sweep, ParkClaim, AssignInHouse, Close,
     CallbackLost, remote, bounds
<1>7. ASSUME Paste \/ Cancel PROVE Rest'
  <2>1. CASE Paste
    <3>1. live' \subseteq Booking /\ taps' \in 0..MaxTaps
      BY ConstantsAssumption, <1>1, <2>1, Names DEF Paste
    <3>2. leaseOld' = FALSE
            /\ UNCHANGED <<stamped, callback, calledOff, delivered, slips, faults>>
      BY <2>1 DEF Paste
    <3>3. leaseOld' \in BOOLEAN
      BY <3>2
    <3> QED BY <1>1, <3>1, <3>2, <3>3
  <2>2. CASE Cancel
    BY <1>1, <2>2 DEF Cancel, LetGo, bounds
  <2> QED BY <1>7, <2>1, <2>2
<1>8. ASSUME NEW b \in Booked, CallOff(b) \/ Deliver(b) PROVE Rest'
  BY <1>1, <1>8 DEF CallOff, Deliver, bounds
<1>9. ASSUME NEW b \in Booked, NEW event \in Event, CallbackRead(b, event)
      PROVE  Rest'
  BY <1>1, <1>9 DEF CallbackRead, Callback, remote, bounds
<1>10. ASSUME CallbackWrite \/ \E b \in Booked, event \in Event : CallbackBinds(b, event)
       PROVE  Rest'
  <2>1. slips' \subseteq Slip /\ callback' \in {callback, None}
    BY <1>1, <1>10 DEF CallbackWrite, CallbackBinds, Slip
  <2> QED BY <1>1, <1>10, <2>1 DEF CallbackWrite, CallbackBinds, bounds
<1>11. CASE UNCHANGED vars
  BY <1>1, <1>11 DEF vars, remote, bounds
<1> QED
  BY <1>2, <1>3, <1>4, <1>5, <1>6, <1>7, <1>8, <1>9, <1>10, <1>11
  DEF Next, WalkStep, WorkerStep, CarrierStep, Walker

LEMMA TypesAreInvariant == Spec => [](TypeOK /\ LocalsFit)
<1>1. TypeOK /\ LocalsFit /\ [Next]_vars => TypeOK' /\ LocalsFit'
  BY OrderIsTyped, WalkIsTyped, RestIsTyped DEF TypeOK
<1> QED BY <1>1, InitTypes, PTL DEF Spec

(* Every field and local keeps its type; the order's attempts never exceed *)
(* the limit of the rebook job, for all the stale counts it writes.        *)
THEOREM TypeCorrect == Spec => []TypeOK
BY TypesAreInvariant, PTL


-----------------------------------------------------------------------------
(* The claim, as long as no callback has been written over an order that   *)
(* moved on and none has put a ride back on its way: the two slips that    *)
(* make a booking active again under somebody else's claim.  Nothing       *)
(* prevents them; what has gone astray stays so, and each step keeps the   *)
(* claims if it adds neither.                                              *)

Faithful == slips \cap {"moved_on", "revived"} = {}

LEMMA SlipsStay == [Next]_vars => slips \subseteq slips'
<1> SUFFICES ASSUME [Next]_vars PROVE slips \subseteq slips'
  OBVIOUS
<1>1. ASSUME NEW p \in Walker,
             SaveFails(p) \/ Kill(p) \/ Tap(p) \/ Scan(p) \/ ClearFlag(p)
               \/ WorkerCalls(p) \/ CountAttempt(p) \/ ClaimThrows(p)
               \/ ClaimAnswers(p) \/ ClaimParks(p) \/ Claim(p) \/ ReleaseIdle(p)
               \/ Stamp(p)
      PROVE  slips' = slips
  BY <1>1 DEF SaveFails, Kill, Tap, Scan, ClearFlag, WorkerCalls, CountAttempt,
     ClaimThrows, ClaimAnswers, ClaimParks, Claim, ReleaseIdle, Stamp, remote
<1>2. ASSUME NEW p \in Walker,
             PostRefused(p) \/ PostBooked(p) \/ PostUnknown(p) \/ SaveBooked(p)
               \/ SaveUnknown(p) \/ SaveManual(p) \/ SaveFailed(p)
      PROVE  slips \subseteq slips'
  BY <1>2 DEF PostRefused, PostBooked, PostUnknown, SaveBooked, SaveUnknown,
     SaveManual, SaveFailed, Settle
<1>3. ASSUME LeaseExpires \/ Sweep \/ Paste \/ Cancel \/ AssignInHouse \/ Close
               \/ UNCHANGED vars
      PROVE  slips' = slips
  BY <1>3 DEF LeaseExpires, Sweep, Paste, Cancel, AssignInHouse, Close, vars, remote
<1>4. ASSUME CarrierStep PROVE slips \subseteq slips'
  BY <1>4 DEF CarrierStep, CallbackWrite, CallbackLost, CallOff, Deliver,
     CallbackRead, CallbackBinds, remote
<1> QED BY <1>1, <1>2, <1>3, <1>4 DEF Next, WalkStep, WorkerStep, Walker

(* The holder's claim is the one on the order.                             *)
OwnerHolds ==
    \A p \in Walker :
        Holding(p) => FreshPending /\ order.generation = walk[p].mine
OneHolder == \A p, q \in Walker : Holding(p) /\ Holding(q) => p = q
(* While a claim is pending no booking of the order is active, so nothing  *)
(* that acts on an active booking can end the claim.                       *)
PendingIsInactive == Pending /\ order.binding # None => ~OnItsWay
NoneIsUnbound == order.deliveryStatus = "none" => order.binding = None
Calm == PendingIsInactive /\ NoneIsUnbound
ClaimInv == OwnerHolds /\ OneHolder /\ Calm

(* Who stops, or has not claimed yet, holds nothing, and nobody else moves. *)
Leaves(p) ==
    /\ ~Holding(p)'
    /\ \A q \in Walker \ {p} : walk'[q] = walk[q]

LEMMA LeavesStops ==
    ASSUME TypeOK, NEW p \in Walker, Return(p) \/ Throw(p) \/ ReadOrder(p)
    PROVE  Leaves(p)
<1>1. walk \in [Walker -> Walk]
  BY DEF TypeOK
<1>2. CASE Return(p)
  BY <1>1, <1>2 DEF Return, NoWalk, Leaves, Holding
<1>3. CASE Throw(p)
  <2>1. CASE p \in Worker
    BY <1>1, <1>3, <2>1 DEF Throw, NoWalk, Leaves, Holding
  <2>2. CASE p \notin Worker
    BY <1>1, <1>3, <2>2 DEF Throw, NoWalk, Leaves, Holding
  <2> QED BY <2>1, <2>2
<1>4. CASE ReadOrder(p)
  BY <1>1, <1>4 DEF ReadOrder, Walk, Leaves, Holding
<1> QED BY <1>2, <1>3, <1>4

LEMMA NobodyElse ==
    ASSUME ClaimInv, NEW p \in Walker, Holding(p)
    PROVE  \A q \in Walker \ {p} : ~Holding(q)
BY DEF ClaimInv, OneHolder

LEMMA NobodyHolds ==
    ASSUME ClaimInv, ~FreshPending
    PROVE  \A q \in Walker : ~Holding(q)
BY DEF ClaimInv, OwnerHolds

(* A step that leaves the order's claim alone and adds no holder keeps     *)
(* everybody's claim; one after which nobody holds has none to keep.       *)
LEMMA KeepsClaim ==
    ASSUME ClaimInv, Calm', leaseOld' = leaseOld,
           order'.dispatchStatus = order.dispatchStatus,
           order'.generation = order.generation,
           \A q \in Walker :
             Holding(q)' => Holding(q) /\ walk'[q].mine = walk[q].mine
    PROVE  ClaimInv'
<1>1. OwnerHolds'
  BY DEF ClaimInv, OwnerHolds, FreshPending, Pending
<1>2. OneHolder'
  BY DEF ClaimInv, OneHolder
<1> QED BY <1>1, <1>2 DEF ClaimInv

LEMMA EndsClaim ==
    ASSUME Calm', \A q \in Walker : ~Holding(q)'
    PROVE  ClaimInv'
BY DEF ClaimInv, OwnerHolds, OneHolder

LEMMA LeavesEnds ==
    ASSUME NEW p \in Walker, Leaves(p), \A q \in Walker \ {p} : ~Holding(q)
    PROVE  \A q \in Walker : ~Holding(q)'
BY DEF Leaves, Holding

LEMMA LeavesKeeps ==
    ASSUME NEW p \in Walker, Leaves(p)
    PROVE  \A q \in Walker :
             Holding(q)' => Holding(q) /\ walk'[q].mine = walk[q].mine
BY DEF Leaves, Holding

(* Retiring a booking only unbinds.                                        *)
LEMMA ReleasingUnbinds ==
    ASSUME NEW o \in Order, NEW b \in Booking \cup {None}, NEW h \in SUBSET Booking
    PROVE  /\ Releasing(o, b, h).dispatchStatus = o.dispatchStatus
           /\ Releasing(o, b, h).deliveryStatus = o.deliveryStatus
           /\ Releasing(o, b, h).binding \in {o.binding, None}
<1>1. CASE b = None
  BY <1>1 DEF Releasing
<1>2. CASE b # None
  BY <1>2 DEF Releasing, Order
<1> QED BY <1>1, <1>2

LEMMA InitClaims == Init => ClaimInv
BY DEF Init, ClaimInv, OwnerHolds, OneHolder, Calm, PendingIsInactive,
   NoneIsUnbound, Holding, NoWalk, Pending

LEMMA ClaimsAreKept ==
    ASSUME Faithful', TypeOK, LocalsFit, ClaimInv, [Next]_vars
    PROVE  ClaimInv'
<1>1. /\ order \in Order /\ walk \in [Walker -> Walk] /\ None \notin Booking
      /\ Calm
  BY Names DEF TypeOK, ClaimInv
<1>2. \A p \in Walker : walk[p].binding \in Booking \cup {None}
                          /\ walk[p].released \in SUBSET Booking
  BY <1>1 DEF Walk
<1>3. ASSUME order' = order PROVE Calm'
  BY <1>1, <1>3 DEF Calm, PendingIsInactive, NoneIsUnbound, Pending, OnItsWay
<1>4. ASSUME NEW p \in Walker,
             SaveFails(p) \/ Kill(p) \/ Tap(p) \/ WorkerCalls(p)
               \/ ClaimThrows(p) \/ ClaimAnswers(p) \/ Scan(p)
      PROVE  ClaimInv'
  <2>1. UNCHANGED <<order, leaseOld>>
    BY <1>4 DEF SaveFails, Kill, Tap, WorkerCalls, ClaimThrows, ClaimAnswers, Scan
  <2>2. Leaves(p)
    <3>1. CASE ~Scan(p)
      BY <1>4, <3>1, LeavesStops DEF SaveFails, Kill, Tap, WorkerCalls, ClaimThrows,
         ClaimAnswers
    <3>2. CASE Scan(p)
      BY <1>1, <3>2 DEF Scan, Leaves, Holding, NoWalk
    <3> QED BY <3>1, <3>2
  <2> QED BY <1>3, <2>1, <2>2, LeavesKeeps, KeepsClaim
<1>5. ASSUME NEW w \in Worker, ClearFlag(w) \/ CountAttempt(w) PROVE ClaimInv'
  <2>1. w \in Walker /\ leaseOld' = leaseOld
    BY <1>5 DEF ClearFlag, CountAttempt, Walker
  <2>2. Leaves(w)
    BY <1>5, <2>1, LeavesStops DEF ClearFlag, CountAttempt
  <2>3. /\ order'.dispatchStatus = order.dispatchStatus
        /\ order'.generation = order.generation
        /\ order'.deliveryStatus = order.deliveryStatus
        /\ order'.binding = order.binding
    BY <1>1, <1>5 DEF ClearFlag, CountAttempt, Order
  <2>4. Calm'
    BY <1>1, <2>3 DEF Calm, PendingIsInactive, NoneIsUnbound, Pending, OnItsWay
  <2> QED BY <2>1, <2>2, <2>3, <2>4, LeavesKeeps, KeepsClaim
<1>6. ASSUME NEW p \in Walker,
             Stamp(p) \/ PostRefused(p) \/ PostBooked(p) \/ PostUnknown(p)
      PROVE  ClaimInv'
  <2>1. UNCHANGED <<order, leaseOld>>
    BY <1>6 DEF Stamp, PostRefused, PostBooked, PostUnknown
  <2>2. Holding(p)
    BY <1>6 DEF Stamp, PostRefused, PostBooked, PostUnknown, Holding, Walking, At
  <2>3. \A q \in Walker : walk'[q].mine = walk[q].mine
          /\ (q # p => walk'[q] = walk[q])
    <3>1. CASE Stamp(p)
      BY <1>1, <3>1 DEF Stamp, Walk
    <3>2. CASE PostRefused(p)
      BY <1>1, <3>2 DEF PostRefused, Walk
    <3>3. CASE PostBooked(p) \/ PostUnknown(p)
      BY <1>1, <3>3 DEF PostBooked, PostUnknown, EndWalk, Walk
    <3> QED BY <1>6, <3>1, <3>2, <3>3
  <2> QED BY <1>3, <2>1, <2>2, <2>3, KeepsClaim DEF Holding
<1>7. ASSUME ~FreshPending, ParkClaim,
             walk' = walk \/ \E p \in Walker : Leaves(p)
      PROVE  ClaimInv'
  <2>1. \A q \in Walker : ~Holding(q)'
    BY <1>7, NobodyHolds, LeavesEnds DEF Holding
  <2>2. Calm'
    BY <1>1, <1>7 DEF ParkClaim, Order, Calm, PendingIsInactive, NoneIsUnbound,
       Pending, OnItsWay
  <2> QED BY <2>1, <2>2, EndsClaim
<1>8. ASSUME NEW p \in Walker, ClaimParks(p) PROVE ClaimInv'
  BY <1>7, <1>8, LeavesStops DEF ClaimParks, Claimable
<1>9. ASSUME Sweep PROVE ClaimInv'
  BY <1>7, <1>9 DEF Sweep, FreshPending
<1>10. ASSUME NEW p \in Walker, Claim(p) PROVE ClaimInv'
  <2> DEFINE g == order.generation + 1
  <2>1. \A q \in Walker : ~Holding(q)
    BY <1>10, NobodyHolds DEF Claim, Claimable
  <2>2. /\ order'.dispatchStatus = "dispatch_pending"
        /\ order'.generation = g
        /\ order'.deliveryStatus = order.deliveryStatus
        /\ order'.binding = order.binding
    BY <1>1, <1>10 DEF Claim, Order
  <2>3. walk'[p].mine = g /\ \A q \in Walker \ {p} : walk'[q] = walk[q]
    BY <1>1, <1>10 DEF Claim, Walk
  <2>4. OneHolder' /\ \A q \in Walker : Holding(q)' => q = p
    BY <2>1, <2>3 DEF OneHolder, Holding
  <2>5. leaseOld' = FALSE
    BY <1>10 DEF Claim
  <2>6. OwnerHolds'
    BY <2>2, <2>3, <2>4, <2>5 DEF OwnerHolds, FreshPending, Pending
  <2>7. Calm'
    BY <1>1, <1>10, <2>2 DEF Claim, Claimable, IsActiveDispatch, OnItsWay, Calm,
       PendingIsInactive, NoneIsUnbound
  <2> QED BY <2>4, <2>6, <2>7 DEF ClaimInv
(* The owner's settling writes: nobody else holds, and it stops.           *)
<1>11. ASSUME NEW p \in Walker, Holding(p), Leaves(p),
              order'.dispatchStatus # "dispatch_pending", NoneIsUnbound'
       PROVE  ClaimInv'
  BY <1>11, NobodyElse, LeavesEnds, EndsClaim DEF Calm, PendingIsInactive, Pending
<1>12. ASSUME NEW p \in Walker, ReleaseIdle(p) \/ SaveBooked(p)
       PROVE  ClaimInv'
  <2>1. Holding(p)
    BY <1>12 DEF ReleaseIdle, SaveBooked, At, Holding
  <2>2. Leaves(p)
    BY <1>12, LeavesStops DEF ReleaseIdle, SaveBooked
  <2>3. order'.dispatchStatus # "dispatch_pending" /\ NoneIsUnbound'
    BY <1>1, <1>12 DEF ReleaseIdle, SaveBooked, Settle, Order, Calm, NoneIsUnbound
  <2> QED BY <1>11, <2>1, <2>2, <2>3
<1>13. ASSUME NEW p \in Walker, NEW o \in Order,
              o.deliveryStatus = order.deliveryStatus, o.binding = order.binding,
              o.dispatchStatus # "dispatch_pending",
              Settle(p, Releasing(o, walk[p].binding, walk[p].released))
       PROVE  order'.dispatchStatus # "dispatch_pending" /\ NoneIsUnbound'
  BY <1>1, <1>2, <1>13, ReleasingUnbinds DEF Settle, Calm, NoneIsUnbound
<1>14. ASSUME NEW p \in Walker, SaveUnknown(p) \/ SaveManual(p) \/ SaveFailed(p)
       PROVE  ClaimInv'
  <2>1. Holding(p)
    BY <1>14 DEF SaveUnknown, SaveManual, SaveFailed, At, Holding, Walking
  <2>2. Leaves(p)
    BY <1>14, LeavesStops DEF SaveUnknown, SaveManual, SaveFailed
  <2>3. order'.dispatchStatus # "dispatch_pending" /\ NoneIsUnbound'
    <3>1. CASE SaveUnknown(p)
      <4>1. Mine(p) \in Correlation /\ walk[p].mine \in 0..MaxGen
        BY <3>1, Names DEF LocalsFit, LocalFits, SaveUnknown, At, Mine, Lane
      <4> DEFINE o == [order EXCEPT !.dispatchStatus = "needs_reconciliation",
                         !.generation = walk[p].mine, !.pending = Mine(p),
                         !.needsRebook = FALSE, !.rebookTrigger = "none"]
      <4>2. /\ o \in Order /\ o.deliveryStatus = order.deliveryStatus
            /\ o.binding = order.binding /\ o.dispatchStatus # "dispatch_pending"
        BY <1>1, <4>1, Words DEF Order
      <4>3. Settle(p, Releasing(o, walk[p].binding, walk[p].released))
        BY <3>1 DEF SaveUnknown
      <4> HIDE DEF o
      <4> QED BY <1>13, <4>2, <4>3
    <3>2. CASE SaveManual(p)
      <4> DEFINE o == [order EXCEPT !.dispatchStatus = "manual_pending",
                         !.needsRebook = FALSE, !.rebookTrigger = "none"]
      <4>1. /\ o \in Order /\ o.deliveryStatus = order.deliveryStatus
            /\ o.binding = order.binding /\ o.dispatchStatus # "dispatch_pending"
        BY <1>1, Words DEF Order
      <4>2. Settle(p, Releasing(o, walk[p].binding, walk[p].released))
        BY <3>2 DEF SaveManual
      <4> HIDE DEF o
      <4> QED BY <1>13, <4>1, <4>2
    <3>3. CASE SaveFailed(p)
      <4>1. order.rebookTrigger \in Trigger /\ "dispatch_failed" \in Trigger
        BY <1>1, Words DEF Order
      <4>2. PICK t \in Trigger :
              Settle(p, Releasing([order EXCEPT !.dispatchStatus = "dispatch_failed",
                                                !.needsRebook = TRUE,
                                                !.rebookTrigger = t],
                                  walk[p].binding, walk[p].released))
        <5>1. CASE walk[p].calledOff
          BY <3>3, <4>1, <5>1 DEF SaveFailed
        <5>2. CASE ~walk[p].calledOff
          BY <3>3, <4>1, <5>2 DEF SaveFailed
        <5> QED BY <5>1, <5>2
      <4> DEFINE o == [order EXCEPT !.dispatchStatus = "dispatch_failed",
                                    !.needsRebook = TRUE, !.rebookTrigger = t]
      <4>3. /\ o \in Order /\ o.deliveryStatus = order.deliveryStatus
            /\ o.binding = order.binding /\ o.dispatchStatus # "dispatch_pending"
        BY <1>1, Words DEF Order
      <4> HIDE DEF o
      <4> QED BY <1>13, <4>2, <4>3 DEF o
    <3> QED BY <1>14, <3>1, <3>2, <3>3
  <2> QED BY <1>11, <2>1, <2>2, <2>3
<1>15. ASSUME LeaseExpires PROVE ClaimInv'
  <2>1. \A q \in Walker : ~Holding(q)'
    BY <1>15 DEF LeaseExpires, ClaimInv, OwnerHolds, Holding
  <2> QED BY <1>3, <1>15, <2>1, EndsClaim DEF LeaseExpires
(* The staff's other handlers.                                             *)
<1>16. ASSUME walk' = walk, ~FreshPending, Calm' PROVE ClaimInv'
  BY <1>16, NobodyHolds, EndsClaim DEF Holding
<1>17. ASSUME Paste PROVE ClaimInv'
  <2>1. Calm'
    BY <1>1, <1>17 DEF Paste, Order, Calm, PendingIsInactive, NoneIsUnbound, Pending
  <2> QED BY <1>16, <1>17, <2>1 DEF Paste
<1>18. ASSUME Cancel PROVE ClaimInv'
  <2>1. ~Pending
    BY <1>1, <1>18 DEF Cancel, IsActiveDispatch, HasOwnedLiveBooking, Calm,
       PendingIsInactive, Pending
  <2> DEFINE o == [order EXCEPT !.deliveryStatus = "rider_cancelled",
                                !.dispatchStatus = "cancelled_by_store",
                                !.needsRebook = TRUE,
                                !.rebookTrigger = "staff_cancelled"]
  <2>2. /\ o \in Order /\ o.dispatchStatus = "cancelled_by_store"
        /\ o.deliveryStatus = "rider_cancelled"
    BY <1>1, Words DEF Order
  <2>3. order.binding \in Booking \cup {None} /\ order.released \in SUBSET Booking
    BY <1>1 DEF Order
  <2>4. /\ order'.dispatchStatus = "cancelled_by_store"
        /\ order'.deliveryStatus = "rider_cancelled"
    <3>1. order' = Releasing(o, order.binding, order.released)
      BY <1>18 DEF Cancel
    <3> HIDE DEF o
    <3> QED BY <2>2, <2>3, <3>1, ReleasingUnbinds
  <2>5. Calm'
    BY <2>4 DEF Calm, PendingIsInactive, NoneIsUnbound, Pending
  <2> QED BY <1>16, <1>18, <2>1, <2>5 DEF Cancel, FreshPending
<1>19. ASSUME AssignInHouse PROVE ClaimInv'
  <2>1. Calm'
    BY <1>1, <1>19 DEF AssignInHouse, Order, Calm, PendingIsInactive, NoneIsUnbound,
       Pending
  <2> QED BY <1>16, <1>19, <2>1 DEF AssignInHouse, FreshPending
<1>20. ASSUME walk' = walk, leaseOld' = leaseOld, Calm',
              order'.dispatchStatus = order.dispatchStatus,
              order'.generation = order.generation
       PROVE  ClaimInv'
  BY <1>20, KeepsClaim DEF Holding
<1>21. ASSUME Close PROVE ClaimInv'
  <2>1. Calm'
    BY <1>1, <1>21 DEF Close, Order, Calm, PendingIsInactive, NoneIsUnbound, Pending,
       OnItsWay
  <2> QED BY <1>1, <1>20, <1>21, <2>1 DEF Close, Order
(* The carriers.                                                           *)
<1>22. ASSUME CallbackWrite PROVE ClaimInv'
  <2>1. order.binding = callback.of /\ ~Revives(callback.event)
          /\ callback \in Callback /\ order' = Patched(order, callback.event)
    BY <1>22 DEF CallbackWrite, Faithful, TypeOK
  <2>2. order.binding # None /\ callback.event \in Event
    BY <1>1, <2>1 DEF Callback, Booking
  <2>3. order.deliveryStatus \in DeliveryStatus \ {"none"}
    BY <1>1, <2>2 DEF Order, Calm, NoneIsUnbound
  <2>4. callback.event \in {"DRIVER_ALLOCATED", "STARTED_DELIVERY"} => ~Pending
    BY <1>1, <2>1, <2>2, <2>3 DEF Revives, Calm, PendingIsInactive, OnItsWay,
       DeliveryStatus
  <2>5. /\ order'.dispatchStatus = order.dispatchStatus
        /\ order'.generation = order.generation
        /\ order'.binding = order.binding
        /\ order'.deliveryStatus # "none"
        /\ callback.event \in {"DRIVER_ALLOCATED", "STARTED_DELIVERY"}
             \/ order'.deliveryStatus \notin {"dispatched", "in_transit"}
             \/ order'.deliveryStatus = order.deliveryStatus
    BY <1>1, <2>1, <2>2, <2>3 DEF Patched, Event, Order
  <2>6. Calm'
    BY <1>1, <2>2, <2>4, <2>5 DEF Calm, PendingIsInactive, NoneIsUnbound, Pending,
       OnItsWay
  <2> QED BY <1>20, <1>22, <2>5, <2>6 DEF CallbackWrite
<1>23. ASSUME NEW b \in Booked, NEW event \in Event, CallbackBinds(b, event)
       PROVE  ClaimInv'
  <2>1. /\ order'.deliveryStatus # "none"
        /\ order'.dispatchStatus # "dispatch_pending"
    <3>1. CASE Ignored(event)
      BY <1>1, <1>23, <3>1 DEF CallbackBinds, Ignored, Order
    <3>2. CASE ~Ignored(event)
      BY <1>1, <1>23, <3>2 DEF CallbackBinds, Patched, Event, Order
    <3> QED BY <3>1, <3>2
  <2>2. Calm'
    BY <2>1 DEF Calm, PendingIsInactive, NoneIsUnbound, Pending
  <2> QED BY <1>16, <1>23, <2>2 DEF CallbackBinds, FreshPending, Pending
<1>24. ASSUME CallbackLost \/ (\E b \in Booked :
                CallOff(b) \/ Deliver(b) \/ \E event \in Event : CallbackRead(b, event))
       PROVE  ClaimInv'
  <2>1. UNCHANGED <<order, leaseOld, walk>>
    BY <1>24 DEF CallbackLost, CallOff, Deliver, CallbackRead
  <2> QED BY <1>3, <1>20, <2>1
<1>25. CASE UNCHANGED vars
  BY <1>3, <1>20, <1>25 DEF vars
<1> QED
  BY <1>4, <1>5, <1>6, <1>8, <1>9, <1>10, <1>12, <1>14, <1>15, <1>17, <1>18,
     <1>19, <1>21, <1>22, <1>23, <1>24, <1>25
  DEF Next, WalkStep, WorkerStep, CarrierStep, Walker

(* Whoever claimed the dispatch holds the claim until it settles: while    *)
(* one execution walks the carriers no second one can claim the order, and *)
(* no job, cancellation, pasted booking or in-house rider can end the      *)
(* claim, nor can a callback before one has gone astray, so the plain      *)
(* writes that settle it overwrite nobody.  For any number of taps, jobs,  *)
(* carriers and faults, and whatever a refused POST left with its carrier. *)
THEOREM ClaimHeld == Spec => []ClaimIsHeld
<1>1. (Faithful => ClaimInv) /\ TypeOK /\ LocalsFit /\ [Next]_vars
        => (Faithful => ClaimInv)'
  BY ClaimsAreKept, SlipsStay DEF Faithful
<1>2. Spec => [](Faithful => ClaimInv)
  BY <1>1, InitClaims, TypesAreInvariant, PTL DEF Spec
<1>3. (Faithful => ClaimInv) => ClaimIsHeld
  BY DEF ClaimInv, Faithful, OwnerHolds, ClaimIsHeld
<1> QED BY <1>2, <1>3, PTL

-----------------------------------------------------------------------------
(* The riders.  A claim is made when no rider is on the way; under it one  *)
(* POST at most has an unknown or a good answer, and the row of the claim  *)
(* names its carrier; while the claim is pending or parked (Open) only     *)
(* that rider can be on the way, afterwards only the one the order is      *)
(* bound to - all of this until the first slip of any kind.  Rides are the *)
(* bookings that carriers and the order know of.                           *)

Open == order.dispatchStatus \in {"dispatch_pending", "needs_reconciliation"}
Rides == live \cup calledOff \cup delivered \cup ({order.binding} \ {None})

OpenIsKnown ==
    Open => /\ order.pending # None /\ order.pending[1] = order.generation
            /\ order.generation > 0
            /\ \A b \in Rides : b[1] = order.generation => b[2] = stamped
OpenIsInactive == Open /\ order.binding # None => ~OnItsWay
OpenIsDown == Open => order.binding \notin live
BoundIsActive == order.binding \in live => IsActiveDispatch
ParkedIsUnflagged ==
    order.dispatchStatus = "needs_reconciliation" /\ order.binding = None
      => ~order.needsRebook
InHouseAlone ==
    order.inHouse =>
      order.deliveryStatus = "dispatched" /\ order.binding = None /\ ~Open
OldRides == \A b \in Rides : b[1] <= order.generation
Apart == live \cap (calledOff \cup delivered) = {}
NoneIsLost ==
    \A b \in live :
        order.binding = b \/ (Open /\ b = <<order.generation, stamped>>)
Standing ==
    /\ OpenIsKnown /\ OpenIsInactive /\ OpenIsDown /\ BoundIsActive
    /\ ParkedIsUnflagged /\ InHouseAlone /\ OldRides /\ Apart /\ NoneIsLost

(* What a walk in progress knows: no rider before its POST is answered,    *)
(* and the row that names the lane it posted to.                           *)
NothingYet(p) ==
    walk[p].step \in {"quoting", "walking", "posting"}
      => live = {} /\ \A b \in Rides : b[1] < order.generation
Evidence(p) ==
    walk[p].step \in {"posting", "booked", "unknown"} => stamped = walk[p].at
Moving == \A p \in Walker : NothingYet(p) /\ Evidence(p)

(* A callback in hand says of its booking what is so.                      *)
ToldTrue ==
    callback # None =>
      /\ callback.event \in {"CARRIER_CANCELLED", "OTHERWISE_CANCELLED"}
           => callback.of \in calledOff
      /\ callback.event = "DELIVERED" => callback.of \in delivered

RiderInv == Standing /\ Moving /\ ToldTrue

LEMMA Bookings ==
    /\ \A b \in Booking : b = <<b[1], b[2]>> /\ b[1] \in Nat /\ b # None
    /\ \A b \in Booked : b[1] \in 1..MaxGen /\ b[2] \in Carrier
    /\ Pasted[1] = 0
BY Names DEF Booking, Booked, Pasted

LEMMA ReleasingKeeps ==
    ASSUME NEW o \in Order, NEW b \in Booking \cup {None}, NEW h \in SUBSET Booking
    PROVE  /\ Releasing(o, b, h).generation = o.generation
           /\ Releasing(o, b, h).inHouse = o.inHouse
           /\ Releasing(o, b, h).pending = o.pending
           /\ Releasing(o, b, h).needsRebook = o.needsRebook
<1>1. CASE b = None
  BY <1>1 DEF Releasing
<1>2. CASE b # None
  BY <1>2 DEF Releasing, Order
<1> QED BY <1>1, <1>2

LEMMA InitRiders == Init => RiderInv
BY DEF Init, RiderInv, Standing, OpenIsKnown, OpenIsInactive, OpenIsDown,
   BoundIsActive, ParkedIsUnflagged, InHouseAlone, OldRides, Apart,
   NoneIsLost, Moving, NothingYet, Evidence, ToldTrue, Open, Rides, NoWalk

(* Nothing of the order's claim, booking and riders changes; the flag may  *)
(* be cleared.                                                             *)
LEMMA SameStanding ==
    ASSUME Standing, UNCHANGED <<stamped, live, calledOff, delivered>>,
           order'.deliveryStatus = order.deliveryStatus,
           order'.dispatchStatus = order.dispatchStatus,
           order'.binding = order.binding, order'.generation = order.generation,
           order'.pending = order.pending, order'.inHouse = order.inHouse,
           order'.needsRebook => order.needsRebook
    PROVE  Standing'
<1>1. OpenIsKnown' /\ OpenIsInactive' /\ OpenIsDown'
  BY DEF Standing, OpenIsKnown, OpenIsInactive, OpenIsDown, Open, Rides, OnItsWay
<1>2. BoundIsActive' /\ ParkedIsUnflagged'
  BY DEF Standing, BoundIsActive, ParkedIsUnflagged, IsActiveDispatch,
     HasOwnedLiveBooking, OnItsWay
<1>3. InHouseAlone' /\ OldRides' /\ Apart' /\ NoneIsLost'
  BY DEF Standing, InHouseAlone, OldRides, Apart, NoneIsLost, Open, Rides
<1> QED BY <1>1, <1>2, <1>3 DEF Standing

(* A claim that ends without a rider.                                      *)
LEMMA EmptyStanding ==
    ASSUME Standing, live' = {}, UNCHANGED <<calledOff, delivered>>,
           order'.generation = order.generation, ~Open', ~order'.inHouse,
           order'.binding \in {order.binding, None}
    PROVE  Standing'
BY DEF Standing, OpenIsKnown, OpenIsInactive, OpenIsDown, BoundIsActive,
   ParkedIsUnflagged, InHouseAlone, OldRides, Apart, NoneIsLost, Open, Rides

LEMMA NobodyMoves ==
    ASSUME \A q \in Walker : ~Holding(q)'
    PROVE  Moving'
BY DEF Moving, NothingYet, Evidence, Holding

LEMMA MovesAlike ==
    ASSUME Moving, UNCHANGED <<stamped, live, calledOff, delivered>>,
           order'.generation = order.generation, order'.binding = order.binding,
           NEW p \in Walker, Leaves(p) \/ walk' = walk
    PROVE  Moving'
BY DEF Moving, NothingYet, Evidence, Leaves, Holding, Rides

LEMMA StillTold ==
    ASSUME ToldTrue, callback' = callback, calledOff \subseteq calledOff',
           delivered \subseteq delivered'
    PROVE  ToldTrue'
BY DEF ToldTrue

(* What a holder knows of the order.                                       *)
LEMMA HolderKnows ==
    ASSUME ClaimInv, RiderInv, NEW p \in Walker, Holding(p)
    PROVE  /\ Open /\ ~order.inHouse /\ walk[p].mine = order.generation
           /\ NothingYet(p) /\ Evidence(p)
BY DEF ClaimInv, OwnerHolds, FreshPending, Pending, Open, RiderInv, Standing,
   InHouseAlone, Moving

(* No rider is on the way when an order can be claimed.                    *)
LEMMA NoRiderWhenClaimable ==
    ASSUME TypeOK, RiderInv, Claimable, ~MayHoldRemoteBooking
    PROVE  live = {}
<1> SUFFICES ASSUME NEW b \in live PROVE FALSE
  OBVIOUS
<1>1. b # order.binding
  BY DEF RiderInv, Standing, BoundIsActive, Claimable
<1>2. Pending /\ b = <<order.generation, stamped>>
  BY <1>1 DEF RiderInv, Standing, NoneIsLost, Open, Claimable, Pending
<1>3. order.generation > 0 /\ order.pending # None
  BY <1>2 DEF RiderInv, Standing, OpenIsKnown, Open, Pending
<1>4. stamped # None
  <2>1. b \in Booking /\ order.generation \in Nat
    BY DEF TypeOK, Order
  <2>2. b \in Booked
    BY <1>2, <1>3, <2>1 DEF Booking, Pasted
  <2>3. stamped \in Carrier
    BY <1>2, <2>2 DEF Booked
  <2> QED BY ConstantsAssumption, <2>3 DEF Lane
<1> QED BY <1>2, <1>3, <1>4 DEF MayHoldRemoteBooking

LEMMA RidersAreKept ==
    ASSUME slips' = {}, TypeOK, LocalsFit, ClaimInv, RiderInv, [Next]_vars
    PROVE  RiderInv'
<1>1. /\ order \in Order /\ walk \in [Walker -> Walk] /\ None \notin Booking
      /\ live \subseteq Booking /\ calledOff \subseteq Booked
      /\ delivered \subseteq Booked /\ order.generation \in Nat
      /\ order.binding \in Booking \cup {None}
      /\ Standing /\ Moving /\ ToldTrue
  BY Names DEF TypeOK, RiderInv, Order
<1>2. \A p \in Walker : walk[p].binding \in Booking \cup {None}
                          /\ walk[p].released \in SUBSET Booking
  BY <1>1 DEF Walk
(* Steps that write neither the order nor what is known of riders.         *)
<1>3. ASSUME NEW p \in Walker, Leaves(p) \/ walk' = walk,
             UNCHANGED <<order, stamped, live, calledOff, delivered, callback>>
      PROVE  RiderInv'
  BY <1>1, <1>3, SameStanding, MovesAlike, StillTold DEF RiderInv
<1>4. ASSUME NEW p \in Walker,
             SaveFails(p) \/ Kill(p) \/ Tap(p) \/ WorkerCalls(p)
               \/ ClaimThrows(p) \/ ClaimAnswers(p) \/ Scan(p)
      PROVE  RiderInv'
  <2>1. UNCHANGED <<order, stamped, live, calledOff, delivered, callback>>
    BY <1>4 DEF SaveFails, Kill, Tap, WorkerCalls, ClaimThrows, ClaimAnswers, Scan,
       remote
  <2>2. Leaves(p)
    <3>1. CASE ~Scan(p)
      BY <1>4, <3>1, LeavesStops DEF SaveFails, Kill, Tap, WorkerCalls, ClaimThrows,
         ClaimAnswers
    <3>2. CASE Scan(p)
      BY <1>1, <3>2 DEF Scan, Leaves, Holding, NoWalk
    <3> QED BY <3>1, <3>2
  <2> QED BY <1>3, <2>1, <2>2
<1>5. ASSUME UNCHANGED <<order, stamped, walk, live, calledOff, delivered, callback>>
      PROVE  RiderInv'
  <2>1. Standing' /\ ToldTrue'
    BY <1>1, <1>5, SameStanding, StillTold
  <2>2. Moving'
    BY <1>1, <1>5 DEF Moving, NothingYet, Evidence, Rides
  <2> QED BY <2>1, <2>2 DEF RiderInv
<1>6. ASSUME LeaseExpires \/ UNCHANGED vars PROVE RiderInv'
  BY <1>5, <1>6 DEF LeaseExpires, vars, remote
<1>7. ASSUME NEW w \in Worker, ClearFlag(w) \/ CountAttempt(w) PROVE RiderInv'
  <2>1. w \in Walker /\ UNCHANGED <<stamped, live, calledOff, delivered, callback>>
    BY <1>7 DEF ClearFlag, CountAttempt, Walker, remote
  <2>2. Leaves(w)
    BY <1>7, <2>1, LeavesStops DEF ClearFlag, CountAttempt
  <2>3. /\ order'.dispatchStatus = order.dispatchStatus
        /\ order'.generation = order.generation
        /\ order'.deliveryStatus = order.deliveryStatus
        /\ order'.binding = order.binding /\ order'.pending = order.pending
        /\ order'.inHouse = order.inHouse
        /\ order'.needsRebook => order.needsRebook
    BY <1>1, <1>7 DEF ClearFlag, CountAttempt, Order
  <2> QED BY <1>1, <2>1, <2>2, <2>3, SameStanding, MovesAlike, StillTold DEF RiderInv
<1>8. ASSUME Close PROVE RiderInv'
  <2>1. UNCHANGED <<stamped, walk, live, calledOff, delivered, callback>>
    BY <1>8 DEF Close, remote
  <2>2. /\ order'.dispatchStatus = order.dispatchStatus
        /\ order'.generation = order.generation
        /\ order'.deliveryStatus = order.deliveryStatus
        /\ order'.binding = order.binding /\ order'.pending = order.pending
        /\ order'.inHouse = order.inHouse
        /\ order'.needsRebook = order.needsRebook
    BY <1>1, <1>8 DEF Close, Order
  <2>3. Standing' /\ ToldTrue'
    BY <1>1, <2>1, <2>2, SameStanding, StillTold
  <2>4. Moving'
    BY <1>1, <2>1, <2>2 DEF Moving, NothingYet, Evidence, Rides
  <2> QED BY <2>3, <2>4 DEF RiderInv
(* The walk.                                                               *)
<1>9. ASSUME (\E p \in Walker : ClaimParks(p)) \/ Sweep PROVE RiderInv'
  <2>1. Pending /\ ~FreshPending /\ ParkClaim /\ order.pending # None
    BY <1>9 DEF ClaimParks, Claimable, Sweep, MayHoldRemoteBooking, FreshPending
  <2>2. UNCHANGED <<stamped, live, calledOff, delivered, callback>>
    BY <1>9 DEF ClaimParks, Sweep, remote
  <2>3. /\ order'.dispatchStatus = "needs_reconciliation"
        /\ order'.generation = order.generation
        /\ order'.deliveryStatus = order.deliveryStatus
        /\ order'.binding = order.binding /\ order'.pending = order.pending
        /\ order'.inHouse = order.inHouse /\ order'.needsRebook = FALSE
    BY <1>1, <2>1 DEF ParkClaim, Order
  <2>4. Open /\ order.binding \notin live
    BY <1>1, <2>1 DEF Open, Pending, Standing, OpenIsDown
  <2>5. OpenIsKnown' /\ OpenIsInactive' /\ OpenIsDown'
    BY <1>1, <2>2, <2>3, <2>4 DEF Standing, OpenIsKnown, OpenIsInactive, OpenIsDown,
       Open, OnItsWay, Rides
  <2>6. BoundIsActive' /\ ParkedIsUnflagged' /\ InHouseAlone' /\ OldRides' /\ Apart'
    BY <1>1, <2>2, <2>3, <2>4 DEF Standing, BoundIsActive, ParkedIsUnflagged,
       InHouseAlone, OldRides, Apart, Rides
  <2>7. NoneIsLost'
    BY <1>1, <2>2, <2>3, <2>4 DEF Standing, NoneIsLost, Open
  <2>8. \A q \in Walker : ~Holding(q)'
    <3>1. (\E q \in Walker : Leaves(q)) \/ walk' = walk
      BY <1>9, LeavesStops DEF ClaimParks, Sweep
    <3> QED BY <2>1, <3>1, NobodyHolds, LeavesEnds DEF Holding
  <2> QED BY <1>1, <2>2, <2>5, <2>6, <2>7, <2>8, NobodyMoves, StillTold
      DEF RiderInv, Standing
<1>10. ASSUME NEW p \in Walker, Claim(p) PROVE RiderInv'
  <2> DEFINE g == order.generation + 1
  <2>1. live = {} /\ live' = {} /\ UNCHANGED <<calledOff, delivered, callback>>
    BY <1>1, <1>10, NoRiderWhenClaimable DEF Claim, remote, RiderInv
  <2>2. /\ order'.dispatchStatus = "dispatch_pending"
        /\ order'.generation = g /\ order'.pending = <<g, None>>
        /\ order'.deliveryStatus = order.deliveryStatus
        /\ order'.binding = order.binding
        /\ order'.inHouse = order.inHouse
    BY <1>1, <1>10 DEF Claim, Order
  <2>3. \A b \in Rides' : b[1] \in Nat /\ b[1] < g
    <3>1. \A b \in Rides : b[1] \in Nat
      BY <1>1, Bookings DEF Rides, Booking
    <3>2. Rides' = Rides
      BY <2>1, <2>2 DEF Rides
    <3> QED BY <1>1, <3>1, <3>2 DEF Standing, OldRides
  <2>4. <<g, None>> # None
    <3>1. g \in 1..MaxGen
      BY ConstantsAssumption, <1>1, <1>10 DEF Claim, Order
    <3> QED BY ConstantsAssumption, <3>1 DEF Correlation
  <2>5. OpenIsKnown'
    BY <1>1, <2>2, <2>3, <2>4 DEF OpenIsKnown
  <2>6. OpenIsInactive'
    BY <1>10, <2>2 DEF Claim, Claimable, IsActiveDispatch, OpenIsInactive, OnItsWay
  <2>7. ~order.inHouse
    BY <1>1, <1>10 DEF Claim, Claimable, Refused, InHouseActive, Standing,
       InHouseAlone, OnItsWay
  <2>8. OpenIsDown' /\ BoundIsActive' /\ ParkedIsUnflagged' /\ InHouseAlone'
          /\ OldRides' /\ Apart' /\ NoneIsLost'
    BY <1>1, <2>1, <2>2, <2>3, <2>7 DEF OpenIsDown, BoundIsActive, ParkedIsUnflagged,
       InHouseAlone, OldRides, Apart, NoneIsLost
  <2>9. \A q \in Walker \ {p} : ~Holding(q)'
    <3>1. \A q \in Walker : ~Holding(q)
      BY <1>10, NobodyHolds DEF Claim, Claimable
    <3> QED BY <1>1, <1>10, <3>1 DEF Claim, Holding
  <2>10. Moving'
    <3>1. walk'[p].step = "quoting"
      BY <1>1, <1>10 DEF Claim, Walk
    <3>2. \A q \in Walker : NothingYet(q)'
      BY <2>1, <2>2, <2>3 DEF NothingYet
    <3>3. \A q \in Walker : Evidence(q)'
      BY <2>9, <3>1 DEF Evidence, Holding
    <3> QED BY <3>2, <3>3 DEF Moving
  <2> QED BY <1>1, <2>1, <2>5, <2>6, <2>8, <2>10, StillTold DEF RiderInv, Standing
<1>11. ASSUME NEW p \in Walker, Stamp(p) PROVE RiderInv'
  <2>1. Holding(p) /\ walk[p].step \in {"quoting", "walking"}
    BY <1>11 DEF Stamp, Walking, Holding
  <2>2. /\ Open /\ walk[p].mine = order.generation
        /\ live = {} /\ \A b \in Rides : b[1] < order.generation
    BY <1>1, <2>1, HolderKnows DEF NothingYet
  <2>3. UNCHANGED <<order, live, calledOff, delivered, callback>>
    BY <1>11 DEF Stamp, remote
  <2>4. PICK lane \in walk[p].todo :
          /\ stamped' = lane
          /\ walk' = [walk EXCEPT ![p].step = "posting", ![p].at = lane,
                                  ![p].todo = @ \ {lane}]
    BY <1>11, <2>2 DEF Stamp
  <2>5. \A b \in Rides : b[1] \in Nat
    BY <1>1, Bookings DEF Rides, Booking
  <2>6. OpenIsKnown'
    BY <1>1, <2>2, <2>3, <2>5 DEF Standing, OpenIsKnown, Open, Rides
  <2>7. NoneIsLost'
    BY <2>2, <2>3 DEF NoneIsLost
  <2>8. OpenIsInactive' /\ OpenIsDown' /\ BoundIsActive'
    BY <1>1, <2>2, <2>3 DEF Standing, OpenIsInactive, OpenIsDown, BoundIsActive,
       Open, OnItsWay
  <2>9. ParkedIsUnflagged' /\ InHouseAlone' /\ OldRides' /\ Apart'
    BY <1>1, <2>3 DEF Standing, ParkedIsUnflagged, InHouseAlone, OldRides, Apart,
       Open, Rides
  <2>10. Moving'
    <3>1. walk'[p].at = lane /\ \A q \in Walker \ {p} : walk'[q] = walk[q]
      BY <1>1, <2>4 DEF Walk
    <3>2. \A q \in Walker : NothingYet(q)'
      BY <2>2, <2>3 DEF NothingYet, Rides
    <3>3. \A q \in Walker \ {p} : ~Holding(q)
      BY <2>1, NobodyElse
    <3>4. \A q \in Walker : Evidence(q)'
      BY <2>4, <3>1, <3>3 DEF Evidence, Holding
    <3> QED BY <3>2, <3>4 DEF Moving
  <2> QED BY <1>1, <2>3, <2>6, <2>7, <2>8, <2>9, <2>10, StillTold
      DEF RiderInv, Standing
<1>12. ASSUME NEW p \in Walker, PostRefused(p) PROVE RiderInv'
  <2>1. UNCHANGED <<order, stamped, live, calledOff, delivered, callback>>
    BY <1>12 DEF PostRefused
  <2>2. walk[p].step = "posting" /\ walk'[p].step = "walking"
          /\ \A q \in Walker \ {p} : walk'[q] = walk[q]
    BY <1>1, <1>12 DEF PostRefused, At, Walk
  <2>3. Standing' /\ ToldTrue'
    BY <1>1, <2>1, SameStanding, StillTold
  <2>4. Moving'
    BY <1>1, <2>1, <2>2 DEF Moving, NothingYet, Evidence, Rides
  <2> QED BY <2>3, <2>4 DEF RiderInv
<1>13. ASSUME NEW p \in Walker, PostBooked(p) \/ PostUnknown(p) PROVE RiderInv'
  <2>1. Holding(p) /\ walk[p].step = "posting" /\ walk[p].at \in Carrier
    BY <1>13 DEF PostBooked, PostUnknown, At, Holding
  <2>2. /\ Open /\ walk[p].mine = order.generation /\ stamped = walk[p].at
        /\ live = {} /\ \A b \in Rides : b[1] < order.generation
    BY <1>1, <2>1, HolderKnows DEF NothingYet, Evidence
  <2>3. UNCHANGED <<order, stamped, calledOff, delivered, callback>>
    BY <1>13 DEF PostBooked, PostUnknown
  <2>4. live' \subseteq {Mine(p)} /\ Mine(p) = <<order.generation, stamped>>
    BY <1>13, <2>2 DEF PostBooked, PostUnknown, Mine
  <2>5. /\ Mine(p)[1] = order.generation /\ Mine(p)[2] = stamped
        /\ Mine(p) \notin Rides
    BY <1>1, <2>2, <2>4
  <2>6. order.binding # Mine(p)
    <3>1. Mine(p) \in Booking
      BY <1>1, <2>1, Names DEF LocalsFit, LocalFits, Mine, Booking
    <3> QED BY <1>1, <2>5, <3>1 DEF Rides
  <2>7. Rides' \subseteq Rides \cup {Mine(p)}
    BY <2>2, <2>3, <2>4 DEF Rides
  <2>8. OpenIsKnown'
    BY <1>1, <2>2, <2>3, <2>5, <2>7 DEF Standing, OpenIsKnown, Open
  <2>9. OpenIsDown' /\ BoundIsActive'
    BY <2>3, <2>4, <2>6 DEF OpenIsDown, BoundIsActive
  <2>10. OpenIsInactive' /\ ParkedIsUnflagged' /\ InHouseAlone'
    BY <1>1, <2>3 DEF Standing, OpenIsInactive, ParkedIsUnflagged, InHouseAlone, Open,
       OnItsWay
  <2>11. OldRides'
    BY <1>1, <2>3, <2>5, <2>7 DEF Standing, OldRides
  <2>12. Apart'
    BY <1>1, <2>3, <2>4, <2>5 DEF Apart, Rides
  <2>13. NoneIsLost'
    BY <2>2, <2>3, <2>4 DEF NoneIsLost, Open
  <2>14. Moving'
    <3>1. walk'[p].step \in {"booked", "unknown"} /\ walk'[p].at = walk[p].at
      BY <1>1, <1>13 DEF PostBooked, PostUnknown, EndWalk, Walk
    <3>2. \A q \in Walker \ {p} : walk'[q] = walk[q]
      BY <1>1, <1>13 DEF PostBooked, PostUnknown, EndWalk
    <3>3. \A q \in Walker \ {p} : ~Holding(q)
      BY <1>1, <2>1, NobodyElse
    <3> QED BY <2>2, <2>3, <3>1, <3>2, <3>3 DEF Moving, NothingYet, Evidence, Holding
  <2> QED BY <1>1, <2>3, <2>8, <2>9, <2>10, <2>11, <2>12, <2>13, <2>14, StillTold
      DEF RiderInv, Standing
(* The settling writes.                                                    *)
<1>14. ASSUME NEW p \in Walker, Holding(p), Leaves(p), UNCHANGED callback,
              Standing', UNCHANGED <<calledOff, delivered>>
       PROVE  RiderInv'
  BY <1>1, <1>14, NobodyElse, LeavesEnds, NobodyMoves, StillTold DEF RiderInv
<1>15. ASSUME NEW p \in Walker,
              walk[p].step \in {"quoting", "walking", "posting"}, Leaves(p),
              UNCHANGED <<calledOff, delivered, callback>>, live' \subseteq live,
              order'.generation = order.generation, order'.inHouse = order.inHouse,
              ~Open', order'.binding \in {order.binding, None}
       PROVE  RiderInv'
  <2>1. Holding(p)
    BY <1>15 DEF Holding
  <2>2. live = {} /\ ~order.inHouse
    BY <1>1, <1>15, <2>1, HolderKnows DEF NothingYet
  <2> QED BY <1>1, <1>14, <1>15, <2>1, <2>2, EmptyStanding
<1>16. ASSUME NEW p \in Walker, ReleaseIdle(p) PROVE RiderInv'
  <2>1. /\ walk[p].step = "quoting"
        /\ UNCHANGED <<live, calledOff, delivered, callback>>
    BY <1>16 DEF ReleaseIdle, At, remote
  <2>2. /\ order'.generation = order.generation /\ order'.inHouse = order.inHouse
        /\ order'.dispatchStatus = "none" /\ order'.binding = order.binding
    BY <1>1, <1>16 DEF ReleaseIdle, Order
  <2> QED BY <1>15, <1>16, <2>1, <2>2, LeavesStops DEF ReleaseIdle, Open
<1>17. ASSUME NEW p \in Walker, NEW o \in Order,
              o.generation = order.generation, o.inHouse = order.inHouse,
              o.binding = order.binding, o.deliveryStatus = order.deliveryStatus,
              Settle(p, Releasing(o, walk[p].binding, walk[p].released))
       PROVE  /\ order'.generation = order.generation
              /\ order'.inHouse = order.inHouse
              /\ order'.binding \in {order.binding, None}
              /\ order'.dispatchStatus = o.dispatchStatus
              /\ order'.deliveryStatus = order.deliveryStatus
              /\ order'.pending = o.pending /\ order'.needsRebook = o.needsRebook
              /\ UNCHANGED <<stamped, calledOff, delivered, callback>>
  BY <1>1, <1>2, <1>17, ReleasingUnbinds, ReleasingKeeps DEF Settle
<1>18. ASSUME NEW p \in Walker, SaveManual(p) \/ SaveFailed(p) PROVE RiderInv'
  <2>1. walk[p].step \in {"quoting", "walking", "posting"} /\ live' \subseteq live
    BY <1>18 DEF SaveManual, SaveFailed, At, Walking, LetGo
  <2>2. PICK o \in Order :
          /\ o.generation = order.generation /\ o.inHouse = order.inHouse
          /\ o.binding = order.binding /\ o.deliveryStatus = order.deliveryStatus
          /\ o.dispatchStatus \in {"manual_pending", "dispatch_failed"}
          /\ Settle(p, Releasing(o, walk[p].binding, walk[p].released))
    <3>1. CASE SaveManual(p)
      <4> DEFINE o == [order EXCEPT !.dispatchStatus = "manual_pending",
                         !.needsRebook = FALSE, !.rebookTrigger = "none"]
      <4>1. /\ o \in Order
            /\ o.generation = order.generation /\ o.inHouse = order.inHouse
            /\ o.binding = order.binding /\ o.deliveryStatus = order.deliveryStatus
            /\ o.dispatchStatus = "manual_pending"
        BY <1>1, Words DEF Order
      <4>2. Settle(p, Releasing(o, walk[p].binding, walk[p].released))
        BY <3>1 DEF SaveManual
      <4> HIDE DEF o
      <4> QED BY <4>1, <4>2
    <3>2. CASE SaveFailed(p)
      <4>1. order.rebookTrigger \in Trigger /\ "dispatch_failed" \in Trigger
        BY <1>1, Words DEF Order
      <4>2. PICK t \in Trigger :
              Settle(p, Releasing([order EXCEPT !.dispatchStatus = "dispatch_failed",
                                                !.needsRebook = TRUE,
                                                !.rebookTrigger = t],
                                  walk[p].binding, walk[p].released))
        <5>1. CASE walk[p].calledOff
          BY <3>2, <4>1, <5>1 DEF SaveFailed
        <5>2. CASE ~walk[p].calledOff
          BY <3>2, <4>1, <5>2 DEF SaveFailed
        <5> QED BY <5>1, <5>2
      <4> DEFINE o == [order EXCEPT !.dispatchStatus = "dispatch_failed",
                                    !.needsRebook = TRUE, !.rebookTrigger = t]
      <4>3. /\ o \in Order
            /\ o.generation = order.generation /\ o.inHouse = order.inHouse
            /\ o.binding = order.binding /\ o.deliveryStatus = order.deliveryStatus
            /\ o.dispatchStatus = "dispatch_failed"
        BY <1>1, Words DEF Order
      <4>4. Settle(p, Releasing(o, walk[p].binding, walk[p].released))
        BY <4>2
      <4> HIDE DEF o
      <4> QED BY <4>3, <4>4
    <3> QED BY <1>18, <3>1, <3>2
  <2>3. Leaves(p)
    BY <1>18, LeavesStops DEF SaveManual, SaveFailed
  <2> QED BY <1>15, <1>17, <2>1, <2>2, <2>3 DEF Open
<1>19. ASSUME NEW p \in Walker, SaveUnknown(p) PROVE RiderInv'
  <2>1. Holding(p) /\ walk[p].step = "unknown"
    BY <1>19 DEF SaveUnknown, At, Holding
  <2>2. /\ Open /\ ~order.inHouse /\ walk[p].mine = order.generation
        /\ stamped = walk[p].at
    BY <1>1, <2>1, HolderKnows DEF Evidence
  <2>3. Mine(p) \in Correlation /\ walk[p].mine \in 0..MaxGen
          /\ Mine(p)[1] = order.generation /\ order.generation > 0
    BY <2>1, <2>2, Names DEF LocalsFit, LocalFits, Mine, Lane
  <2> DEFINE o == [order EXCEPT !.dispatchStatus = "needs_reconciliation",
                     !.generation = walk[p].mine, !.pending = Mine(p),
                     !.needsRebook = FALSE, !.rebookTrigger = "none"]
  <2>4. /\ o \in Order
        /\ o.generation = order.generation /\ o.inHouse = order.inHouse
        /\ o.binding = order.binding /\ o.deliveryStatus = order.deliveryStatus
        /\ o.dispatchStatus = "needs_reconciliation" /\ o.pending = Mine(p)
        /\ o.needsRebook = FALSE
    BY <1>1, <2>2, <2>3, Words DEF Order
  <2>5. Settle(p, Releasing(o, walk[p].binding, walk[p].released))
    BY <1>19 DEF SaveUnknown
  <2> HIDE DEF o
  <2>6. /\ order'.generation = order.generation /\ order'.inHouse = order.inHouse
        /\ order'.binding \in {order.binding, None}
        /\ order'.dispatchStatus = "needs_reconciliation"
        /\ order'.deliveryStatus = order.deliveryStatus
        /\ order'.pending = Mine(p) /\ order'.needsRebook = FALSE
        /\ UNCHANGED <<stamped, calledOff, delivered, callback>>
    BY <1>17, <2>4, <2>5
  <2>7. live' \subseteq live
    BY <1>19 DEF SaveUnknown, LetGo
  <2>8. Rides' \subseteq Rides
    BY <2>6, <2>7 DEF Rides
  <2>9. OpenIsKnown'
    <3>1. Mine(p) # None
      BY <2>3, ConstantsAssumption
    <3> QED BY <1>1, <2>2, <2>3, <2>6, <2>8, <3>1 DEF Standing, OpenIsKnown
  <2>10. OpenIsInactive' /\ ParkedIsUnflagged' /\ InHouseAlone'
    BY <1>1, <2>2, <2>6 DEF Standing, OpenIsInactive, ParkedIsUnflagged, InHouseAlone,
       OnItsWay
  <2>11. OpenIsDown' /\ BoundIsActive'
    BY <1>1, <2>2, <2>6, <2>7 DEF Standing, OpenIsDown, BoundIsActive
  <2>12. OldRides' /\ Apart'
    BY <1>1, <2>6, <2>7, <2>8 DEF Standing, OldRides, Apart
  <2>13. NoneIsLost'
    BY <1>1, <2>2, <2>6, <2>7 DEF Standing, NoneIsLost, Open, OpenIsDown
  <2>14. Leaves(p)
    BY <1>19, LeavesStops DEF SaveUnknown
  <2> QED BY <1>14, <2>1, <2>6, <2>9, <2>10, <2>11, <2>12, <2>13, <2>14 DEF Standing
<1>20. ASSUME NEW p \in Walker, SaveBooked(p) PROVE RiderInv'
  <2>1. Holding(p) /\ walk[p].step = "booked"
    BY <1>20 DEF SaveBooked, At, Holding
  <2>2. /\ Open /\ ~order.inHouse /\ walk[p].mine = order.generation
        /\ stamped = walk[p].at
    BY <1>1, <2>1, HolderKnows DEF Evidence
  <2>3. Mine(p) \in Booking /\ Mine(p) = <<order.generation, stamped>>
          /\ Mine(p)[1] = order.generation
    BY <2>1, <2>2, Names DEF LocalsFit, LocalFits, Mine
  <2>4. /\ order'.generation = order.generation /\ order'.inHouse = order.inHouse
        /\ order'.binding = Mine(p) /\ order'.dispatchStatus = "dispatched"
        /\ order'.deliveryStatus = "dispatched" /\ order'.needsRebook = FALSE
        /\ UNCHANGED <<stamped, live, calledOff, delivered, callback>>
    BY <1>1, <1>20, <2>2 DEF SaveBooked, Settle, Order
  <2>5. BoundIsActive'
    BY <1>1, <2>3, <2>4 DEF BoundIsActive, IsActiveDispatch, HasOwnedLiveBooking
  <2>6. OpenIsKnown' /\ OpenIsInactive' /\ OpenIsDown' /\ ParkedIsUnflagged'
          /\ InHouseAlone'
    BY <2>2, <2>4 DEF Open, OpenIsKnown, OpenIsInactive, OpenIsDown,
       ParkedIsUnflagged, InHouseAlone
  <2>7. OldRides'
    BY <1>1, <2>3, <2>4 DEF Standing, OldRides, Rides
  <2>8. Apart' /\ NoneIsLost'
    BY <1>1, <2>2, <2>3, <2>4 DEF Standing, Apart, NoneIsLost, OpenIsDown
  <2>9. Leaves(p)
    BY <1>20, LeavesStops DEF SaveBooked
  <2> QED BY <1>14, <2>1, <2>4, <2>5, <2>6, <2>7, <2>8, <2>9 DEF Standing
(* The staff.                                                              *)
<1>21. ASSUME walk' = walk, ~FreshPending, UNCHANGED <<calledOff, delivered, callback>>,
              Standing'
       PROVE  RiderInv'
  BY <1>1, <1>21, NobodyHolds, NobodyMoves, StillTold DEF RiderInv, Holding
<1>22. ASSUME Paste PROVE RiderInv'
  <2>1. /\ order'.binding = Pasted /\ order'.dispatchStatus = "dispatched"
        /\ order'.deliveryStatus = "dispatched" /\ order'.needsRebook = FALSE
        /\ order'.generation = order.generation /\ order'.inHouse = order.inHouse
        /\ live' = {Pasted}
        /\ UNCHANGED <<walk, calledOff, delivered, callback>> /\ ~FreshPending
    BY <1>1, <1>22 DEF Paste, Order
  <2>2. ~order.inHouse
    BY <1>1, <1>22 DEF Paste, InHouseActive, OnItsWay, Standing, InHouseAlone
  <2>3. Pasted \notin Booked /\ Pasted # None /\ Pasted[1] = 0
    BY Bookings, Names, ConstantsAssumption DEF Booked, Pasted
  <2>4. BoundIsActive' /\ NoneIsLost'
    BY <2>1, <2>3 DEF BoundIsActive, IsActiveDispatch, HasOwnedLiveBooking,
       NoneIsLost
  <2>5. OpenIsKnown' /\ OpenIsInactive' /\ OpenIsDown' /\ ParkedIsUnflagged'
          /\ InHouseAlone'
    BY <2>1, <2>2 DEF Open, OpenIsKnown, OpenIsInactive, OpenIsDown,
       ParkedIsUnflagged, InHouseAlone
  <2>6. OldRides' /\ Apart'
    BY <1>1, <2>1, <2>3 DEF Standing, OldRides, Apart, Rides
  <2> QED BY <1>21, <2>1, <2>4, <2>5, <2>6 DEF Standing
<1>23. ASSUME Cancel PROVE RiderInv'
  <2>1. ~Open /\ order.binding # None
    BY <1>1, <1>23 DEF Cancel, IsActiveDispatch, HasOwnedLiveBooking, Standing,
       OpenIsInactive, Open
  <2> DEFINE o == [order EXCEPT !.deliveryStatus = "rider_cancelled",
                                !.dispatchStatus = "cancelled_by_store",
                                !.needsRebook = TRUE,
                                !.rebookTrigger = "staff_cancelled"]
  <2>2. /\ o \in Order /\ o.dispatchStatus = "cancelled_by_store"
        /\ o.generation = order.generation /\ o.inHouse = order.inHouse
        /\ o.binding = order.binding
    BY <1>1, Words DEF Order
  <2>3. order.released \in SUBSET Booking
    BY <1>1 DEF Order
  <2>4. order' = Releasing(o, order.binding, order.released)
    BY <1>23 DEF Cancel
  <2> HIDE DEF o
  <2>5. /\ order'.generation = order.generation /\ order'.inHouse = order.inHouse
        /\ order'.dispatchStatus = "cancelled_by_store"
        /\ order'.binding \in {order.binding, None}
    BY <1>1, <2>2, <2>3, <2>4, ReleasingUnbinds, ReleasingKeeps
  <2>6. live' = {}
    BY <1>1, <1>23, <2>1 DEF Cancel, LetGo, Standing, NoneIsLost, Open
  <2>7. ~order.inHouse
    BY <1>1, <2>1 DEF Standing, InHouseAlone
  <2> QED BY <1>1, <1>21, <1>23, <2>1, <2>5, <2>6, <2>7, EmptyStanding
      DEF Cancel, Open, FreshPending, Pending
<1>24. ASSUME AssignInHouse PROVE RiderInv'
  <2>1. /\ order'.binding = None /\ order'.dispatchStatus = order.dispatchStatus
        /\ order'.deliveryStatus = "dispatched"
        /\ order'.generation = order.generation
        /\ UNCHANGED <<walk, live, calledOff, delivered, callback>>
        /\ ~FreshPending /\ ~Open /\ order.binding = None
    BY <1>1, <1>24 DEF AssignInHouse, Order, remote, FreshPending, Pending, Open
  <2>2. live = {}
    BY <1>1, <2>1, ConstantsAssumption DEF Standing, NoneIsLost, Open
  <2>3. InHouseAlone'
    BY <2>1 DEF InHouseAlone, Open
  <2>4. OpenIsKnown' /\ OpenIsInactive' /\ OpenIsDown' /\ ParkedIsUnflagged'
    BY <2>1 DEF Open, OpenIsKnown, OpenIsInactive, OpenIsDown, ParkedIsUnflagged
  <2>5. BoundIsActive' /\ NoneIsLost' /\ Apart' /\ OldRides'
    BY <1>1, <2>1, <2>2 DEF Standing, BoundIsActive, NoneIsLost, Apart, OldRides,
       Rides
  <2> QED BY <1>21, <2>1, <2>3, <2>4, <2>5 DEF Standing
(* The carriers.                                                           *)
<1>25. ASSUME NEW b \in Booked, CallOff(b) \/ Deliver(b) PROVE RiderInv'
  <2>1. /\ UNCHANGED <<order, stamped, walk, callback>> /\ b \in live
        /\ live' = live \ {b} /\ calledOff \subseteq calledOff'
        /\ delivered \subseteq delivered'
        /\ calledOff' \cup delivered' = calledOff \cup delivered \cup {b}
    BY <1>25 DEF CallOff, Deliver
  <2>2. Rides' = Rides
    BY <2>1 DEF Rides
  <2>3. OpenIsKnown' /\ OpenIsInactive' /\ OpenIsDown'
    BY <1>1, <2>1, <2>2 DEF Standing, OpenIsKnown, OpenIsInactive, OpenIsDown, Open,
       OnItsWay
  <2>4. BoundIsActive' /\ ParkedIsUnflagged' /\ InHouseAlone'
    BY <1>1, <2>1 DEF Standing, BoundIsActive, ParkedIsUnflagged, InHouseAlone,
       IsActiveDispatch, HasOwnedLiveBooking, OnItsWay, Open
  <2>5. OldRides' /\ Apart' /\ NoneIsLost'
    BY <1>1, <2>1, <2>2 DEF Standing, OldRides, Apart, NoneIsLost, Open
  <2>6. Moving'
    BY <1>1, <2>1, <2>2 DEF Moving, NothingYet, Evidence
  <2> QED BY <1>1, <2>1, <2>3, <2>4, <2>5, <2>6, StillTold DEF RiderInv, Standing
<1>26. ASSUME UNCHANGED <<order, stamped, walk, live, calledOff, delivered>>, ToldTrue'
       PROVE  RiderInv'
  <2>1. Standing'
    BY <1>1, <1>26, SameStanding
  <2>2. Moving'
    BY <1>1, <1>26 DEF Moving, NothingYet, Evidence, Rides
  <2> QED BY <1>26, <2>1, <2>2 DEF RiderInv
<1>27. ASSUME CallbackLost PROVE RiderInv'
  BY <1>26, <1>27 DEF CallbackLost, remote, ToldTrue
<1>28. ASSUME NEW b \in Booked, NEW event \in Event, CallbackRead(b, event)
       PROVE  RiderInv'
  <2>1. ToldTrue'
    BY <1>28 DEF CallbackRead, Sends, ToldTrue, remote
  <2> QED BY <1>26, <1>28, <2>1 DEF CallbackRead, remote
<1>29. ASSUME CallbackWrite PROVE RiderInv'
  <2>1. /\ order.binding = callback.of /\ ~Revives(callback.event)
        /\ callback \in Callback /\ order' = Patched(order, callback.event)
        /\ callback' = None
        /\ UNCHANGED <<stamped, walk, live, calledOff, delivered>>
    BY <1>29 DEF CallbackWrite, TypeOK
  <2>2. order.binding # None /\ order.binding \in Booked /\ callback.event \in Event
    BY <1>1, <2>1, ConstantsAssumption DEF Callback, Booking
  <2>3. order.deliveryStatus \in DeliveryStatus \ {"none"}
    BY <1>1, <2>2 DEF Order, ClaimInv, Calm, NoneIsUnbound
  <2>4. ~order.inHouse
    BY <1>1, <2>2 DEF Standing, InHouseAlone
  <2>5. /\ order'.dispatchStatus = order.dispatchStatus
        /\ order'.generation = order.generation
        /\ order'.binding = order.binding /\ order'.pending = order.pending
        /\ order'.inHouse = order.inHouse
    BY <1>1, <2>1, <2>2 DEF Patched, Event, Order
  <2>6. Rides' = Rides
    BY <2>1, <2>5 DEF Rides
  <2>7. ASSUME callback.event \in {"DRIVER_ALLOCATED", "STARTED_DELIVERY"}
        PROVE  Standing'
    <3>1. OnItsWay
      BY <2>1, <2>3, <2>7 DEF Revives, OnItsWay, DeliveryStatus
    <3>2. ~Open
      BY <1>1, <2>2, <3>1 DEF Standing, OpenIsInactive
    <3>3. order'.deliveryStatus \in {"dispatched", "in_transit"}
      BY <1>1, <2>1, <2>7 DEF Patched, Order
    <3>4. OpenIsKnown' /\ OpenIsInactive' /\ OpenIsDown' /\ ParkedIsUnflagged'
            /\ InHouseAlone'
      BY <2>4, <2>5, <3>2 DEF Open, OpenIsKnown, OpenIsInactive, OpenIsDown,
         ParkedIsUnflagged, InHouseAlone
    <3>5. BoundIsActive'
      BY <2>2, <2>5, <3>3 DEF BoundIsActive, IsActiveDispatch, OnItsWay
    <3>6. OldRides' /\ Apart' /\ NoneIsLost'
      BY <1>1, <2>1, <2>5, <2>6 DEF Standing, OldRides, Apart, NoneIsLost, Open
    <3> QED BY <3>4, <3>5, <3>6 DEF Standing
  <2>8. ASSUME callback.event = "ARRIVED_AT_PICKUP" PROVE Standing'
    <3>1. order' = order
      BY <2>1, <2>8 DEF Patched
    <3> QED BY <1>1, <2>1, <3>1, SameStanding
  <2>9. ASSUME callback.event \in
                 {"DELIVERED", "CARRIER_CANCELLED", "OTHERWISE_CANCELLED"}
        PROVE  Standing'
    <3>1. order.binding \notin live
      BY <1>1, <2>1, <2>9, <1>29 DEF ToldTrue, Standing, Apart, CallbackWrite
    <3>2. order'.deliveryStatus \notin {"dispatched", "in_transit"}
      BY <1>1, <2>1, <2>9 DEF Patched, Order
    <3>3. OpenIsKnown' /\ OpenIsInactive' /\ OpenIsDown'
      BY <1>1, <2>1, <2>5, <2>6, <3>1, <3>2 DEF Standing, OpenIsKnown, OpenIsInactive,
         OpenIsDown, Open, OnItsWay
    <3>4. BoundIsActive' /\ ParkedIsUnflagged' /\ InHouseAlone'
      BY <2>1, <2>2, <2>4, <2>5, <3>1 DEF BoundIsActive, ParkedIsUnflagged, InHouseAlone
    <3>5. OldRides' /\ Apart' /\ NoneIsLost'
      BY <1>1, <2>1, <2>5, <2>6 DEF Standing, OldRides, Apart, NoneIsLost, Open
    <3> QED BY <3>3, <3>4, <3>5 DEF Standing
  <2>10. Standing'
    BY <2>2, <2>7, <2>8, <2>9 DEF Event
  <2>11. Moving'
    BY <1>1, <2>1, <2>5, <2>6 DEF Moving, NothingYet, Evidence
  <2> QED BY <2>1, <2>10, <2>11 DEF RiderInv, ToldTrue
<1>30. ASSUME NEW b \in Booked, NEW event \in Event, CallbackBinds(b, event)
       PROVE  RiderInv'
  <2>1. /\ Sends(b, event) /\ order.binding = None
        /\ order.dispatchStatus = "needs_reconciliation"
        /\ order.pending \in {<<b[1], None>>, b}
        /\ Ignored(event) => ~Contained
        /\ UNCHANGED <<stamped, walk, live, calledOff, delivered, callback>>
    BY <1>30 DEF CallbackBinds
  <2>2. /\ order.pending[1] = order.generation /\ ~order.inHouse /\ ~order.needsRebook
        /\ \A r \in Rides : r[1] = order.generation => r[2] = stamped
    BY <1>1, <2>1 DEF Standing, OpenIsKnown, InHouseAlone, ParkedIsUnflagged, Open
  <2>3. b \in Rides /\ b[1] = order.generation /\ b # None
    BY <1>1, <2>1, <2>2, Bookings DEF Sends, Rides, Booking
  <2>4. b = <<order.generation, stamped>>
    BY <2>2, <2>3, Bookings DEF Booking
  <2>5. live \subseteq {b}
    BY <1>1, <2>1, <2>4, ConstantsAssumption DEF Standing, NoneIsLost
  <2>6. /\ order'.dispatchStatus = "dispatched" /\ order'.binding = b
        /\ order'.generation = order.generation /\ order'.inHouse = order.inHouse
    <3>1. CASE Ignored(event)
      BY <1>1, <1>30, <3>1 DEF CallbackBinds, Order
    <3>2. CASE ~Ignored(event)
      BY <1>1, <1>30, <3>2 DEF CallbackBinds, Patched, Event, Order
    <3> QED BY <3>1, <3>2
  <2>7. BoundIsActive'
    <3> SUFFICES ASSUME b \in live PROVE IsActiveDispatch'
      BY <2>1, <2>6 DEF BoundIsActive
    <3>1. event \in {"DRIVER_ALLOCATED", "ARRIVED_AT_PICKUP", "STARTED_DELIVERY"}
      BY <1>1, <2>1 DEF Sends, Standing, Apart
    <3>2. CASE Ignored(event)
      <4>1. order'.needsRebook = order.needsRebook
              /\ order'.deliveryStatus = order.deliveryStatus
        BY <1>1, <1>30, <3>2 DEF CallbackBinds, Order
      <4> QED BY <2>1, <2>2, <2>3, <2>6, <3>2, <4>1
          DEF Contained, IsActiveDispatch, HasOwnedLiveBooking
    <3>3. CASE ~Ignored(event)
      <4>1. order'.deliveryStatus \in {"dispatched", "in_transit"}
        BY <1>1, <1>30, <3>1, <3>3 DEF CallbackBinds, Patched, Order
      <4> QED BY <2>3, <2>6, <4>1 DEF IsActiveDispatch, OnItsWay
    <3> QED BY <3>2, <3>3
  <2>8. OpenIsKnown' /\ OpenIsInactive' /\ OpenIsDown' /\ ParkedIsUnflagged'
          /\ InHouseAlone'
    BY <2>2, <2>6 DEF Open, OpenIsKnown, OpenIsInactive, OpenIsDown,
       ParkedIsUnflagged, InHouseAlone
  <2>9. OldRides'
    BY <1>1, <2>1, <2>3, <2>6 DEF Standing, OldRides, Rides
  <2>10. Apart' /\ NoneIsLost'
    BY <1>1, <2>1, <2>5, <2>6 DEF Standing, Apart, NoneIsLost
  <2>11. ~FreshPending
    BY <2>1 DEF FreshPending, Pending
  <2> QED BY <1>21, <2>1, <2>7, <2>8, <2>9, <2>10, <2>11 DEF Standing
<1> QED
  BY <1>4, <1>6, <1>7, <1>8, <1>9, <1>10, <1>11, <1>12, <1>13, <1>16, <1>18, <1>19,
     <1>20, <1>22, <1>23, <1>24, <1>25, <1>27, <1>28, <1>29, <1>30
  DEF Next, WalkStep, WorkerStep, CarrierStep, Walker

LEMMA RidersAreInvariant == Spec => [](TypeOK /\ (slips = {} => RiderInv))
<1> DEFINE Claims == Faithful => ClaimInv
           Riders == slips = {} => RiderInv
<1>1. Claims /\ Riders /\ TypeOK /\ LocalsFit /\ [Next]_vars => Claims' /\ Riders'
  BY ClaimsAreKept, RidersAreKept, SlipsStay DEF Faithful
<1>2. Init => Claims /\ Riders
  BY InitClaims, InitRiders
<1> HIDE DEF Claims
<1> QED BY <1>1, <1>2, TypesAreInvariant, PTL DEF Spec

(* No rider is lost, for any number of taps, jobs, carriers, ambiguous     *)
(* answers, dead instances and failed writes, before a callback or a       *)
(* refused POST has gone astray: one that the branch has not let go is the *)
(* order's booking or is named by the row of its pending or parked claim.  *)
THEOREM RidersAreTraceable == Spec => []LiveIsTraceable
<1>1. (slips = {} => RiderInv) => LiveIsTraceable
  BY DEF RiderInv, Standing, NoneIsLost, Open, LiveIsTraceable
<1> QED BY <1>1, RidersAreInvariant, PTL

(* The double-rider guard: for any number of taps, jobs, carriers,         *)
(* ambiguous answers, dead instances and failed writes, a second rider for *)
(* one order, the branch's own included, is on the way only after a        *)
(* callback was written over an order it no longer fits or bound one under *)
(* review, or a POST that counts as refused left a booking.                *)
THEOREM NeverTwoRiders == Spec => []OneRider
<1>1. ASSUME TypeOK, RiderInv PROVE OneRider
  <2>1. PICK b : live \subseteq {b}
    <3>1. CASE Open
      BY <1>1, <3>1 DEF RiderInv, Standing, OpenIsDown, NoneIsLost
    <3>2. CASE ~Open
      BY <1>1, <3>2 DEF RiderInv, Standing, NoneIsLost, Open
    <3> QED BY <3>1, <3>2
  <2>2. Cardinality(live) \in {0, 1}
    <3>1. live = {} \/ live = {b}
      BY <2>1
    <3> QED BY <3>1, FS_EmptySet, FS_Singleton
  <2>3. InHouseActive => Cardinality(live) = 0
    <3> SUFFICES ASSUME InHouseActive PROVE live = {}
      BY FS_EmptySet
    <3>1. order.binding = None /\ ~Open
      BY <1>1 DEF InHouseActive, RiderInv, Standing, InHouseAlone
    <3>2. live \subseteq Booking /\ None \notin Booking
      BY <1>1, Names DEF TypeOK
    <3> QED BY <1>1, <3>1, <3>2 DEF RiderInv, Standing, NoneIsLost, Open
  <2>4. CASE InHouseActive
    BY <2>3, <2>4 DEF OneRider
  <2>5. CASE ~InHouseActive
    BY <2>2, <2>5 DEF OneRider
  <2> QED BY <2>4, <2>5
<1>2. TypeOK /\ (slips = {} => RiderInv) => OneRider
  BY <1>1 DEF OneRider
<1> QED BY <1>2, RidersAreInvariant, PTL

-----------------------------------------------------------------------------
(* Porter's direct lane.                                                   *)

(* What an execution has read, by what it is doing: a booking and a poll   *)
(* start from an order not yet delivered, a cancellation from one with a   *)
(* courier, and a callback that is applied found the order not yet         *)
(* delivered, unless it is the delivery itself.                            *)
LaneReads ==
    \A c \in Call :
        /\ Flying(c) => run[c].status # "delivered"
        /\ run[c].step \in {"booked", "mapping"} => run[c].of # Absent
        /\ run[c].step = "cancelling" =>
               run[c].status # "delivered" /\ doc.porterOrderId # Absent
        /\ run[c].step \in {"applying", "marking"} =>
               run[c].of \in BookingNo /\ run[c].event \in PorterEvent
        /\ run[c].step = "applying" =>
               (run[c].event # "DELIVERED" => run[c].status # "delivered")

PollReads == poll.step # "idle" => poll.status # "delivered"

LaneInv == LaneTypeOK /\ LaneReads /\ PollReads /\ FirstBookingIsAlone

USE LaneAssumption

LEMMA LaneInitInv == LaneInit => LaneInv
<1> SUFFICES ASSUME LaneInit PROVE LaneInv
  OBVIOUS
<1>1. LaneTypeOK
  <2>1. doc \in Doc
    BY DEF LaneInit, Doc, LaneStatus, PorterDispatchStatus, RebookTrigger
  <2>2. Idle \in Run /\ NoPoll \in Poll
    BY DEF Idle, Run, NoPoll, Poll, LaneStep, LaneStatus
  <2>3. porter \in [BookingNo -> [stage : Stage, off : BOOLEAN]]
    BY DEF LaneInit, Stage
  <2>4. mapped \subseteq BookingNo /\ processed \subseteq BookingNo \X PorterEvent
    BY DEF LaneInit
  <2>5. calls \in 0..MaxCalls /\ crashes \in 0..MaxCrashes
    BY DEF LaneInit
  <2>6. run \in [Call -> Run] /\ poll \in Poll
    BY <2>2 DEF LaneInit
  <2> QED BY <2>1, <2>3, <2>4, <2>5, <2>6 DEF LaneInit, LaneTypeOK
<1>2. LaneReads /\ PollReads /\ FirstBookingIsAlone
  BY DEF LaneInit, LaneReads, PollReads, FirstBookingIsAlone, Flying, InFlight, Idle,
     NoPoll
<1> QED BY <1>1, <1>2 DEF LaneInv

(* What an event, and what a poll, make of an order is an order.           *)
LEMMA AppliedType ==
    ASSUME doc \in Doc, NEW e \in PorterEvent, NEW seen
    PROVE  Applied(e, seen) \in Doc
<1>1. CASE e = "DRIVER_ALLOCATED"
  BY <1>1 DEF Applied, Doc, LaneStatus
<1>2. CASE e = "ARRIVED_AT_PICKUP"
  BY <1>2 DEF Applied
<1>3. CASE e = "STARTED_DELIVERY"
  BY <1>3 DEF Applied, Doc, LaneStatus
<1>4. CASE e = "DELIVERED"
  BY <1>4 DEF Applied, Doc, LaneStatus
<1>5. CASE e = "RIDER_CANCELLED"
  BY <1>5 DEF Applied, Doc, LaneStatus, RebookTrigger
<1> QED BY <1>1, <1>2, <1>3, <1>4, <1>5 DEF PorterEvent

LEMMA PollVerdictType ==
    ASSUME doc \in Doc, poll \in Poll
    PROVE  PollVerdict \in Doc
<1>1. Failures \in Nat /\ MaxPolls \in Nat /\ 0 \in 0..MaxPolls /\ MaxPolls \in 0..MaxPolls
  BY DEF Poll, Failures
<1>2. Failures < MaxPolls => Failures \in 0..MaxPolls
  BY <1>1
<1>3. CASE poll.answer \in {"failed", "dark"}
  <2>1. CASE Failures >= MaxPolls \/ poll.answer = "dark"
    <3>1. PICK n \in 0..MaxPolls : n = IF Failures < MaxPolls THEN Failures ELSE MaxPolls
      BY <1>1, <1>2
    <3>2. PollVerdict = [doc EXCEPT !.deliveryStatus = "needs_review",
                                    !.needsRebook = TRUE, !.porterPollCount = n]
      BY <1>3, <2>1, <3>1 DEF PollVerdict
    <3> QED BY <3>2 DEF Doc, LaneStatus
  <2>2. CASE ~(Failures >= MaxPolls \/ poll.answer = "dark")
    <3>1. Failures \in 0..MaxPolls
      BY <1>1, <1>2, <2>2
    <3>2. PollVerdict = [doc EXCEPT !.porterPollCount = Failures]
      BY <1>3, <2>2 DEF PollVerdict
    <3> QED BY <3>1, <3>2 DEF Doc
  <2> QED BY <2>1, <2>2
<1>4. CASE poll.answer = "started"
  BY <1>1, <1>4 DEF PollVerdict, Doc, LaneStatus
<1>5. CASE poll.answer = "delivered"
  BY <1>1, <1>5 DEF PollVerdict, Doc, LaneStatus
<1>6. CASE poll.answer \notin {"failed", "dark", "started", "delivered"}
  BY <1>1, <1>6 DEF PollVerdict, Doc
<1> QED BY <1>3, <1>4, <1>5, <1>6

(* Neither rebinds the order or touches its booking claim.                 *)
LEMMA AppliedKeeps ==
    ASSUME doc \in Doc, NEW e \in PorterEvent, NEW seen
    PROVE  /\ Applied(e, seen).porterOrderId = doc.porterOrderId
           /\ Applied(e, seen).porterDispatchStatus = doc.porterDispatchStatus
           /\ Applied(e, seen).inHouse = doc.inHouse
BY DEF Applied, Doc, PorterEvent

LEMMA PollVerdictKeeps ==
    ASSUME doc \in Doc
    PROVE  /\ PollVerdict.porterOrderId = doc.porterOrderId
           /\ PollVerdict.porterDispatchStatus = doc.porterDispatchStatus
           /\ PollVerdict.inHouse = doc.inHouse
BY DEF PollVerdict, Doc

LEMMA LaneTypes == LaneTypeOK /\ LaneReads /\ [LaneNext]_laneVars => LaneTypeOK'
<1> SUFFICES ASSUME LaneTypeOK, LaneReads, [LaneNext]_laneVars PROVE LaneTypeOK'
  OBVIOUS
<1> USE DEF LaneTypeOK, limits
<1>0. Idle \in Run /\ NoPoll \in Poll
  BY DEF Idle, Run, NoPoll, Poll, LaneStep, LaneStatus
<1>1. ASSUME NEW c \in Call, Book(c) PROVE LaneTypeOK'
  <2>1. doc' \in Doc
    BY <1>1 DEF Book, Doc, PorterDispatchStatus
  <2>2. [Idle EXCEPT !.step = "posting", !.status = doc.deliveryStatus] \in Run
    BY <1>0 DEF Run, LaneStep, InFlight, Doc
  <2>3. run' \in [Call -> Run] /\ calls' \in 0..MaxCalls
    BY <1>1, <2>2 DEF Book, Begin
  <2> QED BY <1>1, <2>1, <2>3 DEF Book
<1>2. ASSUME NEW c \in Call, Post(c) PROVE LaneTypeOK'
  <2>1. PICK answer \in InFlight, n \in BookingNo \cup {Absent} :
            \/ run' = [run EXCEPT ![c].step = answer, ![c].of = n]
            \/ run' = [run EXCEPT ![c].step = answer]
    BY <1>2 DEF Post, Reach, InFlight
  <2>3. run' \in [Call -> Run]
    BY <2>1 DEF Run, LaneStep
  <2>2. porter' \in [BookingNo -> [stage : Stage, off : BOOLEAN]]
    BY <1>2 DEF Post, Stage
  <2> QED BY <1>2, <2>2, <2>3 DEF Post
<1>3. ASSUME NEW c \in Call, WriteFailed(c) PROVE LaneTypeOK'
  <2>1. doc' \in Doc
    BY <1>3 DEF WriteFailed, Merge, Doc, PorterDispatchStatus
  <2> QED BY <1>0, <1>3, <2>1 DEF WriteFailed, Merge, End
<1>4. ASSUME NEW c \in Call, WriteBooked(c) PROVE LaneTypeOK'
  <2>1. run[c] \in Run /\ run[c].of \in BookingNo \cup {Absent}
    BY DEF Run
  <2>2. doc' \in Doc
    BY <1>4, <2>1 DEF WriteBooked, Merge, Doc, PorterDispatchStatus, LaneStatus, RebookTrigger
  <2>3. run' \in [Call -> Run]
    BY <1>4 DEF WriteBooked, Reach, Run, LaneStep
  <2> QED BY <1>4, <2>2, <2>3 DEF WriteBooked, Merge
<1>5. ASSUME NEW c \in Call, WriteMap(c) PROVE LaneTypeOK'
  <2>1. run[c].of \in BookingNo
    BY <1>5 DEF WriteMap, LaneReads, Run
  <2> QED BY <1>0, <1>5, <2>1 DEF WriteMap, End
<1>6. ASSUME NEW c \in Call, CancelRead(c) PROVE LaneTypeOK'
  <2>1. [Idle EXCEPT !.step = "cancelling", !.status = doc.deliveryStatus] \in Run
    BY <1>0 DEF Run, LaneStep, Doc
  <2>2. run' \in [Call -> Run] /\ calls' \in 0..MaxCalls
    BY <1>6, <2>1 DEF CancelRead, Begin
  <2> QED BY <1>6, <2>2 DEF CancelRead
<1>7. ASSUME NEW c \in Call, CancelWrite(c) PROVE LaneTypeOK'
  <2>1. doc' \in Doc
    BY <1>7 DEF CancelWrite, Merge, Doc, PorterDispatchStatus, LaneStatus, RebookTrigger
  <2> QED BY <1>0, <1>7, <2>1 DEF CancelWrite, Merge, End
<1>8. ASSUME ManualDispatch PROVE LaneTypeOK'
  <2>1. doc' \in Doc
    BY <1>8 DEF ManualDispatch, Merge, Doc, LaneStatus, RebookTrigger
  <2> QED BY <1>8, <2>1 DEF ManualDispatch, Merge
<1>9. ASSUME NEW c \in Call, VerifyRead(c) PROVE LaneTypeOK'
  <2>1. PICK answer \in {"right", "wrong"} :
            Begin(c, [Idle EXCEPT !.step = answer, !.count = doc.attempts,
                                  !.status = doc.deliveryStatus])
    BY <1>9 DEF VerifyRead
  <2>2. [Idle EXCEPT !.step = answer, !.count = doc.attempts,
                     !.status = doc.deliveryStatus] \in Run
    BY <1>0 DEF Run, LaneStep, Doc
  <2>3. run' \in [Call -> Run] /\ calls' \in 0..MaxCalls
    BY <2>1, <2>2 DEF Begin
  <2> QED BY <1>9, <2>3 DEF VerifyRead
<1>10. ASSUME NEW c \in Call, VerifyWrong(c) PROVE LaneTypeOK'
  <2>1. run[c].count \in 0..OtpMax
    BY DEF Run
  <2>2. doc' \in Doc
    BY <1>10, <2>1 DEF VerifyWrong, Merge, Doc
  <2>3. locked' \in BOOLEAN
    BY <1>10, <2>1 DEF VerifyWrong, LockAfter
  <2> QED BY <1>0, <1>10, <2>2, <2>3 DEF VerifyWrong, Merge, End
<1>11. ASSUME NEW c \in Call, VerifyRight(c) PROVE LaneTypeOK'
  <2>0. 0 \in 0..OtpMax
    OBVIOUS
  <2>1. doc' \in Doc
    BY <1>11, <2>0 DEF VerifyRight, Merge, Doc, LaneStatus
  <2> QED BY <1>0, <1>11, <2>1 DEF VerifyRight, Merge, End
<1>12. ASSUME NEW c \in Call, HookRead(c) PROVE LaneTypeOK'
  <2>1. PICK b \in BookingNo, e \in PorterEvent :
            \/ Begin(c, [Idle EXCEPT !.step = "applying", !.of = b, !.event = e,
                                     !.status = doc.deliveryStatus])
            \/ Begin(c, [Idle EXCEPT !.step = "marking", !.of = b, !.event = e])
    BY <1>12 DEF HookRead
  <2>2. /\ [Idle EXCEPT !.step = "applying", !.of = b, !.event = e,
                        !.status = doc.deliveryStatus] \in Run
        /\ [Idle EXCEPT !.step = "marking", !.of = b, !.event = e] \in Run
    BY <1>0 DEF Run, LaneStep, Doc
  <2>3. run' \in [Call -> Run] /\ calls' \in 0..MaxCalls
    BY <2>1, <2>2 DEF Begin
  <2> QED BY <1>12, <2>3 DEF HookRead
<1>13. ASSUME NEW c \in Call, HookWrite(c) PROVE LaneTypeOK'
  <2>1. run[c].event \in PorterEvent
    BY <1>13 DEF HookWrite, LaneReads, Run
  <2>4. \A e \in PorterEvent, seen \in LaneStatus : Applied(e, seen) \in Doc
    BY AppliedType
  <2>2. doc' \in Doc
    BY <1>13, <2>1, <2>4 DEF HookWrite, Merge, Run
  <2>3. run' \in [Call -> Run]
    BY <1>13 DEF HookWrite, Reach, Run, LaneStep
  <2> QED BY <1>13, <2>2, <2>3 DEF HookWrite, Merge
<1>14. ASSUME NEW c \in Call, HookMark(c) PROVE LaneTypeOK'
  <2>1. run[c].of \in BookingNo /\ run[c].event \in PorterEvent
    BY <1>14 DEF HookMark, LaneReads, Run
  <2> QED BY <1>0, <1>14, <2>1 DEF HookMark, End
<1>15. ASSUME NEW c \in Call, Crash(c) PROVE LaneTypeOK'
  BY <1>0, <1>15 DEF Crash, End
<1>16. CASE PollRead
  <2>1. poll' \in Poll
    BY ZenonT(40), <1>16 DEF PollRead, Dispatched, Poll, Doc
  <2> QED BY <1>16, <2>1 DEF PollRead
<1>17. CASE PollAnswer
  <2>1. poll' \in Poll
    BY ZenonT(40), <1>17 DEF PollAnswer, Poll
  <2> QED BY <1>17, <2>1 DEF PollAnswer
<1>18. CASE PollWrite
  <2>4. PollVerdict \in Doc
    BY PollVerdictType
  <2> QED BY <1>0, <1>18, <2>4 DEF PollWrite, Merge
<1>19. CASE CourierMoves
  <2>1. porter' \in [BookingNo -> [stage : Stage, off : BOOLEAN]]
    BY <1>19 DEF CourierMoves, NextStage, Stage
  <2> QED BY <1>19, <2>1 DEF CourierMoves
<1>20. CASE CourierDropsOut
  <2>1. porter' \in [BookingNo -> [stage : Stage, off : BOOLEAN]]
    BY ZenonT(40), <1>20 DEF CourierDropsOut, Stage
  <2> QED BY <1>20, <2>1 DEF CourierDropsOut
<1>21. CASE ClaimAges \/ Quietens \/ LockEnds
  BY <1>21 DEF ClaimAges, Quietens, LockEnds
<1>22. CASE UNCHANGED laneVars
  BY <1>22 DEF laneVars
<1> QED
  BY <1>1, <1>2, <1>3, <1>4, <1>5, <1>6, <1>7, <1>8, <1>9, <1>10, <1>11, <1>12,
     <1>13, <1>14, <1>15, <1>16, <1>17, <1>18, <1>19, <1>20, <1>21, <1>22
  DEF LaneNext, Start, Proceed, PollStep, Rebook
(* Which executions are on their way after a step: the one that begins to  *)
(* book, and otherwise none that was not before.                           *)
LEMMA LaneReadsStep == LaneTypeOK /\ LaneReads /\ [LaneNext]_laneVars => LaneReads'
<1> SUFFICES ASSUME LaneTypeOK, LaneReads, [LaneNext]_laneVars PROVE LaneReads'
  OBVIOUS
<1> DEFINE Fine(r, id) ==
        /\ r.step \in InFlight => r.status # "delivered"
        /\ r.step \in {"booked", "mapping"} => r.of # Absent
        /\ r.step = "cancelling" => r.status # "delivered" /\ id # Absent
        /\ r.step \in {"applying", "marking"} => r.of \in BookingNo /\ r.event \in PorterEvent
        /\ r.step = "applying" => (r.event # "DELIVERED" => r.status # "delivered")
<1>1. LaneReads <=> \A c \in Call : Fine(run[c], doc.porterOrderId)
  BY DEF LaneReads, Flying
<1>2. LaneReads' <=> \A c \in Call : Fine(run'[c], doc'.porterOrderId)
  BY DEF LaneReads, Flying
<1>3. ASSUME NEW c \in Call, NEW r, run' = [run EXCEPT ![c] = r],
             doc.porterOrderId # Absent => doc'.porterOrderId # Absent,
             Fine(r, doc'.porterOrderId)
      PROVE  LaneReads'
  <2>1. \A d \in Call : run'[d] = IF d = c THEN r ELSE run[d]
    BY <1>3 DEF LaneTypeOK
  <2> QED BY <1>1, <1>2, <1>3, <2>1
<1>4. ASSUME run' = run, doc.porterOrderId # Absent => doc'.porterOrderId # Absent
      PROVE  LaneReads'
  BY <1>1, <1>2, <1>4
<1>5. \A id : Fine(Idle, id)
  BY DEF Idle, InFlight
<1>6. ASSUME NEW c \in Call, Book(c) PROVE LaneReads'
  <2>1. Fine([Idle EXCEPT !.step = "posting", !.status = doc.deliveryStatus],
             doc'.porterOrderId)
    BY <1>6 DEF Idle, InFlight, Book, Free, Closed
  <2>2. doc'.porterOrderId = doc.porterOrderId
    BY <1>6 DEF Book, LaneTypeOK, Doc
  <2> HIDE DEF Fine
  <2> QED BY <1>3, <1>6, <2>1, <2>2 DEF Book, Begin
<1>7. ASSUME NEW c \in Call, Post(c) PROVE LaneReads'
  <2>1. run[c].step = "posting" /\ run[c].status # "delivered" /\ run[c] \in Run
    BY <1>1, <1>7 DEF Post, InFlight, LaneTypeOK
  <2>2. doc' = doc
    BY <1>7 DEF Post
  <2>3. ASSUME NEW answer \in {"refused", "ambiguous"}, Reach(c, answer) PROVE LaneReads'
    <3>1. run' = [run EXCEPT ![c] = [run[c] EXCEPT !.step = answer]]
      BY <2>3 DEF Reach
    <3>2. Fine([run[c] EXCEPT !.step = answer], doc'.porterOrderId)
      BY <2>1 DEF Run, InFlight
    <3> HIDE DEF Fine
    <3> QED BY <1>3, <2>2, <3>1, <3>2
  <2>4. ASSUME NEW b \in BookingNo, NEW answer \in {"booked", "refused", "ambiguous"},
               run' = [run EXCEPT ![c].step = answer,
                                  ![c].of = IF answer = "booked" THEN b ELSE Absent]
        PROVE  LaneReads'
    <3> DEFINE n == IF answer = "booked" THEN b ELSE Absent
    <3>1. run' = [run EXCEPT ![c] = [run[c] EXCEPT !.step = answer, !.of = n]]
      BY <2>4 DEF LaneTypeOK
    <3>2. answer = "booked" => n # Absent
      BY DEF BookingNo
    <3> HIDE DEF n
    <3>3. Fine([run[c] EXCEPT !.step = answer, !.of = n], doc'.porterOrderId)
      BY <2>1, <3>2 DEF Run, InFlight
    <3> HIDE DEF Fine
    <3> QED BY <1>3, <2>2, <3>1, <3>3
  <2> QED BY <1>7, <2>3, <2>4 DEF Post
<1>8. ASSUME NEW c \in Call, End(c), doc.porterOrderId # Absent => doc'.porterOrderId # Absent
      PROVE  LaneReads'
  BY <1>3, <1>5, <1>8 DEF End
<1>9. ASSUME NEW c \in Call, WriteFailed(c) \/ CancelWrite(c) \/ VerifyWrong(c) \/ VerifyRight(c)
      PROVE  LaneReads'
  <2>1. End(c) /\ doc'.porterOrderId = doc.porterOrderId
    BY <1>9 DEF WriteFailed, CancelWrite, VerifyWrong, VerifyRight, Merge, LaneTypeOK, Doc
  <2> QED BY <1>8, <2>1
<1>10. ASSUME NEW c \in Call, WriteMap(c) \/ HookMark(c) \/ Crash(c) PROVE LaneReads'
  BY <1>8, <1>10 DEF WriteMap, HookMark, Crash
<1>11. ASSUME NEW c \in Call, WriteBooked(c) PROVE LaneReads'
  <2>1. run[c].step = "booked" /\ run[c].of # Absent /\ run[c] \in Run
    BY <1>1, <1>11 DEF WriteBooked, LaneTypeOK
  <2>2. doc'.porterOrderId = run[c].of
    BY <1>11 DEF WriteBooked, Merge, LaneTypeOK, Doc
  <2>3. run' = [run EXCEPT ![c] = [run[c] EXCEPT !.step = "mapping"]]
    BY <1>11 DEF WriteBooked, Reach
  <2>4. Fine([run[c] EXCEPT !.step = "mapping"], doc'.porterOrderId)
    BY <2>1 DEF Run, InFlight
  <2> HIDE DEF Fine
  <2> QED BY <1>3, <2>1, <2>2, <2>3, <2>4
<1>12. ASSUME NEW c \in Call, CancelRead(c) PROVE LaneReads'
  <2>1. doc' = doc /\ doc.porterOrderId # Absent /\ doc.deliveryStatus # "delivered"
    BY <1>12 DEF CancelRead, Dispatched, Active
  <2>2. Fine([Idle EXCEPT !.step = "cancelling", !.status = doc.deliveryStatus],
             doc'.porterOrderId)
    BY <2>1 DEF Idle, InFlight
  <2> HIDE DEF Fine
  <2> QED BY <1>3, <1>12, <2>1, <2>2 DEF CancelRead, Begin
<1>13. ASSUME NEW c \in Call, VerifyRead(c) PROVE LaneReads'
  <2>1. PICK answer \in {"right", "wrong"} :
            Begin(c, [Idle EXCEPT !.step = answer, !.count = doc.attempts,
                                  !.status = doc.deliveryStatus])
    BY <1>13 DEF VerifyRead
  <2>2. Fine([Idle EXCEPT !.step = answer, !.count = doc.attempts,
                          !.status = doc.deliveryStatus], doc'.porterOrderId)
    BY DEF Idle, InFlight
  <2>3. doc' = doc
    BY <1>13 DEF VerifyRead
  <2> HIDE DEF Fine
  <2> QED BY <1>3, <2>1, <2>2, <2>3 DEF Begin
<1>14. ASSUME NEW c \in Call, HookRead(c) PROVE LaneReads'
  <2>1. PICK b \in BookingNo, e \in PorterEvent :
            \/ /\ Begin(c, [Idle EXCEPT !.step = "applying", !.of = b, !.event = e,
                                        !.status = doc.deliveryStatus])
               /\ ~TooLate(e)
            \/ Begin(c, [Idle EXCEPT !.step = "marking", !.of = b, !.event = e])
    BY <1>14 DEF HookRead
  <2>2. doc' = doc /\ b # Absent
    BY <1>14 DEF HookRead, BookingNo
  <2>3. CASE ~TooLate(e) /\ Begin(c, [Idle EXCEPT !.step = "applying", !.of = b, !.event = e,
                                                 !.status = doc.deliveryStatus])
    <3>1. Fine([Idle EXCEPT !.step = "applying", !.of = b, !.event = e,
                            !.status = doc.deliveryStatus], doc'.porterOrderId)
      BY <2>2, <2>3 DEF Idle, InFlight, TooLate, PorterEvent
    <3> HIDE DEF Fine
    <3> QED BY <1>3, <2>2, <2>3, <3>1 DEF Begin
  <2>4. CASE Begin(c, [Idle EXCEPT !.step = "marking", !.of = b, !.event = e])
    <3>1. Fine([Idle EXCEPT !.step = "marking", !.of = b, !.event = e], doc'.porterOrderId)
      BY <2>2 DEF Idle, InFlight, PorterEvent
    <3> HIDE DEF Fine
    <3> QED BY <1>3, <2>2, <2>4, <3>1 DEF Begin
  <2> QED BY <2>1, <2>3, <2>4
<1>15. ASSUME NEW c \in Call, HookWrite(c) PROVE LaneReads'
  <2>1. run[c].step = "applying" /\ run[c] \in Run
    BY <1>15 DEF HookWrite, LaneTypeOK
  <2>2. run[c].event \in PorterEvent /\ run[c].of \in BookingNo
    BY <1>1, <2>1 DEF Run
  <2>3. doc'.porterOrderId = doc.porterOrderId
    BY <1>15, <2>2, AppliedKeeps DEF HookWrite, Merge, LaneTypeOK
  <2>4. run' = [run EXCEPT ![c] = [run[c] EXCEPT !.step = "marking"]]
    BY <1>15 DEF HookWrite, Reach
  <2>5. Fine([run[c] EXCEPT !.step = "marking"], doc'.porterOrderId)
    BY <2>1, <2>2 DEF Run, InFlight, PorterEvent
  <2> HIDE DEF Fine
  <2> QED BY <1>3, <2>3, <2>4, <2>5
<1>16. CASE ManualDispatch
  <2>1. doc'.porterOrderId = doc.porterOrderId /\ run' = run
    BY <1>16 DEF ManualDispatch, Merge, LaneTypeOK, Doc
  <2> QED BY <1>4, <2>1
<1>17. CASE PollStep
  <2>1. doc'.porterOrderId = doc.porterOrderId /\ run' = run
    <3>1. CASE PollWrite
      BY <3>1, PollVerdictKeeps DEF PollWrite, Merge, LaneTypeOK
    <3>2. CASE PollRead \/ PollAnswer
      BY <3>2 DEF PollRead, PollAnswer
    <3> QED BY <1>17, <3>1, <3>2 DEF PollStep
  <2> QED BY <1>4, <2>1
<1>18. CASE \/ CourierMoves \/ CourierDropsOut \/ ClaimAges \/ Quietens \/ LockEnds
            \/ UNCHANGED laneVars
  BY <1>4, <1>18 DEF CourierMoves, CourierDropsOut, ClaimAges, Quietens, LockEnds, laneVars
<1> HIDE DEF Fine
<1> QED
  BY <1>6, <1>7, <1>9, <1>10, <1>11, <1>12, <1>13, <1>14, <1>15, <1>16, <1>17, <1>18
  DEF LaneNext, Start, Proceed, Rebook

LEMMA PollReadsStep == LaneTypeOK /\ PollReads /\ [LaneNext]_laneVars => PollReads'
<1> SUFFICES ASSUME LaneTypeOK, PollReads, [LaneNext]_laneVars PROVE PollReads'
  OBVIOUS
<1>1. CASE PollRead
  BY <1>1 DEF PollRead, Dispatched, Active, PollReads
<1>2. CASE PollAnswer
  BY <1>2 DEF PollAnswer, PollReads, LaneTypeOK, Poll
<1>3. CASE PollWrite
  BY <1>3 DEF PollWrite, NoPoll, PollReads
<1>4. CASE poll' = poll
  BY <1>4 DEF PollReads
<1>5. ASSUME NEW c \in Call, Start(c) \/ Proceed(c) \/ Crash(c) PROVE poll' = poll
  BY <1>5 DEF Start, Proceed, Crash, Book, Rebook, CancelRead, VerifyRead, HookRead,
     Post, WriteFailed, WriteBooked, WriteMap, CancelWrite, VerifyWrong, VerifyRight,
     HookWrite, HookMark
<1>6. \/ ManualDispatch \/ CourierMoves \/ CourierDropsOut \/ ClaimAges \/ Quietens
      \/ LockEnds \/ UNCHANGED laneVars
      => poll' = poll
  BY DEF ManualDispatch, CourierMoves, CourierDropsOut, ClaimAges, Quietens, LockEnds,
     laneVars
<1> QED BY <1>1, <1>2, <1>3, <1>4, <1>5, <1>6 DEF LaneNext, PollStep

(* Until a courier is on the order the one execution that books is alone:  *)
(* a step that leaves nobody else flying and the claim as it was keeps it. *)
LEMMA AloneStep == LaneInv /\ [LaneNext]_laneVars => FirstBookingIsAlone'
<1> SUFFICES ASSUME LaneInv, [LaneNext]_laneVars, doc'.porterOrderId = Absent
             PROVE  \A c \in Call : Flying(c)' =>
                        /\ ClaimPending' /\ ~claimOld'
                        /\ \A d \in Call \ {c} : ~Flying(d)'
  BY DEF FirstBookingIsAlone
<1> DEFINE Goal == \A c \in Call : Flying(c)' =>
                        /\ ClaimPending' /\ ~claimOld'
                        /\ \A d \in Call \ {c} : ~Flying(d)'
<1> USE DEF LaneInv, LaneTypeOK
<1>1. ASSUME doc.porterOrderId = Absent,
             doc'.porterDispatchStatus = doc.porterDispatchStatus, claimOld' = claimOld,
             \A c \in Call : Flying(c)' => Flying(c)
      PROVE  Goal
  BY <1>1 DEF FirstBookingIsAlone, ClaimPending
<1>2. ASSUME NEW c \in Call, NEW r, run' = [run EXCEPT ![c] = r],
             r.step \in InFlight => Flying(c)
      PROVE  \A d \in Call : Flying(d)' => Flying(d)
  BY <1>2 DEF Flying
<1>3. \A c \in Call : End(c) => /\ ~Flying(c)'
                              /\ \A d \in Call : Flying(d)' => Flying(d)
  BY <1>2 DEF End, Idle, InFlight, Flying
<1>4. ASSUME NEW c \in Call, Book(c) PROVE Goal
  <2>1. doc.porterOrderId = Absent /\ ClaimPending' /\ ~claimOld'
    BY <1>4 DEF Book, Doc, ClaimPending
  <2>2. \A d \in Call : ~Flying(d)
    BY <1>4, <2>1 DEF Book, Free, FirstBookingIsAlone
  <2>3. \A d \in Call \ {c} : run'[d] = run[d]
    BY <1>4 DEF Book, Begin
  <2> QED BY <2>1, <2>2, <2>3 DEF Flying
<1>5. ASSUME NEW c \in Call, Post(c) PROVE Goal
  <2>1. Flying(c) /\ doc' = doc /\ claimOld' = claimOld
    BY <1>5 DEF Post, Flying, InFlight
  <2>2. \A d \in Call \ {c} : run'[d] = run[d]
    BY <1>5 DEF Post, Reach
  <2> QED BY <1>1, <2>1, <2>2 DEF Flying
<1>6. ASSUME NEW c \in Call, WriteFailed(c) PROVE Goal
  <2>1. doc.porterOrderId = Absent /\ Flying(c)
    BY <1>6 DEF WriteFailed, Merge, Doc, Flying, InFlight
  <2>2. \A d \in Call \ {c} : ~Flying(d)
    BY <2>1 DEF FirstBookingIsAlone
  <2> QED BY <1>3, <1>6, <2>2 DEF WriteFailed
<1>7. ASSUME NEW c \in Call, WriteBooked(c) PROVE Goal
  <2>1. run[c].of # Absent
    BY <1>7 DEF WriteBooked, LaneReads
  <2>2. doc'.porterOrderId = run[c].of
    BY <1>7 DEF WriteBooked, Merge, Doc
  <2> QED BY <2>1, <2>2
<1>8. ASSUME NEW c \in Call, WriteMap(c) \/ HookMark(c) \/ Crash(c) PROVE Goal
  <2>1. End(c) /\ doc' = doc /\ claimOld' = claimOld
    BY <1>8 DEF WriteMap, HookMark, Crash
  <2> QED BY <1>1, <1>3, <2>1
<1>9. ASSUME NEW c \in Call, CancelWrite(c) PROVE Goal
  <2>1. doc.porterOrderId # Absent
    BY <1>9 DEF CancelWrite, LaneReads
  <2>2. doc'.porterOrderId = doc.porterOrderId
    BY <1>9 DEF CancelWrite, Merge, Doc
  <2> QED BY <2>1, <2>2
<1>10. ASSUME NEW c \in Call, VerifyWrong(c) \/ VerifyRight(c) PROVE Goal
  <2>1. /\ End(c) /\ claimOld' = claimOld
        /\ doc'.porterOrderId = doc.porterOrderId
        /\ doc'.porterDispatchStatus = doc.porterDispatchStatus
    BY <1>10 DEF VerifyWrong, VerifyRight, Merge, Doc
  <2> QED BY <1>1, <1>3, <2>1
<1>11. ASSUME NEW c \in Call, CancelRead(c) \/ VerifyRead(c) \/ HookRead(c) PROVE Goal
  <2>1. doc' = doc /\ claimOld' = claimOld
    BY <1>11 DEF CancelRead, VerifyRead, HookRead
  <2>2. \E r : run' = [run EXCEPT ![c] = r] /\ r.step \notin InFlight
    <3>1. CASE CancelRead(c)
      <4> DEFINE r == [Idle EXCEPT !.step = "cancelling", !.status = doc.deliveryStatus]
      <4>1. run' = [run EXCEPT ![c] = r]
        BY <3>1 DEF CancelRead, Begin
      <4>2. r.step \notin InFlight
        BY DEF Idle, InFlight
      <4> QED BY <4>1, <4>2
    <3>2. CASE VerifyRead(c)
      <4>1. PICK answer \in {"right", "wrong"} :
                Begin(c, [Idle EXCEPT !.step = answer, !.count = doc.attempts,
                                      !.status = doc.deliveryStatus])
        BY <3>2 DEF VerifyRead
      <4> DEFINE r == [Idle EXCEPT !.step = answer, !.count = doc.attempts,
                                   !.status = doc.deliveryStatus]
      <4>2. run' = [run EXCEPT ![c] = r]
        BY <4>1 DEF Begin
      <4>3. r.step \notin InFlight
        BY DEF Idle, InFlight
      <4> QED BY <4>2, <4>3
    <3>3. CASE HookRead(c)
      <4>1. PICK b \in BookingNo, e \in PorterEvent :
                \/ Begin(c, [Idle EXCEPT !.step = "applying", !.of = b, !.event = e,
                                         !.status = doc.deliveryStatus])
                \/ Begin(c, [Idle EXCEPT !.step = "marking", !.of = b, !.event = e])
        BY <3>3 DEF HookRead
      <4> DEFINE r == [Idle EXCEPT !.step = "applying", !.of = b, !.event = e,
                                   !.status = doc.deliveryStatus]
                 s == [Idle EXCEPT !.step = "marking", !.of = b, !.event = e]
      <4>2. run' = [run EXCEPT ![c] = r] \/ run' = [run EXCEPT ![c] = s]
        BY <4>1 DEF Begin
      <4>3. r.step \notin InFlight /\ s.step \notin InFlight
        BY DEF Idle, InFlight
      <4> HIDE DEF r, s
      <4> QED BY <4>2, <4>3
    <3> QED BY <1>11, <3>1, <3>2, <3>3
  <2>3. \A d \in Call : Flying(d)' => Flying(d)
    <3>1. PICK r : run' = [run EXCEPT ![c] = r] /\ r.step \notin InFlight
      BY <2>2
    <3> QED BY <1>2, <3>1
  <2> QED BY <1>1, <2>1, <2>3
<1>12. ASSUME NEW c \in Call, HookWrite(c) PROVE Goal
  <2>1. run[c].step = "applying" /\ run[c].event \in PorterEvent
    BY <1>12 DEF HookWrite, LaneReads
  <2>2. /\ claimOld' = claimOld
        /\ doc'.porterOrderId = doc.porterOrderId
        /\ doc'.porterDispatchStatus = doc.porterDispatchStatus
    BY <1>12, <2>1, AppliedKeeps DEF HookWrite, Merge
  <2>3. run' = [run EXCEPT ![c] = [run[c] EXCEPT !.step = "marking"]]
    BY <1>12 DEF HookWrite, Reach
  <2>4. [run[c] EXCEPT !.step = "marking"].step \notin InFlight
    BY DEF Run, InFlight
  <2>5. \A d \in Call : Flying(d)' => Flying(d)
    BY <1>2, <2>3, <2>4
  <2> QED BY <1>1, <2>2, <2>5
<1>13. CASE ManualDispatch
  <2>1. /\ claimOld' = claimOld /\ run' = run
        /\ doc'.porterOrderId = doc.porterOrderId
        /\ doc'.porterDispatchStatus = doc.porterDispatchStatus
    BY <1>13 DEF ManualDispatch, Merge, Doc
  <2> QED BY <1>1, <2>1 DEF Flying
<1>14. CASE PollStep
  <2>1. /\ claimOld' = claimOld /\ run' = run
        /\ doc'.porterOrderId = doc.porterOrderId
        /\ doc'.porterDispatchStatus = doc.porterDispatchStatus
    <3>1. CASE PollWrite
      BY <3>1, PollVerdictKeeps DEF PollWrite, Merge
    <3>2. CASE PollRead \/ PollAnswer
      BY <3>2 DEF PollRead, PollAnswer
    <3> QED BY <1>14, <3>1, <3>2 DEF PollStep
  <2> QED BY <1>1, <2>1 DEF Flying
<1>15. CASE ClaimAges
  BY <1>15 DEF ClaimAges, Flying
<1>16. CASE CourierMoves \/ CourierDropsOut \/ Quietens \/ LockEnds \/ UNCHANGED laneVars
  BY <1>1, <1>16 DEF CourierMoves, CourierDropsOut, Quietens, LockEnds, laneVars, Flying
<1> HIDE DEF Goal
<1> QED
  BY <1>4, <1>5, <1>6, <1>7, <1>8, <1>9, <1>10, <1>11, <1>12, <1>13, <1>14, <1>15, <1>16
  DEF LaneNext, Start, Proceed, Rebook, Goal

LEMMA LaneInvIsInvariant == LaneSpec => []LaneInv
<1>1. LaneInv /\ [LaneNext]_laneVars => LaneInv'
  BY LaneTypes, LaneReadsStep, PollReadsStep, AloneStep DEF LaneInv
<1> QED BY <1>1, LaneInitInv, PTL DEF LaneSpec

(* The fields of the order, of every execution and of the poll keep their  *)
(* types, whatever is merged over them.                                    *)
THEOREM LaneTypeCorrect == LaneSpec => []LaneTypeOK
<1>1. LaneInv => LaneTypeOK
  BY DEF LaneInv
<1> QED BY <1>1, LaneInvIsInvariant, PTL

(* Before the first courier is on the order, at most one execution has a   *)
(* booking under way, under a fresh claim of its own                       *)
(* (claimPorterDispatch).                                                  *)
THEOREM FirstBookingStaysAlone == LaneSpec => []FirstBookingIsAlone
<1>1. LaneInv => FirstBookingIsAlone
  BY DEF LaneInv
<1> QED BY <1>1, LaneInvIsInvariant, PTL

(* The branch's own rider is never sent next to a booking under way, an    *)
(* unreconciled one or an id that callbacks still resolve to               *)
(* (manualBranchDispatch).                                                 *)
THEOREM InHouseStaysAlone == LaneSpec => InHouseRidesAlone
<1>1. ASSUME LaneInv, [LaneNext]_laneVars, doc'.inHouse, ~doc.inHouse
      PROVE  /\ \A c \in Call : ~Flying(c)
             /\ doc.porterDispatchStatus # "needs_reconciliation"
             /\ doc.porterOrderId = Absent
  <2> USE <1>1 DEF LaneInv, LaneTypeOK
  <2>1. ManualDispatch
    <3>1. ASSUME NEW c \in Call, Start(c) PROVE doc'.inHouse = doc.inHouse
      BY <3>1 DEF Start, Book, Rebook, CancelRead, VerifyRead, HookRead, Doc
    <3>2. ASSUME NEW c \in Call, Proceed(c) PROVE doc'.inHouse = doc.inHouse
      <4>1. ASSUME HookWrite(c) PROVE doc'.inHouse = doc.inHouse
        <5>1. run[c].event \in PorterEvent
          BY <4>1 DEF HookWrite, LaneReads
        <5> QED BY <4>1, <5>1, AppliedKeeps DEF HookWrite, Merge
      <4> QED BY <3>2, <4>1 DEF Proceed, Post, WriteFailed, WriteBooked, WriteMap,
                 CancelWrite, VerifyWrong, VerifyRight, HookMark, Merge, Doc
    <3>3. ASSUME NEW c \in Call, Crash(c) PROVE doc'.inHouse = doc.inHouse
      BY <3>3 DEF Crash
    <3>4. PollStep => doc'.inHouse = doc.inHouse
      BY PollVerdictKeeps DEF PollStep, PollRead, PollAnswer, PollWrite, Merge
    <3>5. \/ CourierMoves \/ CourierDropsOut \/ ClaimAges \/ Quietens \/ LockEnds
          \/ UNCHANGED laneVars
          => doc'.inHouse = doc.inHouse
      BY DEF CourierMoves, CourierDropsOut, ClaimAges, Quietens, LockEnds, laneVars
    <3> QED BY <1>1, <3>1, <3>2, <3>3, <3>4, <3>5 DEF LaneNext
  <2> QED BY <2>1 DEF ManualDispatch, MayAssign, FirstBookingIsAlone
<1>2. LaneInv /\ [LaneNext]_laneVars =>
          [doc'.inHouse /\ ~doc.inHouse =>
              /\ \A c \in Call : ~Flying(c)
              /\ doc.porterDispatchStatus # "needs_reconciliation"
              /\ doc.porterOrderId = Absent]_laneVars
  BY <1>1
<1> QED BY <1>2, LaneInvIsInvariant, PTL DEF LaneSpec, InHouseRidesAlone

(* No claim, cancellation, callback or poll that began on a delivered      *)
(* order takes it back (the terminal guards of the lane, each on the read  *)
(* its execution starts from): only what was read earlier still can.       *)
THEOREM OnlyStaleRewinds == LaneSpec => RewindIsStale
<1> DEFINE Stale == doc.deliveryStatus = "delivered" /\ doc'.deliveryStatus # "delivered" =>
              \/ poll.step = "answered" /\ poll'.step = "idle"
                 /\ poll.status # "delivered"
              \/ \E c \in Call : /\ run'[c] # run[c]
                                 /\ run[c].step \in {"booked", "cancelling", "applying"}
                                 /\ run[c].status # "delivered"
<1>1. ASSUME LaneInv, LaneNext PROVE Stale
  <2> USE <1>1 DEF LaneInv, LaneTypeOK
  <2>1. ASSUME NEW c \in Call, Start(c) PROVE Stale
    BY <2>1 DEF Start, Book, Rebook, CancelRead, VerifyRead, HookRead, Doc
  <2>2. ASSUME NEW c \in Call, run'[c].step # run[c].step,
               run[c].step \in {"booked", "cancelling", "applying"},
               run[c].status # "delivered"
        PROVE  Stale
    BY <2>2
  <2>3. ASSUME NEW c \in Call, WriteBooked(c) PROVE Stale
    BY <2>2, <2>3 DEF WriteBooked, Reach, LaneReads, Flying, InFlight, Run
  <2>4. ASSUME NEW c \in Call, CancelWrite(c) PROVE Stale
    BY <2>2, <2>4 DEF CancelWrite, End, LaneReads, Idle
  <2>5. ASSUME NEW c \in Call, HookWrite(c) PROVE Stale
    <3>1. run[c].step = "applying" /\ run[c].event \in PorterEvent
      BY <2>5 DEF HookWrite, LaneReads
    <3>2. run'[c].step = "marking"
      BY <2>5 DEF HookWrite, Reach, Run
    <3>3. CASE run[c].event = "DELIVERED"
      BY <2>5, <3>3 DEF HookWrite, Merge, Applied, Doc
    <3>4. CASE run[c].event # "DELIVERED"
      BY <2>2, <3>1, <3>2, <3>4 DEF LaneReads
    <3> QED BY <3>3, <3>4
  <2>6. ASSUME NEW c \in Call,
               \/ Post(c) \/ WriteFailed(c) \/ WriteMap(c) \/ VerifyWrong(c)
               \/ VerifyRight(c) \/ HookMark(c) \/ Crash(c)
        PROVE  Stale
    BY <2>6 DEF Post, WriteFailed, WriteMap, VerifyWrong, VerifyRight, HookMark, Crash,
                Merge, Doc
  <2>7. CASE ManualDispatch
    BY <2>7 DEF ManualDispatch, MayAssign, Closed
  <2>8. CASE PollStep
    BY <2>8 DEF PollStep, PollRead, PollAnswer, PollWrite, NoPoll, PollReads
  <2>9. CASE CourierMoves \/ CourierDropsOut \/ ClaimAges \/ Quietens \/ LockEnds
    BY <2>9 DEF CourierMoves, CourierDropsOut, ClaimAges, Quietens, LockEnds
  <2> HIDE DEF Stale
  <2> QED BY <1>1, <2>1, <2>3, <2>4, <2>5, <2>6, <2>7, <2>8, <2>9 DEF LaneNext, Proceed
<1>2. LaneInv /\ [LaneNext]_laneVars => [Stale]_laneVars
  BY <1>1
<1> QED BY <1>2, LaneInvIsInvariant, PTL DEF LaneSpec, RewindIsStale

(* A wrong answer never takes the lockout of the delivery code off, though *)
(* it writes back a counter it read before (verifyDeliveryOtp).            *)
THEOREM LockoutHolds == LaneSpec => LockoutStands
<1>1. ASSUME LaneInv, LaneNext, locked, ~locked' PROVE doc'.otp = FALSE \/ doc' = doc
  <2>1. ASSUME NEW c \in Call, VerifyRight(c) PROVE doc'.otp = FALSE
    BY <2>1 DEF VerifyRight, Merge, LaneInv, LaneTypeOK, Doc
  <2>2. ASSUME NEW c \in Call, VerifyWrong(c) PROVE FALSE
    BY <1>1, <2>2 DEF VerifyWrong, LockAfter
  <2> QED
    BY <1>1, <2>1, <2>2 DEF LaneNext, Start, Proceed, Crash, Book, Rebook, CancelRead,
       VerifyRead, HookRead, Post, WriteFailed, WriteBooked, WriteMap, CancelWrite,
       HookWrite, HookMark, ManualDispatch, PollStep, PollRead, PollAnswer, PollWrite,
       CourierMoves, CourierDropsOut, ClaimAges, Quietens, LockEnds
<1>2. LaneInv /\ [LaneNext]_laneVars =>
          [locked /\ ~locked' => doc'.otp = FALSE \/ doc' = doc]_laneVars
  BY <1>1
<1> QED BY <1>2, LaneInvIsInvariant, PTL DEF LaneSpec, LockoutStands
=============================================================================
