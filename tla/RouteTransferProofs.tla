------------------------ MODULE RouteTransferProofs ------------------------
(***************************************************************************)
(* Proofs about RouteTransfer for any number of executions, payments,      *)
(* retries and crashes.                                                    *)
(*                                                                         *)
(* The argument: whoever works between a claim and its final write owns a  *)
(* live lease on a document in state "transferring" (ClaimOwned).  Every   *)
(* other writer needs that lease dead, absent, or the document in another  *)
(* state, so the unfenced final writes never meet a rival.  The rest       *)
(* follows from what the owner alone can know about the gateway.           *)
(***************************************************************************)
EXTENDS RouteTransfer, TLAPS

(* Working executions own the live lease: the reason why the unconditional *)
(* final writes are safe.                                                  *)
ClaimOwned ==
    \A a \in Actor : Working(a) => /\ lease = a
                                   /\ ~leaseDead
                                   /\ rts = "transferring"

(* The local state of each execution is what its step has established.     *)
LocalsKnown ==
    \A a \in Actor :
        /\ pc[a] = "entered" => a \in Caller
        /\ pc[a] \in {"entered", "attempting", "posting", "writing"}
              => pay[a] \in Payment
        /\ pc[a] \in {"attempting", "posting", "writing"}
              => branch # "missing"
        /\ pc[a] = "posting" => branch = "linked" /\ split = "payable"
        /\ pc[a] = "writing" /\ outcome[a] = "ok" => landed[pay[a]] > 0

(* An order without a branch never gets past the flag.                     *)
NoBranchNoClaim == branch = "missing" => rts \in {"none", "failed"}

(* The receipt and the status tell the same.                               *)
SettledOnce ==
    /\ rts = "transferred" <=> receipt # None
    /\ receipt # None => landed[receipt] > 0

(* The owner's lookup is conclusive but for POSTs that outlived their      *)
(* caller, and there are none of those when the gateway is fast.           *)
LookupIsConclusive ==
    /\ \A p \in Payment : late[p] <= landed[p] /\ landed[p] <= late[p] + 1
    /\ \A a \in Actor : pc[a] = "posting" => landed[pay[a]] = late[pay[a]]
    /\ ~SlowGateway => \A p \in Payment : orphans[p] = 0 /\ late[p] = 0

(* A refusal stands on a terminal order that nobody can claim any more.    *)
RefusalStands ==
    refused => terminal /\ rts \notin {"transferring", "pending_retry"}

IInv ==
    /\ TypeOK
    /\ ClaimOwned
    /\ LocalsKnown
    /\ NoBranchNoClaim
    /\ SettledOnce
    /\ LookupIsConclusive
    /\ RefusalStands
    /\ RefusedPaymentIsParked

LEMMA InitIInv == Init => IInv
<1> SUFFICES ASSUME Init PROVE IInv
  OBVIOUS
<1> USE ConstantsAssumption DEF Init
<1>1. TypeOK
  BY DEF TypeOK, RouteStatus, PC, Outcome, Actor
<1>2. ClaimOwned /\ LocalsKnown
  BY DEF ClaimOwned, LocalsKnown, Working
<1>3. NoBranchNoClaim /\ SettledOnce /\ LookupIsConclusive
  BY DEF NoBranchNoClaim, SettledOnce, LookupIsConclusive
<1>4. RefusalStands /\ RefusedPaymentIsParked
  BY DEF RefusalStands, RefusedPaymentIsParked
<1> QED
  BY <1>1, <1>2, <1>3, <1>4 DEF IInv

(* The inductive step, one action at a time.                              *)
LEMMA StepIInv == IInv /\ [Next]_vars => IInv'
<1> SUFFICES ASSUME IInv, [Next]_vars PROVE IInv'
  OBVIOUS
<1> USE ConstantsAssumption
    DEF IInv, TypeOK, ClaimOwned, LocalsKnown, NoBranchNoClaim, SettledOnce,
        LookupIsConclusive, RefusalStands, RefusedPaymentIsParked, Working,
        RouteStatus, PC, Outcome, Actor, docVars, orderVars, callVars,
        gateVars, Return, Goto, Attempted, StampLease, ReleaseLease
<1>1. ASSUME NEW c \in Caller, NEW p \in Payment, Enter(c, p) PROVE IInv'
  BY <1>1 DEF Enter
<1>2. ASSUME NEW c \in Caller, AlreadyTransferred(c) PROVE IInv'
  BY <1>2 DEF AlreadyTransferred
<1>3. ASSUME NEW c \in Caller, NothingToSplit(c) PROVE IInv'
  BY <1>3 DEF NothingToSplit
<1>4. ASSUME NEW c \in Caller, FlagMissingBranch(c) PROVE IInv'
  BY <1>4 DEF FlagMissingBranch
<1>5. ASSUME NEW c \in Caller, ClaimDone(c) PROVE IInv'
  BY <1>5 DEF ClaimDone, CanClaim, Unsettled
<1>6. ASSUME NEW c \in Caller, ClaimConflict(c) PROVE IInv'
  BY <1>6 DEF ClaimConflict, CanClaim, Unsettled
<1>7. ASSUME NEW c \in Caller, ClaimBusy(c) PROVE IInv'
  BY <1>7 DEF ClaimBusy, CanClaim, Unsettled
<1>8. ASSUME NEW c \in Caller, ClaimRefused(c) PROVE IInv'
  <2>1. TypeOK'
    <3>1. parked' \subseteq Payment
      BY <1>8 DEF ClaimRefused, CanClaim, RecordRefusal
    <3>2. pc' \in [Actor -> PC] /\ outcome' \in [Actor -> Outcome \cup {None}]
      BY <1>8 DEF ClaimRefused, CanClaim
    <3>3. /\ rts' \in RouteStatus /\ refused' \in BOOLEAN /\ lease' = None
          /\ leaseDead' \in BOOLEAN
      BY <1>8 DEF ClaimRefused, RecordRefusal
    <3> QED BY <1>8, <3>1, <3>2, <3>3 DEF ClaimRefused, RecordRefusal
  <2>2. LookupIsConclusive'
    BY <1>8 DEF ClaimRefused, CanClaim, RecordRefusal
  <2> QED
    BY <1>8, <2>1, <2>2
       DEF ClaimRefused, CanClaim, Unsettled, LeaseHeld, RecordRefusal
<1>9. ASSUME NEW c \in Caller, Claim(c) PROVE IInv'
  BY ZenonT(40), <1>9 DEF Claim, CanClaim, Unsettled, LeaseHeld
<1>10. ASSUME NEW c \in Caller, SplitTransferred(c) PROVE IInv'
  <2>1. rts' \in RouteStatus /\ retryCount' \in Nat
    BY <1>10 DEF SplitTransferred, Writing
  <2>2. pc' \in [Actor -> PC] /\ outcome' \in [Actor -> Outcome \cup {None}]
    BY <1>10 DEF SplitTransferred, Writing
  <2>3. TypeOK'
    BY <1>10, <2>1, <2>2 DEF SplitTransferred, Writing
  <2> QED
    BY <1>10, <2>3 DEF SplitTransferred, Writing
<1>11. ASSUME NEW c \in Caller, SplitUnknown(c) PROVE IInv'
  <2>1. rts' \in RouteStatus /\ retryCount' \in Nat
    BY <1>11 DEF SplitUnknown, Writing
  <2>2. pc' \in [Actor -> PC] /\ outcome' \in [Actor -> Outcome \cup {None}]
    BY <1>11 DEF SplitUnknown, Writing
  <2>3. TypeOK'
    BY <1>11, <2>1, <2>2 DEF SplitUnknown, Writing
  <2> QED
    BY <1>11, <2>3 DEF SplitUnknown, Writing
<1>12. ASSUME NEW c \in Caller, SplitManual(c) PROVE IInv'
  <2>1. rts' \in RouteStatus /\ retryCount' \in Nat
    BY <1>12 DEF SplitManual, Writing
  <2>2. pc' \in [Actor -> PC] /\ outcome' \in [Actor -> Outcome \cup {None}]
    BY <1>12 DEF SplitManual, Writing
  <2>3. TypeOK'
    BY <1>12, <2>1, <2>2 DEF SplitManual, Writing
  <2> QED
    BY <1>12, <2>3 DEF SplitManual, Writing
<1>13. ASSUME NEW c \in Caller, SplitRetryLater(c) PROVE IInv'
  <2>1. rts' \in RouteStatus /\ retryCount' \in Nat
    BY <1>13 DEF SplitRetryLater, Writing
  <2>2. pc' \in [Actor -> PC] /\ outcome' \in [Actor -> Outcome \cup {None}]
    BY <1>13 DEF SplitRetryLater, Writing
  <2>3. TypeOK'
    BY <1>13, <2>1, <2>2 DEF SplitRetryLater, Writing
  <2> QED
    BY <1>13, <2>3 DEF SplitRetryLater, Writing
<1>14. ASSUME NEW w \in Worker, WorkerRefuses(w) PROVE IInv'
  BY ZenonT(40), <1>14 DEF WorkerRefuses, Claimable, LeaseHeld, RecordRefusal
<1>15. ASSUME NEW w \in Worker, WorkerClaims(w) PROVE IInv'
  BY ZenonT(40), <1>15 DEF WorkerClaims, Claimable, LeaseHeld
<1>16. ASSUME NEW w \in Worker, RereadStops(w) PROVE IInv'
  BY <1>16 DEF RereadStops
<1>17. ASSUME NEW w \in Worker, RereadRefuses(w) PROVE IInv'
  BY ZenonT(40), <1>17 DEF RereadRefuses, RecordRefusal
<1>18. ASSUME NEW w \in Worker, RereadIncomplete(w) PROVE IInv'
  BY <1>18 DEF RereadIncomplete
<1>19. ASSUME NEW w \in Worker, RereadProceeds(w) PROVE IInv'
  BY <1>19 DEF RereadProceeds
<1>20. ASSUME NEW w \in Worker, RetryTransferred(w) PROVE IInv'
  <2>1. rts' \in RouteStatus /\ retryCount' \in Nat
    BY <1>20 DEF RetryTransferred, Writing
  <2>2. pc' \in [Actor -> PC] /\ outcome' \in [Actor -> Outcome \cup {None}]
    BY <1>20 DEF RetryTransferred, Writing
  <2>3. TypeOK'
    BY <1>20, <2>1, <2>2 DEF RetryTransferred, Writing
  <2> QED
    BY <1>20, <2>3 DEF RetryTransferred, Writing
<1>21. ASSUME NEW w \in Worker, RetryUnknown(w) PROVE IInv'
  <2>1. rts' \in RouteStatus /\ retryCount' \in Nat
    BY <1>21 DEF RetryUnknown, Writing
  <2>2. pc' \in [Actor -> PC] /\ outcome' \in [Actor -> Outcome \cup {None}]
    BY <1>21 DEF RetryUnknown, Writing
  <2>3. TypeOK'
    BY <1>21, <2>1, <2>2 DEF RetryUnknown, Writing
  <2> QED
    BY <1>21, <2>3 DEF RetryUnknown, Writing
<1>22. ASSUME NEW w \in Worker, RetryManual(w) PROVE IInv'
  <2>1. rts' \in RouteStatus /\ retryCount' \in Nat
    BY <1>22 DEF RetryManual, Writing
  <2>2. pc' \in [Actor -> PC] /\ outcome' \in [Actor -> Outcome \cup {None}]
    BY <1>22 DEF RetryManual, Writing
  <2>3. TypeOK'
    BY <1>22, <2>1, <2>2 DEF RetryManual, Writing
  <2> QED
    BY <1>22, <2>3 DEF RetryManual, Writing
<1>23. ASSUME NEW w \in Worker, RetryRejected(w) PROVE IInv'
  <2>1. rts' \in RouteStatus /\ retryCount' \in Nat
    BY <1>23 DEF RetryRejected, Writing
  <2>2. pc' \in [Actor -> PC] /\ outcome' \in [Actor -> Outcome \cup {None}]
    BY <1>23 DEF RetryRejected, Writing
  <2>3. TypeOK'
    BY <1>23, <2>1, <2>2 DEF RetryRejected, Writing
  <2> QED
    BY <1>23, <2>3 DEF RetryRejected, Writing
<1>24. ASSUME NEW a \in Actor, AttemptRefusedLocally(a) PROVE IInv'
  BY <1>24 DEF AttemptRefusedLocally
<1>25. ASSUME NEW a \in Actor, AccountReadFails(a) PROVE IInv'
  BY <1>25 DEF AccountReadFails
<1>26. ASSUME NEW a \in Actor, LookupFails(a) PROVE IInv'
  BY <1>26 DEF LookupFails, CanReconcile
<1>27. ASSUME NEW a \in Actor, LookupFinds(a) PROVE IInv'
  BY <1>27 DEF LookupFinds, CanReconcile
<1>28. ASSUME NEW a \in Actor, LookupFindsNothing(a) PROVE IInv'
  BY <1>28 DEF LookupFindsNothing, CanReconcile
<1>29. ASSUME NEW a \in Actor, PostSucceeds(a) PROVE IInv'
  BY <1>29 DEF PostSucceeds, Land
<1>30. ASSUME NEW a \in Actor, PostRejected(a) PROVE IInv'
  BY <1>30 DEF PostRejected
<1>31. ASSUME NEW a \in Actor, PostUnknown(a) PROVE IInv'
  BY <1>31 DEF PostUnknown, FateOfPost, Land
<1>32. ASSUME LeaseExpires PROVE IInv'
  BY <1>32 DEF LeaseExpires
<1>33. ASSUME Terminate PROVE IInv'
  BY <1>33 DEF Terminate
<1>34. ASSUME LinkBranch PROVE IInv'
  BY <1>34 DEF LinkBranch
<1>35. ASSUME NEW p \in Payment, OrphanDecided(p) PROVE IInv'
  BY <1>35 DEF OrphanDecided
<1>36. ASSUME NEW p \in Payment, Bind(p) PROVE IInv'
  BY <1>36 DEF Bind
<1>37. ASSUME NEW a \in Actor, Crash(a) PROVE IInv'
  BY <1>37 DEF Crash, FateOfPost, Land
<1>38. CASE UNCHANGED vars
  BY <1>38 DEF vars
<1> QED
  BY <1>1, <1>2, <1>3, <1>4, <1>5, <1>6, <1>7, <1>8, <1>9, <1>10, <1>11,
     <1>12, <1>13, <1>14, <1>15, <1>16, <1>17, <1>18, <1>19, <1>20, <1>21,
     <1>22, <1>23, <1>24, <1>25, <1>26, <1>27, <1>28, <1>29, <1>30, <1>31,
     <1>32, <1>33, <1>34, <1>35, <1>36, <1>37, <1>38
  DEF Next, CallerStep, WorkerStep, Attempt, Environment

LEMMA SpecIInv == Spec => []IInv
BY InitIInv, StepIInv, PTL DEF Spec

-----------------------------------------------------------------------------
(* The documents, the executions and the gateway keep their types.         *)
THEOREM TypeCorrect == Spec => []TypeOK
BY SpecIInv, PTL DEF IInv

(* Claim-then-work serializes the callers of executeRouteSplit and the     *)
(* retry worker: at most one of them is between its claim and its write.   *)
THEOREM MutualExclusion == Spec => []OneAttemptAtATime
<1>1. IInv => OneAttemptAtATime
  BY DEF IInv, ClaimOwned, OneAttemptAtATime
<1> QED
  BY <1>1, SpecIInv, PTL

(* An order marked transferred names a transfer the gateway has.           *)
THEOREM NoFabricatedSettlement == Spec => []TransferredIsTrue
<1>1. IInv => TransferredIsTrue
  BY DEF IInv, SettledOnce, TransferredIsTrue
<1> QED
  BY <1>1, SpecIInv, PTL

(* When a timed-out POST is decided before anyone looks again, no captured *)
(* payment is paid out twice, whoever crashes and whoever takes over.      *)
THEOREM PaidOutOnce == Spec => []OnePayoutPerPayment
<1>1. IInv => OnePayoutPerPayment
  BY DEF IInv, LookupIsConclusive, OnePayoutPerPayment
<1> QED
  BY <1>1, SpecIInv, PTL

(* The refusal of a terminal order's payout and its park doc go together.  *)
THEOREM RefusalsAreParked == Spec => []RefusedPaymentIsParked
BY SpecIInv, PTL DEF IInv

(* No payout is in progress on an order whose payout was refused.          *)
THEOREM RefusalsEndAttempts == Spec => []RefusalEndsAttempts
<1>1. IInv => RefusalEndsAttempts
  BY DEF IInv, RefusalStands, ClaimOwned, RefusalEndsAttempts
<1> QED
  BY <1>1, SpecIInv, PTL

(* Nobody moves a settled order, although the final writes are unfenced.   *)
THEOREM SettlementIsFinal == Spec => TransferredIsFinal
<1>1. ASSUME IInv, [Next]_vars, rts = "transferred"
      PROVE  rts' = "transferred" /\ receipt' = receipt
  <2> USE <1>1
      DEF docVars, orderVars, callVars, gateVars, Return, Goto, Attempted
  <2>1. receipt # None /\ branch # "missing" /\ \A a \in Actor : ~Working(a)
    BY DEF IInv, SettledOnce, NoBranchNoClaim, ClaimOwned
  <2>2. ASSUME NEW c \in Caller,
               CallerStep(c) \/ \E p \in Payment : Enter(c, p)
        PROVE  rts' = "transferred" /\ receipt' = receipt
    BY <2>1, <2>2
       DEF CallerStep, Enter, AlreadyTransferred, NothingToSplit,
           FlagMissingBranch, ClaimDone, ClaimConflict, ClaimBusy,
           ClaimRefused, Claim, Unsettled, SplitTransferred, SplitUnknown,
           SplitManual, SplitRetryLater, Writing, Working, Actor
  <2>3. ASSUME NEW w \in Worker, WorkerStep(w)
        PROVE  rts' = "transferred" /\ receipt' = receipt
    BY <2>1, <2>3
       DEF WorkerStep, WorkerRefuses, WorkerClaims, Claimable, RereadStops,
           RereadRefuses, RereadIncomplete, RereadProceeds,
           RetryTransferred, RetryUnknown, RetryManual, RetryRejected,
           Writing, Working, Actor
  <2>4. ASSUME NEW a \in Actor, Attempt(a)
        PROVE  rts' = "transferred" /\ receipt' = receipt
    BY <2>4
       DEF Attempt, AttemptRefusedLocally, AccountReadFails, LookupFails,
           LookupFinds, LookupFindsNothing, PostSucceeds, PostRejected,
           PostUnknown
  <2>5. CASE Environment
    BY <2>5 DEF Environment, LeaseExpires, Terminate, LinkBranch,
                OrphanDecided, Bind, Crash
  <2>6. CASE UNCHANGED vars
    BY <2>6 DEF vars
  <2> QED
    BY <2>2, <2>3, <2>4, <2>5, <2>6 DEF Next
<1>2. IInv /\ [Next]_vars
        => [rts = "transferred" =>
              rts' = "transferred" /\ receipt' = receipt]_vars
  BY <1>1
<1> QED
  BY <1>2, SpecIInv, PTL DEF Spec, TransferredIsFinal

-----------------------------------------------------------------------------
(* The protocol implements the abstract payout: every step pays out a      *)
(* payment that nobody waited for a transfer of before, lets a forgotten   *)
(* POST land, settles the order once, or leaves all three alone.           *)
recorded == IF rts = "transferred" THEN receipt ELSE None

LEMMA StepPayout ==
    ASSUME IInv, IInv', [Next]_vars
    PROVE  [P!Next]_<<landed, late, recorded>>
<1> USE ConstantsAssumption
    DEF recorded, docVars, orderVars, callVars, gateVars, Return, Goto,
        Attempted
<1>1. landed \in [Payment -> Nat] /\ late \in [Payment -> Nat]
  BY DEF IInv, TypeOK
<1>2. ASSUME NEW a \in Actor, pc[a] = "posting", Land(pay[a]),
             UNCHANGED docVars
      PROVE  [P!Next]_<<landed, late, recorded>>
  <2>1. pay[a] \in Payment /\ landed[pay[a]] = late[pay[a]]
    BY <1>2 DEF IInv, LocalsKnown, LookupIsConclusive
  <2>2. P!PayOut(pay[a])
    BY <1>2, <2>1 DEF P!PayOut, Land, IInv, TypeOK
  <2> QED BY <2>1, <2>2 DEF P!Next
<1>3. ASSUME NEW a \in Actor, Writing(a, {"ok"}), UNCHANGED gateVars,
             rts' = "transferred", receipt' = pay[a]
      PROVE  [P!Next]_<<landed, late, recorded>>
  <2>1. rts = "transferring" /\ pay[a] \in Payment /\ landed[pay[a]] > 0
    BY <1>1, <1>3 DEF Writing, Working, IInv, ClaimOwned, LocalsKnown
  <2>2. P!Settle(pay[a])
    BY <1>3, <2>1 DEF P!Settle
  <2> QED BY <2>1, <2>2 DEF P!Next
<1> DEFINE Quiet == /\ UNCHANGED <<landed, late>>
                    /\ \/ UNCHANGED <<rts, receipt>>
                       \/ rts # "transferred" /\ rts' # "transferred"
<1>4. ASSUME Quiet PROVE [P!Next]_<<landed, late, recorded>>
  BY <1>4
<1>5. ASSUME NEW c \in Caller,
             CallerStep(c) \/ \E p \in Payment : Enter(c, p)
      PROVE  [P!Next]_<<landed, late, recorded>>
  <2>1. CASE SplitTransferred(c)
    BY <1>3, <2>1 DEF SplitTransferred, Actor
  <2>2. CASE ~SplitTransferred(c)
    <3>1. Working(c) => rts = "transferring"
      BY DEF IInv, ClaimOwned, Actor
    <3>2. branch = "missing" => rts # "transferred"
      BY DEF IInv, NoBranchNoClaim
    <3>3. Quiet
      BY <1>5, <2>2, <3>1, <3>2
         DEF CallerStep, Enter, AlreadyTransferred, NothingToSplit,
             FlagMissingBranch, ClaimDone, ClaimConflict, ClaimBusy,
             ClaimRefused, RecordRefusal, Claim, StampLease, Unsettled,
             SplitUnknown, SplitManual, SplitRetryLater, Writing, Working
    <3> QED BY <1>4, <3>3
  <2> QED BY <2>1, <2>2
<1>6. ASSUME NEW w \in Worker, WorkerStep(w)
      PROVE  [P!Next]_<<landed, late, recorded>>
  <2>1. CASE RetryTransferred(w)
    BY <1>3, <2>1 DEF RetryTransferred, Actor
  <2>2. CASE ~RetryTransferred(w)
    <3>1. Working(w) => rts = "transferring"
      BY DEF IInv, ClaimOwned, Actor
    <3>2. Quiet
      BY <1>6, <2>2, <3>1
         DEF WorkerStep, WorkerRefuses, WorkerClaims, Claimable, StampLease,
             RecordRefusal, RereadStops, RereadRefuses, RereadIncomplete,
             RereadProceeds, RetryUnknown, RetryManual, RetryRejected,
             Writing, Working
    <3> QED BY <1>4, <3>2
  <2> QED BY <2>1, <2>2
<1>7. ASSUME NEW a \in Actor, Attempt(a)
      PROVE  [P!Next]_<<landed, late, recorded>>
  <2>1. CASE PostSucceeds(a)
    BY <1>2, <2>1 DEF PostSucceeds
  <2>2. CASE PostUnknown(a)
    <3>1. CASE Land(pay[a])
      BY <1>2, <2>2, <3>1 DEF PostUnknown
    <3>2. CASE UNCHANGED gateVars
      BY <1>4, <2>2, <3>2 DEF PostUnknown
    <3> QED BY <2>2, <3>1, <3>2 DEF PostUnknown, FateOfPost
  <2>3. CASE ~PostSucceeds(a) /\ ~PostUnknown(a)
    <3>1. Quiet
      BY <1>7, <2>3
         DEF Attempt, AttemptRefusedLocally, AccountReadFails, LookupFails,
             LookupFinds, LookupFindsNothing, PostRejected
    <3> QED BY <1>4, <3>1
  <2> QED BY <2>1, <2>2, <2>3
<1>8. CASE Environment
  <2>1. CASE \E a \in Actor : Crash(a)
    <3> PICK a \in Actor : Crash(a)
      BY <2>1
    <3>1. CASE pc[a] = "posting" /\ Land(pay[a])
      BY <1>2, <3>1 DEF Crash
    <3>2. CASE UNCHANGED gateVars
      BY <1>4, <3>2 DEF Crash
    <3> QED BY <3>1, <3>2 DEF Crash, FateOfPost
  <2>2. CASE \E p \in Payment : OrphanDecided(p)
    <3> PICK p \in Payment : OrphanDecided(p)
      BY <2>2
    <3>1. UNCHANGED recorded
      BY DEF OrphanDecided
    <3>2. UNCHANGED <<landed, late>> \/ P!PaidLate(p)
      BY <3>1 DEF OrphanDecided, P!PaidLate
    <3> QED BY <3>1, <3>2 DEF P!Next
  <2>3. CASE LeaseExpires \/ Terminate \/ LinkBranch
                \/ \E p \in Payment : Bind(p)
    <3>1. Quiet
      BY <2>3 DEF LeaseExpires, Terminate, LinkBranch, Bind
    <3> QED BY <1>4, <3>1
  <2> QED BY <1>8, <2>1, <2>2, <2>3 DEF Environment
<1>9. CASE UNCHANGED vars
  BY <1>4, <1>9 DEF vars
<1> QED
  BY <1>5, <1>6, <1>7, <1>8, <1>9 DEF Next

(* executeRouteSplit, attemptRouteTransfer and the retry worker together   *)
(* implement Payout, for every set of callers, workers and payments.       *)
THEOREM Implementation == Spec => ImplementsPayout
<1>1. Init => P!Init
  BY DEF Init, P!Init
<1>2. IInv /\ IInv' /\ [Next]_vars => [P!Next]_<<landed, late, recorded>>
  BY StepPayout
<1>3. [P!Next]_<<landed, late, recorded>>
        <=> [P!Next]_<<landed, late,
                       IF rts = "transferred" THEN receipt ELSE None>>
  BY DEF recorded
<1> QED
  BY <1>1, <1>2, <1>3, SpecIInv, PTL DEF Spec, ImplementsPayout, P!Spec

=============================================================================
