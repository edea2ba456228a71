---------------------------- MODULE RefundProofs ----------------------------
(***************************************************************************)
(* Refund for any executions, requests, receipts and amounts: first the    *)
(* claim protocol, which depends only on whether a refund returned         *)
(* anything, then the amounts, by the sums of module Sums.                 *)
(***************************************************************************)
EXTENDS Refund, Sums

(* The part of the types that the argument needs.                          *)
ProtocolTypes ==
    /\ claim \in Request \cup {None}
    /\ scalar \in RefundId \cup {None}
    /\ req \in [Request -> {"none", "pending", "completed"}]
    /\ wanted \in [Request -> Amount \cup {Full, None}]
    /\ pc \in [Worker -> {"idle", "posting", "recording"}]
    /\ id \in [Worker -> Request \cup {None}]
    /\ amount \in [Worker -> Amount \cup {Full, None}]
    /\ body \in [Request -> Amount \cup {Full, None}]
    /\ inFlight \subseteq Request
    /\ ledger = [x \in RefundId |-> ledger[x]]
    /\ refunded = [x \in RefundId |-> refunded[x]]

(* An active execution carries the amount its request was first made for,  *)
(* and asks the gateway only for a request that exists.                    *)
ActiveIsWanted ==
    \A w \in Worker : pc[w] # "idle" =>
        /\ id[w] \in Request
        /\ req[id[w]] # "none"
        /\ amount[w] = wanted[id[w]]

WantedIsSet == \A r \in Request : req[r] # "none" => wanted[r] \in Amount \cup {Full}

(* A key the gateway knows has the request's amount.                       *)
BodyIsWanted ==
    \A r \in Request : body[r] # None => req[r] # "none" /\ body[r] = wanted[r]

FlightIsKeyed == \A r \in inFlight : body[r] # None
RefundIsKeyed == \A r \in Request : refunded[r] # 0 => body[r] # None

(* The ledger holds what the gateway returned.                             *)
LedgerIsTrue == \A x \in RefundId : ledger[x] # 0 => ledger[x] = refunded[x]

AnsweredIsRefunded ==
    \A w \in Worker : pc[w] = "recording" => refunded[id[w]] # 0

IInv ==
    /\ ProtocolTypes /\ ActiveIsWanted /\ WantedIsSet /\ BodyIsWanted
    /\ FlightIsKeyed /\ RefundIsKeyed /\ LedgerIsTrue /\ AnsweredIsRefunded
    /\ PendingIsClaimed /\ CompletedIsRecorded

USE ConstantsAssumption DEF RefundId

LEMMA InitIInv == Init => IInv
BY DEF Init, IInv, ProtocolTypes, ActiveIsWanted, WantedIsSet, BodyIsWanted,
       FlightIsKeyed, RefundIsKeyed, LedgerIsTrue, AnsweredIsRefunded,
       PendingIsClaimed, CompletedIsRecorded

(* Folding a receipt in, and entering a refund, keep the ledger true.      *)
LEMMA FoldedLedgerIsTrue ==
    ASSUME ProtocolTypes, LedgerIsTrue
    PROVE  /\ FoldedLedger = [x \in RefundId |-> FoldedLedger[x]]
           /\ \A x \in RefundId :
                /\ FoldedLedger[x] # 0 => FoldedLedger[x] = refunded[x]
                /\ ledger[x] # 0 => FoldedLedger[x] = ledger[x]
BY DEF ProtocolTypes, LedgerIsTrue, FoldedLedger, ScalarUnrepresented

LEMMA LedgerWithIsTrue ==
    ASSUME ProtocolTypes, LedgerIsTrue, NEW y \in RefundId
    PROVE  /\ LedgerWith(y) = [x \in RefundId |-> LedgerWith(y)[x]]
           /\ LedgerWith(y)[y] = refunded[y]
           /\ \A x \in RefundId :
                /\ LedgerWith(y)[x] # 0 => LedgerWith(y)[x] = refunded[x]
                /\ ledger[x] # 0 => LedgerWith(y)[x] = ledger[x]
BY FoldedLedgerIsTrue DEF LedgerIsTrue, LedgerWith

(* The gateway's decision never takes back what a key returned.            *)
LEMMA ReturnsIsStable ==
    ASSUME NEW r \in Request, NEW a, refunded[r] # 0, body[r] = a
    PROVE  Returns(r, a) = refunded[r]
BY DEF Returns

LEMMA NextIInv == IInv /\ [Next]_vars => IInv'
<1> SUFFICES ASSUME IInv, [Next]_vars PROVE IInv'
  OBVIOUS
<1> USE DEF IInv, ActiveIsWanted, WantedIsSet, BodyIsWanted,
            FlightIsKeyed, RefundIsKeyed, LedgerIsTrue, AnsweredIsRefunded,
            PendingIsClaimed, CompletedIsRecorded,
            docVars, claimVars, callVars, gateVars
<1>1. ASSUME NEW w \in Worker, NEW r \in Request, NEW a \in Amount \cup {Full},
             Claim(w, r, a)
      PROVE  IInv'
  <2>1. /\ ledger' = [x \in RefundId |-> ledger'[x]]
        /\ LedgerIsTrue'
        /\ \A x \in RefundId : ledger[x] # 0 => ledger'[x] = ledger[x]
    BY <1>1, FoldedLedgerIsTrue DEF Claim
  <2>2. ProtocolTypes'
    BY ZenonT(40), <1>1, <2>1 DEF Claim, ProtocolTypes
  <2>3. req[r] # "none" => wanted[r] = a
    BY <1>1 DEF Claim, Recovery, Fresh
  <2>4. /\ ActiveIsWanted' /\ WantedIsSet' /\ BodyIsWanted'
    BY <1>1, <2>3 DEF Claim, ProtocolTypes
  <2>5. FlightIsKeyed' /\ RefundIsKeyed' /\ AnsweredIsRefunded'
    BY ZenonT(40), <1>1 DEF Claim, ProtocolTypes
  <2>6. claim \in {None, r} /\ req[r] # "completed"
    BY <1>1 DEF Claim, ClaimAllows, Recovery, Fresh
  <2>7. PendingIsClaimed'
    BY <1>1, <2>6 DEF Claim, ProtocolTypes
  <2>8. CompletedIsRecorded'
    BY ZenonT(40), <1>1, <2>1 DEF Claim, ProtocolTypes
  <2> QED BY <2>1, <2>2, <2>4, <2>5, <2>7, <2>8
<1>2. ASSUME NEW w \in Worker, PostAnswers(w) PROVE IInv'
  <2>1. /\ id[w] \in Request /\ refunded'[id[w]] # 0 /\ body'[id[w]] # None
        /\ body'[id[w]] = wanted[id[w]]
    BY <1>2 DEF PostAnswers, ProtocolTypes
  <2>2. \A x \in RefundId : refunded[x] # 0 => refunded'[x] = refunded[x]
    BY <1>2, ReturnsIsStable DEF PostAnswers, ProtocolTypes
  <2>3. ProtocolTypes'
    BY <1>2 DEF PostAnswers, ProtocolTypes
  <2>4. CompletedIsRecorded' /\ LedgerIsTrue'
    BY <1>2, <2>2 DEF PostAnswers, ProtocolTypes
  <2>5. ActiveIsWanted'
    BY <1>2, <2>1, <2>2 DEF PostAnswers, ProtocolTypes
  <2>6. WantedIsSet'
    BY <1>2, <2>1, <2>2 DEF PostAnswers, ProtocolTypes
  <2>7. BodyIsWanted'
    BY <1>2, <2>1, <2>2 DEF PostAnswers, ProtocolTypes
  <2>8. FlightIsKeyed'
    BY <1>2, <2>1, <2>2 DEF PostAnswers, ProtocolTypes
  <2>9. RefundIsKeyed'
    BY <1>2, <2>1, <2>2 DEF PostAnswers, ProtocolTypes
  <2>10. AnsweredIsRefunded'
    <3> SUFFICES ASSUME NEW v \in Worker, pc'[v] = "recording"
                 PROVE  refunded'[id'[v]] # 0
      OBVIOUS
    <3>1. id' = id /\ (v = w \/ pc[v] = "recording")
      BY <1>2 DEF PostAnswers, ProtocolTypes
    <3>2. pc[v] = "recording" => id[v] \in RefundId /\ refunded[id[v]] # 0
      OBVIOUS
    <3> QED BY <3>1, <3>2, <2>1, <2>2
  <2>11. PendingIsClaimed'
    BY <1>2, <2>1, <2>2 DEF PostAnswers, ProtocolTypes
  <2> QED BY <2>3, <2>4, <2>5, <2>6, <2>7, <2>8, <2>9, <2>10, <2>11
<1>3. ASSUME NEW w \in Worker, PostFails(w) PROVE IInv'
  <2>1. id[w] \in Request /\ amount[w] = wanted[id[w]] /\ amount[w] # None
    BY <1>3 DEF PostFails, ProtocolTypes
  <2>2. ProtocolTypes'
    BY <1>3, <2>1 DEF PostFails, ProtocolTypes
  <2>3. ActiveIsWanted'
    BY <1>3, <2>1 DEF PostFails, ProtocolTypes
  <2>4. WantedIsSet'
    BY <1>3, <2>1 DEF PostFails, ProtocolTypes
  <2>5. BodyIsWanted'
    BY <1>3, <2>1 DEF PostFails, ProtocolTypes
  <2>6. FlightIsKeyed'
    BY <1>3, <2>1 DEF PostFails, ProtocolTypes
  <2>7. RefundIsKeyed'
    BY <1>3, <2>1 DEF PostFails, ProtocolTypes
  <2>8. LedgerIsTrue'
    BY <1>3, <2>1 DEF PostFails, ProtocolTypes
  <2>9. AnsweredIsRefunded'
    BY ZenonT(40), <1>3, <2>1 DEF PostFails, ProtocolTypes
  <2>10. PendingIsClaimed'
    BY <1>3, <2>1 DEF PostFails, ProtocolTypes
  <2>11. CompletedIsRecorded'
    BY <1>3, <2>1 DEF PostFails, ProtocolTypes
  <2> QED BY <2>2, <2>3, <2>4, <2>5, <2>6, <2>7, <2>8, <2>9, <2>10, <2>11
<1>4. ASSUME NEW r \in Request, PostLands(r) PROVE IInv'
  <2>1. \A x \in RefundId : refunded[x] # 0 => refunded'[x] = refunded[x]
    BY <1>4, ReturnsIsStable DEF PostLands, ProtocolTypes
  <2>2. ProtocolTypes' /\ RefundIsKeyed'
    BY ZenonT(40), <1>4 DEF PostLands, ProtocolTypes
  <2>3. CompletedIsRecorded' /\ LedgerIsTrue'
    BY <1>4, <2>1 DEF PostLands, ProtocolTypes
  <2>4. ActiveIsWanted'
    BY <1>4, <2>1 DEF PostLands, ProtocolTypes
  <2>5. WantedIsSet'
    BY <1>4, <2>1 DEF PostLands, ProtocolTypes
  <2>6. BodyIsWanted'
    BY <1>4, <2>1 DEF PostLands, ProtocolTypes
  <2>7. FlightIsKeyed'
    BY <1>4, <2>1 DEF PostLands, ProtocolTypes
  <2>8. AnsweredIsRefunded'
    <3> SUFFICES ASSUME NEW v \in Worker, pc[v] = "recording"
                 PROVE  refunded'[id[v]] # 0
      BY <1>4 DEF PostLands
    <3>1. id[v] \in RefundId /\ refunded[id[v]] # 0
      OBVIOUS
    <3> QED BY <3>1, <2>1
  <2>9. PendingIsClaimed'
    BY <1>4, <2>1 DEF PostLands, ProtocolTypes
  <2> QED BY <2>2, <2>3, <2>4, <2>5, <2>6, <2>7, <2>8, <2>9
<1>5. ASSUME NEW w \in Worker, Complete(w) PROVE IInv'
  <2>1. id[w] \in Request /\ refunded[id[w]] # 0 /\ req[id[w]] # "none"
    BY <1>5 DEF Complete, ProtocolTypes
  <2>2. /\ ledger' = [x \in RefundId |-> ledger'[x]]
        /\ LedgerIsTrue'
        /\ ledger'[id[w]] = refunded[id[w]]
        /\ \A x \in RefundId : ledger[x] # 0 => ledger'[x] = ledger[x]
    BY <1>5, <2>1, LedgerWithIsTrue DEF Complete
  <2>3. ProtocolTypes'
    BY <1>5, <2>1, <2>2 DEF Complete, ProtocolTypes
  <2>4. PendingIsClaimed'
    BY <1>5, <2>1 DEF Complete, StillOwns, ProtocolTypes
  <2>5. CompletedIsRecorded'
    BY ZenonT(40), <1>5, <2>1, <2>2 DEF Complete, ProtocolTypes
  <2>6. ActiveIsWanted'
    BY <1>5, <2>1 DEF Complete, ProtocolTypes
  <2>7. WantedIsSet'
    BY <1>5, <2>1 DEF Complete, ProtocolTypes
  <2>8. BodyIsWanted'
    BY <1>5, <2>1 DEF Complete, ProtocolTypes
  <2>9. FlightIsKeyed'
    BY <1>5, <2>1 DEF Complete, ProtocolTypes
  <2>10. RefundIsKeyed'
    BY <1>5, <2>1 DEF Complete, ProtocolTypes
  <2>11. AnsweredIsRefunded'
    BY <1>5, <2>1 DEF Complete, ProtocolTypes
  <2> QED BY <2>2, <2>3, <2>4, <2>5, <2>6, <2>7, <2>8, <2>9, <2>10, <2>11
<1>6. ASSUME NEW w \in Worker, Kill(w) PROVE IInv'
  BY ZenonT(40), <1>6 DEF Kill, ProtocolTypes
<1>7. CASE ClaimGoesStale
  BY <1>7 DEF ClaimGoesStale, ProtocolTypes
<1>8. ASSUME NEW y \in RefundId, RefundProcessed(y) PROVE IInv'
  <2>1. /\ ledger' = [x \in RefundId |-> ledger'[x]]
        /\ LedgerIsTrue'
        /\ \A x \in RefundId : ledger[x] # 0 => ledger'[x] = ledger[x]
    <3>1. ledger' = LedgerWith(y) /\ refunded' = refunded
      BY <1>8 DEF RefundProcessed
    <3>2. ProtocolTypes /\ LedgerIsTrue
      OBVIOUS
    <3>3. /\ LedgerWith(y) = [x \in RefundId |-> LedgerWith(y)[x]]
          /\ \A x \in RefundId :
               /\ LedgerWith(y)[x] # 0 => LedgerWith(y)[x] = refunded[x]
               /\ ledger[x] # 0 => LedgerWith(y)[x] = ledger[x]
      BY <3>2, LedgerWithIsTrue
    <3> QED BY ZenonT(40), <3>1, <3>3
  <2>2. /\ UNCHANGED <<claimVars, callVars, refunded, body, inFlight>>
        /\ scalar' \in RefundId
    BY <1>8 DEF RefundProcessed
  <2>3. ProtocolTypes'
    BY <2>1, <2>2 DEF ProtocolTypes
  <2>4. /\ ActiveIsWanted' /\ WantedIsSet' /\ BodyIsWanted' /\ FlightIsKeyed'
        /\ RefundIsKeyed' /\ AnsweredIsRefunded' /\ PendingIsClaimed'
    BY <2>2
  <2>5. CompletedIsRecorded'
    BY <2>1, <2>2
  <2> QED BY <2>1, <2>3, <2>4, <2>5
<1>9. ASSUME NEW d \in Dashboard, NEW a \in Amount, DashboardRefund(d, a)
      PROVE  IInv'
  <2>1. \A x \in RefundId : x # d => refunded'[x] = refunded[x]
    BY <1>9 DEF DashboardRefund, ProtocolTypes
  <2>2. ProtocolTypes'
    BY ZenonT(40), <1>9 DEF DashboardRefund, ProtocolTypes
  <2>3. ActiveIsWanted'
    BY <1>9, <2>1 DEF DashboardRefund, ProtocolTypes
  <2>4. WantedIsSet'
    BY <1>9, <2>1 DEF DashboardRefund, ProtocolTypes
  <2>5. BodyIsWanted'
    BY <1>9, <2>1 DEF DashboardRefund, ProtocolTypes
  <2>6. FlightIsKeyed'
    BY <1>9, <2>1 DEF DashboardRefund, ProtocolTypes
  <2>7. RefundIsKeyed'
    BY <1>9, <2>1 DEF DashboardRefund, ProtocolTypes
  <2>8. LedgerIsTrue'
    BY <1>9, <2>1 DEF DashboardRefund, ProtocolTypes
  <2>9. AnsweredIsRefunded'
    BY <1>9, <2>1 DEF DashboardRefund, ProtocolTypes
  <2>10. PendingIsClaimed'
    BY <1>9, <2>1 DEF DashboardRefund, ProtocolTypes
  <2>11. CompletedIsRecorded'
    BY <1>9, <2>1 DEF DashboardRefund, ProtocolTypes
  <2> QED BY <2>2, <2>3, <2>4, <2>5, <2>6, <2>7, <2>8, <2>9, <2>10, <2>11
<1>10. ASSUME NEW y \in RefundId, NoticeTaken(y) \/ NoticeExpires(y) PROVE IInv'
  <2>1. UNCHANGED <<docVars, claimVars, callVars, refunded, body, inFlight>>
    BY <1>10 DEF NoticeTaken, NoticeExpires
  <2> QED BY <2>1 DEF ProtocolTypes
<1>11. CASE UNCHANGED vars
  BY <1>11 DEF vars, ProtocolTypes, Asking
<1> QED
  BY <1>1, <1>2, <1>3, <1>4, <1>5, <1>6, <1>7, <1>8, <1>9, <1>10, <1>11 DEF Next

(* Only the event of a refund that returned something is ever claimed.     *)
NoticeIsTrue ==
    /\ notice \in [RefundId -> Notice]
    /\ \A x \in RefundId : notice[x] = "claimed" => refunded[x] # 0

LEMMA InitNotice == Init => NoticeIsTrue
BY DEF Init, NoticeIsTrue, Notice

LEMMA NextNotice == IInv /\ NoticeIsTrue /\ [Next]_vars => NoticeIsTrue'
<1> SUFFICES ASSUME IInv, NoticeIsTrue, [Next]_vars PROVE NoticeIsTrue'
  OBVIOUS
<1> USE DEF NoticeIsTrue
<1>1. ASSUME UNCHANGED <<refunded, notice>> PROVE NoticeIsTrue'
  BY <1>1
<1>2. ASSUME NEW w \in Worker,
             \/ \E r \in Request, a \in Amount \cup {Full} : Claim(w, r, a)
             \/ PostFails(w) \/ Complete(w) \/ Kill(w)
      PROVE  NoticeIsTrue'
  BY <1>1, <1>2 DEF Claim, PostFails, Complete, Kill, gateVars
<1>3. ASSUME NEW w \in Worker, PostAnswers(w) PROVE NoticeIsTrue'
  <2>1. id[w] \in Request
    BY <1>3 DEF IInv, ActiveIsWanted, PostAnswers
  <2>2. \A x \in RefundId : refunded[x] # 0 => refunded'[x] # 0
    BY <1>3, <2>1 DEF IInv, ProtocolTypes, PostAnswers
  <2> QED BY <1>3, <2>2 DEF PostAnswers
<1>4. ASSUME NEW r \in Request, PostLands(r) PROVE NoticeIsTrue'
  <2>1. \A x \in RefundId : refunded[x] # 0 => refunded'[x] # 0
    BY <1>4, ReturnsIsStable DEF IInv, ProtocolTypes, PostLands
  <2> QED BY <1>4, <2>1 DEF PostLands
<1>5. ASSUME NEW y \in RefundId, NoticeTaken(y) \/ NoticeExpires(y)
      PROVE  NoticeIsTrue'
  BY <1>5 DEF NoticeTaken, NoticeExpires, Notice
<1>6. ASSUME NEW d \in Dashboard, NEW a \in Amount, DashboardRefund(d, a)
      PROVE  NoticeIsTrue'
  <2>1. \A x \in RefundId : refunded[x] # 0 => refunded'[x] # 0
    BY <1>6 DEF IInv, ProtocolTypes, DashboardRefund
  <2> QED BY <1>6, <2>1 DEF DashboardRefund
<1>7. ASSUME ClaimGoesStale \/ (\E y \in RefundId : RefundProcessed(y)) \/ UNCHANGED vars
      PROVE  NoticeIsTrue'
  BY <1>1, <1>7 DEF ClaimGoesStale, RefundProcessed, gateVars, vars
<1> QED BY <1>2, <1>3, <1>4, <1>5, <1>6, <1>7 DEF Next

LEMMA IInvIsInvariant == Spec => []IInv
BY InitIInv, NextIInv, PTL DEF Spec

(* A pending request holds the order's claim and a claim belongs to a      *)
(* pending request (autoRefund's claim and completion transactions).       *)
THEOREM ClaimBelongsToPending == Spec => []PendingIsClaimed
<1>1. IInv => PendingIsClaimed
  BY DEF IInv
<1> QED BY <1>1, IInvIsInvariant, PTL

(* Two requests never have the gateway's decision open at a time.          *)
THEOREM OneDecisionAtATime == Spec => []OneRequestAtATime
<1>1. IInv => OneRequestAtATime
  <2> SUFFICES ASSUME IInv, NEW r1 \in Request, NEW r2 \in Request,
                      Asking(r1), Asking(r2)
               PROVE  r1 = r2
    BY DEF OneRequestAtATime
  <2>1. \A r \in Request : Asking(r) => req[r] = "pending"
    <3> SUFFICES ASSUME NEW r \in Request, Asking(r) PROVE req[r] = "pending"
      OBVIOUS
    <3>1. req[r] # "none"
      BY DEF IInv, Asking, ActiveIsWanted, FlightIsKeyed, BodyIsWanted
    <3>2. req[r] # "completed"
      BY DEF IInv, Asking, CompletedIsRecorded
    <3> QED BY <3>1, <3>2 DEF IInv, ProtocolTypes
  <2> QED BY <2>1 DEF IInv, PendingIsClaimed
<1> QED BY <1>1, IInvIsInvariant, PTL

(* An idempotency key is never used with two bodies.                       *)
THEOREM KeysAreFaithful == Spec => []SameBodyPerKey
<1>1. IInv => SameBodyPerKey
  BY DEF IInv, SameBodyPerKey, ActiveIsWanted, BodyIsWanted, ProtocolTypes
<1> QED BY <1>1, IInvIsInvariant, PTL

(* A completed request was paid out and stands in the ledger.              *)
THEOREM CompletionIsTrue == Spec => []CompletedIsRecorded
<1>1. IInv => CompletedIsRecorded
  BY DEF IInv
<1> QED BY <1>1, IInvIsInvariant, PTL

-----------------------------------------------------------------------------
(* The amounts.                                                            *)

Returned == SumOf(refunded)

(* What the claim protocol does not need of the types.                     *)
AmountTypes ==
    /\ refundStatus \in Status
    /\ ledger \in [RefundId -> 0..Capture]
    /\ total \in Nat
    /\ keyed \subseteq Request
    /\ fullShape \in BOOLEAN
    /\ claimStale \in BOOLEAN
    /\ refunded \in [RefundId -> 0..Capture]

TotalIsReturned == total <= Returned
NeverMoreThanCaptured == Returned <= Capture

(* A key first used without an amount took what was left of the capture.   *)
FullTookTheRest ==
    \A r \in Request : body[r] = Full /\ refunded[r] # 0 => Returned = Capture

(* A full refund from before the ledger took everything, and no request    *)
(* has been let in since.                                                  *)
LegacyFullIsFinal ==
    fullShape /\ scalar \in Legacy =>
        /\ refunded[scalar] = Capture
        /\ refundStatus = "refunded"
        /\ claim = None
        /\ \A r \in Request : req[r] = "none"

(* The order names its only refund from before the ledger, until the       *)
(* ledger holds it.                                                        *)
LegacyIsSeen ==
    OneLegacyRefund =>
        \A x \in Legacy : refunded[x] # 0 => ledger[x] # 0 \/ scalar = x

AInv ==
    /\ IInv /\ NoticeIsTrue /\ AmountTypes /\ TotalIsReturned /\ NeverMoreThanCaptured
    /\ FullTookTheRest /\ LegacyFullIsFinal /\ LegacyIsSeen /\ AskWithinCapture

(* A sum over all refunds, as Refund writes it and as Sums does.           *)
LEMMA SumOfIsSumOver ==
    ASSUME NEW f, DOMAIN f = RefundId PROVE SumOf(f) = SumOver(f, RefundId)
BY DEF SumOf, FoldFunction, SumOver, SumFunctionOnSet

LEMMA SumOfIsNat ==
    ASSUME NEW f \in [RefundId -> 0..Capture] PROVE SumOf(f) \in Nat
<1>1. \A x \in RefundId : f[x] \in Nat
  OBVIOUS
<1> QED BY <1>1, SumOfIsSumOver, SumIsNat

(* A ledger that holds nothing but what was returned adds up to no more.   *)
LEMMA TrueLedgerSum ==
    ASSUME NEW f \in [RefundId -> 0..Capture], NEW g \in [RefundId -> 0..Capture],
           \A x \in RefundId : f[x] # 0 => f[x] = g[x]
    PROVE  SumOf(f) <= SumOf(g)
<1>1. \A x \in RefundId : f[x] \in Nat /\ g[x] \in Nat /\ f[x] <= g[x]
  OBVIOUS
<1>2. SumOver(f, RefundId) <= SumOver(g, RefundId)
  BY <1>1, SumIsMonotone
<1> QED BY <1>2, SumOfIsSumOver

LEMMA FoldedLedgerType ==
    ASSUME ProtocolTypes, AmountTypes PROVE FoldedLedger \in [RefundId -> 0..Capture]
BY DEF ProtocolTypes, AmountTypes, FoldedLedger, ScalarUnrepresented

LEMMA LedgerWithType ==
    ASSUME ProtocolTypes, AmountTypes, NEW y \in RefundId
    PROVE  LedgerWith(y) \in [RefundId -> 0..Capture]
BY FoldedLedgerType DEF AmountTypes, LedgerWith

LEMMA LargerBounds ==
    ASSUME NEW m \in Nat, NEW n \in Nat
    PROVE  /\ Larger(m, n) \in Nat /\ m <= Larger(m, n) /\ n <= Larger(m, n)
           /\ \A k \in Nat : m <= k /\ n <= k => Larger(m, n) <= k
BY DEF Larger

(* The total entered with a refund is still one that was returned.         *)
LEMMA TotalWithIsReturned ==
    ASSUME AInv, NEW y \in RefundId
    PROVE  TotalWith(y) \in Nat /\ TotalWith(y) <= Returned
<1> USE DEF AInv, IInv
<1>1. SumOf(LedgerWith(y)) <= Returned
  BY LedgerWithType, LedgerWithIsTrue, TrueLedgerSum DEF AmountTypes, Returned
<1>2. SumOf(LedgerWith(y)) \in Nat /\ Returned \in Nat /\ total \in Nat
  BY LedgerWithType, SumOfIsNat DEF AmountTypes, Returned
<1> QED BY <1>1, <1>2, LargerBounds DEF TotalWith, TotalIsReturned

(* Nothing that was returned stays out of a record that is asked for a new *)
(* request, but a dashboard refund or a second one from before the ledger. *)
LEMMA FreshSeesAll ==
    ASSUME AInv, NEW r \in Request, NEW a \in Amount \cup {Full},
           Fresh(r, a), ClaimAllows(r),
           \A d \in Dashboard : refunded[d] = 0, OneLegacyRefund
    PROVE  Returned <= Recorded
<1> USE DEF AInv, IInv
<1>1. claim = None
  BY DEF Fresh, ClaimAllows, PendingIsClaimed
<1>2. ~(fullShape /\ scalar \in Legacy)
  BY DEF Fresh, FullyRefunded, LegacyFullIsFinal
<1>3. ASSUME NEW x \in RefundId, refunded[x] # 0 PROVE FoldedLedger[x] = refunded[x]
  <2>1. CASE x \in Request
    <3>1. req[x] # "none" /\ req[x] # "pending"
      BY <1>1, <1>3, <2>1 DEF RefundIsKeyed, BodyIsWanted, PendingIsClaimed
    <3>2. ledger[x] = refunded[x]
      BY <2>1, <3>1 DEF ProtocolTypes, CompletedIsRecorded
    <3> QED BY <1>3, <3>2, FoldedLedgerIsTrue
  <2>2. CASE x \in Legacy
    <3>1. CASE ledger[x] # 0
      BY <3>1, FoldedLedgerIsTrue DEF LedgerIsTrue
    <3>2. CASE ledger[x] = 0
      <4>1. scalar = x
        BY <1>3, <2>2, <3>2 DEF LegacyIsSeen
      <4>2. ScalarUnrepresented
        BY <1>2, <2>2, <3>2, <4>1 DEF ScalarUnrepresented
      <4> QED BY <4>1, <4>2 DEF FoldedLedger, ProtocolTypes
    <3> QED BY <3>1, <3>2
  <2> QED BY <1>3, <2>1, <2>2
<1>4. Returned <= SumOf(FoldedLedger)
  BY <1>3, FoldedLedgerType, TrueLedgerSum DEF AmountTypes, Returned
<1>5. SumOf(FoldedLedger) \in Nat /\ total \in Nat /\ Returned \in Nat
  BY FoldedLedgerType, SumOfIsNat DEF AmountTypes, Returned
<1> QED BY <1>4, <1>5, LargerBounds DEF Recorded

(* The gateway decides a POST: nothing beyond the capture is returned, and *)
(* a key that had returned something returns that.                         *)
LEMMA GatewayDecides ==
    ASSUME AInv, NEW r \in Request, NEW a \in Amount \cup {Full},
           body[r] \in {None, a},
           refunded' = [refunded EXCEPT ![r] = Returns(r, a)]
    PROVE  /\ refunded' \in [RefundId -> 0..Capture]
           /\ Returned <= Returned' /\ Returned' <= Capture
           /\ refunded[r] # 0 => refunded' = refunded
           /\ a = Full /\ refunded'[r] # 0 => Returned' = Capture
<1> USE DEF AInv, IInv
<1>1. refunded \in [RefundId -> 0..Capture] /\ Returned \in Nat /\ Returned <= Capture
  BY SumOfIsNat DEF AmountTypes, Returned, NeverMoreThanCaptured
<1>2. Remaining \in 0..Capture /\ Remaining = Capture - Returned
  BY <1>1 DEF Remaining, Returned
<1>3. CASE refunded[r] # 0
  <2>1. body[r] = a
    BY <1>3 DEF RefundIsKeyed
  <2>2. Returns(r, a) = refunded[r]
    BY <1>3, <2>1 DEF Returns
  <2>3. refunded' = refunded
    BY <1>1, <2>2
  <2>4. Returned' = Returned
    BY <2>3 DEF Returned
  <2>5. a = Full => Returned' = Capture
    BY <1>3, <2>1, <2>4 DEF FullTookTheRest
  <2> QED BY <1>1, <2>3, <2>4, <2>5
<1>4. CASE refunded[r] = 0
  <2>1. PICK n \in 0..Capture :
            n = Returns(r, a) /\ n <= Remaining /\ (a = Full => n = Remaining)
    BY <1>2, <1>4 DEF Returns
  <2>2. refunded' \in [RefundId -> 0..Capture]
    BY <1>1, <2>1
  <2>3. /\ \A x \in RefundId : refunded[x] \in Nat /\ refunded'[x] \in Nat
        /\ \A x \in RefundId \ {r} : refunded[x] = refunded'[x]
    BY <1>1, <2>2
  <2>4. SumOver(refunded', RefundId) + refunded[r] = SumOver(refunded, RefundId) + refunded'[r]
    <3>1. PICK f, g : f = refunded /\ g = refunded'
      OBVIOUS
    <3>2. /\ \A x \in RefundId : f[x] \in Nat /\ g[x] \in Nat
          /\ \A x \in RefundId \ {r} : f[x] = g[x]
      BY <2>3, <3>1
    <3>3. SumOver(g, RefundId) + f[r] = SumOver(f, RefundId) + g[r]
      BY <3>2, SumChangesBy
    <3> QED BY <3>1, <3>3
  <2>5. Returned = SumOver(refunded, RefundId) /\ Returned' = SumOver(refunded', RefundId)
    BY <1>1, <2>2, SumOfIsSumOver DEF Returned
  <2>6. Returned' \in Nat
    BY <2>2, SumOfIsNat DEF Returned
  <2>7. refunded'[r] = n
    BY <1>1, <2>1
  <2>8. Returned' = Returned + n
    BY <1>1, <1>4, <2>4, <2>5, <2>6, <2>7
  <2> QED BY <1>1, <1>2, <1>4, <2>1, <2>2, <2>8
<1> QED BY <1>3, <1>4

LEMMA InitAInv == Init => AInv
<1> SUFFICES ASSUME Init PROVE AInv
  OBVIOUS
<1>1. PICK past \in [Legacy -> {0, Capture} \cup Amount] :
         /\ IF scalar = None THEN \A x \in Legacy : past[x] = 0
                             ELSE past[scalar] > 0
         /\ SumOf(past) <= Capture
         /\ fullShape => past[scalar] = Capture
         /\ refunded = [x \in RefundId |-> IF x \in Legacy THEN past[x] ELSE 0]
         /\ total \in IF scalar = None
                      THEN {0} ELSE {0, past[scalar], SumOf(past)}
  BY DEF Init
<1>2. past \in [Legacy -> 0..Capture] /\ IsFiniteSet(Legacy)
  <2>1. {0, Capture} \cup Amount \subseteq 0..Capture
    OBVIOUS
  <2>2. Legacy \in SUBSET RefundId /\ IsFiniteSet(RefundId)
    OBVIOUS
  <2>3. IsFiniteSet(Legacy)
    BY <2>2, FS_Subset
  <2> QED BY <2>1, <2>3
<1>3. refunded \in [RefundId -> 0..Capture]
  BY <1>1, <1>2
<1>4. Returned = SumOf(past) /\ Returned \in Nat
  <2>1. Returned = SumOver(refunded, RefundId) /\ Returned \in Nat
    BY <1>3, SumOfIsSumOver, SumOfIsNat DEF Returned
  <2>2. SumOver(refunded, RefundId) = SumOver(refunded, Legacy)
    <3>1. /\ \A x \in RefundId : refunded[x] \in Nat
          /\ Legacy \in SUBSET RefundId
          /\ \A x \in RefundId \ Legacy : refunded[x] = 0
      BY <1>1, <1>3
    <3> QED BY <3>1, SumIgnoresZeros
  <2>3. SumOver(refunded, Legacy) = SumOver(past, Legacy)
    <3>1. \A x \in Legacy : refunded[x] = past[x]
      BY <1>1
    <3> QED BY <1>2, <3>1, SumAgrees
  <2>4. SumOf(past) = SumOver(past, Legacy)
    BY <1>2 DEF SumOf, FoldFunction, SumOver, SumFunctionOnSet
  <2> QED BY <2>1, <2>2, <2>3, <2>4
<1>5. scalar \in Legacy \cup {None} /\ fullShape \in BOOLEAN /\ (fullShape => scalar # None)
  BY DEF Init
<1>6. total \in Nat /\ total <= Returned
  <2>1. CASE scalar = None
    BY <1>1, <1>4, <2>1
  <2>2. CASE scalar \in Legacy
    <3>1. past[scalar] <= SumOver(past, Legacy)
      BY <1>2, <2>2, SumCovers
    <3>2. SumOf(past) = SumOver(past, Legacy)
      BY <1>2 DEF SumOf, FoldFunction, SumOver, SumFunctionOnSet
    <3>3. past[scalar] \in Nat
      BY <1>2, <2>2
    <3> QED BY <1>1, <1>4, <2>2, <3>1, <3>2, <3>3
  <2> QED BY <1>5, <2>1, <2>2
<1>7. AmountTypes
  <2>1. ledger \in [RefundId -> 0..Capture]
    BY DEF Init
  <2>2. refundStatus \in Status
    BY DEF Init, Status
  <2>3. keyed \subseteq Request /\ fullShape \in BOOLEAN /\ claimStale \in BOOLEAN
    BY DEF Init
  <2> QED BY <1>3, <1>6, <2>1, <2>2, <2>3 DEF AmountTypes
<1>8. TotalIsReturned /\ NeverMoreThanCaptured
  BY <1>1, <1>4, <1>6 DEF TotalIsReturned, NeverMoreThanCaptured
<1>9. FullTookTheRest /\ AskWithinCapture
  BY DEF Init, FullTookTheRest, AskWithinCapture, Undecided
<1>10. LegacyFullIsFinal
  BY <1>1, <1>5 DEF Init, LegacyFullIsFinal
<1>11. LegacyIsSeen
  <2> SUFFICES ASSUME OneLegacyRefund, NEW x \in Legacy, refunded[x] # 0
               PROVE  scalar = x
    BY DEF LegacyIsSeen
  <2>1. scalar # None
    BY <1>1
  <2>2. refunded[scalar] # 0
    BY <1>1, <1>2, <1>5, <2>1
  <2> QED BY <1>5, <2>1, <2>2 DEF OneLegacyRefund
<1> QED BY <1>7, <1>8, <1>9, <1>10, <1>11, InitIInv, InitNotice DEF AInv

(* A step that leaves refunded alone keeps what is only about it.          *)
LEMMA ReturnedStays ==
    ASSUME AInv, refunded' = refunded
    PROVE  Returned' = Returned /\ NeverMoreThanCaptured'
BY DEF AInv, NeverMoreThanCaptured, Returned

LEMMA NextAInv == AInv /\ [Next]_vars => AInv'
<1> SUFFICES ASSUME AInv, [Next]_vars PROVE AInv'
  OBVIOUS
<1>1. IInv' /\ NoticeIsTrue'
  BY NextIInv, NextNotice DEF AInv
<1> USE DEF AInv, IInv
<1>2. ASSUME NEW w \in Worker, NEW r \in Request, NEW a \in Amount \cup {Full},
             Claim(w, r, a)
      PROVE  AInv'
  <2>1. Returned' = Returned /\ refunded' = refunded /\ body' = body /\ total' = total
    BY <1>2, ReturnedStays DEF Claim, gateVars
  <2>2. AmountTypes'
    BY <1>2, FoldedLedgerType DEF Claim, AmountTypes, Status, gateVars
  <2>3. TotalIsReturned' /\ NeverMoreThanCaptured' /\ FullTookTheRest'
    BY <2>1 DEF TotalIsReturned, NeverMoreThanCaptured, FullTookTheRest
  <2>4. ~(fullShape /\ scalar \in Legacy)
    BY <1>2 DEF Claim, Fresh, FullyRefunded, Recovery, LegacyFullIsFinal
  <2>5. LegacyFullIsFinal'
    BY <1>2, <2>4 DEF Claim, LegacyFullIsFinal
  <2>6. LegacyIsSeen'
    <3>1. /\ OneLegacyRefund' = OneLegacyRefund /\ scalar' = scalar
          /\ \A x \in RefundId : ledger[x] # 0 => ledger'[x] # 0
      BY <1>2, <2>1, FoldedLedgerIsTrue DEF Claim, OneLegacyRefund
    <3> QED BY <2>1, <3>1 DEF LegacyIsSeen
  <2>7. AskWithinCapture'
    <3> SUFFICES ASSUME \A d \in Dashboard : refunded[d] = 0, OneLegacyRefund,
                        NEW q \in Request, Undecided(q)'
                 PROVE  IF wanted'[q] = Full THEN Returned = 0
                                             ELSE wanted'[q] + Returned <= Capture
      BY <2>1 DEF AskWithinCapture, OneLegacyRefund, Returned
    <3>1. CASE q # r \/ Recovery(r, a)
      <4>1. Undecided(q) /\ wanted'[q] = wanted[q]
        BY <1>2, <2>1, <3>1 DEF Claim, Recovery, Undecided, ProtocolTypes
      <4> QED BY <4>1 DEF AskWithinCapture, Returned
    <3>2. CASE q = r /\ Fresh(r, a)
      <4>1. wanted'[q] = a
        BY <1>2, <3>2 DEF Claim, ProtocolTypes
      <4>2. Returned <= Recorded
        BY <1>2, <3>2, FreshSeesAll DEF Claim
      <4>3. Returned \in Nat /\ Recorded \in Nat
        BY FoldedLedgerType, SumOfIsNat, LargerBounds DEF AmountTypes, Returned, Recorded
      <4> QED BY <3>2, <4>1, <4>2, <4>3 DEF Fresh, WithinRemaining
    <3> QED BY <1>2, <3>1, <3>2 DEF Claim
  <2> QED BY <1>1, <2>2, <2>3, <2>5, <2>6, <2>7
(* The gateway has decided: what it returned is within the capture, and    *)
(* the request, if it was undecided, is not any more.                      *)
<1>3. ASSUME NEW r \in Request, NEW a \in Amount \cup {Full}, req[r] # "none",
             body[r] \in {None, a}, a = wanted[r],
             refunded' = [refunded EXCEPT ![r] = Returns(r, a)],
             body'[r] = a, \A q \in Request \ {r} : body'[q] = body[q],
             UNCHANGED <<docVars, claimVars>>
      PROVE  AInv'
  <2>1. /\ refunded' \in [RefundId -> 0..Capture]
        /\ Returned <= Returned' /\ Returned' <= Capture
        /\ refunded[r] # 0 => refunded' = refunded
        /\ a = Full /\ refunded'[r] # 0 => Returned' = Capture
    BY <1>3, GatewayDecides
  <2>2. Returned \in Nat /\ Returned' \in Nat /\ total \in Nat
    BY <2>1, SumOfIsNat DEF AmountTypes, Returned
  <2>3. AmountTypes'
    BY <1>3, <2>1 DEF AmountTypes, docVars, claimVars
  <2>4. TotalIsReturned' /\ NeverMoreThanCaptured'
    BY <1>3, <2>1, <2>2 DEF TotalIsReturned, NeverMoreThanCaptured, docVars
  <2>5. \A x \in RefundId : x # r => refunded'[x] = refunded[x]
    BY <1>3 DEF AmountTypes
  <2>6. FullTookTheRest'
    <3> SUFFICES ASSUME NEW q \in Request, body'[q] = Full, refunded'[q] # 0
                 PROVE  Returned' = Capture
      BY DEF FullTookTheRest
    <3>1. CASE q = r
      BY <1>3, <2>1, <3>1
    <3>2. CASE q # r
      <4>1. Returned = Capture
        BY <1>3, <2>5, <3>2 DEF FullTookTheRest
      <4> QED BY <2>1, <2>2, <4>1
    <3> QED BY <3>1, <3>2
  <2>7. LegacyFullIsFinal' /\ LegacyIsSeen'
    BY <1>3, <2>5 DEF LegacyFullIsFinal, LegacyIsSeen, OneLegacyRefund, docVars, claimVars
  <2>8. AskWithinCapture'
    <3> SUFFICES ASSUME \A d \in Dashboard : refunded[d] = 0, OneLegacyRefund,
                        NEW q \in Request, req[q] = "pending", refunded'[q] = 0
                 PROVE  IF wanted[q] = Full THEN Returned' = 0
                                            ELSE wanted[q] + Returned' <= Capture
      BY <1>3, <2>5 DEF AskWithinCapture, OneLegacyRefund, Undecided, Returned, claimVars
    <3>1. refunded' = refunded
      <4>1. CASE refunded[r] # 0
        BY <2>1, <4>1
      <4>2. CASE refunded[r] = 0
        <5>1. req[r] = "pending"
          BY <1>3, <4>2 DEF ProtocolTypes, CompletedIsRecorded
        <5>2. q = r
          BY <5>1 DEF PendingIsClaimed
        <5>3. \A x \in RefundId : refunded'[x] = refunded[x]
          BY <2>5, <4>2, <5>2
        <5> QED BY <2>1, <5>3 DEF AmountTypes
      <4> QED BY <4>1, <4>2
    <3>2. Returned' = Returned
      BY <3>1, ReturnedStays
    <3> QED BY <3>1, <3>2 DEF AskWithinCapture, Undecided, Returned
  <2> QED BY <1>1, <2>3, <2>4, <2>6, <2>7, <2>8
<1>4. ASSUME NEW w \in Worker, PostAnswers(w) PROVE AInv'
  <2> DEFINE r == id[w]  a == amount[w]
  <2>1. r \in Request /\ req[r] # "none" /\ a = wanted[r] /\ a \in Amount \cup {Full}
    BY <1>4 DEF PostAnswers, ActiveIsWanted, WantedIsSet, ProtocolTypes
  <2>2. /\ body[r] \in {None, a}
        /\ refunded' = [refunded EXCEPT ![r] = Returns(r, a)]
        /\ body' = [body EXCEPT ![r] = a]
        /\ UNCHANGED <<docVars, claimVars>>
    BY <1>4 DEF PostAnswers
  <2>3. body'[r] = a /\ \A q \in Request \ {r} : body'[q] = body[q]
    BY <2>1, <2>2 DEF ProtocolTypes
  <2> HIDE DEF r, a
  <2> QED BY <1>3, <2>1, <2>2, <2>3
<1>5. ASSUME NEW r \in Request, PostLands(r) PROVE AInv'
  <2>1. body[r] # None /\ req[r] # "none" /\ body[r] = wanted[r]
    BY <1>5 DEF PostLands, FlightIsKeyed, BodyIsWanted
  <2>2. body[r] \in Amount \cup {Full}
    BY <2>1 DEF ProtocolTypes
  <2>3. /\ refunded' = [refunded EXCEPT ![r] = Returns(r, body[r])]
        /\ body' = body /\ UNCHANGED <<docVars, claimVars>>
    BY <1>5 DEF PostLands
  <2> QED BY <1>3, <2>1, <2>2, <2>3
<1>6. ASSUME NEW w \in Worker, PostFails(w) PROVE AInv'
  <2>1. refunded' = refunded /\ UNCHANGED <<docVars, claimVars>>
    BY <1>6 DEF PostFails
  <2>2. Returned' = Returned /\ NeverMoreThanCaptured'
    BY <2>1, ReturnedStays
  <2>3. AmountTypes' /\ TotalIsReturned' /\ LegacyFullIsFinal' /\ LegacyIsSeen'
    BY <2>1, <2>2 DEF AmountTypes, TotalIsReturned, LegacyFullIsFinal, LegacyIsSeen,
       OneLegacyRefund, docVars, claimVars
  <2>4. FullTookTheRest'
    <3>1. \A q \in Request : refunded[q] # 0 => body'[q] = body[q]
      <4>1. id[w] \in Request /\ amount[w] = wanted[id[w]]
        BY <1>6 DEF PostFails, ActiveIsWanted
      <4>2. refunded[id[w]] # 0 => body[id[w]] = amount[w]
        BY <4>1 DEF RefundIsKeyed, BodyIsWanted
      <4> QED BY <1>6, <4>1, <4>2 DEF PostFails, ProtocolTypes
    <3> QED BY <2>1, <2>2, <3>1 DEF FullTookTheRest
  <2>5. AskWithinCapture'
    BY <2>1, <2>2 DEF AskWithinCapture, OneLegacyRefund, Undecided, Returned, claimVars
  <2> QED BY <1>1, <2>2, <2>3, <2>4, <2>5
(* A refund is entered, by its execution or by its webhook.                *)
<1>7. ASSUME NEW y \in RefundId, refunded[y] # 0,
             ledger' = LedgerWith(y), total' = TotalWith(y), scalar' = y,
             UNCHANGED gateVars, fullShape' \in BOOLEAN, refundStatus' \in Status,
             claimStale' \in BOOLEAN, keyed' \subseteq Request,
             y \in Legacy => ~fullShape',
             y \in Request => \E q \in Request : req[q] # "none",
             wanted' = wanted,
             \A q \in Request : req'[q] = "pending" => req[q] = "pending"
      PROVE  AInv'
  <2>1. Returned' = Returned /\ NeverMoreThanCaptured' /\ refunded' = refunded /\ body' = body
    BY <1>7, ReturnedStays DEF gateVars
  <2>2. AmountTypes'
    BY <1>7, <2>1, LedgerWithType, TotalWithIsReturned DEF AmountTypes
  <2>3. TotalIsReturned' /\ FullTookTheRest'
    BY <1>7, <2>1, TotalWithIsReturned DEF TotalIsReturned, FullTookTheRest
  <2>4. LegacyFullIsFinal'
    BY <1>7 DEF LegacyFullIsFinal
  <2>5. LegacyIsSeen'
    <3> SUFFICES ASSUME OneLegacyRefund, NEW x \in Legacy, refunded[x] # 0
                 PROVE  ledger'[x] # 0 \/ y = x
      BY <1>7, <2>1 DEF LegacyIsSeen, OneLegacyRefund
    <3>1. CASE ledger[x] # 0
      BY <1>7, <3>1, LedgerWithIsTrue
    <3>2. CASE ledger[x] = 0 /\ y # x
      <4>1. scalar = x
        BY <3>2 DEF LegacyIsSeen
      <4>2. ~fullShape
        <5> SUFFICES ASSUME fullShape PROVE FALSE
          OBVIOUS
        <5>1. refunded[x] = Capture
          BY <4>1 DEF LegacyFullIsFinal
        <5>2. \A z \in RefundId : refunded[z] \in Nat
          BY DEF AmountTypes
        <5>3. refunded[x] + refunded[y] <= SumOver(refunded, RefundId)
          BY <5>2, <3>2, SumCoversTwo
        <5>4. SumOver(refunded, RefundId) = Returned /\ Returned \in Nat
          BY SumOfIsSumOver, SumOfIsNat DEF AmountTypes, Returned
        <5>5. refunded[y] \in Nat \ {0}
          BY <1>7, <5>2
        <5> QED BY <5>1, <5>3, <5>4, <5>5 DEF NeverMoreThanCaptured
      <4>3. ScalarUnrepresented /\ FoldedLedger[x] = refunded[x]
        BY <3>2, <4>1, <4>2 DEF ScalarUnrepresented, FoldedLedger, ProtocolTypes
      <4>4. LedgerWith(y)[x] = FoldedLedger[x]
        BY <3>2, FoldedLedgerIsTrue DEF LedgerWith
      <4> QED BY <1>7, <4>3, <4>4
    <3> QED BY <3>1, <3>2
  <2>6. AskWithinCapture'
    BY <1>7, <2>1 DEF AskWithinCapture, OneLegacyRefund, Undecided, Returned
  <2> QED BY <1>1, <2>1, <2>2, <2>3, <2>4, <2>5, <2>6
<1>8. ASSUME NEW w \in Worker, Complete(w) PROVE AInv'
  <2>1. id[w] \in Request /\ req[id[w]] # "none" /\ refunded[id[w]] # 0
    BY <1>8 DEF Complete, ActiveIsWanted, AnsweredIsRefunded
  <2>2. /\ ledger' = LedgerWith(id[w]) /\ total' = TotalWith(id[w]) /\ scalar' = id[w]
        /\ UNCHANGED gateVars /\ wanted' = wanted /\ fullShape' \in BOOLEAN
        /\ refundStatus' \in Status /\ claimStale' \in BOOLEAN
    BY <1>8 DEF Complete, AmountTypes, Status
  <2>3. /\ keyed' \subseteq Request
        /\ \A q \in Request : req'[q] = "pending" => req[q] = "pending"
    BY <1>8, <2>1 DEF Complete, AmountTypes, ProtocolTypes
  <2>4. id[w] \in RefundId /\ id[w] \notin Legacy
    BY <2>1
  <2> QED BY <1>7, <2>1, <2>2, <2>3, <2>4
<1>9. ASSUME NEW y \in RefundId, RefundProcessed(y) PROVE AInv'
  <2>0. refunded[y] # 0
    BY <1>9 DEF RefundProcessed, NoticeIsTrue
  <2>1. /\ refunded[y] # 0 /\ ledger' = LedgerWith(y) /\ total' = TotalWith(y) /\ scalar' = y
        /\ UNCHANGED gateVars /\ UNCHANGED claimVars /\ fullShape' = FALSE
        /\ keyed' = keyed /\ refundStatus' \in Status
    BY <1>9, <2>0 DEF RefundProcessed, Status
  <2>2. y \in Request => req[y] # "none"
    BY <2>1 DEF RefundIsKeyed, BodyIsWanted
  <2> QED BY <1>7, <2>1, <2>2 DEF AmountTypes, claimVars
<1>10. ASSUME NEW d \in Dashboard, NEW a \in Amount, DashboardRefund(d, a) PROVE AInv'
  <2>1. /\ refunded' = [refunded EXCEPT ![d] = a] /\ refunded[d] = 0
        /\ a <= Remaining /\ body' = body /\ UNCHANGED <<docVars, claimVars>>
    BY <1>10 DEF DashboardRefund
  <2>2. refunded' \in [RefundId -> 0..Capture] /\ refunded \in [RefundId -> 0..Capture]
    BY <2>1 DEF AmountTypes
  <2>3. Returned \in Nat /\ Returned' \in Nat /\ Returned <= Capture
    BY <2>2, SumOfIsNat DEF Returned, NeverMoreThanCaptured
  <2>4. Returned' = Returned + a
    <3>1. PICK f, g : f = refunded /\ g = refunded'
      OBVIOUS
    <3>2. /\ \A x \in RefundId : f[x] \in Nat /\ g[x] \in Nat
          /\ \A x \in RefundId \ {d} : f[x] = g[x]
          /\ f[d] = 0 /\ g[d] = a
      BY <2>1, <2>2, <3>1
    <3>3. SumOver(g, RefundId) + f[d] = SumOver(f, RefundId) + g[d]
      BY <3>2, SumChangesBy
    <3>4. Returned = SumOver(f, RefundId) /\ Returned' = SumOver(g, RefundId)
      BY <2>2, <3>1, SumOfIsSumOver DEF Returned
    <3> QED BY <2>3, <3>2, <3>3, <3>4
  <2>5. Remaining = Capture - Returned
    BY DEF Remaining, Returned
  <2>6. AmountTypes'
    BY <2>1, <2>2 DEF AmountTypes, docVars, claimVars
  <2>7. TotalIsReturned' /\ NeverMoreThanCaptured'
    BY <2>1, <2>3, <2>4, <2>5 DEF TotalIsReturned, NeverMoreThanCaptured, AmountTypes, docVars
  <2>8. \A x \in RefundId : x # d => refunded'[x] = refunded[x]
    BY <2>1 DEF AmountTypes
  <2>9. FullTookTheRest'
    <3> SUFFICES ASSUME NEW q \in Request, body[q] = Full, refunded'[q] # 0
                 PROVE  Returned' = Capture
      BY <2>1 DEF FullTookTheRest
    <3>1. Returned = Capture
      BY <2>8 DEF FullTookTheRest
    <3> QED BY <2>1, <2>3, <2>4, <2>5, <3>1
  <2>10. LegacyFullIsFinal' /\ LegacyIsSeen'
    BY <2>1, <2>8 DEF LegacyFullIsFinal, LegacyIsSeen, OneLegacyRefund, docVars, claimVars
  <2>11. AskWithinCapture'
    <3>1. refunded'[d] # 0
      BY <2>1, <2>2
    <3> QED BY <3>1 DEF AskWithinCapture
  <2> QED BY <1>1, <2>6, <2>7, <2>9, <2>10, <2>11
<1>11. ASSUME NEW w \in Worker, Kill(w) PROVE AInv'
  <2>1. UNCHANGED <<docVars, claimVars, gateVars>>
    BY <1>11 DEF Kill
  <2>2. Returned' = Returned /\ NeverMoreThanCaptured'
    BY <2>1, ReturnedStays DEF gateVars
  <2> QED BY <1>1, <2>1, <2>2 DEF AmountTypes, TotalIsReturned, FullTookTheRest,
      LegacyFullIsFinal, LegacyIsSeen, AskWithinCapture, OneLegacyRefund, Undecided,
      Returned, docVars, claimVars, gateVars
<1>12. CASE ClaimGoesStale
  <2>1. /\ UNCHANGED <<docVars, gateVars>> /\ claim' = claim /\ req' = req
        /\ wanted' = wanted /\ claimStale' \in BOOLEAN
    BY <1>12 DEF ClaimGoesStale
  <2>2. Returned' = Returned /\ NeverMoreThanCaptured'
    BY <2>1, ReturnedStays DEF gateVars
  <2> QED BY <1>1, <2>1, <2>2 DEF AmountTypes, TotalIsReturned, FullTookTheRest,
      LegacyFullIsFinal, LegacyIsSeen, AskWithinCapture, OneLegacyRefund, Undecided,
      Returned, docVars, gateVars
<1>13. ASSUME \/ UNCHANGED vars
              \/ \E y \in RefundId : NoticeTaken(y) \/ NoticeExpires(y)
       PROVE  AInv'
  <2>1. UNCHANGED <<docVars, claimVars, refunded, body, inFlight>>
    BY <1>13 DEF vars, gateVars, NoticeTaken, NoticeExpires
  <2>2. Returned' = Returned /\ NeverMoreThanCaptured'
    BY <2>1, ReturnedStays
  <2> QED BY <1>1, <2>1, <2>2 DEF AmountTypes, TotalIsReturned, FullTookTheRest,
      LegacyFullIsFinal, LegacyIsSeen, AskWithinCapture, OneLegacyRefund, Undecided,
      Returned, docVars, claimVars
<1> HIDE DEF AInv, IInv
<1> QED
  BY <1>2, <1>4, <1>5, <1>6, <1>8, <1>9, <1>10, <1>11, <1>12, <1>13 DEF Next

LEMMA AInvIsInvariant == Spec => []AInv
BY InitAInv, NextAInv, PTL DEF Spec

(* The record of an order keeps its types through every claim, answer,     *)
(* completion and webhook.                                                 *)
THEOREM RefundTypeCorrect == Spec => []TypeOK
<1>1. AInv => TypeOK
  BY DEF AInv, IInv, NoticeIsTrue, AmountTypes, ProtocolTypes, TypeOK
<1> QED BY <1>1, AInvIsInvariant, PTL

(* The record the cap is computed from never says more than the gateway    *)
(* returned (recordedRefundedPaise in autoRefund).                         *)
THEOREM RecordIsHonest == Spec => []RecordNeverOverstates
<1>1. ASSUME AInv PROVE RecordNeverOverstates
  <2> USE <1>1 DEF AInv, IInv
  <2>1. SumOf(FoldedLedger) <= Returned
    BY FoldedLedgerType, FoldedLedgerIsTrue, TrueLedgerSum DEF AmountTypes, Returned
  <2>2. SumOf(FoldedLedger) \in Nat /\ Returned \in Nat /\ total \in Nat
    BY FoldedLedgerType, SumOfIsNat DEF AmountTypes, Returned
  <2> QED BY <2>1, <2>2, LargerBounds
      DEF RecordNeverOverstates, Recorded, TotalIsReturned, Returned
<1> QED BY <1>1, AInvIsInvariant, PTL

(* The undecided request and everything returned before it fit the         *)
(* capture, for any number of retries, lost answers and takeovers.         *)
THEOREM AskFits == Spec => []AskWithinCapture
<1>1. AInv => AskWithinCapture
  BY DEF AInv
<1> QED BY <1>1, AInvIsInvariant, PTL

(* The order is stamped refunded only when the capture is back with the    *)
(* customer: by a completion for everything, or by a record that reaches   *)
(* the capture (the completion transaction, handleRefundProcessed).        *)
THEOREM StampIsFull == Spec => RefundedStampIsFull
<1> DEFINE StampFits == refundStatus # "refunded" /\ refundStatus' = "refunded"
                         => SumOf(refunded) >= Capture
<1>1. ASSUME AInv, Next PROVE StampFits
  <2> USE <1>1 DEF AInv, IInv
  <2>1. Returned \in Nat
    BY SumOfIsNat DEF AmountTypes, Returned
  <2>2. \A y \in RefundId : TotalWith(y) >= Capture => Returned >= Capture
    BY <2>1, TotalWithIsReturned
  <2>3. ASSUME NEW w \in Worker, Complete(w) PROVE StampFits
    <3>1. id[w] \in Request /\ refunded[id[w]] # 0 /\ amount[w] = wanted[id[w]]
      BY <2>3 DEF Complete, ActiveIsWanted, AnsweredIsRefunded
    <3>2. body[id[w]] = amount[w]
      BY <3>1 DEF RefundIsKeyed, BodyIsWanted
    <3>3. amount[w] = Full => Returned >= Capture
      BY <2>1, <3>1, <3>2 DEF FullTookTheRest
    <3>4. refundStatus # "refunded" /\ refundStatus' = "refunded" =>
              amount[w] = Full \/ TotalWith(id[w]) >= Capture
      BY <2>3 DEF Complete
    <3> QED BY <2>2, <3>1, <3>3, <3>4 DEF Returned
  <2>4. ASSUME NEW y \in RefundId, RefundProcessed(y) PROVE StampFits
    <3>1. refundStatus' = "refunded" => ~(TotalWith(y) < Capture)
      BY <2>4 DEF RefundProcessed
    <3>2. TotalWith(y) \in Nat
      BY TotalWithIsReturned
    <3> QED BY <2>2, <3>1, <3>2 DEF Returned
  <2>5. ASSUME NEW w \in Worker,
               \/ \E r \in Request, a \in Amount \cup {Full} : Claim(w, r, a)
               \/ PostAnswers(w) \/ PostFails(w) \/ Kill(w)
        PROVE  StampFits
    BY <2>5 DEF Claim, PostAnswers, PostFails, Kill, docVars
  <2>6. ASSUME \/ \E r \in Request : PostLands(r)
               \/ ClaimGoesStale
               \/ \E x \in RefundId : NoticeTaken(x) \/ NoticeExpires(x)
               \/ \E d \in Dashboard, a \in Amount : DashboardRefund(d, a)
        PROVE  StampFits
    BY <2>6 DEF PostLands, ClaimGoesStale, NoticeTaken, NoticeExpires,
                DashboardRefund, docVars
  <2> HIDE DEF StampFits, AInv, IInv
  <2> QED BY <1>1, <2>3, <2>4, <2>5, <2>6 DEF Next
<1>2. AInv /\ [Next]_vars => [StampFits]_vars
  BY <1>1
<1> QED BY <1>2, AInvIsInvariant, PTL DEF Spec, RefundedStampIsFull
=============================================================================
