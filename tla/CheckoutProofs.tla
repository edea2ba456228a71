--------------------------- MODULE CheckoutProofs ---------------------------
(***************************************************************************)
(* The idempotency keys of checkout for any number of orders, keys and     *)
(* overlapping calls, any menu and wallet; and what the pricing engine     *)
(* keeps for every basket.                                                 *)
(***************************************************************************)
EXTENDS Checkout, Sums

-----------------------------------------------------------------------------
(* The keys.                                                               *)

(* The gateway orders the app was given under key k.                       *)
HandedFor(k) == {h.rzp : h \in {x \in handed : x.key = k /\ x.claimed}}

CallShape ==
    /\ call = [c \in Call |-> call[c]]
    /\ \A c \in Call :
         /\ call[c] = [step |-> call[c].step, order |-> call[c].order,
                       key |-> call[c].key, amount |-> call[c].amount,
                       coins |-> call[c].coins, rzp |-> call[c].rzp]
         /\ call[c].step # "idle" => call[c].key \in Key

IntentShape ==
    /\ intent = [k \in Key |-> intent[k]]
    /\ \A k \in Key :
         intent[k] = [rzp |-> intent[k].rzp, order |-> intent[k].order,
                      coins |-> intent[k].coins, expired |-> intent[k].expired]
    /\ lapsed \in [Key -> Nat]

GatewayShape ==
    /\ minted \in 0..MaxMints
    /\ rzp = [g \in Gate |-> rzp[g]]
    /\ \A g \in Gate :
         rzp[g] = [order |-> rzp[g].order, amount |-> rzp[g].amount,
                   captured |-> rzp[g].captured]

(* Gateway order g exists and was minted for order o.                      *)
MintedFor(g, o) == g \in 1..minted /\ rzp[g].order = o

(* What calls, intents and answers carry is always the right pair.         *)
PairsFit ==
    /\ \A c \in Call : call[c].step \in {"minted", "lost", "superseding"}
                         => MintedFor(call[c].rzp, call[c].order)
    /\ \A k \in Key : intent[k].rzp # 0 => MintedFor(intent[k].rzp, intent[k].order)
    /\ \A h \in handed : MintedFor(h.rzp, h.order)

(* A call that lost has a winner, and every binding was handed out.        *)
WinnersAnswered ==
    /\ \A c \in Call : call[c].step = "lost" => intent[call[c].key].rzp # 0
    /\ \A k \in Key : intent[k].rzp # 0 => intent[k].rzp \in HandedFor(k)

(* Each binding costs one: the live one, and one for each that lapsed.     *)
KeysCounted ==
    \A k \in Key :
        /\ IsFiniteSet(HandedFor(k))
        /\ Cardinality(HandedFor(k))
             <= lapsed[k] + (IF Live(intent[k]) THEN 1 ELSE 0)

IInv == /\ CallShape /\ IntentShape /\ GatewayShape /\ PairsFit
        /\ WinnersAnswered /\ KeysCounted

USE DEF Gate

LEMMA BoundIsNat == MaxMints \in Nat
<1>1. {MaxMints, MaxExpiries, MaxActs, MaxFaults} \subseteq Nat
  BY ConstantsAssumption
<1> QED BY <1>1

(* The records of calls, intents and gateway orders, one step on.          *)
CallRecord(r) ==
    r = [step |-> r.step, order |-> r.order, key |-> r.key, amount |-> r.amount,
         coins |-> r.coins, rzp |-> r.rzp]

LEMMA NoCallRecord == CallRecord(NoCall) /\ NoCall.step = "idle"
BY DEF CallRecord, NoCall

LEMMA CheckedRecord ==
    ASSUME NEW o, NEW k, NEW s,
           s = [NoCall EXCEPT !.step = "checked", !.order = o, !.key = k]
    PROVE  s = [step |-> "checked", order |-> o, key |-> k, amount |-> 0, coins |-> 0,
                rzp |-> 0]
<1> PICK x : x = "checked"
  OBVIOUS
<1>1. s = [NoCall EXCEPT !.step = x, !.order = o, !.key = k]
  OBVIOUS
<1>2. s = [step |-> x, order |-> o, key |-> k, amount |-> NoCall.amount,
           coins |-> NoCall.coins, rzp |-> NoCall.rzp]
  BY <1>1, NoCallRecord DEF CallRecord
<1> QED BY <1>2 DEF NoCall

LEMMA StampedRecord ==
    ASSUME NEW r, CallRecord(r), NEW a, NEW n, NEW s,
           s = [r EXCEPT !.step = "stamped", !.amount = a, !.coins = n]
    PROVE  s = [step |-> "stamped", order |-> r.order, key |-> r.key, amount |-> a,
                coins |-> n, rzp |-> r.rzp]
<1> PICK x : x = "stamped"
  OBVIOUS
<1>1. s = [r EXCEPT !.step = x, !.amount = a, !.coins = n]
  OBVIOUS
<1>2. s = [step |-> x, order |-> r.order, key |-> r.key, amount |-> a, coins |-> n,
           rzp |-> r.rzp]
  BY <1>1 DEF CallRecord
<1> QED BY <1>2

LEMMA MintedRecord ==
    ASSUME NEW r, CallRecord(r), NEW g, NEW s,
           s = [r EXCEPT !.step = "minted", !.rzp = g]
    PROVE  s = [step |-> "minted", order |-> r.order, key |-> r.key,
                amount |-> r.amount, coins |-> r.coins, rzp |-> g]
<1> PICK x : x = "minted"
  OBVIOUS
<1>1. s = [r EXCEPT !.step = x, !.rzp = g]
  OBVIOUS
<1>2. s = [step |-> x, order |-> r.order, key |-> r.key, amount |-> r.amount,
           coins |-> r.coins, rzp |-> g]
  BY <1>1 DEF CallRecord
<1> QED BY <1>2

LEMMA ExpiredRecord ==
    ASSUME NEW r, NEW s, s = [r EXCEPT !.expired = TRUE],
           r = [rzp |-> r.rzp, order |-> r.order, coins |-> r.coins,
                expired |-> r.expired]
    PROVE  s = [rzp |-> r.rzp, order |-> r.order, coins |-> r.coins, expired |-> TRUE]
<1> PICK x : x = TRUE
  OBVIOUS
<1>1. s = [r EXCEPT !.expired = x]
  OBVIOUS
<1>2. s = [rzp |-> r.rzp, order |-> r.order, coins |-> r.coins, expired |-> x]
  BY <1>1
<1> QED BY <1>2

LEMMA CapturedRecord ==
    ASSUME NEW r, NEW s, s = [r EXCEPT !.captured = TRUE],
           r = [order |-> r.order, amount |-> r.amount, captured |-> r.captured]
    PROVE  s = [order |-> r.order, amount |-> r.amount, captured |-> TRUE]
<1> PICK x : x = TRUE
  OBVIOUS
<1>1. s = [r EXCEPT !.captured = x]
  OBVIOUS
<1>2. s = [order |-> r.order, amount |-> r.amount, captured |-> x]
  BY <1>1
<1> QED BY <1>2

LEMMA InitIInv == Init => IInv
<1> SUFFICES ASSUME Init PROVE IInv
  OBVIOUS
<1>1. CallShape /\ IntentShape /\ GatewayShape
  <2>1. CallShape
    BY DEF Init, CallShape, NoCall
  <2>2. IntentShape
    BY DEF Init, IntentShape, NoIntent
  <2>3. GatewayShape
    <3>1. minted \in 0..MaxMints
      BY BoundIsNat DEF Init
    <3>2. rzp = [g \in Gate |-> NoOrder]
      BY DEF Init
    <3> HIDE DEF Gate
    <3>3. rzp = [g \in Gate |-> rzp[g]] /\ \A g \in Gate : rzp[g] = NoOrder
      BY <3>2
    <3> QED BY <3>1, <3>3 DEF GatewayShape, NoOrder
  <2> QED BY <2>1, <2>2, <2>3
<1>2. PairsFit
  BY DEF Init, PairsFit, NoCall, NoIntent
<1>3. \A k \in Key : HandedFor(k) = {}
  BY DEF Init, HandedFor
<1>4. WinnersAnswered
  BY DEF Init, WinnersAnswered, NoCall, NoIntent
<1>5. KeysCounted
  <2>1. \A k \in Key : lapsed[k] = 0 /\ ~Live(intent[k])
    BY DEF Init, Live, NoIntent
  <2>2. IsFiniteSet({}) /\ Cardinality({}) = 0
    BY FS_EmptySet
  <2> QED BY <1>3, <2>1, <2>2 DEF KeysCounted
<1> QED BY <1>1, <1>2, <1>4, <1>5 DEF IInv

(* What one more answer adds to the answers of a key.                      *)
LEMMA AnswerAdds ==
    ASSUME NEW c \in Call, NEW g, NEW claimed \in BOOLEAN, NEW k \in Key,
           Answer(c, g, claimed)
    PROVE  HandedFor(k)' = IF call[c].key = k /\ claimed THEN HandedFor(k) \cup {g}
                           ELSE HandedFor(k)
<1> DEFINE h == [rzp |-> g, order |-> call[c].order, key |-> call[c].key,
                 claimed |-> claimed]
<1>1. handed' = handed \cup {h}
  BY DEF Answer
<1>2. h.rzp = g /\ h.key = call[c].key /\ h.claimed = claimed
  OBVIOUS
<1> HIDE DEF h
<1>3. CASE call[c].key = k /\ claimed
  BY <1>1, <1>2, <1>3 DEF HandedFor
<1>4. CASE ~(call[c].key = k /\ claimed)
  BY <1>1, <1>2, <1>4 DEF HandedFor
<1> QED BY <1>3, <1>4

(* A call that goes on, or ends, with the shape of a call.                 *)
LEMMA BecomeKeepsShape ==
    ASSUME CallShape, NEW c \in Call, NEW r, Become(c, r),
           r = [step |-> r.step, order |-> r.order, key |-> r.key,
                amount |-> r.amount, coins |-> r.coins, rzp |-> r.rzp],
           r.step # "idle" => r.key \in Key
    PROVE  /\ CallShape'
           /\ call'[c] = r
           /\ \A d \in Call \ {c} : call'[d] = call[d]
BY DEF CallShape, Become

(* Steps of everyone else: the calls, the intents, the answers and the     *)
(* orders at the gateway stay.                                             *)
LEMMA QuietSteps ==
    ASSUME IInv, UNCHANGED <<call, intent, handed, minted, lapsed>>,
           GatewayShape',
           \A g \in Gate : rzp'[g].order = rzp[g].order
    PROVE  IInv'
<1>1. CallShape' /\ IntentShape'
  BY DEF IInv, CallShape, IntentShape
<1>2. \A g, o : MintedFor(g, o) => MintedFor(g, o)'
  BY BoundIsNat DEF IInv, MintedFor, GatewayShape
<1>3. PairsFit'
  BY <1>2 DEF IInv, PairsFit
<1>4. \A k \in Key : HandedFor(k)' = HandedFor(k)
  BY DEF HandedFor
<1>5. WinnersAnswered' /\ KeysCounted'
  BY <1>4 DEF IInv, WinnersAnswered, KeysCounted, Live
<1> QED BY <1>1, <1>3, <1>5 DEF IInv

(* A call moves on or ends without an answer; it may not claim to have     *)
(* lost or to hold a gateway order that it does not.                       *)
LEMMA SilentStep ==
    ASSUME IInv, NEW c \in Call, NEW r, Become(c, r),
           r = [step |-> r.step, order |-> r.order, key |-> r.key,
                amount |-> r.amount, coins |-> r.coins, rzp |-> r.rzp],
           r.step # "idle" => r.key \in Key,
           r.step \in {"minted", "lost", "superseding"} => MintedFor(r.rzp, r.order),
           r.step = "lost" => intent[r.key].rzp # 0,
           UNCHANGED <<intent, handed, minted, rzp, lapsed>>
    PROVE  IInv'
<1>1. /\ CallShape' /\ call'[c] = r
      /\ \A d \in Call \ {c} : call'[d] = call[d]
  BY BecomeKeepsShape DEF IInv
<1>2. IntentShape' /\ GatewayShape'
  BY DEF IInv, IntentShape, GatewayShape
<1>3. PairsFit'
  BY <1>1 DEF IInv, PairsFit, MintedFor
<1>4. \A k \in Key : HandedFor(k)' = HandedFor(k)
  BY DEF HandedFor
<1>5. WinnersAnswered' /\ KeysCounted'
  BY <1>1, <1>4 DEF IInv, WinnersAnswered, KeysCounted, Live
<1> QED BY <1>1, <1>2, <1>3, <1>5 DEF IInv

(* A call hands out gateway order g, and the key it was for is left as it  *)
(* is: g is what the key is bound to, or the answer carries no claim.      *)
LEMMA AnswerStep ==
    ASSUME IInv, NEW c \in Call, call[c].step # "idle", NEW g,
           NEW claimed \in BOOLEAN, Answer(c, g, claimed),
           MintedFor(g, call[c].order),
           claimed => g \in HandedFor(call[c].key),
           UNCHANGED <<intent, minted, rzp, lapsed>>
    PROVE  IInv'
<1>1. Become(c, NoCall)
  BY DEF Answer
<1>2. CallShape' /\ call'[c] = NoCall /\ \A d \in Call \ {c} : call'[d] = call[d]
  BY <1>1, BecomeKeepsShape DEF IInv, NoCall
<1>3. IntentShape' /\ GatewayShape'
  BY DEF IInv, IntentShape, GatewayShape
<1>4. \A k \in Key : HandedFor(k)' = HandedFor(k)
  <2> SUFFICES ASSUME NEW k \in Key PROVE HandedFor(k)' = HandedFor(k)
    OBVIOUS
  <2> QED BY AnswerAdds
<1>5. PairsFit'
  <2>1. \A d \in Call : call'[d].step \in {"minted", "lost", "superseding"}
                           => call'[d] = call[d]
    BY <1>2 DEF NoCall
  <2>2. \A h \in handed' : MintedFor(h.rzp, h.order)
    BY DEF Answer, IInv, PairsFit
  <2> QED BY <2>1, <2>2 DEF IInv, PairsFit, MintedFor
<1>6. WinnersAnswered' /\ KeysCounted'
  BY <1>2, <1>4 DEF IInv, WinnersAnswered, KeysCounted, Live, NoCall
<1> QED BY <1>2, <1>3, <1>5, <1>6 DEF IInv

(* A call binds its key to the gateway order it minted, and hands it out,  *)
(* when no live binding is there.                                          *)
LEMMA BindStep ==
    ASSUME IInv, NEW c \in Call, call[c].step \in {"minted", "superseding"},
           Bind(c), Answer(c, call[c].rzp, TRUE),
           ~Live(intent[call[c].key]),
           UNCHANGED <<minted, rzp, lapsed>>
    PROVE  IInv'
<1>0. call[c].key \in Key /\ MintedFor(call[c].rzp, call[c].order)
  BY DEF IInv, CallShape, PairsFit
<1>0b. call[c].rzp \in Nat \ {0}
  <2>1. minted \in Nat
    BY BoundIsNat DEF IInv, GatewayShape
  <2> QED BY <1>0, <2>1 DEF MintedFor
<1> PICK key \in Key, g \in Nat \ {0} : key = call[c].key /\ g = call[c].rzp
  BY <1>0, <1>0b
<1>1. MintedFor(g, call[c].order)
  BY <1>0
<1>2. CallShape' /\ call'[c] = NoCall /\ \A d \in Call \ {c} : call'[d] = call[d]
  BY BecomeKeepsShape DEF Answer, IInv, NoCall
<1>3. /\ intent'[key] = Fresh(c)
      /\ \A k \in Key \ {key} : intent'[k] = intent[k]
      /\ intent' = [k \in Key |-> intent'[k]]
  BY <1>1 DEF Bind, IInv, IntentShape
<1>4. Fresh(c).rzp = g /\ Fresh(c).order = call[c].order /\ ~Fresh(c).expired
  BY DEF Fresh
<1>5. IntentShape' /\ GatewayShape'
  <2>1. IntentShape'
    BY <1>3 DEF IInv, IntentShape, Fresh
  <2> QED BY <2>1 DEF IInv, GatewayShape
<1>7. /\ HandedFor(key)' = HandedFor(key) \cup {g}
      /\ \A k \in Key \ {key} : HandedFor(k)' = HandedFor(k)
  <2>1. \A k \in Key : HandedFor(k)' = IF call[c].key = k /\ TRUE
                                      THEN HandedFor(k) \cup {g} ELSE HandedFor(k)
    BY AnswerAdds
  <2> QED BY <1>1, <2>1
<1>8. PairsFit'
  <2>1. \A d \in Call : call'[d].step \in {"minted", "lost", "superseding"}
                           => call'[d] = call[d]
    BY <1>2 DEF NoCall
  <2>2. \A h \in handed' : MintedFor(h.rzp, h.order)
    BY <1>1 DEF Answer, IInv, PairsFit
  <2>3. \A k \in Key : intent'[k].rzp # 0
                          => MintedFor(intent'[k].rzp, intent'[k].order)
    BY <1>1, <1>3, <1>4 DEF IInv, PairsFit
  <2> QED BY <2>1, <2>2, <2>3 DEF IInv, PairsFit, MintedFor
<1>9. WinnersAnswered'
  <2>1. \A d \in Call : call'[d].step = "lost" => d # c /\ call'[d] = call[d]
    BY <1>2 DEF NoCall
  <2>2. \A d \in Call : call'[d].step = "lost" => intent'[call'[d].key].rzp # 0
    BY <2>1, <1>3, <1>4 DEF IInv, WinnersAnswered, CallShape
  <2>3. ASSUME NEW k \in Key, intent'[k].rzp # 0
        PROVE  intent'[k].rzp \in HandedFor(k)'
    <3>1. CASE k = key
      BY <3>1, <1>3, <1>4, <1>7
    <3>2. CASE k # key
      BY <3>2, <2>3, <1>3, <1>7 DEF IInv, WinnersAnswered
    <3> QED BY <3>1, <3>2
  <2> QED BY <2>2, <2>3 DEF WinnersAnswered
<1>10. KeysCounted'
  <2>1. /\ IsFiniteSet(HandedFor(key)')
        /\ Cardinality(HandedFor(key)') <= lapsed[key] + 1
    <3>1. IsFiniteSet(HandedFor(key)) /\ Cardinality(HandedFor(key)) <= lapsed[key]
      BY <1>1 DEF IInv, KeysCounted, IntentShape
    <3>2. /\ IsFiniteSet(HandedFor(key) \cup {g})
          /\ Cardinality(HandedFor(key) \cup {g})
               \in {Cardinality(HandedFor(key)), Cardinality(HandedFor(key)) + 1}
      BY <3>1, FS_AddElement
    <3>3. Cardinality(HandedFor(key)) \in Nat /\ lapsed[key] \in Nat
      BY <1>1, <3>1, FS_CardinalityType DEF IInv, IntentShape
    <3> QED BY <3>1, <3>2, <3>3, <1>7
  <2>2. Live(intent'[key])
    BY <1>3, <1>4 DEF Live
  <2>3. \A k \in Key \ {key} : /\ IsFiniteSet(HandedFor(k)')
                               /\ Cardinality(HandedFor(k)')
                                    <= lapsed[k] + (IF Live(intent'[k]) THEN 1 ELSE 0)
    BY <1>3, <1>7 DEF IInv, KeysCounted
  <2>4. ASSUME NEW k \in Key
        PROVE  /\ IsFiniteSet(HandedFor(k)')
               /\ Cardinality(HandedFor(k)')
                    <= lapsed[k] + (IF Live(intent'[k]) THEN 1 ELSE 0)
    BY <2>1, <2>2, <2>3
  <2>5. lapsed' = lapsed
    OBVIOUS
  <2> QED BY <2>4, <2>5 DEF KeysCounted, Live
<1> QED BY <1>2, <1>5, <1>8, <1>9, <1>10 DEF IInv

(* Converging on a live intent hands its gateway order to its own order.   *)
LEMMA ConvergeStep ==
    ASSUME IInv, NEW c \in Call, call[c].step # "idle",
           Live(intent[call[c].key]), Converge(c, intent[call[c].key]),
           UNCHANGED <<intent, minted, rzp, lapsed>>
    PROVE  IInv'
<1>1. call[c].key \in Key
  BY DEF IInv, CallShape
<1>2. intent[call[c].key].rzp # 0
  BY DEF Live
<1>3. /\ MintedFor(intent[call[c].key].rzp, intent[call[c].key].order)
      /\ intent[call[c].key].rzp \in HandedFor(call[c].key)
  BY <1>1, <1>2 DEF IInv, PairsFit, WinnersAnswered
<1>4. CASE intent[call[c].key].order = call[c].order
  BY <1>3, <1>4, AnswerStep DEF Converge
<1>5. CASE intent[call[c].key].order # call[c].order
  <2>1. Become(c, NoCall) /\ UNCHANGED handed
    BY <1>5 DEF Converge
  <2>2. /\ NoCall = [step |-> NoCall.step, order |-> NoCall.order, key |-> NoCall.key,
                     amount |-> NoCall.amount, coins |-> NoCall.coins,
                     rzp |-> NoCall.rzp]
        /\ NoCall.step = "idle"
    BY DEF NoCall
  <2> QED BY <2>1, <2>2, SilentStep
<1> QED BY <1>4, <1>5

(* A call that gives up.                                                   *)
LEMMA GiveUpStep ==
    ASSUME IInv, NEW c \in Call, Become(c, NoCall),
           UNCHANGED <<intent, handed, minted, rzp, lapsed>>
    PROVE  IInv'
<1>1. /\ NoCall = [step |-> NoCall.step, order |-> NoCall.order, key |-> NoCall.key,
                   amount |-> NoCall.amount, coins |-> NoCall.coins,
                   rzp |-> NoCall.rzp]
      /\ NoCall.step = "idle"
  BY DEF NoCall
<1> QED BY <1>1, SilentStep

(* A call that takes another step with what it has.                        *)
LEMMA MoveStep ==
    ASSUME IInv, NEW c \in Call, call[c].step # "idle", NEW s,
           Become(c, [call[c] EXCEPT !.step = s]),
           s \in {"minted", "lost", "superseding"}
             => MintedFor(call[c].rzp, call[c].order),
           s = "lost" => intent[call[c].key].rzp # 0,
           UNCHANGED <<intent, handed, minted, rzp, lapsed>>
    PROVE  IInv'
<1> DEFINE r == [call[c] EXCEPT !.step = s]
<1>1. /\ r = [step |-> s, order |-> call[c].order, key |-> call[c].key,
              amount |-> call[c].amount, coins |-> call[c].coins,
              rzp |-> call[c].rzp]
      /\ call[c].key \in Key
  BY DEF IInv, CallShape
<1>2. /\ r = [step |-> r.step, order |-> r.order, key |-> r.key,
              amount |-> r.amount, coins |-> r.coins, rzp |-> r.rzp]
      /\ r.step = s /\ r.order = call[c].order /\ r.key = call[c].key
      /\ r.rzp = call[c].rzp
  BY <1>1
<1>3. Become(c, r)
  OBVIOUS
<1> HIDE DEF r
<1> QED BY <1>1, <1>2, <1>3, SilentStep

LEMMA NextIInv == IInv /\ [Next]_vars => IInv'
<1> SUFFICES ASSUME IInv, [Next]_vars PROVE IInv'
  OBVIOUS
<1>0. /\ CallShape /\ IntentShape /\ GatewayShape
      /\ PairsFit /\ WinnersAnswered /\ KeysCounted
  BY DEF IInv
<1>1. ASSUME NEW c \in Call, Begin(c) PROVE IInv'
  <2>1. PICK o \in Order, k \in Key :
          Become(c, [NoCall EXCEPT !.step = "checked", !.order = o, !.key = k])
    BY <1>1 DEF Begin
  <2> PICK r : r = [NoCall EXCEPT !.step = "checked", !.order = o, !.key = k]
    OBVIOUS
  <2>2. /\ r = [step |-> r.step, order |-> r.order, key |-> r.key,
                amount |-> r.amount, coins |-> r.coins, rzp |-> r.rzp]
        /\ r.step = "checked" /\ r.key = k
    <3>1. r = [step |-> "checked", order |-> o, key |-> k, amount |-> 0, coins |-> 0,
               rzp |-> 0]
      BY CheckedRecord, Zenon
    <3> QED BY <3>1
  <2>3. UNCHANGED <<intent, handed, minted, rzp, lapsed>>
    BY <1>1 DEF Begin
  <2>4. Become(c, r)
    BY <2>1
  <2> QED BY <2>2, <2>3, <2>4, SilentStep
<1>2. ASSUME NEW c \in Call, Lookup(c) PROVE IInv'
  <2>1. call[c].step = "checked" /\ UNCHANGED <<intent, minted, rzp, lapsed>>
    BY <1>2 DEF Lookup
  <2>2. CASE Live(intent[call[c].key])
    BY <1>2, <2>1, <2>2, ConvergeStep DEF Lookup
  <2>3. CASE ~Live(intent[call[c].key])
    <3>1. Become(c, [call[c] EXCEPT !.step = "free"]) /\ UNCHANGED handed
      BY <1>2, <2>3 DEF Lookup
    <3> QED BY <2>1, <3>1, MoveStep
  <2> QED BY <2>2, <2>3
<1>3. ASSUME NEW c \in Call, Refuse(c) \/ MintFails(c) \/ Die(c) PROVE IInv'
  <2>1. Become(c, NoCall) /\ UNCHANGED <<intent, handed, minted, rzp, lapsed>>
    BY <1>3 DEF Refuse, MintFails, Die
  <2> QED BY <2>1, GiveUpStep
<1>4. ASSUME NEW c \in Call, Stamp(c) PROVE IInv'
  <2>1. PICK q : Become(c, [call[c] EXCEPT !.step = "stamped", !.amount = q.total,
                                           !.coins = q.coins])
    BY <1>4 DEF Stamp
  <2> PICK r : r = [call[c] EXCEPT !.step = "stamped", !.amount = q.total,
                                  !.coins = q.coins]
    OBVIOUS
  <2>2. call[c].step = "free" /\ UNCHANGED <<intent, handed, minted, rzp, lapsed>>
    BY <1>4 DEF Stamp
  <2>3. CallRecord(call[c]) /\ call[c].key \in Key
    BY <1>0, <2>2 DEF CallShape, CallRecord
  <2>4. r = [step |-> "stamped", order |-> call[c].order, key |-> call[c].key,
             amount |-> q.total, coins |-> q.coins, rzp |-> call[c].rzp]
    BY <2>3, StampedRecord
  <2>5. /\ r = [step |-> r.step, order |-> r.order, key |-> r.key,
                amount |-> r.amount, coins |-> r.coins, rzp |-> r.rzp]
        /\ r.step = "stamped" /\ r.key \in Key
    BY <2>3, <2>4
  <2>6. Become(c, r)
    BY <2>1
  <2> QED BY <2>2, <2>5, <2>6, SilentStep
<1>5. ASSUME NEW c \in Call, Claim(c) PROVE IInv'
  <2>1. call[c].step = "minted" /\ UNCHANGED <<minted, rzp, lapsed>>
    BY <1>5 DEF Claim
  <2>2. CASE intent[call[c].key].rzp = 0
    BY <1>5, <2>1, <2>2, BindStep DEF Claim, Live
  <2>3. CASE intent[call[c].key].rzp # 0
    <3>1. /\ Become(c, [call[c] EXCEPT !.step = "lost"])
          /\ UNCHANGED <<intent, handed>>
      BY <1>5, <2>3 DEF Claim
    <3>2. MintedFor(call[c].rzp, call[c].order)
      BY <1>0, <2>1 DEF PairsFit
    <3> QED BY <2>1, <2>3, <3>1, <3>2, MoveStep
  <2> QED BY <2>2, <2>3
<1>6. ASSUME NEW c \in Call, ClaimFails(c) PROVE IInv'
  <2>1. /\ call[c].step = "minted" /\ Answer(c, call[c].rzp, FALSE)
        /\ UNCHANGED <<intent, minted, rzp, lapsed>>
    BY <1>6 DEF ClaimFails
  <2>2. MintedFor(call[c].rzp, call[c].order)
    BY <1>0, <2>1 DEF PairsFit
  <2> QED BY <2>1, <2>2, AnswerStep
<1>7. ASSUME NEW c \in Call, ResolveLost(c) PROVE IInv'
  <2>1. call[c].step = "lost" /\ UNCHANGED <<intent, minted, rzp, lapsed>>
    BY <1>7 DEF ResolveLost
  <2>2. CASE intent[call[c].key].expired
    <3>1. /\ Become(c, [call[c] EXCEPT !.step = "superseding"])
          /\ UNCHANGED handed
      BY <1>7, <2>2 DEF ResolveLost
    <3>2. MintedFor(call[c].rzp, call[c].order)
      BY <1>0, <2>1 DEF PairsFit
    <3> QED BY <2>1, <3>1, <3>2, MoveStep
  <2>3. CASE ~intent[call[c].key].expired
    <3>1. Live(intent[call[c].key])
      BY <1>0, <2>1, <2>3 DEF WinnersAnswered, Live
    <3> QED BY <1>7, <2>1, <2>3, <3>1, ConvergeStep DEF ResolveLost
  <2> QED BY <2>2, <2>3
<1>8. ASSUME NEW c \in Call, Supersede(c) PROVE IInv'
  <2>1. call[c].step = "superseding" /\ UNCHANGED <<minted, rzp, lapsed>>
    BY <1>8 DEF Supersede
  <2>2. CASE Live(intent[call[c].key])
    BY <1>8, <2>1, <2>2, ConvergeStep DEF Supersede
  <2>3. CASE ~Live(intent[call[c].key])
    BY <1>8, <2>1, <2>3, BindStep DEF Supersede
  <2> QED BY <2>2, <2>3
<1>9. ASSUME NEW c \in Call, Mint(c) PROVE IInv'
  <2>1. call[c].step = "stamped" /\ minted < MaxMints /\ minted \in Nat
    BY <1>0, <1>9, BoundIsNat DEF Mint, GatewayShape
  <2> PICK m \in Gate : m = minted + 1
    BY <2>1, BoundIsNat
  <2>2. /\ minted' = m
        /\ rzp' = [rzp EXCEPT ![m] = [order |-> call[c].order,
                                      amount |-> call[c].amount, captured |-> FALSE]]
        /\ UNCHANGED <<intent, handed, lapsed>>
    BY <1>9 DEF Mint
  <2>3. GatewayShape'
    <3>1. /\ m \in 0..MaxMints
          /\ rzp'[m] = [order |-> call[c].order, amount |-> call[c].amount,
                        captured |-> FALSE]
          /\ \A g \in Gate \ {m} : rzp'[g] = rzp[g]
      BY <1>0, <2>2, BoundIsNat DEF GatewayShape
    <3>2. rzp' = [g \in Gate |-> rzp'[g]]
      BY <1>0, <2>2 DEF GatewayShape
    <3> HIDE DEF Gate
    <3> QED BY <1>0, <2>2, <3>1, <3>2 DEF GatewayShape
  <2> DEFINE Now(g, o) == g \in 1..minted' /\ rzp'[g].order = o
  <2>4. /\ \A g, o : MintedFor(g, o) => Now(g, o)
        /\ Now(m, call[c].order)
    BY <1>0, <2>1, <2>2, BoundIsNat DEF MintedFor, GatewayShape
  <2> HIDE DEF Now
  <2>5. /\ CallShape'
        /\ \A d \in Call : \/ call'[d] = call[d]
                           \/ call'[d].step = "idle"
                           \/ /\ call'[d].step = "minted"
                              /\ Now(call'[d].rzp, call'[d].order)
    <3>1. CASE Become(c, NoCall)
      <4>1. CallShape' /\ call'[c] = NoCall /\ \A d \in Call \ {c} : call'[d] = call[d]
        BY <1>0, <3>1, NoCallRecord, BecomeKeepsShape DEF CallRecord
      <4> QED BY <4>1, NoCallRecord
    <3>2. CASE Become(c, [call[c] EXCEPT !.step = "minted", !.rzp = minted'])
      <4> PICK r : r = [call[c] EXCEPT !.step = "minted", !.rzp = m]
        OBVIOUS
      <4>0. CallRecord(call[c]) /\ call[c].key \in Key
        BY <1>0, <2>1 DEF CallShape, CallRecord
      <4>1. Become(c, r)
        BY <2>2, <3>2
      <4>2. r = [step |-> "minted", order |-> call[c].order, key |-> call[c].key,
                 amount |-> call[c].amount, coins |-> call[c].coins, rzp |-> m]
        BY <4>0, MintedRecord
      <4>3. /\ r = [step |-> r.step, order |-> r.order, key |-> r.key,
                    amount |-> r.amount, coins |-> r.coins, rzp |-> r.rzp]
            /\ r.step = "minted" /\ r.key \in Key
            /\ r.rzp = m /\ r.order = call[c].order
        BY <4>0, <4>2
      <4>4. CallShape' /\ call'[c] = r /\ \A d \in Call \ {c} : call'[d] = call[d]
        BY <1>0, <4>1, <4>3, BecomeKeepsShape
      <4> QED BY <2>4, <4>3, <4>4
    <3> QED BY <1>9, <3>1, <3>2 DEF Mint
  <2>6. PairsFit'
    <3>1. \A d \in Call : call'[d].step \in {"minted", "lost", "superseding"}
                             => Now(call'[d].rzp, call'[d].order)
      BY <1>0, <2>4, <2>5 DEF PairsFit
    <3>2. \A k \in Key : intent[k].rzp # 0 => Now(intent[k].rzp, intent[k].order)
      BY <1>0, <2>4 DEF PairsFit
    <3>3. \A h \in handed : Now(h.rzp, h.order)
      BY <1>0, <2>4 DEF PairsFit
    <3> QED BY <2>2, <3>1, <3>2, <3>3 DEF PairsFit, MintedFor, Now
  <2>7. \A k \in Key : HandedFor(k)' = HandedFor(k)
    BY <2>2 DEF HandedFor
  <2>8. WinnersAnswered' /\ KeysCounted' /\ IntentShape'
    BY <1>0, <2>2, <2>5, <2>7 DEF WinnersAnswered, KeysCounted, IntentShape, Live
  <2> QED BY <2>3, <2>5, <2>6, <2>8 DEF IInv
<1>10. ASSUME NEW k \in Key, Expire(k) PROVE IInv'
  <2>1. /\ Live(intent[k])
        /\ intent' = [intent EXCEPT ![k].expired = TRUE]
        /\ lapsed' = [lapsed EXCEPT ![k] = @ + 1]
        /\ UNCHANGED <<call, handed, minted, rzp>>
    BY <1>10 DEF Expire
  <2>2. /\ intent'[k] = [rzp |-> intent[k].rzp, order |-> intent[k].order,
                         coins |-> intent[k].coins, expired |-> TRUE]
        /\ \A j \in Key \ {k} : intent'[j] = intent[j]
        /\ intent' = [j \in Key |-> intent'[j]]
    <3>1. /\ intent = [j \in Key |-> intent[j]]
          /\ intent[k] = [rzp |-> intent[k].rzp, order |-> intent[k].order,
                          coins |-> intent[k].coins, expired |-> intent[k].expired]
      BY <1>0 DEF IntentShape
    <3>3. /\ intent'[k] = [intent[k] EXCEPT !.expired = TRUE]
          /\ \A j \in Key \ {k} : intent'[j] = intent[j]
          /\ intent' = [j \in Key |-> intent'[j]]
      BY <2>1, <3>1
    <3> QED BY <3>1, <3>3, ExpiredRecord
  <2>3. /\ lapsed'[k] = lapsed[k] + 1 /\ lapsed' \in [Key -> Nat]
        /\ \A j \in Key \ {k} : lapsed'[j] = lapsed[j]
    BY <1>0, <2>1 DEF IntentShape
  <2>4. \A j \in Key : HandedFor(j)' = HandedFor(j)
    BY <2>1 DEF HandedFor
  <2>5. /\ \A j \in Key : intent'[j].rzp = intent[j].rzp /\ intent'[j].order = intent[j].order
        /\ ~Live(intent'[k])
    BY <2>2 DEF Live
  <2>6. CallShape' /\ IntentShape' /\ GatewayShape'
    <3>1. IntentShape'
      BY <1>0, <2>2, <2>3 DEF IntentShape
    <3> QED BY <1>0, <2>1, <3>1 DEF CallShape, GatewayShape
  <2>7. PairsFit' /\ WinnersAnswered'
    BY <1>0, <2>1, <2>4, <2>5 DEF PairsFit, WinnersAnswered, MintedFor, CallShape
  <2>8. KeysCounted'
    <3>1. ASSUME NEW j \in Key
          PROVE  /\ IsFiniteSet(HandedFor(j)')
                 /\ Cardinality(HandedFor(j)')
                      <= lapsed'[j] + (IF Live(intent'[j]) THEN 1 ELSE 0)
      <4>1. CASE j = k
        BY <1>0, <2>1, <2>3, <2>4, <2>5, <4>1 DEF KeysCounted
      <4>2. CASE j # k
        BY <1>0, <2>2, <2>3, <2>4, <4>2 DEF KeysCounted
      <4> QED BY <4>1, <4>2
    <3> QED BY <3>1 DEF KeysCounted
  <2> QED BY <2>6, <2>7, <2>8 DEF IInv
<1>11. ASSUME NEW i \in Item, EditMenu(i) PROVE IInv'
  BY <1>0, <1>11, QuietSteps DEF EditMenu, GatewayShape
<1>12. ASSUME NEW g \in Gate, Pay(g) PROVE IInv'
  <2>1. /\ rzp' = [rzp EXCEPT ![g].captured = TRUE]
        /\ UNCHANGED <<call, intent, handed, minted, lapsed>>
    BY <1>12 DEF Pay
  <2>2. /\ rzp'[g] = [order |-> rzp[g].order, amount |-> rzp[g].amount,
                      captured |-> TRUE]
        /\ \A h \in Gate \ {g} : rzp'[h] = rzp[h]
        /\ rzp' = [h \in Gate |-> rzp'[h]]
    <3> HIDE DEF Gate
    <3>1. /\ rzp = [h \in Gate |-> rzp[h]]
          /\ rzp[g] = [order |-> rzp[g].order, amount |-> rzp[g].amount,
                       captured |-> rzp[g].captured]
      BY <1>0 DEF GatewayShape
    <3>3. /\ rzp'[g] = [rzp[g] EXCEPT !.captured = TRUE]
          /\ \A h \in Gate \ {g} : rzp'[h] = rzp[h]
          /\ rzp' = [h \in Gate |-> rzp'[h]]
      BY <2>1, <3>1
    <3> QED BY <3>1, <3>3, CapturedRecord
  <2> HIDE DEF Gate
  <2>3. \A h \in Gate : /\ rzp'[h].order = rzp[h].order
                         /\ rzp'[h] = [order |-> rzp'[h].order,
                                       amount |-> rzp'[h].amount,
                                       captured |-> rzp'[h].captured]
    <3>1. ASSUME NEW h \in Gate
          PROVE  /\ rzp'[h].order = rzp[h].order
                 /\ rzp'[h] = [order |-> rzp'[h].order, amount |-> rzp'[h].amount,
                               captured |-> rzp'[h].captured]
      <4>1. CASE h = g
        BY <2>2, <4>1
      <4>2. CASE h # g
        BY <1>0, <2>2, <4>2 DEF GatewayShape
      <4> QED BY <4>1, <4>2
    <3> QED BY <3>1
  <2>4. GatewayShape'
    BY <1>0, <2>1, <2>2, <2>3 DEF GatewayShape
  <2> QED BY <2>1, <2>3, <2>4, QuietSteps
<1>13. ASSUME NEW g \in Gate, Confirm(g) \/ Debit(g) PROVE IInv'
  <2>1. UNCHANGED <<call, intent, handed, minted, rzp, lapsed>>
    BY <1>13 DEF Confirm, Debit
  <2> QED BY <1>0, <2>1, QuietSteps DEF GatewayShape
<1>14. ASSUME Adjust \/ CreditTicket \/ UNCHANGED vars PROVE IInv'
  <2>1. UNCHANGED <<call, intent, handed, minted, rzp, lapsed>>
    BY <1>14 DEF Adjust, CreditTicket, vars
  <2> QED BY <1>0, <2>1, QuietSteps DEF GatewayShape
<1> QED
  BY <1>1, <1>2, <1>3, <1>4, <1>5, <1>6, <1>7, <1>8, <1>9, <1>10, <1>11, <1>12,
     <1>13, <1>14 DEF Next

LEMMA IInvIsInvariant == Spec => []IInv
BY InitIInv, NextIInv, PTL DEF Spec

(* However many executions of createPaymentOrder overlap, die and are      *)
(* repeated with one key, the answers that claim the key carry one gateway *)
(* order, and one more for each time its intent has lapsed.                *)
THEOREM KeysHandOutOneOrder == Spec => []OneOrderPerKey
<1>1. IInv => OneOrderPerKey
  <2> SUFFICES ASSUME IInv, NEW k \in Key
               PROVE  Cardinality(HandedFor(k)) <= 1 + lapsed[k]
    BY DEF OneOrderPerKey, HandedFor
  <2>1. /\ IsFiniteSet(HandedFor(k)) /\ lapsed[k] \in Nat
        /\ Cardinality(HandedFor(k)) <= lapsed[k] + (IF Live(intent[k]) THEN 1 ELSE 0)
    BY DEF IInv, KeysCounted, IntentShape
  <2>2. Cardinality(HandedFor(k)) \in Nat
    BY <2>1, FS_CardinalityType
  <2> QED BY <2>1, <2>2
<1> QED BY <1>1, IInvIsInvariant, PTL

(* A gateway order is never handed to a checkout of another order than the *)
(* one it was minted for, whichever call of the key answers.               *)
THEOREM AnswersFitTheirOrder == Spec => []HandedToItsOrder
<1>1. IInv => HandedToItsOrder
  BY DEF IInv, PairsFit, MintedFor, HandedToItsOrder
<1> QED BY <1>1, IInvIsInvariant, PTL

(* No step of any call replaces a binding that is live: create() binds a   *)
(* free key, supersedeExpiredIntent a lapsed one, and only the clock ends  *)
(* a binding.                                                              *)
THEOREM LiveBindingsStay == Spec => LiveBindingStands
<1> DEFINE Stands == \A k \in Key : Live(intent[k]) /\ intent'[k] # intent[k]
                        => intent'[k] = [intent[k] EXCEPT !.expired = TRUE]
<1>1. IInv /\ [Next]_vars => Stands
  <2> SUFFICES ASSUME IInv, [Next]_vars, NEW k \in Key, Live(intent[k]),
                      intent'[k] # intent[k]
               PROVE  intent'[k] = [intent[k] EXCEPT !.expired = TRUE]
    OBVIOUS
  <2>0. intent = [j \in Key |-> intent[j]]
    BY DEF IInv, IntentShape
  <2>1. ASSUME NEW c \in Call, Bind(c), ~Live(intent[call[c].key])
        PROVE  FALSE
    <3>1. call[c].key # k
      BY <2>1
    <3> QED BY <2>0, <2>1, <3>1 DEF Bind
  <2>2. ASSUME NEW c \in Call, Claim(c) PROVE FALSE
    BY <2>1, <2>2 DEF Claim, Live
  <2>3. ASSUME NEW c \in Call, Supersede(c) PROVE FALSE
    BY <2>1, <2>3 DEF Supersede
  <2>4. CASE \E j \in Key : Expire(j)
    BY <2>0, <2>4 DEF Expire
  <2>5. CASE UNCHANGED intent
    BY <2>5
  <2>6. \/ \E c \in Call : Claim(c) \/ Supersede(c)
        \/ \E j \in Key : Expire(j)
        \/ UNCHANGED intent
    BY DEF Next, vars, Begin, Lookup, Refuse, Stamp, Mint, MintFails, ClaimFails,
           ResolveLost, Die, EditMenu, Pay, Confirm, Debit, Adjust, CreditTicket
  <2> QED BY <2>2, <2>3, <2>4, <2>5, <2>6
<1>2. Spec => [][Stands]_vars
  BY <1>1, IInvIsInvariant, PTL DEF Spec
<1> QED BY <1>2 DEF LiveBindingStands

-----------------------------------------------------------------------------
(* The price, for every basket, coupon, wallet and royalty.                *)

LEMMA CouponWithinFood ==
    ASSUME NEW food \in Nat, NEW c \in Coupon
    PROVE  CouponOff(food, c) \in 0..food
<1> DEFINE raw == IF c.percent
                  THEN 100 * RoundDiv(food * Least(100, Greatest(0, c.off)), 10000)
                  ELSE 100 * c.off
           capped == IF c.cap = 0 THEN raw ELSE Least(raw, 100 * c.cap)
<1>1. c.off \in Int /\ c.cap \in Nat /\ c.minOrder \in Nat
  BY DEF Coupon
<1>2. raw \in Int
  <2>1. Least(100, Greatest(0, c.off)) \in Int
    BY <1>1 DEF Least, Greatest
  <2>2. food * Least(100, Greatest(0, c.off)) \in Int
    BY <2>1
  <2>3. \A n \in Int : RoundDiv(n, 10000) \in Int
    BY DEF RoundDiv
  <2>4. RoundDiv(food * Least(100, Greatest(0, c.off)), 10000) \in Int
    BY <2>2, <2>3
  <2> QED BY <1>1, <2>4
<1> HIDE DEF raw
<1>3. capped \in Int
  BY <1>1, <1>2 DEF Least
<1> HIDE DEF capped
<1>4. CouponOff(food, c) = IF food < 100 * c.minOrder THEN 0
                           ELSE Greatest(0, Least(capped, food))
  BY DEF CouponOff, capped, raw
<1> QED BY <1>1, <1>3, <1>4 DEF Least, Greatest

(* Coins and coupon together never take more than the food costs, the      *)
(* coins not more than was asked for, and the discount is in whole coins   *)
(* of one rupee or the rest of the food.                                   *)
LEMMA LoyaltyWithinFood ==
    ASSUME NEW food \in Nat, NEW discount \in 0..food, NEW coins \in Nat
    PROVE  /\ LoyaltyOff(food, discount, coins) \in 0..(food - discount)
           /\ LoyaltyOff(food, discount, coins) <= 100 * coins
<1>1. RoundDiv(food, 500) \in Nat
  BY DEF RoundDiv
<1> QED BY <1>1 DEF LoyaltyOff, Least, Greatest

(* calculateOrderPricing charges at least the fees, redeems no more coins  *)
(* than the customer asked for, and what it charges is the two legs of the *)
(* payout up to the half rupee the total is rounded by.                    *)
THEOREM QuoteIsSound ==
    ASSUME NEW food \in Nat, NEW coupon \in Coupon, NEW coins \in Nat,
           NEW fees \in Nat, NEW percentage \in 0..100
    PROVE  LET q == Quote(food, coupon, coins, fees, percentage)
           IN /\ q.coins \in 0..coins
              /\ q.total - (q.brand + q.branch) \in -50..50
              /\ q.total >= fees - 50
<1> DEFINE discount == CouponOff(food, coupon)
           loyalty == LoyaltyOff(food, discount, coins)
           taxable == Greatest(0, food - discount - loyalty)
           q == Quote(food, coupon, coins, fees, percentage)
<1>1. discount \in 0..food
  BY CouponWithinFood
<1> HIDE DEF discount
<1>2. loyalty \in 0..(food - discount) /\ loyalty <= 100 * coins
  BY <1>1, LoyaltyWithinFood
<1> HIDE DEF loyalty
<1>3. taxable \in Nat
  BY <1>1, <1>2 DEF Greatest
<1> HIDE DEF taxable
<1>4. q = [total |-> GrandTotal(taxable, fees), coins |-> loyalty \div 100,
           brand |-> RoyaltyLeg(taxable, percentage),
           branch |-> BranchLeg(taxable, fees, percentage)]
  BY DEF Quote, taxable, loyalty, discount
<1> HIDE DEF q
<1>5. RoyaltyLeg(taxable, percentage) \in Int
  <2>1. taxable * percentage \in Int
    BY <1>3
  <2>2. \A n \in Int : RoundDiv(n, 100) \in Int
    BY DEF RoundDiv
  <2> QED BY <2>1, <2>2 DEF RoyaltyLeg
<1>6. Gst(taxable) \in Nat
  BY <1>3 DEF Gst, RoundDiv
<1>7. q.brand + q.branch = taxable + fees + Gst(taxable)
  BY <1>3, <1>4, <1>5, <1>6 DEF BranchLeg
<1>8. \A n \in Nat : 100 * RoundDiv(n, 100) - n \in -50..50
  BY DEF RoundDiv
<1>9. taxable + fees + Gst(taxable) \in Nat
  BY <1>3, <1>6
<1>10. q.total - (taxable + fees + Gst(taxable)) \in -50..50 /\ q.total \in Int
  <2>1. q.total = 100 * RoundDiv(taxable + fees + Gst(taxable), 100)
    BY <1>4 DEF GrandTotal
  <2>2. RoundDiv(taxable + fees + Gst(taxable), 100) \in Int
    BY <1>9 DEF RoundDiv
  <2> QED BY <1>8, <1>9, <2>1, <2>2
<1>11. q.coins \in 0..coins
  BY <1>1, <1>2, <1>4
<1> QED BY <1>3, <1>6, <1>7, <1>10, <1>11 DEF q

-----------------------------------------------------------------------------
(* The wallet.                                                             *)

CallType == [step : Step, order : Order \cup {None}, key : Key \cup {None},
             amount : Nat, coins : Nat, rzp : 0..MaxMints]
IntentType == [rzp : 0..MaxMints, order : Order \cup {None}, coins : Nat,
               expired : BOOLEAN]
AnswerType == [rzp : Gate, order : Order, key : Key, claimed : BOOLEAN]
LedgerType == [staff : Int, ticket : Nat, redeemed : [Gate -> Nat \cup {None}]]

(* A call under way is for an order and a key.                             *)
CallsAreFor == \A c \in Call : call[c].step # "idle"
                 => call[c].order \in Order /\ call[c].key \in Key

CallTypes == call \in [Call -> CallType] /\ CallsAreFor
KeyTypes == /\ intent \in [Key -> IntentType]
            /\ lapsed \in [Key -> 0..MaxExpiries]
            /\ handed \subseteq AnswerType
ShopTypes ==
    /\ menu \in [Item -> [edited : BOOLEAN, inStock : BOOLEAN]]
    /\ order \in [Order -> [stamp : Nat, paid : 0..MaxMints]]
GatewayTypes ==
    /\ rzp \in [Gate -> [order : Order \cup {None}, amount : Nat, captured : BOOLEAN]]
    /\ minted \in 0..MaxMints
    /\ parked \subseteq Gate
WalletTypes == balance \in Nat /\ ledger \in LedgerType

WInv == /\ IInv /\ CallTypes /\ KeyTypes /\ ShopTypes /\ GatewayTypes
        /\ WalletTypes /\ LedgerBalances

LEMMA TypesMakeTypeOK ==
    CallTypes /\ KeyTypes /\ ShopTypes /\ GatewayTypes /\ WalletTypes => TypeOK
BY DEF CallTypes, KeyTypes, ShopTypes, GatewayTypes, WalletTypes, TypeOK, CallType,
       IntentType, AnswerType, LedgerType

LEMMA NoCallType == NoCall \in CallType /\ NoCall.step = "idle"
BY BoundIsNat DEF NoCall, CallType, Step

LEMMA GateIsFinite == IsFiniteSet(Gate)
BY BoundIsNat, FS_Interval

(* A call goes on, or ends.                                                *)
LEMMA BecomeType ==
    ASSUME CallTypes, NEW c \in Call, NEW r \in CallType, Become(c, r),
           r.step # "idle" => r.order \in Order /\ r.key \in Key
    PROVE  CallTypes'
<1>1. /\ call'[c] = r /\ \A d \in Call \ {c} : call'[d] = call[d]
      /\ call' \in [Call -> CallType]
  BY DEF CallTypes, Become
<1> QED BY <1>1 DEF CallTypes, CallsAreFor

LEMMA AnswerTypes ==
    ASSUME CallTypes, KeyTypes, NEW c \in Call, call[c].step # "idle",
           NEW g \in Gate, NEW claimed \in BOOLEAN, Answer(c, g, claimed)
    PROVE  CallTypes' /\ handed' \subseteq AnswerType
<1>1. CallTypes'
  BY BecomeType, NoCallType DEF Answer
<1>2. call[c].order \in Order /\ call[c].key \in Key
  BY DEF CallTypes, CallsAreFor
<1> QED BY <1>1, <1>2 DEF Answer, KeyTypes, AnswerType

(* An answer from a binding, or none when it is another order's.           *)
LEMMA ConvergeTypes ==
    ASSUME CallTypes, KeyTypes, NEW c \in Call, call[c].step # "idle",
           NEW i \in IntentType, i.rzp # 0, Converge(c, i)
    PROVE  CallTypes' /\ handed' \subseteq AnswerType
<1>1. i.rzp \in Gate
  BY BoundIsNat DEF IntentType
<1>2. CASE i.order = call[c].order
  BY <1>1, <1>2, AnswerTypes DEF Converge
<1>3. CASE i.order # call[c].order
  BY <1>3, BecomeType, NoCallType DEF Converge, KeyTypes
<1> QED BY <1>2, <1>3

LEMMA QuoteTotalIsNat ==
    ASSUME NEW food \in Nat, NEW coupon \in Coupon, NEW coins \in Nat,
           NEW fees \in Nat, NEW percentage \in 0..100
    PROVE  Quote(food, coupon, coins, fees, percentage).total \in Nat
<1> DEFINE discount == CouponOff(food, coupon)
           loyalty == LoyaltyOff(food, discount, coins)
           taxable == Greatest(0, food - discount - loyalty)
<1>1. discount \in 0..food
  BY CouponWithinFood
<1> HIDE DEF discount
<1>2. loyalty \in 0..(food - discount)
  BY <1>1, LoyaltyWithinFood
<1> HIDE DEF loyalty
<1>3. taxable \in Nat
  BY <1>1, <1>2 DEF Greatest
<1> HIDE DEF taxable
<1>4. Quote(food, coupon, coins, fees, percentage).total = GrandTotal(taxable, fees)
  BY DEF Quote, taxable, loyalty, discount
<1>5. \A n \in Nat : RoundDiv(n, 100) \in Nat
  BY DEF RoundDiv
<1>6. taxable + fees + Gst(taxable) \in Nat
  BY <1>3, <1>5 DEF Gst
<1>7. RoundDiv(taxable + fees + Gst(taxable), 100) \in Nat
  BY <1>5, <1>6
<1>8. GrandTotal(taxable, fees) \in Nat
  BY <1>7 DEF GrandTotal
<1> QED BY <1>4, <1>8

(* What a basket costs and redeems is natural.                             *)
LEMMA PricedType ==
    ASSUME ShopTypes, NEW o \in Order, NEW k \in Key
    PROVE  Priced(o, k).total \in Nat /\ Priced(o, k).coins \in Nat
<1> DEFINE price == [i \in Item |-> Price[menu[i].edited]]
           fees == Packaging(OrderType, PackagingFee) + Delivery(OrderType, DeliveryFee)
<1>1. Basket[o] \in SUBSET Item /\ IsFiniteSet(Basket[o])
  BY ConstantsAssumption, FS_Subset
<1>2. \A i \in Item : menu[i].edited \in BOOLEAN
  BY DEF ShopTypes
<1>3. \A i \in Basket[o] : price[i] \in Nat
  BY <1>1, <1>2, ConstantsAssumption
<1>4. Food(o) = SumOver(price, Basket[o])
  BY DEF Food, SumOver
<1> HIDE DEF price
<1>5. Food(o) \in Nat
  BY <1>1, <1>3, <1>4, SumIsNat
<1>6. fees \in Nat
  BY ConstantsAssumption DEF Packaging, Delivery, Greatest
<1> HIDE DEF fees
<1>7. Request[k].coins \in Nat /\ Request[k].coupon \in Coupon /\ Percentage \in 0..100
  BY ConstantsAssumption
<1>8. Priced(o, k) = Quote(Food(o), Request[k].coupon, Request[k].coins, fees, Percentage)
  BY DEF Priced, fees
<1>9. Priced(o, k).coins \in 0..Request[k].coins
  BY <1>5, <1>6, <1>7, <1>8, QuoteIsSound
<1>10. Priced(o, k).total \in Nat
  BY <1>5, <1>6, <1>7, <1>8, QuoteTotalIsNat
<1> QED BY <1>7, <1>9, <1>10

(* The ledger's redemptions, as a sum.                                     *)
LEMMA LedgerSum ==
    LedgerBalances <=> balance = Opening + ledger.staff + ledger.ticket
                                 - SumOver(Redeemed, Gate)
BY DEF LedgerBalances, SumOver

LEMMA RedeemedType ==
    ASSUME WalletTypes
    PROVE  /\ \A g \in Gate : Redeemed[g] \in Nat
           /\ SumOver(Redeemed, Gate) \in Nat
<1>1. \A g \in Gate : Redeemed[g] \in Nat
  BY DEF WalletTypes, LedgerType, Redeemed
<1> QED BY <1>1, GateIsFinite, SumIsNat

LEMMA InitWInv == Init => WInv
<1> SUFFICES ASSUME Init PROVE WInv
  OBVIOUS
<1>1. CallTypes
  BY NoCallType DEF Init, CallTypes, CallsAreFor
<1>2. KeyTypes
  <2>1. NoIntent \in IntentType
    BY BoundIsNat DEF NoIntent, IntentType
  <2>2. 0 \in 0..MaxExpiries
    <3>1. {MaxMints, MaxExpiries, MaxActs, MaxFaults} \subseteq Nat
      BY ConstantsAssumption
    <3> QED BY <3>1
  <2> QED BY <2>1, <2>2 DEF Init, KeyTypes
<1>3. ShopTypes
  BY BoundIsNat DEF Init, ShopTypes
<1>4. GatewayTypes
  BY BoundIsNat DEF Init, GatewayTypes, NoOrder
<1>5. WalletTypes
  BY ConstantsAssumption DEF Init, WalletTypes, LedgerType
<1>6. LedgerBalances
  <2>1. \A g \in Gate : Redeemed[g] = 0
    BY DEF Init, Redeemed
  <2>2. SumOver(Redeemed, Gate) = 0
    BY <2>1, GateIsFinite, SumOfZeros
  <2>3. Opening \in Nat
    BY ConstantsAssumption
  <2> QED BY <2>2, <2>3, LedgerSum DEF Init
<1> QED BY <1>1, <1>2, <1>3, <1>4, <1>5, <1>6, InitIInv DEF WInv

(* Calls of createPaymentOrder do not touch the wallet.                    *)
LEMMA WalletStays ==
    ASSUME WalletTypes, LedgerBalances, UNCHANGED wallet
    PROVE  WalletTypes' /\ LedgerBalances'
BY DEF WalletTypes, LedgerBalances, Redeemed, wallet

(* What a step of a call may change.                                       *)
LEMMA CallStepKeepsW ==
    ASSUME WInv, IInv', CallTypes', KeyTypes', ShopTypes', GatewayTypes',
           UNCHANGED wallet
    PROVE  WInv'
BY WalletStays DEF WInv

LEMMA CallTypesStep ==
    ASSUME WInv, IInv', NEW c \in Call,
           \/ Begin(c) \/ Lookup(c) \/ Refuse(c) \/ Stamp(c) \/ Mint(c) \/ MintFails(c)
           \/ Claim(c) \/ ClaimFails(c) \/ ResolveLost(c) \/ Supersede(c) \/ Die(c)
    PROVE  WInv'
<1> USE DEF WInv
<1>1. ASSUME call[c].step # "idle"
      PROVE  /\ call[c] \in CallType /\ call[c].order \in Order /\ call[c].key \in Key
             /\ intent[call[c].key] \in IntentType
  BY <1>1 DEF CallTypes, CallsAreFor, KeyTypes
<1>2. ASSUME call[c].step \in {"minted", "lost", "superseding"}
      PROVE  call[c].rzp \in Gate
  BY <1>2, BoundIsNat DEF IInv, PairsFit, MintedFor, GatewayTypes
<1>3. CASE Begin(c)
  <2>1. PICK o \in Order, k \in Key :
            Become(c, [NoCall EXCEPT !.step = "checked", !.order = o, !.key = k])
    BY <1>3 DEF Begin
  <2> DEFINE r == [NoCall EXCEPT !.step = "checked", !.order = o, !.key = k]
  <2>2. r \in CallType /\ r.order \in Order /\ r.key \in Key
    <3>1. r = [step |-> "checked", order |-> o, key |-> k, amount |-> 0, coins |-> 0,
               rzp |-> 0]
      BY CheckedRecord
    <3> HIDE DEF r
    <3> QED BY <3>1, BoundIsNat DEF CallType, Step
  <2> HIDE DEF r
  <2>3. CallTypes'
    BY <2>1, <2>2, BecomeType DEF r
  <2> QED BY <1>3, <2>3, CallStepKeepsW DEF Begin, KeyTypes, ShopTypes, GatewayTypes
<1>4. CASE Lookup(c)
  <2>1. CallTypes' /\ handed' \subseteq AnswerType
    <3>1. CASE Live(intent[call[c].key])
      BY <1>1, <1>4, <3>1, ConvergeTypes DEF Lookup, Live
    <3>2. CASE ~Live(intent[call[c].key])
      <4> DEFINE r == [call[c] EXCEPT !.step = "free"]
      <4>1. r \in CallType /\ r.order \in Order /\ r.key \in Key
        BY <1>1, <1>4 DEF Lookup, CallType, Step
      <4>2. Become(c, r) /\ handed' = handed
        BY <1>4, <3>2 DEF Lookup
      <4> HIDE DEF r
      <4> QED BY <4>1, <4>2, BecomeType DEF KeyTypes
    <3> QED BY <3>1, <3>2
  <2> QED BY <1>4, <2>1, CallStepKeepsW DEF Lookup, KeyTypes, ShopTypes, GatewayTypes
<1>5. CASE Refuse(c) \/ MintFails(c) \/ Die(c)
  <2>1. Become(c, NoCall) /\ UNCHANGED <<menu, order, rzp, minted, intent, handed,
            parked, wallet, lapsed>>
    BY <1>5 DEF Refuse, MintFails, Die
  <2>2. CallTypes'
    BY <2>1, NoCallType, BecomeType
  <2> QED BY <2>1, <2>2, CallStepKeepsW DEF KeyTypes, ShopTypes, GatewayTypes
<1>6. CASE Stamp(c)
  <2> PICK q : q = Priced(call[c].order, call[c].key)
    OBVIOUS
  <2>1. q.total \in Nat /\ q.coins \in Nat
    BY <1>1, <1>6, PricedType DEF Stamp
  <2> DEFINE r == [call[c] EXCEPT !.step = "stamped", !.amount = q.total,
                                  !.coins = q.coins]
  <2>2. /\ order' = [order EXCEPT ![call[c].order].stamp = q.total]
        /\ Become(c, r)
        /\ UNCHANGED <<menu, rzp, minted, intent, handed, parked, wallet, lapsed>>
    BY <1>6 DEF Stamp
  <2>3. r \in CallType /\ r.order \in Order /\ r.key \in Key
    BY <1>1, <1>6, <2>1 DEF Stamp, CallType, Step
  <2> HIDE DEF r
  <2>4. CallTypes'
    BY <2>2, <2>3, BecomeType
  <2>5. ShopTypes'
    BY <2>1, <2>2 DEF ShopTypes
  <2> QED BY <2>2, <2>4, <2>5, CallStepKeepsW DEF KeyTypes, GatewayTypes
<1>7. CASE Mint(c)
  <2>1. /\ minted' = minted + 1 /\ minted' \in Gate
        /\ rzp' = [rzp EXCEPT ![minted'] = [order |-> call[c].order,
                                        amount |-> call[c].amount, captured |-> FALSE]]
        /\ UNCHANGED <<menu, order, intent, handed, parked, wallet, lapsed>>
    BY <1>7, BoundIsNat DEF Mint, GatewayTypes
  <2>2. GatewayTypes'
    BY <1>1, <1>7, <2>1 DEF Mint, GatewayTypes, CallType
  <2> PICK m : m = minted'
    OBVIOUS
  <2> DEFINE r == [call[c] EXCEPT !.step = "minted", !.rzp = m]
  <2>3. r \in CallType /\ r.order \in Order /\ r.key \in Key
    <3>1. /\ call[c] \in CallType /\ call[c].order \in Order /\ call[c].key \in Key
          /\ m \in 0..MaxMints
      BY <1>1, <1>7, <2>1 DEF Mint
    <3>2. r = [step |-> "minted", order |-> call[c].order, key |-> call[c].key,
               amount |-> call[c].amount, coins |-> call[c].coins, rzp |-> m]
      BY <3>1, MintedRecord DEF CallRecord, CallType
    <3> HIDE DEF r
    <3> QED BY <3>1, <3>2 DEF CallType, Step
  <2>4. Become(c, r) \/ Become(c, NoCall)
    BY <1>7 DEF Mint
  <2> HIDE DEF r
  <2>5. CallTypes'
    BY <2>3, <2>4, NoCallType, BecomeType
  <2> QED BY <2>1, <2>2, <2>5, CallStepKeepsW DEF KeyTypes, ShopTypes
<1>8. ASSUME Bind(c), Answer(c, call[c].rzp, TRUE), call[c].step \in {"minted", "superseding"},
             UNCHANGED <<menu, order, rzp, minted, parked, wallet, lapsed>>
      PROVE  WInv'
  <2>1. CallTypes' /\ handed' \subseteq AnswerType
    BY <1>2, <1>8, AnswerTypes
  <2>2. Fresh(c) \in IntentType
    BY <1>1, <1>2, <1>8 DEF Fresh, IntentType, CallType
  <2>3. KeyTypes'
    BY <1>8, <2>1, <2>2 DEF KeyTypes, Bind
  <2> QED BY <1>8, <2>1, <2>3, CallStepKeepsW DEF ShopTypes, GatewayTypes
<1>9. CASE Claim(c)
  <2>1. CASE intent[call[c].key].rzp = 0
    BY <1>8, <1>9, <2>1 DEF Claim
  <2>2. CASE intent[call[c].key].rzp # 0
    <3> DEFINE r == [call[c] EXCEPT !.step = "lost"]
    <3>1. r \in CallType /\ r.order \in Order /\ r.key \in Key
      BY <1>1, <1>9 DEF Claim, CallType, Step
    <3>2. Become(c, r) /\ UNCHANGED <<menu, order, rzp, minted, intent, handed, parked,
                                     wallet, lapsed>>
      BY <1>9, <2>2 DEF Claim
    <3> HIDE DEF r
    <3>3. CallTypes'
      BY <3>1, <3>2, BecomeType
    <3> QED BY <3>2, <3>3, CallStepKeepsW DEF KeyTypes, ShopTypes, GatewayTypes
  <2> QED BY <2>1, <2>2
<1>10. CASE ClaimFails(c)
  <2>1. CallTypes' /\ handed' \subseteq AnswerType
    BY <1>2, <1>10, AnswerTypes DEF ClaimFails
  <2> QED BY <1>10, <2>1, CallStepKeepsW DEF ClaimFails, KeyTypes, ShopTypes, GatewayTypes
<1>11. CASE ResolveLost(c)
  <2>1. CallTypes' /\ handed' \subseteq AnswerType
    <3>1. CASE intent[call[c].key].expired
      <4> DEFINE r == [call[c] EXCEPT !.step = "superseding"]
      <4>1. r \in CallType /\ r.order \in Order /\ r.key \in Key
        BY <1>1, <1>11 DEF ResolveLost, CallType, Step
      <4>2. Become(c, r) /\ handed' = handed
        BY <1>11, <3>1 DEF ResolveLost
      <4> HIDE DEF r
      <4> QED BY <4>1, <4>2, BecomeType DEF KeyTypes
    <3>2. CASE ~intent[call[c].key].expired
      <4>1. intent[call[c].key].rzp # 0
        BY <1>11 DEF ResolveLost, IInv, WinnersAnswered
      <4> QED BY <1>1, <1>11, <3>2, <4>1, ConvergeTypes DEF ResolveLost
    <3> QED BY <3>1, <3>2
  <2> QED BY <1>11, <2>1, CallStepKeepsW DEF ResolveLost, KeyTypes, ShopTypes, GatewayTypes
<1>12. CASE Supersede(c)
  <2>1. CASE Live(intent[call[c].key])
    <3>1. CallTypes' /\ handed' \subseteq AnswerType
      BY <1>1, <1>12, <2>1, ConvergeTypes DEF Supersede, Live
    <3> QED BY <1>12, <2>1, <3>1, CallStepKeepsW
        DEF Supersede, KeyTypes, ShopTypes, GatewayTypes
  <2>2. CASE ~Live(intent[call[c].key])
    BY <1>8, <1>12, <2>2 DEF Supersede
  <2> QED BY <2>1, <2>2
<1> HIDE DEF WInv
<1> QED BY <1>3, <1>4, <1>5, <1>6, <1>7, <1>9, <1>10, <1>11, <1>12

(* One ledger row and one movement of the wallet, together.                *)
LEMMA MoneyStep ==
    ASSUME WInv, \/ \E g \in Gate : Debit(g)
                 \/ Adjust \/ CreditTicket
    PROVE  WalletTypes' /\ LedgerBalances'
<1> USE DEF WInv
<1>1. /\ balance \in Nat /\ ledger \in LedgerType
      /\ SumOver(Redeemed, Gate) \in Nat /\ Opening \in Nat
      /\ balance = Opening + ledger.staff + ledger.ticket - SumOver(Redeemed, Gate)
  BY RedeemedType, LedgerSum, ConstantsAssumption DEF WalletTypes
<1>2. ASSUME NEW g \in Gate, Debit(g) PROVE WalletTypes' /\ LedgerBalances'
  <2> PICK debit : debit = Least(balance, Redemption(g))
    OBVIOUS
  <2>1. /\ balance' = balance - debit
        /\ ledger' = [ledger EXCEPT !.redeemed[g] = debit]
        /\ ledger.redeemed[g] = None /\ Redemption(g) > 0
    BY <1>2 DEF Debit
  <2>2. Redemption(g) \in Nat
    <3> DEFINE bound == {k \in Key : intent[k].rzp = g}
    <3>1. CASE bound = {}
      BY <3>1 DEF Redemption
    <3>2. CASE bound # {}
      <4>1. (CHOOSE k \in bound : TRUE) \in Key
        BY <3>2
      <4>2. \A k \in Key : intent[k].coins \in Nat
        BY DEF KeyTypes, IntentType
      <4> QED BY <3>2, <4>1, <4>2 DEF Redemption
    <3> QED BY <3>1, <3>2
  <2>3. debit \in Nat /\ balance - debit \in Nat
    BY <1>1, <2>2 DEF Least
  <2>4. WalletTypes'
    BY <1>1, <2>1, <2>3 DEF WalletTypes, LedgerType
  <2>5. ledger'.staff = ledger.staff /\ ledger'.ticket = ledger.ticket
    BY <1>1, <2>1 DEF LedgerType
  <2>6. PICK f, h : f = Redeemed /\ h = Redeemed'
    OBVIOUS
  <2>7. /\ f[g] = 0 /\ h[g] = debit
        /\ \A x \in Gate \ {g} : f[x] = h[x]
    BY <1>1, <2>1, <2>3, <2>6, ConstantsAssumption DEF Redeemed, LedgerType
  <2>8. \A x \in Gate : f[x] \in Nat /\ h[x] \in Nat
    BY <2>3, <2>6, <2>7, RedeemedType
  <2>9. SumOver(h, Gate) + f[g] = SumOver(f, Gate) + h[g]
    <3> HIDE DEF Gate
    <3> QED BY <2>7, <2>8, GateIsFinite, SumChangesBy
  <2>10. SumOver(h, Gate) \in Nat
    BY <2>8, GateIsFinite, SumIsNat
  <2>11. SumOver(Redeemed, Gate)' = SumOver(Redeemed, Gate) + debit
    BY <1>1, <2>3, <2>6, <2>7, <2>9, <2>10
  <2>12. (balance = Opening + ledger.staff + ledger.ticket - SumOver(Redeemed, Gate))'
    BY <1>1, <2>1, <2>3, <2>5, <2>11 DEF LedgerType
  <2> QED BY <2>4, <2>12, LedgerSum, PTL
<1>3. ASSUME CreditTicket \/ Adjust PROVE WalletTypes' /\ LedgerBalances'
  <2>1. PICK staff \in Int, ticket \in Nat :
            /\ ledger' = [ledger EXCEPT !.staff = staff, !.ticket = ticket]
            /\ balance' \in Nat
            /\ balance' - balance = (staff + ticket) - (ledger.staff + ledger.ticket)
    <3>1. CASE CreditTicket
      <4>1. /\ ledger' = [ledger EXCEPT !.ticket = TicketCoins]
            /\ balance' = balance + TicketCoins /\ ledger.ticket = 0
            /\ TicketCoins \in Nat
        BY <3>1, ConstantsAssumption DEF CreditTicket
      <4>2. ledger' = [ledger EXCEPT !.staff = ledger.staff, !.ticket = TicketCoins]
        BY <1>1, <4>1 DEF LedgerType
      <4>3. ledger.staff \in Int
        BY <1>1 DEF LedgerType
      <4>4. balance \in Nat
        BY <1>1
      <4>5. /\ balance + TicketCoins \in Nat
            /\ (balance + TicketCoins) - balance
                 = (ledger.staff + TicketCoins) - (ledger.staff + 0)
        BY <4>1, <4>3, <4>4
      <4> QED BY <4>1, <4>2, <4>3, <4>5
    <3>2. CASE Adjust
      <4>1. PICK delta \in Delta :
                /\ balance' = Greatest(0, balance + delta)
                /\ ledger' = [ledger EXCEPT !.staff = @ + balance' - balance]
        BY <3>2 DEF Adjust
      <4>2. delta \in Int
        BY ConstantsAssumption
      <4>3. balance' \in Nat
        BY <1>1, <4>1, <4>2 DEF Greatest
      <4>4. ledger.staff \in Int /\ ledger.ticket \in Nat
        BY <1>1 DEF LedgerType
      <4> PICK staff \in Int : staff = ledger.staff + balance' - balance
        BY <1>1, <4>3, <4>4
      <4>5. ledger' = [ledger EXCEPT !.staff = staff, !.ticket = ledger.ticket]
        BY <1>1, <4>1 DEF LedgerType
      <4>6. balance' - balance = (staff + ledger.ticket) - (ledger.staff + ledger.ticket)
        <5>1. PICK s \in Int, t \in Nat, b \in Nat, n \in Nat :
                  s = ledger.staff /\ t = ledger.ticket /\ b = balance /\ n = balance'
          BY <1>1, <4>3, <4>4
        <5>2. staff = s + n - b
          BY <5>1
        <5> QED BY <5>1, <5>2
      <4> QED BY <4>3, <4>4, <4>5, <4>6
    <3> QED BY <1>3, <3>1, <3>2
  <2>2. /\ ledger' \in LedgerType /\ ledger'.redeemed = ledger.redeemed
        /\ ledger'.staff = staff /\ ledger'.ticket = ticket
        /\ ledger.staff \in Int /\ ledger.ticket \in Nat
    BY <1>1, <2>1 DEF LedgerType
  <2>3. Redeemed' = Redeemed
    BY <2>2 DEF Redeemed
  <2>4. SumOver(Redeemed, Gate)' = SumOver(Redeemed, Gate)
    BY <2>3
  <2>5. (balance = Opening + ledger.staff + ledger.ticket - SumOver(Redeemed, Gate))'
    <3>1. PICK s \in Int, t \in Nat, b \in Nat, n \in Nat, sum \in Nat, op \in Nat :
              /\ s = ledger.staff /\ t = ledger.ticket /\ b = balance /\ n = balance'
              /\ sum = SumOver(Redeemed, Gate) /\ op = Opening
      BY <1>1, <2>1, <2>2
    <3>2. b = op + s + t - sum /\ n - b = (staff + ticket) - (s + t)
      BY <1>1, <2>1, <3>1
    <3>3. n = op + staff + ticket - sum
      BY <3>2
    <3> QED BY <2>2, <2>4, <3>1, <3>3
  <2>6. WalletTypes'
    BY <2>1, <2>2 DEF WalletTypes
  <2> QED BY <2>5, <2>6, LedgerSum, PTL
<1> HIDE DEF WInv
<1> QED BY <1>2, <1>3

LEMMA NextWInv == WInv /\ [Next]_vars => WInv'
<1> SUFFICES ASSUME WInv, [Next]_vars PROVE WInv'
  OBVIOUS
<1>1. IInv'
  BY NextIInv DEF WInv
<1> USE DEF WInv
<1>2. ASSUME NEW k \in Key, Expire(k) PROVE WInv'
  <2>1. /\ intent' = [intent EXCEPT ![k].expired = TRUE]
        /\ lapsed' = [lapsed EXCEPT ![k] = @ + 1] /\ lapsed[k] < MaxExpiries
        /\ UNCHANGED <<menu, order, rzp, minted, call, handed, parked, wallet>>
    BY <1>2 DEF Expire
  <2>2. intent' \in [Key -> IntentType]
    BY <2>1 DEF KeyTypes, IntentType
  <2>3. lapsed' \in [Key -> 0..MaxExpiries]
    <3>1. {MaxMints, MaxExpiries, MaxActs, MaxFaults} \subseteq Nat
      BY ConstantsAssumption
    <3> QED BY <2>1, <3>1 DEF KeyTypes
  <2> QED BY <1>1, <2>1, <2>2, <2>3, CallStepKeepsW
      DEF KeyTypes, CallTypes, CallsAreFor, ShopTypes, GatewayTypes
<1>3. ASSUME NEW i \in Item, EditMenu(i) PROVE WInv'
  <2>1. ShopTypes'
    BY ZenonT(40), <1>3 DEF EditMenu, ShopTypes
  <2> QED BY <1>1, <1>3, <2>1, CallStepKeepsW
      DEF EditMenu, KeyTypes, CallTypes, CallsAreFor, GatewayTypes
<1>4. ASSUME NEW g \in Gate, Pay(g) PROVE WInv'
  BY <1>1, <1>4, CallStepKeepsW
  DEF Pay, KeyTypes, CallTypes, CallsAreFor, ShopTypes, GatewayTypes
<1>5. ASSUME NEW g \in Gate, Confirm(g) PROVE WInv'
  <2>1. g \in 0..MaxMints
    BY BoundIsNat
  <2>2. ShopTypes'
    BY <1>5, <2>1 DEF Confirm, ShopTypes
  <2>3. GatewayTypes'
    BY <1>5 DEF Confirm, GatewayTypes
  <2> QED BY <1>1, <1>5, <2>2, <2>3, CallStepKeepsW DEF Confirm, KeyTypes, CallTypes, CallsAreFor
<1>6. ASSUME \/ \E g \in Gate : Debit(g)
             \/ Adjust \/ CreditTicket
      PROVE  WInv'
  <2>1. WalletTypes' /\ LedgerBalances'
    BY <1>6, MoneyStep
  <2>2. UNCHANGED <<menu, order, rzp, minted, intent, call, handed, parked, lapsed>>
    BY <1>6 DEF Debit, Adjust, CreditTicket
  <2> QED BY <1>1, <2>1, <2>2
      DEF KeyTypes, CallTypes, CallsAreFor, ShopTypes, GatewayTypes
<1>7. CASE UNCHANGED vars
  BY <1>1, <1>7, CallStepKeepsW
  DEF vars, KeyTypes, CallTypes, CallsAreFor, ShopTypes, GatewayTypes
<1> HIDE DEF WInv
<1> QED BY <1>1, <1>2, <1>3, <1>4, <1>5, <1>6, <1>7, CallTypesStep DEF Next

LEMMA WInvIsInvariant == Spec => []WInv
BY InitWInv, NextWInv, PTL DEF Spec

(* Calls, intents, gateway orders, stamps and the wallet keep their types: *)
(* what is priced, bound and redeemed is always a natural number of paise  *)
(* or coins.                                                               *)
THEOREM CheckoutTypeCorrect == Spec => []TypeOK
<1>1. WInv => TypeOK
  BY TypesMakeTypeOK DEF WInv
<1> QED BY <1>1, WInvIsInvariant, PTL

(* The wallet is the opening balance and what the ledger's rows say, for   *)
(* any number of redemptions, adjustments and credits in any order         *)
(* (debitRedeemedCoins, adjustCustomerCoins, creditTicketLoyaltyCoins).    *)
THEOREM WalletIsItsLedger == Spec => []LedgerBalances
<1>1. WInv => LedgerBalances
  BY DEF WInv
<1> QED BY <1>1, WInvIsInvariant, PTL
=============================================================================
