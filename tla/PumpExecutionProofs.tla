------------------------- MODULE PumpExecutionProofs -------------------------
(***************************************************************************)
(* Proofs about PumpExecution for every curve, fee, slippage and number of  *)
(* calls, however the market moves.                                         *)
(***************************************************************************)
EXTENDS PumpExecution, TLAPS

-----------------------------------------------------------------------------
(* The arithmetic of the quotes.                                            *)

LEMMA ProductNat == ASSUME NEW a \in Nat, NEW b \in Nat PROVE a * b \in Nat
OBVIOUS

LEMMA QuotientNat == ASSUME NEW a \in Nat, NEW b \in Nat \ {0} PROVE a \div b \in Nat
OBVIOUS

(* Rounding down to whole units loses less than one.                        *)
LEMMA RoundsDown ==
  ASSUME NEW a \in Nat
  PROVE  /\ a \div BPS \in Nat
         /\ (a \div BPS) * BPS <= a
         /\ a < (a \div BPS + 1) * BPS
BY DEF BPS

LEMMA ClipBounds == ASSUME NEW n \in Int, NEW most \in Nat PROVE Clip(n, most) \in 0..most
BY DEF Clip

LEMMA AfterFeeNat == ASSUME NEW n \in Nat PROVE AfterFee(n) \in Nat
<1>1. BPS - FeeBps \in Nat
  BY PumpExecutionAssumption DEF BPS
<1>2. n * (BPS - FeeBps) \in Nat
  BY <1>1, ProductNat
<1> QED BY <1>2, RoundsDown DEF AfterFee

(* A buy never takes more than the curve holds.                             *)
LEMMA BuyQuote ==
  ASSUME NEW sol \in Nat, NEW st \in Curves
  PROVE  EstimateBuy(sol, st) \in 0..st.rt
<1>0. st.vt \in Nat \ {0} /\ st.vs \in Nat /\ st.rt \in Nat
  BY DEF Curves
<1>1. CASE sol <= 0 \/ st.complete \/ AfterFee(sol) <= 0
  BY <1>0, <1>1 DEF EstimateBuy
<1>2. CASE ~(sol <= 0 \/ st.complete \/ AfterFee(sol) <= 0)
  <2> DEFINE k == st.vs * st.vt
             v == st.vs + AfterFee(sol)
  <2>1. k \in Nat
    BY <1>0, ProductNat
  <2>2. v \in Nat \ {0}
    BY <1>0, <1>2, AfterFeeNat
  <2>3. k \div v \in Nat
    BY <2>1, <2>2, QuotientNat
  <2>4. EstimateBuy(sol, st) = Clip(st.vt - k \div v, st.rt)
    BY <1>2 DEF EstimateBuy
  <2> HIDE DEF k, v
  <2>5. st.vt - k \div v \in Int
    BY <1>0, <2>3
  <2> QED BY <1>0, <2>4, <2>5, ClipBounds
<1> QED BY <1>1, <1>2

(* Tokens sold for SOL leave SOL on the virtual reserve.                    *)
LEMMA Invariant ==
  ASSUME NEW n \in Nat, NEW st \in Curves
  PROVE  (st.vs * st.vt) \div (st.vt + n) \in Nat
<1>1. st.vs * st.vt \in Nat /\ st.vt + n \in Nat \ {0}
  BY ProductNat DEF Curves
<1> QED BY <1>1, QuotientNat

LEMMA SellQuote ==
  ASSUME NEW n \in Nat, NEW st \in Curves
  PROVE  EstimateSell(n, st) \in Nat
<1> DEFINE q == (st.vs * st.vt) \div (st.vt + n)
<1>0. st.vs \in Nat /\ st.rs \in Nat /\ q \in Nat
  BY Invariant, Zenon DEF Curves
<1>1. CASE n <= 0 \/ st.complete
  <2>1. EstimateSell(n, st) = 0
    BY <1>1 DEF EstimateSell
  <2> QED BY <2>1
<1>2. CASE ~(n <= 0 \/ st.complete)
  <2>1. EstimateSell(n, st) = Clip(AfterFee(st.vs - q), st.rs)
    BY <1>2 DEF EstimateSell
  <2> HIDE DEF q
  <2>2. st.vs - q \in Int
    BY <1>0
  <2>3. (st.vs - q) * (BPS - FeeBps) \in Int
    BY <2>2, PumpExecutionAssumption DEF BPS
  <2>4. AfterFee(st.vs - q) \in Int
    BY <2>3 DEF AfterFee, BPS
  <2>5. Clip(AfterFee(st.vs - q), st.rs) \in 0..st.rs
    BY <1>0, <2>4, ClipBounds
  <2>6. EstimateSell(n, st) \in 0..st.rs
    BY <2>1, <2>5
  <2>7. 0..st.rs \subseteq Nat
    BY <1>0
  <2> QED BY <2>6, <2>7
<1> QED BY <1>1, <1>2

(* The limits of the instructions, in both directions.                      *)
LEMMA BuyLimit ==
  ASSUME NEW sol \in Nat
  PROVE  MaxSolCost(sol) \in Nat /\ MaxSolCost(sol) * BPS <= sol * (BPS + SlippageBps)
<1>1. BPS + SlippageBps \in Nat
  BY PumpExecutionAssumption DEF BPS
<1>2. sol * (BPS + SlippageBps) \in Nat
  BY <1>1, ProductNat
<1> QED BY <1>2, RoundsDown DEF MaxSolCost

LEMMA SellLimit ==
  ASSUME NEW sol \in Nat
  PROVE  /\ MinSolOutput(sol) \in Nat
         /\ sol * (BPS - SlippageBps) < (MinSolOutput(sol) + 1) * BPS
<1>1. BPS - SlippageBps \in Nat
  BY PumpExecutionAssumption DEF BPS
<1>2. sol * (BPS - SlippageBps) \in Nat
  BY <1>1, ProductNat
<1> QED BY <1>2, RoundsDown DEF MinSolOutput

(* A trade leaves a curve whose virtual reserve exceeds the real one.       *)
LEMMA CurveFields ==
  ASSUME NEW st \in Curves, NEW vt, NEW vs, NEW rt, NEW rs, NEW done
  PROVE  /\ [st EXCEPT !.vt = vt, !.rt = rt, !.vs = vs, !.rs = rs].vt = vt
         /\ [st EXCEPT !.vt = vt, !.rt = rt, !.vs = vs, !.rs = rs].rt = rt
         /\ [st EXCEPT !.vt = vt, !.rt = rt, !.vs = vs, !.rs = rs, !.complete = done].vt = vt
         /\ [st EXCEPT !.vt = vt, !.rt = rt, !.vs = vs, !.rs = rs, !.complete = done].rt = rt
BY DEF Curves

LEMMA BoughtCurve ==
  ASSUME NEW st \in Curves, st.rt < st.vt, NEW n \in 0..st.rt, NEW sol \in Nat
  PROVE  Bought(st, n, sol) \in Curves /\ Bought(st, n, sol).rt < Bought(st, n, sol).vt
<1> DEFINE vt == st.vt - n
           rt == st.rt - n
           vs == st.vs + AfterFee(sol)
           rs == st.rs + AfterFee(sol)
           done == (st.rt = n)
<1>1. AfterFee(sol) \in Nat
  BY AfterFeeNat
<1>2. vt \in Nat \ {0} /\ rt \in Nat /\ rt < vt /\ vs \in Nat /\ rs \in Nat
  BY <1>1 DEF Curves
<1>3. done \in BOOLEAN
  OBVIOUS
<1>4. Bought(st, n, sol) = [st EXCEPT !.vt = vt, !.rt = rt, !.vs = vs, !.rs = rs, !.complete = done]
  BY DEF Bought
<1> HIDE DEF vt, rt, vs, rs, done
<1>5. Bought(st, n, sol) \in Curves
  BY <1>2, <1>3, <1>4, Zenon DEF Curves
<1>6. Bought(st, n, sol).vt = vt /\ Bought(st, n, sol).rt = rt
  BY <1>4, CurveFields
<1> QED BY <1>2, <1>5, <1>6

LEMMA SoldCurve ==
  ASSUME NEW st \in Curves, st.rt < st.vt, NEW n \in Nat
  PROVE  Sold(st, n) \in Curves /\ Sold(st, n).rt < Sold(st, n).vt
<1> DEFINE q == (st.vs * st.vt) \div (st.vt + n)
           vt == st.vt + n
           rt == st.rt + n
           vs == st.vs - (st.vs - q)
           rs == Clip(st.rs - (st.vs - q), st.rs)
<1>1. q \in Nat /\ st.vs \in Nat /\ st.rs \in Nat
  BY Invariant, Zenon DEF Curves
<1>2. Sold(st, n) = [st EXCEPT !.vt = vt, !.rt = rt, !.vs = vs, !.rs = rs]
  BY DEF Sold
<1> HIDE DEF q
<1>3. st.rs - (st.vs - q) \in Int
  BY <1>1
<1>4. rs \in Nat
  BY <1>1, <1>3, ClipBounds
<1>5. vt \in Nat \ {0} /\ rt \in Nat /\ rt < vt /\ vs \in Nat
  BY <1>1 DEF Curves
<1> HIDE DEF vt, rt, vs, rs
<1>6. Sold(st, n) \in Curves
  BY <1>2, <1>4, <1>5, Zenon DEF Curves
<1>7. Sold(st, n).vt = vt /\ Sold(st, n).rt = rt
  BY <1>2, CurveFields
<1> QED BY <1>5, <1>6, <1>7

-----------------------------------------------------------------------------
(* Orders and instructions.                                                 *)

LEMMA OrderAmount ==
  ASSUME TypeOK, NEW c \in Calls
  PROVE  /\ order[c].amount \in Nat
         /\ order[c].side = "buy" \/ order[c].side = "sell"
<1>1. order[c] \in BuyOrders \/ order[c] \in SellOrders \/ order[c] = NoOrder
  BY DEF TypeOK
<1>2. SolLots \subseteq Nat /\ TokenLots \subseteq Nat
  BY PumpExecutionAssumption
<1>3. CASE order[c] \in BuyOrders
  BY <1>2, <1>3 DEF BuyOrders
<1>4. CASE order[c] \in SellOrders
  BY <1>2, <1>4 DEF SellOrders
<1>5. CASE order[c] = NoOrder
  BY <1>5 DEF NoOrder
<1> QED BY <1>1, <1>3, <1>4, <1>5

LEMMA BuildNat ==
  ASSUME NEW o, o.amount \in Nat, NEW st \in Curves
  PROVE  Build(o, st) \in [tokens : Nat, limit : Nat]
<1>1. EstimateBuy(o.amount, st) \in Nat
  <2>1. st.rt \in Nat /\ EstimateBuy(o.amount, st) \in 0..st.rt
    BY BuyQuote DEF Curves
  <2> QED BY <2>1
<1>2. EstimateSell(o.amount, st) \in Nat
  BY SellQuote
<1>3. MaxSolCost(o.amount) \in Nat /\ MinSolOutput(EstimateSell(o.amount, st)) \in Nat
  BY <1>2, BuyLimit, SellLimit
<1> QED BY <1>1, <1>2, <1>3 DEF Build

(* A quote of the curve is never more than it holds, so that what a buy     *)
(* executes can be taken from it.                                           *)
LEMMA AcceptedBuy ==
  ASSUME TypeOK, NEW c \in Calls, order[c].side = "buy", Accepts(c)
  PROVE  tx[c].tokens \in 0..curve.rt /\ tx[c].limit \in Nat
<1>1. tx[c].tokens \in Nat /\ tx[c].limit \in Nat /\ curve \in Curves /\ curve.rt \in Nat
  BY DEF TypeOK, Curves
<1>2. EstimateBuy(tx[c].limit, curve) \in 0..curve.rt
  BY <1>1, BuyQuote
<1>3. EstimateBuy(tx[c].limit, curve) >= tx[c].tokens
  BY DEF Accepts, PriceOK
<1> QED BY <1>1, <1>2, <1>3

-----------------------------------------------------------------------------
(* What a call built stays its instruction until the chain has dealt with   *)
(* it, and nothing is on the chain before it was sent.                      *)
Spread == curve.rt < curve.vt

Built ==
  \A c \in Calls : pc[c] \in {"simulate", "send", "confirm"} \/ chain[c] # "none"
    => tx[c] = Build(order[c], snap[c])

SentBefore == \A c \in Calls : chain[c] # "none" => pc[c] \in {"confirm", "done", "raised"}

IInv == TypeOK /\ Spread /\ Built /\ SentBefore /\ LimitKept

LEMMA InitInv == Init => IInv
BY PumpExecutionAssumption
   DEF Init, IInv, TypeOK, Spread, Built, SentBefore, LimitKept, NoTx, NoOrder, Curves,
       BuyOrders, SellOrders, Awaits, Results

(* What LimitKept, Built and SentBefore say of one call.                    *)
Limit(c) ==
  chain[c] = "ok" =>
    LET o == order[c] IN
    IF o.side = "buy"
      THEN /\ tx[c].tokens = EstimateBuy(o.amount, snap[c])
           /\ flow[c] * BPS <= o.amount * (BPS + SlippageBps)
      ELSE (flow[c] + 1) * BPS > EstimateSell(o.amount, snap[c]) * (BPS - SlippageBps)

LEMMA LimitEach == LimitKept <=> \A c \in Calls : Limit(c)
BY DEF LimitKept, Limit

(* Steps that leave the orders, quotes, instructions and proceeds of the    *)
(* executed transactions alone keep the limits.                             *)
LEMMA LimitFrame ==
  ASSUME IInv,
         \A c \in Calls : chain'[c] = "ok" =>
           /\ chain[c] = "ok" /\ order'[c] = order[c] /\ snap'[c] = snap[c]
           /\ tx'[c] = tx[c] /\ flow'[c] = flow[c]
  PROVE  LimitKept'
<1> SUFFICES ASSUME NEW c \in Calls, chain'[c] = "ok"
             PROVE  Limit(c)'
  BY DEF LimitKept, Limit
<1>1. Limit(c)
  BY LimitEach DEF IInv
<1> QED BY <1>1 DEF Limit

(* A confirmed block executes an order within its limits.                   *)
LEMMA ExecutedInv ==
  ASSUME IInv, NEW c \in Calls, Executed(c)
  PROVE  IInv'
<1> USE DEF IInv
<1>1. /\ order[c].amount \in Nat /\ tx[c] = Build(order[c], snap[c])
      /\ tx[c].tokens \in Nat /\ tx[c].limit \in Nat
      /\ snap[c] \in Curves /\ curve \in Curves /\ curve.rt < curve.vt
  BY OrderAmount DEF Executed, TypeOK, Built, Spread
<1>2. chain' = [chain EXCEPT ![c] = "ok"] /\ chain[c] = "pending" /\ Accepts(c)
      /\ UNCHANGED <<allowLive, moves, fork, order, pc, snap, tx, last, result>>
  BY DEF Executed
<1>3. Built' /\ SentBefore'
  BY <1>2 DEF Built, SentBefore, TypeOK
<1>4. ASSUME NEW n \in Nat, flow' = [flow EXCEPT ![c] = n], Limit(c)'
      PROVE  LimitKept'
  <2> SUFFICES ASSUME NEW d \in Calls, chain'[d] = "ok" PROVE Limit(d)'
    BY DEF LimitKept, Limit
  <2>1. CASE d = c
    BY <1>4, <2>1
  <2>2. CASE d # c
    <3>1. /\ chain[d] = "ok" /\ flow'[d] = flow[d]
      BY <1>2, <1>4, <2>2 DEF TypeOK
    <3>2. Limit(d)
      BY LimitEach
    <3> QED BY <1>2, <3>1, <3>2 DEF Limit
  <2> QED BY <2>1, <2>2
<1>5. CASE order[c].side = "buy"
  <2>1. PICK cost \in 0..tx[c].limit :
          /\ flow' = [flow EXCEPT ![c] = cost]
          /\ curve' = Bought(curve, tx[c].tokens, cost)
    BY <1>5 DEF Executed
  <2>2. cost \in Nat /\ tokens' = tokens + tx[c].tokens
    BY <1>1, <1>5, <2>1 DEF Executed
  <2>3. tx[c].tokens \in 0..curve.rt
    BY <1>2, <1>5, AcceptedBuy
  <2>4. curve' \in Curves /\ curve'.rt < curve'.vt
    BY <1>1, <2>1, <2>2, <2>3, BoughtCurve
  <2>5. TypeOK' /\ Spread'
    BY <1>1, <1>2, <2>1, <2>2, <2>4 DEF TypeOK, Spread
  <2>6. tx[c].tokens = EstimateBuy(order[c].amount, snap[c]) /\ tx[c].limit = MaxSolCost(order[c].amount)
    BY <1>1, <1>5 DEF Build
  <2>7. cost * BPS <= tx[c].limit * BPS
    BY <1>1, <2>1 DEF BPS
  <2>8. tx[c].limit * BPS <= order[c].amount * (BPS + SlippageBps)
    BY <1>1, <2>6, BuyLimit
  <2>9. cost * BPS <= order[c].amount * (BPS + SlippageBps)
    <3> DEFINE a == order[c].amount * (BPS + SlippageBps)
    <3>1. a \in Int
      BY <1>1, PumpExecutionAssumption DEF BPS
    <3> HIDE DEF a
    <3>2. cost * BPS \in Int /\ tx[c].limit * BPS \in Int
      BY <1>1, <2>2 DEF BPS
    <3>3. tx[c].limit * BPS <= a
      BY <2>8 DEF a
    <3>4. cost * BPS <= a
      BY <2>7, <3>1, <3>2, <3>3
    <3> QED BY <3>4 DEF a
  <2>10. flow'[c] = cost
    BY <2>1 DEF TypeOK
  <2>11. Limit(c)'
    BY <1>2, <1>5, <2>6, <2>9, <2>10 DEF Limit
  <2> QED BY <1>3, <1>4, <2>1, <2>2, <2>5, <2>11
<1>6. CASE order[c].side # "buy"
  <2> DEFINE out == EstimateSell(tx[c].tokens, curve)
             quote == EstimateSell(order[c].amount, snap[c])
  <2>1. order[c].side = "sell"
    BY <1>6, OrderAmount
  <2>2. /\ flow' = [flow EXCEPT ![c] = out]
        /\ curve' = Sold(curve, tx[c].tokens)
        /\ tokens' = tokens - tx[c].tokens
    BY <1>6 DEF Executed
  <2>3. out \in Nat /\ quote \in Nat
    BY <1>1, SellQuote
  <2>4. curve' \in Curves /\ curve'.rt < curve'.vt
    BY <1>1, <2>2, SoldCurve
  <2>5. tokens' \in Nat
    BY <1>1, <1>2, <2>1, <2>2 DEF Accepts, TypeOK
  <2>6. out >= tx[c].limit
    BY <1>2, <1>6 DEF Accepts, PriceOK
  <2>7. tx[c].limit = MinSolOutput(quote)
    BY <1>1, <1>6 DEF Build
  <2> HIDE DEF out, quote
  <2>8. TypeOK' /\ Spread'
    BY <1>1, <1>2, <2>2, <2>3, <2>4, <2>5 DEF TypeOK, Spread
  <2>9. quote * (BPS - SlippageBps) < (out + 1) * BPS
    <3> DEFINE a == quote * (BPS - SlippageBps)
    <3>1. a \in Int
      BY <2>3, PumpExecutionAssumption DEF BPS
    <3>2. a < (tx[c].limit + 1) * BPS
      BY <2>3, <2>7, SellLimit
    <3> HIDE DEF a
    <3>3. a < (out + 1) * BPS
      BY <1>1, <2>3, <2>6, <3>1, <3>2 DEF BPS
    <3> QED BY <3>3 DEF a
  <2>10. flow'[c] = out
    BY <2>2 DEF TypeOK
  <2>11. (out + 1) * BPS > quote * (BPS - SlippageBps)
    <3>1. quote * (BPS - SlippageBps) \in Int /\ (out + 1) * BPS \in Int
      BY <2>3, PumpExecutionAssumption DEF BPS
    <3> QED BY <2>9, <3>1
  <2>12. Limit(c)'
    BY <1>2, <1>6, <2>10, <2>11 DEF Limit, quote
  <2> QED BY <1>3, <1>4, <2>2, <2>3, <2>8, <2>12
<1> QED BY <1>5, <1>6

(* Every step keeps the invariant.                                          *)
LEMMA NextInv == IInv /\ [Next]_vars => IInv'
<1> SUFFICES ASSUME IInv, [Next]_vars PROVE IInv'
  OBVIOUS
<1> USE DEF IInv
<1>1. ASSUME NEW c \in Calls, NEW o \in BuyOrders \cup SellOrders, Start(c, o)
      PROVE  IInv'
  <2>1. TypeOK'
    BY <1>1 DEF Start, TypeOK, market, net, Awaits
  <2>2. Spread' /\ Built' /\ SentBefore'
    BY <1>1 DEF Start, Spread, Built, SentBefore, TypeOK, market, net
  <2>3. \A d \in Calls : chain'[d] = "ok" =>
          /\ chain[d] = "ok" /\ order'[d] = order[d] /\ snap'[d] = snap[d]
          /\ tx'[d] = tx[d] /\ flow'[d] = flow[d]
    BY <1>1 DEF Start, SentBefore, TypeOK, market, net
  <2> QED BY <2>1, <2>2, <2>3, LimitFrame
<1>2. ASSUME NEW c \in Calls, Fetched(c)
      PROVE  IInv'
  <2>1. TypeOK'
    BY <1>2 DEF Fetched, Return, TypeOK, market, net, Awaits, Results, EarlyErrors
  <2>2. Spread' /\ Built' /\ SentBefore'
    BY <1>2 DEF Fetched, Return, Spread, Built, SentBefore, TypeOK, market, net
  <2>3. \A d \in Calls : chain'[d] = "ok" =>
          /\ chain[d] = "ok" /\ order'[d] = order[d] /\ snap'[d] = snap[d]
          /\ tx'[d] = tx[d] /\ flow'[d] = flow[d]
    BY <1>2 DEF Fetched, Return, SentBefore, TypeOK, market, net
  <2> QED BY <2>1, <2>2, <2>3, LimitFrame
<1>3. ASSUME NEW c \in Calls, Signed(c)
      PROVE  IInv'
  <2>0. Build(order[c], snap[c]) \in [tokens : Nat, limit : Nat]
    <3>1. snap[c] \in Curves /\ order[c].amount \in Nat
      BY OrderAmount DEF TypeOK
    <3> QED BY <3>1, BuildNat
  <2>1. tx' = tx \/ tx' = [tx EXCEPT ![c] = Build(order[c], snap[c])]
    BY <1>3 DEF Signed
  <2>2. tx' \in [Calls -> [tokens : Nat, limit : Nat]]
    <3> DEFINE t == Build(order[c], snap[c])
               T == [tokens : Nat, limit : Nat]
    <3>1. tx \in [Calls -> T] /\ t \in T
      BY <2>0 DEF TypeOK
    <3>2. tx' = tx \/ tx' = [tx EXCEPT ![c] = t]
      BY <2>1
    <3> HIDE DEF t, T
    <3>3. tx' \in [Calls -> T]
      BY <3>1, <3>2
    <3> QED BY <3>3 DEF T
  <2>4. /\ pc' \in [Calls -> Awaits] /\ result' \in [Calls -> Results]
        /\ UNCHANGED <<allowLive, market, net, order, snap, last>>
    BY <1>3 DEF Signed, Return, TypeOK, Awaits, Results, EarlyErrors
  <2>5. TypeOK'
    BY <2>2, <2>4 DEF TypeOK, market, net
  <2>6. Built'
    <3> DEFINE t == Build(order[c], snap[c])
    <3> SUFFICES ASSUME NEW d \in Calls,
                        pc'[d] \in {"simulate", "send", "confirm"} \/ chain'[d] # "none"
                 PROVE  tx'[d] = Build(order[d], snap[d])
      BY <2>4 DEF Built
    <3>1. CASE d # c
      <4>1. pc'[d] = pc[d] /\ chain'[d] = chain[d] /\ tx'[d] = tx[d]
        BY <1>3, <2>1, <3>1 DEF Signed, Return, TypeOK, net
      <4> QED BY <4>1 DEF Built
    <3>2. CASE d = c
      <4>1. pc[c] = "blockhash" /\ chain'[c] = chain[c] /\ chain[c] = "none"
        BY <1>3 DEF Signed, SentBefore, TypeOK, net
      <4>2. pc'[c] # "done"
        BY <3>2, <4>1
      <4>3. tx' = [tx EXCEPT ![c] = t]
        BY <1>3, <4>2 DEF Signed, Return, TypeOK
      <4> HIDE DEF t
      <4>4. tx'[c] = t
        BY <4>3 DEF TypeOK
      <4> QED BY <3>2, <4>4 DEF t
    <3> QED BY <3>1, <3>2
  <2>7. Spread' /\ SentBefore'
    BY <1>3 DEF Signed, Return, Spread, SentBefore, TypeOK, market, net
  <2>3. \A d \in Calls : chain'[d] = "ok" =>
          /\ chain[d] = "ok" /\ order'[d] = order[d] /\ snap'[d] = snap[d]
          /\ tx'[d] = tx[d] /\ flow'[d] = flow[d]
    BY <1>3 DEF Signed, Return, SentBefore, TypeOK, market, net
  <2> QED BY <2>3, <2>5, <2>6, <2>7, LimitFrame
<1>4. ASSUME NEW c \in Calls, Simulated(c) \/ Sent(c)
      PROVE  IInv'
  <2>1. TypeOK'
    BY <1>4 DEF Simulated, Sent, Return, TypeOK, market, net, Awaits, Results
  <2>2. Spread' /\ Built' /\ SentBefore'
    BY <1>4 DEF Simulated, Sent, Return, Spread, Built, SentBefore, TypeOK, market, net
  <2>3. \A d \in Calls : chain'[d] = "ok" =>
          /\ chain[d] = "ok" /\ order'[d] = order[d] /\ snap'[d] = snap[d]
          /\ tx'[d] = tx[d] /\ flow'[d] = flow[d]
    BY <1>4 DEF Simulated, Sent, Return, TypeOK, market, net
  <2> QED BY <2>1, <2>2, <2>3, LimitFrame
<1>5. ASSUME NEW c \in Calls, Polled(c) \/ GaveUp(c) \/ Raised(c)
      PROVE  IInv'
  <2>0. Status(c) \in {"none", "processed", "err", "confirmed"}
    BY DEF Status, TypeOK
  <2>1. TypeOK'
    BY <1>5, <2>0 DEF Polled, GaveUp, Raised, Return, TypeOK, market, net, Awaits, Results
  <2>2. Spread' /\ Built' /\ SentBefore'
    BY <1>5 DEF Polled, GaveUp, Raised, Return, Spread, Built, SentBefore, TypeOK, market, net
  <2>3. \A d \in Calls : chain'[d] = "ok" =>
          /\ chain[d] = "ok" /\ order'[d] = order[d] /\ snap'[d] = snap[d]
          /\ tx'[d] = tx[d] /\ flow'[d] = flow[d]
    BY <1>5 DEF Polled, GaveUp, Raised, Return, TypeOK, market, net
  <2> QED BY <2>1, <2>2, <2>3, LimitFrame
<1>6. ASSUME NEW c \in Calls, Forked(c) \/ Rejected(c)
      PROVE  IInv'
  <2>1. TypeOK'
    BY <1>6 DEF Forked, Rejected, TypeOK, market
  <2>2. Spread' /\ Built' /\ SentBefore'
    BY <1>6 DEF Forked, Rejected, Spread, Built, SentBefore, TypeOK, market
  <2>3. \A d \in Calls : chain'[d] = "ok" =>
          /\ chain[d] = "ok" /\ order'[d] = order[d] /\ snap'[d] = snap[d]
          /\ tx'[d] = tx[d] /\ flow'[d] = flow[d]
    BY <1>6 DEF Forked, Rejected, TypeOK, market
  <2> QED BY <2>1, <2>2, <2>3, LimitFrame
<1>8. ASSUME moves < MaxMoves, moves' = moves + 1,
             curve' \in Curves, curve'.rt < curve'.vt,
             UNCHANGED <<allowLive, net, order, pc, snap, tx, last, result>>
      PROVE  IInv'
  <2>1. TypeOK'
    BY <1>8, PumpExecutionAssumption DEF TypeOK, net
  <2>2. Spread' /\ Built' /\ SentBefore'
    BY <1>8 DEF Spread, Built, SentBefore, net
  <2>3. \A d \in Calls : chain'[d] = "ok" =>
          /\ chain[d] = "ok" /\ order'[d] = order[d] /\ snap'[d] = snap[d]
          /\ tx'[d] = tx[d] /\ flow'[d] = flow[d]
    BY <1>8 DEF net
  <2> QED BY <2>1, <2>2, <2>3, LimitFrame
<1>9. ASSUME NEW sol \in SolLots, MarketBuys(sol)
      PROVE  IInv'
  <2>1. sol \in Nat /\ curve \in Curves /\ curve.rt < curve.vt
    BY PumpExecutionAssumption DEF TypeOK, Spread
  <2>2. EstimateBuy(sol, curve) \in 0..curve.rt
    BY <2>1, BuyQuote
  <2>3. curve' \in Curves /\ curve'.rt < curve'.vt
    BY <1>9, <2>1, <2>2, BoughtCurve DEF MarketBuys
  <2> QED BY <1>8, <1>9, <2>3 DEF MarketBuys
<1>10. ASSUME NEW n \in TokenLots, MarketSells(n)
       PROVE  IInv'
  <2>1. n \in Nat /\ curve \in Curves /\ curve.rt < curve.vt
    BY PumpExecutionAssumption DEF TypeOK, Spread
  <2>2. curve' \in Curves /\ curve'.rt < curve'.vt
    BY <1>10, <2>1, SoldCurve DEF MarketSells
  <2> QED BY <1>8, <1>10, <2>2 DEF MarketSells
<1>11. CASE UNCHANGED vars
  <2>1. TypeOK' /\ Spread' /\ Built' /\ SentBefore'
    BY <1>11 DEF vars, market, net, TypeOK, Spread, Built, SentBefore
  <2>2. LimitKept'
    BY <1>11, LimitFrame DEF vars, market, net
  <2> QED BY <2>1, <2>2
<1> QED BY <1>1, <1>2, <1>3, <1>4, <1>5, <1>6, ExecutedInv, <1>9, <1>10, <1>11
        DEF Next, CallStep, Chain

(* Whatever the market and the other calls did to the curve in between, an  *)
(* executed transaction of submit_buy or submit_sell stays within the       *)
(* slippage of the quote it was built from.                                 *)
THEOREM SlippageProtected == Spec => [](TypeOK /\ LimitKept)
<1>1. Init => IInv
  BY InitInv
<1>2. IInv /\ [Next]_vars => IInv'
  BY NextInv
<1>3. IInv => TypeOK /\ LimitKept
  BY DEF IInv
<1> QED BY <1>1, <1>2, <1>3, PTL DEF Spec

-----------------------------------------------------------------------------
(* Only a call that asked for it, on an executor that allows it, gets as    *)
(* far as the send; a result is the last thing a call produces.             *)
Typed ==
  /\ order \in [Calls -> BuyOrders \cup SellOrders \cup {NoOrder}]
  /\ pc \in [Calls -> Awaits]
  /\ chain \in [Calls -> {"none", "pending", "ok", "err", "dropped"}]
  /\ fork \in [Calls -> {"none", "processed", "err"}]
  /\ last \in [Calls -> {"none", "processed", "err", "confirmed"}]
  /\ result \in [Calls -> Results]

Gate(c) ==
  /\ order[c].live /\ pc[c] \in {"curve", "blockhash", "send", "confirm"} => allowLive
  /\ pc[c] = "simulate" => ~order[c].live
  /\ pc[c] \in {"send", "confirm"} => order[c].live
  /\ pc[c] \in {"idle", "curve", "blockhash", "simulate", "send"} => chain[c] = "none"
  /\ pc[c] # "done" => result[c] = "none"
  /\ chain[c] # "none" => allowLive /\ order[c].live /\ result[c] \notin EarlyErrors
  /\ order[c].live /\ result[c] = "ok"
       => (last[c] = "confirmed" /\ chain[c] = "ok") \/ last[c] = "processed"

GateInv == Typed /\ \A c \in Calls : Gate(c)

(* A call's step leaves every other call's gate as it was.                  *)
Same(d) ==
  /\ order'[d] = order[d] /\ pc'[d] = pc[d] /\ chain'[d] = chain[d]
  /\ last'[d] = last[d] /\ result'[d] = result[d] /\ allowLive' = allowLive

LEMMA GateFrame ==
  ASSUME NEW d \in Calls, Gate(d), Same(d)
  PROVE  Gate(d)'
BY DEF Gate, Same

LEMMA GateStep ==
  ASSUME GateInv, NEW c \in Calls, CallStep(c) \/ Raised(c) \/ Chain(c)
  PROVE  GateInv'
<1>0. Status(c) \in {"none", "processed", "err", "confirmed"}
  BY DEF Status, GateInv, Typed
<1>1. Typed'
  BY <1>0 DEF CallStep, Chain, Fetched, Signed, Simulated, Sent, Polled, GaveUp, Raised, Forked,
              Executed, Rejected, Return, GateInv, Typed, net, Awaits, Results, EarlyErrors
<1>2. ASSUME NEW d \in Calls, d # c
      PROVE  Same(d)
  BY <1>2 DEF CallStep, Chain, Fetched, Signed, Simulated, Sent, Polled, GaveUp, Raised, Forked,
              Executed, Rejected, Return, GateInv, Typed, net, Same
<1>3. Gate(c)'
  <2> USE DEF GateInv, Typed, Gate
  <2>1. CASE Fetched(c)
    BY <2>1 DEF Fetched, Return, net, EarlyErrors
  <2>2. CASE Signed(c)
    BY <2>2 DEF Signed, Return, net, EarlyErrors
  <2>3. CASE Simulated(c)
    BY <2>3 DEF Simulated, Return, net, EarlyErrors
  <2>4. CASE Sent(c)
    BY <2>4 DEF Sent, Return, EarlyErrors
  <2>5. CASE Polled(c)
    BY <2>5 DEF Polled, Return, net, EarlyErrors, Status
  <2>6. CASE GaveUp(c)
    BY <2>6 DEF GaveUp, Return, net, EarlyErrors
  <2>7. CASE Raised(c)
    BY <2>7 DEF Raised, net, EarlyErrors
  <2>8. CASE Forked(c)
    BY <2>8 DEF Forked, EarlyErrors
  <2>9. CASE Executed(c) \/ Rejected(c)
    BY <2>9 DEF Executed, Rejected, EarlyErrors
  <2> QED BY <2>1, <2>2, <2>3, <2>4, <2>5, <2>6, <2>7, <2>8, <2>9 DEF CallStep, Chain
<1>4. \A d \in Calls : Gate(d)'
  BY <1>2, <1>3, GateFrame DEF GateInv
<1> QED BY <1>1, <1>4 DEF GateInv

LEMMA GateNext == GateInv /\ [Next]_vars => GateInv'
<1> SUFFICES ASSUME GateInv, [Next]_vars PROVE GateInv'
  OBVIOUS
<1>1. ASSUME NEW c \in Calls, NEW o \in BuyOrders \cup SellOrders, Start(c, o)
      PROVE  GateInv'
  <2>1. Typed'
    BY <1>1 DEF Start, GateInv, Typed, net, Awaits
  <2>2. ASSUME NEW d \in Calls, d # c
        PROVE  Same(d)
    BY <1>1, <2>2 DEF Start, GateInv, Typed, net, Same
  <2>3. Gate(c)'
    BY <1>1 DEF Start, GateInv, Typed, Gate, net, EarlyErrors
  <2> QED BY <2>1, <2>2, <2>3, GateFrame DEF GateInv
<1>2. ASSUME UNCHANGED <<allowLive, net, order, pc, snap, tx, last, result>>
      PROVE  GateInv'
  BY <1>2 DEF GateInv, Typed, Gate, net
<1>3. ASSUME NEW sol \in SolLots, MarketBuys(sol)
      PROVE  GateInv'
  BY <1>2, <1>3 DEF MarketBuys
<1>4. ASSUME NEW n \in TokenLots, MarketSells(n)
      PROVE  GateInv'
  BY <1>2, <1>4 DEF MarketSells
<1>5. CASE UNCHANGED vars
  BY <1>2, <1>5 DEF vars
<1> QED BY <1>1, <1>3, <1>4, <1>5, GateStep DEF Next

LEMMA GateInit == Init => GateInv
BY DEF Init, GateInv, Typed, Gate, NoOrder, Awaits, Results, EarlyErrors

(* A transaction on the chain was asked for by submit_buy or submit_sell on *)
(* an executor built with allow_live_submit, by a call that got past its    *)
(* early returns.                                                           *)
THEOREM OnlyLiveOrders == Spec => []OnlyLiveOrdersLand
<1>1. GateInv => OnlyLiveOrdersLand
  BY DEF GateInv, Gate, OnlyLiveOrdersLand
<1> QED BY <1>1, GateInit, GateNext, PTL DEF Spec

(* A submitted call that succeeds has polled an execution without error.    *)
THEOREM SuccessSeen == Spec => []SuccessWasSeen
<1>1. GateInv => SuccessWasSeen
  BY DEF GateInv, Gate, SuccessWasSeen
<1> QED BY <1>1, GateInit, GateNext, PTL DEF Spec

-----------------------------------------------------------------------------
(* The quotes are monotone, so that a limit rounded down still fills.        *)

LEMMA ProductGrows ==
  ASSUME NEW a \in Nat, NEW b \in Nat, a <= b, NEW c \in Nat
  PROVE  a * c <= b * c
<1>1. PICK d \in Nat : b = a + d
  <2>1. b - a \in Nat /\ b = a + (b - a)
    OBVIOUS
  <2> QED BY <2>1
<1>2. b * c = a * c + d * c
  BY <1>1
<1>3. d * c \in Nat /\ a * c \in Nat
  BY ProductNat
<1> QED BY <1>2, <1>3

LEMMA FloorGrows ==
  ASSUME NEW a \in Nat, NEW b \in Nat, a <= b
  PROVE  a \div BPS <= b \div BPS
BY DEF BPS

LEMMA Floor ==
  ASSUME NEW k \in Nat, NEW v \in Nat \ {0}
  PROVE  (k \div v) * v <= k /\ k < (k \div v + 1) * v
OBVIOUS

(* Dividing by more gives no more.                                           *)
LEMMA QuotientShrinks ==
  ASSUME NEW k \in Nat, NEW u \in Nat \ {0}, NEW v \in Nat \ {0}, u <= v
  PROVE  k \div v <= k \div u
<1>1. PICK q : q = k \div v
  OBVIOUS
<1>2. PICK p : p = k \div u
  OBVIOUS
<1>3. q \in Nat /\ p \in Nat
  BY <1>1, <1>2, QuotientNat
<1>4. q * v <= k /\ k < (p + 1) * u
  BY <1>1, <1>2, Floor
<1>5. u * q <= v * q
  BY <1>3, ProductGrows
<1>6. q * u < (p + 1) * u
  <2>1. q * u \in Nat /\ q * v \in Nat /\ (p + 1) * u \in Nat
    <3>1. p + 1 \in Nat
      BY <1>3
    <3> QED BY <1>3, <3>1, ProductNat
  <2>2. q * u = u * q /\ q * v = v * q
    BY <1>3
  <2> QED BY <1>4, <1>5, <2>1, <2>2
<1>7. ASSUME ~(q <= p) PROVE FALSE
  <2>1. p + 1 <= q /\ p + 1 \in Nat
    BY <1>3, <1>7
  <2>2. (p + 1) * u <= q * u
    BY <1>3, <2>1, ProductGrows
  <2>3. q * u \in Nat /\ (p + 1) * u \in Nat
    BY <1>3, <2>1, ProductNat
  <2> QED BY <1>6, <2>2, <2>3
<1> QED BY <1>1, <1>2, <1>7

LEMMA AfterFeeGrows ==
  ASSUME NEW a \in Nat, NEW b \in Nat, a <= b
  PROVE  AfterFee(a) <= AfterFee(b)
<1>1. BPS - FeeBps \in Nat
  BY PumpExecutionAssumption DEF BPS
<1>2. PICK f \in Nat : f = BPS - FeeBps
  BY <1>1
<1>3. a * f <= b * f /\ a * f \in Nat /\ b * f \in Nat
  BY <1>2, ProductGrows, ProductNat
<1> QED BY <1>2, <1>3, FloorGrows DEF AfterFee

(* More SOL buys no fewer tokens.                                            *)
LEMMA BuyGrows ==
  ASSUME NEW a \in Nat, NEW b \in Nat, a <= b, NEW st \in Curves
  PROVE  EstimateBuy(a, st) <= EstimateBuy(b, st)
<1>0. /\ st.vt \in Nat \ {0} /\ st.vs \in Nat /\ st.rt \in Nat
      /\ AfterFee(a) \in Nat /\ AfterFee(b) \in Nat /\ AfterFee(a) <= AfterFee(b)
  BY AfterFeeGrows, AfterFeeNat DEF Curves
<1>1. CASE a <= 0 \/ st.complete \/ AfterFee(a) <= 0
  <2>1. EstimateBuy(a, st) = 0
    BY <1>1 DEF EstimateBuy
  <2>2. EstimateBuy(b, st) \in 0..st.rt
    BY BuyQuote
  <2> QED BY <1>0, <2>1, <2>2
<1>2. CASE ~(a <= 0 \/ st.complete \/ AfterFee(a) <= 0)
  <2>1. ~(b <= 0 \/ st.complete \/ AfterFee(b) <= 0)
    BY <1>0, <1>2
  <2>2. PICK k \in Nat : k = st.vs * st.vt
    BY <1>0, ProductNat
  <2>3. PICK u \in Nat \ {0} : u = st.vs + AfterFee(a)
    BY <1>0, <1>2
  <2>4. PICK v \in Nat \ {0} : v = st.vs + AfterFee(b)
    BY <1>0, <2>1
  <2>5. u <= v
    BY <1>0, <2>3, <2>4
  <2>6. k \div v <= k \div u /\ k \div v \in Nat /\ k \div u \in Nat
    BY <2>5, QuotientShrinks, QuotientNat
  <2>7. PICK p : p = k \div u
    OBVIOUS
  <2>8. PICK q : q = k \div v
    OBVIOUS
  <2>9. EstimateBuy(a, st) = Clip(st.vt - p, st.rt) /\ EstimateBuy(b, st) = Clip(st.vt - q, st.rt)
    BY <1>2, <2>1, <2>2, <2>3, <2>4, <2>7, <2>8 DEF EstimateBuy
  <2>10. p \in Nat /\ q \in Nat /\ q <= p
    BY <2>6, <2>7, <2>8
  <2> QED BY <1>0, <2>9, <2>10 DEF Clip
<1> QED BY <1>1, <1>2

(* The limit of a buy is no less than what was asked, that of a sale no more *)
(* than what was quoted.                                                     *)
LEMMA LimitsRoom ==
  ASSUME NEW sol \in Nat
  PROVE  sol <= MaxSolCost(sol) /\ MinSolOutput(sol) <= sol
<1>1. BPS + SlippageBps \in Nat /\ BPS - SlippageBps \in Nat /\ BPS <= BPS + SlippageBps
      /\ BPS - SlippageBps <= BPS /\ BPS \in Nat
  BY PumpExecutionAssumption DEF BPS
<1>2. PICK up \in Nat : up = BPS + SlippageBps
  BY <1>1
<1>3. PICK down \in Nat : down = BPS - SlippageBps
  BY <1>1
<1>4. BPS * sol <= up * sol /\ down * sol <= BPS * sol
  BY <1>1, <1>2, <1>3, ProductGrows
<1>5. BPS * sol = sol * BPS /\ up * sol = sol * up /\ down * sol = sol * down
  BY <1>1
<1>6. sol * up \in Nat /\ sol * down \in Nat /\ sol * BPS \in Nat
  BY <1>1, ProductNat
<1>7. (sol * BPS) \div BPS <= (sol * up) \div BPS /\ (sol * down) \div BPS <= (sol * BPS) \div BPS
  <2>1. sol * BPS <= sol * up /\ sol * down <= sol * BPS
    BY <1>4, <1>5
  <2> QED BY <1>6, <2>1, FloorGrows
<1>8. (sol * BPS) \div BPS = sol
  BY DEF BPS
<1> QED BY <1>2, <1>3, <1>7, <1>8 DEF MaxSolCost, MinSolOutput

(* A transaction on its way was built from a quote that was not zero.        *)
WasQuoted == \A c \in Calls : pc[c] \in {"simulate", "send"} => Quoted(order[c], snap[c])

LEMMA QuotedFrame ==
  ASSUME WasQuoted,
         \A c \in Calls : pc'[c] \in {"simulate", "send"} =>
           /\ pc[c] \in {"simulate", "send"}
           /\ order'[c] = order[c] /\ snap'[c] = snap[c]
  PROVE  WasQuoted'
BY DEF WasQuoted, Quoted

LEMMA QuotedStep == IInv /\ WasQuoted /\ [Next]_vars => WasQuoted'
<1> SUFFICES ASSUME IInv, WasQuoted, [Next]_vars PROVE WasQuoted'
  OBVIOUS
<1>0. /\ pc \in [Calls -> Awaits] /\ DOMAIN snap = Calls /\ DOMAIN order = Calls
  BY DEF IInv, TypeOK
<1>1. ASSUME NEW c \in Calls, NEW o, Start(c, o) PROVE WasQuoted'
  <2>1. /\ \A d \in Calls \ {c} : pc'[d] = pc[d] /\ order'[d] = order[d]
        /\ pc'[c] \in {"raised", "curve"} /\ snap' = snap
    BY <1>0, <1>1 DEF Start
  <2> QED BY <2>1, QuotedFrame
<1>2. ASSUME NEW c \in Calls, Fetched(c) PROVE WasQuoted'
  <2>1. /\ \A d \in Calls \ {c} : pc'[d] = pc[d] /\ snap'[d] = snap[d]
        /\ pc'[c] \in {"done", "blockhash"} /\ order' = order
    BY <1>0, <1>2 DEF Fetched, Return
  <2> QED BY <2>1, QuotedFrame
<1>3. ASSUME NEW c \in Calls, Signed(c) PROVE WasQuoted'
  <2>1. /\ \A d \in Calls \ {c} : pc'[d] = pc[d]
        /\ pc'[c] = "done" \/ Quoted(order[c], snap[c])
        /\ order' = order /\ snap' = snap
    BY <1>0, <1>3 DEF Signed, Return
  <2> SUFFICES ASSUME NEW d \in Calls, pc'[d] \in {"simulate", "send"}
               PROVE  Quoted(order[d], snap[d])
    BY <2>1 DEF WasQuoted, Quoted
  <2> QED BY <2>1 DEF WasQuoted
<1>4. ASSUME NEW c \in Calls, Simulated(c) \/ Sent(c) \/ Polled(c) \/ GaveUp(c) \/ Raised(c)
      PROVE  WasQuoted'
  <2>1. /\ \A d \in Calls \ {c} : pc'[d] = pc[d]
        /\ pc'[c] \in {"done", "confirm", "raised"} \/ pc'[c] = pc[c]
        /\ order' = order /\ snap' = snap
    BY <1>0, <1>4 DEF Simulated, Sent, Polled, GaveUp, Raised, Return
  <2> QED BY <2>1, QuotedFrame
<1>5. ASSUME NEW c \in Calls, Chain(c) PROVE WasQuoted'
  <2>1. UNCHANGED <<pc, order, snap>>
    BY <1>5 DEF Chain, Forked, Executed, Rejected
  <2> QED BY <2>1, QuotedFrame
<1>6. ASSUME NEW n, MarketBuys(n) \/ MarketSells(n) PROVE WasQuoted'
  <2>1. UNCHANGED <<pc, order, snap>>
    BY <1>6 DEF MarketBuys, MarketSells
  <2> QED BY <2>1, QuotedFrame
<1>7. CASE UNCHANGED vars
  BY <1>7, QuotedFrame DEF vars
<1> QED BY <1>1, <1>2, <1>3, <1>4, <1>5, <1>6, <1>7 DEF Next, CallStep

(* A quote is acceptable on the curve it was made from.                      *)
LEMMA QuoteFills ==
  ASSUME NEW o \in BuyOrders \cup SellOrders \cup {NoOrder}, NEW st \in Curves, Quoted(o, st)
  PROVE  PriceOK(o, Build(o, st), st)
<1>1. o.amount \in Nat
  <2>1. SolLots \subseteq Nat /\ TokenLots \subseteq Nat
    BY PumpExecutionAssumption
  <2>2. CASE o \in BuyOrders
    BY <2>1, <2>2 DEF BuyOrders
  <2>3. CASE o \in SellOrders
    BY <2>1, <2>3 DEF SellOrders
  <2>4. CASE o = NoOrder
    BY <2>4 DEF NoOrder
  <2> QED BY <2>2, <2>3, <2>4
<1>2. CASE o.side = "buy"
  <2>1. EstimateBuy(o.amount, st) > 0
    BY <1>2 DEF Quoted
  <2>2. ~st.complete
    BY <2>1 DEF EstimateBuy
  <2>3. PICK n \in Nat : n = MaxSolCost(o.amount)
    BY <1>1, BuyLimit
  <2>4. EstimateBuy(o.amount, st) <= EstimateBuy(n, st)
    <3>1. o.amount <= n
      BY <1>1, <2>3, LimitsRoom
    <3> QED BY <1>1, <3>1, BuyGrows
  <2>5. PICK t : t = EstimateBuy(o.amount, st)
    OBVIOUS
  <2>6. Build(o, st) = [tokens |-> t, limit |-> n]
    BY <1>2, <2>3, <2>5 DEF Build
  <2>7. /\ EstimateBuy(n, st) \in 0..st.rt /\ t \in 0..st.rt /\ st.rt \in Nat
    BY <1>1, <2>5, BuyQuote DEF Curves
  <2>8. EstimateBuy(n, st) >= t
    BY <2>4, <2>5, <2>7
  <2>9. Build(o, st).tokens = t /\ Build(o, st).limit = n
    BY <2>6
  <2> QED BY <1>2, <2>2, <2>8, <2>9 DEF PriceOK
<1>3. CASE o.side # "buy"
  <2>1. EstimateSell(o.amount, st) > 0
    BY <1>3 DEF Quoted
  <2>2. ~st.complete
    BY <2>1 DEF EstimateSell
  <2>3. PICK out \in Nat : out = EstimateSell(o.amount, st)
    BY <1>1, SellQuote
  <2>4. MinSolOutput(out) <= out /\ MinSolOutput(out) \in Nat
    BY LimitsRoom, SellLimit
  <2>5. Build(o, st).tokens = o.amount /\ Build(o, st).limit = MinSolOutput(out)
    BY <1>3, <2>3 DEF Build
  <2>6. EstimateSell(Build(o, st).tokens, st) >= Build(o, st).limit
    BY <2>3, <2>4, <2>5
  <2> QED BY <1>3, <2>2, <2>6 DEF PriceOK
<1> QED BY <1>2, <1>3

(* While the curve is still the one that was quoted, the price a call is     *)
(* about to simulate or to send is acceptable, whatever rounding did to the  *)
(* quote and to its limit.                                                   *)
THEOREM QuietFills == Spec => []QuietMarketFills
<1>1. Init => IInv /\ WasQuoted
  BY InitInv DEF Init, WasQuoted
<1>2. IInv /\ WasQuoted /\ [Next]_vars => IInv' /\ WasQuoted'
  BY NextInv, QuotedStep
<1>3. IInv /\ WasQuoted => QuietMarketFills
  <2> SUFFICES ASSUME IInv, WasQuoted, NEW c \in Calls, pc[c] \in {"simulate", "send"},
                      curve = snap[c]
               PROVE  PriceOK(order[c], tx[c], curve)
    BY DEF QuietMarketFills
  <2>1. /\ order[c] \in BuyOrders \cup SellOrders \cup {NoOrder} /\ curve \in Curves
        /\ tx[c] = Build(order[c], curve)
    BY DEF IInv, TypeOK, Built
  <2>2. Quoted(order[c], curve)
    BY DEF WasQuoted
  <2> QED BY <2>1, <2>2, QuoteFills
<1> QED BY <1>1, <1>2, <1>3, PTL DEF Spec
=============================================================================
