---------------------------- MODULE PumpExecution ----------------------------
(***************************************************************************)
(* PumpFunExecution: buys and sells on a token's bonding curve.  A call     *)
(* fetches the curve, builds a transaction with a slippage limit from it,   *)
(* and simulates the transaction, or sends it and polls its confirmation.   *)
(* Between any two of its awaits the market trades on the same curve.       *)
(*                                                                          *)
(* Amounts are whole units of SOL and of the token; divisions round down    *)
(* where the code's do.  What the chain does with a transaction is external *)
(* to the code: it may execute on a fork first, be confirmed, or expire.    *)
(***************************************************************************)
EXTENDS Integers

CONSTANTS
  Calls,       (* calls of simulate_* and submit_*, one each               *)
  SolLots,     (* amounts of SOL to buy for                                *)
  TokenLots,   (* amounts of tokens to sell                                *)
  Genesis,     (* the curve before the first call                          *)
  FeeBps,      (* PUMPFUN_TRADE_FEE_BPS                                    *)
  SlippageBps, (* slippage_bps                                             *)
  MaxMoves     (* bound: trades of others                                  *)

BPS == 10000

(* Virtual and real reserves of tokens and of SOL.                          *)
Curves == [vt : Nat \ {0}, vs : Nat, rt : Nat, rs : Nat, complete : BOOLEAN]

ASSUME PumpExecutionAssumption ==
  /\ SolLots \subseteq Nat /\ TokenLots \subseteq Nat
  /\ Genesis \in Curves /\ Genesis.rt < Genesis.vt
  /\ FeeBps \in 0..BPS /\ SlippageBps \in 0..BPS
  /\ MaxMoves \in Nat

VARIABLES
  allowLive, (* _allow_live, given at construction                         *)
  curve,   (* the bonding curve account                                    *)
  moves,   (* trades of others so far                                      *)
  tokens,  (* tokens in the wallet                                         *)
  order,   (* call -> what was asked                                       *)
  pc,      (* call -> the await it is in                                   *)
  snap,    (* call -> the curve it fetched                                 *)
  tx,      (* call -> the instruction it signed: tokens and SOL limit      *)
  chain,   (* call -> what the chain made of its transaction               *)
  fork,    (* call -> what a fork that is not confirmed makes of it        *)
  last,    (* call -> the last status it polled                            *)
  result,  (* call -> PumpExecuteResult: "ok", or its err                  *)
  flow     (* call -> SOL its executed transaction paid or returned        *)

market == <<curve, moves>>
net    == <<chain, fork, tokens, flow>>
vars   == <<allowLive, market, net, order, pc, snap, tx, last, result>>

NoTx == [tokens |-> 0, limit |-> 0]
NoOrder == [side |-> "buy", amount |-> 0, live |-> FALSE, close |-> FALSE]

Init ==
  /\ allowLive \in BOOLEAN
  /\ curve = Genesis
  /\ moves = 0
  /\ tokens = 0
  /\ order = [c \in Calls |-> NoOrder]
  /\ pc = [c \in Calls |-> "idle"]
  /\ snap = [c \in Calls |-> Genesis]
  /\ tx = [c \in Calls |-> NoTx]
  /\ chain = [c \in Calls |-> "none"]
  /\ fork = [c \in Calls |-> "none"]
  /\ last = [c \in Calls |-> "none"]
  /\ result = [c \in Calls |-> "none"]
  /\ flow = [c \in Calls |-> 0]

-----------------------------------------------------------------------------
Clip(n, most) == IF n < 0 THEN 0 ELSE IF n > most THEN most ELSE n
AfterFee(n) == (n * (BPS - FeeBps)) \div BPS

(* estimate_buy_output_tokens: constant product, fee on the input.          *)
EstimateBuy(sol, st) ==
  IF sol <= 0 \/ st.complete \/ AfterFee(sol) <= 0 THEN 0
  ELSE Clip(st.vt - (st.vs * st.vt) \div (st.vs + AfterFee(sol)), st.rt)

(* estimate_sell_output_lamports: the inverse, fee on the output.           *)
EstimateSell(n, st) ==
  IF n <= 0 \/ st.complete THEN 0
  ELSE Clip(AfterFee(st.vs - (st.vs * st.vt) \div (st.vt + n)), st.rs)

MaxSolCost(sol) == (sol * (BPS + SlippageBps)) \div BPS
MinSolOutput(sol) == (sol * (BPS - SlippageBps)) \div BPS

(* Fault: the limits of a buy and of a sale are mixed up.                   *)
BuildSwapped(o, st) ==
  IF o.side = "buy"
    THEN [tokens |-> EstimateBuy(o.amount, st), limit |-> MinSolOutput(o.amount)]
    ELSE [tokens |-> o.amount, limit |-> MaxSolCost(EstimateSell(o.amount, st))]

(* Fault: the limit of a buy is that of a sale of twice the tokens.         *)
BuildLoose(o, st) ==
  IF o.side = "buy"
    THEN [tokens |-> EstimateBuy(o.amount, st), limit |-> 2 * MaxSolCost(o.amount)]
    ELSE [tokens |-> o.amount, limit |-> MinSolOutput(EstimateSell(o.amount, st))]

(* build_buy_transaction and build_sell_transaction.                        *)
Build(o, st) ==
  IF o.side = "buy"
    THEN [tokens |-> EstimateBuy(o.amount, st), limit |-> MaxSolCost(o.amount)]
    ELSE [tokens |-> o.amount, limit |-> MinSolOutput(EstimateSell(o.amount, st))]

(* They raise when the quote is zero.                                       *)
Quoted(o, st) ==
  IF o.side = "buy" THEN EstimateBuy(o.amount, st) > 0 ELSE EstimateSell(o.amount, st) > 0

-----------------------------------------------------------------------------
(* The on-chain program: it charges the least SOL that buys the tokens, and *)
(* reverts past the limit of the instruction.                               *)
Charges(sol, n, st) ==
  EstimateBuy(sol, st) >= n /\ \A less \in 0..sol - 1 : EstimateBuy(less, st) < n

PriceOK(o, t, st) ==
  /\ ~st.complete
  /\ IF o.side = "buy" THEN EstimateBuy(t.limit, st) >= t.tokens
                       ELSE EstimateSell(t.tokens, st) >= t.limit

(* A sale needs the tokens, and CloseAccount an empty account after it.     *)
Accepts(c) ==
  /\ PriceOK(order[c], tx[c], curve)
  /\ order[c].side = "sell" => tx[c].tokens <= tokens
  /\ order[c].close => tx[c].tokens = tokens

Bought(st, n, sol) ==
  [st EXCEPT !.vt = @ - n, !.rt = @ - n, !.vs = @ + AfterFee(sol), !.rs = @ + AfterFee(sol),
             !.complete = (st.rt = n)]
Sold(st, n) ==
  LET out == st.vs - (st.vs * st.vt) \div (st.vt + n)
  IN [st EXCEPT !.vt = @ + n, !.rt = @ + n, !.vs = @ - out, !.rs = Clip(@ - out, @)]

-----------------------------------------------------------------------------
(* submit_* raise without the flag; otherwise the call asks for the curve.  *)
Start(c, o) ==
  /\ pc[c] = "idle"
  /\ order' = [order EXCEPT ![c] = o]
  /\ pc' = [pc EXCEPT ![c] = IF o.live /\ ~allowLive THEN "raised" ELSE "curve"]
  /\ UNCHANGED <<allowLive, market, net, snap, tx, last, result>>

Return(c, r) ==
  /\ pc' = [pc EXCEPT ![c] = "done"]
  /\ result' = [result EXCEPT ![c] = r]

(* fetch_bonding_curve_state returns; a buy stops at a complete curve.      *)
Fetched(c) ==
  /\ pc[c] = "curve"
  /\ \/ /\ Return(c, "bonding_curve_account_missing")
        /\ UNCHANGED snap
     \/ /\ order[c].side = "buy" /\ curve.complete
        /\ Return(c, "curve_complete_post_graduation")
        /\ UNCHANGED snap
     \/ /\ ~(order[c].side = "buy" /\ curve.complete)
        /\ snap' = [snap EXCEPT ![c] = curve]
        /\ pc' = [pc EXCEPT ![c] = "blockhash"]
        /\ UNCHANGED result
  /\ UNCHANGED <<allowLive, market, net, order, tx, last>>

(* Fault: every transaction is submitted.                                   *)
SignedSubmits(c) ==
  /\ pc[c] = "blockhash"
  /\ \/ /\ Return(c, "blockhash_fetch_failed")
        /\ UNCHANGED tx
     \/ /\ Quoted(order[c], snap[c])
        /\ tx' = [tx EXCEPT ![c] = Build(order[c], snap[c])]
        /\ pc' = [pc EXCEPT ![c] = "send"]
        /\ UNCHANGED result
  /\ UNCHANGED <<allowLive, market, net, order, snap, last>>

(* The token program (which falls back) and the blockhash are known: build, *)
(* sign, and simulate or send.                                              *)
Signed(c) ==
  /\ pc[c] = "blockhash"
  /\ \/ /\ Return(c, "blockhash_fetch_failed")
        /\ UNCHANGED tx
     \/ /\ ~Quoted(order[c], snap[c])
        /\ Return(c, "tx_build_failed")
        /\ UNCHANGED tx
     \/ /\ Quoted(order[c], snap[c])
        /\ tx' = [tx EXCEPT ![c] = Build(order[c], snap[c])]
        /\ pc' = [pc EXCEPT ![c] = IF order[c].live THEN "send" ELSE "simulate"]
        /\ UNCHANGED result
  /\ UNCHANGED <<allowLive, market, net, order, snap, last>>

(* simulateTransaction; it fails for other reasons as well.                 *)
Simulated(c) ==
  /\ pc[c] = "simulate"
  /\ \/ Accepts(c) /\ Return(c, "ok")
     \/ Return(c, "reverted")
  /\ UNCHANGED <<allowLive, market, net, order, snap, tx, last>>

(* sendTransaction: the answer arrives, or an exception does and leaves it  *)
(* open whether the transaction was broadcast.  Its preflight runs on the   *)
(* curve of one node, which need not be the one the transaction meets.      *)
Sent(c) ==
  /\ pc[c] = "send"
  /\ \/ /\ chain' = [chain EXCEPT ![c] = "pending"]
        /\ \/ pc' = [pc EXCEPT ![c] = "confirm"] /\ UNCHANGED result
           \/ Return(c, "send_failed")
     \/ /\ Return(c, "send_failed")
        /\ UNCHANGED chain
  /\ UNCHANGED <<allowLive, market, fork, tokens, flow, order, snap, tx, last>>

Status(c) == CASE chain[c] = "ok"      -> "confirmed"
               [] chain[c] = "err"     -> "err"
               [] chain[c] = "pending" -> fork[c]
               [] OTHER                -> "none"

(* Fault: the err of a status is not looked at.                             *)
PolledBlind(c) ==
  /\ pc[c] = "confirm"
  /\ last' = [last EXCEPT ![c] = Status(c)]
  /\ \/ Status(c) \in {"confirmed", "err"} /\ Return(c, "ok")
     \/ Status(c) \in {"none", "processed"} /\ UNCHANGED <<pc, result>>
  /\ UNCHANGED <<allowLive, market, net, order, snap, tx>>

(* confirm_signature polls: confirmed and err end it.                       *)
Polled(c) ==
  /\ pc[c] = "confirm"
  /\ last' = [last EXCEPT ![c] = Status(c)]
  /\ \/ Status(c) = "confirmed" /\ Return(c, "ok")
     \/ Status(c) = "err" /\ Return(c, "err")
     \/ Status(c) \in {"none", "processed"} /\ UNCHANGED <<pc, result>>
  /\ UNCHANGED <<allowLive, market, net, order, snap, tx>>

(* Its deadline passes: the last status, whatever it was, is the answer,    *)
(* and the caller looks at its err only.                                    *)
GaveUp(c) ==
  /\ pc[c] = "confirm"
  /\ Return(c, IF last[c] = "processed" THEN "ok" ELSE "confirmation_timeout")
  /\ UNCHANGED <<allowLive, market, net, order, snap, tx, last>>

(* get_account_info and get_signature_statuses raise out of the call.       *)
Raised(c) ==
  /\ pc[c] \in {"curve", "confirm"}
  /\ pc' = [pc EXCEPT ![c] = "raised"]
  /\ UNCHANGED <<allowLive, market, net, order, snap, tx, last, result>>

-----------------------------------------------------------------------------
(* The chain: a fork executes the transaction, or drops it again.           *)
Forked(c) ==
  /\ chain[c] = "pending"
  /\ \/ fork[c] = "none" /\ Accepts(c) /\ fork' = [fork EXCEPT ![c] = "processed"]
     \/ fork[c] = "none" /\ fork' = [fork EXCEPT ![c] = "err"]
     \/ fork[c] # "none" /\ fork' = [fork EXCEPT ![c] = "none"]
  /\ UNCHANGED <<allowLive, market, chain, tokens, flow, order, pc, snap, tx, last, result>>

(* A confirmed block executes it.                                           *)
Executed(c) ==
  /\ chain[c] = "pending" /\ Accepts(c)
  /\ chain' = [chain EXCEPT ![c] = "ok"]
  /\ \/ /\ order[c].side = "buy"
        /\ \E cost \in 0..tx[c].limit :
             /\ Charges(cost, tx[c].tokens, curve)
             /\ flow' = [flow EXCEPT ![c] = cost]
             /\ curve' = Bought(curve, tx[c].tokens, cost)
        /\ tokens' = tokens + tx[c].tokens
     \/ /\ order[c].side = "sell"
        /\ flow' = [flow EXCEPT ![c] = EstimateSell(tx[c].tokens, curve)]
        /\ curve' = Sold(curve, tx[c].tokens)
        /\ tokens' = tokens - tx[c].tokens
  /\ UNCHANGED <<allowLive, moves, fork, order, pc, snap, tx, last, result>>

(* A confirmed block reverts it, or its blockhash expires.                  *)
Rejected(c) ==
  /\ chain[c] = "pending"
  /\ \E end \in {"err", "dropped"} : chain' = [chain EXCEPT ![c] = end]
  /\ UNCHANGED <<allowLive, market, fork, tokens, flow, order, pc, snap, tx, last, result>>

(* Others buy and sell.                                                     *)
MarketBuys(sol) ==
  /\ moves < MaxMoves /\ EstimateBuy(sol, curve) > 0
  /\ moves' = moves + 1
  /\ curve' = Bought(curve, EstimateBuy(sol, curve), sol)
  /\ UNCHANGED <<allowLive, net, order, pc, snap, tx, last, result>>

MarketSells(n) ==
  /\ moves < MaxMoves /\ EstimateSell(n, curve) > 0
  /\ moves' = moves + 1
  /\ curve' = Sold(curve, n)
  /\ UNCHANGED <<allowLive, net, order, pc, snap, tx, last, result>>

-----------------------------------------------------------------------------
BuyOrders  == [side : {"buy"}, amount : SolLots, live : BOOLEAN, close : {FALSE}]
SellOrders == [side : {"sell"}, amount : TokenLots, live : BOOLEAN, close : BOOLEAN]

CallStep(c) == Fetched(c) \/ Signed(c) \/ Simulated(c) \/ Sent(c) \/ Polled(c) \/ GaveUp(c)
Chain(c) == Forked(c) \/ Executed(c) \/ Rejected(c)

Next ==
  \/ \E c \in Calls, o \in BuyOrders \cup SellOrders : Start(c, o)
  \/ \E c \in Calls : CallStep(c) \/ Raised(c) \/ Chain(c)
  \/ \E sol \in SolLots : MarketBuys(sol)
  \/ \E n \in TokenLots : MarketSells(n)

Spec == Init /\ [][Next]_vars

-----------------------------------------------------------------------------
Awaits == {"idle", "curve", "blockhash", "simulate", "send", "confirm", "done", "raised"}
EarlyErrors == {"bonding_curve_account_missing", "curve_complete_post_graduation",
                "blockhash_fetch_failed", "tx_build_failed"}
Results == {"none", "ok", "err", "reverted", "send_failed", "confirmation_timeout"}
             \cup EarlyErrors

TypeOK ==
  /\ allowLive \in BOOLEAN
  /\ curve \in Curves
  /\ moves \in 0..MaxMoves
  /\ tokens \in Nat
  /\ order \in [Calls -> BuyOrders \cup SellOrders \cup {NoOrder}]
  /\ pc \in [Calls -> Awaits]
  /\ snap \in [Calls -> Curves]
  /\ tx \in [Calls -> [tokens : Nat, limit : Nat]]
  /\ chain \in [Calls -> {"none", "pending", "ok", "err", "dropped"}]
  /\ fork \in [Calls -> {"none", "processed", "err"}]
  /\ last \in [Calls -> {"none", "processed", "err", "confirmed"}]
  /\ result \in [Calls -> Results]
  /\ flow \in [Calls -> Nat]

(* Slippage protection: however the market and the other calls move the     *)
(* curve after the quote, an executed buy gets the quoted tokens for at     *)
(* most the SOL asked plus the slippage, and an executed sale returns at    *)
(* least the quoted SOL less the slippage.                                  *)
LimitKept ==
  \A c \in Calls : chain[c] = "ok" =>
    LET o == order[c] IN
    IF o.side = "buy"
      THEN /\ tx[c].tokens = EstimateBuy(o.amount, snap[c])
           /\ flow[c] * BPS <= o.amount * (BPS + SlippageBps)
      ELSE (flow[c] + 1) * BPS > EstimateSell(o.amount, snap[c]) * (BPS - SlippageBps)

(* It is also "loose enough to fill": while the curve is still the one that *)
(* was quoted, the price is acceptable, whatever rounding did.              *)
QuietMarketFills ==
  \A c \in Calls : pc[c] \in {"simulate", "send"} /\ curve = snap[c]
                     => PriceOK(order[c], tx[c], curve)

(* Only a live order, and only with allow_live_submit, leaves a trace on    *)
(* the chain; a call that failed before it sent anything never does.        *)
OnlyLiveOrdersLand ==
  \A c \in Calls : chain[c] # "none"
    => allowLive /\ order[c].live /\ result[c] \notin EarlyErrors

(* A submitted order is reported as a success only if a poll saw its        *)
(* transaction execute without error: confirmed, and then it did, or on a   *)
(* fork when the deadline passed.                                           *)
SuccessWasSeen ==
  \A c \in Calls : order[c].live /\ result[c] = "ok"
    => \/ last[c] = "confirmed" /\ chain[c] = "ok"
       \/ last[c] = "processed"

(* confirm_signature polls until the transaction is confirmed, and its      *)
(* caller is said to inspect confirmationStatus as well as err: a success   *)
(* would be a confirmed one.                                                *)
SuccessIsConfirmed ==
  \A c \in Calls : order[c].live /\ result[c] = "ok" => last[c] = "confirmed"
=============================================================================
