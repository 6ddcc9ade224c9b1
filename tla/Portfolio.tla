------------------------------ MODULE Portfolio ------------------------------
(***************************************************************************)
(* The portfolio a replay trades with: a balance, one position per mint at  *)
(* most, and the closed trades.  What is left of a position is counted in   *)
(* quarters of the tokens bought.  A fill that failed brings nothing.       *)
(***************************************************************************)
EXTENDS Integers, FiniteSets

CONSTANTS
  MaxOpen,      (* portfolio_max_positions                                 *)
  StartCash,    (* portfolio_initial_sol                                   *)
  BuyAmount     (* buy_amount_sol                                          *)

ASSUME PortfolioAssumption ==
  MaxOpen \in Nat /\ StartCash \in Nat /\ BuyAmount \in Nat

NoFill == [ok |-> FALSE, sol |-> 0]
Whole == 4

NewPortfolio == [balance |-> StartCash, positions |-> << >>, closed |-> {}]

CanBuy(p) == /\ Cardinality(DOMAIN p.positions) < MaxOpen
             /\ p.balance >= BuyAmount

OpenPosition(p, m, fill, entry) ==
  IF ~fill.ok \/ m \in DOMAIN p.positions \/ ~CanBuy(p) THEN p
  ELSE [p EXCEPT !.balance = @ - fill.sol,
                 !.positions = [x \in DOMAIN @ \cup {m} |-> IF x = m
                   THEN [entry |-> entry, spent |-> fill.sol, got |-> 0,
                         left |-> Whole, heard |-> <<>>]
                   ELSE @[x]]]

PartialSell(p, m, share, fill) ==
  IF m \notin DOMAIN p.positions \/ ~fill.ok THEN p
  ELSE [p EXCEPT !.balance = @ + fill.sol,
                 !.positions[m].got = @ + fill.sol,
                 !.positions[m].left = @ - share]

(* A position is closed though nothing could be sold: what it cost is lost.  *)
ClosePosition(p, m, fill, exit) ==
  IF m \notin DOMAIN p.positions THEN p
  ELSE LET pos == p.positions[m]
           income == IF fill.ok THEN fill.sol ELSE 0
       IN [balance |-> p.balance + income,
           positions |-> [x \in DOMAIN p.positions \ {m} |-> p.positions[x]],
           closed |-> p.closed \cup
             {[mint |-> m, entry |-> pos.entry, exit |-> exit,
               spent |-> pos.spent, got |-> pos.got + income]}]
=============================================================================
