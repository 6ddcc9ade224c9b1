------------------------------ MODULE Backtest ------------------------------
(***************************************************************************)
(* BacktestEngine: every token is scored first, then the trades of all      *)
(* tokens are replayed in the order of their timestamps against one         *)
(* portfolio.  At each trade expired positions are closed, the candidates   *)
(* that are due are opened, and the trade is handed to its position.        *)
(***************************************************************************)
EXTENDS Portfolio, Selection, FiniteSetsExt, SequencesExt

CONSTANTS
  Births,       (* mint -> created_at                                      *)
  FastSec,      (* fast_observe_seconds                                    *)
  ObserveSec,   (* observe_seconds                                         *)
  MaxHold,      (* exit_max_hold_seconds                                   *)
  Inactivity,   (* exit_inactivity_seconds, 0 turns it off                 *)
  Sales,        (* what a sale may bring                                   *)
  Recent,       (* how many of the last trades a sale is priced by         *)
  Horizon,      (* bound: time of the last trade                           *)
  TapeLength    (* bound: trades of the history                            *)

ASSUME BacktestAssumption ==
  /\ Births \in [DOMAIN Births -> Nat]
  /\ FastSec \in Nat /\ ObserveSec \in Nat /\ FastSec <= ObserveSec
  /\ MaxHold \in Nat /\ Inactivity \in Nat /\ Sales \subseteq Nat
  /\ Recent \in Nat \ {0}
  /\ Horizon \in Nat /\ TapeLength \in Nat

VARIABLES
  engine,     (* where run() is, the clock, the tokens not scored yet      *)
  due,        (* entry candidates not taken yet                            *)
  portfolio,
  tape        (* the trades replayed so far                                *)

backtestVars == <<engine, due, portfolio, tape>>

BacktestInit ==
  /\ engine = [pc |-> "score", now |-> 0, unscored |-> DOMAIN Births]
  /\ due = {} /\ portfolio = NewPortfolio /\ tape = <<>>

BacktestOff ==
  /\ engine = [pc |-> "off", now |-> 0, unscored |-> {}]
  /\ due = {} /\ portfolio = NewPortfolio /\ tape = <<>>

(* A buy fills at the last price of its window, if there was any.            *)
SimulateBuy(priced) == IF priced THEN [ok |-> TRUE, sol |-> BuyAmount] ELSE NoFill

(* A sale needs a priced trade among the last ones the position heard, and    *)
(* something left to sell.                                                   *)
SimulateSell(heard, left, income) ==
  IF left > 0 /\ \E i \in DOMAIN heard : i > Len(heard) - Recent /\ heard[i].priced
  THEN [ok |-> TRUE, sol |-> income] ELSE NoFill

(* The fast signal goes first; the buyer bounds are part of the signal.      *)
ScoreTokenForEntry ==
  /\ engine.pc = "score"
  /\ \E m \in engine.unscored, fast, full, priced \in BOOLEAN :
       /\ \A n \in engine.unscored : Births[m] <= Births[n]
       /\ due' = IF fast \/ full
                 THEN due \cup {[mint |-> m, fill |-> SimulateBuy(priced),
                        entry |-> Births[m] + IF fast THEN FastSec ELSE ObserveSec]}
                 ELSE due
       /\ engine' = [engine EXCEPT !.unscored = @ \ {m},
                       !.pc = IF engine.unscored = {m} THEN "replay" ELSE @]
  /\ UNCHANGED <<portfolio, tape>>

(* Fault: a position is late as soon as its time is over.                    *)
LateAtOnce(pos, now) == now - pos.entry >= MaxHold

Late(pos, now) == now - pos.entry > MaxHold

Quiet(pos, now) == /\ Inactivity > 0 /\ pos.heard # <<>>
                   /\ now - Last(pos.heard).at > Inactivity

(* Positions whose time is over are closed as of the moment it was over.     *)
Expire(p, m, now, income) ==
  LET pos == p.positions[m]
  IN CASE Late(pos, now) ->
            ClosePosition(p, m, SimulateSell(pos.heard, pos.left, income),
                          pos.entry + MaxHold)
       [] ~Late(pos, now) /\ Quiet(pos, now) ->
            ClosePosition(p, m, SimulateSell(pos.heard, pos.left, income),
                          Last(pos.heard).at + Inactivity)
       [] OTHER -> p

CloseExpiredPositions(p, now, income) ==
  FoldSet(LAMBDA m, q : Expire(q, m, now, income[m]), p, DOMAIN p.positions)

DueBy(now) == {c \in due : c.entry <= now}

(* The candidates that are due, in the order of their entry times.           *)
OpenDueCandidates(p, order) ==
  FoldLeft(LAMBDA q, c : OpenPosition(q, c.mint, c.fill, c.entry), p, order)

Orders(now) ==
  {s \in SetToSeqs(DueBy(now)) : \A i, j \in DOMAIN s : i < j => s[i].entry <= s[j].entry}

(* What the rules make of a trade of a held mint: hold, sell some of it, up to *)
(* half and never the last quarter, or sell all.  The rules count a part as   *)
(* sold though its fill failed, so that later parts may be smaller.           *)
Half == 2
HandlePositionTrade(p, t, share, income) ==
  IF t.mint \notin DOMAIN p.positions THEN p
  ELSE LET heard == Append(p.positions[t.mint].heard, [at |-> t.at, priced |-> t.priced])
           q == [p EXCEPT !.positions[t.mint].heard = heard]
           left == q.positions[t.mint].left
       IN CASE share \in 1..Half /\ share < left ->
                 PartialSell(q, t.mint, share, SimulateSell(heard, share, income))
            [] share = Whole ->
                 ClosePosition(q, t.mint, SimulateSell(heard, left, income), t.at)
            [] OTHER -> q

(* One trade of the history, not before the one replayed last.                *)
MarketTrades == [mint : DOMAIN Births, at : 0..Horizon, priced : BOOLEAN]

ReplayTrade ==
  /\ engine.pc = "replay" /\ Len(tape) < TapeLength
  /\ \E t \in {x \in MarketTrades : x.at >= engine.now},
        share \in 0..Half \cup {Whole}, sale \in Sales :
       \E order \in Orders(t.at) :
         LET income == [m \in DOMAIN Births |-> sale]
             expired == CloseExpiredPositions(portfolio, t.at, income)
         IN /\ portfolio' = HandlePositionTrade(OpenDueCandidates(expired, order),
                                                t, share, sale)
            /\ tape' = Append(tape, t)
            /\ due' = due \ DueBy(t.at)
            /\ engine' = [engine EXCEPT !.now = t.at]

(* The history is over: what is due later is opened all the same, each at its *)
(* own time.                                                                 *)
OpenRest ==
  /\ engine.pc \in {"replay", "tail"} /\ due # {}
  /\ \E sale \in Sales :
       LET now == Min({c.entry : c \in due})
           income == [m \in DOMAIN Births |-> sale]
       IN \E order \in Orders(now) :
            /\ portfolio' = OpenDueCandidates(
                              CloseExpiredPositions(portfolio, now, income), order)
            /\ due' = due \ DueBy(now)
            /\ engine' = [engine EXCEPT !.now = now, !.pc = "tail"]
  /\ UNCHANGED tape
(* What is still held is sold at the last price of its token, or written off. *)
CloseRemaining(p, m, income) ==
  LET after == Among(tape, {t \in MarketTrades : t.mint = m /\ t.at >= p.positions[m].entry})
  IN ClosePosition(p, m, SimulateSell(after, p.positions[m].left, income),
                   IF after = <<>> THEN p.positions[m].entry + 60 ELSE Last(after).at)

CloseRemainingPositions ==
  /\ engine.pc \in {"replay", "tail"} /\ due = {}
  /\ \E sale \in Sales :
       portfolio' = FoldSet(LAMBDA m, q : CloseRemaining(q, m, sale), portfolio,
                            DOMAIN portfolio.positions)
  /\ engine' = [engine EXCEPT !.pc = "done"]
  /\ UNCHANGED <<due, tape>>

BacktestNext == \/ ScoreTokenForEntry \/ ReplayTrade
                \/ OpenRest \/ CloseRemainingPositions

BacktestTypeOK ==
  /\ engine.pc \in {"off", "score", "replay", "tail", "done"}
  /\ engine.unscored \subseteq DOMAIN Births
  /\ portfolio.balance \in Nat
  /\ \A m \in DOMAIN portfolio.positions : portfolio.positions[m].left \in 1..Whole
  /\ Len(tape) <= TapeLength

Held == {[entry |-> portfolio.positions[m].entry, spent |-> portfolio.positions[m].spent,
          got |-> portfolio.positions[m].got, mint |-> m] : m \in DOMAIN portfolio.positions}

(* Whoever reads the closed trades finds no more of them open at a trade of   *)
(* the history than the portfolio may hold, though candidates wait for the    *)
(* next trade of any token and expiries are dated back (backtest.py,          *)
(* _run_timeline).                                                           *)
SlotsAtTrades ==
  \A i \in DOMAIN tape :
    Cardinality({c \in portfolio.closed : tape[i].at \in c.entry..c.exit}
                \cup {h \in Held : h.entry <= tape[i].at}) <= MaxOpen
=============================================================================
