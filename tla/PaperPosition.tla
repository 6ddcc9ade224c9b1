---------------------------- MODULE PaperPosition ----------------------------
(***************************************************************************)
(* One open position: PaperTradeRunner, its ExitManager and the window of   *)
(* its PulseMonitor, driven by trades, by timer ticks, by the end of the    *)
(* trade stream and by restarts of the bot.                                 *)
(*                                                                          *)
(* P&L of the open leg and fractions of the position are whole percents.    *)
(* What a snapshot tells the exit rules is abstracted to three facts: one   *)
(* of the pulse rules (creator_dump to near_graduation, no_new_blood aside)  *)
(* fires, its buy rate is weak, and it saw new wallets.  Priority fees and   *)
(* the dynamic maximum hold, which is off, are left out; the trailing stop,  *)
(* take profit and the exit model are on, as in the default configuration.   *)
(***************************************************************************)
EXTENDS Integers, Sequences

CONSTANTS
  Pnl,            (* values of the open leg's P&L, fees included           *)
  Window,         (* pulse_window_size                                     *)
  MinEvents,      (* pulse_min_events                                      *)
  NoNewEvents,    (* exit_no_new_wallets_events                            *)
  HardStop,       (* exit_hard_stop_loss_pct                               *)
  TakeProfit,     (* exit_take_profit_pct                                  *)
  Activation,     (* exit_trailing_stop_activation_pct                     *)
  Distance,       (* exit_trailing_stop_distance_pct                       *)
  MaxHold,        (* exit_max_hold_seconds                                 *)
  ProfitAt,       (* exit_profit_threshold_pct                             *)
  ProfitPart,     (* exit_partial_on_profit_pct                            *)
  WeakAt,         (* exit_weak_pulse_min_profit_pct                        *)
  WeakPart,       (* exit_partial_on_weak_pulse_pct                        *)
  Moonbag,        (* exit_moonbag_pct                                      *)
  MlMinHold,      (* exit_ml_min_hold_seconds                              *)
  Ladder,         (* the fractions of ml_sizing_frac_1..3                  *)
  HoldHard,       (* exit_ml_hold_hard_enabled                             *)
  MaxElapsed,     (* bound: seconds since entry                            *)
  MaxRestarts     (* bound: restarts                                       *)

ASSUME PaperPositionAssumption ==
  /\ Pnl \subseteq Int /\ 0 \in Pnl
  /\ {Window, MinEvents, NoNewEvents, HardStop, MaxHold, MlMinHold} \subseteq Nat
  /\ {TakeProfit, Activation, Distance, ProfitAt, WeakAt} \subseteq Int
  /\ {ProfitPart, WeakPart, Moonbag} \subseteq 0..100
  /\ Ladder \subseteq 0..100
  /\ HoldHard \in BOOLEAN
  /\ {MaxElapsed, MaxRestarts} \subseteq Nat

VARIABLES
  status,    (* "open", or the exit reason                                 *)
  pnl,       (* P&L of the open leg at the current price                   *)
  elapsed,   (* seconds since the entry                                    *)
  events,    (* trades in the pulse window                                 *)
  pulse,     (* what the last snapshot said                                *)
  remaining, (* ExitManager._remaining_pct                                 *)
  left,      (* PaperTradeRunner._remaining                                *)
  gain,      (* P&L of the runner's partial fills, in percent * percent    *)
  took,      (* _has_taken_profit                                          *)
  peak,      (* _peak_pnl_pct                                              *)
  booked,    (* pnl_pct of the closed row, in percent * percent            *)
  sold,      (* fraction sold in partial fills since the entry (history)   *)
  earned,    (* P&L of those fills (history)                               *)
  top,       (* highest P&L an exit decision has seen (history)            *)
  restarts

rowVars    == <<status, booked>>
mgrVars    == <<remaining, took, peak>>
runnerVars == <<left, gain>>
histVars   == <<sold, earned, top>>
vars == <<rowVars, mgrVars, runnerVars, histVars, pnl, elapsed, events, pulse, restarts>>

Larger(a, b)  == IF a >= b THEN a ELSE b
Smaller(a, b) == IF a <= b THEN a ELSE b

Quiet == [exit |-> FALSE, weak |-> FALSE, fresh |-> FALSE]

Init ==
  /\ status = "open" /\ booked = 0
  /\ pnl = 0 /\ elapsed = 0
  /\ events = 0 /\ pulse = Quiet
  /\ remaining = 100 /\ took = FALSE /\ peak = 0
  /\ left = 100 /\ gain = 0
  /\ sold = 0 /\ earned = 0 /\ top = 0
  /\ restarts = 0

-----------------------------------------------------------------------------
(* What ExitMLPolicy.decide_with_confidence answers, with the partial       *)
(* fraction its probability is worth; a missing or failing model is "none". *)
(* "HOLD_STRICT" is HOLD_HARD below TP_HOLD_HARD_STRICT_THRESHOLD; HOLD_HARD *)
(* needs a P&L of at least HOLD_HARD_MIN_PNL_PCT.  q25 is the answer of the *)
(* quantile head: a loss of more than 5 percent ahead.                      *)
NoAdvice == [ml |-> "none", frac |-> 0, q25 |-> FALSE]
Verdicts ==
  [ml : {"none", "RULES", "SELL_ALL", "SELL_PARTIAL", "HOLD_HARD", "HOLD_STRICT"},
   frac : Ladder \cup {0}, q25 : BOOLEAN]
Advice(p) ==
  {a \in Verdicts :
     /\ a.frac # 0 <=> a.ml = "SELL_PARTIAL"
     /\ a.ml \in {"HOLD_HARD", "HOLD_STRICT"} => p >= -5
     /\ a.q25 => a.ml \in {"SELL_ALL", "SELL_PARTIAL"}}

Available == remaining - Moonbag
Part(fraction) == Smaller(fraction, Available)

(* Fault: the block of take_profit is not conditioned on the P&L target.    *)
HeldAnywhere(p, a) == HoldHard /\ a.ml = "HOLD_STRICT" /\ peak < 300 /\ p < 500

(* HOLD_HARD overrides take_profit only for a confident model, below the    *)
(* peak and the P&L at which a reversal is expected.                        *)
HeldTakeProfit(p, a) ==
  p >= TakeProfit /\ HoldHard /\ a.ml = "HOLD_STRICT" /\ peak < 300 /\ p < 500

(* ExitManager.decide: the exit rules in the order they are tried, each     *)
(* with what it sells, for a snapshot s of n trades, a P&L of p, e seconds  *)
(* after the entry and the advice a.  The two "held" rules are HOLD_HARD    *)
(* blocking a rule that would sell.                                         *)
Rule(why, fires, part) == [why |-> why, fires |-> fires, part |-> part]

Rules(s, n, p, e, a) ==
  LET high == Larger(peak, p)
      soft == Available > 1
      weak == soft /\ s.weak /\ p > WeakAt
      late == e >= MlMinHold
  IN <<
    Rule("pulse",            s.exit, remaining),
    Rule("no_new_blood",     ~s.fresh /\ n >= NoNewEvents, remaining),
    Rule("ml_sl_tightened",  a.q25 /\ -HardStop < p /\ p <= -5, remaining),
    Rule("hard_stop",        p < -HardStop, remaining),
    Rule("held_take_profit", HeldTakeProfit(p, a), 0),
    Rule("take_profit",      p >= TakeProfit, remaining),
    Rule("trailing_stop",    high >= Activation /\ high - p >= Distance, remaining),
    Rule("timeout",          e > MaxHold, remaining),
    Rule("strong_profit",    soft /\ p > ProfitAt /\ ~took, Part(ProfitPart)),
    Rule("held_weak_pulse",  weak /\ HoldHard /\ a.ml \in {"HOLD_HARD", "HOLD_STRICT"}, 0),
    Rule("weak_pulse_profit", weak, Part(WeakPart)),
    Rule("ml_exit_trigger",  late /\ a.ml = "SELL_ALL", remaining),
    Rule("ml_partial_trigger", late /\ soft /\ a.ml = "SELL_PARTIAL", Part(a.frac)),
    Rule("pulse_ok",         TRUE, 0) >>

First(rules, i) == rules[i].fires /\ \A j \in 1..(i - 1) : ~rules[j].fires

SellsAll == {"pulse", "no_new_blood", "ml_sl_tightened", "hard_stop", "take_profit",
             "trailing_stop", "timeout", "ml_exit_trigger"}
(* The rules tried before _peak_pnl_pct is brought up to date.              *)
BeforePeak == {"pulse", "no_new_blood", "ml_sl_tightened", "hard_stop",
               "held_take_profit", "take_profit"}

(* Fault: the closed row gets the P&L of the last leg alone.                *)
CloseLastLeg(why, p) ==
  /\ status' = why
  /\ booked' = 100 * p

(* PaperTradeRunner's use of the decision: a full sale closes the position  *)
(* at the weighted P&L of the fills and the rest, a partial one is a fill.  *)
CloseAs(why, p) ==
  /\ status' = why
  /\ booked' = gain + left * p
Stay == UNCHANGED rowVars

(* Fault: the runner does not take a fill off its position.                 *)
FillKeepsAll(part, p) ==
  LET s == Smaller(part, left) IN
  /\ left' = left
  /\ gain' = gain + s * p
  /\ sold' = sold + s
  /\ earned' = earned + s * p

Fill(part, p) ==
  LET s == Smaller(part, left) IN
  /\ left' = Larger(left - s, 0)
  /\ gain' = gain + s * p
  /\ sold' = sold + s
  /\ earned' = earned + s * p

(* Fault: the peak of the trailing stop is compared with but never raised.  *)
ApplyPeakLost(r, p) ==
  /\ remaining' = remaining - r.part
  /\ took' = (took \/ r.why = "strong_profit")
  /\ peak' = peak
  /\ top' = Larger(top, p)
  /\ IF r.why \in SellsAll
       THEN CloseAs(r.why, p) /\ UNCHANGED <<runnerVars, sold, earned>>
       ELSE Stay /\ Fill(r.part, p)

Apply(r, p) ==
  /\ remaining' = remaining - r.part
  /\ took' = (took \/ r.why = "strong_profit")
  /\ peak' = IF r.why \in BeforePeak THEN peak ELSE Larger(peak, p)
  /\ top' = Larger(top, p)
  /\ IF r.why \in SellsAll
       THEN CloseAs(r.why, p) /\ UNCHANGED <<runnerVars, sold, earned>>
       ELSE Stay /\ Fill(r.part, p)

Decide(s, n, p, e, a) ==
  LET rules == Rules(s, n, p, e, a) IN
  \E i \in 1..Len(rules) : First(rules, i) /\ Apply(rules[i], p)

-----------------------------------------------------------------------------
(* process_trade: a hard stop on every trade, then, once the window is      *)
(* warm, the snapshot and the exit rules.                                   *)
Trade(p, s, a, e) ==
  /\ status = "open"
  /\ pnl' = p /\ elapsed' = e
  /\ \/ /\ p < -HardStop
        /\ CloseAs("hard_stop", p)
        /\ UNCHANGED <<events, pulse, mgrVars, runnerVars, histVars>>
     \/ /\ p >= -HardStop /\ Smaller(events + 1, Window) < MinEvents
        /\ events' = Smaller(events + 1, Window)
        /\ UNCHANGED <<rowVars, pulse, mgrVars, runnerVars, histVars>>
     \/ /\ p >= -HardStop /\ Smaller(events + 1, Window) >= MinEvents
        /\ events' = Smaller(events + 1, Window)
        /\ pulse' = s
        /\ Decide(s, events', p, e, a)
  /\ UNCHANGED restarts

(* tick: the snapshot of the same window, in which no wallet is ever new.   *)
Tick(a) ==
  /\ status = "open" /\ elapsed < MaxElapsed
  /\ elapsed' = elapsed + 1
  /\ UNCHANGED <<pnl, events, pulse, restarts>>
  /\ \/ /\ events < MinEvents
        /\ UNCHANGED <<rowVars, mgrVars, runnerVars, histVars>>
     \/ /\ events >= MinEvents
        /\ Decide([pulse EXCEPT !.fresh = FALSE], events, pnl, elapsed', a)

(* The stream ended without a decision: timeout_result.                     *)
Expire ==
  /\ status = "open"
  /\ CloseAs("dead_token", pnl)
  /\ UNCHANGED <<mgrVars, runnerVars, histVars, pnl, elapsed, events, pulse, restarts>>

(* The bot restarts: _resume_open_trades builds a new runner from the row.  *)
Restart ==
  /\ status = "open" /\ restarts < MaxRestarts
  /\ restarts' = restarts + 1
  /\ pnl' = 0 /\ events' = 0 /\ pulse' = Quiet
  /\ remaining' = 100 /\ took' = FALSE /\ peak' = 0
  /\ left' = 100 /\ gain' = 0
  /\ UNCHANGED <<rowVars, histVars, elapsed>>

Snapshots == [exit : BOOLEAN, weak : BOOLEAN, fresh : BOOLEAN]

Next ==
  \/ \E p \in Pnl, s \in Snapshots, e \in {elapsed, Smaller(elapsed + 1, MaxElapsed)} :
       \E a \in Advice(p) : Trade(p, s, a, e)
  \/ \E a \in Advice(pnl) : Tick(a)
  \/ Expire
  \/ Restart

Spec == Init /\ [][Next]_vars

-----------------------------------------------------------------------------
Reasons == SellsAll \cup {"dead_token"}

TypeOK ==
  /\ status \in Reasons \cup {"open"}
  /\ pnl \in Pnl
  /\ elapsed \in 0..MaxElapsed
  /\ events \in 0..Window
  /\ pulse \in Snapshots
  /\ remaining \in 0..100 /\ left \in 0..100
  /\ took \in BOOLEAN
  /\ {gain, peak, booked, sold, earned, top} \subseteq Int
  /\ restarts \in 0..MaxRestarts

(* The exit manager and the runner count the same position: what is left of *)
(* an open one is the same for both, and a moonbag is never sold in part.   *)
SameRemainder == status = "open" => remaining = left /\ left >= Moonbag

(* The P&L written to the row is that of every fill of the position and of  *)
(* what was left of it, each part counted once.                             *)
BookedIsEarned == status # "open" => booked = earned + (100 - sold) * pnl

(* A decision that leaves the position open was taken within the maximum    *)
(* hold: whatever the snapshot and the advice, the timeout closes it.       *)
Decides == status' = "open" /\ restarts' = restarts /\ events' >= MinEvents

HoldIsBounded == [][Decides => elapsed' <= MaxHold]_vars

(* A decision that leaves the position open was taken within the trailing   *)
(* distance of the highest P&L any decision about it has seen.              *)
TrailingStands == [][Decides /\ top' >= Activation => top' - pnl' < Distance]_vars

(* Whatever the position has been through, the advice of the exit model     *)
(* makes it leave sooner or not at all later: what the rules alone would    *)
(* sell is sold with any advice, take_profit and weak_pulse_profit aside.   *)
Chosen(rules) == {rules[i].why : i \in {k \in 1..Len(rules) : First(rules, k)}}

AdviceOnlySells ==
  status = "open" =>
    \A p \in Pnl, s \in Snapshots, n \in {MinEvents, Window}, e \in elapsed..MaxElapsed :
      LET alone == Chosen(Rules(s, n, p, e, NoAdvice)) IN
      \A a \in Advice(p) :
        LET given == Chosen(Rules(s, n, p, e, a)) IN
        /\ alone \subseteq SellsAll \ {"take_profit"} => given \subseteq SellsAll
        /\ alone = {"strong_profit"} => given \subseteq SellsAll \cup {"strong_profit"}
=============================================================================
