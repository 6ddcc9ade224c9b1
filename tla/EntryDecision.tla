---------------------------- MODULE EntryDecision ----------------------------
(***************************************************************************)
(* How the bot decides to enter a token: decide_entry on what the two       *)
(* scorers say, the hard skips that look the early buyers up, the override  *)
(* of the entry model and the one of the in-window checkpoints, and the     *)
(* gates that bind every config.  Wallets are classified by marks; scores,  *)
(* probabilities and forecasts are small whole numbers.                     *)
(***************************************************************************)
EXTENDS Integers, FiniteSets, FiniteSetsExt, Sequences, SequencesExt, Selection

CONSTANTS
  Configs,       (* config_ids of the registry                             *)
  Config,        (* config_id -> EntryConfig                               *)
  EntryMode,     (* entry_mode: "fast", "full" or "both"                   *)
  MinBuyer, MaxBuyer, (* min_/max_entry_buyer_number                       *)
  MaxFastScore,  (* entry_max_fast_score                                   *)
  EarlyAge       (* age at which a buyer is no longer an early one         *)

(* A forecast is a set of one number, or empty when no model gives one.     *)
NoForecast == {}

(* An EntryDecision.                                                        *)
Skip == [enter |-> FALSE, type |-> "", score |-> 0, buyer |-> 0]
Refuse(d) == [d EXCEPT !.enter = FALSE]

(* The decision of the two windows' scorers.  A full score below zero      *)
(* vetoes a fast entry; a hard reject has score zero.                       *)
DecideEntry(fast, full) ==
  LET type == IF EntryMode = "fast" \/ (EntryMode = "both" /\ ~full.buy)
              THEN "fast" ELSE "full"
      buyer == (IF type = "fast" THEN fast.buys ELSE full.buys) + 1
      wanted == /\ \/ EntryMode \in {"fast", "both"} /\ fast.buy
                   \/ EntryMode \in {"full", "both"} /\ full.buy
                /\ ~(fast.buy /\ ~full.buy /\ full.score < 0)
  IN IF /\ wanted
        /\ full.priced
        /\ buyer \in MinBuyer..MaxBuyer
        /\ fast.score <= MaxFastScore
     THEN [enter |-> TRUE, type |-> type, buyer |-> buyer,
           score |-> IF type = "fast" THEN fast.score ELSE full.score]
     ELSE Skip

Buys(trades) == Among(trades, {t \in ToSet(trades) : t.side = "buy"})

EarlyBuyers(trades) ==
  {t.wallet : t \in {u \in ToSet(Buys(trades)) : u.at < EarlyAge}}

Marked(marks, wallets, m) == {w \in wallets : m \in marks[w]}

(* The queries of the hard skips.                                           *)
Lookups == {"bots", "wash", "smart", "winners"}

(* One hard skip: it looks at decisions to enter only, and lets a token     *)
(* pass when its query is not answered.                                     *)
FilterBotCluster(c, marks, early, answered, d) ==
  IF /\ Config[c].bots > 0 /\ d.enter /\ early # {} /\ "bots" \in answered
     /\ Cardinality(Marked(marks, early, "bot")) >= Config[c].bots
  THEN Refuse(d) ELSE d

(* The wallets marked "cluster" are the members of one cluster; its size    *)
(* must lie in the wash-suspect band.                                       *)
FilterWashCluster(c, marks, early, answered, d) ==
  IF /\ Config[c].wash > 0 /\ d.enter /\ early # {} /\ "wash" \in answered
     /\ Cardinality(Marked(marks, DOMAIN marks, "cluster")) \in Config[c].band
     /\ Cardinality(Marked(marks, early, "cluster")) >= Config[c].wash
  THEN Refuse(d) ELSE d

FilterSmartMoney(c, marks, early, answered, d) ==
  IF /\ Config[c].smart /\ d.enter
     /\ \/ early = {}
        \/ "smart" \in answered /\ Marked(marks, early, "smart") = {}
  THEN Refuse(d) ELSE d

FilterTop3(c, marks, early, answered, d) ==
  IF /\ Config[c].winners /\ d.enter
     /\ \/ early = {}
        \/ "winners" \in answered /\ Marked(marks, early, "winner") = {}
  THEN Refuse(d) ELSE d

(* The lookup of the creator hands "one" to _sync_query by position, which  *)
(* takes it by keyword only: the call raises, the error is swallowed and    *)
(* the decision is returned as it came, blacklisted creator or not.         *)
FilterCreatorBlacklist(d) == d

HardSkips(c, marks, early, answered, d) ==
  FilterTop3(c, marks, early, answered,
    FilterSmartMoney(c, marks, early, answered,
      FilterWashCluster(c, marks, early, answered,
        FilterBotCluster(c, marks, early, answered, d))))

(* A forecast is scored in tenths of a percent, 500 standing for zero.      *)
ForecastScore(pct) == Max({1, Min({999, 10 * pct + 500})})

(* apply_ml_override: the model turns a skip into an entry unless a floor   *)
(* or the cap on the buyer number blocks it, and an entry into a skip.      *)
ApplyMlOverride(c, ml, buys, d) ==
  LET blocked == \/ buys > Config[c].lastBuyer
                 \/ ml.raw < Config[c].rawFloor
                 \/ ml.cal < Config[c].calFloor
                 \/ ~(ml.forecast \subseteq Config[c].forecasts)
  IN CASE Config[c].rulesOnly -> d
       [] ~Config[c].rulesOnly /\ ml.action = "BUY" /\ ~d.enter /\ ~blocked ->
            [enter |-> TRUE, type |-> "ml_override", buyer |-> buys + 1,
             score |-> IF ml.forecast = NoForecast THEN Max({1, ml.cal})
                       ELSE ForecastScore(Max(ml.forecast))]
       [] ~Config[c].rulesOnly /\ ml.action = "SKIP" -> Refuse(d)
       [] OTHER -> d

(* Fault: an entry by the checkpoint is not described.                       *)
ApplyCheckpointOverrideBare(cp, buys, d) ==
  CASE cp.verdict = "BUY_EARLY"  -> [d EXCEPT !.enter = TRUE]
    [] cp.verdict = "SKIP_EARLY" -> Refuse(d)
    [] OTHER -> d

(* apply_checkpoint_override: the verdict of the observation window is the  *)
(* last word on the direction.                                              *)
ApplyCheckpointOverride(cp, buys, d) ==
  CASE cp.verdict = "BUY_EARLY" /\ ~d.enter ->
         [enter |-> TRUE, type |-> cp.source, buyer |-> buys + 1, score |-> 1]
    [] cp.verdict = "BUY_EARLY" /\ d.enter -> [d EXCEPT !.type = cp.source]
    [] cp.verdict = "SKIP_EARLY" -> Refuse(d)
    [] OTHER -> d

(* What one config makes of the shared decision.                            *)
DecideFor(c, marks, trades, answered, ml, cp, base) ==
  LET buys == Len(Buys(trades))
      kept == HardSkips(c, marks, EarlyBuyers(trades), answered, base)
      said == IF ml.action = "N/A" THEN kept
              ELSE ApplyMlOverride(c, ml, buys, kept)
  IN ApplyCheckpointOverride(cp, buys, said)
=============================================================================
