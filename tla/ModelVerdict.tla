---------------------------- MODULE ModelVerdict ----------------------------
(***************************************************************************)
(* How the entry model comes to say BUY, SKIP or RULES: the trainer          *)
(* searches a floor and a ceiling on the validation set, the policy loads   *)
(* them with what the config and the skill gate make of them, and a token's *)
(* score is compared with both.  A probability is a multiple of 1/50, a     *)
(* forecast of the regression head a percentage.                            *)
(***************************************************************************)
EXTENDS Integers, Sequences, FiniteSets, FiniteSetsExt, SequencesExt

CONSTANTS
  Validations,  (* the validation sets, each a sequence of [score, pnl]      *)
  MinBucket,  (* rows a bucket needs to be judged                          *)
  Worst, Best,  (* what a P&L is clipped to                                *)
  Overrides,  (* [floor, ceiling] of a config, Keep for what it leaves     *)
  Switches,   (* [forced, grey, careful]: PULSE_ALLOW_DEGENERATE_MODEL,    *)
              (* PULSE_ENTRY_GREY_TO_SKIP, PULSE_ML_DEGENERATE_RULES_...   *)
  Scores      (* scores of tokens                                          *)

Certain == 50
Keep == -1

ASSUME ModelVerdictAssumption ==
  /\ MinBucket \in Nat \ {0} /\ Worst \in Int /\ Best \in Nat
  /\ Scores \subseteq Int /\ Overrides \subseteq [floor : Int, ceiling : Int]
  /\ Switches \subseteq [forced : BOOLEAN, grey : BOOLEAN, careful : BOOLEAN]
  /\ \A s \in Validations : s # <<>> /\ s \in Seq([score : Int, pnl : Int])

VARIABLES
  course,   (* where the model is                                          *)
  sample,   (* what it is validated on                                     *)
  trained,  (* its meta                                                    *)
  acting,   (* what the policy has loaded                                  *)
  asked     (* the last score and what was said to it                      *)

verdictVars == <<course, sample, trained, acting, asked>>

NoMeta == [head |-> "none", floor |-> 0, ceiling |-> 0, status |-> "none",
           by |-> "none", skilled |-> FALSE]
NoPolicy == [head |-> "none", floor |-> 0, ceiling |-> 0, inert |-> FALSE,
             grey |-> FALSE, careful |-> FALSE]
NoAnswer == [score |-> 0, sparse |-> FALSE, action |-> "none"]

VerdictInit == /\ course = "untrained" /\ sample \in Validations
               /\ trained = NoMeta /\ acting = NoPolicy /\ asked = NoAnswer
VerdictOff  == /\ course = "off" /\ sample = <<>>
               /\ trained = NoMeta /\ acting = NoPolicy /\ asked = NoAnswer

(* ------------------- buckets of a sample ------------------------------- *)
Below(rows, t) == {i \in DOMAIN rows : rows[i].score < t}
Above(rows, t) == DOMAIN rows \ Below(rows, t)
Won(rows, bucket) == Cardinality({i \in bucket : rows[i].pnl > 0})
Earned(rows, bucket) == MapThenSumSet(LAMBDA i : rows[i].pnl, bucket)
EarnedClipped(rows, bucket) ==
  MapThenSumSet(LAMBDA i : Max({Worst, Min({Best, rows[i].pnl})}), bucket)

(* What a bucket is judged by, times its rows: the P&L, the wins, or both.  *)
Worth(rows, bucket, by) ==
  CASE by = "ev" -> EarnedClipped(rows, bucket)
    [] by = "wr" -> Won(rows, bucket)
    [] by = "both" -> 100 * Won(rows, bucket) + Earned(rows, bucket)

(* The mean of one bucket is less than that of another.                     *)
Less(rows, one, other, by) ==
  Worth(rows, one, by) * Cardinality(other)
    < Worth(rows, other, by) * Cardinality(one)

Enough(bucket) == Cardinality(bucket) >= MinBucket

(* The first threshold of the grid with the least mean below it.            *)
FloorOn(grid, rows, by, default) ==
  LET fit == {t \in grid : Enough(Below(rows, t))}
  IN IF fit = {} THEN default
     ELSE Min({t \in fit : \A u \in fit :
                 ~Less(rows, Below(rows, u), Below(rows, t), by)})

(* Fault: the last of equally good thresholds is taken.                     *)
CeilingOnLast(grid, rows, by, default) ==
  LET fit == {t \in grid : Enough(Above(rows, t))}
  IN IF fit = {} THEN default
     ELSE Max({t \in fit : \A u \in fit :
                 ~Less(rows, Above(rows, t), Above(rows, u), by)})

(* The first threshold with the greatest mean at or above it.               *)
CeilingOn(grid, rows, by, default) ==
  LET fit == {t \in grid : Enough(Above(rows, t))}
  IN IF fit = {} THEN default
     ELSE Min({t \in fit : \A u \in fit :
                 ~Less(rows, Above(rows, t), Above(rows, u), by)})

(* The i-th of the scores from below.                                       *)
Nth(rows, i) ==
  Min({rows[j].score : j \in {k \in DOMAIN rows :
         Cardinality({l \in DOMAIN rows : rows[l].score <= rows[k].score}) >= i}})

(* The k-th fifth of the scores, interpolated.                              *)
Fifth(rows, k) ==
  LET h == k * (Len(rows) - 1)
      i == h \div 5 + 1
  IN IF h % 5 = 0 THEN Nth(rows, i)
     ELSE Nth(rows, i) + ((h % 5) * (Nth(rows, i + 1) - Nth(rows, i))) \div 5

(* The highest fifth wins at least 1.3 times as often as all, the lowest at *)
(* most 0.7 times.                                                          *)
StillRanks(rows, floor, ceiling) ==
  LET wins == Won(rows, DOMAIN rows)
      up == Above(rows, ceiling)
      down == Below(rows, floor)
  IN /\ wins > 0 /\ up # {} /\ down # {}
     /\ 10 * Won(rows, up) * Len(rows) >= 13 * wins * Cardinality(up)
     /\ 10 * Won(rows, down) * Len(rows) <= 7 * wins * Cardinality(down)

(* ------------------- training ------------------------------------------ *)
Tenths == {5 * k : k \in 1..9}

(* _search_confidence_thresholds: by the P&L where the set has it, else by  *)
(* the labels; when floor and ceiling collapse, by the outer fifths.        *)
ConfidenceThresholds(rows, by) ==
  LET floor == FloorOn(Tenths, rows, by, 15)
      ceiling == CeilingOn(Tenths, rows, by, 35)
      low == Fifth(rows, 1)
      high == Fifth(rows, 4)
  IN IF floor < ceiling
     THEN [floor |-> floor, ceiling |-> ceiling, status |-> "ok"]
     ELSE [floor |-> low, ceiling |-> high, status |->
             IF StillRanks(rows, low, high) THEN "ok_percentile_fallback"
             ELSE "degenerate_flat"]

Fives == {5 * k : k \in -4..6}

(* _search_pnl_thresholds: no floor under which every row wins, and priors  *)
(* when floor and ceiling collapse.                                         *)
PnlThresholds(rows) ==
  LET lossy == {t \in Fives : Won(rows, Below(rows, t)) < Cardinality(Below(rows, t))}
      floor == FloorOn(lossy, rows, "wr", 0)
      ceiling == CeilingOn(Fives, rows, "both", 10)
  IN IF ceiling <= floor
     THEN [floor |-> -10, ceiling |-> 5, status |-> "priors"]
     ELSE [floor |-> floor, ceiling |-> ceiling, status |-> "found"]

(* The scores of a classifier are probabilities, those of the regression    *)
(* head are percentages of either sign.                                     *)
Probabilities == \A i \in DOMAIN sample : sample[i].score \in 0..Certain

(* A classifier is saved whatever its health; a flat one is never healthy,  *)
(* another may fail for its spread, its AUC or its shift.                   *)
SaveClassifier ==
  /\ course = "untrained" /\ Probabilities
  /\ \E by \in {"ev", "wr"} :
     \E skilled \in BOOLEAN :
       LET t == ConfidenceThresholds(sample, by)
       IN trained' = [head |-> "probability", floor |-> t.floor,
                      ceiling |-> t.ceiling, status |-> t.status, by |-> by,
                      skilled |-> skilled /\ t.status # "degenerate_flat"]
  /\ course' = "trained"
  /\ UNCHANGED <<sample, acting, asked>>

(* A regression head is judged by its ranks and signs alone.                *)
SaveRegressor ==
  /\ course = "untrained"
  /\ \E skilled \in BOOLEAN :
       LET t == PnlThresholds(sample)
       IN trained' = [head |-> "percentage", floor |-> t.floor,
                      ceiling |-> t.ceiling, status |-> t.status, by |-> "both",
                      skilled |-> skilled]
  /\ course' = "trained"
  /\ UNCHANGED <<sample, acting, asked>>

(* The T+30 head is searched too, but acts on two thresholds of its own:    *)
(* BUY from 0.75 on, SKIP below 0.15.                                       *)
SaveEarly ==
  /\ course = "untrained" /\ Probabilities
  /\ \E skilled \in BOOLEAN :
       trained' = [head |-> "early", floor |-> 8, ceiling |-> 38,
                   status |-> "fixed", by |-> "none", skilled |-> skilled]
  /\ course' = "trained"
  /\ UNCHANGED <<sample, acting, asked>>

(* ------------------- the policy ---------------------------------------- *)
(* Fault: the config is applied after the gate.                             *)
LoadedThresholdsRevived(meta, override, inert) ==
  LET given(own, new) == IF new = Keep THEN own ELSE new
      one == IF meta.head = "probability" THEN Certain ELSE 1
  IN [floor |-> given(IF inert THEN 0 ELSE meta.floor, override.floor),
      ceiling |-> given(IF inert THEN one ELSE meta.ceiling, override.ceiling)]

(* Thresholds of the config replace those of the meta, and a model without  *)
(* skill has a floor of zero and a ceiling of one, in units of its score.   *)
LoadedThresholds(meta, override, inert) ==
  LET given(own, new) == IF new = Keep THEN own ELSE new
      one == IF meta.head = "probability" THEN Certain ELSE 1
  IN IF inert THEN [floor |-> 0, ceiling |-> one]
     ELSE [floor |-> given(meta.floor, override.floor),
           ceiling |-> given(meta.ceiling, override.ceiling)]

LoadPolicy ==
  /\ course = "trained" /\ trained.head # "early"
  /\ \E o \in Overrides, s \in Switches :
       LET inert == ~trained.skilled /\ ~s.forced
           t == LoadedThresholds(trained, o, inert)
       IN acting' = [head |-> trained.head, floor |-> t.floor,
                     ceiling |-> t.ceiling, inert |-> inert, grey |-> s.grey,
                     careful |-> s.careful]
  /\ course' = "loaded"
  /\ UNCHANGED <<sample, trained, asked>>

(* One without skill is dropped, whatever switches and config say.          *)
LoadEarly ==
  /\ course = "trained" /\ trained.head = "early"
  /\ IF trained.skilled
     THEN /\ acting' = [NoPolicy EXCEPT !.head = "early", !.floor = trained.floor,
                                        !.ceiling = trained.ceiling]
          /\ course' = "loaded"
     ELSE course' = "dropped" /\ UNCHANGED acting
  /\ UNCHANGED <<sample, trained, asked>>

(* decide_with_confidence: a sparse vector is zero in over three fifths.    *)
DecideWithConfidence(p, score, sparse) ==
  CASE p.careful /\ sparse -> "RULES"
    [] ~(p.careful /\ sparse) /\ score >= p.ceiling -> "BUY"
    [] ~(p.careful /\ sparse) /\ score < p.ceiling /\ score < p.floor -> "SKIP"
    [] OTHER -> IF p.head = "early" THEN "DEFER" ELSE
                IF p.grey THEN "SKIP" ELSE "RULES"

AskModel ==
  /\ course = "loaded"
  /\ \E score \in Scores, sparse \in BOOLEAN :
       /\ acting.head # "percentage" => score \in 0..Certain
       /\ asked' = [score |-> score, sparse |-> sparse,
                    action |-> DecideWithConfidence(acting, score, sparse)]
  /\ UNCHANGED <<course, sample, trained, acting>>

VerdictNext == \/ SaveClassifier \/ SaveRegressor \/ SaveEarly
               \/ LoadPolicy \/ LoadEarly \/ AskModel

VerdictTypeOK ==
  /\ course \in {"off", "untrained", "trained", "loaded", "dropped"}
  /\ asked.action \in {"none", "BUY", "SKIP", "RULES", "DEFER"}

(* Floor, ceiling and the rows between them, as the search promises.        *)
ThresholdsRank ==
  LET down == Below(sample, trained.floor)
      up == Above(sample, trained.ceiling)
      grey == DOMAIN sample \ (down \cup up)
  IN /\ course \in {"trained", "loaded"} /\ trained.status # "degenerate_flat" =>
          trained.floor < trained.ceiling
     /\ trained.status = "ok" /\ Enough(down) /\ Enough(up) =>
          /\ grey # {}
          /\ ~Less(sample, grey, down, trained.by)
          /\ ~Less(sample, up, grey, trained.by)
     /\ trained.status = "ok_percentile_fallback" =>
          /\ Less(sample, down, DOMAIN sample, "wr")
          /\ Less(sample, DOMAIN sample, up, "wr")

(* The thresholds the gate accepts tell the rows of the validation set       *)
(* apart: the floor is below the ceiling, and where both outer buckets have *)
(* rows enough, the mean rises from the rows below the floor over those in  *)
(* between to those above the ceiling; after the fallback the outer buckets *)
(* win less and more often than all (train.py's search and its guard).  And *)
(* no score is bought when a higher one is skipped, whatever config,        *)
(* switches and gate made of the thresholds; a classifier that failed the   *)
(* gate leaves every score but certainty to the rules, unless grey scores   *)
(* are skipped (policy/_main.py decide_with_confidence, from_path).         *)
VerdictRanks ==
  /\ ThresholdsRank
  /\ course = "loaded" =>
       /\ \A s \in Scores :
            \/ asked.action # "BUY" \/ s < asked.score
            \/ DecideWithConfidence(acting, s, asked.sparse) # "SKIP"
       /\ acting.inert /\ acting.head = "probability" /\ ~acting.grey
            /\ asked.score < Certain => asked.action \in {"none", "RULES"}
=============================================================================
