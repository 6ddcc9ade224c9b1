------------------------------ MODULE Scoring -------------------------------
(***************************************************************************)
(* The metrics of a list of trades and the two scorers that read them.     *)
(* Ages are moments: 0 is the first seconds, 1, 2, 3 and 4 are T+30, T+60,  *)
(* T+90 and T+120.  Amounts, percents and points are small whole numbers,   *)
(* and ratios are compared by cross-multiplication.                         *)
(***************************************************************************)
EXTENDS EntryDecision

CONSTANTS
  Cut,          (* thresholds of the scorers                               *)
  TopCount,     (* how many of the largest buyers are looked at            *)
  SplitFrom     (* buys it takes to compare the halves of the window       *)

ASSUME ScoringAssumption == TopCount \in Nat \ {0} /\ SplitFrom \in Nat \ {0}

Creator == 0
QuickEnd == 1     (* fast_observe_seconds                                  *)
FullEnd == 3      (* observe_seconds                                       *)
Unknown == -1     (* NaN, or None                                          *)

Traded == [at : Nat, wallet : Nat, side : {"buy", "sell"}, sol : Nat, curve : Nat]

(* ------------------- the metrics --------------------------------------- *)
Until(trades, age) == Among(trades, {t \in ToSet(trades) : t.at <= age})
Wallet(trades) == {t.wallet : t \in ToSet(trades)}
SolOf(trades) == MapThenSumSet(LAMBDA i : trades[i].sol, DOMAIN trades)
SpanOf(trades) == IF trades = <<>> THEN 0
                  ELSE Max({1, Last(trades).at - Head(trades).at})

(* The stable sort by timestamp that sorted() is: a trade takes its place   *)
(* after those before it and the earlier ones of its moment.                *)
Place(trades, i) ==
  Cardinality({j \in DOMAIN trades :
                 \/ trades[j].at < trades[i].at
                 \/ trades[j].at = trades[i].at /\ j <= i})
ByTime(trades) ==
  [n \in DOMAIN trades |->
     trades[CHOOSE i \in DOMAIN trades : Place(trades, i) = n]]

(* Fault: the metrics take the trades as they came.                          *)
AsReceived(trades) == trades

(* The defensive sort of the metrics.                                       *)
Chronological(trades) == ByTime(trades)

(* The later half of the buys against the earlier one: how much faster they *)
(* come, how much larger they are.                                          *)
Trends(buys) ==
  LET mid == Len(buys) \div 2
      early == SubSeq(buys, 1, mid)
      later == SubSeq(buys, mid + 1, Len(buys))
  IN IF Len(buys) < SplitFrom THEN [pace |-> 0, size |-> 0]
     ELSE [pace |-> Len(later) * SpanOf(early) - Len(early) * SpanOf(later),
           size |-> SolOf(later) * Len(early) - SolOf(early) * Len(later)]

(* Place of the creator's first buy among the buys, 0 without one.          *)
SelfBuy(buys) ==
  Min({i \in DOMAIN buys : buys[i].wallet = Creator} \cup {Len(buys) + 1})
    % (Len(buys) + 1)

(* What each buyer bought.                                                  *)
Bought(buys) ==
  [w \in Wallet(buys) |-> SolOf(Among(buys, {t \in ToSet(buys) : t.wallet = w}))]

(* Buyers by what they bought, the name deciding a tie.                     *)
Largest(bought) ==
  SetToSortSeq(DOMAIN bought, LAMBDA u, v :
    \/ bought[u] > bought[v]
    \/ bought[u] = bought[v] /\ u < v)
TopBuyers(trades) ==
  LET ranked == Largest(Bought(Buys(trades)))
  IN SubSeq(ranked, 1, Min({TopCount, Len(ranked)}))

(* The percent the largest buyers bought, unknown with too few of them.     *)
TopShare(buys) ==
  LET top == ToSet(TopBuyers(buys))
      theirs == Among(buys, {t \in ToSet(buys) : t.wallet \in top})
  IN CASE buys = <<>> -> 0
       [] buys # <<>> /\ Cardinality(Wallet(buys)) < TopCount -> Unknown
       [] OTHER -> (100 * SolOf(theirs)) \div SolOf(buys)

(* Buyers, buys and volume up to an age.                                    *)
StatsUpTo(trades, age) ==
  LET buys == Buys(Until(trades, age))
  IN [buyers |-> Cardinality(Wallet(buys)), buys |-> Len(buys),
      volume |-> SolOf(buys)]

TimeAware(trades) == [age \in 1..FullEnd |-> StatsUpTo(trades, age)]

CurveAt(trades) == IF trades = <<>> THEN 0 ELSE Last(trades).curve

(* How fast the curve rises in the second half against the first.           *)
Acceleration(trades) ==
  LET mid == trades[Len(trades) \div 2 + 1]
      one == mid.at - Head(trades).at
      two == Last(trades).at - mid.at
  IN IF Len(trades) < SplitFrom \/ one <= 0 \/ two <= 0 THEN 0
     ELSE (Last(trades).curve - mid.curve) * one
            - (mid.curve - Head(trades).curve) * two

MetricsOf(trades) ==
  LET sorted == Chronological(trades)
      buys == Buys(sorted)
      sells == Among(sorted, {t \in ToSet(sorted) : t.side = "sell"})
      trends == Trends(buys)
      repeated(w) == Cardinality({i \in DOMAIN buys : buys[i].wallet = w}) > 1
  IN [buys |-> Len(buys), sells |-> Len(sells),
      buyers |-> Cardinality(Wallet(buys)),
      sellers |-> Cardinality(Wallet(sells)), volume |-> SolOf(buys),
      sizes |-> Cardinality({buys[i].sol : i \in DOMAIN buys}),
      biggest |-> Max({buys[i].sol : i \in DOMAIN buys} \cup {0}),
      sold |-> Creator \in Wallet(sells), selfBuy |-> SelfBuy(buys),
      repeats |-> Cardinality({w \in Wallet(buys) : repeated(w)}),
      first |-> IF buys = <<>> THEN 0 ELSE Head(buys).sol,
      topShare |-> TopShare(buys), pace |-> trends.pace, size |-> trends.size,
      begins |-> IF sorted = <<>> THEN 0 ELSE Head(sorted).at,
      curve |-> CurveAt(sorted),
      rise |-> IF sorted = <<>> THEN 0 ELSE CurveAt(sorted) - Head(sorted).curve,
      span |-> SpanOf(sorted), accel |-> Acceleration(sorted),
      curveAt |-> [age \in 1..FullEnd |-> CurveAt(Until(sorted, age))],
      timed |-> TimeAware(sorted)]

(* ------------------- the full scorer ----------------------------------- *)
(* Its rules are a function from their names to the points they give.       *)
Points(rules) == MapThenSumSet(LAMBDA r : rules[r], DOMAIN rules)

(* A trade's market cap, where its feed gives one, rises with the curve: the *)
(* gate on it is one on the curve.                                          *)
MarketGate(m, today) ==
  \/ m.curve < Cut.curve \/ m.buyers < Cut.buyers \/ m.volume < Cut.volume
  \/ m.sells > Cut.pressure * Max({m.buys, 1})
  \/ m.pace < Cut.pace \/ m.rise < Cut.rise * m.span
  \/ m.accel \notin Cut.accel
  \/ m.topShare > Cut.topShare
  \/ today > Cut.today

(* A snapshot of the holders counts if it has the keys the gate reads.      *)
HolderGate(holders) ==
  \/ "top1_pct" \in DOMAIN holders /\ holders.top1_pct > Cut.top1
  \/ "top5_pct" \in DOMAIN holders /\ holders.top5_pct > Cut.top5
  \/ "top1_delta_pct" \in DOMAIN holders
     /\ holders.top1_delta_pct \notin Cut.delta

(* A creator counts with enough earlier tokens in a snapshot.  blacklisted  *)
(* is false in every as-of view.                                            *)
Judged(past) == past.priors >= Cut.priors
CreatorGate(past) ==
  Judged(past) /\ \/ past.rugs >= Cut.rugs
                  \/ past.graduated < Cut.graduated
                  \/ past.age < Cut.age

CreatorRules(past) ==
  [serial |-> CASE past.tokens > Cut.serial -> -5
                [] past.tokens \in 2..Cut.serial -> 10
                [] OTHER -> 0,
   bonus |-> IF Judged(past) THEN Min({20, (3 * past.graduated) \div 10}) ELSE 0]

(* The points of the highest of the tiers that a metric reaches.            *)
Graded(x, tiers) ==
  LET reached == {t \in tiers : x >= t.from}
  IN (CHOOSE t \in reached : \A u \in reached : u.from <= t.from).points

MarketRules(m) ==
  [crowd |-> Graded(m.buyers, Cut.crowd),
   volume |-> Graded(m.volume, Cut.volumes),
   diverse |-> CASE m.sizes >= Cut.sizes -> 10
                 [] m.sizes < 2 /\ m.buys > Cut.many -> -15
                 [] OTHER -> 0,
   curve |-> Graded(m.curve, Cut.curves),
   creator |-> IF m.sold THEN -15 ELSE 5,
   whale |-> IF 2 * m.biggest > m.volume /\ m.volume > 0 THEN -20 ELSE 0,
   sells |-> IF m.buys < Cut.few THEN 0
             ELSE Graded((10 * m.sells) \div Max({m.buys, 1}), Cut.sells),
   top |-> CASE m.topShare > 80 -> -10
             [] m.topShare < 50 /\ m.buyers >= Cut.spread -> 5
             [] OTHER -> 0,
   pace |-> CASE m.pace > 0 -> 10
              [] m.pace < 0 /\ m.buys > Cut.many -> -10
              [] OTHER -> 0,
   wash |-> IF m.buys > 2 * m.buyers /\ m.buys > Cut.many THEN -15 ELSE 0,
   sniper |-> IF m.first > Cut.first THEN -10 ELSE 0,
   speed |-> IF 2 * m.rise > m.span THEN 5 ELSE 0]

(* Scorer.score: the first gate that fires ends it with the score 0.        *)
FullSays(trades, today, past, holders) ==
  LET m == MetricsOf(trades)
      rejected == MarketGate(m, today) \/ HolderGate(holders) \/ CreatorGate(past)
      score == IF rejected THEN 0
               ELSE Points(CreatorRules(past)) + Points(MarketRules(m))
  IN [decision |-> CASE ~rejected /\ score >= Cut.full -> "BUY"
                     [] ~rejected /\ score \in Cut.borderline..Cut.full - 1 -> "BORDERLINE"
                     [] OTHER -> "SKIP",
      score |-> score, buys |-> m.buys, priced |-> m.buys > 0]

(* ------------------- the fast filter ----------------------------------- *)
(* FastFilter.evaluate takes the trades in the order it is given them.      *)
FastSays(trades) ==
  LET buys == Buys(trades)
      sells == Len(trades) - Len(buys)
      buyers == Cardinality(Wallet(buys))
      sizes == Cardinality({buys[i].sol : i \in DOMAIN buys})
      curve == CurveAt(trades)
      dumped == \E i \in DOMAIN trades :
                  trades[i].wallet = Creator /\ trades[i].side = "sell"
      self == SelfBuy(buys)
      rejected == \/ trades = <<>> \/ curve < Cut.curve \/ dumped
                  \/ sells > Cut.pressure * Max({Len(buys), 1})
                  \/ self \in 1..Cut.selfBuy
      score == Points(
        [crowd |-> IF buyers >= Cut.fastBuyers THEN 15 ELSE 0,
         volume |-> IF SolOf(buys) >= Cut.fastVolume THEN 10 ELSE 0,
         pace |-> IF Len(buys) >= SpanOf(trades) THEN 15 ELSE 0,
         diverse |-> IF sizes >= 2 THEN 5 ELSE 0,
         calm |-> IF 10 * sells <= Cut.calm * Max({Len(buys), 1}) THEN 10 ELSE 0,
         healthy |-> IF curve <= Cut.steep THEN 5 ELSE 0,
         self |-> IF self > 0 THEN -10 ELSE 0])
      dead == SolOf(buys) < Cut.deadVolume \/ buyers < Cut.deadBuyers
  IN IF rejected THEN [buy |-> FALSE, buys |-> Len(buys), score |-> 0]
     ELSE [buy |-> ~dead /\ score >= Cut.fast, buys |-> Len(buys), score |-> score]
=============================================================================
