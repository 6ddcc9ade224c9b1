-------------------------------- MODULE MCBot --------------------------------
(* Small instances of the jobs.                                             *)
EXTENDS Bot
CONSTANTS live, shadow, w1, a, b, c, p1, p2, p3, p4

(* Two configs: one with gates on bots and forecasts, one for rules.        *)
NoCap == 100
Cfg == [k \in {live, shadow} |-> IF k = live
  THEN [bots |-> 1, wash |-> 0, band |-> 1..2, smart |-> FALSE,
        winners |-> FALSE, rulesOnly |-> FALSE, lastBuyer |-> NoCap,
        rawFloor |-> 0, calFloor |-> 0, forecasts |-> -10..30]
  ELSE [bots |-> 0, wash |-> 1, band |-> 1..1, smart |-> TRUE,
        winners |-> TRUE, rulesOnly |-> FALSE, lastBuyer |-> 1,
        rawFloor |-> 1, calFloor |-> 0, forecasts |-> 0..30]]
Marks == {[w \in {w1} |-> {"bot", "cluster", "winner"}],
          [w \in {w1} |-> {"smart", "winner"}]}
Setup(t30, timing, replay, collectorOnly, simGate) ==
  [t30 |-> t30, timing |-> timing, replay |-> replay,
   collectorOnly |-> collectorOnly, simGate |-> simGate]
Setups == {Setup("off", "off", TRUE, FALSE, FALSE),
           Setup("off", "off", FALSE, TRUE, FALSE),
           Setup("skip", "live", FALSE, FALSE, TRUE)}
Model(action, raw, forecast) ==
  [action |-> action, raw |-> raw, cal |-> 0, forecast |-> forecast]
Outcomes == {NoModel, Model("BUY", 1, {-7}), Model("SKIP", 0, NoForecast)}

(* What a bot is set up with (the switches concern the entry models), and   *)
(* two trainings: a good one, a bad one.                                    *)
Installed ==
  [roles : {{"entry", "reg"}}, forced : BOOLEAN, override : BOOLEAN] \cup
  [roles : {{"t30", "quantile"}, {"survival"}, {"timing"}, {"hold"}, {"exit"}},
   forced : {FALSE}, override : {FALSE}]
Fit(skill, median, ev, ranks, wide) ==
  [skill |-> skill, median |-> median, ev |-> ev, ranks |-> ranks,
   wide |-> wide]
SomeFits == {Fit(2, 0, TRUE, TRUE, TRUE), Fit(NaN, 2, FALSE, FALSE, FALSE)}

(* Three tokens, born one after the other, whose trades interleave.         *)
T(at, buy) == [at |-> at, buy |-> buy]
Past(created, trades) == [created |-> created, trades |-> trades]
Recorded ==
  {(a :> Past(0, <<T(1, TRUE), T(3, FALSE)>>))
     @@ (b :> Past(1, <<T(2, TRUE), T(3, TRUE), T(5, TRUE)>>))
     @@ (c :> Past(4, <<T(5, TRUE), T(6, TRUE)>>)),
   (a :> Past(0, <<T(1, TRUE), T(3, FALSE)>>))
     @@ (b :> Past(2, <<T(3, TRUE), T(4, FALSE)>>))
     @@ (c :> Past(4, <<T(4, TRUE), T(6, FALSE)>>))}
SomeGrid == [mode : {"full"}, fast : {1, 2}, low : {1}, high : 1..3]
TwoBirths == (a :> 0) @@ (b :> 2)

Tapes == {<<>>, <<1>>, <<1, 2, 3>>, <<3, 4, 7, 8>>, <<1, 3, 4, 9>>,
          <<2, 4, 4, 5, 9>>}

Pairs == {{<<p1, p2>>, <<p2, p3>>, <<p3, p4>>},
          {<<p1, p2>>, <<p3, p4>>, <<p1, p4>>}}

(* Trades of a token, and the thresholds they are scored by.                *)
F(at, wallet, side, sol, curve) ==
  [at |-> at, wallet |-> wallet, side |-> side, sol |-> sol, curve |-> curve]
Flows == {<<F(0, 1, "buy", 2, 2), F(1, 2, "buy", 2, 4), F(2, 0, "sell", 1, 3)>>,
          <<F(1, 1, "buy", 1, 1), F(3, 2, "buy", 2, 3), F(4, 1, "buy", 2, 5)>>}
Tier(from, points) == [from |-> from, points |-> points]
Cuts == [curve |-> 2, buyers |-> 1, volume |-> 1, pressure |-> 1, pace |-> -1,
         rise |-> -1, accel |-> -9..9, topShare |-> 100, today |-> 2,
         top1 |-> 60, top5 |-> 90, delta |-> -9..9, priors |-> 1, rugs |-> 80,
         graduated |-> 5, age |-> 1, serial |-> 3, sizes |-> 2, many |-> 2,
         crowd |-> {Tier(0, -10), Tier(1, 5), Tier(2, 10)}, spread |-> 2,
         volumes |-> {Tier(0, -10), Tier(2, 5), Tier(4, 10), Tier(9, 15)},
         curves |-> {Tier(0, -5), Tier(3, 10), Tier(5, 5)},
         sells |-> {Tier(0, 10), Tier(5, -5), Tier(10, -20)}, first |-> 1,
         full |-> 10, borderline |-> 0, steep |-> 3, selfBuy |-> 1, fast |-> 30,
         few |-> 2, calm |-> 3, fastBuyers |-> 2, fastVolume |-> 2, deadVolume |-> 1,
         deadBuyers |-> 1]
Holdings == (1 :> <<2, 3>>) @@ (2 :> <<3, 1, 3>>) @@ (4 :> <<1, 1, 2>>)

(* A creator of three tokens: one is a rug, one graduates.                  *)
Mints == (a :> 0) @@ (b :> 1) @@ (c :> 2)
Judgements == (a :> {"rug"}) @@ (b :> {"graduated"}) @@ (c :> {})

(* Validation sets of up to three rows, in the order of their scores.       *)
RowKinds == [score : {-15, 5, 25, 50}, pnl : {-9, -1, 1}]
Ordered(v) ==
  \A i \in 1..Len(v) - 1 :
    \/ v[i].score < v[i + 1].score
    \/ v[i].score = v[i + 1].score /\ v[i].pnl <= v[i + 1].pnl
ValidationSets ==
  {v \in UNION {[1..n -> RowKinds] : n \in 1..3} : Ordered(v)}
Floored(floor) == [floor |-> floor, ceiling |-> Keep]
Given == {Floored(Keep), Floored(40)}
Switched(forced, grey, careful) ==
  [forced |-> forced, grey |-> grey, careful |-> careful]
SwitchSets == {Switched(FALSE, FALSE, TRUE), Switched(TRUE, TRUE, FALSE)}
WorstPnl == -100
SomeScores == {-7, 0, 4, 20, Certain}

(* Lives of a token: a first trade, then up to three at some prices.        *)
Moments == {1, 2, 3, 4, 6}
Timely(S) == SetToSortSeq(S, LAMBDA x, y : x.at < y.at)
Continued(S) ==
  {Timely({[at |-> t, price |-> f[t]] : t \in S}) : f \in [S -> {8, 10, 16}]}
SomeLives ==
  {<<[at |-> 0, price |-> 10]>> \o r :
     r \in UNION {Continued(S) : S \in {M \in SUBSET Moments : Cardinality(M) < 4}}}
SomeEntries == [at : {0, 2}, price : {8, 10}]
Flat == [n \in 0..6 |-> 0]
SomeOutlooks == {Flat, [n \in 0..6 |-> IF n = 2 THEN 9 ELSE 1]}

(* A creator who buys at once and sells, another trader, and dust.          *)
Tx(signer, says, amounts) ==
  [mint |-> "g", signer |-> signer, says |-> says, amounts |-> amounts]
SomeTransactions ==
  {Tx("dev", {"create", "buy"}, TRUE), Tx("dev", {"sell"}, TRUE),
   Tx("fan", {"buy", "sell"}, TRUE), Tx("fan", {"buy"}, FALSE)}
SignedBy == [m \in {"g"} |-> "dev"]
=============================================================================
