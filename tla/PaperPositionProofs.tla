------------------------- MODULE PaperPositionProofs -------------------------
(***************************************************************************)
(* Proofs about PaperPosition for every window, threshold, fraction and set *)
(* of prices.                                                               *)
(***************************************************************************)
EXTENDS PaperPosition, TLAPS

(* What the assumption says of each constant.                               *)
LEMMA Percentages ==
  /\ ProfitPart \in 0..100 /\ WeakPart \in 0..100 /\ Moonbag \in 0..100
  /\ Ladder \subseteq 0..100
BY PaperPositionAssumption

(* A partial sale takes at most what is left above the moonbag.             *)
LEMMA PartFits ==
  ASSUME TypeOK, status = "open", SameRemainder
  PROVE  /\ Available \in Int /\ Available <= left - Moonbag
         /\ \A f \in 0..100 : Available > 1 => Part(f) \in 0..100 /\ Part(f) <= left - Moonbag
<1>1. /\ remaining \in 0..100 /\ remaining = left /\ left \in 0..100
  BY DEF TypeOK, SameRemainder
<1>2. Available \in Int /\ Available = left - Moonbag
  BY <1>1, Percentages DEF Available
<1>3. ASSUME NEW f \in 0..100, Available > 1
      PROVE  Part(f) \in 0..100 /\ Part(f) <= left - Moonbag
  <2>1. Available <= 100
    BY <1>1, Percentages DEF Available
  <2>2. Part(f) = IF f <= Available THEN f ELSE Available
    BY DEF Part, Smaller
  <2> QED BY <1>2, <1>3, <2>1, <2>2
<1> QED BY <1>2, <1>3

(* The rules are fourteen.                                                  *)
LEMMA RuleCount ==
  ASSUME NEW s, NEW n, NEW p, NEW e, NEW a
  PROVE  Len(Rules(s, n, p, e, a)) = 14
BY DEF Rules

(* A rule fires when its condition holds.                                   *)
LEMMA RuleFires ==
  ASSUME NEW why, NEW cond \in BOOLEAN, NEW part, NEW r, r = Rule(why, cond, part), r.fires
  PROVE  cond
BY DEF Rule

(* A rule that fires sells at most what is left and, unless it sells all,   *)
(* keeps the moonbag.                                                       *)
LEMMA RuleParts ==
  ASSUME TypeOK, status = "open", SameRemainder,
         NEW s, NEW n, NEW p, NEW e, NEW a, a.frac \in 0..100,
         NEW i \in 1..14, NEW r, r = Rules(s, n, p, e, a)[i], r.fires
  PROVE  /\ r.part \in 0..100 /\ r.part <= left
         /\ r.why \notin SellsAll => r.part <= left - Moonbag
<1>0. /\ remaining \in 0..100 /\ remaining = left /\ left - Moonbag >= 0
         /\ Moonbag >= 0 /\ left - Moonbag <= left
  BY Percentages DEF TypeOK, SameRemainder
<1>1. CASE i \in {1, 2, 3, 4, 6, 7, 8, 12}
  <2>1. r.part = remaining /\ r.why \in SellsAll
    BY <1>1 DEF Rules, Rule, SellsAll
  <2> QED BY <2>1, <1>0
<1>2. CASE i \in {5, 10, 14}
  <2>1. r.part = 0
    BY <1>2 DEF Rules, Rule
  <2> QED BY <2>1, <1>0, Percentages
<1>3. CASE i = 9
  <2> DEFINE cond == Available > 1 /\ p > ProfitAt /\ ~took
  <2>1. r = Rule("strong_profit", cond, Part(ProfitPart))
    BY <1>3 DEF Rules
  <2>2. r.part = Part(ProfitPart)
    BY <2>1, SMT DEF Rule
  <2>3. cond \in BOOLEAN
    OBVIOUS
  <2>4. cond
    <3> HIDE DEF cond
    <3> QED BY <2>1, <2>3, RuleFires
  <2>5. Available > 1
    BY <2>4
  <2>6. r.part \in 0..100 /\ r.part <= left - Moonbag
    BY <2>2, <2>5, PartFits, Percentages
  <2> QED BY <1>0, <2>6, Percentages
<1>4. CASE i = 11
  <2> DEFINE cond == (Available > 1 /\ s.weak /\ p > WeakAt)
  <2>1. r = Rule("weak_pulse_profit", cond, Part(WeakPart))
    BY <1>4 DEF Rules
  <2>2. r.part = Part(WeakPart)
    BY <2>1, SMT DEF Rule
  <2>3. cond \in BOOLEAN
    OBVIOUS
  <2>4. cond
    <3> HIDE DEF cond
    <3> QED BY <2>1, <2>3, RuleFires
  <2>5. Available > 1
    BY <2>4
  <2>6. r.part \in 0..100 /\ r.part <= left - Moonbag
    BY <2>2, <2>5, PartFits, Percentages
  <2> QED BY <1>0, <2>6, Percentages
<1>5. CASE i = 13
  <2> DEFINE cond == e >= MlMinHold /\ Available > 1 /\ a.ml = "SELL_PARTIAL"
  <2>1. r = Rule("ml_partial_trigger", cond, Part(a.frac))
    BY <1>5 DEF Rules
  <2>2. r.part = Part(a.frac)
    BY <2>1, SMT DEF Rule
  <2>3. cond \in BOOLEAN
    OBVIOUS
  <2>4. cond
    <3> HIDE DEF cond
    <3> QED BY <2>1, <2>3, RuleFires
  <2>5. Available > 1
    BY <2>4
  <2>6. r.part \in 0..100 /\ r.part <= left - Moonbag
    BY <2>2, <2>5, PartFits, Percentages
  <2> QED BY <1>0, <2>6, Percentages
<1> QED BY <1>1, <1>2, <1>3, <1>4, <1>5

-----------------------------------------------------------------------------
IInv == TypeOK /\ SameRemainder

(* What the inductive invariant needs of the other constants.               *)
LEMMA Constants ==
  /\ Pnl \subseteq Int /\ 0 \in Pnl
  /\ Window \in Nat /\ MaxElapsed \in Nat /\ MaxRestarts \in Nat
BY PaperPositionAssumption

(* Stated apart: the solver finds it no longer among other facts.           *)
LEMMA Products == \A x, y \in Int : x * y \in Int
OBVIOUS

(* The exit model's partial fraction is a percentage.                       *)
LEMMA AdviceFraction ==
  ASSUME NEW p, NEW a \in Advice(p)
  PROVE  a.frac \in 0..100
<1>1. a \in Verdicts
  BY DEF Advice
<1>2. a.frac = 0 \/ a.frac \in Ladder
  BY <1>1 DEF Verdicts
<1>3. CASE a.frac = 0
  BY <1>3
<1>4. CASE a.frac \in Ladder
  BY <1>4, Percentages
<1> QED BY <1>2, <1>3, <1>4

(* What any decision does to the fractions of the position.                 *)
LEMMA DecideKeeps ==
  ASSUME IInv, status = "open",
         NEW s, NEW n, NEW p \in Pnl, NEW e, NEW a \in Advice(p), Decide(s, n, p, e, a)
  PROVE  /\ status' \in Reasons \cup {"open"} /\ booked' \in Int
         /\ remaining' \in 0..100 /\ left' \in 0..100
         /\ took' \in BOOLEAN
         /\ gain' \in Int /\ peak' \in Int /\ sold' \in Int /\ earned' \in Int /\ top' \in Int
         /\ SameRemainder'
<1> DEFINE rules == Rules(s, n, p, e, a)
<1>1. PICK i \in 1..14 : First(rules, i) /\ Apply(rules[i], p)
  BY RuleCount DEF Decide
<1> DEFINE r == rules[i]
<1>2. r.fires
  BY <1>1 DEF First
<1>3. /\ r.part \in 0..100 /\ r.part <= left
      /\ r.why \notin SellsAll => r.part <= left - Moonbag
  BY <1>2, RuleParts, AdviceFraction DEF IInv
<1>4. Apply(r, p)
  BY <1>1
<1> HIDE DEF r, rules
<1>5. /\ p \in Int /\ remaining \in 0..100 /\ left \in 0..100 /\ took \in BOOLEAN
      /\ gain \in Int /\ booked \in Int /\ sold \in Int /\ earned \in Int /\ top \in Int
      /\ peak \in Int /\ remaining = left /\ left >= Moonbag
  BY Constants DEF IInv, TypeOK, SameRemainder
<1>6. top' \in Int /\ peak' \in Int /\ took' \in BOOLEAN
  BY <1>4, <1>5 DEF Apply, Larger
<1>7. CASE r.why \in SellsAll
  <2>1. /\ remaining' = remaining - r.part /\ left' = left /\ gain' = gain
        /\ sold' = sold /\ earned' = earned
        /\ status' = r.why /\ booked' = gain + left * p
    BY <1>4, <1>7 DEF Apply, CloseAs, runnerVars
  <2>2. booked' \in Int
    BY <2>1, <1>5, Products
  <2>3. status' \in Reasons /\ status' # "open"
    BY <2>1, <1>7 DEF Reasons, SellsAll
  <2> QED BY <1>3, <1>5, <1>6, <2>1, <2>2, <2>3 DEF SameRemainder
<1>8. CASE r.why \notin SellsAll
  <2>1. /\ remaining' = remaining - r.part /\ status' = status /\ booked' = booked
        /\ Fill(r.part, p)
    BY <1>4, <1>8 DEF Apply, Stay, rowVars
  <2>2. left' = left - r.part
    BY <2>1, <1>3, <1>5 DEF Fill, Smaller, Larger
  <2>3. Smaller(r.part, left) \in Int
    BY <1>3, <1>5 DEF Smaller
  <2>4. /\ gain' = gain + Smaller(r.part, left) * p
        /\ sold' = sold + Smaller(r.part, left)
        /\ earned' = earned + Smaller(r.part, left) * p
    BY <2>1 DEF Fill
  <2>5. gain' \in Int /\ sold' \in Int /\ earned' \in Int
    BY <2>3, <2>4, <1>5, Products
  <2> QED BY <1>3, <1>5, <1>6, <1>8, <2>1, <2>2, <2>5, Percentages DEF SameRemainder
<1> QED BY <1>7, <1>8

(* A position starts out of an ordinary snapshot.                           *)
LEMMA QuietSnapshot == Quiet \in Snapshots
BY DEF Quiet, Snapshots

(* The inductive invariant, one step per action.                            *)
LEMMA InductiveInit == Init => IInv
<1> SUFFICES ASSUME Init PROVE IInv
  OBVIOUS
<1>1. TypeOK
  <2>1. pnl \in Pnl /\ status \in Reasons \cup {"open"} /\ pulse \in Snapshots /\ took \in BOOLEAN
     BY Constants, QuietSnapshot DEF Init
  <2>2. elapsed \in 0..MaxElapsed /\ events \in 0..Window /\ restarts \in 0..MaxRestarts 
     BY Constants DEF Init
  <2>3. {gain, peak, booked, sold, earned, top} \subseteq Int 
     BY DEF Init
  <2>4. remaining \in 0..100 /\ left \in 0..100
     BY DEF Init
  <2> QED BY <2>1, <2>2, <2>3, <2>4 DEF TypeOK
<1>2. SameRemainder
  BY Percentages DEF Init, SameRemainder
<1> QED BY <1>1, <1>2 DEF IInv

(* A close writes a reason and a number.                                    *)
LEMMA CloseKeeps ==
  ASSUME IInv, NEW why \in Reasons, NEW p \in Pnl, CloseAs(why, p)
  PROVE  /\ status' \in Reasons \cup {"open"} /\ booked' \in Int
         /\ status' # "open"
<1>1. p \in Int /\ gain \in Int /\ left \in Int
  BY Constants DEF IInv, TypeOK
<1> QED BY <1>1, Products DEF CloseAs, Reasons, SellsAll

(* Every action keeps the invariant; decisions are the ones that sell.      *)
LEMMA InductiveStep == IInv /\ [Next]_vars => IInv'
<1> SUFFICES ASSUME IInv, [Next]_vars PROVE IInv'
  OBVIOUS
<1>1. ASSUME NEW p \in Pnl, NEW s \in Snapshots,
             NEW e \in {elapsed, Smaller(elapsed + 1, MaxElapsed)},
             NEW a \in Advice(p), Trade(p, s, a, e)
      PROVE  IInv'
  <2>1. e \in 0..MaxElapsed
    BY Constants DEF IInv, TypeOK, Smaller
  <2>2. status = "open" /\ pnl' \in Pnl /\ elapsed' \in 0..MaxElapsed
        /\ restarts' \in 0..MaxRestarts
    BY <1>1, <2>1 DEF Trade, IInv, TypeOK
  <2>3. ASSUME p < -HardStop, CloseAs("hard_stop", p),
               UNCHANGED <<events, pulse, mgrVars, runnerVars, histVars>>
        PROVE  IInv'
    BY <2>2, <2>3, CloseKeeps DEF IInv, TypeOK, SameRemainder, Reasons, SellsAll,
       mgrVars, runnerVars, histVars
  <2>4. ASSUME events' = Smaller(events + 1, Window),
               UNCHANGED <<rowVars, pulse, mgrVars, runnerVars, histVars>>
        PROVE  IInv'
    BY <2>2, <2>4, Constants DEF IInv, TypeOK, SameRemainder, Smaller,
       rowVars, mgrVars, runnerVars, histVars
  <2>5. ASSUME events' = Smaller(events + 1, Window), pulse' = s,
               Decide(s, events', p, e, a)
        PROVE  IInv'
    <3>1. events' \in 0..Window
      BY <2>5, Constants DEF IInv, TypeOK, Smaller
    <3> QED BY <2>2, <2>5, <3>1, DecideKeeps DEF IInv, TypeOK
  <2> QED BY <1>1, <2>3, <2>4, <2>5 DEF Trade
<1>2. ASSUME NEW a \in Advice(pnl), Tick(a)
      PROVE  IInv'
  <2>1. /\ status = "open" /\ elapsed' \in 0..MaxElapsed
        /\ UNCHANGED <<pnl, events, pulse, restarts>> /\ pnl \in Pnl
    BY <1>2, Constants DEF Tick, IInv, TypeOK
  <2>2. ASSUME UNCHANGED <<rowVars, mgrVars, runnerVars, histVars>>
        PROVE  IInv'
    BY <2>1, <2>2 DEF IInv, TypeOK, SameRemainder, rowVars, mgrVars, runnerVars, histVars
  <2>3. ASSUME Decide([pulse EXCEPT !.fresh = FALSE], events, pnl, elapsed', a)
        PROVE  IInv'
    BY <2>1, <2>3, DecideKeeps DEF IInv, TypeOK
  <2> QED BY <1>2, <2>2, <2>3 DEF Tick
<1>3. CASE Expire
  <2>1. pnl \in Pnl /\ CloseAs("dead_token", pnl)
    BY <1>3 DEF Expire, IInv, TypeOK
  <2> QED BY <1>3, <2>1, CloseKeeps DEF Expire, IInv, TypeOK, SameRemainder, Reasons,
             mgrVars, runnerVars, histVars
<1>4. CASE Restart
  <2>1. TypeOK'
    <3>1. /\ pnl' \in Pnl /\ pulse' \in Snapshots /\ took' \in BOOLEAN
          /\ events' \in 0..Window /\ remaining' \in 0..100 /\ left' \in 0..100
      <4>1. /\ pnl' = 0 /\ pulse' = Quiet /\ took' = FALSE
            /\ events' = 0 /\ remaining' = 100 /\ left' = 100
        BY <1>4 DEF Restart
      <4>2. events' \in 0..Window
        BY <4>1, Constants
      <4>3. pulse' \in Snapshots
        BY <4>1, QuietSnapshot, Zenon
      <4>4. pnl' \in Pnl
        BY <4>1, Constants
      <4>5. took' \in BOOLEAN
        BY <4>1
      <4> QED BY <4>1, <4>2, <4>3, <4>4, <4>5
    <3>2. restarts' \in 0..MaxRestarts
      BY <1>4, Constants DEF Restart, IInv, TypeOK
    <3>3. gain' \in Int /\ peak' \in Int
      BY <1>4 DEF Restart
    <3> QED BY <1>4, <3>1, <3>2, <3>3 DEF Restart, IInv, TypeOK, rowVars, histVars
  <2>2. SameRemainder'
    BY <1>4, Percentages DEF Restart, SameRemainder
  <2> QED BY <2>1, <2>2 DEF IInv
<1>5. CASE UNCHANGED vars
  BY <1>5 DEF vars, rowVars, mgrVars, runnerVars, histVars, IInv, TypeOK, SameRemainder
<1> QED BY <1>1, <1>2, <1>3, <1>4, <1>5 DEF Next

(* Every variable keeps its type, whatever the thresholds and fractions.    *)
THEOREM TypeCorrect == Spec => []TypeOK
<1>1. IInv => TypeOK
  BY DEF IInv
<1> QED BY <1>1, InductiveInit, InductiveStep, PTL DEF Spec

(* The exit manager's fraction and the runner's are the same for as long as *)
(* the position is open, however fills, blocks and restarts are mixed.      *)
THEOREM RemaindersAgree == Spec => []SameRemainder
<1>1. IInv => SameRemainder
  BY DEF IInv
<1> QED BY <1>1, InductiveInit, InductiveStep, PTL DEF Spec

-----------------------------------------------------------------------------
(* Until a restart, the runner's ledger holds every fill of the position.   *)
Ledger ==
  restarts = 0 =>
    /\ status = "open" => gain = earned /\ left = 100 - sold
    /\ BookedIsEarned

(* It starts empty.                                                         *)
LEMMA LedgerInit == Init => Ledger
BY DEF Init, Ledger, BookedIsEarned

(* A close books the fills and the rest at the last price.                  *)
LEMMA CloseBooks ==
  ASSUME IInv, Ledger, restarts = 0, status = "open",
         NEW why, NEW p \in Pnl, CloseAs(why, p), pnl' = p, why # "open",
         sold' = sold, earned' = earned
  PROVE  status' # "open" /\ booked' = earned' + (100 - sold') * pnl'
<1>1. gain = earned /\ left = 100 - sold
  BY DEF Ledger
<1> QED BY <1>1 DEF CloseAs

(* A decision either closes or adds a fill to both sides of the ledger.     *)
LEMMA DecideBooks ==
  ASSUME IInv, Ledger, restarts = 0, status = "open",
         NEW s, NEW n, NEW p \in Pnl, NEW e, NEW a \in Advice(p), Decide(s, n, p, e, a),
         pnl' = p
  PROVE  /\ status' = "open" => gain' = earned' /\ left' = 100 - sold'
         /\ BookedIsEarned'
<1>1. PICK i \in 1..14 : /\ First(Rules(s, n, p, e, a), i)
                         /\ Apply(Rules(s, n, p, e, a)[i], p)
  BY RuleCount DEF Decide
<1> DEFINE r == Rules(s, n, p, e, a)[i]
<1>2. r.fires
  BY <1>1 DEF First
<1>3. r.part \in 0..100 /\ r.part <= left
  BY <1>2, RuleParts, AdviceFraction DEF IInv
<1>4. Apply(r, p)
  BY <1>1
<1> HIDE DEF r
<1>5. CASE r.why \in SellsAll
  <2>1. CloseAs(r.why, p) /\ sold' = sold /\ earned' = earned /\ r.why # "open"
    BY <1>4, <1>5 DEF Apply, SellsAll
  <2> QED BY <2>1, CloseBooks DEF BookedIsEarned
<1>6. CASE r.why \notin SellsAll
  <2>1. Fill(r.part, p) /\ status' = "open"
    BY <1>4, <1>6 DEF Apply, Stay, rowVars
  <2>2. left \in 0..100 /\ gain = earned /\ left = 100 - sold /\ sold \in Int
    BY DEF Ledger, IInv, TypeOK
  <2>3. Smaller(r.part, left) = r.part
    BY <1>3, <2>2 DEF Smaller
  <2>4. left' = left - r.part /\ sold' = sold + r.part
    BY <1>3, <2>1, <2>2, <2>3 DEF Fill, Larger
  <2>5. gain' = earned'
    BY <2>1, <2>2 DEF Fill
  <2>6. left' = 100 - sold'
    BY <1>3, <2>2, <2>4
  <2> QED BY <2>1, <2>5, <2>6 DEF BookedIsEarned
<1> QED BY <1>5, <1>6

(* Every action before a restart keeps the ledger.                          *)
LEMMA LedgerStep ==
  ASSUME IInv, Ledger, [Next]_vars
  PROVE  Ledger'
<1> SUFFICES ASSUME restarts' = 0
             PROVE  /\ status' = "open" => gain' = earned' /\ left' = 100 - sold'
                    /\ BookedIsEarned'
  BY DEF Ledger
<1>1. ASSUME NEW p \in Pnl, NEW s \in Snapshots,
             NEW e \in {elapsed, Smaller(elapsed + 1, MaxElapsed)},
             NEW a \in Advice(p), Trade(p, s, a, e)
      PROVE  /\ status' = "open" => gain' = earned' /\ left' = 100 - sold'
             /\ BookedIsEarned'
  <2>1. status = "open" /\ pnl' = p /\ restarts = 0
    BY <1>1 DEF Trade
  <2>2. ASSUME CloseAs("hard_stop", p), UNCHANGED histVars
        PROVE  BookedIsEarned' /\ status' # "open"
    BY <2>1, <2>2, CloseBooks DEF BookedIsEarned, histVars
  <2>3. ASSUME UNCHANGED <<rowVars, runnerVars, histVars>>
        PROVE  /\ status' = "open" => gain' = earned' /\ left' = 100 - sold'
               /\ BookedIsEarned'
    BY <2>1, <2>3 DEF Ledger, BookedIsEarned, rowVars, runnerVars, histVars
  <2>4. CASE Decide(s, events', p, e, a)
    BY <2>1, <2>4, DecideBooks
  <2> QED BY <1>1, <2>2, <2>3, <2>4 DEF Trade
<1>2. ASSUME NEW a \in Advice(pnl), Tick(a)
      PROVE  /\ status' = "open" => gain' = earned' /\ left' = 100 - sold'
             /\ BookedIsEarned'
  <2>1. status = "open" /\ pnl' = pnl /\ restarts = 0 /\ pnl \in Pnl
    BY <1>2 DEF Tick, IInv, TypeOK
  <2>2. CASE UNCHANGED <<rowVars, mgrVars, runnerVars, histVars>>
    BY <2>1, <2>2 DEF Ledger, BookedIsEarned, rowVars, runnerVars, histVars
  <2>3. CASE Decide([pulse EXCEPT !.fresh = FALSE], events, pnl, elapsed', a)
    BY <2>1, <2>3, DecideBooks
  <2> QED BY <1>2, <2>2, <2>3 DEF Tick
<1>3. CASE Expire
  <2>1. /\ status = "open" /\ pnl' = pnl /\ restarts = 0 /\ pnl \in Pnl
        /\ CloseAs("dead_token", pnl) /\ sold' = sold /\ earned' = earned
    BY <1>3 DEF Expire, IInv, TypeOK, histVars
  <2> QED BY <2>1, CloseBooks DEF BookedIsEarned
<1>4. CASE Restart
  <2>1. restarts' = restarts + 1 /\ restarts \in Nat
    BY <1>4 DEF Restart, IInv, TypeOK
  <2> QED BY <2>1
<1>5. CASE UNCHANGED vars
  BY <1>5 DEF vars, rowVars, runnerVars, histVars, Ledger, BookedIsEarned
<1> QED BY <1>1, <1>2, <1>3, <1>4, <1>5 DEF Next

(* Without restarts the P&L of the closed row is that of all its fills, for *)
(* any thresholds, fractions, prices and advice.                            *)
THEOREM BookedExactly ==
  ASSUME MaxRestarts = 0
  PROVE  Spec => []BookedIsEarned
<1>1. IInv /\ Ledger => BookedIsEarned
  BY DEF IInv, TypeOK, Ledger
<1>2. Init => IInv /\ Ledger
  BY InductiveInit, LedgerInit
<1>3. IInv /\ Ledger /\ [Next]_vars => IInv' /\ Ledger'
  BY InductiveStep, LedgerStep
<1> QED BY <1>1, <1>2, <1>3, PTL DEF Spec

-----------------------------------------------------------------------------
(* Until a restart and without HOLD_HARD, the peak of the trailing stop is  *)
(* the highest P&L a decision has seen.                                     *)
PeakIsTop == restarts = 0 /\ status = "open" => peak = top

(* A decision that leaves the position open got past the hard rules.        *)
LEMMA OpenMeansSoft ==
  ASSUME ~HoldHard, NEW s, NEW n, NEW p, NEW e, NEW a, NEW i \in 1..14,
         First(Rules(s, n, p, e, a), i), Rules(s, n, p, e, a)[i].why \notin SellsAll
  PROVE  /\ ~(Larger(peak, p) >= Activation /\ Larger(peak, p) - p >= Distance)
         /\ ~(e > MaxHold)
         /\ Rules(s, n, p, e, a)[i].why \notin BeforePeak
<1>1. i \notin {1, 2, 3, 4, 6, 7, 8, 12}
  <2>1. ASSUME i \in {1, 2, 3, 4, 6, 7, 8, 12}
        PROVE  Rules(s, n, p, e, a)[i].why \in SellsAll
    BY <2>1 DEF Rules, Rule, SellsAll
  <2> QED BY <2>1
<1>2. i # 5
  <2>1. ASSUME Rules(s, n, p, e, a)[5].fires
        PROVE  HeldTakeProfit(p, a)
    <3> DEFINE cond == HeldTakeProfit(p, a)
    <3>1. Rules(s, n, p, e, a)[5] = Rule("held_take_profit", cond, 0)
      BY DEF Rules
    <3>2. cond \in BOOLEAN
      BY DEF HeldTakeProfit
    <3> QED BY <2>1, <3>1, <3>2, RuleFires
  <2> QED BY <2>1 DEF First, HeldTakeProfit
<1>3. i \in 9..14
  BY <1>1, <1>2
<1>4. ~Rules(s, n, p, e, a)[7].fires /\ ~Rules(s, n, p, e, a)[8].fires
  BY <1>3 DEF First
<1>5. Rules(s, n, p, e, a)[i].why \notin BeforePeak
  BY <1>3 DEF Rules, Rule, BeforePeak
<1>6. ASSUME Larger(peak, p) >= Activation /\ Larger(peak, p) - p >= Distance
      PROVE  Rules(s, n, p, e, a)[7].fires
  BY <1>6 DEF Rules, Rule
<1>7. ASSUME e > MaxHold
      PROVE  Rules(s, n, p, e, a)[8].fires
  BY <1>7 DEF Rules, Rule
<1> QED BY <1>4, <1>5, <1>6, <1>7

(* Such a decision is within both limits, and raises the peak.              *)
LEMMA DecideTrails ==
  ASSUME ~HoldHard, IInv, PeakIsTop, restarts = 0, status = "open",
         NEW s, NEW n, NEW p \in Pnl, NEW e, NEW a \in Advice(p), Decide(s, n, p, e, a),
         status' = "open"
  PROVE  /\ peak' = top'
         /\ top' >= Activation => top' - p < Distance
         /\ ~(e > MaxHold)
<1>1. PICK i \in 1..14 : /\ First(Rules(s, n, p, e, a), i)
                         /\ Apply(Rules(s, n, p, e, a)[i], p)
  BY RuleCount DEF Decide
<1> DEFINE r == Rules(s, n, p, e, a)[i]
<1>2. r.why \notin SellsAll
  <2> HIDE DEF r
  <2>1. ASSUME r.why \in SellsAll
        PROVE  status' = r.why
    BY <1>1, <2>1 DEF Apply, CloseAs, r
  <2>2. "open" \notin SellsAll
    BY DEF SellsAll
  <2> QED BY <2>1, <2>2
<1>3. /\ ~(Larger(peak, p) >= Activation /\ Larger(peak, p) - p >= Distance)
      /\ ~(e > MaxHold) /\ r.why \notin BeforePeak
  BY <1>1, <1>2, OpenMeansSoft
<1>4. peak' = Larger(peak, p) /\ top' = Larger(top, p)
  BY <1>1, <1>3 DEF Apply
<1>5. peak = top /\ peak \in Int /\ p \in Int /\ Activation \in Int /\ Distance \in Int
  BY Constants, PaperPositionAssumption DEF PeakIsTop, IInv, TypeOK
<1> HIDE DEF r
<1> QED BY <1>3, <1>4, <1>5 DEF Larger

(* So is every step that decides, and the peak is kept by all of them.      *)
LEMMA PeakStep ==
  ASSUME ~HoldHard, IInv, PeakIsTop, [Next]_vars, restarts' = 0, status' = "open"
  PROVE  /\ peak' = top'
         /\ vars' # vars /\ events' >= MinEvents /\ top' >= Activation
              => top' - pnl' < Distance
         /\ vars' # vars /\ events' >= MinEvents => ~(elapsed' > MaxHold)
<1>1. ASSUME NEW p \in Pnl, NEW s \in Snapshots,
             NEW e \in {elapsed, Smaller(elapsed + 1, MaxElapsed)},
             NEW a \in Advice(p), Trade(p, s, a, e)
      PROVE  /\ peak' = top'
             /\ events' >= MinEvents /\ top' >= Activation => top' - pnl' < Distance
             /\ events' >= MinEvents => ~(elapsed' > MaxHold)
  <2>1. status = "open" /\ pnl' = p /\ elapsed' = e /\ restarts = 0
    BY <1>1 DEF Trade
  <2>2. ~CloseAs("hard_stop", p)
    BY DEF CloseAs
  <2>3. ASSUME Smaller(events + 1, Window) < MinEvents,
               events' = Smaller(events + 1, Window),
               UNCHANGED <<mgrVars, histVars>>
        PROVE  peak' = top' /\ ~(events' >= MinEvents)
    <3>1. Smaller(events + 1, Window) \in Int /\ MinEvents \in Int
      BY Constants, PaperPositionAssumption DEF Smaller, IInv, TypeOK
    <3> QED BY <2>1, <2>3, <3>1 DEF PeakIsTop, mgrVars, histVars
  <2>4. CASE Decide(s, events', p, e, a)
    BY <2>1, <2>4, DecideTrails
  <2> QED BY <1>1, <2>2, <2>3, <2>4 DEF Trade
<1>2. ASSUME NEW a \in Advice(pnl), Tick(a)
      PROVE  /\ peak' = top'
             /\ events' >= MinEvents /\ top' >= Activation => top' - pnl' < Distance
             /\ events' >= MinEvents => ~(elapsed' > MaxHold)
  <2>1. status = "open" /\ pnl' = pnl /\ restarts = 0 /\ pnl \in Pnl /\ events' = events
        /\ events \in Int /\ MinEvents \in Int
    BY <1>2, Constants, PaperPositionAssumption DEF Tick, IInv, TypeOK
  <2>2. ASSUME events < MinEvents, UNCHANGED <<rowVars, mgrVars, runnerVars, histVars>>
        PROVE  peak' = top' /\ ~(events' >= MinEvents)
    BY <2>1, <2>2 DEF PeakIsTop, mgrVars, histVars
  <2>3. CASE Decide([pulse EXCEPT !.fresh = FALSE], events, pnl, elapsed', a)
    BY <2>1, <2>3, DecideTrails
  <2> QED BY <1>2, <2>2, <2>3 DEF Tick
<1>3. ~Expire
  BY DEF Expire, CloseAs
<1>4. ~Restart
  <2>1. restarts \in Nat /\ (Restart => restarts' = restarts + 1)
    BY DEF Restart, IInv, TypeOK
  <2> QED BY <2>1
<1>5. CASE UNCHANGED vars
  BY <1>5 DEF vars, rowVars, mgrVars, histVars, PeakIsTop
<1> QED BY <1>1, <1>2, <1>3, <1>4, <1>5 DEF Next

(* Without HOLD_HARD and restarts, no decision leaves a position open past  *)
(* its maximum hold or below the trailing distance from its highest P&L.    *)
THEOREM LimitsStand ==
  ASSUME ~HoldHard, MaxRestarts = 0
  PROVE  Spec => HoldIsBounded /\ TrailingStands
<1>1. Init => IInv /\ PeakIsTop
  BY InductiveInit DEF Init, PeakIsTop
<1>2. IInv /\ PeakIsTop /\ [Next]_vars => IInv' /\ PeakIsTop'
  BY InductiveStep, PeakStep DEF PeakIsTop
<1>3. IInv /\ IInv' /\ PeakIsTop /\ [Next]_vars
        => [Decides => elapsed' <= MaxHold]_vars
  <2>1. SUFFICES ASSUME IInv, IInv', PeakIsTop, [Next]_vars, Decides, vars' # vars
                 PROVE  elapsed' <= MaxHold
    BY Zenon
  <2>2. restarts' = 0 /\ elapsed' \in Int /\ MaxHold \in Int
    BY <2>1, PaperPositionAssumption DEF IInv, TypeOK
  <2> QED BY <2>1, <2>2, PeakStep DEF Decides
<1>4. IInv /\ IInv' /\ PeakIsTop /\ [Next]_vars
        => [Decides /\ top' >= Activation => top' - pnl' < Distance]_vars
  <2>1. SUFFICES ASSUME IInv, IInv', PeakIsTop, [Next]_vars, Decides, vars' # vars,
                        top' >= Activation
                 PROVE  top' - pnl' < Distance
    BY Zenon
  <2>2. restarts' = 0
    BY <2>1 DEF IInv, TypeOK
  <2> QED BY <2>1, <2>2, PeakStep DEF Decides
<1> QED BY <1>1, <1>2, <1>3, <1>4, PTL DEF Spec, HoldIsBounded, TrailingStands

-----------------------------------------------------------------------------
RuleNames == <<"pulse", "no_new_blood", "ml_sl_tightened", "hard_stop", "held_take_profit",
               "take_profit", "trailing_stop", "timeout", "strong_profit", "held_weak_pulse",
               "weak_pulse_profit", "ml_exit_trigger", "ml_partial_trigger", "pulse_ok">>

LEMMA RulesAreNamed ==
  ASSUME NEW s, NEW n, NEW p, NEW e, NEW a
  PROVE  /\ DOMAIN Rules(s, n, p, e, a) = 1..14
         /\ \A i \in 1..14 : Rules(s, n, p, e, a)[i].why = RuleNames[i]
BY DEF Rules, Rule, RuleNames

(* What the advice has no part in, the rules that need it, and the one it    *)
(* blocks.                                                                   *)
LEMMA AdviceTouches ==
  ASSUME NEW s \in Snapshots, NEW n, NEW p \in Pnl, NEW e, NEW a \in Advice(p),
         NEW A, A = Rules(s, n, p, e, NoAdvice), NEW G, G = Rules(s, n, p, e, a)
  PROVE  /\ \A i \in {1, 2, 4, 6, 7, 8, 9} : A[i] = G[i]
         /\ ~A[3].fires /\ ~A[12].fires
         /\ G[5].fires => A[6].fires
         /\ A[14].fires
<1>1. \A i \in {1, 2, 4, 6, 7, 8, 9} : A[i] = G[i]
  <2>1. A[1] = G[1] /\ A[2] = G[2] /\ A[4] = G[4] /\ A[6] = G[6]
    BY DEF Rules
  <2>2. A[7] = G[7] /\ A[8] = G[8]
    BY DEF Rules
  <2>3. A[9] = G[9]
    BY DEF Rules
  <2> QED BY <2>1, <2>2, <2>3
<1>2. ~A[3].fires
  <2>1. A[3].fires = (NoAdvice.q25 /\ -HardStop < p /\ p <= -5)
    BY DEF Rules, Rule
  <2> QED BY <2>1 DEF NoAdvice
<1>3. ~A[12].fires
  <2>1. A[12].fires = (e >= MlMinHold /\ NoAdvice.ml = "SELL_ALL")
    BY DEF Rules, Rule
  <2> QED BY <2>1 DEF NoAdvice
<1>4. G[5].fires => A[6].fires
  <2>1. G[5].fires = HeldTakeProfit(p, a)
    BY DEF Rules, Rule
  <2>2. A[6].fires = (p >= TakeProfit)
    BY DEF Rules, Rule
  <2> QED BY <2>1, <2>2 DEF HeldTakeProfit
<1>5. A[14].fires
  BY DEF Rules, Rule
<1> QED BY <1>1, <1>2, <1>3, <1>4, <1>5

(* One of the rules is the first to fire: the last always does.              *)
LEMMA OneIsFirst ==
  ASSUME NEW A, A[14].fires
  PROVE  \E i \in 1..14 : First(A, i)
BY DEF First

(* What sells a whole position without advice sells it with any, or a rule   *)
(* before it does.                                                           *)
LEMMA AdviceKeepsSales ==
  ASSUME NEW s \in Snapshots, NEW n, NEW p \in Pnl, NEW e, NEW a \in Advice(p),
         NEW A, A = Rules(s, n, p, e, NoAdvice), NEW G, G = Rules(s, n, p, e, a),
         NEW j \in 1..14, First(A, j), NEW i \in 1..14, First(G, i)
  PROVE  /\ j \in {1, 2, 4, 7, 8} => i \in {1, 2, 3, 4, 7, 8}
         /\ j = 9 => i \in {1, 2, 3, 4, 7, 8, 9}
<1>1. /\ \A k \in {1, 2, 4, 6, 7, 8, 9} : A[k] = G[k]
      /\ G[5].fires => A[6].fires
  BY AdviceTouches
<1>2. /\ A[j].fires /\ \A k \in 1..j - 1 : ~A[k].fires
      /\ G[i].fires /\ \A k \in 1..i - 1 : ~G[k].fires
  BY DEF First
<1>3. ASSUME j \in {1, 2, 4, 7, 8, 9}
      PROVE  i <= j /\ i # 6 /\ i # 5
  <2>1. G[j].fires
    BY <1>1, <1>2, <1>3
  <2>2. i <= j
    BY <1>2, <2>1
  <2>3. i # 6
    BY <1>1, <1>2, <1>3, <2>2
  <2>4. i # 5
    BY <1>1, <1>2, <1>3, <2>2
  <2> QED BY <2>2, <2>3, <2>4
<1> QED BY <1>3

(* It is so in every state the variables can have, reached or not.           *)
LEMMA AdviceSellsAnywhere == AdviceOnlySells
<1> SUFFICES ASSUME NEW p \in Pnl, NEW s \in Snapshots, NEW n \in {MinEvents, Window},
                    NEW e \in elapsed..MaxElapsed, NEW a \in Advice(p)
             PROVE  LET alone == Chosen(Rules(s, n, p, e, NoAdvice))
                        given == Chosen(Rules(s, n, p, e, a))
                    IN /\ alone \subseteq SellsAll \ {"take_profit"} => given \subseteq SellsAll
                       /\ alone = {"strong_profit"} => given \subseteq SellsAll \cup {"strong_profit"}
  BY DEF AdviceOnlySells
<1>1. PICK A : A = Rules(s, n, p, e, NoAdvice)
  OBVIOUS
<1>2. PICK G : G = Rules(s, n, p, e, a)
  OBVIOUS
<1>3. /\ \A i \in 1..14 : A[i].why = RuleNames[i] /\ G[i].why = RuleNames[i]
      /\ Len(A) = 14 /\ Len(G) = 14
  BY <1>1, <1>2, RulesAreNamed, RuleCount
<1>4. PICK j \in 1..14 : First(A, j)
  BY <1>1, AdviceTouches, OneIsFirst
<1>5. ~A[3].fires /\ ~A[12].fires
  BY <1>1, AdviceTouches
<1>6. RuleNames[j] \in Chosen(A)
  BY <1>3, <1>4 DEF Chosen
<1>7. ASSUME NEW x \in Chosen(G)
      PROVE  \E i \in 1..14 : First(G, i) /\ x = RuleNames[i]
  BY <1>3, <1>7 DEF Chosen
<1>8. \A i \in 1..14 : First(G, i) =>
         /\ j \in {1, 2, 4, 7, 8} => i \in {1, 2, 3, 4, 7, 8}
         /\ j = 9 => i \in {1, 2, 3, 4, 7, 8, 9}
  BY <1>1, <1>2, <1>4, AdviceKeepsSales
<1>9. \A i \in {1, 2, 3, 4, 7, 8} : RuleNames[i] \in SellsAll
  BY DEF RuleNames, SellsAll
<1>10. RuleNames[9] = "strong_profit"
  BY DEF RuleNames
<1>11. ASSUME Chosen(A) \subseteq SellsAll \ {"take_profit"}
       PROVE  Chosen(G) \subseteq SellsAll
  <2>1. RuleNames[j] \in SellsAll \ {"take_profit"}
    BY <1>6, <1>11
  <2>2. j \in {1, 2, 3, 4, 7, 8, 12}
    BY <2>1 DEF RuleNames, SellsAll
  <2>3. j \in {1, 2, 4, 7, 8}
    BY <1>4, <1>5, <2>2 DEF First
  <2> QED BY <1>7, <1>8, <1>9, <2>3
<1>12. ASSUME Chosen(A) = {"strong_profit"}
       PROVE  Chosen(G) \subseteq SellsAll \cup {"strong_profit"}
  <2>1. RuleNames[j] = "strong_profit"
    BY <1>6, <1>12
  <2>2. j = 9
    BY <2>1 DEF RuleNames
  <2> QED BY <1>7, <1>8, <1>9, <1>10, <2>2
<1> QED BY <1>1, <1>2, <1>11, <1>12

(* Whatever a position has been through, for every snapshot, price and time  *)
(* ahead, the advice of the exit model makes it sell whatever the rules      *)
(* alone would sell, take_profit and weak_pulse_profit aside.                *)
THEOREM AdviceSells == Spec => []AdviceOnlySells
BY AdviceSellsAnywhere, PTL
=============================================================================
