----------------------------- MODULE ExitLabels -----------------------------
(***************************************************************************)
(* One token, entered live at some moment, and what is made of it after:    *)
(* the supervisor hears its trades, ticks, asks the survival model and ends *)
(* with its stream; the data sets replay the stored trades from the same    *)
(* entry with ticks in between (simulate_exit.py), and cut the row of the   *)
(* position into buckets of life and death (survival.py).  The rules of the *)
(* pulse are left out: they read the same window on both sides.  So are the *)
(* partial sales: they come after every rule here that ends a position, and *)
(* only weigh in the P&L of its row, which is therefore free.               *)
(***************************************************************************)
EXTENDS Integers, Sequences, FiniteSetsExt, SequencesExt, Selection

CONSTANTS
  Lives,        (* trades of a token, [at, price], in the order of time    *)
  Entries,      (* positions, [at, price]: the price of the fill           *)
  Outlooks,     (* hazard of a bucket, in tenths, by the age of a position *)
  MaxLag,       (* bound: from an entry to its stream                      *)
  LastInstant,  (* bound: end of what is watched                           *)
  WarmAt, TickEvery, HoldFor, QuietFor,  (* pulse_min_events, and seconds  *)
  StopAt, TakeAt, TrailFrom, TrailBy, Cost,  (* percent                    *)
  CheckFrom, ShortLife, LifeOdds, Sure,  (* the survival exit: its minimum *)
                (* hold, life left, survival and confidence in percent     *)
  Bucket, Beyond         (* seconds of a bucket and of the horizon         *)

ASSUME ExitLabelsAssumption ==
  /\ {WarmAt, TickEvery, HoldFor, QuietFor, Bucket} \subseteq Nat \ {0}
  /\ {StopAt, Cost, MaxLag, Beyond} \subseteq Nat
  /\ {TakeAt, TrailFrom, TrailBy, LastInstant} \subseteq Int
  /\ Entries \subseteq [at : Nat, price : Nat \ {0}]
  /\ \A l \in Lives : /\ l \in Seq([at : Nat, price : Nat \ {0}])
                       /\ \A i \in 1..Len(l) - 1 : l[i].at < l[i + 1].at

VARIABLES
  life,     (* its trades                                                  *)
  entry,    (* [at, price] of the position                                 *)
  opened,   (* when the stream and the ticks of its supervisor began       *)
  outlook,  (* the survival model                                          *)
  instant,  (* now                                                         *)
  held,     (* the runner of the position                                  *)
  ticked,   (* the last tick                                               *)
  counted   (* buckets a training made of the open row                     *)

labelVars == <<life, entry, opened, outlook, instant, held, ticked, counted>>

SeenBy(trades, t) == Among(trades, {x \in ToSet(trades) : x.at <= t})
After(trades, t) == Among(trades, {x \in ToSet(trades) : x.at > t})

(* PaperTradeRunner: price, trades heard, peak, and how it ended.           *)
Runner(price) == [price |-> price, heard |-> 0, peak |-> 0,
                  reason |-> "open", at |-> 0, ended |-> 0]
Earns(from, price) == (100 * price) \div from - 100 - Cost

LabelsInit ==
  /\ life \in Lives
  /\ entry \in Entries /\ SeenBy(life, entry.at) # <<>>
  /\ opened \in entry.at..entry.at + MaxLag
  /\ SeenBy(After(life, entry.at), opened - 1) = <<>>
  /\ outlook \in Outlooks
  /\ instant = opened /\ held = Runner(entry.price)
  /\ ticked = opened /\ counted = <<>>
LabelsOff ==
  /\ life = <<>> /\ entry = [at |-> 0, price |-> 0] /\ opened = 0
  /\ outlook = <<>> /\ instant = LastInstant
  /\ held = [Runner(0) EXCEPT !.reason = "off"]
  /\ ticked = 0 /\ counted = <<>>

(* ------------------- the exit rules ------------------------------------ *)
Closed(r, reason, at) == [r EXCEPT !.reason = reason, !.at = at, !.ended = at]

(* ExitManager.decide, once the window has events enough.                   *)
DecideExit(e, r, t) ==
  LET leg == Earns(e.price, r.price)
      peak == Max({r.peak, leg})
  IN CASE r.heard < WarmAt -> r
       [] r.heard >= WarmAt /\ leg >= TakeAt -> Closed(r, "take_profit", t)
       [] /\ r.heard >= WarmAt /\ leg < TakeAt
          /\ peak >= TrailFrom /\ peak - leg >= TrailBy ->
            Closed(r, "trailing_stop", t)
       [] OTHER -> IF t - e.at > HoldFor THEN Closed(r, "timeout", t)
                   ELSE [r EXCEPT !.peak = peak]

(* process_trade: the hard stop first, on every trade.                      *)
Process(e, r, x) ==
  LET q == [r EXCEPT !.price = x.price, !.heard = @ + 1]
  IN IF Earns(e.price, x.price) < -StopAt THEN Closed(q, "hard_stop", x.at)
     ELSE DecideExit(e, q, x.at)

(* ------------------- the simulation ------------------------------------ *)
(* Fault: trades alone are replayed.                                        *)
TicksNone(e, r, since, until) == r

(* The ticks due from one moment to another, until one of them closes.      *)
Ticks(e, r, since, until) ==
  LET tick[n \in 0..Max({0, until + 1 - since})] ==
        IF n = 0 THEN r
        ELSE LET t == since + n - 1
             IN IF tick[n - 1].reason = "open" /\ (t - e.at) % TickEvery = 0
                THEN DecideExit(e, tick[n - 1], t) ELSE tick[n - 1]
  IN tick[Max({0, until + 1 - since})]

(* _replay_trades: before each trade the ticks up to it, after the last     *)
(* those up to the deadline, and then the timeout.                          *)
TicksFrom(e, trades, i) == IF i = 0 THEN e.at + 1 ELSE trades[i].at + 1
Simulated(e, trades) ==
  LET replay[i \in 0..Len(trades)] ==
        IF i = 0 THEN Runner(e.price)
        ELSE LET q == Ticks(e, replay[i - 1], TicksFrom(e, trades, i - 1), trades[i].at)
             IN IF q.reason = "open" THEN Process(e, q, trades[i]) ELSE q
      deadline == e.at + HoldFor + TickEvery
      q == Ticks(e, replay[Len(trades)], TicksFrom(e, trades, Len(trades)), deadline)
  IN IF q.reason = "open" THEN Closed(q, "timeout", deadline) ELSE q

(* simulate_exit_batch does not tick a token without trades.                *)
SimulatedBatch(e, trades) ==
  IF trades = <<>> THEN Closed(Runner(e.price), "timeout", e.at)
  ELSE Simulated(e, trades)

(* ------------------- buckets of life ----------------------------------- *)
(* How long a row has lived and whether it died: by its recorded exit if    *)
(* closed, else until now; it died if the P&L of the row is a death's loss, *)
(* but nothing dies beyond the horizon.                                     *)
RecordDuration(e, r, now, lost) ==
  LET closed == r.reason # "open"
      raw == Max({0, (IF closed THEN r.at ELSE now) - e.at})
  IN [long |-> Min({raw, Beyond}),
      died |-> closed /\ raw <= Beyond /\ lost]

BuildFromRecords(e, r, now, lost) ==
  LET d == RecordDuration(e, r, now, lost)
      n == Max({1, (d.long + Bucket - 1) \div Bucket})
  IN IF d.long = 0 THEN <<>>
     ELSE [i \in 1..n |-> IF d.died /\ i = n THEN 1 ELSE 0]

(* ------------------- the survival exit --------------------------------- *)
(* The hazards ahead, bucket by bucket up to the horizon.                   *)
Curve(age) ==
  LET n == Max({1, (Beyond - age + Bucket - 1) \div Bucket})
  IN [i \in 1..n |-> outlook[Min({age + (i - 1) * Bucket, Beyond})]]

(* The end of the first bucket that less than LifeOdds percent survive.     *)
Survive(curve, n) == FoldLeft(LAMBDA p, h : p * (10 - h), 100, SubSeq(curve, 1, n))
RemainingLife(curve) ==
  LET dead == {n \in DOMAIN curve : Survive(curve, n) < LifeOdds * 10 ^ n}
  IN IF dead = {} THEN ShortLife ELSE Bucket * Min(dead)

(* Twice the mean distance from one half, in percent.                       *)
Confidence(curve) ==
  (20 * FoldLeft(LAMBDA s, h : s + Max({h - 5, 5 - h}), 0, curve)) \div Len(curve)

(* _maybe_survival_exit: after the minimum hold and before the horizon.     *)
SurvivalExit(age) == /\ age >= CheckFrom /\ age < Beyond
                     /\ RemainingLife(Curve(age)) < ShortLife
                     /\ Confidence(Curve(age)) >= Sure

(* ------------------- the position, live -------------------------------- *)
Later == After(life, entry.at)
Open == held.reason = "open"
NextDue == /\ held.heard < Len(Later) /\ Later[held.heard + 1].at <= instant
TickDue == instant > ticked /\ (instant - opened) % TickEvery = 0

(* The last trade, or the entry, as the row's exit time knows it; the feed  *)
(* counts silence from the start of the stream.                             *)
LastEvent == IF held.heard = 0 THEN entry.at ELSE Later[held.heard].at
Silent == instant - Max({LastEvent, opened}) >= QuietFor
StreamOver == instant - opened >= HoldFor \/ Silent

HearTrade ==
  /\ Open /\ NextDue /\ instant - opened < HoldFor
  /\ held' = Process(entry, held, Later[held.heard + 1])
  /\ UNCHANGED <<life, entry, opened, outlook, instant, ticked, counted>>

(* _tick_loop: the rules, and if they hold the survival model.              *)
TickPosition ==
  /\ Open /\ TickDue
  /\ LET q == DecideExit(entry, held, instant)
     IN held' = IF q.reason = "open" /\ SurvivalExit(instant - entry.at)
                THEN Closed(q, "survival_predict", instant) ELSE q
  /\ ticked' = instant
  /\ UNCHANGED <<life, entry, opened, outlook, instant, counted>>

(* The stream ended without a decision: the row says when silence would     *)
(* have been noticed.                                                       *)
EndStream ==
  /\ Open /\ StreamOver
  /\ held' = [Closed(held, "dead_token", LastEvent + QuietFor)
               EXCEPT !.ended = instant]
  /\ UNCHANGED <<life, entry, opened, outlook, instant, ticked, counted>>

(* A training reads the row while it is open.                               *)
CountBuckets ==
  /\ Open /\ counted = <<>> /\ instant > entry.at
  /\ counted' = BuildFromRecords(entry, held, instant, FALSE)
  /\ UNCHANGED <<life, entry, opened, outlook, instant, held, ticked>>

PassInstant ==
  /\ Open /\ instant < LastInstant
  /\ ~TickDue /\ ~StreamOver /\ ~NextDue
  /\ instant' = instant + 1
  /\ UNCHANGED <<life, entry, opened, outlook, held, ticked, counted>>

LabelsNext == HearTrade \/ TickPosition \/ EndStream \/ CountBuckets \/ PassInstant

LabelsTypeOK ==
  /\ held.reason \in {"off", "open", "hard_stop", "take_profit", "trailing_stop",
       "timeout", "dead_token", "survival_predict"}
  /\ \A i \in DOMAIN counted : counted[i] \in {0, 1}

(* A position ends live as the data sets made of the same entry say it ends *)
(* (simulate_exit.py promises what the live exit logic would produce): no   *)
(* price rule fires on one side after the other has ended, and where it     *)
(* fires on both it is the same exit.                                       *)
(* Once the window was warm, the simulation holds no longer than one tick   *)
(* (or the lag of the stream) over the maximum, and both end at the same    *)
(* price unless a trade lies between them.  And what a training counted as  *)
(* life while the row was open stays life, whatever P&L it is closed with,  *)
(* but for the bucket it was in; where the stream began with the position,  *)
(* no bucket is lost (survival.py build_from_records).                      *)
ByPrice == {"hard_stop", "take_profit", "trailing_stop"}
Exit(r) == [price |-> r.price, reason |-> r.reason, at |-> r.at]
LabelsAsLived ==
  held.reason \notin {"off", "open"} =>
    LET s == SimulatedBatch(entry, Later)
        between == {i \in DOMAIN Later :
          /\ Later[i].at >= Min({s.at, held.ended})
          /\ Later[i].at <= Max({s.at, held.ended})}
    IN /\ s.reason \in ByPrice => held.ended <= s.at
       /\ held.reason \in ByPrice => s.at <= held.ended
       /\ {s.reason, held.reason} \subseteq ByPrice => Exit(s) = Exit(held)
       /\ held.heard >= WarmAt =>
            /\ s.at <= Max({entry.at + TickEvery, opened}) + HoldFor
            /\ between = {} => s.price = held.price
       /\ \A lost \in BOOLEAN :
            LET final == BuildFromRecords(entry, held, instant, lost)
            IN /\ opened = entry.at => Len(counted) <= Len(final)
               /\ \A i \in 1..Min({Len(counted), Len(final)}) - 1 : final[i] = 0
=============================================================================
