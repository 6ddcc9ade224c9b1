-------------------------------- MODULE Sweep --------------------------------
(***************************************************************************)
(* The optimizer: Optimizer.run reads the history while the bot may go on   *)
(* writing it, replays the training part of it for every combination of     *)
(* parameters, each under the limits of Portfolio, ranks the combinations    *)
(* and replays the ranked ones on the holdout.                              *)
(*                                                                          *)
(* Times and amounts are small whole numbers.                               *)
(***************************************************************************)
EXTENDS Portfolio, Selection, FiniteSetsExt, Sequences, SequencesExt

CONSTANTS
  Tokens,       (* the mints of the tokens table                           *)
  Markets,      (* histories the tables may hold: mint -> row and trades   *)
  Grid,         (* parameter assignments of the grid, before filtering     *)
  FullSec,      (* observe_seconds                                         *)
  Silence,      (* exit_inactivity_seconds, 0 turns it off                 *)
  Proceeds,     (* what a position may bring back                          *)
  MinForRank,   (* MIN_TRADES_FOR_RANK                                     *)
  TopN,         (* TOP_N_RESULTS                                           *)
  MaxCombos,    (* max_combos, 0 for the whole grid                        *)
  Present       (* the time at which the bot writes                        *)

NoSplit == -1

ASSUME SweepAssumption ==
  /\ FullSec \in Nat /\ Silence \in Nat /\ Proceeds \subseteq Nat
  /\ MinForRank \in Nat /\ TopN \in Nat \ {0} /\ MaxCombos \in Nat /\ Present \in Nat
  /\ IsFiniteSet(Tokens)
  /\ Markets \subseteq [Tokens -> [created : 0..Present,
                                   trades : Seq([at : 0..Present, buy : BOOLEAN])]]
  /\ Grid \subseteq [mode : {"fast", "full", "both"}, fast : Nat, low : Nat,
                     high : Nat]

VARIABLES
  market,    (* mint -> its row of tokens and its rows of trades           *)
  sweep,     (* where run() is, which subset it works on, the split        *)
  dataset,   (* mint -> the record loaded for it                           *)
  unread,    (* mints of the token cursor that are still to be loaded      *)
  combos,    (* combinations still to run on this subset                   *)
  worker,    (* the replay of one combination                              *)
  saved,     (* optimization_runs: combination -> trades and profit        *)
  ranked     (* the ranked heap: combinations                              *)

sweepVars == <<market, sweep, dataset, unread, combos, worker, saved, ranked>>

NoWorker == [pc |-> "idle", candidates |-> {}, heap |-> {}, cash |-> 0,
             closed |-> {}]

SweepInit ==
  /\ market \in Markets
  /\ \E parallel \in BOOLEAN :
       sweep = [pc |-> "start", subset |-> "all", split |-> NoSplit,
                parallel |-> parallel]
  /\ dataset = << >> /\ unread = {} /\ combos = {} /\ worker = NoWorker
  /\ saved = << >> /\ ranked = {}

SweepOff ==
  /\ market = << >>
  /\ sweep = [pc |-> "off", subset |-> "all", split |-> NoSplit,
              parallel |-> FALSE]
  /\ dataset = << >> /\ unread = {} /\ combos = {} /\ worker = NoWorker
  /\ saved = << >> /\ ranked = {}

(* ------------------- the grid ------------------------------------------ *)
(* Windows of one buyer are dropped, and what has no effect in "full" mode   *)
(* takes the first value of its axis, so that equal runs are one run.        *)
Valid(g) == g.low < g.high
Canonical(g) == IF g.mode = "full"
                THEN [g EXCEPT !.fast = Min({h.fast : h \in Grid})] ELSE g
AllCombos == {Canonical(g) : g \in {h \in Grid : Valid(h)}}

(* A sample of k combinations gives up after 20 k draws with what it has;    *)
(* without any combination nothing is run.                                   *)
Samples == IF MaxCombos = 0 THEN {AllCombos} \ {{}}
           ELSE {s \in SUBSET AllCombos : s # {} /\ Cardinality(s) <= MaxCombos}

(* ------------------- reading the history ------------------------------- *)
(* The creation time that puts k tokens strictly below it, if all differ.    *)
SplitAt(k) ==
  LET below(m) == Cardinality({n \in Tokens : market[n].created < market[m].created})
  IN Max({market[m].created : m \in {n \in Tokens : below(n) <= k}})

(* Fault: a training token only has to be born before the split.             *)
AdmittedIfBorn(m) ==
  CASE sweep.subset = "train"   -> market[m].created < sweep.split
    [] sweep.subset = "holdout" -> market[m].created >= sweep.split
    [] OTHER -> TRUE

(* A training token whose window of observation crosses the split is not     *)
(* used at all.                                                              *)
Admitted(m) ==
  CASE sweep.subset = "train"   -> market[m].created + FullSec < sweep.split
    [] sweep.subset = "holdout" -> market[m].created >= sweep.split
    [] OTHER -> TRUE

(* The trades of a time in T, in their order.                                *)
Within(trades, T) == Among(trades, [at : T, buy : BOOLEAN])

(* What training knows of a token: no trade from the split on.               *)
Known(m) == IF sweep.subset = "train"
            THEN Within(market[m].trades, 0..sweep.split - 1)
            ELSE market[m].trades

RecordOf(m) ==
  LET end == market[m].created + FullSec
  IN [created |-> market[m].created,
      full    |-> Within(Known(m), 0..end),
      monitor |-> Within(Known(m), end + 1..Present)]

Run ==
  /\ sweep.pc = "start"
  /\ \E k \in 0..Cardinality(Tokens) - 1, split \in BOOLEAN :
       sweep' = [sweep EXCEPT !.pc = "load",
                   !.subset = IF split THEN "train" ELSE "all",
                   !.split = IF split THEN SplitAt(k) ELSE NoSplit]
  /\ combos' \in Samples
  /\ unread' = Tokens
  /\ UNCHANGED <<market, dataset, worker, saved, ranked>>

(* One row of the token cursor, and a query for its trades.                  *)
LoadToken ==
  /\ sweep.pc = "load"
  /\ \E m \in unread :
       /\ \A n \in unread : market[m].created <= market[n].created
       /\ unread' = unread \ {m}
       /\ dataset' = IF Admitted(m) /\ Known(m) # <<>>
                     THEN [x \in DOMAIN dataset \cup {m} |->
                             IF x = m THEN RecordOf(m) ELSE dataset[x]]
                     ELSE dataset
  /\ UNCHANGED <<market, sweep, combos, worker, saved, ranked>>

EndLoad ==
  /\ sweep.pc = "load" /\ unread = {}
  /\ sweep' = [sweep EXCEPT !.pc = IF sweep.subset = "holdout" /\ DOMAIN dataset = {}
                                   THEN "done" ELSE "run"]
  /\ UNCHANGED <<market, dataset, unread, combos, worker, saved, ranked>>

(* The bot writes on: every statement of the sweep sees the rows committed   *)
(* before it.                                                                *)
BotWrites ==
  /\ sweep.pc = "load"
  /\ \E m \in Tokens :
       /\ \A n \in Tokens : \A i \in DOMAIN market[n].trades :
            market[n].trades[i].at < Present
       /\ market' = [market EXCEPT ![m].trades =
                       Append(@, [at |-> Present, buy |-> TRUE])]
  /\ UNCHANGED <<sweep, dataset, unread, combos, worker, saved, ranked>>

(* ------------------- replaying one combination ------------------------- *)
EntryTime(r) == IF r.full = <<>> THEN r.created + FullSec ELSE Last(r.full).at
Priced(r) == \E i \in DOMAIN r.full : r.full[i].buy

(* The scorers may want any token that has a price; one is entered at the    *)
(* last trade of its window.                                                 *)
StartCombo ==
  /\ sweep.pc = "run" /\ worker.pc = "idle"
  /\ combos # {}
  /\ \E wanted \in SUBSET {m \in DOMAIN dataset : Priced(dataset[m])} :
       worker' = [pc |-> "replay", heap |-> {}, cash |-> StartCash,
                  closed |-> {}, candidates |->
                    {[mint |-> m, entry |-> EntryTime(dataset[m])] : m \in wanted}]
  /\ UNCHANGED <<market, sweep, dataset, unread, combos, saved, ranked>>

(* How the replay of a position may end: by a rule at a trade, the max hold   *)
(* rule giving the reason "timeout"; by silence; or with the history. Kind 0  *)
(* frees the slot at the time of the exit, kind 1 after it.                   *)
Exits(c) ==
  LET m == dataset[c.mint].monitor
      before(i) == IF i = 1 THEN c.entry ELSE m[i - 1].at
      gaps == {i \in DOMAIN m : Silence > 0 /\ m[i].at - before(i) > Silence}
      heard == IF gaps = {} THEN Len(m) ELSE Min(gaps) - 1
      last == before(heard + 1)
  IN [exit : {m[i].at : i \in 1..heard}, kind : {0, 1}]
       \cup {[exit |-> last + Silence, kind |-> 0]}

(* Fault: every slot is free at the moment of the exit.                      *)
FreedAtExit(heap, now) == {h \in heap : h.exit <= now}

(* _pop_freed_slots.                                                         *)
Freed(heap, now) == {h \in heap : h.exit < now \/ (h.exit = now /\ h.kind = 0)}

Received(trades) == MapThenSumSet(LAMBDA t : t.received, trades)

MakeTradeResult(c, e, received) ==
  [mint |-> c.mint, entry |-> c.entry, exit |-> e.exit, kind |-> e.kind,
   received |-> received]

(* Fault: the cash is not looked at.                                         *)
CanTakeOnCredit(heap, cash) == Cardinality(heap) < MaxOpen

CanTake(heap, cash) == Cardinality(heap) < MaxOpen /\ cash >= BuyAmount

(* The next candidate by entry time: the slots and the cash of what ended     *)
(* before come back first.                                                    *)
TakeCandidate ==
  /\ worker.pc = "replay"
  /\ \E c \in worker.candidates :
       /\ \A d \in worker.candidates : c.entry <= d.entry
       /\ LET freed == Freed(worker.heap, c.entry)
              heap  == worker.heap \ freed
              cash  == worker.cash + Received(freed)
              rest  == [worker EXCEPT !.candidates = @ \ {c}, !.heap = heap,
                                      !.cash = cash]
          IN IF ~CanTake(heap, cash)
             THEN worker' = rest
             ELSE \E e \in Exits(c), received \in Proceeds :
                    LET t == MakeTradeResult(c, e, received)
                    IN worker' = [rest EXCEPT !.cash = @ - BuyAmount,
                                    !.heap = @ \cup {t}, !.closed = @ \cup {t}]
  /\ UNCHANGED <<market, sweep, dataset, unread, combos, saved, ranked>>
(* ------------------- ranking ------------------------------------------- *)
BuildResult(closed) ==
  [trades |-> Cardinality(closed),
   pnl    |-> Received(closed) - BuyAmount * Cardinality(closed)]

Pnl(c, runs) == runs[c].pnl

(* Fault: a full heap keeps what came first.                                 *)
PushFirst(heap, c, runs) ==
  {IF Cardinality(heap) < TopN THEN heap \cup {c} ELSE heap}

(* A full heap gives its worst entry away to a better one only.              *)
Push(heap, c, runs) ==
  IF Cardinality(heap) < TopN THEN {heap \cup {c}}
  ELSE LET worst == {w \in heap : \A h \in heap : Pnl(w, runs) <= Pnl(h, runs)}
       IN {IF Pnl(c, runs) > Pnl(w, runs) THEN (heap \ {w}) \cup {c} ELSE heap :
             w \in worst}

(* The result is saved and ranked, in whatever order the workers finish.     *)
Consume ==
  /\ worker.pc = "replay" /\ worker.candidates = {}
  /\ \E c \in combos :
       /\ combos' = combos \ {c}
       /\ IF sweep.subset = "holdout" THEN UNCHANGED <<saved, ranked>>
          ELSE LET runs == [x \in DOMAIN saved \cup {c} |->
                              IF x = c THEN BuildResult(worker.closed) ELSE saved[x]]
               IN /\ saved' = runs
                  /\ ranked' \in IF runs[c].trades >= MinForRank
                                 THEN Push(ranked, c, runs) ELSE {ranked}
  /\ worker' = NoWorker
  /\ UNCHANGED <<market, sweep, dataset, unread>>

(* A combination that raises is skipped by the serial path; through the pool  *)
(* it ends the run, since the pool's iterator raises it outside the try.      *)
ComboRaises ==
  /\ worker.pc = "replay"
  /\ IF sweep.parallel \/ sweep.subset = "holdout"
     THEN sweep' = [sweep EXCEPT !.pc = "raised"] /\ UNCHANGED combos
     ELSE UNCHANGED sweep /\ \E c \in combos : combos' = combos \ {c}
  /\ worker' = NoWorker
  /\ UNCHANGED <<market, dataset, unread, saved, ranked>>

(* The ranked combinations are replayed on the holdout.                      *)
EvaluateHoldout ==
  /\ sweep.pc = "run" /\ worker.pc = "idle" /\ combos = {}
  /\ IF sweep.subset = "train" /\ ranked # {}
     THEN /\ sweep' = [sweep EXCEPT !.pc = "load", !.subset = "holdout"]
          /\ dataset' = << >> /\ unread' = Tokens /\ combos' = ranked
     ELSE /\ sweep' = [sweep EXCEPT !.pc = "done"]
          /\ UNCHANGED <<dataset, unread, combos>>
  /\ UNCHANGED <<market, worker, saved, ranked>>

SweepNext == \/ Run \/ LoadToken \/ EndLoad \/ BotWrites
             \/ StartCombo \/ TakeCandidate
             \/ Consume \/ ComboRaises \/ EvaluateHoldout

SweepTypeOK ==
  /\ sweep.pc \in {"off", "start", "load", "run", "done", "raised"}
  /\ sweep.subset \in {"all", "train", "holdout"}
  /\ DOMAIN dataset \subseteq Tokens /\ unread \subseteq Tokens
  /\ combos \subseteq AllCombos /\ ranked \subseteq DOMAIN saved
  /\ worker.cash \in Nat /\ worker.heap \subseteq worker.closed

(* What a replay reports could have been traded: at no moment did more        *)
(* positions overlap than the portfolio may hold, where a position that a     *)
(* rule closed still holds its slot at the moment of its exit                 *)
(* (optimizer.py, _pop_freed_slots and _slot_kind).                           *)
SlotsOverTime ==
  \A t \in {c.entry : c \in worker.closed} :
    Cardinality({c \in worker.closed :
      c.entry <= t /\ (t < c.exit \/ (t = c.exit /\ c.kind = 1))}) <= MaxOpen

(* The training part is blind to the holdout and yet not cut short by the     *)
(* split: whatever the bot wrote meanwhile, a training token is judged on     *)
(* every trade of its window, its exits on trades from before the split only, *)
(* and it is no token of the holdout (optimizer.py, the burn-in and the       *)
(* filter of trades).                                                        *)
TrainBlind ==
  sweep.subset = "train" => \A m \in DOMAIN dataset :
    /\ market[m].created < sweep.split
    /\ \A i \in DOMAIN dataset[m].monitor : dataset[m].monitor[i].at < sweep.split
    /\ dataset[m].full = Within(market[m].trades, 0..market[m].created + FullSec)

(* Whatever the order the workers finish in, no combination with enough       *)
(* trades is left out for a worse one, and none with too few gets in          *)
(* (optimizer.py, the ranked heap of _run_parallel).                          *)
BestRanked ==
  /\ \A c \in ranked : saved[c].trades >= MinForRank
  /\ \A c \in DOMAIN saved \ ranked : saved[c].trades >= MinForRank =>
       /\ Cardinality(ranked) = TopN
       /\ \A r \in ranked : Pnl(c, saved) <= Pnl(r, saved)
=============================================================================
