------------------------------ MODULE Features ------------------------------
(***************************************************************************)
(* One token from its first trade to a row of the training set: what the    *)
(* scorers and the entry model are given live, what a replay gives them,    *)
(* and what build_dataset computes from the tables later.  Trades may come  *)
(* out of order and late, the snapshots of the holders land beside the      *)
(* handler, and wallets trade other tokens and are classified meanwhile.    *)
(***************************************************************************)
EXTENDS Scoring

CONSTANTS
  TradeFlows,    (* the trades a token may have: [at, wallet, side, sol,     *)
                (* curve], in the order of the market                       *)
  Amounts,      (* age -> what the largest accounts hold then              *)
  LastMoment,   (* bound: age at which the model stops                     *)
  MaxBegin,     (* bound: how late the handler may begin                   *)
  MaxElsewhere  (* bound: what the rest of the system does meanwhile       *)

Captures == {1, 2, 4}

ASSUME FeaturesAssumption ==
  /\ MaxBegin \in Nat /\ MaxElsewhere \in Nat
  /\ LastMoment \in Nat /\ LastMoment > FullEnd
  /\ \A a \in Captures : Amounts[a] \in Seq(Nat)
  /\ \A m \in TradeFlows : /\ m \in Seq(Traded)
                           /\ \A i \in 1..Len(m) - 1 : m[i].at <= m[i + 1].at

(* The percent of the listed amounts that the largest account has.          *)
Share(a) ==
  LET total == FoldLeft(+, 0, Amounts[a])
  IN IF total = 0 THEN Unknown
     ELSE (100 * Max(ToSet(Amounts[a]))) \div total

VARIABLES
  phase,      (* where the token is                                        *)
  moment,     (* its age                                                   *)
  flow,       (* the trades it has                                         *)
  begun,      (* age at which it was subscribed                            *)
  received,   (* trades in the order the handler collected them            *)
  after,      (* trades in the order its watchers stored them later        *)
  landed,     (* the holder captures in the table                          *)
  elsewhere,  (* wallet -> ages at which it traded another token           *)
  marked,     (* wallet -> its classification                              *)
  at30,       (* how many trades the T+30 checkpoint could see             *)
  scoring     (* what was there when the token was scored                  *)

featureVars == <<phase, moment, flow, begun, received, after, landed,
                 elsewhere, marked, at30, scoring>>

NotScored == [at |-> Unknown, landed |-> {}, elsewhere |-> << >>,
              marked |-> << >>, answered |-> TRUE]

(* The wallets that are known from other tokens.                            *)
Travellers == {1, 2}

FeaturesInit ==
  /\ phase = "queued" /\ moment = 0 /\ begun = 0
  /\ flow \in TradeFlows
  /\ received = <<>> /\ after = <<>> /\ landed = {}
  /\ elsewhere = [w \in Travellers |-> {-1}]
  /\ marked = [w \in Travellers |-> "plain"]
  /\ at30 = Unknown /\ scoring = NotScored

FeaturesOff ==
  /\ phase = "off" /\ moment = 0 /\ begun = 0 /\ flow = <<>>
  /\ received = <<>> /\ after = <<>> /\ landed = {}
  /\ elsewhere = << >> /\ marked = << >>
  /\ at30 = Unknown /\ scoring = NotScored

(* ------------------- what the entry model is given --------------------- *)
(* Wallets that bought within the first five seconds.                       *)
Snipers(trades) == Cardinality(Wallet(Buys(Until(trades, 0))))

(* A wallet's trades of other tokens, if the last of them was before the    *)
(* cutoff: the row of a pair of wallet and token is taken whole or not.     *)
PriorStats(rows, wallets, cutoff) ==
  LET known == {w \in wallets \cap DOMAIN rows :
                  rows[w] # {} /\ Max(rows[w]) < cutoff}
  IN [w \in known |-> [trades |-> Cardinality(rows[w]), since |-> Min(rows[w])]]

(* The rows of some wallets in wallet_classifications.                      *)
MarksOf(wallets, marks) == [w \in ToSet(wallets) \cap DOMAIN marks |-> marks[w]]

(* How many of the buyers are marked; unknown when none has a row.          *)
MarkedAmong(found) ==
  IF DOMAIN found = {} THEN Unknown
  ELSE Cardinality({w \in DOMAIN found : found[w] = "bot"})

(* _extract_wallet_prior_features counts the marks last: without a row of   *)
(* any buyer it returns before, and the counts stay unknown.                *)
WalletMarks(top, priors, marks) ==
  IF DOMAIN priors = {} THEN Unknown ELSE MarkedAmong(MarksOf(top, marks))

(* The features of the T+30 model: of the trades, the buyers' rows before   *)
(* the cutoff, and their marks.                                             *)
Row30(trades, rows, marks, cutoff) ==
  LET top == TopBuyers(trades)
      priors == PriorStats(rows, ToSet(top), cutoff)
  IN [top |-> top, snipers |-> Snipers(trades), priors |-> priors,
      marks |-> WalletMarks(top, priors, marks)]

(* The features of the entry model.                                         *)
Row(trades, rows, marks, cutoff, timed, holders) ==
  LET early == Row30(trades, rows, marks, cutoff)
  IN [top |-> early.top, snipers |-> early.snipers, priors |-> early.priors,
      marks |-> early.marks, timed |-> timed, holders |-> holders]

Ahead(from, to) == IF Unknown \in {from, to} THEN Unknown
                   ELSE Max({0, Min({100, 2 * to - from})})

Between(from, to) == IF Unknown \in {from, to} THEN Unknown
                     ELSE from + (to - from) \div 3

(* The largest holder's share at T+30 and T+120, the latter carried on from *)
(* T+30 and T+60 as long as its capture is missing; zeros when the lookup   *)
(* raises, unknown where nothing is known.                                  *)
ServedHolders(captures, answered) ==
  LET got(a) == IF a \in captures THEN Share(a) ELSE Unknown
      last == IF 4 \in captures THEN got(4) ELSE Ahead(got(1), got(2))
  IN IF ~answered THEN [early |-> 0, late |-> 0, mid |-> 0]
     ELSE [early |-> got(1), late |-> last, mid |-> Between(got(1), last)]

(* The same columns in the training set: carried on alike, and then what is *)
(* missing is set to zero.                                                  *)
Filled(column) == Max({column, 0})
TrainedHolders(captures) ==
  LET got(a) == IF a \in captures THEN Share(a) ELSE Unknown
      early == Filled(got(1))
      late == Filled(IF 4 \in captures THEN got(4) ELSE Ahead(got(1), got(2)))
  IN [early |-> early, late |-> late, mid |-> Between(early, late)]

Scored == scoring.at # Unknown
Window90 == Until(received, FullEnd)

(* What the table of trades holds: the window, stored when it is scored,    *)
(* then what the watchers store one by one.                                 *)
Stored == (IF Scored THEN Window90 ELSE <<>>) \o after

(* hydrate_for_t90 reads the rows back, for they are at least as many.      *)
Hydrated90 == Until(ByTime(Window90), scoring.at)

Served ==
  Row(Hydrated90, scoring.elsewhere, scoring.marked, scoring.at,
      MetricsOf(Window90).timed,
      ServedHolders(scoring.landed, scoring.answered))

(* At T+30 nothing of the token is stored yet: hydrate_for_t30 falls back   *)
(* on the trades collected so far.                                          *)
Seen30 == Until(SubSeq(received, 1, at30), 1)
Served30 == Row30(Seen30, scoring.elsewhere, scoring.marked, 1)

(* ------------------- what the training set has ------------------------- *)
(* Fault: the trades are not clipped at the scoring.                         *)
TrainedTopOfAll == TopBuyers(Stored)

TrainedTop == TopBuyers(Until(Stored, scoring.at))
TrainedPriors == PriorStats(elsewhere, ToSet(TrainedTop), scoring.at)
TrainedMarks == WalletMarks(TrainedTop, TrainedPriors, marked)
TrainedTimed == TimeAware(Stored)

Trained ==
  [top |-> TrainedTop, snipers |-> Snipers(Until(Stored, scoring.at)),
   priors |-> TrainedPriors, marks |-> TrainedMarks, timed |-> TrainedTimed,
   holders |-> TrainedHolders(landed)]

(* build_entry_dataset_t30 goes sixty seconds back from the scoring.        *)
Trained30 ==
  Row30(Until(Stored, scoring.at - 2), elsewhere, marked, scoring.at - 2)

(* The label simulates a position from the first buy at or after the        *)
(* scoring; without one the token counts as dead.                           *)
Future == Among(Stored, {t \in ToSet(Stored) : t.at >= scoring.at})
Label == CASE Future = <<>> -> "doa_no_trades"
           [] Future # <<>> /\ Buys(Future) = <<>> -> "doa_no_entry"
           [] OTHER -> "held"

(* ------------------- what a replay is given ---------------------------- *)
(* ReplayLaunchpad and the backtest's stream order by timestamp and id.     *)
Replayed == ByTime(Stored)

(* ------------------- steps --------------------------------------------- *)
Watch ==
  /\ phase = "queued"
  /\ phase' = "observing" /\ begun' = moment
  /\ UNCHANGED <<moment, flow, received, after, landed, elsewhere, marked,
                 at30, scoring>>

Passes ==
  /\ phase # "off" /\ moment < LastMoment
  /\ phase = "queued" => moment < MaxBegin
  /\ phase = "observing" => moment < begun + FullEnd
  /\ moment' = moment + 1
  /\ UNCHANGED <<phase, flow, begun, received, after, landed, elsewhere,
                 marked, at30, scoring>>

(* A trade of the last two moments reaches whoever watches the token; one   *)
(* that never comes stands for the end of the extended observation.         *)
Receive ==
  /\ phase \in {"observing", "watched"}
  /\ \E i \in DOMAIN flow :
       /\ flow[i].at \in {moment - 1, moment} /\ flow[i].at >= begun
       /\ \A t \in ToSet(received) \cup ToSet(after) : t # flow[i]
       /\ IF phase = "observing"
          THEN received' = Append(received, flow[i]) /\ UNCHANGED after
          ELSE after' = Append(after, flow[i]) /\ UNCHANGED received
  /\ UNCHANGED <<phase, moment, flow, begun, landed, elsewhere, marked,
                 at30, scoring>>

(* A capture of the holders is due at its age and lands before that moment  *)
(* has passed, if its request succeeds and lists an amount.                 *)
CaptureHolders ==
  /\ phase \notin {"off", "queued"}
  /\ \E a \in Captures \ landed :
       moment = a /\ Share(a) # Unknown /\ landed' = landed \cup {a}
  /\ UNCHANGED <<phase, moment, flow, begun, received, after, elsewhere,
                 marked, at30, scoring>>

(* The T+30 checkpoint is asked while the trades are collected.             *)
AskAt30 ==
  /\ phase = "observing" /\ moment = 1 /\ at30 = Unknown
  /\ at30' = Len(received)
  /\ UNCHANGED <<phase, moment, flow, begun, received, after, landed,
                 elsewhere, marked, scoring>>

(* The window ends, or a verdict of a checkpoint ends it; the token is      *)
(* scored with what is in the tables.                                       *)
ScoreToken ==
  /\ phase = "observing"
  /\ \/ moment >= begun + FullEnd
     \/ received # <<>> /\ moment >= 1
  /\ \E answered \in BOOLEAN :
       scoring' = [at |-> moment, landed |-> landed, elsewhere |-> elsewhere,
                marked |-> marked, answered |-> answered]
  /\ phase' = "watched"
  /\ UNCHANGED <<moment, flow, begun, received, after, landed, elsewhere,
                 marked, at30>>

Busy == Cardinality(UNION {elsewhere[w] : w \in DOMAIN elsewhere}) - 1
        + Cardinality({w \in DOMAIN marked : marked[w] # "plain"})

(* A wallet trades another token: its row of wallet_activity grows.  What   *)
(* it did before the scoring is in the tables from the start.               *)
TradeElsewhere ==
  /\ Scored /\ Busy < MaxElsewhere
  /\ \E w \in DOMAIN elsewhere :
       elsewhere' = [elsewhere EXCEPT ![w] = @ \cup {moment}]
  /\ UNCHANGED <<phase, moment, flow, begun, received, after, landed,
                 marked, at30, scoring>>

(* The classifier publishes anew.                                           *)
Reclassify ==
  /\ Scored /\ Busy < MaxElsewhere
  /\ \E w \in DOMAIN marked : marked' = [marked EXCEPT ![w] = "bot"]
  /\ UNCHANGED <<phase, moment, flow, begun, received, after, landed,
                 elsewhere, at30, scoring>>

FeaturesNext == \/ Watch \/ Passes \/ Receive \/ CaptureHolders \/ AskAt30
                \/ ScoreToken \/ TradeElsewhere \/ Reclassify

FeaturesTypeOK ==
  /\ phase \in {"off", "queued", "observing", "watched"}
  /\ moment \in 0..LastMoment /\ begun \in 0..MaxBegin
  /\ ToSet(received) \cup ToSet(after) \subseteq ToSet(flow)
  /\ landed \subseteq Captures
  /\ at30 \in Nat \cup {Unknown} /\ scoring.at \in Nat \cup {Unknown}

(* The horizon of the label is over: the training set takes the token.      *)
Over == Scored /\ moment = LastMoment

(* Trades of the past that were stored only after the scoring.              *)
Since(age) == {t \in ToSet(after) : t.at <= age}

TradesAlike(given, row) ==
  /\ Since(scoring.at) = {} => row.top = given.top /\ row.snipers = given.snipers
  /\ Since(FullEnd) = {} => row.timed = given.timed

(* The T+30 model: the scoring is taken to be at T+90, and the checkpoint   *)
(* saw whatever had come by then.                                           *)
EarlyTradesAlike ==
  /\ scoring.at = FullEnd /\ at30 # Unknown /\ Since(1) = {}
  /\ Seen30 = Until(received, 1)
  => /\ Trained30.top = Served30.top /\ Trained30.snipers = Served30.snipers
     /\ elsewhere = scoring.elsewhere /\ marked = scoring.marked =>
          Trained30 = Served30

WalletsAlike(given, row) ==
  /\ \A w \in ToSet(row.top) \cap ToSet(given.top) \cap Travellers :
       elsewhere[w] = scoring.elsewhere[w] =>
         /\ w \in DOMAIN row.priors <=> w \in DOMAIN given.priors
         /\ w \in DOMAIN given.priors => row.priors[w] = given.priors[w]
  /\ row.top = given.top /\ marked = scoring.marked =>
       \/ row.marks = given.marks
       \/ /\ row.marks = Unknown
          /\ \A w \in DOMAIN given.priors : elsewhere[w] # scoring.elsewhere[w]

HoldersAlike(given, row) ==
  /\ scoring.answered
  /\ Unknown \notin {given.holders.early, given.holders.late}
  /\ 4 \notin landed \ scoring.landed
  => row.holders = given.holders

(* A token labelled dead on arrival had no later trade, but those beyond    *)
(* the window that the handler collected and dropped.                       *)
DeadHadNoTrades ==
  Label = "doa_no_trades" =>
    \A t \in ToSet(received) \cup ToSet(after) :
      t.at >= scoring.at => t.at > FullEnd

(* The row a token has in the training set, whenever it is built, is what    *)
(* the entry model was given when it decided, but for what the parts name:  *)
(* a trade of the past stored after the scoring; a wallet that traded       *)
(* another token since, whose row then drops out or grows, and with the     *)
(* last such row the counts of the marks; a classification since; a lookup  *)
(* of holders that failed, found no value, or was overtaken by the T+120    *)
(* capture; and for the T+30 model, a scoring at another time than T+90     *)
(* (build_dataset.py against pipeline.py, feature_hydration.py).            *)
ServedAsTrained ==
  Over => LET given == Served
              row == Trained
          IN /\ TradesAlike(given, row)
             /\ EarlyTradesAlike
             /\ WalletsAlike(given, row)
             /\ HoldersAlike(given, row)
             /\ DeadHadNoTrades

(* The pipeline's score of a creator with no earlier token.  Its snapshot of *)
(* the holders has none of the keys the gates of the scorer read.           *)
PipelineSays(trades) ==
  FullSays(trades, 0, [priors |-> 0, tokens |-> 0], << >>)

InOrder(trades) == trades = ByTime(trades)

(* A replay of the stored trades scores the token as the bot did, unless a  *)
(* trade of the window was stored after the scoring; the fast score also    *)
(* needs the trades to have come in order (metrics.py, fast.py,             *)
(* sources/replay.py).                                                      *)
ReplayScoresAlike ==
  Over /\ Since(FullEnd) = {} =>
    /\ PipelineSays(Until(Replayed, FullEnd)) = PipelineSays(Window90)
    /\ InOrder(Window90) =>
         FastSays(Until(Replayed, QuickEnd)) = FastSays(Until(Window90, QuickEnd))
=============================================================================
