-------------------------- MODULE CreatorSnapshots --------------------------
(***************************************************************************)
(* What the bot knows of a creator when a token arrives.  The intake stores *)
(* the token, takes the view of the creator as of that token, and starts a  *)
(* shadow capture: a snapshot of the creator's earlier tokens that is       *)
(* served from the table while it is fresh, refreshed behind the caller     *)
(* while it is stale, and fetched again otherwise.  Tokens of one creator   *)
(* arrive in any order, and captures land late, fail or time out.           *)
(***************************************************************************)
EXTENDS Scoring

CONSTANTS
  CreatedAt,   (* token -> created_at                                      *)
  Fates,       (* token -> how its live score may judge it                 *)
  FreshFor,    (* ttl_fresh_sec                                            *)
  StaleFor,    (* ttl_stale_sec                                            *)
  FetchFor,    (* fetch_timeout_sec                                        *)
  ContextFor,  (* the window of the counts around a token                  *)
  ScoredAfter, (* from created_at to scored_at                             *)
  MaxClock,    (* bound: when the model stops                              *)
  MaxFetches   (* bound: captures that may be under way at once            *)

ASSUME CreatorAssumption ==
  /\ FreshFor \in Nat /\ StaleFor \in Nat /\ FreshFor <= StaleFor
  /\ FetchFor \in Nat \ {0} /\ ScoredAfter \in Nat /\ MaxClock \in Nat /\ MaxFetches \in Nat
  /\ \A t \in DOMAIN CreatedAt : CreatedAt[t] \in Nat

VARIABLES
  clock,      (* now; -1 when the job is another one                       *)
  tokens,     (* the creator's tokens by insert_order                      *)
  intake,     (* the token stored whose view is not yet taken, if any      *)
  views,      (* token -> what its handler was given                       *)
  fates,      (* token -> what its live score says: a rug, graduated       *)
  snapshots,  (* creator_snapshots by id                                   *)
  fetches     (* the captures under way                                    *)

creatorVars == <<clock, tokens, intake, views, fates, snapshots, fetches>>

CreatorInit ==
  /\ clock = 0 /\ tokens = <<>> /\ intake = {} /\ views = << >>
  /\ fates = << >> /\ snapshots = <<>> /\ fetches = {}

CreatorOff ==
  /\ clock = -1 /\ tokens = <<>> /\ intake = {} /\ views = << >>
  /\ fates = << >> /\ snapshots = <<>> /\ fetches = {}

NoSnapshot ==
  [at |-> -1, priors |-> 0, rugs |-> 0, graduated |-> 0, age |-> 0, pace |-> 0]

(* The newest snapshot of some, the later row deciding a tie.               *)
Newest(ids) ==
  IF ids = {} THEN NoSnapshot
  ELSE snapshots[CHOOSE i \in ids : \A j \in ids :
         \/ snapshots[i].at > snapshots[j].at
         \/ snapshots[i].at = snapshots[j].at /\ i >= j]

(* get_creator_snapshot_latest                                              *)
Latest == Newest(DOMAIN snapshots)

(* get_creator_snapshot_as_of                                               *)
LatestAsOf(ref) == Newest({i \in DOMAIN snapshots : snapshots[i].at <= ref})

(* The tokens stored before a token.                                        *)
Earlier(t) == {tokens[i] : i \in {j \in DOMAIN tokens :
                 \E k \in DOMAIN tokens : tokens[k] = t /\ j < k}}

(* Counts of the tokens before a token and near it.                         *)
Near(t, ages) ==
  Cardinality({u \in Earlier(t) : CreatedAt[t] - CreatedAt[u] \in ages})
ContextOf(t) == [recent |-> Near(t, 1..ContextFor - 1),
                 concurrent |-> Near(t, 1..ContextFor)]

Percent(some, all) == IF all = 0 THEN 0 ELSE (100 * some) \div all

View(t, s) ==
  [tokens |-> Cardinality(Earlier(t)), priors |-> s.priors,
   rugs |-> Percent(s.rugs, s.priors),
   graduated |-> Percent(s.graduated, s.priors), age |-> s.age,
   pace |-> s.pace]

NoView == [tokens |-> 0, priors |-> 0, rugs |-> 0, graduated |-> 0, age |-> 0,
           pace |-> 0]

(* Fault: the view takes the newest snapshot, whenever it was observed.      *)
AsOfLatest(t) == IF Earlier(t) = {} THEN NoView ELSE View(t, Latest)

(* get_creator_stats_as_of_sync: the earlier tokens by insert_order and the *)
(* newest snapshot observed before the token's birth, if that is not zero;  *)
(* nothing without an earlier token.                                        *)
AsOf(t) ==
  IF Earlier(t) = {} THEN NoView
  ELSE View(t, Newest({i \in DOMAIN snapshots :
                         CreatedAt[t] > 0 /\ snapshots[i].at < CreatedAt[t]}))

(* LocalSnapshotSource: the tokens stored by now and born before ref, with  *)
(* their live scores; nothing when there is none.                           *)
LocalRows(ref) == {t \in ToSet(tokens) : CreatedAt[t] < ref}
Computed(ref) ==
  LET rows == LocalRows(ref)
      of(fate) == Cardinality({t \in rows \cap DOMAIN fates : fates[t] = fate})
      born == {CreatedAt[t] : t \in rows}
  IN [at |-> ref, priors |-> Cardinality(rows), rugs |-> of("rug"),
      graduated |-> of("graduated"), age |-> ref - Min(born),
      pace |-> (Max(born) - Min(born)) \div Max({Cardinality(rows) - 1, 1})]

(* The features of the entry model: an interval between tokens is unknown   *)
(* for a creator of fewer than two.                                         *)
CreatorFeats(v) ==
  [priors |-> v.priors, age |-> v.age,
   pace |-> IF v.priors < 2 THEN Unknown ELSE v.pace]

(* The columns of the training set: of the newest snapshot by the scoring,  *)
(* the counts being zero and the rest unknown when there is none.           *)
TrainedSnapshot(t) == LatestAsOf(CreatedAt[t] + ScoredAfter)
TrainedCreator(t) ==
  LET s == TrainedSnapshot(t)
  IN [priors |-> s.priors, age |-> IF s = NoSnapshot THEN Unknown ELSE s.age,
      pace |-> IF s.priors < 2 THEN Unknown ELSE s.pace]

(* ------------------- steps --------------------------------------------- *)
(* insert_token: a token seen before stays where it is.                     *)
InsertToken ==
  /\ clock >= 0 /\ intake = {}
  /\ \E t \in DOMAIN CreatedAt :
       /\ CreatedAt[t] <= clock /\ t \notin DOMAIN views
       /\ tokens' = Append(tokens, t) /\ intake' = {t}
  /\ UNCHANGED <<clock, views, fates, snapshots, fetches>>

InFlight(kind) == {f \in fetches : f.kind = kind}

(* get_for_live of the shadow capture: nothing while fresh; a refresh while *)
(* stale, unless one is under way; a fetch otherwise, though one is.        *)
Captured ==
  LET age == clock - Latest.at
      known == snapshots # <<>>
      start(kind) == fetches \cup {[kind |-> kind, at |-> clock, row |-> NoSnapshot]}
  IN CASE known /\ age <= FreshFor -> fetches
       [] known /\ age \in FreshFor + 1..StaleFor ->
            IF InFlight("refresh") = {} THEN start("refresh") ELSE fetches
       [] OTHER -> start("fetch")

(* The rest of the intake: the view, then the shadow capture.               *)
TakeView ==
  /\ intake # {} /\ Cardinality(fetches) < MaxFetches
  /\ \E t \in intake :
       views' = [u \in DOMAIN views \cup {t} |->
                   IF u \in DOMAIN views THEN views[u]
                   ELSE [seen |-> AsOf(u), context |-> ContextOf(u),
                         awaited |-> \E f \in fetches : f.at < CreatedAt[u]]]
  /\ intake' = {}
  /\ fetches' = Captured
  /\ UNCHANGED <<clock, tokens, fates, snapshots>>

(* The source reads the tables, in a thread of its own.                     *)
ReadRows ==
  /\ \E f \in fetches :
       /\ f.row = NoSnapshot /\ LocalRows(f.at) # {}
       /\ fetches' = (fetches \ {f}) \cup {[f EXCEPT !.row = Computed(f.at)]}
  /\ UNCHANGED <<clock, tokens, intake, views, fates, snapshots>>

(* After the balance of the wallet the snapshot is stored.                  *)
Persist ==
  /\ \E f \in fetches :
       /\ f.row # NoSnapshot
       /\ snapshots' = Append(snapshots, f.row) /\ fetches' = fetches \ {f}
  /\ UNCHANGED <<clock, tokens, intake, views, fates>>

(* The fetch fails, finds no token, or takes too long.                      *)
GiveUp ==
  /\ \E f \in fetches : fetches' = fetches \ {f}
  /\ UNCHANGED <<clock, tokens, intake, views, fates, snapshots>>

(* A token's live score is stored.                                          *)
Fate ==
  /\ \E t \in DOMAIN views \ DOMAIN fates, fate \in {"rug", "graduated"} :
       /\ fate \in Fates[t] /\ clock >= CreatedAt[t] + ScoredAfter
       /\ fates' = [u \in DOMAIN fates \cup {t} |-> IF u = t THEN fate ELSE fates[u]]
  /\ UNCHANGED <<clock, tokens, intake, views, snapshots, fetches>>

(* A capture never outlives its timeout.                                    *)
ClockTicks ==
  /\ clock \in 0..MaxClock - 1
  /\ \A f \in fetches : clock < f.at + FetchFor
  /\ clock' = clock + 1
  /\ UNCHANGED <<tokens, intake, views, fates, snapshots, fetches>>

CreatorNext == \/ InsertToken \/ TakeView \/ ReadRows \/ Persist \/ GiveUp
               \/ Fate \/ ClockTicks

CreatorTypeOK ==
  /\ clock \in -1..MaxClock
  /\ ToSet(tokens) = DOMAIN views \cup intake /\ Len(tokens) = Cardinality(ToSet(tokens))
  /\ DOMAIN fates \subseteq DOMAIN views
  /\ \A f \in fetches : f.kind \in {"fetch", "refresh"} /\ f.at \in 0..clock
  /\ Cardinality(InFlight("refresh")) <= 1

(* Whoever asks for the view of a token later, a replay or the backtest, is *)
(* given what the live handler was given, and the scorer's gates say the    *)
(* same, unless a capture begun before the token's birth was still under    *)
(* way when the view was taken.  The training set's columns are the         *)
(* features it had, unless there is no snapshot yet, or one was observed     *)
(* between birth and scoring, the token's own shadow capture for one        *)
(* (db.py get_creator_stats_as_of_sync, pipeline.py run, helius_creator.py, *)
(* build_dataset.py).                                                       *)
AsOfSettles ==
  \A t \in DOMAIN views :
    LET v == views[t]
        between == \E i \in DOMAIN snapshots :
          snapshots[i].at \in CreatedAt[t]..CreatedAt[t] + ScoredAfter
        comparable == /\ ~between /\ Earlier(t) # {} /\ CreatedAt[t] > 0
                      /\ TrainedSnapshot(t) # NoSnapshot
    IN ~v.awaited =>
         /\ AsOf(t) = v.seen /\ ContextOf(t) = v.context
         /\ CreatorGate(AsOf(t)) = CreatorGate(v.seen)
         /\ comparable => TrainedCreator(t) = CreatorFeats(v.seen)
=============================================================================
