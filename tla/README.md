# Formal model of solana_pulse_bot

`solana_pulse_bot` listens to launch and trade events of new Solana tokens, decides once per token and
configuration whether to enter, follows every position it opened trade by trade, and sells by a list of exit
rules. Almost everything of interest runs as coroutines of one asyncio event loop over a PostgreSQL database and
one or two websocket or gRPC feeds, so the hard part is not the arithmetic but what happens *between* two awaits:
two loops closing one trade, a task cancelled inside a statement, a reconnection that meets a new subscription,
a restart that finds half-finished positions. This directory holds TLA+ models of that part, TLC
configurations that check them, and TLAPS proofs about them.

Everything is read from the source under `src/`. Code between two awaits is one step. `PROJECT.json` maps each
definition to the lines it stands for.

## 1. Inventory

| Component | State | Operations | Hard behaviour | What makes it correct |
|---|---|---|---|---|
| **Token pipeline** `pipeline.py` | per token: collected trades, checkpoint verdict, score, a decision per configuration, who holds the subscription; slot counters per configuration | `run`, `_handle_token`, `_observation_checkpoint_loop`, `_extended_observation`, `_resume_open_trades`, `_paper_trade` | a checkpoint task beside the collection, one decision per configuration with lookups in between, reservation before the row exists, exceptions on every path, restart | one verdict for all configurations, the subscription given back or handed on, a slot per supervised position, a supervisor per open row |
| **Paper-trade supervisor** `paper_trade_supervisor.py` | `closed` flag, `close_lock`, two loop tasks | `run`, `_trade_stream_loop`, `_tick_loop`, `_close_via_runner_result` | loops race; `FIRST_COMPLETED` cancels the slower inside an await; exceptions before and inside the try block | one close per trade, honest reasons, slots given back |
| **Position, exit rules, pulse window** `core.py`, `pulse/` | remaining fraction (twice), fills, peak, window | `process_trade`, `tick`, `timeout_result`, `decide` | ordered rules, partial sales, a model that may hold or tighten, ticks on old windows, restart | fractions agree, P&L is that of the fills, limits stand |
| **PumpPortal feed** `launchpads/pumpfun.py` | socket, reader and watchdog tasks, queue per mint | `subscribe_trades`, `unsubscribe_trades`, `stream_trades`, reconnect | loss at any point, resubscription one mint at a time, several readers | subscriptions survive, trades neither lost nor doubled between socket and reader |
| **Multiplexer** `launchpads/multiplexer.py` | LRU of keys, bounded queue, two pumps per mint | subscribe, pump, stream | two sources deliver copies, pumps wait in a full queue, overlapping subscriptions | each trade once, none swallowed, either source is enough |
| **Geyser feed** `launchpads/geyser.py` (LetsBonk is a stub) | the stream's task, a queue per mint, the creators of tokens taken | `_stream_loop`, `_parse_transaction`, subscribe, stream | a stream that ends or breaks, queue objects read on after an unsubscription, creators forgotten with their mint | each reader gets the transactions of its subscription in order, nothing doubled |
| **Replay and backtest sources** `sources/` | a queue of recorded trades per mint; a cursor over all of them | `subscribe_trades`, `_drain_until`, `_drain_all`, `iter_trades` | several supervisors draw on one queue, what was peeked at is put back | no recorded trade lost or doubled |
| **Entry decision** `metrics.py`, `scorer.py`, `core.decide_entry`, `decision_service.py`, `filters/`, `entry_configs.py` | none across tokens | metrics, fast and full score, rule decision, five gates, override of the entry model, override of the checkpoints | trades out of order, a gate that fails open when its lookup fails, an override that undoes a gate | an entry is described and priced, whoever asked for it; a replay scores what the bot scored |
| **Bonding-curve execution** `execution_pumpfun.py` | transaction in flight; the curve and the wallet are on chain | `simulate_buy`, `simulate_sell`, `submit_buy`, `submit_sell` | the curve moves between quote and execution, send times out but lands, confirmation late or lost | executed within the slippage of the quote, nothing sent that was not allowed, success was seen |
| **Swap execution** `execution.py`, `execution_live.py`, `services/sim_executor.py` | transaction in flight, wallet balance | buy, sell, retry | as above, with retries of a sale | no double buy or sale, recorded state matches the chain |
| **Portfolio** `portfolio.py` | balance, positions, closed trades | `can_buy`, `open_position`, `partial_sell`, `close_position` | failed fills, partial sales | never more positions or less cash than there is |
| **Database** `db.py` | tables of tokens, trades, positions, wallets | statements, one transaction each | repeated inserts, additive upserts, unguarded updates | rows follow the lifecycle of what they record |
| **Collector, hydration, Helius clients** `collector.py`, `feature_hydration.py`, `helius_creator.py`, `helius_holders.py` | creator snapshots by time, refreshes under way | capture of holders and creators, `get_for_live`, as-of queries | rate limits, stale answers, captures that land after they are asked for | what is looked up *as of* a token never changes afterwards |
| **ML policies and training** `ml/train.py`, `ml/model_registry.py`, `ml/policy/`, `ml/survival.py`, `ml/entry_timing.py` | a model file and a meta file per role, their `.prev` copies; what the bot has loaded; thresholds | the trainers, `assess_skill`, `from_path`, `load_*_if_available`, threshold search, `predict` and `decide`, features, data sets, simulated exits | two files written one after the other while a bot reads them; a trainer that dies in between; rollback by hand; features computed once live and once from tables that have moved on | a gated model acts only on the verdict of its own training, is served what it was trained on, and answers by the order of its scores |
| **Wallet index and classifier** `ml/wallet_indexer.py`, `ml/wallet_classifier.py`, `db.py` | `wallet_activity`, `wallet_classifications` | backfill, upsert, `compute_clusters`, `classify_and_write` | additive upserts beside a backfill that may die; wallets that appear between two queries | each trade counted once, clusters are connected components |
| **Optimizer** `optimizer.py` | data set of the training part, combinations, heaps of results | preload, replay of a combination, ranking, holdout | the bot writes on meanwhile, workers finish in any order, slots freed at equal timestamps | training blind to the holdout, trades that could have been made, best ranked |
| **Backtest** `backtest.py` | clock, candidates, portfolio | `_run_timeline` | entries wait for the next trade, expiries are dated back | no more positions at a trade than allowed |
| **Observability, dashboards, LLM, task API, scripts** | none, or a table of their own | read-only views, CRUD | none | display |

How they interact: `Pipeline.run` reads `stream_new_tokens` and starts a handler per mint; the handler subscribes
the mint's trades, collects a prefix of them, asks the decision service once per entry configuration, reserves a
slot per accepting configuration and starts one supervisor each. A supervisor owns a `PaperTradeRunner` (which
owns the `ExitManager` and the `PulseMonitor`), consumes `stream_trades` of the launchpad, and writes the row.
When it ends it gives back the slot and unsubscribes the mint. On start the pipeline resumes all open rows.

## 2. Modules

| Module | Models | Extends / composes |
|---|---|---|
| `PaperTrade` | slot reservation, supervisor, loops, row, restart | `PositionBook` through `Book` |
| `PositionBook` | abstract specification: what the book of positions promises | |
| `PaperTradeProofs` | proofs about `PaperTrade` and the refinement | `PaperTrade`, TLAPS |
| `PaperPosition` | runner, exit manager, exit model, pulse window of one position | |
| `PaperPositionProofs` | proofs about `PaperPosition` | |
| `TradeFeed` | PumpPortal client: socket, reader, watchdog, queues, consumers | |
| `TradeFeedProofs` | proofs about resubscription and the way of a trade | `TradeFeed`, TLAPS |
| `GeyserFeed` | the validator's stream, decoding, queues, readers and known creators | |
| `Multiplexer` | one mint's pumps, dedup keys and bounded queue over two sources | |
| `MultiplexerProofs` | proofs about deduplication | `Multiplexer`, TLAPS |
| `PumpExecution` | calls of `PumpFunExecution` and the curve they trade on; the chain is external | |
| `PumpExecutionProofs` | proofs about `PumpExecution` | |
| `EntryDecision` | rule decision, gates and overrides of one token, as operators | `Selection` |
| `Scoring` | the metrics of a list of trades and the two scorers, as operators | `EntryDecision` |
| `Features` | a token from its trades to the features served, replayed and trained on | `Scoring` |
| `CreatorSnapshots` | what is known of a creator: as-of counts, snapshots, captures | `Scoring` |
| `TokenPipeline` | a token from its handler to its supervisors, with the checkpoint task | `EntryDecision` |
| `ModelLifecycle` | trainers, model files, gates of the bot that loads them | |
| `ModelVerdict` | threshold search, loading of thresholds, the answer to a score | |
| `ExitLabels` | a live position with ticks and survival exit, the replay of its trades and the life counted of it | `Selection` |
| `Portfolio` | the portfolio of a replay, as operators on a record | |
| `Selection` | the members of a sequence that belong to a set, as an operator | |
| `Sweep` | the optimizer | `Portfolio`, `Selection` |
| `Backtest` | the backtest engine with simulated fills | `Portfolio`, `Selection` |
| `ReplayFeed` | the queue of a replayed mint and its readers | |
| `WalletLedger` | `wallet_activity` between the bot's upserts and the backfill | |
| `WalletClusters` | pairs, union-find and the published classification | |
| `Bot` | one process of the program: it does one of the twelve jobs whose modules follow | `TokenPipeline`, `ModelLifecycle`, `Sweep`, `Backtest`, `ReplayFeed`, `WalletLedger`, `WalletClusters`, `Features`, `CreatorSnapshots`, `ModelVerdict`, `ExitLabels`, `GeyserFeed` |
| `HistoryProofs` | proofs about the jobs that go over recorded trades, a position and its replay, and sums, folds and selections | `Sweep`, `ReplayFeed`, `Backtest`, `ExitLabels`, TLAPS |
| `TokenProofs` | proofs about a token as the bot meets it: pipeline, creator, geyser's feed, features | `TokenPipeline`, `CreatorSnapshots`, `GeyserFeed`, `Features`, `HistoryProofs` |
| `BotProofs` | proofs about the models' files, the wallets and the process as a whole | `Bot`, `TokenProofs` |
| `MC…` | values of the constants for TLC | the module of the same name |

**PaperTrade.** A trade is a pair of configuration and mint. `sup`, `stream` and `tick` are the program counters
of the supervisor coroutine and its two loops: `wait` is an await on the queue or the sleep, `handle` a
statement between taking a trade and judging it, `closing` the await of `close_paper_trade` after `closed` was
set. `Reap` is the return of `asyncio.wait(FIRST_COMPLETED)`: it cancels what is pending, and a cancelled
`closing` leaves its UPDATE applied or not. `held` says that the queue object a loop reads is still the one the
launchpad feeds. With `DbMayFail`, every awaited statement may raise where the code awaits one. `Crash` keeps
the rows; `Resume` is `_resume_open_trades`. The live marks (`update_paper_trade`) are left out: they write display
columns only.

**PaperPosition.** `Rules` lists what `ExitManager.decide` would do by each rule in the code's order and `First`
takes the first that fires. P&L and fractions are whole percents and P&L of a fraction is percent times percent,
which is exact. The exit model's verdict is any that its policy can give. A snapshot is three facts: a pulse rule
fires, the buy rate is weak, new wallets were seen. `sold`, `earned` and `top` are history. Priority fees are
left out and the dynamic maximum hold, off by default, too.

**TradeFeed.** Queues are numbered objects, because a consumer goes on reading the queue it looked up after the
mint was unsubscribed. `conn` distinguishes how a socket ended, because `async for` raises only in one case.

**Multiplexer.** The trades of the market are numbered; `Syn` says which synthetic key each source's copy has, so
confusable trades are part of the instance. `holding` is a pump that waits in `put`.

**PumpExecution.** `pc` names the await a call is in. `snap` is the curve it fetched, `tx` the instruction it signed
from it (the amount of tokens and the SOL limit), `chain` and `fork` what the chain has made of the transaction on
confirmed blocks and on a fork at commitment `processed`. The Pump.fun program is taken to price by the code's own
formula, to charge for a buy the least SOL that yields its tokens, and to revert past the instruction's limit. Only the
simulated path is wired into the bot (`services/sim_executor.py`); the submitted one is a public method behind a flag,
and `allowLive` is that flag, given either way. SOL in the wallet and priority fees are left out.

**EntryDecision, TokenPipeline.** `EntryDecision` keeps the order of `_handle_token`: `DecideEntry` and the creator's
blacklist once, on the decision all configurations share; then per configuration bots, wash cluster, smart money, top
three, the entry model's override, and the checkpoint's. A gate is a function of a decision and of the marks its lookup
found; `answered` is the set of the gates whose lookup did not raise: where it did, the gate lets the decision pass. (A
gate also passes a token without a time of creation, which every feed sets; that return is left out.) Scores, probabilities
and forecasts are small numbers and an input; the marks may change between two configurations, because the classifier
runs beside the bot. `TokenPipeline` is the handler: `stage` is where it is, `checkpoint` the parallel task with the
dictionary it shares, `stream` whoever is responsible for the subscription. Ages count the 15 s of a checkpoint period;
a trade may arrive a period late and a token may wait for the semaphore. A slot that is taken is any subset of
configurations in `Spawn`: `PaperTrade` counts them. `HandlerError` is the `except` of the handler, possible at each of
its stages, `TaskCrash` that of the task.

**Scoring, Features.** `Scoring` has the metrics of a list of trades, with the defensive sort they begin with, the hard
gates of the scorer and its fast and full points. A rate or a share is compared by cross-multiplication, a rule with
several thresholds is a set of tiers (`Graded`), and a score may be BORDERLINE; weights and thresholds are small numbers.
The gate on the market cap is that on the curve, with which a cap rises where the feed gives one. `Features`
is one token: `Watch` subscribes it, trades arrive late and out of order (`received`, and `after` for those its watchers
store once it is scored), holder captures land beside the handler, and in `TradeElsewhere` and `Reclassify` the rest of
the system trades with and classifies the token's wallets. `Served` and `Served30` are what hydration gives the T+90 and
T+30 models, `Trained` and `Trained30` what `build_dataset` later reads from the tables for the same token, `Replayed`
the order in which `sources/replay.py` and the backtest take the stored trades. `ServedAsTrained` and
`ReplayScoresAlike` name the exact circumstances (late trades, missed captures, wallets that went on trading) under
which they differ. Live and in training the features of the wallets, classifications included, are all missing when no
large buyer has a past (`WalletMarks`). So when the last buyer with a past has traded elsewhere, the classifications go
too, though nobody was classified anew: `WalletsAlike` has this as a case of its own.

**CreatorSnapshots.** Tokens of one creator arrive in any order; `intake` is the await between storing a token and
taking the creator's view of it. A capture is `fresh`, `stale` (served and refreshed behind the caller) or fetched,
times out, fails or lands late. `AsOfSettles` says that what the live handler was told of a creator is what a replay,
the backtest and the training set are told later, and names the captures that make the difference.

**ModelVerdict.** `course` goes from the validation set to the search (`FloorOn`, `CeilingOn`: buckets from below and
from above, a least number of rows, clipped P&L), to the meta file, to the policy that loads it (overrides of a config,
inert models, the skill gate, the switches), to one answer. The T+30 head has its own fixed thresholds. `VerdictRanks`
says that of two scores the higher one never gets the worse answer, whatever the validation set, the overrides and the
switches.

**ExitLabels.** One `life` of a token, entered live at `entry` (any moment, any price: a fill's price is that of the
fill) and streamed from `opened` on; `held` is the runner. `HearTrade`, `TickPosition` (which asks the survival model
when the rules hold) and `EndStream` are the live position. `Simulated` and `SimulatedBatch` are `simulate_exit.py`,
`BuildFromRecords` is `survival.py`. `LabelsAsLived` relates the two sides, given the same entry: no price rule fires on
one side after the other ended, and what a training counted as life stays life. A simulation ends at the latest one tick
after the maximum hold, or the lag of the stream after it, whichever is later, because a late stream goes on for the
maximum hold from where it opened. Left out: the rules of the pulse; the exit model's advice; and the partial sales
(`strong_profit`, `weak_pulse_profit`). A partial sale comes after every rule modelled here, ends nothing and changes no
price, so no exit moves; it weighs in the row's P&L, and its ticks fall at different moments live and simulated, so that
nothing is claimed of the P&L of the two sides, and whether a row is a death's loss is free (`lost`). Which entry a data
set takes is not modelled either: `build_dataset.py` takes the next buy after the scoring, `entry_timing.py` the spot
price `v_sol / v_tokens` of the curve at a checkpoint, which is not the price of any fill. The labels of checkpoints made
of the latter (`BUY_NOW`, `WAIT_MORE`, `SKIP`) are therefore no promise about a live position, and not modelled.

**GeyserFeed.** `wire` is the task that reads the stream; a transaction is what its logs say and whether balances
changed. `queues` are objects, as in `TradeFeed`: a reader keeps its own. `makerOf` is the creator of each mint, learnt
when the bot takes the token and forgotten when it unsubscribes.

**ModelLifecycle.** A model file and a meta file hold the number of the training that wrote them, or are absent or torn.
A trainer judges (`EntryHealth`, `AssessSkill`), copies the old files to `.prev`, saves the model, truncates the meta
file and fills it, and may die between any two of these. A load reads meta, model and (for the entry model) meta again.
`unpaired` and `raced` are history: models that a failure parted from their meta, and loads that overlapped a write. The
metrics of a fit are an input. The entry, regression and T+30 models, the quantile and the hold model (`GateOther`) are
judged when they are loaded; the survival, timing and exit models are loaded ungated (`Ungated`), as the code does.

**Portfolio, Sweep, Backtest.** `Portfolio` is `portfolio.py` on a record, a position's remainder in quarters. `Sweep`
reads the history token by token while `BotWrites`, replays each combination with a heap of exits (`kind` 0 frees the
slot at the moment of the exit, 1 after it) and a count of cash, and ranks in a bounded heap. What the scorers want of a
token, the exit it comes to and the SOL it brings back are chosen freely among what its trades allow. The parallel run
drops a result that cannot be consumed, the serial one a combination that raises. `Backtest` scores first
(`ScoreTokenForEntry`), then takes one trade after the other in the order of time, and at each one closes what expired,
opens what is due and hands the trade on, as `_run_timeline` does; an exit rule may sell all or any part, as often as
something is left. A sale is priced from the last `Recent` trades (20 in the code).

**ReplayFeed, WalletLedger, WalletClusters.** In `ReplayFeed` each supervisor's draw is a coroutine that other
supervisors interleave with. `WalletLedger` counts how often each trade was added to `wallet_activity`, which is what
the additive upsert loses; the backfill's cursor is a snapshot of `trades`, its batches are committed one by one.
`WalletClusters` runs `find` one halving step at a time, because each step rewrites the forest.

**Bot.** `main.py` runs one command and returns, so `Bot` starts in the initial state of one job and the variables of
the others keep the value they have when that job is not run (`…Off`); every property of a job holds trivially while
another one runs. What does run at the same time as a job (the checkpoint task, the bot beside the trainer, the sweep,
the backfill and the classifier, the other readers of a queue) is inside its module.

Operators named in comments as *Fault* are plausible mistakes (a dropped guard, an off-by-one, a swapped order);
they are not part of any specification. Substituting one for the action it imitates makes TLC violate the property
that `PROJECT.json` pairs it with, which shows that the property depends on the code.

## 3. Runs

| Run | Instance | Shows |
|---|---|---|
| `PaperTrade_portfolio` | 1 configuration, 2 mints, cap 1, failures, 2 restarts | exact slot accounting, cap, one close, no early expiry |
| `PaperTrade_shared_mint` | 2 configurations, 1 mint, 1 restart, fair | refines `PositionBook`; open rows owned; slots come back; who can starve a trade |
| `PaperTrade_left_open` | 1 trade, no failures | **violation**: a finished supervisor leaves its row open |
| `TradeFeed_feed` | 2 mints, 2 readers, 2 queues, 2 trades, 2 losses, 2 attempts, fair | resubscription, each trade once and in order, broken connections replaced |
| `TradeFeed_clean_close` | 1 mint, 1 loss, fair | **violation**: a cleanly closed connection is not replaced |
| `Multiplexer_dedup` | 2 callers, 2 sources, 3 trades (the last like its predecessor for the primary, stamped later by the fallback), queue of 1, fair | each trade once, none swallowed, either source suffices |
| `PaperPosition_rules` | 6 prices, window 3, hold 2, all thresholds crossed, no HOLD_HARD | fractions agree, exact P&L, the trailing stop stands |
| `PaperPosition_hold_hard` | 4 prices, HOLD_HARD, 1 restart | the exit model cannot keep what the rules sell |
| `PaperPosition_hold_untrailed` | as `rules`, HOLD_HARD | **violation**: a blocked take-profit never raises the peak |
| `PumpExecution_market` | 2 calls (symmetric), 2 buy sizes, 1 sale size, a curve of 24 tokens and 9 SOL, fee 10%, slippage 20%, 1 trade of others | slippage, fillable limits, nothing sent without leave, success was seen |
| `PumpExecution_unconfirmed` | the same | **violation**: success without a confirmation |
| `Bot_jobs` | each job in turn: 2 configurations with all gates between them, 2 trades, 3 setups of the switches; 6 kinds of models deployed, the gated pair under all switches, 2 trainings, a death, a rollback, a restart; 3 tokens in 2 histories, a grid of 6 with 2 combinations run, 1 rank, 1 slot, cash for one buy; a backtest of 2 tokens and 3 trades; 6 replayed histories with 2 readers; 3 trades, 2 passes of the backfill; 4 wallets, 2 sets of pairs; 2 flows of 3 trades with 3 holder captures; 3 tokens of a creator with up to 2 captures under way; validation sets of up to 3 rows for 3 heads; short lives of a token with 4 entries under 2 survival models; a geyser stream of 3 transactions and 2 subscriptions | the properties of section 1's last column for the twelve jobs (about 820,000 states) |

Bounds. Conflicts over a slot need two claimants and a cap of one; conflicts over a mint need two configurations. A
restart matters at most twice: once over rows of the first life and once over rows a resumed supervisor left. In the
feed a second loss during the resubscription of the first is the deepest race, and it needs two mints to be half done.
In the multiplexer both pumps can wait at once only with three trades, one in the queue and one in each hand. The prices
of the position runs lie on each side of every threshold, and one second more than the longest hold passes. On the
curve, two calls can buy over each other or buy and sell, a third party can move the price in either direction in
between, and reserves are small so that every division rounds; fees and slippage are far above the real ones (1%) for
the same reason. In `Bot_jobs` two configurations are what a verdict can divide, and two trades are an early and a late
one. One window of three checkpoint periods contains the T+30 question, a question of the timing model before it and one
after it. Two trainings are a good and a bad one in either order, so that each can replace the other while a load runs.
The three tokens of the sweep interleave: one ends when the next is entered, one is born before the split and ends after
it; with two workers' results and one rank, either result may come first. In the backtest one token may expire, be
silent or be sold while the other waits for its turn, and three trades are enough for an expiry noticed late. The
replayed histories are empty, within the window, across it, with a silence and with equal timestamps. Two passes of the
backfill let one die and the other repeat it. Four wallets make a tree of depth two, the least in which a path is
halved. A feature needs a trade that may be missed, one on a moment and one that may be late, hence three; ages run to
one past the window (`LastMoment` 4) and the two largest buyers are asked for (`TopCount` 2): the buyer that
trades elsewhere after the scoring is then one of two with a past, or the only one among the trades in time. A capture must be
able to be fresh, stale and expired within three ticks, so `FreshFor` is 0, `StaleFor` 1 and `FetchFor` 1 (with
`ContextFor` 2, `ScoredAfter` 1). Three validation rows are one row below, between and above two thresholds (`MinBucket`
1, P&L clipped to −100..200); scores of the regression head may be negative, those of the classifiers are probabilities
(`Probabilities`). A validation set has a row: on an empty one the fit before the search raises and nothing is written.
In `ExitLabels` the maximum hold is three seconds, ticks come every two and silence ends a position after two, so each
may come first; prices lie on both sides of the stop (15%), the target (90%) and the trailing stop, from either price of
an entry; nine seconds leave room for a life, a late stream and the time after it. Of the geyser's four kinds of
transaction one creates and buys, one sells, one does both and one changes nothing; two subscriptions are the least in
which a queue outlives its own. The cap, the window and the counters are otherwise unbounded in the modules; every bound
is a constant and named as one.

Fairness. The event loop runs every ready task, so steps of the supervisor, the loops' own continuations, pumps,
the reader task and awaited answers of the database are weakly fair. `StreamEnd` is strongly fair: trades may
keep arriving, but `stream_trades` compares the wall clock with its deadline each time round. `PumpPut` is
strongly fair because `asyncio.Queue` wakes waiting putters in order. In `Bot_jobs`, `PipelineFair` asks for weak
fairness of the handler's steps, of the extended observation's end and of time, and nothing of the checkpoint task:
`StreamHandedOn` holds though it may never answer. Nothing is assumed of the market, the
exit rules, connections or callers.

`TypeOK` of each module with proofs is an invariant of the proofs (and of `HoldIsBounded` only the theorem `LimitsStand`
speaks); the runs spend their time on what the type does not say.

Deadlock is not checked where the system may stop: a bounded instance runs out of mints, trades, losses or
restarts, and a closed position stays closed.

### Disagreements with what the code says of itself

Four are runs (see `findings`):

* `PaperTrade_left_open`. The stream loop returns, its stream over. Before `run` goes on, the tick loop wakes, sets
  `closed` under the lock and awaits `close_paper_trade`; `run`, which waited for the first of the two loops, cancels
  the tick loop inside that UPDATE and returns because `closed` is set. Nobody retries: the slot is freed and the row
  stays `open` until a restart resumes it. `OpenRowHasOwner` therefore says that an open row has an owner unless its
  close was claimed.
* `TradeFeed_clean_close`. After a complete closing handshake (the watchdog's own `close()` included), iteration
  ends without an exception and `_ws_reader_loop` goes round on the closed socket.
* `PaperPosition_hold_untrailed`. A take-profit blocked by HOLD_HARD returns before the peak is recorded and before
  the timeout check, although the comment calls trailing stop and timeout immutable.

* `PumpExecution_unconfirmed`. On its deadline `confirm_signature` returns the last status it polled, and its callers
  look at `err` alone instead of also at `confirmationStatus`: a transaction seen only at commitment `processed` is
  reported as a success and may still be dropped. `SuccessWasSeen` states what success does mean.

Others met while modelling, which the passing properties state as their exact exception:

* A failed INSERT (or resume query) is raised before the try block, so its slot is never given back
  (`RaiseBeforeTry` ends in `dead`). No property catches this leak: a supervisor in `dead` counts as a holder in
  `SlotAccounting`, and `SlotEventuallyFreed` is checked without failures.
* The first configuration to end unsubscribes the mint under the others (`StarvedBySibling` says it is the only
  cause), and supervisors of one mint take trades from one shared queue, each seeing a part of the market.
* With a tick of 0 seconds, documented as "disables the tick task", the tick loop returns at once and ends the
  supervision as `dead_token`; `HonestExpiry` is proved and checked with the tick enabled.
* Overlapping subscriptions of a mint in the multiplexer both pass the "idempotent" check and spawn two pairs of
  pumps; `Multiplexer_dedup` includes this and shows that trades are still handed on once.
* Two trades of a wallet in the same second with the same size share the synthetic key, and the second is dropped
  although its signature is new; copies stamped in different seconds are both emitted. `NothingSwallowed` and
  `EmittedOnce` have precisely these exceptions.
* A position resumed after a partial sale starts with a whole position and no fills; `BookedIsEarned` is checked
  without restarts.
* With the default thresholds (`exit_no_new_wallets_events` below `pulse_min_events`) the first tick after the
  window is warm sees no new wallets, by construction of the tick's snapshot, and closes a healthy position.
* The `is_feed_funded` gate of the PumpPortal feed reads a timestamp nothing sets; lack of funds ends the process
  instead (`Unfunded`).

Entry and pipeline:

* `filter_creator_blacklist` hands `one` positionally (`decision_service.py:398`) to the keyword-only `_sync_query`
  (`db.py:302`). The TypeError is swallowed, so the gate lets every creator pass; `Gates` models it so.
* `filter_bot_cluster` says "ML cannot second-guess this", but a BUY of the entry model or of the checkpoint turns its
  skip back into an entry. `EntryDescribed` is therefore about entries whoever asked for them.
* `decide_entry` means not to enter on the fast score alone "if full explicitly rejected", and tests `total_score < 0`,
  while the scorer answers 0 on a hard rejection.
* `fast_ids = trade_ids[:len(fast_trades)]` (`pipeline.py:994`) takes the order of arrival for that of the timestamps,
  as the first filter of the metrics does. Trades that a late handler collects beyond its window are dropped unstored.
* `_attach_sim_metadata` means the live row and updates the newest open row of the mint (`db.py:1237`).
* The live pipeline passes the scorer a snapshot keyed `top1_30` and so on, and the gates on holders read `top1_pct`,
  `top5_pct` and `top1_delta_pct` (`scorer.py:258-283`): they never fire live, and do in the optimizer, which passes
  those (`optimizer.py:905-945`). `ReplayScoresAlike` is stated with the empty snapshot that the gates see live.
* `_schedule_onchain_capture` (`pipeline.py:673`) calls `save_mint_onchain_state` without its required `checked_at`
  (`db.py:1451`); the TypeError is swallowed.

What a model is served and trained on (`ServedAsTrained` and `AsOfSettles` name the differences):

* `hydrate_for_t30` speaks of trades the database already has at T+30; they are stored when observation ends. Training
  clips at `scored_at` − 60 s where its docstring says `scored_at` + 30 s and live means 30 s after creation.
* `_schedule_holder_capture` speaks of three snapshots and takes six by default. Training uses the holders' row at
  T+120 where there is one, live (at T+90) extrapolates; missing holder values are NaN live and partly 0 in training,
  and a lookup that raises is 0 live.
* The live view of a creator is of snapshots before the token's birth; the training's join takes one by `scored_at`, the
  token's own shadow capture included, which its docstring calls "not consumed". Without one the age is 0 live and NaN.
* `wallet_activity` is filtered by a wallet's *last* trade, so that a wallet that goes on trading drops out of earlier
  rows, and with the last such buyer all features of the wallets; `wallet_classifications` has no as-of at all, and
  `_compute_time_aware_features` no clip at the scoring.
* `SCORER_FEATURES` lists `sol_price_usd`, which no live result carries.
* `CreatorSnapshotService` joins concurrent refreshes ("single-flight") and not its synchronous fetches.

Simulated exits and labels (`LabelsAsLived` has those that concern an exit):

* `simulate_exit` promises the live exit. It knows no silence, which ends nearly every live position as `dead_token`,
  and with fewer than `pulse_min_events` trades its ticks do nothing, so that the exit at the deadline takes the price
  of trades that come any time later. `_replay_trades` says that `tick()` checks inactivity and survival; it checks
  neither. The batch skips the ticks of a token without trades, though "bit-identical".
* A dead token's exit time is its last event plus the silence, which may be after its real close; so `survival.py`
  counts a loss near the horizon as alive. Its docstring takes death from the exit's reason, its code from P&L below
  −3%.
* `extract_snapshot_features` says trades need not be sorted, though its first buy and price depend on it, and
  `build_for_token` says an empty token has P&L 0, where the code gives −1e9.

Models and wallets:

* The survival, exit and timing models are loaded without the gate on skill, against `entry_timing.py:556` and the
  "universal" gate of `assess_skill`; the timing model is loaded anew for each question though `pipeline.py:494` calls
  it cached.
* A model without skill "yields RULES for every token" (`policy/_main.py:364`): a score of exactly 1.0 still buys, with
  a regression head its floor of 0 and ceiling of 1 are percents, and with grey-to-skip it skips every token.
  `VerdictRanks` says what is left. The T+30 trainer searches and stores thresholds that its policy never reads.
* A meta file that cannot be parsed counts as a healthy and a skilled model. The model is written before its meta, and
  `from_path` reads the meta twice: `GateJudgesItsModel` excepts exactly what failed or raced there, and so does not
  guard against that race but names it.
* `auc_regression` compares with the previous training only, so that two small steps down pass; an AUC that is NaN
  counts as "ok". `retrain_all_8.sh` speaks of `.prev` files for all roles; the quantile, T+30 and regression trainers
  keep none, and the trainer's `main` never trains T+30 and exit. `survival.train` promises a RuntimeError and logs.
* `wallet_indexer.backfill` calls itself idempotent because "UPSERT handles it"; the upsert adds. `Rebuilt` holds for
  wallets untouched since a complete, undisturbed backfill that truncated the table; a rerun that does not truncate
  counts twice and is not covered.
* The classifier's `cluster_size` counts wallets that get no row.

The geyser's feed (`HeardAsReceived` has the conditions):

* Unsubscribing a mint forgets its creator, and tokens are not announced twice: after a resubscription, or a restart
  that resumes a position, no trade is marked as the creator's. A creator's buy inside the creation is no trade.
* The backoff is reset only by a stream that ends cleanly; the first error after a long healthy one waits the last
  sleep. `stream_trades` goes on after `disconnect` until its deadline.

Replay, sweep and backtest:

* The replay puts the trade it peeked at to the *back* of the mint's queue, where the comment says "keep rest in
  queue"; all configurations share one queue per mint and the first to end drops it. `ReplayRotates` says what is left
  of the order.
* The grid varies `observe_seconds` and the preload uses that of the base configuration. The parallel run ends on a
  worker's exception and the serial one goes on; the serial one scores without holder data.
* The optimizer's heap frees slots at the time of an exit, its comment (lines 65-72) and the backtest's order do not
  agree for an expiry at the moment of an entry. The "snapshot" of the data set reads under READ COMMITTED.
* `Portfolio.max_drawdown_pct` is the current drawdown. The backtest closes a position without a price for 0 SOL, the
  optimizer for its last price. The training part calls tokens dead that live on after the split.
* `LocalSnapshotSource` "strictly respects ref_ts", but a wallet's last trade and score are read as of the query.
* The optimizer orders a token's trades by timestamp, the replay and the backtest by timestamp and id. `main.py
  backtest` runs the pipeline on the replay, not `BacktestEngine`. `backfill_scoring.py:162` calls `execute` on a
  connection of psycopg2, which has none.

## 4. Proofs

TLAPS checks, for every value of the constants satisfying the modules' assumptions:

* **PaperTrade.** The inductive invariant `IInv` joins `TypeOK` with three facts: an idle trade has touched nothing
  (`Untouched`), a stopped process has no loops or flags (`Stopped`), and the program counters of supervisor and
  loops agree with each other, the flag and the row (`Agreement`: who is `closing` implies `closed` and an open row,
  and excludes anyone else). `CloseOnce` alone is not inductive: whether a second party may start a close depends
  on the flag, and the flag's meaning depends on where all three coroutines are. From `IInv` follow `ClosedOnce`,
  `ExpiryIsHonest` (tick enabled), and with counting lemmas over finite sets `SlotsAccounted` and `SlotsBounded`.
  `Implements` shows step by step that the system refines `PositionBook`: claims, cancellations and failures are
  stutters, `HandleToken` is an `Acquire`, an UPDATE that takes effect is the one `Close`. `OwnersStay` assumes
  `DbMayFail = FALSE` (a statement that fails leaves the supervisor without having closed its row) and is inductive
  next to `IInv`; `OnlySiblingsStarve` needs no such assumption, but also says it of a trade that is being judged.
* **TradeFeed.** `SubscriptionsSurvive`: strengthened by what holds *during* a resubscription: what has a queue
  is already streamed or still to do. `TradesOnce`: a queue object outlives its entry in the table, so the invariant
  speaks of objects and readers (`FlowInv`): both have their trades in the order sent, no two share one, a reader was
  given what came before all that waits on its queue, and nothing routed is lost.
* **Multiplexer.** `TradesNotSwallowed` (`TracedInv`): a known key belongs to a trade that is out or in the hands of a
  pump, so a trade is dropped as known only for one that looks like it. `HandedOnOnce` assumes
  `LruCap >= 3 * NumTrades`, that no key of a trade under way is evicted, which the code's 100000 stands for; `OnceInv`
  counts the keys against the copies already taken (`Uncut`) and says that what was handed on is marked in the LRU.
* **PaperPosition.** `RemaindersAgree` with `IInv == TypeOK /\ SameRemainder`; `BookedExactly` (no restarts) adds
  the ledger: the runner's gain is what the fills earned, and what is left is what was not sold; `LimitsStand` (no
  HOLD_HARD, no restarts) adds that the recorded peak is the highest P&L a decision saw.
* **PumpExecution.** `SlippageProtected`: the instruction on the chain is the one built from the fetched curve
  (`Built`), nothing is on the chain before it was sent (`SentBefore`), and the virtual token reserve exceeds the real
  one (`Spread`, so that no trade empties a divisor); with the lemmas on rounding (`RoundsDown`, `BuyLimit`,
  `SellLimit`) the limits hold for every curve and market. `OnlyLiveOrders` and `SuccessSeen` share the invariant
  `GateInv`, which says how far a call can have come with and without leave.
* **TokenPipeline** (`TokenProofs`). `OneVerdict` and `EntriesDescribed`. `PipelineInv` says that the task stops with its
  verdict and before anyone is scored, and that each decision is one the overrides could have made of the rules' own.
  Scores and models are any.
* **CreatorSnapshots** (`TokenProofs`). `ViewsSettle`. A capture carries the time it was asked for (`Dated`), so what is
  under way when nothing awaited the token lands after its birth (`Younger`) and changes neither the earlier tokens nor
  the snapshot that decides. That one of the snapshots before a moment is the newest (`Ranked`) is an invariant, kept by
  every new snapshot.
* **GeyserFeed** (`TokenProofs`). `StreamsHearAsReceived`: for each queue object the invariant compares what was taken
  and what waits with the trades selected from the stretch of the chain between its subscription and its end. A
  transaction appended to the chain lengthens the selection of exactly the queue the table names (`PartGrows`), an
  unsubscription freezes its stretch, and a queue out of the table belongs to readers that have left.
* **Features** (`TokenProofs`). `ReplaysScoreAlike` and `TrainedAsServed`. The invariant is small (`FeaturesInv`: trades
  are trades, a capture seen at the scoring stays); the weight is in the lemmas. `ByTime` gives each trade its place in
  the stable sort: places are taken once each (`PlacesFilled`), sorting a sorted list changes nothing (`ByTimeAgain`),
  and selecting commutes with sorting (`AmongSorts`), so clipping, buyers, volumes and the ranking of the buyers do not
  depend on the order of arrival (`UntilSorted`, `SolSorted`, `TopSorted`). With no late trade the table up to an age is
  the window up to it (`StoredUntil`). Neither the flows nor the thresholds of the scorers are bounded.
* **ModelLifecycle** (`BotProofs`). `VerdictsMatch`. `LifecycleInv` says when the two files of a role belong together
  (`Paired`: unless a failure parted them or a writer is at work), that a load no write overlapped has read what is
  still on the disk (`Settled`), and that the regression head passed its gate before its model is read.
* **Sweep** (`HistoryProofs`). `SlotsAreOverTime`: two exits of a replay overlap only if both hold a slot at the later
  entry. `WorkerInv` says that the heap of open exits has at most the allowed number and that whatever left it ended
  before the entries to come (`GoneBy`), which is what freeing slots at equal timestamps could break. `TrainIsBlind`
  (`Blind`) needs that what is filtered twice is filtered once (`AmongAgain`), because the snapshot is cut at the split
  before it is cut at the end of observation. `BestAreRanked`: what left the heap is no better than what is in it.
* **Backtest** (`HistoryProofs`). `SlotsKept`. The limit is not inductive over *recorded* intervals, because a closing is
  dated back to the expiry and an entry waits for a trade. `BacktestInv` therefore says three things: the candidates
  still to come are due after every trade replayed so far, so an opening adds nothing to the past; a closing only ends
  an interval that was open, so it never raises the count of any moment; and at a new moment only the positions now held
  count, which `can_buy` bounds. The steps of a trade are folds over the positions (`FoldStays`: what every member
  keeps, the fold keeps).
* **ExitLabels** (`HistoryProofs`). `LivesAsLabelled`. `Path` is what the trades after the entry make of a runner, one
  after another and without a tick. `LabelsInv` says that a live position lies on it, at the number `k` of trades heard,
  or left it through silence, survival or the deadline, at the price it had there (`OnPath`); which trades those `k` are
  (`HeardBy`: all before now and none after it); and when a position still open was last heard (`EndInv`), which no
  property mentions and every step needs. A simulation walks the same path and ends at some `j` of it; by an induction
  over its trades, and under it one over the ticks between two of them, it ends by a rule of the path or with a tick
  that was due (`TickComes`, `OverdueComes`). So what the two sides can disagree on is `j` against `k`, and each part of
  the property is one comparison of them. The rows of a training (`CountInv`) need that the number of buckets grows with
  the time lived (`BucketsMore`), through the clips and the rounding. The bound in the property was found that way: an
  earlier form of it, one tick after the maximum, is false for a stream that lags by more than a tick.
* **ReplayFeed** (`HistoryProofs`). `TradesRotate` by `ReplayInv`: drawn and queued trades together are what follows the
  window, rotated by one. It needs that the history is in the order of time, as `iter_trades` has it.
* **WalletLedger, WalletClusters** (`BotProofs`). `LedgerRebuilt`: while a truncating pass runs, each trade was added as
  often as it is in the batches flushed and among those the bot added since (`Counted`). `ClustersAreNamed`: a forest is
  shown to be one by a function that gives each wallet its root and one that gives its distance from it (`IsForest`);
  halving keeps roots, a union merges two, and two wallets share a root exactly if the pairs handled so far connect
  them.
* **ModelVerdict** (`BotProofs`). `AnswersRank`. The search takes the threshold with the least mean below it as
  floor and the one with the greatest mean above it as ceiling (`FloorIs`, `CeilingIs`). Sums over buckets add up, so
  if the rows in between were worse than the lower bucket, the rows below the *ceiling* would have a lower mean than
  those below the floor, and the ceiling, a member of the same grid, would have been the floor; likewise above
  (`FoundRank`). The fallback on percentiles is ranked by counting the rows below the outer fifths
  (`NthIs`, `FallbackRank`), interpolation included. `VerdictInv` carries what the search promised (`Promise`) through
  the meta file, the config and the gate to the answer. The validation set, the overrides, the switches and the least
  size of a bucket are any; a fifth is an order statistic, `Nth`, and not an index into a sorted list.
* **Bot** (`BotProofs`). The theorems from TokenPipeline on are about the specification of their job alone. A process
  does one of the twelve jobs: `JobsKeepTheirWord` shows that a job that is not run takes no step and that its property
  holds of its idle state, and so that `Spec`, which the run `Bot_jobs` checks, keeps the sixteen
  properties of the twelve jobs. `TypesKept` proves the run's type invariant, `BotTypeOK`, of the same specification.
  The invariants of seven jobs imply their types; the other five need more, `TypesInv`, inductive beside `JobsInv`:
  a queued token waits no longer than the bound and an observed one has not passed its deadline (`PipelineTyped`);
  a purchase of the backtest costs the buy amount or nothing and every sale leaves a share of the position or closes
  it, so no step leaves the portfolio owing money (`EngineTyped`, `Paid`); a token is stored once and one refresh of a
  creator is under way at most (`CreatorTyped`, `OneRefresh`); a meta file carries one of the trainers' verdicts
  (`MetasTyped`); and a token of the feature tables waits no longer than its bound (`FeaturesTyped`).
* **PaperPosition, PumpExecution**, besides the above: `AdviceSells` compares, for every snapshot and price ahead, the
  rules with and without the exit model's advice; `QuietFills` shows that the limits leave room for the rounding
  (`LimitsRoom`) and that the curve's quotes grow with what is spent (`BuyGrows`), over nested integer divisions.

Sums, folds, selections and the recursive functions of the models are reasoned about by unfolding them to a choice of a
function that satisfies the recursion, and showing that there is one by a first-order induction: the least natural that
lacks a property (`LeastNat`, `Climb`). `Selection` exists because `SelectSeq` cannot be unfolded by the prover.

The proofs assume what the modules' `ASSUME`s say, which the code and its queries justify: sets of tokens and wallets are
finite, a history is sorted (`ORDER BY timestamp`), the pairs of the classifier join two different wallets
(`a.wallet < b.wallet`), and a transaction has a signer (its first account key). TLC evaluates them on each instance.

Every invariant a passing run checks is also proved. Model-checked only is all liveness (`SlotEventuallyFreed`,
`ErrorIsReplaced`, `EitherSourceSuffices`, `StreamHandedOn`), because the prover has no fairness reasoning.

## 5. Plan

Done: the lifecycle of a paper trade with its abstract specification, the exit rules, the feed, the multiplexer, the
execution on the bonding curve, the token's pipeline with the entry decision and its scores, the lifecycle and the
verdicts of the models, the features and labels they are trained on, what is known of a creator, the geyser's feed, the
optimizer, the backtest with its portfolio, the replayed feed, the wallet ledger and the classifier.

Left, in order of importance:

1. `LiveExecution`: the routed swap of `execution_live.py` and its retries, composed with `Portfolio`. Abstract
   specification: a position is bought and sold at most once on chain.
2. The daily validation of the models and the exit data set, on top of `ExitLabels`.

Not modelled, and why:

* the numbers of training: fits, k-fold analysis, calibration and the statistics of a feature (floating-point, one
  process, no state between two calls but the files, which `ModelLifecycle` has);
* metadata of simulated transactions, captures of the market and of the chain, and live marks: columns that nothing but
  reports reads;
* dashboards, alerts, LLM explanations and scripts: they read what the bot wrote;
* the task API: an independent service of single statements;
* parsing of feed events and configuration files: one message or file, no state.
