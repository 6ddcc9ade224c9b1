-------------------------------- MODULE Bot ---------------------------------
(***************************************************************************)
(* One process of the program, with whatever shares its files and tables.   *)
(* main.py runs one command and returns: the process does one job, and the  *)
(* state of the others stays as it is.                                      *)
(***************************************************************************)
EXTENDS TokenPipeline, ModelLifecycle, Sweep, Backtest,
        ReplayFeed, WalletLedger, WalletClusters,
        Features, CreatorSnapshots, ModelVerdict, ExitLabels,
        GeyserFeed

vars == <<pipelineVars, modelVars, sweepVars, backtestVars, replayVars,
          ledgerVars, clusterVars, featureVars, creatorVars, verdictVars,
          labelVars, geyserVars>>

(* The other jobs are not running, and stay so.                             *)
Off(job) ==
  /\ job # "token" => PipelineOff
  /\ job # "training" => ModelOff
  /\ job # "optimizing" => SweepOff
  /\ job # "backtest" => BacktestOff
  /\ job # "replay" => ReplayOff
  /\ job # "indexing" => LedgerOff
  /\ job # "classifying" => ClusterOff
  /\ job # "features" => FeaturesOff
  /\ job # "creator" => CreatorOff
  /\ job # "judging" => VerdictOff
  /\ job # "labelling" => LabelsOff
  /\ job # "chain" => GeyserOff

Rest(job) ==
  /\ job # "token" => UNCHANGED pipelineVars
  /\ job # "training" => UNCHANGED modelVars
  /\ job # "optimizing" => UNCHANGED sweepVars
  /\ job # "backtest" => UNCHANGED backtestVars
  /\ job # "replay" => UNCHANGED replayVars
  /\ job # "indexing" => UNCHANGED ledgerVars
  /\ job # "classifying" => UNCHANGED clusterVars
  /\ job # "features" => UNCHANGED featureVars
  /\ job # "creator" => UNCHANGED creatorVars
  /\ job # "judging" => UNCHANGED verdictVars
  /\ job # "labelling" => UNCHANGED labelVars
  /\ job # "chain" => UNCHANGED geyserVars

HandleToken     == PipelineNext /\ Rest("token")
TrainAndLoad    == ModelNext /\ Rest("training")
Optimize        == SweepNext /\ Rest("optimizing")
Backtesting     == BacktestNext /\ Rest("backtest")
ReplayToken     == ReplayNext /\ Rest("replay")
IndexWallets    == LedgerNext /\ Rest("indexing")
ClassifyWallets == ClusterNext /\ Rest("classifying")
MakeRow         == FeaturesNext /\ Rest("features")
MeetCreator     == CreatorNext /\ Rest("creator")
JudgeScore      == VerdictNext /\ Rest("judging")
LabelExits      == LabelsNext /\ Rest("labelling")
HearChain       == GeyserNext /\ Rest("chain")

(* The command given to main.py or to a script.                             *)
Init ==
  \/ PipelineInit /\ Off("token")
  \/ ModelInit /\ Off("training")
  \/ SweepInit /\ Off("optimizing")
  \/ BacktestInit /\ Off("backtest")
  \/ ReplayInit /\ Off("replay")
  \/ LedgerInit /\ Off("indexing")
  \/ ClusterInit /\ Off("classifying")
  \/ FeaturesInit /\ Off("features")
  \/ CreatorInit /\ Off("creator")
  \/ VerdictInit /\ Off("judging")
  \/ LabelsInit /\ Off("labelling")
  \/ GeyserInit /\ Off("chain")

Next == \/ HandleToken \/ TrainAndLoad \/ Optimize \/ Backtesting
        \/ ReplayToken \/ IndexWallets \/ ClassifyWallets \/ MakeRow
        \/ MeetCreator \/ JudgeScore \/ LabelExits \/ HearChain

Spec == Init /\ [][Next]_vars /\ PipelineFair

(* Every variable of every job keeps its type: no balance goes below zero,  *)
(* no position below nothing, no file holds a model that was never trained  *)
(* (portfolio.py, optimizer.py, train.py and the handlers of the jobs).     *)
BotTypeOK ==
  /\ PipelineTypeOK
  /\ ModelTypeOK
  /\ SweepTypeOK
  /\ BacktestTypeOK
  /\ ReplayTypeOK
  /\ LedgerTypeOK
  /\ ClusterTypeOK
  /\ FeaturesTypeOK
  /\ CreatorTypeOK
  /\ VerdictTypeOK
  /\ LabelsTypeOK
  /\ GeyserTypeOK
=============================================================================
