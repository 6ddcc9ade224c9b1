SPECIFICATION Spec
CHECK_DEADLOCK FALSE
CONSTANTS
  live = live
  shadow = shadow
  w1 = w1
  a = a
  b = b
  c = c
  p1 = p1
  p2 = p2
  p3 = p3
  p4 = p4
  Configs = {live, shadow}
  Config <- Cfg
  EntryMode = "both"
  MinBuyer = 1
  MaxBuyer = 2
  MaxFastScore = 1
  EarlyAge = 2
  Window = 3
  FastAge = 1
  Wallets = {w1}
  Classified <- Marks
  Modes <- Setups
  Models <- Outcomes
  MaxWait = 1
  MaxTrades = 2
  Deployments <- Installed
  Fits <- SomeFits
  MinSkill = 1
  Tolerance = 1
  MaxTrainings = 2
  MaxOpen = 1
  StartCash = 3
  BuyAmount = 2
  Tokens = {a, b, c}
  Markets <- Recorded
  Grid <- SomeGrid
  FullSec = 2
  Silence = 2
  Proceeds = {0, 3}
  MinForRank = 1
  TopN = 1
  MaxCombos = 2
  Present = 7
  Births <- TwoBirths
  FastSec = 1
  ObserveSec = 2
  MaxHold = 3
  Inactivity = 2
  Sales = {3}
  Recent = 2
  Horizon = 5
  TapeLength = 3
  Histories <- Tapes
  Readers = {a, b}
  WindowSec = 2
  GapSec = 2
  Deals = {a, b, c}
  MaxAdds = 2
  MaxPasses = 2
  People = {p1, p2, p3, p4}
  Linked <- Pairs
  MaxRuns = 1
  TradeFlows <- Flows
  Cut <- Cuts
  Amounts <- Holdings
  TopCount = 2
  SplitFrom = 2
  LastMoment = 4
  MaxBegin = 1
  MaxElsewhere = 1
  CreatedAt <- Mints
  Fates <- Judgements
  FreshFor = 0
  StaleFor = 1
  FetchFor = 1
  ContextFor = 2
  ScoredAfter = 1
  MaxClock = 3
  MaxFetches = 2
  Validations <- ValidationSets
  MinBucket = 1
  Worst <- WorstPnl
  Best = 200
  Overrides <- Given
  Switches <- SwitchSets
  Scores <- SomeScores
  Lives <- SomeLives
  Entries <- SomeEntries
  Outlooks <- SomeOutlooks
  MaxLag = 2
  LastInstant = 9
  WarmAt = 2
  TickEvery = 2
  HoldFor = 3
  QuietFor = 2
  StopAt = 15
  TakeAt = 90
  TrailFrom = 50
  TrailBy = 50
  Cost = 6
  CheckFrom = 1
  ShortLife = 4
  LifeOdds = 50
  Sure = 50
  Bucket = 2
  Beyond = 6
  ChainMints = {"g"}
  Transactions <- SomeTransactions
  Makers <- SignedBy
  MaxHeard = 3
  MaxQueues = 2
INVARIANTS BotTypeOK EntryDescribed VerdictBinds
           GateJudgesItsModel SlotsOverTime TrainBlind BestRanked
           SlotsAtTrades ReplayRotates Rebuilt
           ClustersAreComponents ServedAsTrained ReplayScoresAlike
           AsOfSettles VerdictRanks LabelsAsLived HeardAsReceived
PROPERTY StreamHandedOn
