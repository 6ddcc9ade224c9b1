----------------------------- MODULE TokenProofs -----------------------------
(***************************************************************************)
(* Proofs about a token as the bot meets it: the pipeline that decides on it,*)
(* what is known of its creator, the feed of the validator that tells of    *)
(* its trades, and the features that models are served and trained on, with *)
(* what sorting and selecting leave of a list of trades.                    *)
(***************************************************************************)
EXTENDS TokenPipeline, CreatorSnapshots, GeyserFeed, Features, HistoryProofs

(* ------------------- the pipeline -------------------------------------- *)
PipelineSpec == PipelineInit /\ [][PipelineNext]_pipelineVars

(* A decision has its four fields, and one to enter says what it enters; its *)
(* score may be zero only where the rules entered themselves.                *)
Sound(d, base) ==
  /\ d \in Decisions
  /\ d.enter => /\ d.type \in EntryTypes /\ d.buyer >= 1
                /\ d.score <= 0 => base.enter

Bound(d) ==
  /\ checkpoint.verdict = "SKIP_EARLY" => ~d.enter
  /\ checkpoint.verdict = "BUY_EARLY" => d.enter /\ d.type = checkpoint.source

(* The task runs only while the handler observes, and ends with its verdict. *)
TaskInv ==
  /\ checkpoint \in [pc : {"off", "sleep", "t30", "timing"}, offset : Nat,
                     verdict : {"none", "BUY_EARLY", "SKIP_EARLY"},
                     source : {"checkpoint", "t30", "t30_skip", "timing",
                               "timing_skip"}]
  /\ checkpoint.pc # "off" => stage = "observing" /\ checkpoint.verdict = "none"
  /\ stage = "queued" => checkpoint.verdict = "none"
  /\ checkpoint.verdict = "BUY_EARLY" => checkpoint.source \in {"t30", "timing"}

(* Nothing is decided before the token is scored, nothing entered before all *)
(* configurations decided.                                                   *)
ScoredInv ==
  /\ Sound(scored.base, scored.base) /\ scored.ml \in Models
  /\ scored.priced => /\ stage \notin {"queued", "observing", "scoring"}
                      /\ Buys(UpTo(Window)) # <<>>

DecidedInv ==
  /\ \A c \in DOMAIN decision :
       /\ stage \notin {"queued", "observing", "scoring"}
       /\ Sound(decision[c], scored.base) /\ Bound(decision[c])
  /\ stage = "spawning" => DOMAIN decision = Configs

EnteredInv ==
  \A c \in DOMAIN entered :
    /\ stage = "done"
    /\ entered[c].enter /\ Sound(entered[c], scored.base)
    /\ scored.priced /\ ~mode.collectorOnly

PipelineInv == TaskInv /\ ScoredInv /\ DecidedInv /\ EnteredInv

-----------------------------------------------------------------------------
(* What a decision may say it enters, the skip's empty word among it.        *)
Kinds == EntryTypes \cup {""}

LEMMA DecisionsAre ==
  Decisions = [enter : BOOLEAN, type : Kinds, score : Int, buyer : Nat]
BY Zenon DEF Decisions, Kinds

LEMMA EntriesAreKinds == EntryTypes \subseteq Kinds /\ Skip.type \in Kinds
BY Zenon DEF Kinds, Skip

LEMMA SkipSound == ASSUME NEW base PROVE Sound(Skip, base)
<1>1. PICK none : none = ""
  OBVIOUS
<1>2. Skip = [enter |-> FALSE, type |-> none, score |-> 0, buyer |-> 0]
  BY <1>1, Zenon DEF Skip
<1>3. none \in Kinds
  BY <1>1, Zenon DEF Kinds
<1> QED BY <1>2, <1>3, DecisionsAre DEF Sound

LEMMA RefuseSound ==
  ASSUME NEW d, NEW base, Sound(d, base)
  PROVE  Sound(Refuse(d), base) /\ ~Refuse(d).enter
<1>1. Refuse(d) \in Decisions /\ Refuse(d).enter = FALSE
  BY DecisionsAre DEF Sound, Refuse
<1> QED BY <1>1 DEF Sound

(* No gate makes an unsound decision.                                        *)
LEMMA GatesSound ==
  ASSUME NEW c, NEW marks, NEW early, NEW answered, NEW d, NEW base, Sound(d, base)
  PROVE  Sound(HardSkips(c, marks, early, answered, d), base)
<1>1. \A e : Sound(e, base) =>
        /\ Sound(FilterBotCluster(c, marks, early, answered, e), base)
        /\ Sound(FilterWashCluster(c, marks, early, answered, e), base)
        /\ Sound(FilterSmartMoney(c, marks, early, answered, e), base)
        /\ Sound(FilterTop3(c, marks, early, answered, e), base)
  <2> TAKE e
  <2> HAVE Sound(e, base)
  <2>1. Sound(Refuse(e), base)
    BY RefuseSound
  <2>2. Sound(FilterBotCluster(c, marks, early, answered, e), base)
    BY <2>1 DEF FilterBotCluster
  <2>3. Sound(FilterWashCluster(c, marks, early, answered, e), base)
    BY <2>1 DEF FilterWashCluster
  <2>4. Sound(FilterSmartMoney(c, marks, early, answered, e), base)
    BY <2>1 DEF FilterSmartMoney
  <2>5. Sound(FilterTop3(c, marks, early, answered, e), base)
    BY <2>1 DEF FilterTop3
  <2> QED BY <2>2, <2>3, <2>4, <2>5
<1> QED BY <1>1 DEF HardSkips

LEMMA ForecastPositive ==
  ASSUME NEW pct \in Int
  PROVE  ForecastScore(pct) \in Int /\ ForecastScore(pct) >= 1
<1> DEFINE low == Min({999, 10 * pct + 500})
<1>1. low \in Int
  <2>1. \A x \in Int : Min({999, x}) \in Int
    BY DEF Min
  <2>2. 10 * pct + 500 \in Int
    OBVIOUS
  <2> QED BY <2>1, <2>2
<1> HIDE DEF low
<1>2. Max({1, low}) \in Int /\ Max({1, low}) >= 1
  BY <1>1 DEF Max
<1> QED BY <1>2 DEF ForecastScore, low

LEMMA OverrideSound ==
  ASSUME NEW c, NEW ml \in Models, NEW buys \in Nat, NEW d, NEW base, Sound(d, base)
  PROVE  Sound(ApplyMlOverride(c, ml, buys, d), base)
<1> DEFINE score == IF ml.forecast = NoForecast THEN Max({1, ml.cal})
                    ELSE ForecastScore(Max(ml.forecast))
           new == [enter |-> TRUE, type |-> "ml_override", buyer |-> buys + 1,
                   score |-> score]
<1>1. score \in Int /\ score >= 1
  <2>1. /\ ml.cal \in Int
        /\ ml.forecast = NoForecast \/ \E pct \in Int : ml.forecast = {pct}
    BY TokenPipelineAssumption
  <2>2. CASE ml.forecast = NoForecast
    BY <2>1, <2>2 DEF Max
  <2>3. CASE ml.forecast # NoForecast
    <3>1. PICK pct \in Int : ml.forecast = {pct}
      BY <2>1, <2>3
    <3>2. Max(ml.forecast) = pct
      BY <3>1 DEF Max
    <3>3. score = ForecastScore(pct)
      BY <2>3, <3>2
    <3> HIDE DEF score
    <3> QED BY <3>3, ForecastPositive
  <2> QED BY <2>2, <2>3
<1> HIDE DEF score
<1>2. "ml_override" \in EntryTypes /\ EntryTypes \subseteq Kinds
  BY EntriesAreKinds DEF EntryTypes
<1>3. Sound(new, base)
  BY <1>1, <1>2, DecisionsAre DEF Sound
<1> HIDE DEF new
<1>4. ApplyMlOverride(c, ml, buys, d) \in {d, Refuse(d), new}
  BY DEF ApplyMlOverride, new, score
<1> QED BY <1>3, <1>4, RefuseSound

(* The checkpoint's verdict is the last word, and describes what it enters.  *)
LEMMA CheckpointSound ==
  ASSUME NEW buys \in Nat, NEW d, NEW base, Sound(d, base), TaskInv
  PROVE  /\ Sound(ApplyCheckpointOverride(checkpoint, buys, d), base)
         /\ Bound(ApplyCheckpointOverride(checkpoint, buys, d))
<1> DEFINE said == ApplyCheckpointOverride(checkpoint, buys, d)
<1>1. CASE checkpoint.verdict = "BUY_EARLY"
  <2>1. checkpoint.source \in EntryTypes /\ checkpoint.source \in Kinds
    BY <1>1, EntriesAreKinds DEF TaskInv, EntryTypes
  <2>2. CASE d.enter
    <3>1. said = [d EXCEPT !.type = checkpoint.source]
      BY <1>1, <2>2 DEF ApplyCheckpointOverride
    <3> HIDE DEF said
    <3>2. /\ said \in Decisions /\ said.enter /\ said.type = checkpoint.source
          /\ said.score = d.score /\ said.buyer = d.buyer
      BY <2>1, <2>2, <3>1, DecisionsAre DEF Sound
    <3> QED BY <1>1, <2>1, <2>2, <3>2 DEF Sound, Bound, said
  <2>3. CASE ~d.enter
    <3>1. said = [enter |-> TRUE, type |-> checkpoint.source, buyer |-> buys + 1,
                  score |-> 1]
      BY <1>1, <2>3 DEF ApplyCheckpointOverride
    <3> HIDE DEF said
    <3>2. said \in Decisions
      BY <2>1, <3>1, DecisionsAre
    <3> QED BY <1>1, <2>1, <3>1, <3>2 DEF Sound, Bound, said
  <2> QED BY <2>2, <2>3
<1>2. CASE checkpoint.verdict = "SKIP_EARLY"
  BY <1>2, RefuseSound DEF ApplyCheckpointOverride, Bound
<1>3. CASE checkpoint.verdict = "none"
  BY <1>3 DEF ApplyCheckpointOverride, Bound
<1> QED BY <1>1, <1>2, <1>3 DEF TaskInv

LEMMA DecideForSound ==
  ASSUME NEW c, NEW marks, NEW trades, NEW answered, NEW ml \in Models, NEW base,
         Sound(base, base), TaskInv
  PROVE  /\ Sound(DecideFor(c, marks, trades, answered, ml, checkpoint, base), base)
         /\ Bound(DecideFor(c, marks, trades, answered, ml, checkpoint, base))
<1> DEFINE buys == Len(Buys(trades))
           kept == HardSkips(c, marks, EarlyBuyers(trades), answered, base)
           said == IF ml.action = "N/A" THEN kept ELSE ApplyMlOverride(c, ml, buys, kept)
<1>1. buys \in Nat
  BY DEF Buys
<1>2. Sound(kept, base)
  BY GatesSound
<1> HIDE DEF buys, kept
<1>3. Sound(said, base)
  BY <1>1, <1>2, OverrideSound
<1> HIDE DEF said
<1> QED BY <1>1, <1>3, CheckpointSound DEF DecideFor, said, kept, buys

LEMMA BaseSound ==
  ASSUME NEW fast, NEW full, fast.buys \in Nat, full.buys \in Nat,
         fast.score \in Int, full.score \in Int
  PROVE  Sound(DecideEntry(fast, full), DecideEntry(fast, full))
<1> DEFINE type == IF EntryMode = "fast" \/ (EntryMode = "both" /\ ~full.buy)
                   THEN "fast" ELSE "full"
           buyer == (IF type = "fast" THEN fast.buys ELSE full.buys) + 1
           score == IF type = "fast" THEN fast.score ELSE full.score
           final == [enter |-> TRUE, type |-> type, buyer |-> buyer, score |-> score]
<1>1. buyer \in Nat /\ buyer >= 1 /\ score \in Int /\ type \in EntryTypes
  BY DEF EntryTypes
<1> HIDE DEF type, buyer, score
<1>2. Sound(final, final)
  BY <1>1, EntriesAreKinds, DecisionsAre DEF Sound
<1> USE DEF type, buyer, score
<1>3. Sound(Skip, Skip)
  BY SkipSound
<1>4. DecideEntry(fast, full) \in {final, Skip}
  BY DEF DecideEntry
<1> QED BY <1>2, <1>3, <1>4

-----------------------------------------------------------------------------
LEMMA PipelineStart == PipelineInit => PipelineInv
<1> SUFFICES ASSUME PipelineInit PROVE PipelineInv
  OBVIOUS
<1>1. TaskInv
  BY DEF PipelineInit, TaskInv
<1>2. ScoredInv
  BY TokenPipelineAssumption, SkipSound DEF PipelineInit, ScoredInv, NoScore
<1>3. DecidedInv /\ EnteredInv
  BY DEF PipelineInit, DecidedInv, EnteredInv
<1> QED BY <1>1, <1>2, <1>3 DEF PipelineInv

(* The trades of the window depend on those collected alone.                 *)
InWindow(trades) == SelectSeq(trades, LAMBDA t : t.at <= Window)

LEMMA WindowKept == UNCHANGED collected => UNCHANGED UpTo(Window)
<1>1. UpTo(Window) = InWindow(collected)
  BY DEF UpTo, InWindow
<1>2. (UpTo(Window) = InWindow(collected))'
  BY <1>1, PTL
<1> QED BY <1>1, <1>2

(* A step before the scoring: nothing is scored yet.                         *)
LEMMA KeptBefore ==
  ASSUME PipelineInv, UNCHANGED <<mode, scored, decision, entered>>, TaskInv',
         stage \in {"queued", "observing"}, stage' # "spawning"
  PROVE  PipelineInv'
<1>1. ScoredInv'
  BY DEF PipelineInv, ScoredInv, Sound
<1>2. DecidedInv' /\ EnteredInv'
  BY DEF PipelineInv, DecidedInv, EnteredInv
<1> QED BY <1>1, <1>2 DEF PipelineInv

(* A step after it that keeps the verdict and decides nothing.               *)
LEMMA KeptAfter ==
  ASSUME PipelineInv, UNCHANGED <<mode, scored, decision, entered, collected>>, TaskInv',
         stage' = stage \/ (stage' = "failed" /\ stage # "done"),
         checkpoint'.verdict = checkpoint.verdict,
         checkpoint'.source = checkpoint.source
  PROVE  PipelineInv'
<1>1. ScoredInv'
  BY WindowKept DEF PipelineInv, ScoredInv, Sound
<1>2. DecidedInv'
  BY DEF PipelineInv, DecidedInv, Bound, Sound
<1>3. EnteredInv'
  BY DEF PipelineInv, EnteredInv
<1> QED BY <1>1, <1>2, <1>3 DEF PipelineInv

LEMMA HandlerKeeps ==
  PipelineInv /\ (Observe \/ Collect \/ EndOfStream) => PipelineInv'
<1> SUFFICES ASSUME PipelineInv, Observe \/ Collect \/ EndOfStream PROVE PipelineInv'
  OBVIOUS
<1>1. /\ UNCHANGED <<mode, scored, decision, entered>> /\ stage \in {"queued", "observing"}
      /\ stage' # "spawning"
  BY DEF Observe, Collect, EndOfStream
<1>2. TaskInv'
  BY DEF PipelineInv, TaskInv, Observe, Collect, EndOfStream, StopTask
<1> QED BY <1>1, <1>2, KeptBefore

LEMMA TaskKeeps == PipelineInv /\ CheckpointTask => PipelineInv'
<1> SUFFICES ASSUME PipelineInv, CheckpointTask PROVE PipelineInv'
  OBVIOUS
<1>1. /\ UNCHANGED <<mode, scored, decision, entered, stage>>
      /\ checkpoint.pc # "off" /\ stage = "observing"
  BY DEF PipelineInv, TaskInv, CheckpointTask, Wake, AnswerT30, AskTiming, TaskCrash
<1>2. TaskInv'
  <2>1. CASE Wake \/ TaskCrash
    BY <1>1, <2>1 DEF PipelineInv, TaskInv, Wake, TaskCrash, StopTask
  <2>2. CASE AnswerT30
    <3>1. PICK v \in T30Verdicts :
            checkpoint' = IF v # "none"
                     THEN Give(v, IF mode.t30 = "live" THEN "t30" ELSE "t30_skip")
                     ELSE [checkpoint EXCEPT !.pc = "timing", !.source =
                             IF mode.t30 = "live" THEN "t30" ELSE @]
      BY <2>2 DEF AnswerT30
    <3>2. /\ v \in {"none", "BUY_EARLY", "SKIP_EARLY"}
          /\ v = "BUY_EARLY" => mode.t30 = "live"
      BY DEF T30Verdicts, Verdicts
    <3> QED BY <1>1, <3>1, <3>2 DEF PipelineInv, TaskInv, Give
  <2>3. CASE AskTiming
    <3>1. PICK v \in TimingVerdicts :
            checkpoint' = IF v # "none"
                     THEN Give(v, IF mode.timing = "live" THEN "timing" ELSE "timing_skip")
                     ELSE [NextOffset EXCEPT !.source =
                             IF mode.timing = "live" THEN "timing" ELSE @]
      BY <2>3 DEF AskTiming
    <3>2. /\ v \in {"none", "BUY_EARLY", "SKIP_EARLY"}
          /\ v = "BUY_EARLY" => mode.timing = "live"
      BY DEF TimingVerdicts, Verdicts
    <3>3. /\ NextOffset \in [pc : {"off", "sleep"}, offset : Nat, verdict : {"none"},
                             source : {checkpoint.source}]
          /\ checkpoint.source \in {"checkpoint", "t30", "t30_skip", "timing",
                                   "timing_skip"}
          /\ checkpoint.verdict = "none"
      <4>1. /\ checkpoint.offset \in Nat /\ checkpoint.verdict = "none"
            /\ checkpoint.source \in {"checkpoint", "t30", "t30_skip", "timing",
                                     "timing_skip"}
        BY <1>1 DEF PipelineInv, TaskInv
      <4>2. checkpoint \in [pc : {"off", "sleep", "t30", "timing"}, offset : Nat,
                            verdict : {"none"}, source : {checkpoint.source}]
        BY <4>1 DEF PipelineInv, TaskInv
      <4>3. (IF checkpoint.offset + 1 < Window THEN "sleep" ELSE "off") \in {"off", "sleep"}
            /\ checkpoint.offset + 1 \in Nat
        BY <4>1
      <4> QED BY <4>1, <4>2, <4>3 DEF NextOffset
    <3>4. CASE v = "none"
      BY <1>1, <3>1, <3>3, <3>4 DEF TaskInv
    <3>5. CASE v # "none"
      BY <1>1, <3>1, <3>2, <3>5 DEF PipelineInv, TaskInv, Give
    <3> QED BY <3>4, <3>5
  <2> QED BY <2>1, <2>2, <2>3 DEF CheckpointTask
<1> QED BY <1>1, <1>2, KeptBefore

LEMMA ScoreKeeps == PipelineInv /\ Score => PipelineInv'
<1> SUFFICES ASSUME PipelineInv, Score PROVE PipelineInv'
  OBVIOUS
<1>1. /\ stage = "scoring" /\ stage' = "deciding"
      /\ UNCHANGED <<collected, checkpoint, mode, decision, entered>>
  BY DEF Score, task
<1>2. decision = decision' /\ DOMAIN decision = {} /\ DOMAIN entered = {}
  BY <1>1 DEF PipelineInv, DecidedInv, EnteredInv
<1>3. PICK fastBuy, fullBuy \in BOOLEAN, fastScore \in {0, MaxFastScore + 1},
           fullScore \in {-1, 0, 1}, ml \in Models :
       LET fastBuys == Len(Buys(UpTo(FastAge)))
           allBuys  == Len(Buys(UpTo(Window)))
       IN /\ fastBuy => UpTo(FastAge) # <<>>
          /\ fullBuy <=> fullScore = 1
          /\ scored' = [base |-> FilterCreatorBlacklist(DecideEntry(
                          [buy |-> fastBuy, buys |-> fastBuys,
                           score |-> fastScore],
                          [buy |-> fullBuy, buys |-> allBuys,
                           score |-> fullScore, priced |-> allBuys > 0])),
                        ml |-> ml, priced |-> allBuys > 0]
  BY Zenon DEF Score
<1>4. Len(Buys(UpTo(FastAge))) \in Nat /\ Len(Buys(UpTo(Window))) \in Nat
      /\ (Len(Buys(UpTo(Window))) > 0 => Buys(UpTo(Window)) # <<>>)
  BY DEF Buys
<1> DEFINE fast == [buy |-> fastBuy, buys |-> Len(Buys(UpTo(FastAge))), score |-> fastScore]
           full == [buy |-> fullBuy, buys |-> Len(Buys(UpTo(Window))),
                    score |-> fullScore, priced |-> Len(Buys(UpTo(Window))) > 0]
           base == DecideEntry(fast, full)
<1>5. /\ fast.buys \in Nat /\ full.buys \in Nat
      /\ fast.score \in Int /\ full.score \in Int
  BY <1>4, TokenPipelineAssumption
<1> HIDE DEF fast, full
<1>6. Sound(base, base)
  BY <1>5, BaseSound
<1>7. scored'.base = base /\ scored'.ml \in Models
      /\ (scored'.priced => Buys(UpTo(Window)) # <<>>)
  BY <1>3, <1>4 DEF FilterCreatorBlacklist, fast, full
<1> HIDE DEF base
<1>8. UNCHANGED Buys(UpTo(Window))
  BY <1>1, WindowKept
<1>9. ScoredInv'
  BY <1>1, <1>6, <1>7, <1>8 DEF ScoredInv, Sound
<1>10. TaskInv'
  BY <1>1 DEF PipelineInv, TaskInv
<1>11. DecidedInv' /\ EnteredInv'
  BY <1>1, <1>2 DEF DecidedInv, EnteredInv
<1> QED BY <1>9, <1>10, <1>11 DEF PipelineInv

LEMMA DecideKeeps == PipelineInv /\ Decide => PipelineInv'
<1> SUFFICES ASSUME PipelineInv, Decide PROVE PipelineInv'
  OBVIOUS
<1>1. /\ stage = "deciding" /\ stage' \in {"deciding", "spawning"}
      /\ stage' = "spawning" => DOMAIN decision' = Configs
      /\ UNCHANGED <<collected, checkpoint, mode, scored, entered>>
  BY DEF Decide, task
<1>2. PICK c \in Configs \ DOMAIN decision, marks \in Classified, answered \in SUBSET Lookups :
        decision' = [x \in DOMAIN decision \cup {c} |-> IF x = c
                       THEN DecideFor(c, marks, UpTo(Window), answered, scored.ml,
                                      checkpoint, scored.base)
                       ELSE decision[x]]
  BY DEF Decide
<1> DEFINE new == DecideFor(c, marks, UpTo(Window), answered, scored.ml, checkpoint,
                            scored.base)
<1>3. Sound(new, scored.base) /\ Bound(new)
  BY DecideForSound DEF PipelineInv, ScoredInv
<1> HIDE DEF new
<1>4. \A x \in DOMAIN decision' : decision'[x] = new \/ (x \in DOMAIN decision
                                                       /\ decision'[x] = decision[x])
  BY <1>2 DEF new
<1>5. DecidedInv'
  BY <1>1, <1>3, <1>4 DEF PipelineInv, DecidedInv, Bound, Sound
<1>6. DOMAIN entered' = {}
  BY <1>1 DEF PipelineInv, EnteredInv
<1>7. UNCHANGED Buys(UpTo(Window))
  BY <1>1, WindowKept
<1>8. TaskInv' /\ ScoredInv'
  BY <1>1, <1>7 DEF PipelineInv, TaskInv, ScoredInv, Sound
<1> QED BY <1>5, <1>6, <1>8 DEF PipelineInv, EnteredInv

LEMMA SpawnKeeps == PipelineInv /\ Spawn => PipelineInv'
<1> SUFFICES ASSUME PipelineInv, Spawn PROVE PipelineInv'
  OBVIOUS
<1>1. /\ stage = "spawning" /\ stage' = "done"
      /\ UNCHANGED <<collected, checkpoint, mode, scored, decision>>
  BY DEF Spawn, task
<1>2. PICK simulated \in BOOLEAN, full \in SUBSET Configs :
        entered' = [c \in {x \in Configs \ full : GateOpen(simulated) /\ decision[x].enter}
                      |-> decision[c]]
  BY DEF Spawn
<1> DEFINE going == {x \in Configs \ full : GateOpen(simulated) /\ decision[x].enter}
<1>3. DOMAIN entered' = going /\ \A c \in going : entered'[c] = decision[c]
  BY <1>2
<1>4. \A c \in going : /\ decision[c].enter /\ Sound(decision[c], scored.base)
                        /\ scored.priced /\ ~mode.collectorOnly
  BY <1>1 DEF GateOpen, PipelineInv, DecidedInv
<1> HIDE DEF going
<1>5. EnteredInv'
  BY <1>1, <1>3, <1>4 DEF EnteredInv
<1>6. UNCHANGED Buys(UpTo(Window))
  BY <1>1, WindowKept
<1>7. TaskInv' /\ ScoredInv' /\ DecidedInv'
  BY <1>1, <1>6 DEF PipelineInv, TaskInv, ScoredInv, DecidedInv, Sound, Bound
<1> QED BY <1>5, <1>7 DEF PipelineInv

LEMMA ElseKeeps ==
  PipelineInv /\ (Decline \/ HandlerError \/ Pass \/ EndExtended \/ UNCHANGED pipelineVars)
    => PipelineInv'
<1> SUFFICES ASSUME PipelineInv,
                    Decline \/ HandlerError \/ Pass \/ EndExtended \/ UNCHANGED pipelineVars
             PROVE PipelineInv'
  OBVIOUS
<1>1. CASE Decline
  <2>1. /\ UNCHANGED <<mode, scored, decision, entered>>
        /\ stage = "queued" /\ stage' = "done" /\ TaskInv'
    BY <1>1 DEF Decline, task, PipelineInv, TaskInv
  <2> QED BY <2>1, KeptBefore
<1>2. CASE HandlerError
  <2>1. /\ UNCHANGED <<mode, scored, decision, entered, collected>>
        /\ stage # "done" /\ stage' = "failed"
        /\ checkpoint' = [checkpoint EXCEPT !.pc = "off"]
    BY <1>2 DEF HandlerError, StopTask
  <2>2. TaskInv' /\ checkpoint'.verdict = checkpoint.verdict
        /\ checkpoint'.source = checkpoint.source
    BY <2>1 DEF PipelineInv, TaskInv
  <2> QED BY <2>1, <2>2, KeptAfter
<1>3. CASE Pass \/ EndExtended \/ UNCHANGED pipelineVars
  <2>1. /\ UNCHANGED <<mode, scored, decision, entered, collected>>
        /\ stage' = stage /\ checkpoint' = checkpoint
    BY <1>3 DEF Pass, EndExtended, pipelineVars, task
  <2>2. TaskInv'
    BY <2>1 DEF PipelineInv, TaskInv
  <2> QED BY <2>1, <2>2, KeptAfter
<1> QED BY <1>1, <1>2, <1>3

LEMMA PipelineStep == PipelineInv /\ [PipelineNext]_pipelineVars => PipelineInv'
BY HandlerKeeps, TaskKeeps, ScoreKeeps, DecideKeeps, SpawnKeeps, ElseKeeps
   DEF PipelineNext, Handler

(* ------------------- types of the pipeline ------------------------------ *)
WindowTrades == [at : Nat, wallet : Wallets, side : {"buy", "sell"}]

(* A queued token waits no longer than the bound, and an observed one has    *)
(* not passed its deadline.                                                  *)
PipelineTyped ==
  /\ stage \in Stages /\ age \in Nat /\ deadline \in Nat
  /\ age <= MaxWait + Window /\ deadline <= MaxWait + Window
  /\ stage = "queued" => age <= MaxWait
  /\ stage = "observing" => age <= deadline
  /\ collected \in Seq(WindowTrades) /\ Len(collected) <= MaxTrades
  /\ DOMAIN decision \subseteq Configs /\ DOMAIN entered \subseteq Configs
  /\ stream \in {"none", "handler", "supervisors", "extended"}

LEMMA PipelineStartsTyped == PipelineInit \/ PipelineOff => PipelineTyped
<1> SUFFICES ASSUME PipelineInit \/ PipelineOff PROVE PipelineTyped
  OBVIOUS
<1>1. /\ stage \in {"queued", "off"} /\ age = 0 /\ deadline = 0 /\ collected = <<>>
      /\ DOMAIN decision = {} /\ DOMAIN entered = {} /\ stream = "none"
  BY DEF PipelineInit, PipelineOff
<1>2. MaxWait \in Nat /\ Window \in Nat /\ MaxTrades \in Nat
  BY TokenPipelineAssumption
<1>3. collected \in Seq(WindowTrades) /\ Len(collected) = 0
  BY <1>1
<1> QED BY <1>1, <1>2, <1>3 DEF PipelineTyped, Stages

LEMMA CollectTyped == PipelineTyped /\ Collect => PipelineTyped'
<1> SUFFICES ASSUME PipelineTyped, Collect PROVE PipelineTyped'
  OBVIOUS
<1>1. PICK t \in [at : {age} \cup ({age - 1} \cap Nat), wallet : Wallets,
                  side : {"buy", "sell"}] : collected' = Append(collected, t)
  BY DEF Collect
<1>2. t \in WindowTrades
  BY <1>1 DEF PipelineTyped, WindowTrades
<1>3. collected' \in Seq(WindowTrades) /\ Len(collected') <= MaxTrades
  BY <1>1, <1>2, TokenPipelineAssumption DEF PipelineTyped, Collect
<1>4. /\ stage' \in {"observing", "scoring"} /\ stage = "observing"
      /\ UNCHANGED <<age, deadline, decision, entered, stream>>
  BY DEF Collect
<1> QED BY <1>3, <1>4 DEF PipelineTyped, Stages

LEMMA DecideTyped == PipelineTyped /\ Decide => PipelineTyped'
<1> SUFFICES ASSUME PipelineTyped, Decide PROVE PipelineTyped'
  OBVIOUS
<1>1. /\ stage' \in {"deciding", "spawning"}
      /\ UNCHANGED <<age, deadline, collected, entered, stream>>
  BY DEF Decide
<1>2. DOMAIN decision' \subseteq Configs
  BY DEF PipelineTyped, Decide
<1> QED BY <1>1, <1>2 DEF PipelineTyped, Stages

LEMMA SpawnTyped == PipelineTyped /\ Spawn => PipelineTyped'
<1> SUFFICES ASSUME PipelineTyped, Spawn PROVE PipelineTyped'
  OBVIOUS
<1>1. stage' = "done" /\ UNCHANGED <<age, deadline, collected, decision>>
  BY DEF Spawn
<1>2. DOMAIN entered' \subseteq Configs
  BY DEF Spawn
<1>3. stream' \in {"supervisors", "extended", "none"}
  BY DEF Spawn, HandedTo
<1> QED BY <1>1, <1>2, <1>3 DEF PipelineTyped, Stages

LEMMA PipelineKeepsTypes ==
  ASSUME PipelineTyped, [PipelineNext]_pipelineVars
  PROVE  PipelineTyped'
<1>1. CASE Observe \/ Pass
  BY <1>1, TokenPipelineAssumption DEF Observe, Pass, PipelineTyped, Stages, task
<1>2. CASE Decline \/ EndOfStream \/ HandlerError \/ Score
  <2>1. /\ stage' \in {"done", "scoring", "failed", "deciding"}
        /\ stream' \in {stream, "none"}
        /\ UNCHANGED <<age, deadline, collected, decision, entered>>
    BY <1>2 DEF Decline, EndOfStream, HandlerError, Score
  <2> QED BY <2>1 DEF PipelineTyped, Stages
<1>3. CASE CheckpointTask \/ EndExtended \/ UNCHANGED pipelineVars
  <2>1. /\ UNCHANGED <<stage, age, deadline, collected, decision, entered>>
        /\ stream' \in {stream, "none"}
    BY <1>3 DEF CheckpointTask, Wake, AnswerT30, AskTiming, TaskCrash, EndExtended,
       pipelineVars
  <2> QED BY <2>1 DEF PipelineTyped
<1> QED BY <1>1, <1>2, <1>3, CollectTyped, DecideTyped, SpawnTyped
        DEF PipelineNext, Handler

LEMMA PipelineTypes ==
  ASSUME PipelineInv \/ PipelineOff, PipelineTyped
  PROVE  PipelineTypeOK
<1>1. /\ checkpoint.pc \in {"off", "sleep", "t30", "timing"}
      /\ scored.base \in Decisions /\ scored.ml \in Models
      /\ \A c \in DOMAIN decision : decision[c] \in Decisions
  <2>1. CASE PipelineInv
    BY <2>1 DEF PipelineInv, TaskInv, ScoredInv, DecidedInv, Sound
  <2>2. CASE PipelineOff
    <3>1. /\ checkpoint.pc = "off" /\ DOMAIN decision = {}
          /\ scored.base = Skip /\ scored.ml = NoModel
      BY <2>2 DEF PipelineOff, NoScore
    <3> QED BY <3>1, SkipSound, TokenPipelineAssumption DEF Sound
  <2> QED BY <2>1, <2>2
<1>2. age \in 0..MaxWait + Window /\ deadline \in 0..MaxWait + Window
  BY TokenPipelineAssumption DEF PipelineTyped
<1> QED BY <1>1, <1>2 DEF PipelineTypeOK, PipelineTyped

(* The verdict of the observation window binds every configuration alike     *)
(* (VerdictBinds), whenever the checkpoint task answers or crashes.          *)
THEOREM OneVerdict == PipelineSpec => []VerdictBinds
<1>1. PipelineInv => VerdictBinds
  BY DEF PipelineInv, DecidedInv, Bound, VerdictBinds
<1> QED BY <1>1, PipelineStart, PipelineStep, PTL DEF PipelineSpec

(* Every entry is described, priced and allowed (EntryDescribed), whether    *)
(* the rules, the entry model or a checkpoint asked for it.                  *)
THEOREM EntriesDescribed == PipelineSpec => []EntryDescribed
<1>1. PipelineInv => EntryDescribed
  BY DEF PipelineInv, EnteredInv, ScoredInv, Sound, EntryDescribed
<1> QED BY <1>1, PipelineStart, PipelineStep, PTL DEF PipelineSpec

(* ------------------- the creator --------------------------------------- *)
CreatorSpec == CreatorInit /\ [][CreatorNext]_creatorVars

(* Where every token is, and when: stored once, not before it was created.  *)
StoredOnce ==
  /\ clock \in Int /\ tokens \in Seq(DOMAIN CreatedAt)
  /\ ToSet(tokens) = DOMAIN views \cup intake
  /\ intake = {} \/ \E t \in DOMAIN CreatedAt : intake = {t}
  /\ \A t \in DOMAIN views \cup intake : t \in DOMAIN CreatedAt /\ CreatedAt[t] <= clock

(* A capture that has read the tables carries the time it was asked for.    *)
Dated ==
  /\ DOMAIN snapshots = 1..Len(snapshots) /\ Len(snapshots) \in Nat
  /\ \A i \in DOMAIN snapshots : snapshots[i].at \in Int
  /\ \A f \in fetches :
       /\ f \in [kind : {"fetch", "refresh"}, at : Int, row : {f.row}]
       /\ f.row # NoSnapshot => f.row.at = f.at

(* Of the snapshots before any moment one is the newest.                    *)
Before(c) == {i \in DOMAIN snapshots : snapshots[i].at < c}
NewestIn(i, ids) ==
  \A j \in ids : \/ snapshots[i].at > snapshots[j].at
                 \/ snapshots[i].at = snapshots[j].at /\ i >= j
Ranked == \A c \in Int : Before(c) # {} => \E i \in Before(c) : NewestIn(i, Before(c))

(* What is still under way is younger than the tokens nobody awaits it for. *)
Younger ==
  \A t \in DOMAIN views : ~views[t].awaited => \A f \in fetches : CreatedAt[t] <= f.at

SameView ==
  \A t \in DOMAIN views : ~views[t].awaited =>
    AsOf(t) = views[t].seen /\ ContextOf(t) = views[t].context

SettledInv == StoredOnce /\ Dated /\ Ranked /\ Younger /\ SameView

-----------------------------------------------------------------------------
LEMMA SettledInit == CreatorInit => SettledInv
<1> SUFFICES ASSUME CreatorInit PROVE SettledInv
  OBVIOUS
<1>1. DOMAIN views = {} /\ intake = {} /\ tokens = <<>> /\ snapshots = <<>> /\ fetches = {}
      /\ clock = 0
  BY DEF CreatorInit
<1>2. StoredOnce
  BY <1>1 DEF StoredOnce, ToSet
<1>3. Dated /\ Ranked
  BY <1>1 DEF Dated, Ranked, Before
<1>4. Younger /\ SameView
  BY <1>1 DEF Younger, SameView
<1> QED BY <1>2, <1>3, <1>4 DEF SettledInv

(* The snapshots that decide what is known as of a token.                   *)
KnownOf(t) == {i \in DOMAIN snapshots : CreatedAt[t] > 0 /\ snapshots[i].at < CreatedAt[t]}

LEMMA ViewOfKnown ==
  ASSUME NEW t
  PROVE  AsOf(t) = IF Earlier(t) = {} THEN NoView ELSE View(t, Newest(KnownOf(t)))
BY DEF AsOf, KnownOf

(* What is known depends on the earlier tokens and the deciding snapshot.   *)
LEMMA SameKnown ==
  ASSUME NEW CONSTANT t, Earlier(t)' = Earlier(t), Newest(KnownOf(t))' = Newest(KnownOf(t))
  PROVE  AsOf(t)' = AsOf(t) /\ ContextOf(t)' = ContextOf(t)
<1>1. AsOf(t)' = IF Earlier(t)' = {} THEN NoView ELSE View(t, Newest(KnownOf(t)))'
  BY DEF AsOf, KnownOf, View
<1>2. View(t, Newest(KnownOf(t)))' = View(t, Newest(KnownOf(t)))
  BY DEF View, Percent
<1>3. AsOf(t)' = AsOf(t)
  BY <1>1, <1>2, ViewOfKnown
<1>4. ContextOf(t)' = ContextOf(t)
  BY DEF ContextOf, Near
<1> QED BY <1>3, <1>4

(* A token stored later is not earlier than one stored before.              *)
LEMMA EarlierKept ==
  ASSUME NEW CONSTANT t, NEW CONSTANT u, t # u, DOMAIN tokens = 1..Len(tokens),
         Len(tokens) \in Nat, tokens' = Append(tokens, u), tokens \in Seq(DOMAIN CreatedAt)
  PROVE  Earlier(t)' = Earlier(t)
<1>1. /\ DOMAIN tokens' = 1..Len(tokens) + 1
      /\ \A i \in 1..Len(tokens) : tokens'[i] = tokens[i]
      /\ tokens'[Len(tokens) + 1] = u
  OBVIOUS
<1>2. \A j \in Int : (j \in DOMAIN tokens' /\ \E k \in DOMAIN tokens' : tokens'[k] = t /\ j < k)
               <=> (j \in DOMAIN tokens /\ \E k \in DOMAIN tokens : tokens[k] = t /\ j < k)
  BY <1>1
<1>3. {j \in DOMAIN tokens' : \E k \in DOMAIN tokens' : tokens'[k] = t /\ j < k}
      = {j \in DOMAIN tokens : \E k \in DOMAIN tokens : tokens[k] = t /\ j < k}
  BY <1>1, <1>2
<1> DEFINE early == {j \in DOMAIN tokens : \E k \in DOMAIN tokens : tokens[k] = t /\ j < k}
<1>4. \A j \in early : tokens'[j] = tokens[j]
  BY <1>1
<1> HIDE DEF early
<1>5. {tokens'[j] : j \in early} = {tokens[j] : j \in early}
  BY <1>4
<1> QED BY <1>3, <1>5 DEF Earlier, early

(* A snapshot observed since a token's birth does not decide what is known. *)
LEMMA KnownKept ==
  ASSUME Dated, Ranked, NEW CONSTANT t \in DOMAIN CreatedAt, NEW row,
         snapshots' = Append(snapshots, row), row.at \in Int, CreatedAt[t] <= row.at
  PROVE  Newest(KnownOf(t))' = Newest(KnownOf(t))
<1>1. /\ DOMAIN snapshots' = 1..Len(snapshots) + 1
      /\ \A i \in DOMAIN snapshots : snapshots'[i] = snapshots[i]
      /\ snapshots'[Len(snapshots) + 1] = row
  BY DEF Dated
<1>2. CreatedAt[t] \in Int
  BY CreatorAssumption
<1>3. KnownOf(t)' = KnownOf(t)
  <2>1. \A i \in DOMAIN snapshots' : (CreatedAt[t] > 0 /\ snapshots'[i].at < CreatedAt[t])
                     <=> i \in KnownOf(t)
    BY <1>1, <1>2 DEF KnownOf, Dated
  <2> QED BY <1>1, <2>1 DEF KnownOf
<1> DEFINE ids == KnownOf(t)
           Top(i) == \A j \in ids : \/ snapshots[i].at > snapshots[j].at
                                    \/ snapshots[i].at = snapshots[j].at /\ i >= j
           TopNext(i) == \A j \in ids : \/ snapshots'[i].at > snapshots'[j].at
                                        \/ snapshots'[i].at = snapshots'[j].at /\ i >= j
<1>4. ids \subseteq DOMAIN snapshots
  BY DEF KnownOf
<1> DEFINE best == CHOOSE i \in ids : Top(i)
           bestNext == CHOOSE i \in ids : TopNext(i)
<1>5. Newest(ids) = IF ids = {} THEN NoSnapshot ELSE snapshots[best]
  BY DEF Newest
<1>6. Newest(KnownOf(t))' = IF ids = {} THEN NoSnapshot ELSE snapshots'[bestNext]
  BY <1>3 DEF Newest
<1>7. \A i \in ids : Top(i) <=> TopNext(i)
  BY <1>1, <1>4
<1>8. ids # {} => \E i \in ids : Top(i)
  BY <1>2 DEF Ranked, Before, NewestIn, KnownOf
<1> HIDE DEF ids, Top, TopNext
<1>9. best = bestNext
  BY <1>7, Zenon
<1>10. ids # {} => best \in ids
  BY <1>8
<1> HIDE DEF best, bestNext
<1>11. ids # {} => snapshots'[bestNext] = snapshots[best]
  BY <1>1, <1>4, <1>9, <1>10
<1>12. Newest(KnownOf(t))' = Newest(ids)
  <2>1. CASE ids = {}
    BY <1>5, <1>6, <2>1
  <2>2. CASE ids # {}
    BY <1>5, <1>6, <1>11, <2>2
  <2> QED BY <2>1, <2>2
<1> QED BY <1>12 DEF ids

(* A new snapshot is the newest before a moment, or leaves it to the old.   *)
LEMMA NewestKept ==
  ASSUME Dated, Ranked, NEW row, snapshots' = Append(snapshots, row), row.at \in Int
  PROVE  Ranked'
<1> SUFFICES ASSUME NEW CONSTANT c \in Int, Before(c)' # {}
             PROVE  (\E i \in Before(c) : NewestIn(i, Before(c)))'
  BY DEF Ranked
<1>1. /\ DOMAIN snapshots' = 1..Len(snapshots) + 1
      /\ \A i \in DOMAIN snapshots : snapshots'[i] = snapshots[i]
      /\ snapshots'[Len(snapshots) + 1] = row
  BY DEF Dated
<1>0. PICK m \in Nat : m = Len(snapshots) + 1
  BY DEF Dated
<1>2. m \in Nat /\ m \notin DOMAIN snapshots /\ \A i \in DOMAIN snapshots : i \in Nat /\ i < m
  BY <1>0 DEF Dated
<1>3. \A i \in DOMAIN snapshots' :
        /\ i \in DOMAIN snapshots \/ i = m
        /\ snapshots'[i].at \in Int
  BY <1>0, <1>1, <1>2 DEF Dated
<1>4. CASE row.at < c
  <2>1. Before(c)' = Before(c) \cup {m}
    BY <1>0, <1>1, <1>3, <1>4 DEF Before
  <2>2. CASE Before(c) = {}
    BY <1>0, <1>1, <1>2, <2>1, <2>2 DEF NewestIn
  <2>3. CASE Before(c) # {}
    <3>1. PICK i \in Before(c) : NewestIn(i, Before(c))
      BY <2>3 DEF Ranked
    <3>2. i \in DOMAIN snapshots /\ snapshots[i].at \in Int
      BY <3>1 DEF Before, Dated
    <3>3. \A j \in Before(c) : /\ snapshots[j].at \in Int /\ snapshots[j].at <= snapshots[i].at
                               /\ snapshots'[j] = snapshots[j] /\ j < m /\ j \in Nat
      BY <1>0, <1>1, <1>2, <3>1, <3>2 DEF Before, Dated, NewestIn
    <3>4. CASE snapshots[i].at <= row.at
      <4>1. ASSUME NEW CONSTANT j \in Before(c)'
            PROVE  \/ snapshots'[m].at > snapshots'[j].at
                   \/ snapshots'[m].at = snapshots'[j].at /\ m >= j
        <5>1. CASE j = m
          BY <1>0, <1>1, <1>2, <3>2, <3>4, <5>1
        <5>2. CASE j \in Before(c)
          <6>1. snapshots'[m].at = row.at
            BY <1>0, <1>1
          <6>2. /\ snapshots[j].at \in Int /\ snapshots[j].at <= snapshots[i].at
                /\ snapshots'[j] = snapshots[j] /\ j < m /\ j \in Nat
            BY <3>3, <5>2
          <6>3. snapshots[j].at <= row.at
            BY <3>2, <3>4, <6>2
          <6> QED BY <6>1, <6>2, <6>3
        <5> QED BY <2>1, <4>1, <5>1, <5>2
      <4>2. NewestIn(m, Before(c))'
        BY <4>1 DEF NewestIn
      <4> QED BY <2>1, <4>2
    <3>5. CASE ~(snapshots[i].at <= row.at)
      <4>1. ASSUME NEW CONSTANT j \in Before(c)'
            PROVE  \/ snapshots'[i].at > snapshots'[j].at
                   \/ snapshots'[i].at = snapshots'[j].at /\ i >= j
        <5>1. CASE j = m
          BY <1>0, <1>1, <1>2, <3>2, <3>5, <5>1
        <5>2. CASE j \in Before(c)
          BY <1>0, <1>1, <1>2, <3>1, <3>2, <3>3, <3>5, <5>2 DEF NewestIn
        <5> QED BY <2>1, <4>1, <5>1, <5>2
      <4>2. NewestIn(i, Before(c))'
        BY <4>1 DEF NewestIn
      <4> QED BY <2>1, <3>1, <4>2
    <3> QED BY <3>4, <3>5
  <2> QED BY <2>2, <2>3
<1>5. CASE ~(row.at < c)
  <2>1. Before(c)' = Before(c)
    BY <1>0, <1>1, <1>3, <1>5 DEF Before
  <2>2. PICK i \in Before(c) : NewestIn(i, Before(c))
    BY <2>1 DEF Ranked
  <2>3. NewestIn(i, Before(c))'
    BY <1>0, <1>1, <2>1, <2>2 DEF NewestIn, Before
  <2> QED BY <2>1, <2>2, <2>3
<1> QED BY <1>4, <1>5

-----------------------------------------------------------------------------
LEMMA CapturedYoung ==
  \A f \in Captured :
    f \in fetches \/ f \in [kind : {"fetch", "refresh"}, at : {clock}, row : {NoSnapshot}]
BY DEF Captured

LEMMA SettledStep == SettledInv /\ [CreatorNext]_creatorVars => SettledInv'
<1> SUFFICES ASSUME SettledInv, [CreatorNext]_creatorVars PROVE SettledInv'
  OBVIOUS
<1>0. StoredOnce /\ Dated /\ Ranked /\ Younger /\ SameView
  BY DEF SettledInv
<1>1. ASSUME UNCHANGED <<tokens, snapshots, views>> PROVE Ranked' /\ SameView'
  <2>1. Ranked'
    BY <1>0, <1>1 DEF Ranked, Before, NewestIn
  <2>2. \A t : AsOf(t)' = AsOf(t) /\ ContextOf(t)' = ContextOf(t)
    BY <1>1 DEF AsOf, View, Newest, Earlier, ContextOf, Near
  <2> QED BY <1>0, <1>1, <2>1, <2>2 DEF SameView
<1>2. CASE InsertToken
  <2>1. PICK u \in DOMAIN CreatedAt :
          /\ CreatedAt[u] <= clock /\ u \notin DOMAIN views
          /\ tokens' = Append(tokens, u) /\ intake' = {u}
    BY <1>2 DEF InsertToken
  <2>2. intake = {} /\ UNCHANGED <<clock, views, fates, snapshots, fetches>>
    BY <1>2 DEF InsertToken
  <2>3. tokens \in Seq(DOMAIN CreatedAt) /\ DOMAIN tokens = 1..Len(tokens) /\ Len(tokens) \in Nat
    BY <1>0 DEF StoredOnce
  <2>4. ToSet(tokens') = ToSet(tokens) \cup {u}
    BY <2>1, <2>3 DEF ToSet
  <2>5. StoredOnce'
    BY <1>0, <2>1, <2>2, <2>3, <2>4 DEF StoredOnce
  <2>6. Dated' /\ Ranked' /\ Younger'
    BY <1>0, <2>2 DEF Dated, Ranked, Before, NewestIn, Younger
  <2>7. ASSUME NEW t \in DOMAIN views, ~views[t].awaited
        PROVE  AsOf(t)' = AsOf(t) /\ ContextOf(t)' = ContextOf(t)
    <3>1. Earlier(t)' = Earlier(t)
      BY <2>1, <2>3, <2>7, EarlierKept
    <3>2. Newest(KnownOf(t))' = Newest(KnownOf(t))
      BY <2>2 DEF Newest, KnownOf
    <3> QED BY <3>1, <3>2, SameKnown
  <2>8. SameView'
    BY <1>0, <2>2, <2>7 DEF SameView
  <2> QED BY <2>5, <2>6, <2>8 DEF SettledInv
<1>3. CASE TakeView
  <2>1. intake' = {} /\ fetches' = Captured /\ UNCHANGED <<clock, tokens, fates, snapshots>>
    BY <1>3 DEF TakeView
  <2>2. PICK u \in intake :
          views' = [t \in DOMAIN views \cup {u} |->
                      IF t \in DOMAIN views THEN views[t]
                      ELSE [seen |-> AsOf(t), context |-> ContextOf(t),
                            awaited |-> \E f \in fetches : f.at < CreatedAt[t]]]
    BY <1>3 DEF TakeView
  <2>3. intake = {u} /\ u \in DOMAIN CreatedAt /\ CreatedAt[u] <= clock /\ clock \in Int
    BY <1>0, <2>2 DEF StoredOnce
  <2>4. /\ DOMAIN views' = DOMAIN views \cup {u}
        /\ \A t \in DOMAIN views : views'[t] = views[t]
        /\ u \notin DOMAIN views =>
             views'[u] = [seen |-> AsOf(u), context |-> ContextOf(u),
                          awaited |-> \E f \in fetches : f.at < CreatedAt[u]]
    BY <2>2
  <2>5. StoredOnce'
    BY <1>0, <2>1, <2>3, <2>4 DEF StoredOnce
  <2>6. Dated'
    BY <1>0, <2>1, <2>3, CapturedYoung DEF Dated
  <2>7. Ranked'
    BY <1>0, <2>1 DEF Ranked, Before, NewestIn
  <2>8. Younger'
    <3> SUFFICES ASSUME NEW t \in DOMAIN views', ~views'[t].awaited, NEW f \in fetches'
                 PROVE  CreatedAt[t] <= f.at
      BY DEF Younger
    <3>1. f \in fetches \/ f.at = clock
      BY <2>1, CapturedYoung
    <3>2. CASE t \in DOMAIN views
      BY <1>0, <2>4, <3>1, <3>2 DEF Younger, StoredOnce
    <3>3. CASE t \notin DOMAIN views
      <4>1. t = u /\ ~ \E g \in fetches : g.at < CreatedAt[u]
        BY <2>4, <3>3
      <4>2. \A g \in fetches : g.at \in Int
        BY <1>0 DEF Dated
      <4> QED BY <2>3, <3>1, <4>1, <4>2, CreatorAssumption
    <3> QED BY <3>2, <3>3
  <2>9. SameView'
    <3>1. UNCHANGED <<tokens, snapshots>>
      BY <2>1
    <3>2. \A t : AsOf(t)' = AsOf(t) /\ ContextOf(t)' = ContextOf(t)
      BY <3>1 DEF AsOf, View, Newest, Earlier, ContextOf, Near
    <3> SUFFICES ASSUME NEW CONSTANT t \in DOMAIN views', ~views'[t].awaited
                 PROVE  AsOf(t)' = views'[t].seen /\ ContextOf(t)' = views'[t].context
      BY DEF SameView
    <3>3. CASE t \in DOMAIN views
      BY <1>0, <2>4, <3>2, <3>3 DEF SameView
    <3>4. CASE t \notin DOMAIN views
      BY <2>4, <3>2, <3>4
    <3> QED BY <3>3, <3>4
  <2> QED BY <2>5, <2>6, <2>7, <2>8, <2>9 DEF SettledInv
<1>4. CASE ReadRows
  <2>1. PICK f \in fetches : fetches' = (fetches \ {f}) \cup {[f EXCEPT !.row = Computed(f.at)]}
    BY <1>4 DEF ReadRows
  <2>2. UNCHANGED <<clock, tokens, intake, views, fates, snapshots>>
    BY <1>4 DEF ReadRows
  <2> DEFINE g == [f EXCEPT !.row = Computed(f.at)]
  <2>3. f \in [kind : {"fetch", "refresh"}, at : Int, row : {f.row}]
    BY <1>0 DEF Dated
  <2>4. /\ g \in [kind : {"fetch", "refresh"}, at : Int, row : {g.row}]
        /\ g.at = f.at /\ g.row.at = f.at
    BY <2>3 DEF Computed
  <2> HIDE DEF g
  <2>5. fetches' = (fetches \ {f}) \cup {g}
    BY <2>1 DEF g
  <2>6. Dated'
    BY <1>0, <2>2, <2>4, <2>5 DEF Dated
  <2>7. Younger' /\ StoredOnce'
    BY <1>0, <2>2, <2>4, <2>5 DEF Younger, StoredOnce
  <2> QED BY <1>1, <2>2, <2>6, <2>7 DEF SettledInv
<1>5. CASE Persist
  <2>1. PICK f \in fetches :
          f.row # NoSnapshot /\ snapshots' = Append(snapshots, f.row) /\ fetches' = fetches \ {f}
    BY <1>5 DEF Persist
  <2>2. UNCHANGED <<clock, tokens, intake, views, fates>>
    BY <1>5 DEF Persist
  <2>3. f.row.at = f.at /\ f.row.at \in Int
    BY <1>0, <2>1 DEF Dated
  <2>4. Ranked'
    BY <1>0, <2>1, <2>3, NewestKept
  <2>5. /\ DOMAIN snapshots' = 1..Len(snapshots') /\ Len(snapshots') = Len(snapshots) + 1
        /\ \A i \in DOMAIN snapshots' : snapshots'[i] = IF i \in DOMAIN snapshots THEN snapshots[i]
                                                        ELSE f.row
    BY <1>0, <2>1 DEF Dated
  <2>6. Dated'
    BY <1>0, <2>1, <2>3, <2>5 DEF Dated
  <2>7. Younger' /\ StoredOnce'
    BY <1>0, <2>1, <2>2 DEF Younger, StoredOnce
  <2>8. ASSUME NEW CONSTANT t \in DOMAIN views, ~views[t].awaited
        PROVE  AsOf(t)' = AsOf(t) /\ ContextOf(t)' = ContextOf(t)
    <3>1. CreatedAt[t] <= f.row.at /\ t \in DOMAIN CreatedAt
      BY <1>0, <2>1, <2>3, <2>8 DEF Younger, StoredOnce
    <3>2. Newest(KnownOf(t))' = Newest(KnownOf(t))
      BY <1>0, <2>1, <2>3, <3>1, KnownKept
    <3>3. Earlier(t)' = Earlier(t)
      BY <2>2 DEF Earlier
    <3> QED BY <3>2, <3>3, SameKnown
  <2>9. SameView'
    BY <1>0, <2>2, <2>8 DEF SameView
  <2> QED BY <2>4, <2>6, <2>7, <2>9 DEF SettledInv
<1>6. CASE GiveUp
  <2>1. fetches' \subseteq fetches /\ UNCHANGED <<clock, tokens, intake, views, fates, snapshots>>
    BY <1>6 DEF GiveUp
  <2>2. StoredOnce' /\ Dated' /\ Younger'
    BY <1>0, <2>1 DEF StoredOnce, Dated, Younger
  <2> QED BY <1>1, <2>1, <2>2 DEF SettledInv
<1>7. CASE Fate
  <2>1. UNCHANGED <<clock, tokens, intake, views, snapshots, fetches>>
    BY <1>7 DEF Fate
  <2>2. StoredOnce' /\ Dated' /\ Younger'
    BY <1>0, <2>1 DEF StoredOnce, Dated, Younger
  <2> QED BY <1>1, <2>1, <2>2 DEF SettledInv
<1>8. CASE ClockTicks
  <2>1. clock' = clock + 1 /\ UNCHANGED <<tokens, intake, views, fates, snapshots, fetches>>
    BY <1>8 DEF ClockTicks
  <2>2. StoredOnce'
    BY <1>0, <2>1, CreatorAssumption DEF StoredOnce
  <2>3. Dated' /\ Younger'
    BY <1>0, <2>1 DEF Dated, Younger
  <2> QED BY <1>1, <2>1, <2>2, <2>3 DEF SettledInv
<1>9. CASE UNCHANGED creatorVars
  <2>1. UNCHANGED <<clock, tokens, intake, views, snapshots, fetches>>
    BY <1>9 DEF creatorVars
  <2>2. StoredOnce' /\ Dated' /\ Younger'
    BY <1>0, <2>1 DEF StoredOnce, Dated, Younger
  <2> QED BY <1>1, <2>1, <2>2 DEF SettledInv
<1> QED BY <1>2, <1>3, <1>4, <1>5, <1>6, <1>7, <1>8, <1>9 DEF CreatorNext

LEMMA SettledAlways == CreatorSpec => []SettledInv
BY SettledInit, SettledStep, PTL DEF CreatorSpec

(* No snapshot observed from birth to scoring: training reads the same one. *)
LEMMA TrainedIsKnown ==
  ASSUME Dated, NEW t \in DOMAIN CreatedAt, CreatedAt[t] > 0,
         ~ \E i \in DOMAIN snapshots :
           snapshots[i].at \in CreatedAt[t]..CreatedAt[t] + ScoredAfter
  PROVE  TrainedSnapshot(t) = Newest(KnownOf(t))
<1>1. CreatedAt[t] \in Int /\ ScoredAfter \in Nat
  BY CreatorAssumption
<1>2. \A i \in DOMAIN snapshots : snapshots[i].at \in Int
  BY DEF Dated
<1>3. {i \in DOMAIN snapshots : snapshots[i].at <= CreatedAt[t] + ScoredAfter} = KnownOf(t)
  BY <1>1, <1>2 DEF KnownOf
<1> QED BY <1>3 DEF TrainedSnapshot, LatestAsOf

LEMMA SettledViews == SettledInv => AsOfSettles
<1> SUFFICES ASSUME SettledInv, NEW t \in DOMAIN views, ~views[t].awaited
             PROVE  /\ AsOf(t) = views[t].seen /\ ContextOf(t) = views[t].context
                    /\ CreatorGate(AsOf(t)) = CreatorGate(views[t].seen)
                    /\ (/\ ~ \E i \in DOMAIN snapshots :
                             snapshots[i].at \in CreatedAt[t]..CreatedAt[t] + ScoredAfter
                        /\ Earlier(t) # {} /\ CreatedAt[t] > 0
                        /\ TrainedSnapshot(t) # NoSnapshot)
                       => TrainedCreator(t) = CreatorFeats(views[t].seen)
  BY DEF AsOfSettles
<1>1. AsOf(t) = views[t].seen /\ ContextOf(t) = views[t].context
  BY DEF SettledInv, SameView
<1>2. ASSUME ~ \E i \in DOMAIN snapshots :
                 snapshots[i].at \in CreatedAt[t]..CreatedAt[t] + ScoredAfter,
             Earlier(t) # {}, CreatedAt[t] > 0, TrainedSnapshot(t) # NoSnapshot
      PROVE  TrainedCreator(t) = CreatorFeats(views[t].seen)
  <2>1. t \in DOMAIN CreatedAt /\ Dated
    BY DEF SettledInv, StoredOnce
  <2>2. AsOf(t) = View(t, TrainedSnapshot(t))
    BY <1>2, <2>1, TrainedIsKnown, ViewOfKnown
  <2> QED BY <1>1, <1>2, <2>2 DEF TrainedCreator, CreatorFeats, View
<1> QED BY <1>1, <1>2

(* What a replay, the backtest and the training are told of a creator is what *)
(* the live handler was told, unless a capture begun before the token's      *)
(* birth was still under way (AsOfSettles).                                  *)
THEOREM ViewsSettle == CreatorSpec => []AsOfSettles
BY SettledViews, SettledAlways, PTL

(* ------------------- types of the creator ------------------------------- *)
(* No token is stored twice, and one refresh is under way at most.           *)
CapturesTyped ==
  \A f \in fetches : f.kind \in {"fetch", "refresh"} /\ f.at \in 0..clock
OneRefresh == \A f, g \in fetches : f.kind = "refresh" /\ g.kind = "refresh" => f = g
CreatorTyped ==
  /\ clock \in -1..MaxClock
  /\ ToSet(tokens) = DOMAIN views \cup intake
  /\ IsFiniteSet(ToSet(tokens)) /\ Len(tokens) = Cardinality(ToSet(tokens))
  /\ DOMAIN fates \subseteq DOMAIN views
  /\ CapturesTyped /\ OneRefresh

LEMMA CreatorTypes == CreatorTyped => CreatorTypeOK
<1> SUFFICES ASSUME CreatorTyped PROVE CreatorTypeOK
  OBVIOUS
<1>1. Cardinality(InFlight("refresh")) <= 1
  <2>1. CASE InFlight("refresh") = {}
    BY <2>1, FS_EmptySet
  <2>2. CASE InFlight("refresh") # {}
    <3>1. PICK f : f \in InFlight("refresh")
      BY <2>2
    <3>2. InFlight("refresh") = {f}
      BY <3>1 DEF InFlight, CreatorTyped, OneRefresh
    <3>3. Cardinality({f}) = 1
      BY FS_Singleton
    <3> QED BY <3>2, <3>3
  <2> QED BY <2>1, <2>2
<1> QED BY <1>1 DEF CreatorTyped, CreatorTypeOK, CapturesTyped

LEMMA CreatorStartsTyped == CreatorInit \/ CreatorOff => CreatorTyped
<1> SUFFICES ASSUME CreatorInit \/ CreatorOff PROVE CreatorTyped
  OBVIOUS
<1>1. /\ clock \in {-1, 0} /\ tokens = <<>> /\ intake = {} /\ views = << >>
      /\ fates = << >> /\ fetches = {}
  BY DEF CreatorInit, CreatorOff
<1>2. ToSet(tokens) = {} /\ Len(tokens) = 0
  BY <1>1 DEF ToSet
<1>3. clock \in -1..MaxClock
  BY <1>1, CreatorAssumption
<1>4. DOMAIN views = {} /\ DOMAIN fates = {}
  BY <1>1
<1> QED BY <1>1, <1>2, <1>3, <1>4, FS_EmptySet DEF CreatorTyped, CapturesTyped, OneRefresh

LEMMA InsertTyped ==
  ASSUME SettledInv, CreatorTyped, InsertToken
  PROVE  CreatorTyped'
<1>1. PICK t \in DOMAIN CreatedAt :
        /\ t \notin DOMAIN views /\ intake = {}
        /\ tokens' = Append(tokens, t) /\ intake' = {t}
        /\ UNCHANGED <<clock, views, fates, snapshots, fetches>>
  BY DEF InsertToken
<1>2. tokens \in Seq(DOMAIN CreatedAt)
  BY DEF SettledInv, StoredOnce
<1>3. ToSet(tokens') = ToSet(tokens) \cup {t}
  BY <1>1, <1>2, AppendAdds
<1>4. t \notin ToSet(tokens)
  BY <1>1 DEF CreatorTyped
<1>5. /\ IsFiniteSet(ToSet(tokens'))
      /\ Cardinality(ToSet(tokens')) = Cardinality(ToSet(tokens)) + 1
  BY <1>3, <1>4, FS_AddElement DEF CreatorTyped
<1>6. Len(tokens') = Len(tokens) + 1
  BY <1>1, <1>2
<1>7. ToSet(tokens') = DOMAIN views' \cup intake'
  BY <1>1, <1>3 DEF CreatorTyped
<1> QED BY <1>1, <1>5, <1>6, <1>7 DEF CreatorTyped, CapturesTyped, OneRefresh

LEMMA ViewTyped ==
  ASSUME SettledInv, CreatorTyped, TakeView
  PROVE  CreatorTyped'
<1>1. PICK t \in intake : DOMAIN views' = DOMAIN views \cup {t}
  BY DEF TakeView
<1>2. intake' = {} /\ fetches' = Captured /\ UNCHANGED <<clock, tokens, fates, snapshots>>
  BY DEF TakeView
<1>3. intake = {t} /\ t \in DOMAIN CreatedAt /\ CreatedAt[t] <= clock
  BY <1>1 DEF SettledInv, StoredOnce
<1>4. clock \in Nat
  BY <1>3, CreatorAssumption DEF CreatorTyped
<1>5. PICK renews : renews = [kind |-> "refresh", at |-> clock, row |-> NoSnapshot]
  OBVIOUS
<1>6. PICK asks : asks = [kind |-> "fetch", at |-> clock, row |-> NoSnapshot]
  OBVIOUS
<1>7. \/ fetches' = fetches
      \/ fetches' = fetches \cup {renews} /\ InFlight("refresh") = {}
      \/ fetches' = fetches \cup {asks}
  BY <1>2, <1>5, <1>6 DEF Captured
<1>8. renews.kind = "refresh" /\ renews.at = clock /\ asks.kind = "fetch" /\ asks.at = clock
  BY <1>5, <1>6
<1>9. CapturesTyped'
  <2>1. clock \in 0..clock
    BY <1>4
  <2> QED BY <1>2, <1>7, <1>8, <2>1 DEF CreatorTyped, CapturesTyped
<1>10. OneRefresh'
  BY <1>7, <1>8 DEF CreatorTyped, OneRefresh, InFlight
<1>11. ToSet(tokens') = DOMAIN views' \cup intake'
  BY <1>1, <1>2, <1>3 DEF CreatorTyped
<1> QED BY <1>1, <1>2, <1>9, <1>10, <1>11 DEF CreatorTyped

LEMMA ReadTyped ==
  ASSUME SettledInv, CreatorTyped, ReadRows
  PROVE  CreatorTyped'
<1>1. PICK f \in fetches : fetches' = (fetches \ {f}) \cup {[f EXCEPT !.row = Computed(f.at)]}
  BY DEF ReadRows
<1>2. UNCHANGED <<clock, tokens, intake, views, fates, snapshots>>
  BY DEF ReadRows
<1>3. PICK g : g = [f EXCEPT !.row = Computed(f.at)]
  OBVIOUS
<1>4. f \in [kind : {"fetch", "refresh"}, at : Int, row : {f.row}]
  BY DEF SettledInv, Dated
<1>5. g.kind = f.kind /\ g.at = f.at
  BY <1>3, <1>4
<1>6. CapturesTyped'
  BY <1>1, <1>2, <1>3, <1>5 DEF CreatorTyped, CapturesTyped
<1>7. OneRefresh'
  BY <1>1, <1>3, <1>5 DEF CreatorTyped, OneRefresh
<1> QED BY <1>2, <1>6, <1>7 DEF CreatorTyped

LEMMA FateTyped ==
  ASSUME CreatorTyped, Fate
  PROVE  CreatorTyped'
<1>1. PICK t \in DOMAIN views, fate \in {"rug", "graduated"} : 
        fates' = [u \in DOMAIN fates \cup {t} |-> IF u = t THEN fate ELSE fates[u]]
  BY DEF Fate
<1>2. DOMAIN fates' = DOMAIN fates \cup {t}
  BY <1>1
<1> QED BY <1>2 DEF CreatorTyped, CapturesTyped, OneRefresh, Fate

LEMMA CreatorKeepsTypes ==
  ASSUME SettledInv, CreatorTyped, [CreatorNext]_creatorVars
  PROVE  CreatorTyped'
<1>1. CASE InsertToken
  BY <1>1, InsertTyped
<1>2. CASE TakeView
  BY <1>2, ViewTyped
<1>3. CASE ReadRows
  BY <1>3, ReadTyped
<1>4. CASE Persist
  BY <1>4 DEF Persist, CreatorTyped, CapturesTyped, OneRefresh
<1>5. CASE GiveUp
  BY <1>5 DEF GiveUp, CreatorTyped, CapturesTyped, OneRefresh
<1>6. CASE Fate
  BY <1>6, FateTyped
<1>7. CASE ClockTicks
  <2>1. clock' = clock + 1 /\ clock \in 0..MaxClock - 1
        /\ UNCHANGED <<tokens, intake, views, fates, snapshots, fetches>>
    BY <1>7 DEF ClockTicks
  <2>2. clock' \in -1..MaxClock /\ \A a \in 0..clock : a \in 0..clock'
    BY <2>1, CreatorAssumption
  <2> QED BY <2>1, <2>2 DEF CreatorTyped, CapturesTyped, OneRefresh
<1>8. CASE UNCHANGED creatorVars
  BY <1>8 DEF creatorVars, CreatorTyped, CapturesTyped, OneRefresh
<1> QED BY <1>1, <1>2, <1>3, <1>4, <1>5, <1>6, <1>7, <1>8 DEF CreatorNext

(* ------------------- the feed of the validator ------------------------- *)
LEMMA AppendsBehind ==
  ASSUME NEW S, NEW t \in Seq(S), NEW w \in Seq(S), NEW x \in S
  PROVE  t \o Append(w, x) = Append(t \o w, x)
<1> DEFINE l == t \o Append(w, x)
           r == Append(t \o w, x)
<1>1. Len(t) \in Nat /\ Len(w) \in Nat
  OBVIOUS
<1>2. /\ l \in Seq(S) /\ r \in Seq(S) /\ Len(l) = Len(t) + Len(w) + 1 /\ Len(r) = Len(t) + Len(w) + 1
  BY <1>1
<1>3. \A i \in 1..Len(l) : l[i] = r[i]
  <2> TAKE i \in 1..Len(l)
  <2>1. CASE i <= Len(t)
    BY <1>1, <1>2, <2>1
  <2>2. CASE i > Len(t) /\ i <= Len(t) + Len(w)
    BY <1>1, <1>2, <2>2
  <2>3. CASE i = Len(t) + Len(w) + 1
    BY <1>1, <1>2, <2>3
  <2> QED BY <1>1, <1>2, <2>1, <2>2, <2>3
<1> HIDE DEF l, r
<1>4. l = r
  BY <1>2, <1>3, SeqEqual
<1> QED BY <1>4 DEF l, r

LEMMA PartOf ==
  ASSUME NEW S, NEW s \in Seq(S), NEW m \in Nat \ {0}, NEW n \in Nat, n <= Len(s), m <= n + 1,
         NEW a, a = SubSeq(s, m, n)
  PROVE  /\ a \in Seq(S) /\ Len(a) = n - m + 1
         /\ \A i \in 1..Len(a) : a[i] = s[m + i - 1]
<1>1. \A i \in m..n : s[i] \in S
  OBVIOUS
<1>2. /\ a \in Seq(S) /\ Len(a) = (IF m <= n THEN n - m + 1 ELSE 0)
      /\ \A i \in 1..n - m + 1 : a[i] = s[m + i - 1]
  BY <1>1, SubSeqProperties
<1>3. Len(a) = n - m + 1
  BY <1>2
<1> QED BY <1>2, <1>3

LEMMA PartKept ==
  ASSUME NEW S, NEW s \in Seq(S), NEW x \in S, NEW from \in Nat \ {0}, NEW to \in Nat,
         to <= Len(s)
  PROVE  SubSeq(Append(s, x), from, to) = SubSeq(s, from, to)
<1>1. Len(s) \in Nat /\ \A i \in 1..Len(s) : s[i] \in S /\ Append(s, x)[i] = s[i]
  OBVIOUS
<1>2. \A i \in from..to : Append(s, x)[i] = s[i] /\ s[i] \in S
  BY <1>1
<1>3. PICK a : a = SubSeq(Append(s, x), from, to)
  OBVIOUS
<1>4. PICK b : b = SubSeq(s, from, to)
  OBVIOUS
<1>5. PICK t : t = Append(s, x)
  OBVIOUS
<1>6. /\ a \in Seq(S) /\ Len(a) = (IF from <= to THEN to - from + 1 ELSE 0)
      /\ \A i \in 1..to - from + 1 : a[i] = t[from + i - 1]
  BY <1>2, <1>3, <1>5, SubSeqProperties
<1>7. /\ b \in Seq(S) /\ Len(b) = (IF from <= to THEN to - from + 1 ELSE 0)
      /\ \A i \in 1..to - from + 1 : b[i] = s[from + i - 1]
  BY <1>2, <1>4, SubSeqProperties
<1>8. \A i \in 1..Len(a) : a[i] = b[i]
  <2> TAKE i \in 1..Len(a)
  <2>1. i \in 1..to - from + 1 /\ from + i - 1 \in from..to
    BY <1>6
  <2> QED BY <1>2, <1>5, <1>6, <1>7, <2>1
<1> QED BY <1>3, <1>4, <1>6, <1>7, <1>8, SeqEqual

LEMMA PartGrows ==
  ASSUME NEW S, NEW s \in Seq(S), NEW x \in S, NEW from \in Nat \ {0}, from <= Len(s) + 1
  PROVE  SubSeq(Append(s, x), from, Len(s) + 1) = Append(SubSeq(s, from, Len(s)), x)
<1> DEFINE n == Len(s)
<1>1. n \in Nat /\ \A i \in 1..n : s[i] \in S /\ Append(s, x)[i] = s[i]
  OBVIOUS
<1>2. PICK t : t = Append(s, x)
  OBVIOUS
<1>3. t \in Seq(S) /\ Len(t) = n + 1 /\ t[n + 1] = x /\ \A i \in 1..n : t[i] = s[i]
  BY <1>2
<1>4. PICK a : a = SubSeq(t, from, n + 1)
  OBVIOUS
<1>5. PICK b : b = SubSeq(s, from, n)
  OBVIOUS
<1> HIDE DEF n
<1>6. \A i \in from..n : s[i] \in S
  BY <1>1
<1>7. \A i \in from..n + 1 : t[i] \in S
  BY <1>1, <1>3
<1>8. /\ a \in Seq(S) /\ Len(a) = n + 1 - from + 1
      /\ \A i \in 1..n + 1 - from + 1 : a[i] = t[from + i - 1]
  <2>1. PICK e : e = n + 1
    OBVIOUS
  <2>2. e \in Nat /\ e <= Len(t) /\ from <= e + 1 /\ a = SubSeq(t, from, e)
    BY <1>1, <1>3, <1>4, <2>1 DEF n
  <2>3. /\ a \in Seq(S) /\ Len(a) = e - from + 1
        /\ \A i \in 1..Len(a) : a[i] = t[from + i - 1]
    BY <1>3, <2>2, PartOf
  <2> QED BY <1>1, <2>1, <2>3
<1>9. /\ b \in Seq(S) /\ Len(b) = n - from + 1
      /\ \A i \in 1..n - from + 1 : b[i] = s[from + i - 1]
  <2>1. n \in Int /\ from \in Int /\ (~(from <= n) => from = n + 1)
    BY <1>1 DEF n
  <2>2. /\ b \in Seq(S) /\ Len(b) = (IF from <= n THEN n - from + 1 ELSE 0)
        /\ \A i \in 1..n - from + 1 : b[i] = s[from + i - 1]
    BY <1>5, <1>6, <2>1, SubSeqProperties
  <2> QED BY <2>1, <2>2
<1>10. PICK c : c = Append(b, x)
  OBVIOUS
<1>11. /\ c \in Seq(S) /\ Len(c) = Len(b) + 1 /\ c[Len(b) + 1] = x
       /\ \A i \in 1..Len(b) : c[i] = b[i]
  BY <1>9, <1>10
<1>12. Len(a) = Len(c)
  BY <1>1, <1>8, <1>9, <1>11
<1>13. \A i \in 1..Len(a) : a[i] = c[i]
  <2> TAKE i \in 1..Len(a)
  <2>1. CASE i = Len(b) + 1
    <3>1. from + i - 1 = n + 1 /\ i \in 1..n + 1 - from + 1
      BY <1>1, <1>8, <1>9, <2>1
    <3> QED BY <1>3, <1>8, <1>11, <2>1, <3>1
  <2>2. CASE i # Len(b) + 1
    <3>1. i \in 1..Len(b) /\ i \in 1..n - from + 1 /\ i \in 1..n + 1 - from + 1
          /\ from + i - 1 \in 1..n
      BY <1>1, <1>8, <1>9, <2>2
    <3> QED BY <1>3, <1>8, <1>9, <1>11, <3>1
  <2> QED BY <2>1, <2>2
<1>14. a = c
  BY <1>8, <1>11, <1>12, <1>13, SeqEqual
<1> QED BY <1>2, <1>4, <1>5, <1>10, <1>14 DEF n

-----------------------------------------------------------------------------
GeyserSpec == GeyserInit /\ [][GeyserNext]_geyserVars

Signers == {tx.signer : tx \in Transactions}
Report == [side : {"buy", "sell"}, wallet : Signers, isCreator : BOOLEAN]
Queue == [mint : ChainMints, waiting : Seq(Report), taken : Seq(Report),
          met : BOOLEAN, from : Nat, to : Nat]
Creations == {tx \in Transactions : Decode(tx) = "create"}

GeyserShape ==
  /\ wire \in {"unconnected", "reads", "asleep", "closed"}
  /\ chain \in Seq(Transactions) /\ untaken \in Seq(Creations)
  /\ DOMAIN makerOf = ChainMints
  /\ \A m \in ChainMints : makerOf[m] \in {NoSigner, Makers[m]}
  /\ queues \in Seq(Queue) /\ pipe \in [ChainMints -> Nat]
  /\ readers \in [ChainMints -> [queue : Nat, left : BOOLEAN]]

(* A queue hears from its subscription on; the one its mint leads to has not  *)
(* been left.                                                                *)
Piped ==
  /\ \A q \in DOMAIN queues : /\ queues[q].from \in 1..Len(chain) + 1
                              /\ queues[q].to \in 0..Len(chain)
  /\ \A m \in ChainMints : /\ pipe[m] \in 0..Len(queues)
                           /\ readers[m].queue \in 0..Len(queues)
  /\ \A m \in ChainMints : pipe[m] # 0 =>
       /\ queues[pipe[m]].mint = m /\ queues[pipe[m]].to = 0
       /\ queues[pipe[m]].met => makerOf[m] = Makers[m]

Left == \A m \in ChainMints : readers[m].queue \in {0, pipe[m]} \/ readers[m].left

(* What the queue q should have been given, and whether it was.              *)
Ours(m) == {tx \in Transactions : tx.mint = m /\ IsTrade(tx)}
End(q) == IF queues[q].to > 0 THEN queues[q].to
          ELSE IF pipe[queues[q].mint] = q THEN Len(chain) ELSE queues[q].from - 1
Tells(x, tx, m, met) ==
  /\ x.side = Decode(tx)
  /\ x.wallet = tx.signer
  /\ x.isCreator => tx.signer = Makers[m]
  /\ met => (x.isCreator <=> tx.signer = Makers[m])
TellsAll(heard, dues, m, met) ==
  /\ Len(heard) = Len(dues)
  /\ \A i \in DOMAIN dues : Tells(heard[i], dues[i], m, met)
Told(x, span) == TellsAll(x.taken \o x.waiting, Among(span, Ours(x.mint)), x.mint, x.met)
AllTold == \A q \in DOMAIN queues :
             Told(queues[q], SubSeq(chain, queues[q].from, End(q)))

GeyserInv == GeyserShape /\ Piped /\ Left /\ AllTold

LEMMA TellsMore ==
  ASSUME NEW S, NEW T, NEW h \in Seq(S), NEW d \in Seq(T), NEW x \in S, NEW tx \in T,
         NEW m, NEW met, TellsAll(h, d, m, met), Tells(x, tx, m, met)
  PROVE  TellsAll(Append(h, x), Append(d, tx), m, met)
<1>1. Len(h) \in Nat /\ Len(d) = Len(h) /\ DOMAIN d = 1..Len(d)
      /\ \A i \in 1..Len(d) : Tells(h[i], d[i], m, met)
  BY DEF TellsAll
<1>2. PICK a : a = Append(h, x)
  OBVIOUS
<1>3. PICK b : b = Append(d, tx)
  OBVIOUS
<1>4. /\ Len(a) = Len(h) + 1 /\ a[Len(h) + 1] = x /\ \A i \in 1..Len(h) : a[i] = h[i]
      /\ Len(b) = Len(d) + 1 /\ b[Len(d) + 1] = tx /\ \A i \in 1..Len(d) : b[i] = d[i]
      /\ DOMAIN b = 1..Len(d) + 1
  BY <1>1, <1>2, <1>3
<1>5. ASSUME NEW i \in DOMAIN b PROVE Tells(a[i], b[i], m, met)
  <2>1. CASE i = Len(d) + 1
    BY <1>1, <1>4, <2>1
  <2>2. CASE i # Len(d) + 1
    <3>1. i \in 1..Len(d) /\ i \in 1..Len(h)
      BY <1>1, <1>4, <2>2
    <3> QED BY <1>1, <1>4, <3>1
  <2> QED BY <2>1, <2>2
<1>6. Len(a) = Len(b)
  BY <1>1, <1>4
<1> QED BY <1>2, <1>3, <1>5, <1>6 DEF TellsAll

LEMMA GeyserStarts == GeyserInit => GeyserInv
<1> SUFFICES ASSUME GeyserInit PROVE GeyserInv
  OBVIOUS
<1>1. /\ wire = "unconnected" /\ untaken = <<>> /\ queues = <<>> /\ chain = <<>>
      /\ makerOf = [m \in ChainMints |-> NoSigner] /\ pipe = [m \in ChainMints |-> 0]
      /\ readers = [m \in ChainMints |-> NobodyReads]
  BY DEF GeyserInit
<1>2. /\ <<>> \in Seq(Creations) /\ <<>> \in Seq(Transactions) /\ <<>> \in Seq(Queue)
      /\ DOMAIN <<>> = {}
  OBVIOUS
<1>3. NobodyReads \in [queue : Nat, left : BOOLEAN] /\ NobodyReads.queue = 0
  BY DEF NobodyReads
<1>4. GeyserShape
  BY <1>1, <1>2, <1>3 DEF GeyserShape
<1>5. Len(queues) = 0
  BY <1>1
<1>6. Piped /\ Left /\ AllTold
  BY <1>1, <1>2, <1>3, <1>5 DEF Piped, Left, AllTold
<1> QED BY <1>4, <1>6 DEF GeyserInv

(* Nothing is due, or told, of other variables.                              *)
LEMMA ToldKept == AllTold /\ UNCHANGED <<queues, chain, pipe>> => AllTold'
<1> SUFFICES ASSUME AllTold, UNCHANGED <<queues, chain, pipe>>, NEW q \in DOMAIN queues
             PROVE  Told(queues[q], SubSeq(chain, queues[q].from, End(q)'))
  BY DEF AllTold
<1>1. End(q)' = End(q)
  BY DEF End
<1> QED BY <1>1 DEF AllTold

LEMMA WireMoves ==
  GeyserInv /\ (ConnectGeyser \/ StreamBreaks \/ ResumeReading \/ DisconnectGeyser) => GeyserInv'
<1> SUFFICES ASSUME GeyserInv, ConnectGeyser \/ StreamBreaks \/ ResumeReading \/ DisconnectGeyser
             PROVE  GeyserInv'
  OBVIOUS
<1>1. /\ wire' \in {"reads", "asleep", "closed"}
      /\ UNCHANGED <<untaken, makerOf, queues, pipe, readers, chain>>
  BY DEF ConnectGeyser, StreamBreaks, ResumeReading, DisconnectGeyser
<1> QED BY <1>1, ToldKept DEF GeyserInv, GeyserShape, Piped, Left, Creations, Decode

LEMMA TokenTaken == GeyserInv /\ TakeToken => GeyserInv'
<1> SUFFICES ASSUME GeyserShape, Piped, Left, AllTold, TakeToken PROVE GeyserInv'
  BY DEF GeyserInv
<1>1. /\ untaken # <<>> /\ untaken' = Tail(untaken)
      /\ makerOf' = [makerOf EXCEPT ![Head(untaken).mint] = Head(untaken).signer]
      /\ UNCHANGED <<wire, queues, pipe, readers, chain>>
  BY DEF TakeToken
<1>0. untaken \in Seq(Creations)
  BY DEF GeyserShape
<1>2. PICK tx \in Creations : tx = Head(untaken)
  BY <1>0, <1>1
<1>3. tx.mint \in ChainMints /\ tx.signer = Makers[tx.mint]
  BY GeyserAssumption DEF Creations, Decode
<1>4. /\ DOMAIN makerOf' = ChainMints /\ makerOf'[tx.mint] = Makers[tx.mint]
      /\ \A m \in ChainMints \ {tx.mint} : makerOf'[m] = makerOf[m]
  BY <1>1, <1>2, <1>3 DEF GeyserShape
<1>5. Tail(untaken) \in Seq(Creations)
  BY <1>0, <1>1
<1>6. GeyserShape'
  BY <1>1, <1>4, <1>5 DEF GeyserShape, Creations, Decode
<1>7. Piped' /\ Left'
  BY <1>1, <1>4 DEF Piped, Left
<1> QED BY <1>1, <1>6, <1>7, ToldKept DEF GeyserInv

LEMMA GeyserSubscribes ==
  ASSUME GeyserShape, Piped, Left, AllTold, NEW m \in ChainMints, SubscribeGeyser(m)
  PROVE  GeyserInv'
<1> DEFINE new == NewQueue(m)
           n == Len(queues) + 1
<1>1. /\ pipe[m] = 0 /\ queues' = Append(queues, new)
      /\ UNCHANGED <<wire, untaken, makerOf, readers, chain>>
  BY DEF SubscribeGeyser
<1>0. /\ queues \in Seq(Queue) /\ chain \in Seq(Transactions)
      /\ makerOf[m] \in {NoSigner, Makers[m]}
  BY DEF GeyserShape
<1>2. /\ Len(queues) \in Nat /\ Len(chain) \in Nat /\ DOMAIN queues = 1..Len(queues)
      /\ \A q \in DOMAIN queues : queues[q] \in Queue
  BY <1>0
<1>3. /\ new \in Queue /\ new.mint = m /\ new.from = Len(chain) + 1 /\ new.to = 0
      /\ new.taken = <<>> /\ new.waiting = <<>>
      /\ new.met => makerOf[m] = Makers[m]
  <2>1. <<>> \in Seq(Report)
    OBVIOUS
  <2>2. CASE makerOf[m] = NoSigner
    <3>1. new = [mint |-> m, waiting |-> <<>>, taken |-> <<>>, met |-> FALSE,
                 from |-> Len(chain) + 1, to |-> 0]
      BY <2>2 DEF NewQueue
    <3> HIDE DEF new
    <3> QED BY <1>0, <1>2, <2>1, <3>1 DEF Queue
  <2>3. CASE makerOf[m] # NoSigner
    <3>1. new = [mint |-> m, waiting |-> <<>>, taken |-> <<>>, met |-> TRUE,
                 from |-> Len(chain) + 1, to |-> 0]
      BY <2>3 DEF NewQueue
    <3> HIDE DEF new
    <3> QED BY <1>0, <1>2, <2>1, <2>3, <3>1 DEF Queue
  <2> QED BY <2>2, <2>3
<1> HIDE DEF new
<1>4. /\ queues' \in Seq(Queue) /\ Len(queues') = n /\ DOMAIN queues' = 1..n
      /\ queues'[n] = new /\ \A q \in DOMAIN queues : queues'[q] = queues[q]
  BY <1>0, <1>1, <1>2, <1>3 DEF n
<1>5. pipe' = [pipe EXCEPT ![m] = n]
  BY <1>4 DEF SubscribeGeyser
<1> HIDE DEF n
<1>6. /\ n \in Nat \ {0} /\ n \notin DOMAIN queues /\ DOMAIN queues' = DOMAIN queues \cup {n}
      /\ Len(queues) <= n /\ n = Len(queues) + 1
  BY <1>2, <1>4 DEF n
<1>7. /\ pipe' \in [ChainMints -> Nat] /\ pipe'[m] = n
      /\ \A x \in ChainMints \ {m} : pipe'[x] = pipe[x]
  BY <1>5, <1>6 DEF GeyserShape
<1>8. GeyserShape'
  BY <1>1, <1>4, <1>7 DEF GeyserShape, Creations, Decode
<1>9. \A x \in ChainMints : pipe[x] # 0 => pipe[x] \in DOMAIN queues
  BY <1>2 DEF Piped
<1>10. Piped'
  <2>1. \A q \in DOMAIN queues' : /\ queues'[q].from \in 1..Len(chain') + 1
                                  /\ queues'[q].to \in 0..Len(chain')
    BY <1>1, <1>2, <1>3, <1>4, <1>6 DEF Piped
  <2>2. \A x \in ChainMints : /\ pipe'[x] \in 0..Len(queues')
                              /\ readers'[x].queue \in 0..Len(queues')
    BY <1>1, <1>2, <1>4, <1>6, <1>7 DEF Piped
  <2>3. ASSUME NEW x \in ChainMints, pipe'[x] # 0
        PROVE  /\ queues'[pipe'[x]].mint = x /\ queues'[pipe'[x]].to = 0
               /\ queues'[pipe'[x]].met => makerOf'[x] = Makers[x]
    <3>1. CASE x = m
      BY <1>1, <1>3, <1>4, <1>7, <3>1
    <3>2. CASE x # m
      BY <1>1, <1>4, <1>7, <1>9, <2>3, <3>2 DEF Piped
    <3> QED BY <3>1, <3>2
  <2> QED BY <2>1, <2>2, <2>3 DEF Piped
<1>11. Left'
  BY <1>1, <1>7 DEF Left
<1>12. AllTold'
  <2> SUFFICES ASSUME NEW q \in DOMAIN queues'
               PROVE  Told(queues'[q], SubSeq(chain', queues'[q].from, End(q)'))
    BY DEF AllTold
  <2>1. CASE q = n
    <3>1. End(q)' = Len(chain)
      BY <1>1, <1>3, <1>4, <1>7, <2>1 DEF End
    <3>2. SubSeq(chain', queues'[q].from, End(q)') = <<>>
      BY <1>1, <1>2, <1>3, <1>4, <2>1, <3>1, SubSeqEmpty
    <3>3. Among(<<>>, Ours(m)) = <<>>
      BY AmongEmpty
    <3>4. TellsAll(<<>> \o <<>>, <<>>, m, new.met)
      <4>1. <<>> \o <<>> = <<>>
        OBVIOUS
      <4> QED BY <4>1 DEF TellsAll
    <3> QED BY <1>3, <1>4, <2>1, <3>2, <3>3, <3>4 DEF Told
  <2>2. CASE q # n
    <3>1. q \in DOMAIN queues /\ queues'[q] = queues[q] /\ queues[q].mint \in ChainMints /\ q # 0
      <4>1. q \in DOMAIN queues
        BY <1>6, <2>2
      <4>2. queues[q] \in Queue /\ q # 0
        BY <1>2, <4>1
      <4>3. queues[q].mint \in ChainMints
        BY <4>2 DEF Queue
      <4> QED BY <1>4, <4>1, <4>2, <4>3
    <3>2. End(q)' = End(q)
      BY <1>1, <1>7, <2>2, <3>1 DEF End
    <3> QED BY <1>1, <3>1, <3>2 DEF AllTold
  <2> QED BY <2>1, <2>2
<1> QED BY <1>8, <1>10, <1>11, <1>12 DEF GeyserInv

(* To unsubscribe ends what is due to the queue where it stands.             *)
LEMMA GeyserUnsubscribes ==
  ASSUME GeyserShape, Piped, Left, AllTold, NEW m \in ChainMints, UnsubscribeGeyser(m)
  PROVE  GeyserInv'
<1>1. /\ queues' = IF pipe[m] = 0 THEN queues
                   ELSE [queues EXCEPT ![pipe[m]].to = Len(chain)]
      /\ pipe' = [pipe EXCEPT ![m] = 0] /\ makerOf' = [makerOf EXCEPT ![m] = NoSigner]
      /\ readers' = [readers EXCEPT ![m].left = @ \/ readers[m].queue # 0]
      /\ UNCHANGED <<wire, untaken, chain>>
  BY DEF UnsubscribeGeyser
<1>2. queues \in Seq(Queue) /\ chain \in Seq(Transactions)
  BY DEF GeyserShape
<1>3. /\ Len(queues) \in Nat /\ Len(chain) \in Nat /\ DOMAIN queues = 1..Len(queues)
      /\ \A q \in DOMAIN queues : queues[q] \in Queue
  BY <1>2
<1>4. /\ DOMAIN makerOf' = ChainMints /\ makerOf'[m] = NoSigner
      /\ \A x \in ChainMints \ {m} : makerOf'[x] = makerOf[x]
  BY <1>1 DEF GeyserShape
<1>5. /\ pipe' \in [ChainMints -> Nat] /\ pipe'[m] = 0
      /\ \A x \in ChainMints \ {m} : pipe'[x] = pipe[x]
  BY <1>1 DEF GeyserShape
<1>6. /\ readers' \in [ChainMints -> [queue : Nat, left : BOOLEAN]]
      /\ \A x \in ChainMints : readers'[x].queue = readers[x].queue
      /\ \A x \in ChainMints \ {m} : readers'[x] = readers[x]
      /\ readers[m].queue # 0 => readers'[m].left = TRUE
  <2>1. readers \in [ChainMints -> [queue : Nat, left : BOOLEAN]] /\ readers[m].left \in BOOLEAN
    BY DEF GeyserShape
  <2>2. PICK b \in BOOLEAN : b = (readers[m].left \/ readers[m].queue # 0)
    BY <2>1
  <2>3. readers' = [readers EXCEPT ![m].left = b]
    BY <1>1, <2>2
  <2>4. readers[m].queue # 0 => b = TRUE
    BY <2>2
  <2> QED BY <2>1, <2>3, <2>4
<1>7. /\ queues' \in Seq(Queue) /\ Len(queues') = Len(queues) /\ DOMAIN queues' = DOMAIN queues
      /\ \A q \in DOMAIN queues :
           /\ q # pipe[m] => queues'[q] = queues[q]
           /\ q = pipe[m] => queues'[q] = [queues[q] EXCEPT !.to = Len(chain)]
  <2>1. CASE pipe[m] = 0
    BY <1>1, <1>2, <1>3, <2>1
  <2>2. CASE pipe[m] # 0
    <3>1. pipe[m] \in DOMAIN queues
      BY <1>3, <2>2 DEF Piped
    <3>2. queues' = [queues EXCEPT ![pipe[m]].to = Len(chain)]
      BY <1>1, <2>2
    <3>3. PICK x : x = [queues[pipe[m]] EXCEPT !.to = Len(chain)]
      OBVIOUS
    <3>4. x \in Queue
      BY <1>3, <3>1, <3>3 DEF Queue
    <3>5. queues' = [queues EXCEPT ![pipe[m]] = x]
      BY <3>2, <3>3
    <3>6. /\ queues' \in Seq(Queue) /\ Len(queues') = Len(queues)
          /\ \A q \in 1..Len(queues) : queues'[q] = IF q = pipe[m] THEN x ELSE queues[q]
      BY <1>2, <1>3, <3>1, <3>4, <3>5, ExceptSeq
    <3> QED BY <1>3, <3>3, <3>6
  <2> QED BY <2>1, <2>2
<1>8. GeyserShape'
  BY <1>1, <1>4, <1>5, <1>6, <1>7 DEF GeyserShape, Creations, Decode
<1>9. \A q \in DOMAIN queues :
        /\ queues'[q].mint = queues[q].mint /\ queues'[q].met = queues[q].met
        /\ queues'[q].from = queues[q].from /\ queues'[q].taken = queues[q].taken
        /\ queues'[q].waiting = queues[q].waiting
        /\ queues'[q].to = IF q = pipe[m] THEN Len(chain) ELSE queues[q].to
        /\ queues[q].mint \in ChainMints /\ queues[q].from \in Nat /\ queues[q].to \in Nat
  <2> TAKE q \in DOMAIN queues
  <2>1. queues[q] \in Queue
    BY <1>3
  <2>2. CASE q = pipe[m]
    <3>1. queues'[q] = [queues[q] EXCEPT !.to = Len(chain)]
      BY <1>7, <2>2
    <3> QED BY <2>1, <2>2, <3>1 DEF Queue
  <2>3. CASE q # pipe[m]
    BY <1>7, <2>1, <2>3 DEF Queue
  <2> QED BY <2>2, <2>3
<1>10. \A x \in ChainMints : pipe[x] # 0 =>
         pipe[x] \in DOMAIN queues /\ queues[pipe[x]].mint = x /\ queues[pipe[x]].to = 0
  BY <1>3 DEF Piped
<1>11. Piped'
  <2>1. \A q \in DOMAIN queues' : /\ queues'[q].from \in 1..Len(chain') + 1
                                  /\ queues'[q].to \in 0..Len(chain')
    BY <1>1, <1>3, <1>7, <1>9 DEF Piped
  <2>2. \A x \in ChainMints : /\ pipe'[x] \in 0..Len(queues')
                              /\ readers'[x].queue \in 0..Len(queues')
    BY <1>3, <1>5, <1>6, <1>7 DEF Piped
  <2>3. ASSUME NEW x \in ChainMints, pipe'[x] # 0
        PROVE  /\ queues'[pipe'[x]].mint = x /\ queues'[pipe'[x]].to = 0
               /\ queues'[pipe'[x]].met => makerOf'[x] = Makers[x]
    <3>1. x # m /\ pipe'[x] = pipe[x] /\ makerOf'[x] = makerOf[x]
      BY <1>4, <1>5, <2>3
    <3>2. pipe[x] # pipe[m]
      BY <1>10, <2>3, <3>1
    <3>3. pipe[x] \in DOMAIN queues /\ queues'[pipe[x]] = queues[pipe[x]]
      BY <1>7, <1>10, <2>3, <3>1, <3>2
    <3> QED BY <2>3, <3>1, <3>3 DEF Piped
  <2> QED BY <2>1, <2>2, <2>3 DEF Piped
<1>12. Left'
  <2> SUFFICES ASSUME NEW x \in ChainMints
               PROVE  readers'[x].queue \in {0, pipe'[x]} \/ readers'[x].left
    BY DEF Left
  <2>1. CASE x = m
    BY <1>6, <2>1
  <2>2. CASE x # m
    BY <1>5, <1>6, <2>2 DEF Left
  <2> QED BY <2>1, <2>2
<1>13. AllTold'
  <2> SUFFICES ASSUME NEW q \in DOMAIN queues
               PROVE  Told(queues'[q], SubSeq(chain', queues'[q].from, End(q)'))
    BY <1>7 DEF AllTold
  <2>1. Told(queues[q], SubSeq(chain, queues[q].from, End(q)))
    BY DEF AllTold
  <2>2. SubSeq(chain', queues'[q].from, End(q)') = SubSeq(chain, queues[q].from, End(q))
    <3>1. CASE q = pipe[m]
      <4>1. queues[q].to = 0 /\ queues[q].mint = m /\ End(q) = Len(chain) /\ q # 0
        BY <1>3, <1>10, <3>1 DEF End
      <4>2. CASE Len(chain) = 0
        <5>1. End(q)' = queues[q].from - 1 /\ queues[q].from = 1
          BY <1>1, <1>3, <1>5, <1>9, <3>1, <4>1, <4>2 DEF End, Piped
        <5> QED BY <1>1, <1>9, <4>1, <4>2, <5>1
      <4>3. CASE Len(chain) # 0
        <5>1. queues'[q].to = Len(chain) /\ Len(chain) > 0
          BY <1>3, <1>9, <3>1, <4>3
        <5>2. End(q)' = Len(chain)
          BY <5>1 DEF End
        <5>3. queues'[q].from = queues[q].from /\ chain' = chain
          BY <1>1, <1>9
        <5> QED BY <4>1, <5>2, <5>3
      <4> QED BY <4>2, <4>3
    <3>2. CASE q # pipe[m]
      <4>1. queues'[q] = queues[q] /\ q # 0 /\ queues[q].mint \in ChainMints
        BY <1>3, <1>7, <1>9, <3>2
      <4>2. pipe'[queues[q].mint] = q <=> pipe[queues[q].mint] = q
        BY <1>5, <3>2, <4>1
      <4>3. chain' = chain
        BY <1>1
      <4>4. End(q)' = End(q)
        BY <4>1, <4>2, <4>3 DEF End
      <4> QED BY <4>1, <4>3, <4>4
    <3> QED BY <3>1, <3>2
  <2>3. Told(queues'[q], SubSeq(chain, queues[q].from, End(q)))
    BY <1>9, <2>1 DEF Told
  <2> QED BY <2>2, <2>3
<1> QED BY <1>8, <1>11, <1>12, <1>13 DEF GeyserInv

(* A stream reads the queue its mint leads to when it starts.                *)
LEMMA GeyserStartsReading ==
  ASSUME GeyserShape, Piped, Left, AllTold, NEW m \in ChainMints, StartReading(m)
  PROVE  GeyserInv'
<1>1. /\ pipe[m] # 0 /\ readers' = [readers EXCEPT ![m] = [queue |-> pipe[m], left |-> FALSE]]
      /\ UNCHANGED <<wire, untaken, makerOf, queues, pipe, chain>>
  BY DEF StartReading
<1>2. /\ readers \in [ChainMints -> [queue : Nat, left : BOOLEAN]] /\ pipe[m] \in Nat
      /\ pipe[m] \in 0..Len(queues)
  BY DEF GeyserShape, Piped
<1>3. PICK r : r = [queue |-> pipe[m], left |-> FALSE]
  OBVIOUS
<1>4. r \in [queue : Nat, left : BOOLEAN] /\ r.queue = pipe[m]
  BY <1>2, <1>3
<1>5. readers' = [readers EXCEPT ![m] = r]
  BY <1>1, <1>3
<1>6. /\ readers' \in [ChainMints -> [queue : Nat, left : BOOLEAN]] /\ readers'[m].queue = pipe[m]
      /\ \A x \in ChainMints \ {m} : readers'[x] = readers[x]
  BY <1>2, <1>4, <1>5
<1>7. GeyserShape'
  BY <1>1, <1>6 DEF GeyserShape, Creations, Decode
<1>8. Piped'
  BY <1>1, <1>2, <1>6 DEF Piped
<1>9. Left'
  BY <1>1, <1>6 DEF Left
<1> QED BY <1>1, <1>7, <1>8, <1>9, ToldKept DEF GeyserInv

LEMMA GeyserEndsReading ==
  ASSUME GeyserShape, Piped, Left, AllTold, NEW m \in ChainMints, EndReading(m)
  PROVE  GeyserInv'
<1>1. /\ readers' = [readers EXCEPT ![m] = NobodyReads]
      /\ UNCHANGED <<wire, untaken, makerOf, queues, pipe, chain>>
  BY DEF EndReading
<1>2. readers \in [ChainMints -> [queue : Nat, left : BOOLEAN]]
  BY DEF GeyserShape
<1>3. NobodyReads \in [queue : Nat, left : BOOLEAN] /\ NobodyReads.queue = 0
  BY DEF NobodyReads
<1>4. /\ readers' \in [ChainMints -> [queue : Nat, left : BOOLEAN]] /\ readers'[m].queue = 0
      /\ \A x \in ChainMints \ {m} : readers'[x] = readers[x]
  BY <1>1, <1>2, <1>3
<1>5. GeyserShape'
  BY <1>1, <1>4 DEF GeyserShape, Creations, Decode
<1>6. Piped'
  BY <1>1, <1>4 DEF Piped
<1>7. Left'
  BY <1>1, <1>4 DEF Left
<1> QED BY <1>1, <1>5, <1>6, <1>7, ToldKept DEF GeyserInv

(* A trade read moves from the queue to what was taken: no more and no other *)
(* is told.                                                                  *)
LEMMA GeyserReads ==
  ASSUME GeyserShape, Piped, Left, AllTold, NEW m \in ChainMints, ReadTrade(m)
  PROVE  GeyserInv'
<1> DEFINE r == readers[m].queue
<1>1. /\ r # 0 /\ queues[r].waiting # <<>>
      /\ queues' = [queues EXCEPT ![r].waiting = Tail(@),
                      ![r].taken = Append(@, Head(queues[r].waiting))]
      /\ UNCHANGED <<wire, untaken, makerOf, pipe, readers, chain>>
  BY DEF ReadTrade
<1>2. queues \in Seq(Queue) /\ readers[m].queue \in Nat
  BY DEF GeyserShape
<1>3. /\ Len(queues) \in Nat /\ DOMAIN queues = 1..Len(queues)
      /\ \A q \in DOMAIN queues : queues[q] \in Queue
  BY <1>2
<1>4. r \in DOMAIN queues
  BY <1>1, <1>2, <1>3 DEF Piped
<1> HIDE DEF r
<1>5. queues[r] \in Queue /\ queues[r].waiting \in Seq(Report) /\ queues[r].taken \in Seq(Report)
  BY <1>3, <1>4 DEF Queue
<1>6. PICK w : w = Tail(queues[r].waiting)
  OBVIOUS
<1>7. PICK t : t = Append(queues[r].taken, Head(queues[r].waiting))
  OBVIOUS
<1>8. /\ w \in Seq(Report) /\ t \in Seq(Report)
      /\ t \o w = queues[r].taken \o queues[r].waiting
  BY <1>1, <1>5, <1>6, <1>7, MovesOver
<1>9. PICK x : x = [queues[r] EXCEPT !.waiting = w, !.taken = t]
  OBVIOUS
<1>10. /\ x \in Queue /\ x.waiting = w /\ x.taken = t /\ x.mint = queues[r].mint
       /\ x.met = queues[r].met /\ x.from = queues[r].from /\ x.to = queues[r].to
  BY <1>5, <1>8, <1>9 DEF Queue
<1>11. queues' = [queues EXCEPT ![r] = x]
  BY <1>1, <1>2, <1>4, <1>6, <1>7, <1>9
<1>12. /\ queues' \in Seq(Queue) /\ Len(queues') = Len(queues)
       /\ \A q \in 1..Len(queues) : queues'[q] = IF q = r THEN x ELSE queues[q]
  BY <1>2, <1>3, <1>4, <1>10, <1>11, ExceptSeq
<1>13. /\ DOMAIN queues' = DOMAIN queues
       /\ \A q \in DOMAIN queues :
            /\ queues'[q].mint = queues[q].mint /\ queues'[q].met = queues[q].met
            /\ queues'[q].from = queues[q].from /\ queues'[q].to = queues[q].to
            /\ queues'[q].taken \o queues'[q].waiting = queues[q].taken \o queues[q].waiting
  <2>1. DOMAIN queues' = DOMAIN queues
    BY <1>3, <1>12
  <2> SUFFICES ASSUME NEW q \in DOMAIN queues
               PROVE
            /\ queues'[q].mint = queues[q].mint /\ queues'[q].met = queues[q].met
            /\ queues'[q].from = queues[q].from /\ queues'[q].to = queues[q].to
            /\ queues'[q].taken \o queues'[q].waiting = queues[q].taken \o queues[q].waiting
    BY <2>1
  <2>2. CASE q = r
    BY <1>3, <1>8, <1>10, <1>12, <2>2
  <2>3. CASE q # r
    BY <1>3, <1>12, <2>3
  <2> QED BY <2>2, <2>3
<1>14. GeyserShape'
  BY <1>1, <1>12 DEF GeyserShape, Creations, Decode
<1>15. Piped'
  <2>1. \A y \in ChainMints : pipe[y] # 0 => pipe[y] \in DOMAIN queues
    BY <1>3 DEF Piped
  <2>2. UNCHANGED <<makerOf, pipe, readers, chain>>
    BY <1>1
  <2> QED BY <1>12, <1>13, <2>1, <2>2 DEF Piped
<1>16. Left'
  BY <1>1 DEF Left
<1>17. AllTold'
  <2> SUFFICES ASSUME NEW q \in DOMAIN queues
               PROVE  Told(queues'[q], SubSeq(chain', queues'[q].from, End(q)'))
    BY <1>13 DEF AllTold
  <2>1. pipe' = pipe /\ chain' = chain
    BY <1>1
  <2>2. End(q)' = End(q)
    BY <1>13, <2>1 DEF End
  <2>3. Told(queues[q], SubSeq(chain, queues[q].from, End(q)))
    BY DEF AllTold
  <2> QED BY <1>13, <2>1, <2>2, <2>3 DEF Told
<1> QED BY <1>14, <1>15, <1>16, <1>17 DEF GeyserInv

(* A report tells what the transaction does, and of the creator what the bot *)
(* knows.                                                                    *)
LEMMA ReportTells ==
  ASSUME GeyserShape, Piped, NEW tx \in Transactions, IsTrade(tx), pipe[tx.mint] # 0,
         NEW met, met => makerOf[tx.mint] = Makers[tx.mint]
  PROVE  TradeOf(tx) \in Report /\ Tells(TradeOf(tx), tx, tx.mint, met)
<1>1. /\ tx.mint \in ChainMints /\ tx.signer # NoSigner /\ tx.signer \in Signers
      /\ makerOf[tx.mint] \in {NoSigner, Makers[tx.mint]}
  BY GeyserAssumption DEF GeyserShape, Signers
<1>2. PICK d : d = Decode(tx)
  OBVIOUS
<1>3. d \in {"buy", "sell"}
  BY <1>2 DEF IsTrade
<1>4. PICK b \in BOOLEAN : b <=> tx.signer = makerOf[tx.mint]
  <2>1. CASE tx.signer = makerOf[tx.mint]
    BY <2>1
  <2>2. CASE tx.signer # makerOf[tx.mint]
    BY <2>2
  <2> QED BY <2>1, <2>2
<1>5. b = (tx.signer = makerOf[tx.mint])
  BY <1>4
<1>6. TradeOf(tx) = [side |-> d, wallet |-> tx.signer, isCreator |-> b]
  BY <1>2, <1>5 DEF TradeOf
<1>7. PICK x : x = [side |-> d, wallet |-> tx.signer, isCreator |-> b]
  OBVIOUS
<1>8. x \in Report /\ x.side = d /\ x.wallet = tx.signer /\ x.isCreator = b
  BY <1>1, <1>3, <1>7 DEF Report
<1>9. Tells(x, tx, tx.mint, met)
  BY <1>1, <1>2, <1>4, <1>8 DEF Tells
<1> QED BY <1>6, <1>7, <1>8, <1>9

(* A transaction received is due to the queue of its mint and to no other.   *)
LEMMA GeyserHears == GeyserInv /\ HandleTransaction => GeyserInv'
<1> SUFFICES ASSUME GeyserShape, Piped, Left, AllTold, HandleTransaction PROVE GeyserInv'
  BY DEF GeyserInv
<1>1. PICK tx \in Transactions :
        /\ chain' = Append(chain, tx)
        /\ untaken' = IF Decode(tx) = "create" THEN Append(untaken, tx) ELSE untaken
        /\ queues' = IF Decode(tx) \in {"buy", "sell"} /\ pipe[tx.mint] # 0
             THEN [queues EXCEPT ![pipe[tx.mint]].waiting = Append(@, TradeOf(tx))]
             ELSE queues
        /\ UNCHANGED <<wire, makerOf, pipe, readers>>
  BY DEF HandleTransaction
<1> DEFINE r == pipe[tx.mint]
<1>2. /\ queues \in Seq(Queue) /\ chain \in Seq(Transactions) /\ untaken \in Seq(Creations)
      /\ tx.mint \in ChainMints
  BY GeyserAssumption DEF GeyserShape
<1>3. /\ Len(queues) \in Nat /\ Len(chain) \in Nat /\ DOMAIN queues = 1..Len(queues)
      /\ \A q \in DOMAIN queues : queues[q] \in Queue
  BY <1>2
<1>4. /\ chain' \in Seq(Transactions) /\ Len(chain') = Len(chain) + 1
  BY <1>1, <1>2
<1>5. untaken' \in Seq(Creations)
  <2>1. CASE Decode(tx) = "create"
    <3>1. tx \in Creations
      BY <2>1 DEF Creations
    <3> QED BY <1>1, <1>2, <2>1, <3>1
  <2>2. CASE Decode(tx) # "create"
    BY <1>1, <1>2, <2>2
  <2> QED BY <2>1, <2>2
<1>6. \A x \in ChainMints : pipe[x] # 0 =>
        /\ pipe[x] \in DOMAIN queues /\ queues[pipe[x]].mint = x /\ queues[pipe[x]].to = 0
        /\ queues[pipe[x]].met => makerOf[x] = Makers[x]
  BY <1>3 DEF Piped
<1> DEFINE Given == IsTrade(tx) /\ r # 0
<1>7. ASSUME Given
      PROVE  /\ r \in DOMAIN queues /\ queues[r].mint = tx.mint
             /\ TradeOf(tx) \in Report /\ Tells(TradeOf(tx), tx, tx.mint, queues[r].met)
             /\ queues' \in Seq(Queue) /\ Len(queues') = Len(queues)
             /\ \A q \in DOMAIN queues : q # r => queues'[q] = queues[q]
             /\ queues'[r] = [queues[r] EXCEPT !.waiting = Append(queues[r].waiting, TradeOf(tx))]
  <2>1. /\ r \in DOMAIN queues /\ queues[r].mint = tx.mint
        /\ queues[r].met => makerOf[tx.mint] = Makers[tx.mint]
    BY <1>2, <1>6, <1>7
  <2>2. TradeOf(tx) \in Report /\ Tells(TradeOf(tx), tx, tx.mint, queues[r].met)
    BY <1>7, <2>1, ReportTells
  <2>3. queues[r] \in Queue /\ queues[r].waiting \in Seq(Report)
    BY <1>3, <2>1 DEF Queue
  <2>4. PICK w : w = Append(queues[r].waiting, TradeOf(tx))
    OBVIOUS
  <2>5. w \in Seq(Report)
    BY <2>2, <2>3, <2>4
  <2>6. PICK x : x = [queues[r] EXCEPT !.waiting = w]
    OBVIOUS
  <2>7. x \in Queue
    BY <2>3, <2>5, <2>6 DEF Queue
  <2>8. queues' = [queues EXCEPT ![r] = x]
    BY <1>1, <1>7, <2>4, <2>6 DEF IsTrade
  <2>9. /\ queues' \in Seq(Queue) /\ Len(queues') = Len(queues)
        /\ \A q \in 1..Len(queues) : queues'[q] = IF q = r THEN x ELSE queues[q]
    <3> HIDE DEF r
    <3> QED BY <1>2, <1>3, <2>1, <2>7, <2>8, ExceptSeq
  <2> QED BY <1>3, <2>1, <2>2, <2>4, <2>6, <2>9
<1>8. ~Given => queues' = queues
  BY <1>1 DEF IsTrade
<1>9. queues' \in Seq(Queue) /\ Len(queues') = Len(queues) /\ DOMAIN queues' = DOMAIN queues
  <2>1. CASE Given
    BY <1>3, <1>7, <2>1
  <2>2. CASE ~Given
    BY <1>2, <1>8, <2>2
  <2> QED BY <2>1, <2>2
<1>10. \A q \in DOMAIN queues :
        /\ queues'[q].mint = queues[q].mint /\ queues'[q].met = queues[q].met
        /\ queues'[q].from = queues[q].from /\ queues'[q].taken = queues[q].taken
        /\ queues'[q].to = queues[q].to
        /\ queues[q].mint \in ChainMints /\ queues[q].from \in Nat /\ queues[q].to \in Nat
        /\ queues[q].taken \in Seq(Report) /\ queues[q].waiting \in Seq(Report)
        /\ Given /\ q = r => queues'[q].waiting = Append(queues[q].waiting, TradeOf(tx))
        /\ ~Given \/ q # r => queues'[q].waiting = queues[q].waiting
  <2> TAKE q \in DOMAIN queues
  <2> HIDE DEF Given, r
  <2>1. queues[q] \in Queue
    BY <1>3
  <2>2. CASE Given /\ q = r
    <3>1. queues'[q] = [queues[q] EXCEPT !.waiting = Append(queues[q].waiting, TradeOf(tx))]
      BY <1>7, <2>2
    <3> QED BY <2>1, <2>2, <3>1 DEF Queue
  <2>3. CASE ~(Given /\ q = r)
    <3>1. queues'[q] = queues[q]
      BY <1>7, <1>8, <2>3
    <3> QED BY <2>1, <2>3, <3>1 DEF Queue
  <2> QED BY <2>2, <2>3
<1>11. UNCHANGED <<wire, makerOf, pipe, readers>>
  BY <1>1
<1>12. GeyserShape'
  BY <1>4, <1>5, <1>9, <1>11 DEF GeyserShape, Creations, Decode
<1>13. Piped'
  <2>1. \A q \in DOMAIN queues' : /\ queues'[q].from \in 1..Len(chain') + 1
                                  /\ queues'[q].to \in 0..Len(chain')
    BY <1>3, <1>4, <1>9, <1>10 DEF Piped
  <2>2. \A x \in ChainMints : /\ pipe'[x] \in 0..Len(queues')
                              /\ readers'[x].queue \in 0..Len(queues')
    BY <1>9, <1>11 DEF Piped
  <2>3. ASSUME NEW x \in ChainMints, pipe'[x] # 0
        PROVE  /\ queues'[pipe'[x]].mint = x /\ queues'[pipe'[x]].to = 0
               /\ queues'[pipe'[x]].met => makerOf'[x] = Makers[x]
    <3>1. pipe'[x] = pipe[x] /\ makerOf'[x] = makerOf[x]
      BY <1>11
    <3> QED BY <1>6, <1>10, <2>3, <3>1
  <2> QED BY <2>1, <2>2, <2>3 DEF Piped
<1>14. Left'
  BY <1>11 DEF Left
<1>15. AllTold'
  <2> SUFFICES ASSUME NEW q \in DOMAIN queues
               PROVE  Told(queues'[q], SubSeq(chain', queues'[q].from, End(q)'))
    BY <1>9 DEF AllTold
  <2> DEFINE mint == queues[q].mint
             span == SubSeq(chain, queues[q].from, End(q))
  <2> HIDE DEF Given, r
  <2>1. TellsAll(queues[q].taken \o queues[q].waiting, Among(span, Ours(mint)), mint, queues[q].met)
    BY DEF AllTold, Told
  <2>2. pipe' = pipe
    BY <1>11
  <2>3. queues[q].from \in Nat \ {0} /\ queues[q].from <= Len(chain) + 1 /\ queues[q].to <= Len(chain)
    BY <1>3, <1>10 DEF Piped
  <2>4. CASE queues[q].to = 0 /\ pipe[mint] = q
    <3>1. End(q) = Len(chain) /\ End(q)' = Len(chain) + 1
      <4>1. queues'[q].to = 0 /\ queues'[q].mint = mint
        BY <1>10, <2>4
      <4> QED BY <1>4, <2>2, <2>4, <4>1 DEF End
    <3>2. SubSeq(chain', queues'[q].from, End(q)') = Append(span, tx)
      <4>1. queues'[q].from = queues[q].from /\ chain' = Append(chain, tx)
        BY <1>1, <1>10
      <4>2. SubSeq(Append(chain, tx), queues[q].from, Len(chain) + 1)
              = Append(SubSeq(chain, queues[q].from, Len(chain)), tx)
        BY <1>2, <2>3, PartGrows
      <4> QED BY <3>1, <4>1, <4>2
    <3>3. span \in Seq(Transactions)
      <4>1. Len(chain) \in Nat /\ Len(chain) <= Len(chain)
        BY <1>3
      <4> QED BY <1>2, <2>3, <3>1, <4>1, PartOf
    <3> HIDE DEF span
    <3>4. Among(span, Ours(mint)) \in Seq(Transactions)
      BY <3>3, AmongType
    <3>5. tx \in Ours(mint) <=> mint = tx.mint /\ IsTrade(tx)
      BY DEF Ours
    <3>6. mint = tx.mint <=> q = r
      <4>1. q # 0
        BY <1>3
      <4> QED BY <1>2, <1>6, <2>4, <4>1 DEF r
    <3>7. CASE Given /\ q = r
      <4>1. Among(Append(span, tx), Ours(mint)) = Append(Among(span, Ours(mint)), tx)
        <5>1. tx \in Ours(mint)
          BY <3>5, <3>6, <3>7 DEF Given
        <5> QED BY <3>3, <5>1, AmongAppend
      <4>2. queues'[q].taken \o queues'[q].waiting
              = Append(queues[q].taken \o queues[q].waiting, TradeOf(tx))
        <5>1. TradeOf(tx) \in Report
          BY <1>7, <3>7
        <5>2. queues'[q].taken = queues[q].taken
              /\ queues'[q].waiting = Append(queues[q].waiting, TradeOf(tx))
          BY <1>10, <3>7
        <5>3. queues[q].taken \in Seq(Report) /\ queues[q].waiting \in Seq(Report)
          BY <1>10
        <5>4. PICK t \in Seq(Report) : t = queues[q].taken
          BY <5>3
        <5>5. PICK w \in Seq(Report) : w = queues[q].waiting
          BY <5>3
        <5>6. PICK x \in Report : x = TradeOf(tx)
          BY <5>1
        <5>7. t \o Append(w, x) = Append(t \o w, x)
          BY AppendsBehind
        <5>8. queues'[q].taken = t /\ queues'[q].waiting = Append(w, x)
          BY <5>2, <5>4, <5>5, <5>6
        <5>9. queues'[q].taken \o queues'[q].waiting = Append(t \o w, x)
          BY <5>7, <5>8
        <5> QED BY <5>4, <5>5, <5>6, <5>9
      <4>3. TellsAll(Append(queues[q].taken \o queues[q].waiting, TradeOf(tx)),
                     Append(Among(span, Ours(mint)), tx), mint, queues[q].met)
        <5>1. PICK h : h = queues[q].taken \o queues[q].waiting
          OBVIOUS
        <5>2. h \in Seq(Report)
          BY <1>10, <5>1
        <5>3. TradeOf(tx) \in Report /\ Tells(TradeOf(tx), tx, mint, queues[q].met)
          BY <1>7, <3>6, <3>7
        <5>4. TellsAll(h, Among(span, Ours(mint)), mint, queues[q].met)
          BY <2>1, <5>1
        <5>5. TellsAll(Append(h, TradeOf(tx)), Append(Among(span, Ours(mint)), tx), mint, queues[q].met)
          BY <3>4, <5>2, <5>3, <5>4, TellsMore
        <5> QED BY <5>1, <5>5
      <4>4. queues'[q].mint = mint /\ queues'[q].met = queues[q].met
        BY <1>10
      <4> QED BY <3>2, <4>1, <4>2, <4>3, <4>4 DEF Told
    <3>8. CASE ~(Given /\ q = r)
      <4>1. tx \notin Ours(mint)
        <5>1. q # 0
          BY <1>3
        <5> QED BY <3>5, <3>6, <3>8, <5>1 DEF Given
      <4>2. Among(Append(span, tx), Ours(mint)) = Among(span, Ours(mint))
        BY <3>3, <4>1, AmongAppend
      <4>3. queues'[q].mint = mint /\ queues'[q].met = queues[q].met
            /\ queues'[q].taken = queues[q].taken /\ queues'[q].waiting = queues[q].waiting
        BY <1>10, <3>8
      <4> QED BY <2>1, <3>2, <4>2, <4>3 DEF Told
    <3> QED BY <3>7, <3>8
  <2>5. CASE ~(queues[q].to = 0 /\ pipe[mint] = q)
    <3>1. End(q)' = End(q) /\ End(q) \in Nat /\ End(q) <= Len(chain)
      <4>1. queues'[q].to = queues[q].to /\ queues'[q].mint = mint /\ queues'[q].from = queues[q].from
            /\ queues[q].to \in Nat
        BY <1>10
      <4> QED BY <1>3, <2>2, <2>3, <2>5, <4>1 DEF End
    <3>2. SubSeq(Append(chain, tx), queues[q].from, End(q)) = span
      BY <1>2, <2>3, <3>1, PartKept
    <3>3. ~(Given /\ q = r)
      <4>1. SUFFICES ASSUME Given, q = r PROVE FALSE
        OBVIOUS
      <4>2. r # 0
        BY <4>1 DEF Given
      <4>3. queues[q].to = 0 /\ mint = tx.mint
        BY <1>2, <1>6, <4>1, <4>2 DEF r
      <4> QED BY <2>5, <4>1, <4>3 DEF r
    <3>4. queues'[q].mint = mint /\ queues'[q].met = queues[q].met
          /\ queues'[q].taken = queues[q].taken /\ queues'[q].waiting = queues[q].waiting
          /\ queues'[q].from = queues[q].from /\ chain' = Append(chain, tx)
      BY <1>1, <1>10, <3>3
    <3> QED BY <2>1, <3>1, <3>2, <3>4 DEF Told
  <2> QED BY <2>4, <2>5
<1> QED BY <1>12, <1>13, <1>14, <1>15 DEF GeyserInv

LEMMA GeyserSteps == GeyserInv /\ [GeyserNext]_geyserVars => GeyserInv'
<1> SUFFICES ASSUME GeyserInv, [GeyserNext]_geyserVars PROVE GeyserInv'
  OBVIOUS
<1>1. GeyserShape /\ Piped /\ Left /\ AllTold /\ DOMAIN pipe = ChainMints
  BY DEF GeyserInv, GeyserShape
<1>2. CASE ConnectGeyser \/ StreamBreaks \/ ResumeReading \/ DisconnectGeyser
  BY <1>2, WireMoves
<1>3. CASE HandleTransaction
  BY <1>3, GeyserHears
<1>4. CASE TakeToken
  BY <1>4, TokenTaken
<1>5. ASSUME NEW m \in ChainMints, SubscribeGeyser(m) PROVE GeyserInv'
  BY <1>1, <1>5, GeyserSubscribes
<1>6. ASSUME NEW m \in ChainMints, UnsubscribeGeyser(m) PROVE GeyserInv'
  BY <1>1, <1>6, GeyserUnsubscribes
<1>7. ASSUME NEW m \in ChainMints, StartReading(m) PROVE GeyserInv'
  BY <1>1, <1>7, GeyserStartsReading
<1>8. ASSUME NEW m \in ChainMints, ReadTrade(m) PROVE GeyserInv'
  BY <1>1, <1>8, GeyserReads
<1>9. ASSUME NEW m \in ChainMints, EndReading(m) PROVE GeyserInv'
  BY <1>1, <1>9, GeyserEndsReading
<1>10. CASE UNCHANGED geyserVars
  BY <1>10, ToldKept DEF geyserVars, GeyserInv, GeyserShape, Piped, Left, Creations, Decode
<1> QED BY <1>1, <1>2, <1>3, <1>4, <1>5, <1>6, <1>7, <1>8, <1>9, <1>10 DEF GeyserNext

LEMMA HeardFromInv == GeyserInv => HeardAsReceived
<1> SUFFICES ASSUME GeyserInv PROVE HeardAsReceived
  OBVIOUS
<1>1. AllTold /\ Left /\ DOMAIN readers = ChainMints
  BY DEF GeyserInv, GeyserShape
<1>2. ASSUME NEW q \in DOMAIN queues
      PROVE  LET old == queues[q]
                 heard == old.taken \o old.waiting
                 span == SubSeq(chain, old.from, IF old.to > 0 THEN old.to ELSE
                           IF pipe[old.mint] = q THEN Len(chain) ELSE old.from - 1)
                 dues == Among(span, {tx \in Transactions : tx.mint = old.mint /\ IsTrade(tx)})
             IN /\ Len(heard) = Len(dues)
                /\ \A i \in DOMAIN dues :
                     /\ heard[i].side = Decode(dues[i])
                     /\ heard[i].wallet = dues[i].signer
                     /\ heard[i].isCreator => dues[i].signer = Makers[old.mint]
                     /\ old.met => (heard[i].isCreator <=> dues[i].signer = Makers[old.mint])
  <2>1. Told(queues[q], SubSeq(chain, queues[q].from, End(q)))
    BY <1>1 DEF AllTold
  <2> QED BY <2>1 DEF Told, TellsAll, Tells, End, Ours
<1> QED BY <1>1, <1>2 DEF HeardAsReceived, Left

(* A stream hears every trade of its mint that was received between its      *)
(* subscription and its end, each once and in order, whatever breaks and     *)
(* whoever reads, and marks the creator's.                                   *)
THEOREM StreamsHearAsReceived == GeyserSpec => []HeardAsReceived
<1>1. GeyserInit => GeyserInv
  BY GeyserStarts
<1>2. GeyserInv /\ [GeyserNext]_geyserVars => GeyserInv'
  BY GeyserSteps
<1>3. GeyserInv => HeardAsReceived
  BY HeardFromInv
<1> QED BY <1>1, <1>2, <1>3, PTL DEF GeyserSpec

(* What is on the wire and in the pipe is of the feed's types.                *)
LEMMA GeyserTypes == GeyserInv \/ GeyserOff => GeyserTypeOK
<1>1. GeyserInv => GeyserTypeOK
  BY DEF GeyserInv, GeyserShape, Piped, GeyserTypeOK
<1>2. GeyserOff => GeyserTypeOK
  <2>1. GeyserOff => wire = "off" /\ DOMAIN pipe = {}
    BY DEF GeyserOff
  <2> QED BY <2>1 DEF GeyserTypeOK
<1> QED BY <1>1, <1>2

(* ------------------- features: places, sorting, sums ------------------- *)
(* The numbers up to n are n.                                                *)
LEMMA FirstNumbers ==
  ASSUME NEW n \in Nat
  PROVE  IsFiniteSet(1..n) /\ Cardinality(1..n) = n
BY FS_Interval

(* What is strictly within a finite set is smaller.                          *)
LEMMA FewerWithin ==
  ASSUME NEW T, IsFiniteSet(T), NEW U, U \subseteq T
  PROVE  /\ Cardinality(U) \in Nat /\ Cardinality(T) \in Nat /\ IsFiniteSet(U)
         /\ Cardinality(U) <= Cardinality(T)
         /\ U # T => Cardinality(U) < Cardinality(T)
<1>1. IsFiniteSet(U) /\ Cardinality(U) <= Cardinality(T)
  BY FS_Subset
<1>2. Cardinality(U) \in Nat /\ Cardinality(T) \in Nat
  BY <1>1, FS_CardinalityType
<1>3. Cardinality(U) = Cardinality(T) => U = T
  BY FS_Subset
<1> QED BY <1>1, <1>2, <1>3

(* Renaming the members of a set leaves their number.                        *)
LEMMA SameSize ==
  ASSUME NEW A, IsFiniteSet(A), NEW B, NEW f,
         \A x \in A : f[x] \in B, \A x, y \in A : f[x] = f[y] => x = y,
         \A y \in B : \E x \in A : f[x] = y
  PROVE  IsFiniteSet(B) /\ Cardinality(B) = Cardinality(A)
<1> DEFINE g == [x \in A |-> f[x]]
<1>1. g \in Bijection(A, B)
  BY DEF Bijection, Injection, Surjection, IsInjective
<1>2. ExistsBijection(A, B)
  BY <1>1 DEF ExistsBijection
<1> QED BY <1>2, FS_Bijection

Apart(f, A, B) ==
  (\A x \in A : f[x] \in B) /\ (\A x, y \in A : f[x] = f[y] => x = y)
Covers(f, A, B) == \A y \in B : \E x \in A : f[x] = y

(* As many places as members, none taken twice: each is taken.               *)
LEMMA PlacesTaken ==
  ASSUME NEW A, IsFiniteSet(A), NEW B, IsFiniteSet(B), Cardinality(A) = Cardinality(B),
         NEW f, Apart(f, A, B)
  PROVE  Covers(f, A, B)
<1> DEFINE g == [x \in A |-> f[x]]
<1>1. g \in Injection(A, B)
  BY DEF Injection, IsInjective, Apart
<1>2. g \in Surjection(A, B)
  BY <1>1, FS_Injection
<1> QED BY <1>2 DEF Surjection, Covers

-----------------------------------------------------------------------------
(* How many of the first i members of a sequence are in X.                   *)
Numbered(s, X, i) == Cardinality({j \in 1..i : s[j] \in X})

LEMMA NumberedStep ==
  ASSUME NEW s, NEW X, NEW n \in Nat
  PROVE  /\ Numbered(s, X, n) \in 0..n
         /\ Numbered(s, X, n + 1) = IF s[n + 1] \in X THEN Numbered(s, X, n) + 1
                                   ELSE Numbered(s, X, n)
<1> DEFINE A == {j \in 1..n : s[j] \in X}
           B == {j \in 1..n + 1 : s[j] \in X}
<1>1. IsFiniteSet(1..n) /\ Cardinality(1..n) = n
  BY FS_Interval
<1>2. IsFiniteSet(A) /\ Cardinality(A) \in 0..n
  <2>1. A \subseteq 1..n
    OBVIOUS
  <2> HIDE DEF A
  <2>2. /\ Cardinality(A) \in Nat /\ IsFiniteSet(A)
        /\ Cardinality(A) <= Cardinality(1..n)
    BY <1>1, <2>1, FewerWithin
  <2> QED BY <1>1, <2>2
<1>3. n + 1 \notin A
  OBVIOUS
<1>4. CASE s[n + 1] \in X
  <2>1. B = A \cup {n + 1}
    BY <1>4
  <2> QED BY <1>2, <1>3, <1>4, <2>1, FS_AddElement DEF Numbered
<1>5. CASE s[n + 1] \notin X
  <2>1. B = A
    BY <1>5
  <2> QED BY <1>2, <1>5, <2>1 DEF Numbered
<1> QED BY <1>4, <1>5

LEMMA NumberedOrders ==
  ASSUME NEW s, NEW X, NEW n \in Nat, NEW i \in 1..n, NEW j \in 1..n, s[i] \in X, s[j] \in X
  PROVE  /\ Numbered(s, X, i) \in Nat /\ Numbered(s, X, j) \in Nat
         /\ Numbered(s, X, i) <= Numbered(s, X, j) <=> i <= j
<1>1. ASSUME NEW k \in 1..n, NEW l \in 1..n, k < l, s[l] \in X
      PROVE  Numbered(s, X, k) < Numbered(s, X, l)
  <2> DEFINE A == {m \in 1..k : s[m] \in X}
             B == {m \in 1..l : s[m] \in X}
  <2>1. IsFiniteSet(1..l)
    BY FS_Interval
  <2>2. B \subseteq 1..l /\ A \subseteq B /\ l \in B /\ l \notin A
    BY <1>1
  <2> HIDE DEF A, B
  <2>3. Cardinality(A) < Cardinality(B)
    BY <2>1, <2>2, FewerWithin
  <2> QED BY <2>3 DEF Numbered, A, B
<1>2. Numbered(s, X, i) \in Nat /\ Numbered(s, X, j) \in Nat
  BY NumberedStep
<1>3. CASE i = j
  BY <1>2, <1>3
<1>4. CASE i < j
  BY <1>1, <1>2, <1>4
<1>5. CASE j < i
  BY <1>1, <1>2, <1>5
<1> QED BY <1>3, <1>4, <1>5

(* The i-th member of a sequence is found in a selection where counting puts *)
(* it.                                                                      *)
Found(q, s, X, n) ==
  /\ Len(q) = Numbered(s, X, n)
  /\ \A i \in 1..n : s[i] \in X => q[Numbered(s, X, i)] = s[i]

LEMMA FoundNone ==
  ASSUME NEW s, NEW X
  PROVE  Found(<<>>, s, X, 0)
<1>1. {j \in 1..0 : s[j] \in X} = {}
  OBVIOUS
<1> QED BY <1>1, FS_EmptySet DEF Found, Numbered

LEMMA FoundMore ==
  ASSUME NEW S, NEW s \in Seq(S), NEW X, NEW n \in Nat, n + 1 \in 1..Len(s),
         NEW q \in Seq(S), Found(q, s, X, n)
  PROVE  IF s[n + 1] \in X THEN Found(Append(q, s[n + 1]), s, X, n + 1)
         ELSE Found(q, s, X, n + 1)
<1>1. /\ Len(q) = Numbered(s, X, n)
      /\ \A i \in 1..n : s[i] \in X => q[Numbered(s, X, i)] = s[i]
  BY DEF Found
<1>2. \A i \in 1..n + 1 : i = n + 1 \/ i \in 1..n
  OBVIOUS
<1>3. CASE s[n + 1] \in X
  <2>1. Numbered(s, X, n + 1) = Len(q) + 1
    BY <1>1, <1>3, NumberedStep
  <2>2. s[n + 1] \in S /\ Len(q) \in Nat
    OBVIOUS
  <2> DEFINE r == Append(q, s[n + 1])
  <2>3. /\ Len(r) = Len(q) + 1 /\ r[Len(q) + 1] = s[n + 1]
        /\ \A k \in 1..Len(q) : r[k] = q[k]
    BY <2>2
  <2>4. ASSUME NEW i \in 1..n, s[i] \in X
        PROVE  r[Numbered(s, X, i)] = s[i]
    <3>1. i \in 1..n + 1 /\ n + 1 \in 1..n + 1 /\ n + 1 \in Nat
      OBVIOUS
    <3>2. /\ Numbered(s, X, i) \in Nat /\ Numbered(s, X, n + 1) \in Nat
          /\ ~(Numbered(s, X, n + 1) <= Numbered(s, X, i))
      <4>1. PICK m \in Nat : m = n + 1
        OBVIOUS
      <4>2. /\ i \in 1..m /\ m \in 1..m /\ ~(m <= i)
            /\ s[i] \in X /\ s[m] \in X
        BY <1>3, <2>4, <4>1
      <4>3. /\ Numbered(s, X, i) \in Nat /\ Numbered(s, X, m) \in Nat
            /\ Numbered(s, X, m) <= Numbered(s, X, i) <=> m <= i
        BY <4>2, NumberedOrders
      <4> QED BY <4>1, <4>2, <4>3
    <3>3. Numbered(s, X, i) # 0
      <4> DEFINE A == {j \in 1..i : s[j] \in X}
      <4>1. A \subseteq 1..i /\ i \in A
        BY <2>4
      <4>2. IsFiniteSet(1..i)
        BY FS_Interval
      <4> HIDE DEF A
      <4>3. IsFiniteSet(A)
        BY <4>1, <4>2, FewerWithin
      <4>4. Cardinality(A) # 0
        BY <4>1, <4>3, FS_EmptySet
      <4> QED BY <4>4 DEF A, Numbered
    <3>4. Numbered(s, X, i) \in 1..Len(q)
      BY <2>1, <2>2, <3>2, <3>3
    <3> QED BY <1>1, <2>3, <2>4, <3>4
  <2> HIDE DEF r
  <2>5. Found(r, s, X, n + 1)
    BY <1>2, <2>1, <2>3, <2>4 DEF Found
  <2> QED BY <1>3, <2>5 DEF r
<1>4. CASE s[n + 1] \notin X
  <2>1. Numbered(s, X, n + 1) = Len(q)
    BY <1>1, <1>4, NumberedStep
  <2>2. Found(q, s, X, n + 1)
    BY <1>1, <1>2, <1>4, <2>1 DEF Found
  <2> QED BY <1>4, <2>2
<1> QED BY <1>3, <1>4

LEMMA AmongFound ==
  ASSUME NEW S, NEW s \in Seq(S), NEW X
  PROVE  Found(Among(s, X), s, X, Len(s))
<1>1. Len(s) \in Nat /\ \A i \in 1..Len(s) : s[i] \in S
  OBVIOUS
<1>2. PICK kept : KeptIn(kept, s, X, Len(s)) /\ Among(s, X) = kept[Len(s)]
  BY <1>1, AmongKept
<1> DEFINE Good == {n \in 0..Len(s) : kept[n] \in Seq(S) /\ Found(kept[n], s, X, n)}
<1>3. /\ kept[0] = <<>>
      /\ \A i \in 1..Len(s) : kept[i] = IF s[i] \in X THEN Append(kept[i - 1], s[i])
                                        ELSE kept[i - 1]
  BY <1>2 DEF KeptIn
<1>4. 0 \in Good
  <2>1. kept[0] \in Seq(S) /\ Found(kept[0], s, X, 0)
    BY <1>3, FoundNone, AllInEmpty
  <2> QED BY <1>1, <2>1
<1>5. ASSUME NEW n \in 0..Len(s), n # Len(s), n \in Good
      PROVE  n + 1 \in Good
  <2>1. /\ n + 1 \in 1..Len(s) /\ n + 1 \in 0..Len(s) /\ (n + 1) - 1 = n /\ n \in Nat
        /\ kept[n] \in Seq(S) /\ Found(kept[n], s, X, n) /\ s[n + 1] \in S
    BY <1>1, <1>5
  <2>2. kept[n + 1] = IF s[n + 1] \in X THEN Append(kept[n], s[n + 1]) ELSE kept[n]
    BY <1>3, <2>1
  <2>3. kept[n + 1] \in Seq(S)
    BY <2>1, <2>2
  <2>4. Found(kept[n + 1], s, X, n + 1)
    BY <2>1, <2>2, FoundMore
  <2> QED BY <2>1, <2>3, <2>4
<1>6. \A n \in 0..Len(s) : n \in Good
  <2> HIDE DEF Good
  <2> QED BY <1>1, <1>4, <1>5, Climb
<1> QED BY <1>1, <1>2, <1>6
(* Each place of a selection is one of a member in X.                        *)
LEMMA NumbersTaken ==
  ASSUME NEW s, NEW X, NEW n \in Nat
  PROVE  /\ \A i \in 1..n : s[i] \in X => Numbered(s, X, i) \in 1..Numbered(s, X, n)
         /\ \A k \in 1..Numbered(s, X, n) :
              \E i \in 1..n : s[i] \in X /\ Numbered(s, X, i) = k
<1> DEFINE A == {i \in 1..n : s[i] \in X}
           f == [i \in 1..n |-> Numbered(s, X, i)]
           m == Numbered(s, X, n)
<1>1. IsFiniteSet(A) /\ Cardinality(A) = m /\ m \in Nat
  <2>1. IsFiniteSet(1..n) /\ A \subseteq 1..n
    BY FS_Interval
  <2>2. Cardinality(A) = m
    BY DEF Numbered
  <2> HIDE DEF A, m
  <2> QED BY <2>1, <2>2, FewerWithin
<1>2. ASSUME NEW i \in 1..n, s[i] \in X
      PROVE  Numbered(s, X, i) \in 1..m
  <2> DEFINE B == {j \in 1..i : s[j] \in X}
  <2>1. B \subseteq A /\ i \in B /\ Cardinality(B) = Numbered(s, X, i)
    BY <1>2 DEF Numbered
  <2> HIDE DEF A, B, m
  <2>2. IsFiniteSet(B) /\ Cardinality(B) \in Nat /\ Cardinality(B) <= m
    BY <1>1, <2>1, FewerWithin
  <2>3. Cardinality(B) # 0
    BY <2>1, <2>2, FS_EmptySet
  <2> QED BY <1>1, <2>1, <2>2, <2>3
<1>3. ASSUME NEW i \in A, NEW j \in A, f[i] = f[j]
      PROVE  i = j
  <2>1. i \in 1..n /\ j \in 1..n /\ s[i] \in X /\ s[j] \in X
    OBVIOUS
  <2>2. Numbered(s, X, i) = Numbered(s, X, j)
    BY <1>3
  <2>3. /\ Numbered(s, X, i) \in Nat /\ Numbered(s, X, j) \in Nat
        /\ Numbered(s, X, i) <= Numbered(s, X, j) <=> i <= j
    BY <2>1, NumberedOrders
  <2>4. /\ Numbered(s, X, j) <= Numbered(s, X, i) <=> j <= i
    BY <2>1, NumberedOrders
  <2> QED BY <2>1, <2>2, <2>3, <2>4
<1>4. IsFiniteSet(1..m) /\ Cardinality(1..m) = m
  <2> HIDE DEF m
  <2> QED BY <1>1, FS_Interval
<1>5. Apart(f, A, 1..m)
  <2>1. \A i \in A : f[i] \in 1..m
    BY <1>2
  <2> HIDE DEF A, f, m
  <2> QED BY <1>3, <2>1 DEF Apart
<1>6. Covers(f, A, 1..m)
  <2> HIDE DEF A, f, m
  <2> QED BY <1>1, <1>4, <1>5, PlacesTaken
<1>7. \A k \in 1..m : \E i \in A : f[i] = k
  <2> HIDE DEF A, f, m
  <2> QED BY <1>6 DEF Covers
<1> QED BY <1>2, <1>7

(* There is one such selection.                                              *)
LEMMA FoundOnce ==
  ASSUME NEW S, NEW s, NEW X, NEW n \in Nat, NEW q \in Seq(S), NEW r \in Seq(S),
         Found(q, s, X, n), Found(r, s, X, n)
  PROVE  q = r
<1>1. /\ Len(q) = Numbered(s, X, n) /\ Len(r) = Numbered(s, X, n)
      /\ \A i \in 1..n : s[i] \in X => q[Numbered(s, X, i)] = s[i] /\ r[Numbered(s, X, i)] = s[i]
  BY DEF Found
<1>2. \A k \in 1..Len(q) : q[k] = r[k]
  BY <1>1, NumbersTaken
<1> QED BY <1>1, <1>2, SeqEqual

LEMMA AmongIs ==
  ASSUME NEW S, NEW s \in Seq(S), NEW X, NEW q \in Seq(S), Found(q, s, X, Len(s))
  PROVE  Among(s, X) = q
<1>1. Among(s, X) \in Seq(S) /\ Found(Among(s, X), s, X, Len(s)) /\ Len(s) \in Nat
  BY AmongType, AmongFound
<1> QED BY <1>1, FoundOnce

(* Sets that agree on a sequence select the same of it.                      *)
LEMMA AmongSame ==
  ASSUME NEW S, NEW s \in Seq(S), NEW X, NEW Y,
         \A i \in 1..Len(s) : s[i] \in X <=> s[i] \in Y
  PROVE  Among(s, X) = Among(s, Y)
<1>1. \A i \in 0..Len(s) : Numbered(s, X, i) = Numbered(s, Y, i)
  <2> TAKE i \in 0..Len(s)
  <2>1. {j \in 1..i : s[j] \in X} = {j \in 1..i : s[j] \in Y}
    OBVIOUS
  <2> QED BY <2>1 DEF Numbered
<1>2. Len(s) \in 0..Len(s) /\ \A i \in 1..Len(s) : i \in 0..Len(s)
  OBVIOUS
<1>3. Found(Among(s, Y), s, X, Len(s))
  BY <1>1, <1>2, AmongFound DEF Found
<1> QED BY <1>3, AmongIs, AmongType

(* Where all are selected, the sequence is its own selection.                *)
LEMMA AmongWhole ==
  ASSUME NEW S, NEW s \in Seq(S), NEW X, \A i \in 1..Len(s) : s[i] \in X
  PROVE  Among(s, X) = s
<1>1. \A i \in 0..Len(s) : Numbered(s, X, i) = i
  <2> TAKE i \in 0..Len(s)
  <2>1. {j \in 1..i : s[j] \in X} = 1..i
    OBVIOUS
  <2>2. Cardinality(1..i) = i
    BY FS_Interval
  <2> QED BY <2>1, <2>2 DEF Numbered
<1>2. Found(s, s, X, Len(s))
  BY <1>1 DEF Found
<1> QED BY <1>2, AmongIs

(* What is behind, and not in X, adds nothing.                               *)
LEMMA AmongFront ==
  ASSUME NEW S, NEW s \in Seq(S), NEW t \in Seq(S), NEW X,
         \A i \in 1..Len(t) : t[i] \notin X
  PROVE  Among(s \o t, X) = Among(s, X)
<1> DEFINE r == s \o t
<1>1. /\ r \in Seq(S) /\ Len(r) = Len(s) + Len(t) /\ Len(s) \in Nat /\ Len(t) \in Nat
      /\ \A i \in 1..Len(s) : r[i] = s[i]
      /\ \A i \in 1..Len(r) : i <= Len(s) \/ r[i] = t[i - Len(s)]
  OBVIOUS
<1> HIDE DEF r
<1>2. \A i \in 1..Len(r) : r[i] \in X => i \in 1..Len(s)
  <2> TAKE i \in 1..Len(r)
  <2>1. CASE i <= Len(s)
    BY <1>1, <2>1
  <2>2. CASE ~(i <= Len(s))
    <3>1. i - Len(s) \in 1..Len(t) /\ r[i] = t[i - Len(s)]
      BY <1>1, <2>2
    <3> QED BY <3>1
  <2> QED BY <2>1, <2>2
<1>3. \A i \in 1..Len(s) : Numbered(r, X, i) = Numbered(s, X, i)
  <2> TAKE i \in 1..Len(s)
  <2>1. {j \in 1..i : r[j] \in X} = {j \in 1..i : s[j] \in X}
    BY <1>1
  <2> QED BY <2>1 DEF Numbered
<1>4. Numbered(r, X, Len(r)) = Numbered(s, X, Len(s))
  <2>1. {j \in 1..Len(r) : r[j] \in X} = {j \in 1..Len(s) : s[j] \in X}
    BY <1>1, <1>2
  <2> QED BY <2>1 DEF Numbered
<1>5. Found(Among(s, X), r, X, Len(r))
  <2>1. Found(Among(s, X), s, X, Len(s))
    BY AmongFound
  <2> QED BY <1>1, <1>2, <1>3, <1>4, <2>1 DEF Found
<1>6. Among(r, X) = Among(s, X)
  BY <1>1, <1>5, AmongIs, AmongType
<1> QED BY <1>6 DEF r

(* The members of a selection.                                               *)
LEMMA AmongSet ==
  ASSUME NEW S, NEW s \in Seq(S), NEW X
  PROVE  ToSet(Among(s, X)) = ToSet(s) \cap X
<1>1. /\ Among(s, X) \in Seq(S) /\ Found(Among(s, X), s, X, Len(s)) /\ Len(s) \in Nat
      /\ DOMAIN s = 1..Len(s) /\ DOMAIN Among(s, X) = 1..Len(Among(s, X))
  BY AmongType, AmongFound
<1>2. /\ Len(Among(s, X)) = Numbered(s, X, Len(s))
      /\ \A i \in 1..Len(s) : s[i] \in X => Among(s, X)[Numbered(s, X, i)] = s[i]
  BY <1>1 DEF Found
<1>3. ASSUME NEW x \in ToSet(Among(s, X)) PROVE x \in ToSet(s) \cap X
  <2>1. PICK k \in 1..Len(Among(s, X)) : x = Among(s, X)[k]
    BY <1>1 DEF ToSet
  <2>2. PICK i \in 1..Len(s) : s[i] \in X /\ Numbered(s, X, i) = k
    <3>1. k \in 1..Numbered(s, X, Len(s))
      BY <1>2
    <3> QED BY <1>1, <3>1, NumbersTaken
  <2> QED BY <1>1, <1>2, <2>1, <2>2 DEF ToSet
<1>4. ASSUME NEW x \in ToSet(s) \cap X PROVE x \in ToSet(Among(s, X))
  <2>1. PICK i \in 1..Len(s) : x = s[i]
    BY <1>1 DEF ToSet
  <2>2. Numbered(s, X, i) \in 1..Len(Among(s, X))
    BY <1>1, <1>2, <2>1, NumbersTaken
  <2> QED BY <1>1, <1>2, <2>1, <2>2 DEF ToSet
<1> QED BY <1>3, <1>4
-----------------------------------------------------------------------------
(* The order of a stable sort is total.                                      *)
Upto(s, i, j) == s[i].at < s[j].at \/ (s[i].at = s[j].at /\ i <= j)

LEMMA TradesTimed ==
  ASSUME NEW s \in Seq(Traded)
  PROVE  /\ Len(s) \in Nat /\ DOMAIN s = 1..Len(s)
         /\ \A i \in 1..Len(s) : s[i] \in Traded /\ s[i].at \in Nat /\ s[i].sol \in Nat
<1>1. Len(s) \in Nat /\ DOMAIN s = 1..Len(s) /\ \A i \in 1..Len(s) : s[i] \in Traded
  OBVIOUS
<1>2. \A x \in Traded : x.at \in Nat /\ x.sol \in Nat
  BY DEF Traded
<1> QED BY <1>1, <1>2

LEMMA UptoTotal ==
  ASSUME NEW s \in Seq(Traded), NEW i \in 1..Len(s), NEW j \in 1..Len(s)
  PROVE  /\ Upto(s, i, i)
         /\ Upto(s, i, j) \/ Upto(s, j, i)
         /\ Upto(s, i, j) /\ Upto(s, j, i) => i = j
         /\ \A k \in 1..Len(s) : Upto(s, i, j) /\ Upto(s, j, k) => Upto(s, i, k)
<1>1. s[i].at \in Nat /\ s[j].at \in Nat /\ \A k \in 1..Len(s) : s[k].at \in Nat
  BY TradesTimed
<1> QED BY <1>1 DEF Upto

(* Its places are those of the sequence, in that order, and each is taken.   *)
LEMMA PlacesOrdered ==
  ASSUME NEW s \in Seq(Traded), NEW i \in 1..Len(s), NEW j \in 1..Len(s)
  PROVE  /\ Place(s, i) \in 1..Len(s) /\ Place(s, j) \in 1..Len(s)
         /\ Place(s, i) <= Place(s, j) <=> Upto(s, i, j)
<1> DEFINE P(k) == {l \in 1..Len(s) : Upto(s, l, k)}
<1>1. \A k \in 1..Len(s) : Place(s, k) = Cardinality(P(k))
  BY TradesTimed DEF Place, Upto
<1>2. IsFiniteSet(1..Len(s)) /\ Cardinality(1..Len(s)) = Len(s) /\ Len(s) \in Nat
  <2>1. Len(s) \in Nat
    OBVIOUS
  <2> QED BY <2>1, FirstNumbers
<1>3. ASSUME NEW k \in 1..Len(s)
      PROVE  IsFiniteSet(P(k)) /\ Place(s, k) \in 1..Len(s)
  <2>1. P(k) \subseteq 1..Len(s) /\ k \in P(k)
    BY UptoTotal
  <2>2. Place(s, k) = Cardinality(P(k))
    BY <1>1
  <2> HIDE DEF P
  <2>3. IsFiniteSet(P(k)) /\ Cardinality(P(k)) \in Nat /\ Cardinality(P(k)) <= Len(s)
    BY <1>2, <2>1, FewerWithin
  <2>4. Cardinality(P(k)) # 0
    BY <2>1, <2>3, FS_EmptySet
  <2> QED BY <1>2, <2>2, <2>3, <2>4
<1>4. ASSUME NEW k \in 1..Len(s), NEW l \in 1..Len(s), Upto(s, k, l)
      PROVE  /\ Place(s, k) <= Place(s, l)
             /\ k # l => Place(s, k) < Place(s, l)
  <2>1. P(k) \subseteq P(l)
    BY <1>4, UptoTotal
  <2>2. k # l => l \notin P(k)
    BY <1>4, UptoTotal
  <2>3. l \in P(l)
    BY UptoTotal
  <2>4. Place(s, k) = Cardinality(P(k)) /\ Place(s, l) = Cardinality(P(l))
    BY <1>1
  <2>5. IsFiniteSet(P(l))
    BY <1>3
  <2> HIDE DEF P
  <2>6. k # l => P(k) # P(l)
    BY <2>2, <2>3
  <2>7. /\ Cardinality(P(k)) <= Cardinality(P(l))
        /\ P(k) # P(l) => Cardinality(P(k)) < Cardinality(P(l))
    BY <2>1, <2>5, FewerWithin
  <2> QED BY <2>4, <2>6, <2>7
<1>5. Place(s, i) \in 1..Len(s) /\ Place(s, j) \in 1..Len(s)
  BY <1>3
<1>6. CASE Upto(s, i, j)
  BY <1>4, <1>5, <1>6
<1>7. CASE ~Upto(s, i, j)
  <2>1. Upto(s, j, i) /\ i # j
    BY <1>7, UptoTotal
  <2>2. Place(s, j) < Place(s, i)
    BY <1>4, <2>1
  <2> QED BY <1>5, <1>7, <2>2
<1> QED BY <1>5, <1>6, <1>7

LEMMA PlacesFilled ==
  ASSUME NEW s \in Seq(Traded), NEW k \in 1..Len(s)
  PROVE  \E i \in 1..Len(s) : Place(s, i) = k
<1> DEFINE f == [i \in 1..Len(s) |-> Place(s, i)]
           A == 1..Len(s)
<1>1. IsFiniteSet(A)
  <2>1. Len(s) \in Nat
    OBVIOUS
  <2> QED BY <2>1, FirstNumbers
<1>2. ASSUME NEW i \in A, NEW j \in A, f[i] = f[j]
      PROVE  i = j
  <2>1. Place(s, i) = Place(s, j) /\ Place(s, i) \in Nat
    BY <1>2, PlacesOrdered
  <2>2. Upto(s, i, j)
    BY <2>1, PlacesOrdered
  <2>3. Upto(s, j, i)
    BY <2>1, PlacesOrdered
  <2> QED BY <2>2, <2>3, UptoTotal
<1>3. \A i \in A : f[i] \in A
  BY PlacesOrdered
<1>4. Covers(f, A, A)
  <2> HIDE DEF f, A
  <2>1. Apart(f, A, A)
    BY <1>2, <1>3 DEF Apart
  <2> QED BY <1>1, <2>1, PlacesTaken
<1> QED BY <1>4 DEF Covers

(* A sorted sequence is a rearrangement: the member i stands in its place.   *)
LEMMA ByTimeIs ==
  ASSUME NEW s \in Seq(Traded)
  PROVE  /\ ByTime(s) \in Seq(Traded) /\ Len(ByTime(s)) = Len(s)
         /\ \A i \in 1..Len(s) : ByTime(s)[Place(s, i)] = s[i]
<1> DEFINE at(n) == CHOOSE i \in 1..Len(s) : Place(s, i) = n
<1>0. DOMAIN s = 1..Len(s) /\ Len(s) \in Nat
  BY TradesTimed
<1>1. ByTime(s) = [n \in 1..Len(s) |-> s[at(n)]]
  BY <1>0 DEF ByTime
<1>2. \A n \in 1..Len(s) : at(n) \in 1..Len(s) /\ Place(s, at(n)) = n
  BY PlacesFilled
<1>3. ASSUME NEW i \in 1..Len(s)
      PROVE  at(Place(s, i)) = i
  <2>1. Place(s, i) \in 1..Len(s)
    BY PlacesOrdered
  <2> DEFINE j == at(Place(s, i))
  <2>2. j \in 1..Len(s) /\ Place(s, j) = Place(s, i)
    BY <1>2, <2>1
  <2> HIDE DEF j
  <2>3. Upto(s, i, j)
    BY <2>1, <2>2, PlacesOrdered
  <2>4. Upto(s, j, i)
    BY <2>1, <2>2, PlacesOrdered
  <2>5. i = j
    BY <2>2, <2>3, <2>4, UptoTotal
  <2> QED BY <2>5 DEF j
<1> HIDE DEF at
<1>4. ByTime(s) \in Seq(Traded) /\ Len(ByTime(s)) = Len(s)
  <2>1. \A n \in 1..Len(s) : s[at(n)] \in Traded
    BY <1>2, TradesTimed
  <2> QED BY <1>0, <1>1, <2>1
<1>5. \A i \in 1..Len(s) : ByTime(s)[Place(s, i)] = s[i]
  BY <1>1, <1>3, PlacesOrdered
<1> QED BY <1>4, <1>5

LEMMA ByTimeSet ==
  ASSUME NEW s \in Seq(Traded)
  PROVE  ToSet(ByTime(s)) = ToSet(s)
<1>1. /\ DOMAIN s = 1..Len(s) /\ DOMAIN ByTime(s) = 1..Len(s)
      /\ \A i \in 1..Len(s) : ByTime(s)[Place(s, i)] = s[i]
  BY ByTimeIs, TradesTimed
<1>2. ASSUME NEW x \in ToSet(ByTime(s)) PROVE x \in ToSet(s)
  <2>1. PICK k \in 1..Len(s) : x = ByTime(s)[k]
    BY <1>1 DEF ToSet
  <2>2. PICK i \in 1..Len(s) : Place(s, i) = k
    BY PlacesFilled
  <2> QED BY <1>1, <2>1, <2>2 DEF ToSet
<1>3. ASSUME NEW x \in ToSet(s) PROVE x \in ToSet(ByTime(s))
  <2>1. PICK i \in 1..Len(s) : x = s[i]
    BY <1>1 DEF ToSet
  <2>2. Place(s, i) \in 1..Len(s)
    BY PlacesOrdered
  <2> QED BY <1>1, <2>1, <2>2 DEF ToSet
<1> QED BY <1>2, <1>3

(* Sorting what is sorted changes nothing.                                   *)
LEMMA ByTimeAgain ==
  ASSUME NEW s \in Seq(Traded)
  PROVE  ByTime(ByTime(s)) = ByTime(s)
<1> DEFINE b == ByTime(s)
<1>1. b \in Seq(Traded) /\ Len(b) = Len(s) /\ \A i \in 1..Len(s) : b[Place(s, i)] = s[i]
  BY ByTimeIs
<1> HIDE DEF b
<1>2. ASSUME NEW k \in 1..Len(s), NEW l \in 1..Len(s)
      PROVE  Upto(b, k, l) <=> k <= l
  <2>1. PICK i \in 1..Len(s) : Place(s, i) = k
    BY PlacesFilled
  <2>2. PICK j \in 1..Len(s) : Place(s, j) = l
    BY PlacesFilled
  <2>3. b[k] = s[i] /\ b[l] = s[j]
    BY <1>1, <2>1, <2>2
  <2>4. k <= l <=> Upto(s, i, j)
    BY <2>1, <2>2, PlacesOrdered
  <2>5. l <= k <=> Upto(s, j, i)
    BY <2>1, <2>2, PlacesOrdered
  <2>6. s[i].at \in Nat /\ s[j].at \in Nat
    BY TradesTimed
  <2> QED BY <2>3, <2>4, <2>5, <2>6 DEF Upto
<1>3. \A k \in 1..Len(s) : Place(b, k) = k
  <2> TAKE k \in 1..Len(s)
  <2>1. Place(b, k) = Cardinality({j \in 1..Len(s) : Upto(b, j, k)})
    BY <1>1, TradesTimed DEF Place, Upto
  <2>2. {j \in 1..Len(s) : Upto(b, j, k)} = 1..k
    BY <1>2
  <2>3. Cardinality(1..k) = k
    BY FS_Interval
  <2> QED BY <2>1, <2>2, <2>3
<1>4. ByTime(b) = b
  <2>1. ByTime(b) \in Seq(Traded) /\ Len(ByTime(b)) = Len(b) /\ \A i \in 1..Len(b) : ByTime(b)[Place(b, i)] = b[i]
    BY <1>1, ByTimeIs
  <2>2. \A i \in 1..Len(b) : ByTime(b)[i] = b[i]
    BY <1>1, <1>3, <2>1
  <2> QED BY <1>1, <2>1, <2>2, SeqEqual
<1> QED BY <1>4 DEF b
-----------------------------------------------------------------------------
(* Selecting from a sorted sequence is sorting what was selected: the sort   *)
(* is stable, and both count the members at or before one.                   *)
LEMMA PlaceOnce ==
  ASSUME NEW s \in Seq(Traded), NEW i \in 1..Len(s), NEW j \in 1..Len(s),
         Place(s, i) = Place(s, j)
  PROVE  i = j
<1>1. Place(s, i) \in Nat /\ Place(s, j) \in Nat
  BY PlacesOrdered
<1>2. Upto(s, i, j)
  BY <1>1, PlacesOrdered
<1>3. Upto(s, j, i)
  BY <1>1, PlacesOrdered
<1> QED BY <1>2, <1>3, UptoTotal

LEMMA NumberOnce ==
  ASSUME NEW s, NEW X, NEW n \in Nat, NEW i \in 1..n, NEW j \in 1..n,
         s[i] \in X, s[j] \in X, Numbered(s, X, i) = Numbered(s, X, j)
  PROVE  i = j
<1>1. /\ Numbered(s, X, i) \in Nat /\ Numbered(s, X, j) \in Nat
      /\ Numbered(s, X, i) <= Numbered(s, X, j) <=> i <= j
  BY NumberedOrders
<1>2. Numbered(s, X, j) <= Numbered(s, X, i) <=> j <= i
  BY NumberedOrders
<1> QED BY <1>1, <1>2

LEMMA PlacesSelected ==
  ASSUME NEW s \in Seq(Traded), NEW X, NEW i \in 1..Len(s)
  PROVE  Numbered(ByTime(s), X, Place(s, i))
           = Cardinality({j \in 1..Len(s) : s[j] \in X /\ Upto(s, j, i)})
<1> DEFINE b == ByTime(s)
           n == Len(s)
           k == Place(s, i)
           M == {j \in 1..n : s[j] \in X /\ Upto(s, j, i)}
           B == {l \in 1..k : b[l] \in X}
           f == [j \in 1..n |-> Place(s, j)]
<1>1. n \in Nat /\ k \in 1..n /\ \A j \in 1..n : b[Place(s, j)] = s[j]
  BY ByTimeIs, PlacesOrdered
<1>2. IsFiniteSet(M)
  <2>1. M \subseteq 1..n
    OBVIOUS
  <2> HIDE DEF M
  <2> QED BY <1>1, <2>1, FirstNumbers, FewerWithin
<1>3. ASSUME NEW j \in M PROVE f[j] \in B
  <2>1. j \in 1..n /\ s[j] \in X /\ Upto(s, j, i)
    OBVIOUS
  <2>2. Place(s, j) \in 1..n /\ Place(s, j) <= k
    BY <2>1, PlacesOrdered
  <2>3. b[Place(s, j)] \in X
    BY <1>1, <2>1
  <2> QED BY <1>1, <2>1, <2>2, <2>3
<1>4. ASSUME NEW x \in M, NEW y \in M, f[x] = f[y] PROVE x = y
  <2>1. x \in 1..n /\ y \in 1..n /\ Place(s, x) = Place(s, y)
    BY <1>4
  <2> QED BY <2>1, PlaceOnce
<1>5. ASSUME NEW l \in B PROVE \E j \in M : f[j] = l
  <2>1. l \in 1..n /\ l <= k /\ b[l] \in X
    BY <1>1
  <2>2. PICK j \in 1..n : Place(s, j) = l
    BY <2>1, PlacesFilled
  <2>3. s[j] \in X
    BY <1>1, <2>1, <2>2
  <2>4. Upto(s, j, i)
    BY <2>1, <2>2, PlacesOrdered
  <2> QED BY <2>2, <2>3, <2>4
<1>6. Cardinality(B) = Cardinality(M)
  <2> HIDE DEF M, B, f
  <2> QED BY <1>2, <1>3, <1>4, <1>5, SameSize
<1> QED BY <1>6 DEF Numbered

LEMMA NumbersPlaced ==
  ASSUME NEW s \in Seq(Traded), NEW X, NEW i \in 1..Len(s), s[i] \in X
  PROVE  Place(Among(s, X), Numbered(s, X, i))
           = Cardinality({j \in 1..Len(s) : s[j] \in X /\ Upto(s, j, i)})
<1> DEFINE u == Among(s, X)
           n == Len(s)
           c == Numbered(s, X, i)
           M == {j \in 1..n : s[j] \in X /\ Upto(s, j, i)}
           U == {d \in 1..Len(u) : Upto(u, d, c)}
           f == [j \in 1..n |-> Numbered(s, X, j)]
<1>1. /\ n \in Nat /\ u \in Seq(Traded) /\ Len(u) = Numbered(s, X, n)
      /\ \A j \in 1..n : s[j] \in X => u[Numbered(s, X, j)] = s[j]
  BY AmongFound, AmongType DEF Found
<1>2. \A j \in 1..n : s[j] \in X => Numbered(s, X, j) \in 1..Len(u)
  BY <1>1, NumbersTaken
<1>3. Place(u, c) = Cardinality(U)
  <2>1. c \in 1..Len(u) /\ DOMAIN u = 1..Len(u)
    BY <1>1, <1>2
  <2> HIDE DEF u, c
  <2> QED BY <2>1 DEF Place, Upto
<1>4. IsFiniteSet(M)
  <2>1. M \subseteq 1..n
    OBVIOUS
  <2> HIDE DEF M
  <2> QED BY <1>1, <2>1, FirstNumbers, FewerWithin
<1>5. ASSUME NEW j \in 1..n, s[j] \in X
      PROVE  Upto(u, Numbered(s, X, j), c) <=> Upto(s, j, i)
  <2>1. u[Numbered(s, X, j)] = s[j] /\ u[c] = s[i]
    BY <1>1, <1>5
  <2>2. Numbered(s, X, j) <= c <=> j <= i
    BY <1>1, <1>5, NumberedOrders
  <2> HIDE DEF u, c
  <2> QED BY <2>1, <2>2 DEF Upto
<1>6. ASSUME NEW j \in M PROVE f[j] \in U
  BY <1>2, <1>5
<1>7. ASSUME NEW x \in M, NEW y \in M, f[x] = f[y] PROVE x = y
  <2>1. /\ x \in 1..n /\ y \in 1..n /\ s[x] \in X /\ s[y] \in X
        /\ Numbered(s, X, x) = Numbered(s, X, y)
    BY <1>7
  <2> QED BY <1>1, <2>1, NumberOnce
<1>8. ASSUME NEW d \in U PROVE \E j \in M : f[j] = d
  <2>1. d \in 1..Numbered(s, X, n) /\ Upto(u, d, c)
    BY <1>1
  <2>2. PICK j \in 1..n : s[j] \in X /\ Numbered(s, X, j) = d
    BY <1>1, <2>1, NumbersTaken
  <2>3. Upto(s, j, i)
    BY <1>5, <2>1, <2>2
  <2> QED BY <2>2, <2>3
<1>9. Cardinality(U) = Cardinality(M)
  <2> HIDE DEF M, U, f
  <2> QED BY <1>4, <1>6, <1>7, <1>8, SameSize
<1> QED BY <1>3, <1>9

LEMMA AmongSorts ==
  ASSUME NEW s \in Seq(Traded), NEW X
  PROVE  Among(ByTime(s), X) = ByTime(Among(s, X))
<1> DEFINE b == ByTime(s)
           u == Among(s, X)
           n == Len(s)
<1>1. /\ n \in Nat /\ u \in Seq(Traded) /\ Len(u) = Numbered(s, X, n)
      /\ \A j \in 1..n : s[j] \in X => u[Numbered(s, X, j)] = s[j]
  BY AmongFound, AmongType DEF Found
<1>2. b \in Seq(Traded) /\ Len(b) = n /\ \A i \in 1..n : b[Place(s, i)] = s[i]
  BY ByTimeIs
<1>3. /\ ByTime(u) \in Seq(Traded) /\ Len(ByTime(u)) = Len(u)
      /\ \A c \in 1..Len(u) : ByTime(u)[Place(u, c)] = u[c]
  BY <1>1, ByTimeIs
<1>4. ASSUME NEW k \in 1..n, b[k] \in X
      PROVE  ByTime(u)[Numbered(b, X, k)] = b[k]
  <2>1. PICK i \in 1..n : Place(s, i) = k
    BY PlacesFilled
  <2>2. s[i] = b[k] /\ s[i] \in X
    BY <1>2, <1>4, <2>1
  <2>3. Numbered(s, X, i) \in 1..Len(u)
    <3> HIDE DEF u, b
    <3> QED BY <1>1, <2>2, NumbersTaken
  <2>4. Numbered(b, X, k) = Place(u, Numbered(s, X, i))
    <3> DEFINE M == {j \in 1..n : s[j] \in X /\ Upto(s, j, i)}
    <3>1. Numbered(b, X, Place(s, i)) = Cardinality(M)
      BY PlacesSelected
    <3>2. Place(u, Numbered(s, X, i)) = Cardinality(M)
      BY <2>2, NumbersPlaced
    <3> HIDE DEF M, b, u
    <3> QED BY <2>1, <3>1, <3>2
  <2>5. ByTime(u)[Place(u, Numbered(s, X, i))] = u[Numbered(s, X, i)]
    BY <1>3, <2>3
  <2> QED BY <1>1, <2>2, <2>4, <2>5
<1>5. Numbered(b, X, n) = Len(u)
  <2> DEFINE f == [i \in 1..n |-> Place(s, i)]
             A == {i \in 1..n : s[i] \in X}
             B == {k \in 1..n : b[k] \in X}
  <2>1. IsFiniteSet(A)
    <3>1. A \subseteq 1..n
      OBVIOUS
    <3> HIDE DEF A
    <3> QED BY <1>1, <3>1, FirstNumbers, FewerWithin
  <2>2. ASSUME NEW i \in A PROVE f[i] \in B
    BY <1>2, PlacesOrdered
  <2>3. ASSUME NEW x \in A, NEW y \in A, f[x] = f[y] PROVE x = y
    <3>1. x \in 1..n /\ y \in 1..n /\ Place(s, x) = Place(s, y)
      BY <2>3
    <3> QED BY <3>1, PlaceOnce
  <2>4. ASSUME NEW k \in B PROVE \E i \in A : f[i] = k
    <3>1. PICK i \in 1..n : Place(s, i) = k
      BY PlacesFilled
    <3>2. s[i] \in X
      BY <1>2, <3>1
    <3> QED BY <3>1, <3>2
  <2>5. Cardinality(B) = Cardinality(A)
    <3> HIDE DEF A, B, f
    <3> QED BY <2>1, <2>2, <2>3, <2>4, SameSize
  <2> QED BY <1>1, <2>5 DEF Numbered
<1> HIDE DEF b, u, n
<1>6. Found(ByTime(u), b, X, Len(b))
  BY <1>2, <1>3, <1>4, <1>5 DEF Found
<1>7. Among(b, X) = ByTime(u)
  BY <1>2, <1>3, <1>6, AmongIs
<1> QED BY <1>7 DEF b, u
-----------------------------------------------------------------------------
(* A sum over renamed members is the sum over them.                          *)
Weighs(v, D) == v \in [D -> Int]
Renamed(p, s) == {p[x] : x \in s}
Carries(p, v, w, D) == \A x \in D : w[p[x]] = v[x]

LEMMA SumRenamed ==
  ASSUME NEW D, IsFiniteSet(D), NEW v, NEW w, Weighs(v, D), Weighs(w, D),
         NEW p, Apart(p, D, D),
         Carries(p, v, w, D),
         NEW f, Summed(f, v, D), NEW g, Summed(g, w, D)
  PROVE  f[D] = g[Renamed(p, D)]
<1> DEFINE Of(s) == {p[x] : x \in s}
           n == Cardinality(D)
           Good == {i \in 0..n : \A s \in SUBSET D : Cardinality(s) <= i => f[s] = g[Of(s)]}
<1>0. n \in Nat /\ \A s \in SUBSET D : IsFiniteSet(s) /\ Cardinality(s) \in Nat /\ Cardinality(s) <= n
  BY FS_CardinalityType, FS_Subset
<1>1. 0 \in Good
  <2>1. ASSUME NEW s \in SUBSET D, Cardinality(s) <= 0 PROVE f[s] = g[Of(s)]
    <3>1. s = {}
      BY <1>0, <2>1, FS_EmptySet
    <3>2. Of(s) = {}
      BY <3>1
    <3>3. f[{}] = 0 /\ g[{}] = 0
      BY DEF Summed
    <3> QED BY <3>1, <3>2, <3>3
  <2> HIDE DEF n, Of
  <2> QED BY <1>0, <2>1
<1>2. ASSUME NEW i \in 0..n, i # n, i \in Good PROVE i + 1 \in Good
  <2>1. ASSUME NEW s \in SUBSET D, Cardinality(s) <= i + 1 PROVE f[s] = g[Of(s)]
    <3>1. CASE s = {}
      <4>1. Of(s) = {}
        BY <3>1
      <4>2. f[{}] = 0 /\ g[{}] = 0
        BY DEF Summed
      <4> QED BY <3>1, <4>1, <4>2
    <3>2. CASE s # {}
      <4>1. PICK x \in s : TRUE
        BY <3>2
      <4>2. Cardinality(s \ {x}) <= i
        <5>1. IsFiniteSet(s) /\ Cardinality(s) \in Nat
          BY <1>0
        <5>2. Cardinality(s \ {x}) = Cardinality(s) - 1
          BY <5>1, FS_RemoveElement
        <5> HIDE DEF n, Good
        <5> QED BY <1>0, <2>1, <5>1, <5>2
      <4>3. f[s \ {x}] = g[Of(s \ {x})]
        <5>1. s \ {x} \in SUBSET D
          OBVIOUS
        <5> HIDE DEF Of
        <5> QED BY <1>2, <4>2, <5>1
      <4>4. Of(s \ {x}) = Of(s) \ {p[x]} /\ p[x] \in Of(s) /\ Of(s) \in SUBSET D
        BY DEF Apart
      <4>5. f[s] = v[x] + f[s \ {x}]
        <5>1. TakesAny(f, v, D)
          BY SumTakes DEF Weighs
        <5> QED BY <5>1 DEF TakesAny
      <4>6. g[Of(s)] = w[p[x]] + g[Of(s) \ {p[x]}]
        <5>1. TakesAny(g, w, D)
          BY SumTakes DEF Weighs
        <5> HIDE DEF Of
        <5> QED BY <4>4, <5>1 DEF TakesAny
      <4>7. w[p[x]] = v[x]
        BY DEF Carries
      <4> HIDE DEF Of
      <4> QED BY <4>3, <4>4, <4>5, <4>6, <4>7
    <3> QED BY <3>1, <3>2
  <2>2. i + 1 \in 0..n
    BY <1>0, <1>2
  <2> HIDE DEF n, Of
  <2> QED BY <2>1, <2>2
<1>3. \A i \in 0..n : i \in Good
  <2> HIDE DEF Good, n
  <2> QED BY <1>0, <1>1, <1>2, Climb
<1>4. n \in Good /\ D \in SUBSET D
  <2>1. n \in 0..n
    BY <1>0
  <2> HIDE DEF Good, n
  <2> QED BY <1>3, <2>1
<1>5. f[D] = g[Of(D)]
  <2> HIDE DEF n, Of
  <2> QED BY <1>0, <1>4
<1> QED BY <1>5 DEF Renamed

(* What SolOf computes.                                                      *)
SolStep(h, trades, s) == IF s = {} THEN 0 ELSE trades[Chosen(s)].sol + h[s \ {Chosen(s)}]
Sols(trades) == [i \in 1..Len(trades) |-> trades[i].sol]

LEMMA SolIs ==
  ASSUME NEW trades \in Seq(Traded), NEW f, Summed(f, Sols(trades), 1..Len(trades))
  PROVE  SolOf(trades) = f[1..Len(trades)]
<1> DEFINE D == 1..Len(trades)
           v == Sols(trades)
           h == CHOOSE k : k = [s \in SUBSET D |-> SolStep(k, trades, s)]
<1>0. Len(trades) \in Nat /\ DOMAIN trades = D /\ IsFiniteSet(D)
  BY FirstNumbers, TradesTimed
<1>1. SolOf(trades) = h[D]
  BY <1>0 DEF SolOf, MapThenSumSet, MapThenFoldSet, SolStep, Chosen
<1>2. \A s \in SUBSET D : f[s] = Adds(f, v, s)
  BY DEF Summed, Adds
<1>3. \A k : \A s \in SUBSET D : SolStep(k, trades, s) = Adds(k, v, s)
  <2>1. \A s \in SUBSET D : s # {} => Chosen(s) \in D
    BY DEF Chosen
  <2>2. \A i \in D : v[i] = trades[i].sol
    BY DEF Sols
  <2> HIDE DEF D, v
  <2> QED BY <2>1, <2>2 DEF SolStep, Adds
<1> HIDE DEF v
<1>4. \E k : k = [s \in SUBSET D |-> SolStep(k, trades, s)]
  <2> DEFINE k == [s \in SUBSET D |-> f[s]]
  <2>1. \A s \in SUBSET D : k[s] = SolStep(k, trades, s)
    <3> TAKE s \in SUBSET D
    <3>1. k[s] = Adds(f, v, s)
      BY <1>2
    <3>2. Adds(f, v, s) = Adds(k, v, s)
      BY DEF Adds
    <3> HIDE DEF k
    <3> QED BY <1>3, <3>1, <3>2
  <2>2. k = [s \in SUBSET D |-> k[s]]
    OBVIOUS
  <2> HIDE DEF k
  <2> QED BY <2>1, <2>2
<1>5. h = [s \in SUBSET D |-> SolStep(h, trades, s)]
  BY <1>4
<1> HIDE DEF h
<1>6. \A s \in SUBSET D : h[s] = SolStep(h, trades, s)
  BY <1>5
<1>7. \A s \in SUBSET D : h[s] = Adds(h, v, s)
  BY <1>3, <1>6
<1>8. AddsUp(f, v, D) /\ AddsUp(h, v, D)
  BY <1>2, <1>7 DEF AddsUp
<1>9. h[D] = f[D]
  <2>1. D \in SUBSET D
    OBVIOUS
  <2> HIDE DEF D
  <2> QED BY <1>0, <1>8, <2>1, SumUnique
<1> QED BY <1>1, <1>9

LEMMA SolsType ==
  ASSUME NEW trades \in Seq(Traded)
  PROVE  Sols(trades) \in [1..Len(trades) -> Int]
BY TradesTimed DEF Sols

(* The volume does not depend on the order.                                  *)
LEMMA SolSorted ==
  ASSUME NEW s \in Seq(Traded)
  PROVE  SolOf(ByTime(s)) = SolOf(s)
<1> DEFINE D == 1..Len(s)
           b == ByTime(s)
           v == Sols(s)
           w == Sols(b)
           p == [i \in D |-> Place(s, i)]
<1>1. b \in Seq(Traded) /\ Len(b) = Len(s) /\ \A i \in D : b[Place(s, i)] = s[i]
  BY ByTimeIs
<1>2. IsFiniteSet(D) /\ v \in [D -> Int] /\ w \in [D -> Int]
  BY <1>1, FirstNumbers, SolsType, TradesTimed
<1>3. p \in [D -> D] /\ Apart(p, D, D) /\ Renamed(p, D) = D
  <2>1. p \in [D -> D]
    BY PlacesOrdered
  <2>2. \A x, y \in D : p[x] = p[y] => x = y
    BY PlaceOnce
  <2>3. \A k \in D : \E x \in D : p[x] = k
    BY PlacesFilled
  <2> HIDE DEF p, D
  <2> QED BY <2>1, <2>2, <2>3 DEF Apart, Renamed
<1>4. \A x \in D : w[p[x]] = v[x]
  <2> TAKE x \in D
  <2>1. Place(s, x) \in D /\ p[x] = Place(s, x)
    BY PlacesOrdered
  <2>2. w[p[x]] = b[p[x]].sol /\ v[x] = s[x].sol
    BY <1>1, <2>1 DEF Sols
  <2> QED BY <1>1, <2>1, <2>2
<1>5. PICK f : Summed(f, v, D)
  BY <1>2, SumIs
<1>6. PICK g : Summed(g, w, D)
  BY <1>2, SumIs
<1>7. SolOf(s) = f[D]
  BY <1>5, SolIs
<1>8. SolOf(b) = g[D]
  BY <1>1, <1>6, SolIs
<1> HIDE DEF D, b, v, w, p
<1>9. f[D] = g[Renamed(p, D)]
  <2>1. IsFiniteSet(D) /\ Weighs(v, D) /\ Weighs(w, D)
    BY <1>2 DEF Weighs
  <2>2. Apart(p, D, D)
    BY <1>3
  <2>3. Carries(p, v, w, D)
    BY <1>4 DEF Carries
  <2>4. Summed(f, v, D) /\ Summed(g, w, D)
    BY <1>5, <1>6
  <2> QED BY ONLY <2>1, <2>2, <2>3, <2>4, SumRenamed
<1> QED BY <1>3, <1>7, <1>8, <1>9 DEF b
-----------------------------------------------------------------------------
(* The metrics of a sorted list of trades.                                   *)
LEMMA UntilType ==
  ASSUME NEW s \in Seq(Traded), NEW a
  PROVE  /\ Until(s, a) \in Seq(Traded) /\ Buys(s) \in Seq(Traded)
         /\ ToSet(Until(s, a)) = {t \in ToSet(s) : t.at <= a}
<1>1. ToSet(Until(s, a)) = ToSet(s) \cap {t \in ToSet(s) : t.at <= a}
  BY AmongSet DEF Until
<1>2. Until(s, a) \in Seq(Traded) /\ Buys(s) \in Seq(Traded)
  BY AmongType DEF Until, Buys
<1> QED BY <1>1, <1>2

LEMMA MembersAre ==
  ASSUME NEW s \in Seq(Traded)
  PROVE  /\ \A i \in 1..Len(s) : s[i] \in ToSet(s)
         /\ \A x \in ToSet(s) : x \in Traded /\ x.at \in Nat
<1>1. DOMAIN s = 1..Len(s) /\ \A i \in 1..Len(s) : s[i] \in Traded /\ s[i].at \in Nat
  BY TradesTimed
<1> QED BY <1>1 DEF ToSet

LEMMA UntilSorted ==
  ASSUME NEW s \in Seq(Traded), NEW a
  PROVE  Until(ByTime(s), a) = ByTime(Until(s, a))
BY AmongSorts, ByTimeSet DEF Until

LEMMA BuysSorted ==
  ASSUME NEW s \in Seq(Traded)
  PROVE  Buys(ByTime(s)) = ByTime(Buys(s))
BY AmongSorts, ByTimeSet DEF Buys

LEMMA BoughtSorted ==
  ASSUME NEW s \in Seq(Traded)
  PROVE  Bought(ByTime(s)) = Bought(s)
<1>1. Wallet(ByTime(s)) = Wallet(s) /\ ToSet(ByTime(s)) = ToSet(s)
  BY ByTimeSet DEF Wallet
<1>2. ASSUME NEW X
      PROVE  SolOf(Among(ByTime(s), X)) = SolOf(Among(s, X))
  <2>1. Among(s, X) \in Seq(Traded)
    BY AmongType
  <2> QED BY <2>1, AmongSorts, SolSorted
<1> QED BY <1>1, <1>2 DEF Bought

LEMMA TopSorted ==
  ASSUME NEW s \in Seq(Traded)
  PROVE  TopBuyers(ByTime(s)) = TopBuyers(s)
<1>1. Bought(Buys(ByTime(s))) = Bought(Buys(s))
  BY BuysSorted, BoughtSorted, UntilType
<1> QED BY <1>1 DEF TopBuyers

LEMMA SnipersSorted ==
  ASSUME NEW s \in Seq(Traded)
  PROVE  Snipers(ByTime(s)) = Snipers(s)
<1>1. Until(s, 0) \in Seq(Traded) /\ Buys(Until(s, 0)) \in Seq(Traded)
  BY UntilType
<1>2. Buys(Until(ByTime(s), 0)) = ByTime(Buys(Until(s, 0)))
  BY <1>1, UntilSorted, BuysSorted
<1>3. ToSet(Buys(Until(ByTime(s), 0))) = ToSet(Buys(Until(s, 0)))
  BY <1>1, <1>2, ByTimeSet
<1> QED BY <1>3 DEF Snipers, Wallet

LEMMA StatsSorted ==
  ASSUME NEW s \in Seq(Traded), NEW a
  PROVE  StatsUpTo(ByTime(s), a) = StatsUpTo(s, a)
<1> DEFINE b == Buys(Until(s, a))
<1>1. Until(s, a) \in Seq(Traded) /\ b \in Seq(Traded)
  BY UntilType
<1>2. Buys(Until(ByTime(s), a)) = ByTime(b)
  BY <1>1, UntilSorted, BuysSorted
<1>3. Wallet(ByTime(b)) = Wallet(b) /\ Len(ByTime(b)) = Len(b) /\ SolOf(ByTime(b)) = SolOf(b)
  BY <1>1, ByTimeSet, ByTimeIs, SolSorted DEF Wallet
<1> QED BY <1>2, <1>3 DEF StatsUpTo

LEMMA TimedSorted ==
  ASSUME NEW s \in Seq(Traded)
  PROVE  TimeAware(ByTime(s)) = TimeAware(s)
BY StatsSorted DEF TimeAware

(* Trades after an age do not count at it.                                   *)
LEMMA UntilFront ==
  ASSUME NEW s \in Seq(Traded), NEW t \in Seq(Traded), NEW a \in Int,
         \A x \in ToSet(t) : ~(x.at <= a)
  PROVE  Until(s \o t, a) = Until(s, a)
<1> DEFINE X == {x \in ToSet(s \o t) : x.at <= a}
           Y == {x \in ToSet(s) : x.at <= a}
<1>1. \A i \in 1..Len(t) : t[i] \notin X
  BY MembersAre
<1>2. Among(s \o t, X) = Among(s, X)
  <2> HIDE DEF X
  <2> QED BY <1>1, AmongFront
<1>3. \A i \in 1..Len(s) : s[i] \in X <=> s[i] \in Y
  <2> DEFINE r == s \o t
  <2>1. /\ r \in Seq(Traded) /\ Len(s) \in Nat /\ Len(t) \in Nat
        /\ Len(r) = Len(s) + Len(t)
        /\ \A i \in 1..Len(s) : r[i] = s[i]
    OBVIOUS
  <2>2. X = {x \in ToSet(r) : x.at <= a}
    OBVIOUS
  <2> HIDE DEF X, r
  <2>3. ASSUME NEW i \in 1..Len(s) PROVE s[i] \in ToSet(r) /\ s[i] \in ToSet(s)
    <3>1. i \in 1..Len(r) /\ r[i] = s[i]
      BY <2>1
    <3>2. r[i] \in ToSet(r)
      BY <2>1, <3>1, MembersAre
    <3> QED BY <3>1, <3>2, MembersAre
  <2> QED BY <2>2, <2>3
<1>4. Among(s, X) = Among(s, Y)
  <2> HIDE DEF X, Y
  <2> QED BY <1>3, AmongSame
<1> QED BY <1>2, <1>4 DEF Until

LEMMA UntilAgain ==
  ASSUME NEW s \in Seq(Traded), NEW a \in Int, NEW b \in Int, b <= a
  PROVE  Until(Until(s, a), b) = Until(s, b)
<1> DEFINE u == Until(s, a)
           Y == {x \in ToSet(s) : x.at <= a}
           X == {x \in ToSet(s) : x.at <= b}
           Z == {x \in ToSet(u) : x.at <= b}
<1>1. u \in Seq(Traded) /\ ToSet(u) = Y
  BY UntilType
<1>2. X \subseteq Y /\ Z = X
  <2>1. \A x \in ToSet(s) : x.at \in Nat
    BY MembersAre
  <2>2. \A x \in ToSet(s) : x.at <= b => x.at <= a
    BY <2>1
  <2> HIDE DEF u
  <2> QED BY <1>1, <2>2
<1>3. Among(Among(s, Y), X) = Among(s, X)
  <2> HIDE DEF X, Y
  <2> QED BY <1>2, AmongAgain
<1>4. Until(u, b) = Among(Among(s, Y), Z)
  BY DEF Until
<1> HIDE DEF X, Z
<1>5. Until(s, b) = Among(s, X)
  BY DEF Until, X
<1> QED BY <1>2, <1>3, <1>4, <1>5

(* A token that is replayed as it was stored is scored as it was, for the    *)
(* metrics sort what they are given.                                        *)
LEMMA MetricsSorted ==
  ASSUME NEW s \in Seq(Traded)
  PROVE  MetricsOf(ByTime(s)) = MetricsOf(s)
<1>1. Chronological(ByTime(s)) = Chronological(s)
  BY ByTimeAgain DEF Chronological
<1> QED BY <1>1 DEF MetricsOf

LEMMA SaysSorted ==
  ASSUME NEW s \in Seq(Traded)
  PROVE  PipelineSays(ByTime(s)) = PipelineSays(s)
BY MetricsSorted DEF PipelineSays, FullSays

LEMMA TimedOf ==
  ASSUME NEW s
  PROVE  MetricsOf(s).timed = TimeAware(Chronological(s))
BY DEF MetricsOf

-----------------------------------------------------------------------------
(* The share of the largest holder is a number that is not below zero.       *)
TotalStep(f, s, amounts) == IF s = {} THEN 0 ELSE f[s \ {Max(s)}] + amounts[Max(s)]

LEMMA TotalType ==
  ASSUME NEW amounts \in Seq(Nat)
  PROVE  FoldLeft(+, 0, amounts) \in Nat
<1> DEFINE n == Len(amounts)
<1>0. n \in Nat /\ DOMAIN amounts = 1..n /\ \A i \in 1..n : amounts[i] \in Nat
  OBVIOUS
<1>1. PICK S : S = DOMAIN amounts /\ IsFiniteSet(S) /\ S = 1..n
  BY <1>0, FirstNumbers
<1> HIDE DEF n
<1> DEFINE f == CHOOSE h : h = [s \in SUBSET S |-> TotalStep(h, s, amounts)]
           c == [s \in SUBSET S |-> Max(s)]
           g == [xv \in S \X Nat |-> xv[2] + amounts[xv[1]]]
<1>2. FoldLeft(+, 0, amounts) = f[S]
  BY <1>1 DEF FoldLeft, MapThenFoldSet, TotalStep
<1>3. \A s \in SUBSET S : s # {} => c[s] = Max(s) /\ Max(s) \in s
  <2> TAKE s \in SUBSET S
  <2> HAVE s # {}
  <2>1. s \subseteq 1..n /\ 1 \in Int /\ n \in Int
    BY <1>0, <1>1
  <2> QED BY <2>1, GreatestInt
<1>4. g \in [S \X Nat -> Nat]
  BY <1>0, <1>1
<1>5. \A x \in S, v \in Nat : g[<<x, v>>] = v + amounts[x]
  OBVIOUS
<1>6. \E h : h = [s \in SUBSET S |-> TotalStep(h, s, amounts)]
  <2> HIDE DEF c, g, f
  <2>1. Picks(c, S) /\ IsFiniteSet(S)
    BY <1>1, <1>3 DEF Picks
  <2>2. PICK V : V = Nat
    OBVIOUS
  <2>9. FoldSolved(S, V, c, g, 0)
    <3>1. g \in [S \X V -> V] /\ 0 \in V
      BY <1>4, <2>2
    <3> QED BY <2>1, <3>1, FoldExists
  <2>3. PICK h \in [SUBSET S -> V] : \A s \in SUBSET S : h[s] = FoldStep(h, c, g, 0, s)
    BY <2>9 DEF FoldSolved
  <2>4. ASSUME NEW s \in SUBSET S PROVE FoldStep(h, c, g, 0, s) = TotalStep(h, s, amounts)
    <3>1. CASE s = {}
      BY <3>1 DEF FoldStep, TotalStep
    <3>2. CASE s # {}
      <4>1. c[s] = Max(s) /\ Max(s) \in S /\ s \ {Max(s)} \in SUBSET S
        BY <1>3, <3>2
      <4>2. h[s \ {Max(s)}] \in Nat
        BY <2>2, <4>1
      <4> QED BY <1>5, <3>2, <4>1, <4>2 DEF FoldStep, TotalStep
    <3> QED BY <3>1, <3>2
  <2>5. h = [s \in SUBSET S |-> h[s]]
    OBVIOUS
  <2>6. h = [s \in SUBSET S |-> TotalStep(h, s, amounts)]
    BY <2>3, <2>4, <2>5
  <2> QED BY <2>6
<1>7. f = [s \in SUBSET S |-> TotalStep(f, s, amounts)]
  BY <1>6
<1> HIDE DEF f
<1>8. \A s \in SUBSET S : f[s] = TotalStep(f, s, amounts)
  BY <1>7
<1>9. f[{}] = 0
  BY <1>8 DEF TotalStep
<1>10. ASSUME NEW s \in SUBSET S, s # {}, f[s \ {c[s]}] \in Nat PROVE f[s] \in Nat
  <2>1. c[s] = Max(s) /\ Max(s) \in 1..n
    BY <1>1, <1>3, <1>10
  <2>2. f[s \ {Max(s)}] \in Nat
    <3> HIDE DEF c
    <3> QED BY <1>10, <2>1
  <2>3. amounts[Max(s)] \in Nat
    BY <1>0, <2>1
  <2>4. f[s] = f[s \ {Max(s)}] + amounts[Max(s)]
    BY <1>8, <1>10 DEF TotalStep
  <2> QED BY <2>2, <2>3, <2>4
<1>11. f[S] \in Nat
  <2>1. PICK V : V = Nat
    OBVIOUS
  <2>2. Picks(c, S)
    BY <1>3 DEF Picks
  <2>3. f[{}] \in V
    BY <1>9, <2>1
  <2>4. \A s \in SUBSET S : s # {} /\ f[s \ {c[s]}] \in V => f[s] \in V
    <3> HIDE DEF c
    <3> QED BY <1>10, <2>1
  <2>5. f[S] \in V
    <3> HIDE DEF c
    <3> QED BY <1>1, <2>2, <2>3, <2>4, FoldStays
  <2> QED BY <2>1, <2>5
<1> QED BY <1>2, <1>11

(* A list of numbers has a greatest one.                                     *)
LEMMA GreatestOf ==
  ASSUME NEW s \in Seq(Nat), s # <<>>
  PROVE  Max(ToSet(s)) \in Nat
<1> DEFINE n == Len(s)
           T == {i \in 0..n : \E b \in Nat : \A j \in 1..i : s[j] <= b}
<1>1. n \in Nat /\ DOMAIN s = 1..n /\ (\A i \in 1..n : s[i] \in Nat) /\ n # 0
  OBVIOUS
<1> HIDE DEF n
<1>2. 0 \in T
  <2>1. 0 \in 0..n /\ \A j \in 1..0 : s[j] <= 0
    BY <1>1
  <2> QED BY <2>1
<1>3. ASSUME NEW i \in 0..n, i # n, i \in T PROVE i + 1 \in T
  <2>1. PICK b \in Nat : \A j \in 1..i : s[j] <= b
    BY <1>3
  <2>2. i + 1 \in 1..n /\ s[i + 1] \in Nat
    BY <1>1, <1>3
  <2>3. PICK d \in Nat : b <= d /\ s[i + 1] <= d
    <3>1. b <= b + s[i + 1] /\ s[i + 1] <= b + s[i + 1] /\ b + s[i + 1] \in Nat
      BY <2>2
    <3> QED BY <3>1
  <2>4. ASSUME NEW j \in 1..(i + 1) PROVE s[j] <= d
    <3>1. CASE j = i + 1
      BY <2>3, <3>1
    <3>2. CASE j # i + 1
      <4>1. j \in 1..i
        BY <1>1, <1>3, <3>2
      <4>2. s[j] \in Nat /\ s[j] <= b
        BY <1>1, <1>3, <2>1, <4>1
      <4>3. \A x \in Nat : x <= b => x <= d
        BY <2>3
      <4> QED BY <4>2, <4>3
    <3> QED BY <3>1, <3>2
  <2> QED BY <1>1, <2>2, <2>4
<1>4. \A i \in 0..n : i \in T
  <2> HIDE DEF T, n
  <2> QED BY <1>1, <1>2, <1>3, Climb
<1>5. PICK b \in Nat : \A j \in 1..n : s[j] <= b
  <2>1. n \in 0..n
    BY <1>1
  <2>2. n \in T
    <3> HIDE DEF T, n
    <3> QED BY <1>4, <2>1
  <2> QED BY <2>2
<1>6. ToSet(s) \subseteq 0..b /\ ToSet(s) # {}
  <2>1. \A x \in ToSet(s) : \E j \in 1..n : x = s[j]
    BY <1>1 DEF ToSet
  <2>2. s[1] \in ToSet(s)
    BY <1>1 DEF ToSet
  <2> HIDE DEF n
  <2> QED BY <1>1, <1>5, <2>1, <2>2
<1>7. 0 \in Int /\ b \in Int
  OBVIOUS
<1> QED BY <1>6, <1>7, GreatestInt

LEMMA TotalOfNone == FoldLeft(+, 0, <<>>) = 0
<1> DEFINE f == CHOOSE h : h = [s \in SUBSET {} |-> TotalStep(h, s, <<>>)]
           h == [s \in SUBSET {} |-> 0]
<1>1. FoldLeft(+, 0, <<>>) = f[{}]
  BY DEF FoldLeft, MapThenFoldSet, TotalStep
<1>2. h = [s \in SUBSET {} |-> TotalStep(h, s, <<>>)]
  BY DEF TotalStep
<1>3. f = [s \in SUBSET {} |-> TotalStep(f, s, <<>>)]
  BY <1>2
<1> HIDE DEF f
<1>4. f[{}] = TotalStep(f, {}, <<>>)
  BY <1>3
<1> QED BY <1>1, <1>4 DEF TotalStep

LEMMA ShareType ==
  ASSUME NEW a \in Captures
  PROVE  Share(a) \in Nat \cup {Unknown}
<1>1. Amounts[a] \in Seq(Nat)
  BY FeaturesAssumption
<1> DEFINE total == FoldLeft(+, 0, Amounts[a])
<1>2. total \in Nat
  BY <1>1, TotalType
<1>3. CASE total = 0
  BY <1>3 DEF Share
<1>4. CASE total # 0
  <2>1. Amounts[a] # <<>>
    BY <1>4, TotalOfNone
  <2>2. Max(ToSet(Amounts[a])) \in Nat
    BY <1>1, <2>1, GreatestOf
  <2>3. Share(a) = (100 * Max(ToSet(Amounts[a]))) \div total
    BY <1>4 DEF Share
  <2>4. \A x \in Nat, y \in Nat \ {0} : (100 * x) \div y \in Nat
    OBVIOUS
  <2> HIDE DEF total
  <2> QED BY <1>2, <1>4, <2>2, <2>3, <2>4
<1> QED BY <1>3, <1>4

-----------------------------------------------------------------------------
FeaturesSpec == FeaturesInit /\ [][FeaturesNext]_featureVars

(* The trades are trades, a capture that was there at the scoring stays, and *)
(* the travelling wallets are known throughout.                              *)
FeaturesInv ==
  /\ flow \in Seq(Traded) /\ received \in Seq(Traded) /\ after \in Seq(Traded)
  /\ moment \in Nat /\ scoring.at \in Nat \cup {Unknown}
  /\ landed \subseteq Captures /\ scoring.landed \subseteq landed
  /\ DOMAIN elsewhere = Travellers
  /\ Scored => DOMAIN scoring.elsewhere = Travellers /\ phase = "watched"
  /\ \A w \in Travellers :
       IF Scored THEN scoring.elsewhere[w] = {-1} ELSE elsewhere[w] = {-1}

LEMMA FeaturesStart == FeaturesInit => FeaturesInv
<1> SUFFICES ASSUME FeaturesInit PROVE FeaturesInv
  OBVIOUS
<1>1. flow \in Seq(Traded)
  BY FeaturesAssumption DEF FeaturesInit
<1>2. scoring.at = Unknown /\ scoring.landed = {} /\ landed = {} /\ moment = 0
  BY DEF FeaturesInit, NotScored
<1>3. /\ received = <<>> /\ after = <<>> /\ DOMAIN elsewhere = Travellers
      /\ \A w \in Travellers : elsewhere[w] = {-1}
  BY DEF FeaturesInit
<1> QED BY <1>1, <1>2, <1>3 DEF FeaturesInv, Scored

LEMMA FeaturesSteps ==
  FeaturesInv /\ [FeaturesNext]_featureVars => FeaturesInv'
<1> SUFFICES ASSUME FeaturesInv, [FeaturesNext]_featureVars PROVE FeaturesInv'
  OBVIOUS
<1>1. CASE Watch
  BY <1>1 DEF Watch, FeaturesInv, Scored
<1>2. CASE Passes
  BY <1>2 DEF Passes, FeaturesInv, Scored
<1>3. CASE Receive
  <2>1. PICK i \in DOMAIN flow :
          IF phase = "observing"
          THEN received' = Append(received, flow[i]) /\ UNCHANGED after
          ELSE after' = Append(after, flow[i]) /\ UNCHANGED received
    BY <1>3 DEF Receive
  <2>2. flow[i] \in Traded
    BY <2>1 DEF FeaturesInv
  <2>3. received' \in Seq(Traded) /\ after' \in Seq(Traded)
    <3>1. received \in Seq(Traded) /\ after \in Seq(Traded)
      BY DEF FeaturesInv
    <3>2. Append(received, flow[i]) \in Seq(Traded) /\ Append(after, flow[i]) \in Seq(Traded)
      BY <2>2, <3>1
    <3> QED BY <2>1, <3>1, <3>2
  <2> QED BY <1>3, <2>3 DEF Receive, FeaturesInv, Scored
<1>4. CASE CaptureHolders
  BY <1>4 DEF CaptureHolders, FeaturesInv, Scored
<1>5. CASE AskAt30
  BY <1>5 DEF AskAt30, FeaturesInv, Scored
<1>6. CASE ScoreToken
  <2>1. /\ ~Scored /\ scoring'.at = moment /\ scoring'.landed = landed
        /\ scoring'.elsewhere = elsewhere /\ phase' = "watched"
        /\ UNCHANGED <<flow, received, after, moment, landed, elsewhere>>
    BY <1>6 DEF ScoreToken, FeaturesInv
  <2>2. moment \in Nat /\ moment # Unknown
    BY DEF FeaturesInv, Unknown
  <2> QED BY <2>1, <2>2 DEF FeaturesInv, Scored
<1>7. CASE TradeElsewhere
  BY <1>7 DEF TradeElsewhere, FeaturesInv, Scored
<1>8. CASE Reclassify
  BY <1>8 DEF Reclassify, FeaturesInv, Scored
<1>9. CASE UNCHANGED featureVars
  BY <1>9 DEF featureVars, FeaturesInv, Scored
<1> QED BY <1>1, <1>2, <1>3, <1>4, <1>5, <1>6, <1>7, <1>8, <1>9 DEF FeaturesNext

-----------------------------------------------------------------------------
(* The table and the window agree up to an age at which nothing is missing.  *)
LEMMA WindowType ==
  ASSUME FeaturesInv
  PROVE  /\ received \in Seq(Traded) /\ after \in Seq(Traded)
         /\ Window90 \in Seq(Traded) /\ Stored \in Seq(Traded)
         /\ Scored => Stored = Window90 \o after /\ scoring.at \in Nat
<1>1. received \in Seq(Traded) /\ after \in Seq(Traded) /\ Window90 \in Seq(Traded)
  BY UntilType DEF FeaturesInv, Window90
<1>2. Scored => Stored = Window90 \o after /\ scoring.at \in Nat
  BY DEF Stored, Scored, FeaturesInv
<1>3. Window90 \o after \in Seq(Traded) /\ <<>> \o after \in Seq(Traded)
  BY <1>1
<1> QED BY <1>1, <1>2, <1>3 DEF Stored

LEMMA StoredUntil ==
  ASSUME FeaturesInv, Scored, NEW a \in Int, Since(a) = {}
  PROVE  Until(Stored, a) = Until(Window90, a)
<1>1. \A x \in ToSet(after) : ~(x.at <= a)
  BY DEF Since
<1>2. Window90 \in Seq(Traded) /\ after \in Seq(Traded) /\ Stored = Window90 \o after
  BY WindowType
<1>3. Until(Window90 \o after, a) = Until(Window90, a)
  <2>1. PICK w \in Seq(Traded) : w = Window90
    BY <1>2
  <2>2. Until(w \o after, a) = Until(w, a)
    BY <1>1, <1>2, UntilFront
  <2> QED BY <2>1, <2>2
<1> QED BY <1>2, <1>3

LEMMA NothingSince ==
  ASSUME FeaturesInv, NEW a \in Int, NEW b \in Int, b <= a, Since(a) = {}
  PROVE  Since(b) = {}
<1>1. \A x \in ToSet(after) : x.at \in Nat
  BY MembersAre DEF FeaturesInv
<1>2. \A x \in ToSet(after) : x.at <= b => x.at <= a
  BY <1>1
<1> QED BY <1>2 DEF Since

LEMMA ReplayAlike ==
  ASSUME FeaturesInv, Scored, Since(FullEnd) = {}
  PROVE  /\ PipelineSays(Until(Replayed, FullEnd)) = PipelineSays(Window90)
         /\ InOrder(Window90) =>
              FastSays(Until(Replayed, QuickEnd)) = FastSays(Until(Window90, QuickEnd))
<1>1. /\ received \in Seq(Traded) /\ Window90 \in Seq(Traded) /\ Stored \in Seq(Traded)
      /\ FullEnd \in Int /\ QuickEnd \in Int /\ QuickEnd <= FullEnd
  BY WindowType DEF FullEnd, QuickEnd
<1>2. Until(Window90, FullEnd) = Window90
  <2>1. Until(Until(received, FullEnd), FullEnd) = Until(received, FullEnd)
    BY <1>1, UntilAgain
  <2> QED BY <2>1 DEF Window90
<1>3. \A a \in Int : Until(Replayed, a) = ByTime(Until(Stored, a))
  BY <1>1, UntilSorted DEF Replayed
<1>4. Until(Replayed, FullEnd) = ByTime(Window90)
  BY <1>1, <1>2, <1>3, StoredUntil
<1>5. PipelineSays(ByTime(Window90)) = PipelineSays(Window90)
  BY <1>1, SaysSorted
<1>6. ASSUME InOrder(Window90)
      PROVE  Until(Replayed, QuickEnd) = Until(Window90, QuickEnd)
  <2>1. Until(Stored, QuickEnd) = Until(Window90, QuickEnd)
    BY <1>1, NothingSince, StoredUntil
  <2>2. ByTime(Until(Window90, QuickEnd)) = Until(ByTime(Window90), QuickEnd)
    BY <1>1, UntilSorted
  <2>3. ByTime(Window90) = Window90
    BY <1>6 DEF InOrder
  <2> QED BY <1>1, <1>3, <2>1, <2>2, <2>3
<1> QED BY <1>4, <1>5, <1>6

(* A replay of the stored trades gives the full score the bot gave, and, if   *)
(* the trades came in order, the fast one, unless a trade of the window was  *)
(* stored after the scoring (sources/replay.py, metrics.py, fast.py).        *)
THEOREM ReplaysScoreAlike == FeaturesSpec => []ReplayScoresAlike
<1>1. FeaturesInit => FeaturesInv
  BY FeaturesStart
<1>2. FeaturesInv /\ [FeaturesNext]_featureVars => FeaturesInv'
  BY FeaturesSteps
<1>3. FeaturesInv => ReplayScoresAlike
  BY ReplayAlike DEF ReplayScoresAlike, Over
<1> QED BY <1>1, <1>2, <1>3, PTL DEF FeaturesSpec

-----------------------------------------------------------------------------
LEMMA TradesAreAlike ==
  ASSUME FeaturesInv, Scored
  PROVE  TradesAlike(Served, Trained)
<1>1. /\ Window90 \in Seq(Traded) /\ Stored \in Seq(Traded) /\ scoring.at \in Nat
      /\ scoring.at \in Int
  BY WindowType
<1> DEFINE at == scoring.at
           w == Until(Window90, at)
<1>2. w \in Seq(Traded)
  BY <1>1, UntilType
<1>3. Hydrated90 = ByTime(w)
  BY <1>1, UntilSorted DEF Hydrated90
<1>4. TopBuyers(Hydrated90) = TopBuyers(w) /\ Snipers(Hydrated90) = Snipers(w)
  BY <1>2, <1>3, TopSorted, SnipersSorted
<1>5. Served.top = TopBuyers(Hydrated90) /\ Served.snipers = Snipers(Hydrated90)
  BY DEF Served, Row, Row30
<1>6. Trained.top = TopBuyers(Until(Stored, at)) /\ Trained.snipers = Snipers(Until(Stored, at))
  BY DEF Trained, TrainedTop
<1>7. Since(at) = {} => Until(Stored, at) = w
  BY <1>1, StoredUntil
<1>8. Served.timed = TimeAware(Window90)
  <2>1. Served.timed = MetricsOf(Window90).timed
    BY DEF Served, Row, Row30
  <2>2. MetricsOf(Window90).timed = TimeAware(ByTime(Window90))
    BY TimedOf DEF Chronological
  <2> QED BY <1>1, <2>1, <2>2, TimedSorted
<1>9. ASSUME Since(FullEnd) = {}
      PROVE  TimeAware(Stored) = TimeAware(Window90)
  <2>1. ASSUME NEW a \in 1..FullEnd
        PROVE  StatsUpTo(Stored, a) = StatsUpTo(Window90, a)
    <3>1. a \in Int /\ FullEnd \in Int /\ a <= FullEnd
      BY DEF FullEnd
    <3>2. Since(a) = {}
      BY <1>9, <3>1, NothingSince
    <3>3. Until(Stored, a) = Until(Window90, a)
      BY <3>1, <3>2, StoredUntil
    <3> QED BY <3>3 DEF StatsUpTo
  <2> QED BY <2>1 DEF TimeAware
<1>10. Trained.timed = TimeAware(Stored)
  BY DEF Trained, TrainedTimed
<1> QED BY <1>4, <1>5, <1>6, <1>7, <1>8, <1>9, <1>10 DEF TradesAlike

LEMMA EarlyAreAlike ==
  ASSUME FeaturesInv, Scored
  PROVE  EarlyTradesAlike
<1> SUFFICES ASSUME scoring.at = FullEnd, Since(1) = {}, Seen30 = Until(received, 1)
             PROVE  /\ Trained30.top = Served30.top /\ Trained30.snipers = Served30.snipers
                    /\ elsewhere = scoring.elsewhere /\ marked = scoring.marked =>
                         Trained30 = Served30
  BY DEF EarlyTradesAlike
<1>1. scoring.at - 2 = 1 /\ FullEnd \in Int /\ 1 \in Int /\ 1 <= FullEnd
  BY DEF FullEnd
<1>2. Until(Stored, 1) = Until(Window90, 1)
  BY <1>1, StoredUntil
<1>3. Until(Window90, 1) = Until(received, 1)
  BY <1>1, WindowType, UntilAgain DEF Window90
<1>4. Trained30 = Row30(Seen30, elsewhere, marked, 1)
  BY <1>1, <1>2, <1>3 DEF Trained30
<1>5. Served30 = Row30(Seen30, scoring.elsewhere, scoring.marked, 1)
  BY DEF Served30
<1>6. ASSUME NEW x, NEW y
      PROVE  /\ Row30(Seen30, x, y, 1).top = TopBuyers(Seen30)
             /\ Row30(Seen30, x, y, 1).snipers = Snipers(Seen30)
  BY DEF Row30
<1> QED BY <1>4, <1>5, <1>6

(* The greater of two numbers.                                               *)
LEMMA GreatestOfTwo ==
  ASSUME NEW x \in Int, NEW y \in Int
  PROVE  Max({x, y}) \in {x, y} /\ Max({x, y}) >= x /\ Max({x, y}) >= y
<1>1. \E m \in {x, y} : \A u \in {x, y} : m >= u
  <2>1. CASE x >= y
    BY <2>1
  <2>2. CASE ~(x >= y)
    BY <2>2
  <2> QED BY <2>1, <2>2
<1> QED BY <1>1 DEF Max

LEMMA WalletsAreAlike ==
  ASSUME FeaturesInv, Scored
  PROVE  WalletsAlike(Served, Trained)
<1> DEFINE at == scoring.at
           top == TopBuyers(Hydrated90)
<1>1. /\ Served.top = top /\ Served.priors = PriorStats(scoring.elsewhere, ToSet(top), at)
      /\ Served.marks = WalletMarks(top, Served.priors, scoring.marked)
  BY DEF Served, Row, Row30
<1>2. /\ Trained.top = TrainedTop
      /\ Trained.priors = PriorStats(elsewhere, ToSet(TrainedTop), at)
      /\ Trained.marks = WalletMarks(TrainedTop, Trained.priors, marked)
  BY DEF Trained, TrainedPriors, TrainedMarks
<1>3. DOMAIN elsewhere = Travellers /\ DOMAIN scoring.elsewhere = Travellers
  BY DEF FeaturesInv
<1> HIDE DEF at, top
<1>4. ASSUME NEW w \in ToSet(TrainedTop) \cap ToSet(top) \cap Travellers,
             elsewhere[w] = scoring.elsewhere[w]
      PROVE  /\ w \in DOMAIN Trained.priors <=> w \in DOMAIN Served.priors
             /\ w \in DOMAIN Served.priors => Trained.priors[w] = Served.priors[w]
  <2> DEFINE TakenWhole(rows, wallets) ==
        {v \in wallets \cap DOMAIN rows : rows[v] # {} /\ Max(rows[v]) < at}
  <2>1. ASSUME NEW rows, NEW wallets
        PROVE  /\ DOMAIN PriorStats(rows, wallets, at) = TakenWhole(rows, wallets)
               /\ \A v \in TakenWhole(rows, wallets) :
                    PriorStats(rows, wallets, at)[v] =
                      [trades |-> Cardinality(rows[v]), since |-> Min(rows[v])]
    BY DEF PriorStats
  <2>2. w \in TakenWhole(elsewhere, ToSet(TrainedTop))
          <=> w \in TakenWhole(scoring.elsewhere, ToSet(top))
    BY <1>3, <1>4
  <2>3. elsewhere[w] = scoring.elsewhere[w]
    BY <1>4
  <2> HIDE DEF TakenWhole
  <2>4. /\ w \in DOMAIN Trained.priors <=> w \in TakenWhole(elsewhere, ToSet(TrainedTop))
        /\ w \in DOMAIN Served.priors <=> w \in TakenWhole(scoring.elsewhere, ToSet(top))
    BY <1>1, <1>2, <2>1
  <2>5. ASSUME w \in DOMAIN Served.priors
        PROVE  Trained.priors[w] = Served.priors[w]
    <3>1. /\ w \in TakenWhole(elsewhere, ToSet(TrainedTop))
          /\ w \in TakenWhole(scoring.elsewhere, ToSet(top))
      BY <2>2, <2>4, <2>5
    <3>2. Trained.priors[w] =
            [trades |-> Cardinality(elsewhere[w]), since |-> Min(elsewhere[w])]
      BY <1>2, <2>1, <3>1
    <3>3. Served.priors[w] =
            [trades |-> Cardinality(scoring.elsewhere[w]), since |-> Min(scoring.elsewhere[w])]
      BY <1>1, <2>1, <3>1
    <3> QED BY <2>3, <3>2, <3>3
  <2> QED BY <2>2, <2>4, <2>5
<1>5. ASSUME Trained.top = Served.top, marked = scoring.marked
      PROVE  \/ Trained.marks = Served.marks
             \/ /\ Trained.marks = Unknown
                /\ \A w \in DOMAIN Served.priors : elsewhere[w] # scoring.elsewhere[w]
  <2>1. TrainedTop = top
    BY <1>1, <1>2, <1>5
  <2>2. /\ DOMAIN Served.priors \subseteq ToSet(top) \cap Travellers
        /\ DOMAIN Trained.priors \subseteq ToSet(top) \cap Travellers
    BY <1>1, <1>2, <1>3, <2>1 DEF PriorStats
  <2>3. CASE DOMAIN Trained.priors = {}
    <3>1. Trained.marks = Unknown
      BY <1>2, <2>3 DEF WalletMarks
    <3>2. \A w \in DOMAIN Served.priors : elsewhere[w] # scoring.elsewhere[w]
      BY <1>4, <2>1, <2>2, <2>3
    <3> QED BY <3>1, <3>2
  <2>4. CASE DOMAIN Trained.priors # {}
    <3>1. PICK w \in DOMAIN Trained.priors : w \in ToSet(top) \cap Travellers
      BY <2>2, <2>4
    <3>2. w \in DOMAIN Served.priors
      <4>1. scoring.elsewhere[w] = {-1} /\ scoring.at \in Nat
        BY <3>1 DEF FeaturesInv, Scored
      <4>2. Max({-1}) = -1
        <5>1. Max({-1, -1}) \in {-1, -1}
          BY GreatestOfTwo
        <5>2. {-1, -1} = {-1}
          OBVIOUS
        <5> QED BY <5>1, <5>2
      <4>3. scoring.elsewhere[w] # {} /\ Max(scoring.elsewhere[w]) < at
        BY <4>1, <4>2 DEF at
      <4> QED BY <1>1, <1>3, <3>1, <4>3 DEF PriorStats
    <3>3. /\ Trained.marks = MarkedAmong(MarksOf(top, marked))
          /\ Served.marks = MarkedAmong(MarksOf(top, scoring.marked))
      BY <1>1, <1>2, <2>1, <2>4, <3>2 DEF WalletMarks
    <3> QED BY <1>5, <3>3
  <2> QED BY <2>3, <2>4
<1> QED BY <1>1, <1>2, <1>4, <1>5 DEF WalletsAlike

LEMMA AheadType ==
  ASSUME NEW x \in Nat, NEW y \in Nat
  PROVE  Ahead(x, y) \in Nat
<1>1. PICK z \in Int : z = 2 * y - x
  <2>1. 2 * y - x \in Int
    OBVIOUS
  <2> QED BY <2>1
<1>2. Min({100, z}) \in Int
  <2>1. \E m \in {100, z} : \A u \in {100, z} : m <= u
    BY <1>1
  <2>2. Min({100, z}) \in {100, z}
    BY <2>1 DEF Min
  <2> QED BY <2>2
<1>3. PICK m \in Int : m = Min({100, z})
  BY <1>2
<1>4. Max({0, m}) \in Nat
  <2>1. Max({0, m}) \in {0, m} /\ Max({0, m}) >= 0
    BY GreatestOfTwo
  <2> QED BY <2>1
<1>5. Unknown \notin {x, y}
  BY DEF Unknown
<1> QED BY <1>1, <1>3, <1>4, <1>5 DEF Ahead

LEMMA FilledIs ==
  ASSUME NEW x \in Nat
  PROVE  Filled(x) = x
<1>1. Max({x, 0}) \in {x, 0} /\ Max({x, 0}) >= x
  BY GreatestOfTwo
<1> QED BY <1>1 DEF Filled

LEMMA HoldersAreAlike ==
  ASSUME FeaturesInv, Scored
  PROVE  HoldersAlike(Served, Trained)
<1> SUFFICES ASSUME scoring.answered,
                    Unknown \notin {Served.holders.early, Served.holders.late},
                    4 \notin landed \ scoring.landed
             PROVE  Trained.holders = Served.holders
  BY DEF HoldersAlike
<1> DEFINE GotOf(captures, a) == IF a \in captures THEN Share(a) ELSE Unknown
           LastOf(captures) == IF 4 \in captures THEN GotOf(captures, 4)
                               ELSE Ahead(GotOf(captures, 1), GotOf(captures, 2))
<1>1. Served.holders = ServedHolders(scoring.landed, TRUE)
      /\ Trained.holders = TrainedHolders(landed)
  BY DEF Served, Row, Row30, Trained
<1>2. ServedHolders(scoring.landed, TRUE) =
        [early |-> GotOf(scoring.landed, 1), late |-> LastOf(scoring.landed),
         mid |-> Between(GotOf(scoring.landed, 1), LastOf(scoring.landed))]
  BY DEF ServedHolders
<1>3. TrainedHolders(landed) =
        [early |-> Filled(GotOf(landed, 1)), late |-> Filled(LastOf(landed)),
         mid |-> Between(Filled(GotOf(landed, 1)), Filled(LastOf(landed)))]
  BY DEF TrainedHolders
<1>4. GotOf(scoring.landed, 1) # Unknown /\ LastOf(scoring.landed) # Unknown
  <2>1. /\ Served.holders.early = GotOf(scoring.landed, 1)
        /\ Served.holders.late = LastOf(scoring.landed)
    <3>1. PICK h : h = Served.holders
      OBVIOUS
    <3>2. PICK x, y, z : h = [early |-> x, late |-> y, mid |-> z]
                         /\ x = GotOf(scoring.landed, 1) /\ y = LastOf(scoring.landed)
      <4>1. h = [early |-> GotOf(scoring.landed, 1), late |-> LastOf(scoring.landed),
                 mid |-> Between(GotOf(scoring.landed, 1), LastOf(scoring.landed))]
        BY <1>1, <1>2, <3>1
      <4> HIDE DEF GotOf, LastOf
      <4> QED BY <4>1
    <3> HIDE DEF GotOf, LastOf
    <3> QED BY <3>1, <3>2
  <2> HIDE DEF GotOf, LastOf
  <2> QED BY <2>1
<1>5. /\ scoring.landed \subseteq landed /\ 1 \in Captures /\ 2 \in Captures /\ 4 \in Captures
      /\ Unknown = -1
  BY DEF FeaturesInv, Captures, Unknown
<1>6. GotOf(landed, 1) = GotOf(scoring.landed, 1) /\ GotOf(landed, 1) \in Nat
  BY <1>4, <1>5, ShareType
<1>7. LastOf(landed) = LastOf(scoring.landed) /\ LastOf(landed) \in Nat
  <2>1. CASE 4 \in scoring.landed
    BY <1>4, <1>5, <2>1, ShareType
  <2>2. CASE 4 \notin scoring.landed
    <3>1. 4 \notin landed
      BY <2>2
    <3>2. GotOf(scoring.landed, 2) # Unknown
      BY <1>4, <2>2 DEF Ahead
    <3>3. GotOf(landed, 2) = GotOf(scoring.landed, 2) /\ GotOf(landed, 2) \in Nat
      BY <1>5, <3>2, ShareType
    <3>4. ASSUME NEW x \in Nat, NEW y \in Nat PROVE Ahead(x, y) \in Nat
      BY <3>4, <1>5, AheadType
    <3> QED BY <1>6, <2>2, <3>1, <3>3, <3>4
  <2> QED BY <2>1, <2>2
<1>8. Filled(GotOf(landed, 1)) = GotOf(landed, 1) /\ Filled(LastOf(landed)) = LastOf(landed)
  BY <1>6, <1>7, FilledIs
<1> QED BY <1>1, <1>2, <1>3, <1>6, <1>7, <1>8

LEMMA JoinedSet ==
  ASSUME NEW s \in Seq(Traded), NEW t \in Seq(Traded)
  PROVE  ToSet(s \o t) = ToSet(s) \cup ToSet(t)
<1> DEFINE r == s \o t
<1>1. /\ DOMAIN s = 1..Len(s) /\ DOMAIN t = 1..Len(t) /\ DOMAIN r = 1..Len(s) + Len(t)
      /\ Len(s) \in Nat /\ Len(t) \in Nat
      /\ \A i \in 1..Len(s) : r[i] = s[i]
      /\ \A i \in 1..Len(t) : r[Len(s) + i] = t[i]
  OBVIOUS
<1> HIDE DEF r
<1>2. ASSUME NEW i \in DOMAIN r PROVE r[i] \in ToSet(s) \cup ToSet(t)
  <2>1. CASE i <= Len(s)
    BY <1>1, <2>1 DEF ToSet
  <2>2. CASE ~(i <= Len(s))
    <3>1. PICK j \in 1..Len(t) : i = Len(s) + j
      <4>1. i - Len(s) \in 1..Len(t) /\ i = Len(s) + (i - Len(s))
        BY <1>1, <2>2
      <4> QED BY <4>1
    <3> QED BY <1>1, <3>1 DEF ToSet
  <2> QED BY <2>1, <2>2
<1>3. ASSUME NEW i \in DOMAIN s PROVE s[i] \in ToSet(r)
  <2>1. i \in DOMAIN r /\ r[i] = s[i]
    BY <1>1
  <2> QED BY <2>1 DEF ToSet
<1>4. ASSUME NEW i \in DOMAIN t PROVE t[i] \in ToSet(r)
  <2>1. Len(s) + i \in DOMAIN r /\ r[Len(s) + i] = t[i]
    BY <1>1
  <2> QED BY <2>1 DEF ToSet
<1> QED BY <1>2, <1>3, <1>4 DEF ToSet, r

LEMMA DeadAreDead ==
  ASSUME FeaturesInv, Scored
  PROVE  DeadHadNoTrades
<1> SUFFICES ASSUME Label = "doa_no_trades",
                    NEW t \in ToSet(received) \cup ToSet(after), t.at >= scoring.at
             PROVE  t.at > FullEnd
  BY DEF DeadHadNoTrades
<1>1. Future = <<>>
  BY DEF Label
<1>2. /\ received \in Seq(Traded) /\ after \in Seq(Traded) /\ Window90 \in Seq(Traded)
      /\ Stored \in Seq(Traded) /\ Stored = Window90 \o after
  BY WindowType
<1>3. ToSet(Stored) \cap {u \in ToSet(Stored) : u.at >= scoring.at} = {}
  <2>1. ToSet(Future) = ToSet(Stored) \cap {u \in ToSet(Stored) : u.at >= scoring.at}
    BY <1>2, AmongSet DEF Future
  <2>2. ToSet(Future) = {}
    BY <1>1 DEF ToSet
  <2> QED BY <2>1, <2>2
<1>4. t \notin ToSet(Stored)
  BY <1>3
<1>5. ToSet(Stored) = ToSet(Window90) \cup ToSet(after)
  BY <1>2, JoinedSet
<1>6. t \in ToSet(received) /\ t \notin ToSet(Window90) /\ t.at \in Nat
  BY <1>2, <1>4, <1>5, MembersAre
<1>7. ~(t.at <= FullEnd)
  BY <1>2, <1>6, UntilType DEF Window90
<1> QED BY <1>6, <1>7 DEF FullEnd

LEMMA AlikeFromInv ==
  ASSUME FeaturesInv
  PROVE  ServedAsTrained /\ ReplayScoresAlike
<1>1. ServedAsTrained
  BY TradesAreAlike, EarlyAreAlike, WalletsAreAlike, HoldersAreAlike, DeadAreDead
  DEF ServedAsTrained, Over
<1>2. ReplayScoresAlike
  BY ReplayAlike DEF ReplayScoresAlike, Over
<1> QED BY <1>1, <1>2

(* The training set has of a token what the entry model was given of it, but *)
(* for what changed or landed since, and names as dead only a token with no  *)
(* later trade in the tables (build_dataset.py, feature_hydration.py).       *)
THEOREM TrainedAsServed == FeaturesSpec => []ServedAsTrained
<1>1. FeaturesInit => FeaturesInv
  BY FeaturesStart
<1>2. FeaturesInv /\ [FeaturesNext]_featureVars => FeaturesInv'
  BY FeaturesSteps
<1>3. FeaturesInv => ServedAsTrained
  BY AlikeFromInv
<1> QED BY <1>1, <1>2, <1>3, PTL DEF FeaturesSpec

(* ------------------- types of the features ------------------------------ *)
(* A queued token waits no longer than the bound.                            *)
FeaturesTyped == FeaturesTypeOK /\ (phase = "queued" => moment <= MaxBegin)

LEMMA FeaturesStartTyped == FeaturesInit \/ FeaturesOff => FeaturesTyped
<1> SUFFICES ASSUME FeaturesInit \/ FeaturesOff PROVE FeaturesTyped
  OBVIOUS
<1>1. /\ phase \in {"off", "queued"} /\ moment = 0 /\ begun = 0 /\ received = <<>>
      /\ after = <<>> /\ landed = {} /\ at30 = Unknown /\ scoring = NotScored
  BY DEF FeaturesInit, FeaturesOff
<1>2. ToSet(received) \cup ToSet(after) = {}
  BY <1>1 DEF ToSet
<1>3. 0 \in 0..LastMoment /\ 0 \in 0..MaxBegin
  BY FeaturesAssumption
<1> QED BY <1>1, <1>2, <1>3 DEF FeaturesTyped, FeaturesTypeOK, NotScored

LEMMA FeaturesKeepTypes ==
  ASSUME FeaturesInv, FeaturesTyped, [FeaturesNext]_featureVars
  PROVE  FeaturesTyped'
<1>0. /\ LastMoment \in Nat /\ MaxBegin \in Nat /\ moment \in 0..LastMoment
      /\ begun \in 0..MaxBegin
  BY FeaturesAssumption DEF FeaturesTyped, FeaturesTypeOK
<1>1. CASE Watch
  <2>1. moment \in 0..MaxBegin
    BY <1>0, <1>1 DEF Watch, FeaturesTyped
  <2> QED BY <1>1, <2>1 DEF Watch, FeaturesTyped, FeaturesTypeOK
<1>2. CASE Passes
  <2>1. moment' = moment + 1 /\ moment < LastMoment /\ (phase = "queued" => moment < MaxBegin)
    BY <1>2 DEF Passes
  <2>2. moment' \in 0..LastMoment /\ (phase = "queued" => moment' <= MaxBegin)
    BY <1>0, <2>1
  <2> QED BY <1>2, <2>2 DEF Passes, FeaturesTyped, FeaturesTypeOK
<1>3. CASE Receive
  <2>1. PICK i \in DOMAIN flow :
          IF phase = "observing"
          THEN received' = Append(received, flow[i]) /\ UNCHANGED after
          ELSE after' = Append(after, flow[i]) /\ UNCHANGED received
    BY <1>3 DEF Receive
  <2>2. flow[i] \in ToSet(flow)
    BY DEF ToSet
  <2>3. flow[i] \in Traded /\ received \in Seq(Traded) /\ after \in Seq(Traded)
    BY DEF FeaturesInv
  <2>4. /\ ToSet(Append(received, flow[i])) = ToSet(received) \cup {flow[i]}
        /\ ToSet(Append(after, flow[i])) = ToSet(after) \cup {flow[i]}
    BY <2>3, AppendAdds
  <2>5. ToSet(received') \cup ToSet(after') \subseteq ToSet(flow)
    BY <2>1, <2>2, <2>4 DEF FeaturesTyped, FeaturesTypeOK
  <2> QED BY <1>3, <2>5 DEF Receive, FeaturesTyped, FeaturesTypeOK
<1>4. CASE CaptureHolders
  BY <1>4 DEF CaptureHolders, FeaturesTyped, FeaturesTypeOK
<1>5. CASE AskAt30
  <2>1. Len(received) \in Nat
    BY DEF FeaturesInv
  <2> QED BY <1>5, <2>1 DEF AskAt30, FeaturesTyped, FeaturesTypeOK
<1>6. CASE ScoreToken
  <2>1. scoring'.at = moment
    BY <1>6 DEF ScoreToken
  <2> QED BY <1>0, <1>6, <2>1 DEF ScoreToken, FeaturesTyped, FeaturesTypeOK
<1>7. CASE TradeElsewhere
  BY <1>7 DEF TradeElsewhere, FeaturesTyped, FeaturesTypeOK
<1>8. CASE Reclassify
  BY <1>8 DEF Reclassify, FeaturesTyped, FeaturesTypeOK
<1>9. CASE UNCHANGED featureVars
  BY <1>9 DEF featureVars, FeaturesTyped, FeaturesTypeOK
<1> QED BY <1>1, <1>2, <1>3, <1>4, <1>5, <1>6, <1>7, <1>8, <1>9 DEF FeaturesNext
=============================================================================
