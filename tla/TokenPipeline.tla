---------------------------- MODULE TokenPipeline ----------------------------
(***************************************************************************)
(* Pipeline._handle_token for one new token: the trades of its observation  *)
(* window are collected while a checkpoint task may cut the window short;   *)
(* then the token is scored, every config decides for itself, and the       *)
(* configs that enter get a supervisor if they have a slot.  Between two    *)
(* configs' lookups the indexer may classify more wallets.                   *)
(*                                                                          *)
(* Ages count checkpoint periods (15 s) since the token was created.        *)
(***************************************************************************)
EXTENDS EntryDecision

CONSTANTS
  Window,       (* observe_seconds                                         *)
  FastAge,      (* fast_observe_seconds                                    *)
  Wallets,
  Classified,   (* what a lookup of wallet_classifications may find        *)
  Modes,        (* the ways the process may be set up                      *)
  Models,       (* outcomes of the entry model, one of them NoModel        *)
  MaxWait,      (* bound: how long a token waits for the semaphore         *)
  MaxTrades     (* bound: trades of the token                              *)

T30Age == 2

NoModel == [action |-> "N/A", raw |-> 0, cal |-> 0, forecast |-> NoForecast]

ASSUME TokenPipelineAssumption ==
  /\ Window \in Nat /\ T30Age < Window /\ FastAge \in 0..Window
  /\ MinBuyer >= 1 /\ MaxFastScore \in Int
  /\ MaxWait \in Nat /\ MaxTrades \in Nat
  /\ NoModel \in Models
  /\ \A m \in Models : /\ m.cal \in Int
                       /\ \/ m.forecast = NoForecast
                          \/ \E pct \in m.forecast : pct \in Int /\ m.forecast = {pct}
  /\ Modes \subseteq [t30 : {"off", "shadow", "skip", "live"},
                      timing : {"off", "shadow", "skip", "live"},
                      replay : BOOLEAN, collectorOnly : BOOLEAN,
                      simGate : BOOLEAN]

VARIABLES
  stage,      (* where the handler is                                      *)
  mode,       (* the switches of the process, and whether it replays       *)
  age,        (* age of the token                                          *)
  deadline,   (* age at which the stream of trades ends                    *)
  collected,  (* trades in the order they came                             *)
  checkpoint, (* the checkpoint task and the state it shares               *)
  scored,     (* what scoring and the model said, and what is decided      *)
  decision,   (* config -> its EntryDecision, once it has one              *)
  entered,    (* config -> the decision its supervisor was spawned with    *)
  stream      (* who holds the subscription to the token's trades          *)

task == <<checkpoint, mode>>
pipelineVars == <<stage, age, deadline, collected, task, scored,
                  decision, entered, stream>>

Stages == {"off", "queued", "observing", "scoring", "deciding", "spawning",
           "done", "failed"}

NoScore == [base |-> Skip, ml |-> NoModel, priced |-> FALSE]

PipelineInit ==
  /\ stage = "queued"
  /\ mode \in Modes
  /\ age = 0
  /\ deadline = 0
  /\ collected = <<>>
  /\ checkpoint = [pc |-> "off", offset |-> 1, verdict |-> "none",
                   source |-> "checkpoint"]
  /\ scored = NoScore
  /\ decision = << >>
  /\ entered = << >>
  /\ stream = "none"

(* The process does another job: nothing of this component moves.           *)
PipelineOff ==
  /\ stage = "off"
  /\ mode = << >> /\ age = 0 /\ deadline = 0 /\ collected = <<>>
  /\ checkpoint = [pc |-> "off", offset |-> 1, verdict |-> "none",
                   source |-> "checkpoint"]
  /\ scored = NoScore /\ decision = << >>
  /\ entered = << >> /\ stream = "none"

(* A switch other than "off" loads its model and has the task started.      *)
Watched == ~mode.replay /\ (mode.t30 # "off" \/ mode.timing # "off")

(* The handler got the semaphore, perhaps late, and the feed is funded.     *)
Observe ==
  /\ stage = "queued"
  /\ stage' = "observing"
  /\ stream' = "handler"
  /\ deadline' = age + Window
  /\ checkpoint' = [checkpoint EXCEPT !.pc = IF Watched THEN "sleep" ELSE "off"]
  /\ UNCHANGED <<age, collected, mode, scored, decision, entered>>

(* The feed is not funded: the token is not handled.                        *)
Decline ==
  /\ stage = "queued" /\ ~mode.replay
  /\ stage' = "done"
  /\ UNCHANGED <<age, deadline, collected, task, scored, decision, entered,
                 stream>>

StopTask == [checkpoint EXCEPT !.pc = "off"]

(* A trade arrives, at most one period after it was made.  The first one    *)
(* after a verdict ends the collection and cancels the task.                *)
Collect ==
  /\ stage = "observing" /\ Len(collected) < MaxTrades
  /\ \E t \in [at : {age} \cup ({age - 1} \cap Nat), wallet : Wallets,
               side : {"buy", "sell"}] :
       collected' = Append(collected, t)
  /\ IF checkpoint.verdict = "none"
     THEN UNCHANGED <<stage, checkpoint>>
     ELSE stage' = "scoring" /\ checkpoint' = StopTask
  /\ UNCHANGED <<age, deadline, mode, scored, decision, entered, stream>>

(* Fault: the checkpoint task outlives the collection.                       *)
EndOfStreamAlone ==
  /\ stage = "observing"
  /\ age >= deadline \/ mode.replay
  /\ stage' = "scoring"
  /\ UNCHANGED <<age, deadline, collected, task, scored, decision, entered,
                 stream>>

(* The stream ends at its deadline, or with the source.                     *)
EndOfStream ==
  /\ stage = "observing"
  /\ age >= deadline \/ mode.replay
  /\ stage' = "scoring"
  /\ checkpoint' = StopTask
  /\ UNCHANGED <<age, deadline, collected, mode, scored, decision, entered,
                 stream>>

Pass ==
  /\ \/ stage = "queued" /\ age < MaxWait
     \/ stage = "observing" /\ age < deadline
  /\ age' = age + 1
  /\ UNCHANGED <<stage, deadline, collected, task, scored, decision, entered,
                 stream>>

(* ------------------- the checkpoint task ------------------------------- *)
NextOffset == [checkpoint EXCEPT !.offset = @ + 1,
                 !.pc = IF checkpoint.offset + 1 < Window THEN "sleep" ELSE "off"]

(* The verdict of a model under a switch: "live" takes a sure buy or skip,  *)
(* "skip" a sure skip only.                                                 *)
Verdicts(switch) == CASE switch = "live" -> {"none", "BUY_EARLY", "SKIP_EARLY"}
                      [] switch = "skip" -> {"none", "SKIP_EARLY"}
                      [] OTHER -> {"none"}

(* What the two models may say under their switches; a failed prediction or  *)
(* an unsure one says nothing.                                              *)
T30Verdicts == Verdicts(mode.t30)
TimingVerdicts == Verdicts(mode.timing)

Give(verdict, source) ==
  [checkpoint EXCEPT !.verdict = verdict, !.source = source, !.pc = "off"]

(* At T+30 its model is asked first, after up to five looks for the holder   *)
(* snapshot; the timing model is asked at every offset.                     *)
Wake ==
  /\ checkpoint.pc = "sleep" /\ age >= checkpoint.offset
  /\ checkpoint' = [checkpoint EXCEPT !.pc =
       IF checkpoint.offset = T30Age /\ mode.t30 # "off" THEN "t30" ELSE "timing"]
  /\ UNCHANGED <<stage, age, deadline, collected, mode, scored, decision,
                 entered, stream>>

AnswerT30 ==
  /\ checkpoint.pc = "t30"
  /\ \E v \in T30Verdicts :
       checkpoint' = IF v # "none"
                     THEN Give(v, IF mode.t30 = "live" THEN "t30" ELSE "t30_skip")
                     ELSE [checkpoint EXCEPT !.pc = "timing", !.source =
                             IF mode.t30 = "live" THEN "t30" ELSE @]
  /\ UNCHANGED <<stage, age, deadline, collected, mode, scored, decision,
                 entered, stream>>

AskTiming ==
  /\ checkpoint.pc = "timing"
  /\ \E v \in TimingVerdicts :
       checkpoint' = IF v # "none"
                     THEN Give(v, IF mode.timing = "live" THEN "timing"
                                  ELSE "timing_skip")
                     ELSE [NextOffset EXCEPT !.source =
                             IF mode.timing = "live" THEN "timing" ELSE @]
  /\ UNCHANGED <<stage, age, deadline, collected, mode, scored, decision,
                 entered, stream>>

(* A crash of the task leaves the handler on its way.                       *)
TaskCrash ==
  /\ checkpoint.pc # "off"
  /\ checkpoint' = StopTask
  /\ UNCHANGED <<stage, age, deadline, collected, mode, scored, decision,
                 entered, stream>>

(* ------------------- scoring and deciding ------------------------------ *)
UpTo(limit) == SelectSeq(collected, LAMBDA t : t.at <= limit)

(* The scorers look at the trades by their own time.  A token is priced by  *)
(* its last buy.  The creator's filter runs once, on the shared decision.   *)
Score ==
  /\ stage = "scoring"
  /\ \E fastBuy, fullBuy \in BOOLEAN, fastScore \in {0, MaxFastScore + 1},
        fullScore \in {-1, 0, 1}, ml \in Models :
       LET fastBuys == Len(Buys(UpTo(FastAge)))
           allBuys  == Len(Buys(UpTo(Window)))
       IN /\ fastBuy => UpTo(FastAge) # <<>>
          /\ fullBuy <=> fullScore = 1
          /\ scored' = [base |-> FilterCreatorBlacklist(DecideEntry(
                          [buy |-> fastBuy, buys |-> fastBuys,
                           score |-> fastScore],
                          [buy |-> fullBuy, buys |-> allBuys,
                           score |-> fullScore, priced |-> allBuys > 0])),
                        ml |-> ml, priced |-> allBuys > 0]
  /\ stage' = "deciding"
  /\ UNCHANGED <<age, deadline, collected, task, decision, entered, stream>>

(* The next config decides, on the classifications as they are by then; any *)
(* of its lookups may fail.                                                 *)
Decide ==
  /\ stage = "deciding"
  /\ \E c \in Configs \ DOMAIN decision, marks \in Classified,
        answered \in SUBSET Lookups :
       decision' = [x \in DOMAIN decision \cup {c} |-> IF x = c
                      THEN DecideFor(c, marks, UpTo(Window), answered, scored.ml,
                                     checkpoint, scored.base)
                      ELSE decision[x]]
  /\ stage' = IF DOMAIN decision' = Configs THEN "spawning" ELSE stage
  /\ UNCHANGED <<age, deadline, collected, task, scored, entered, stream>>

(* The gates bind every config; the simulation of the buy may refuse too.   *)
GateOpen(simulated) ==
  /\ ~mode.collectorOnly
  /\ scored.priced
  /\ mode.simGate => simulated

(* Fault: a token nobody enters is forgotten.                                *)
HandedToNobody(going) == IF going # {} THEN "supervisors" ELSE stream

HandedTo(going) == CASE going # {} -> "supervisors"
                     [] going = {} /\ ~mode.replay -> "extended"
                     [] OTHER -> "none"

(* Every config that wants to and has a slot (PaperTrade counts them) gets   *)
(* a supervisor, which then holds the subscription.  A token nobody enters  *)
(* is watched on, or left.                                                  *)
Spawn ==
  /\ stage = "spawning"
  /\ \E simulated \in BOOLEAN, full \in SUBSET Configs :
       LET going == {c \in Configs \ full : GateOpen(simulated)
                                           /\ decision[c].enter}
       IN /\ entered' = [c \in going |-> decision[c]]
          /\ stream' = HandedTo(going)
  /\ stage' = "done"
  /\ UNCHANGED <<age, deadline, collected, task, scored, decision>>

(* The extended observation runs out, or its token falls silent.            *)
EndExtended ==
  /\ stream = "extended"
  /\ stream' = "none"
  /\ UNCHANGED <<stage, age, deadline, collected, task, scored, decision,
                 entered>>

(* An error anywhere in the handler: it logs and unsubscribes.              *)
HandlerError ==
  /\ stage \in {"observing", "scoring", "deciding", "spawning"}
  /\ stage' = "failed"
  /\ checkpoint' = StopTask
  /\ stream' = "none"
  /\ UNCHANGED <<age, deadline, collected, mode, scored, decision, entered>>

CheckpointTask == Wake \/ AnswerT30 \/ AskTiming \/ TaskCrash
Handler == Observe \/ Collect \/ EndOfStream \/ Score \/ Decide \/ Spawn

PipelineNext == \/ Handler \/ Decline \/ HandlerError
                \/ CheckpointTask
                \/ Pass \/ EndExtended

(* The event loop runs a task that is ready, and time goes on.              *)
Advance == \/ Observe \/ EndOfStream \/ Score \/ Decide \/ Spawn
           \/ Pass \/ EndExtended

PipelineFair == WF_pipelineVars(Advance)

EntryTypes == {"fast", "full", "ml_override", "t30", "timing"}
Decisions == [enter : BOOLEAN, type : EntryTypes \cup {""}, score : Int,
              buyer : Nat]

PipelineTypeOK ==
  /\ stage \in Stages
  /\ deadline \in 0..MaxWait + Window /\ age \in 0..MaxWait + Window
  /\ Len(collected) <= MaxTrades
  /\ checkpoint.pc \in {"off", "sleep", "t30", "timing"}
  /\ scored.base \in Decisions /\ scored.ml \in Models
  /\ \A c \in DOMAIN decision : decision[c] \in Decisions
  /\ DOMAIN decision \subseteq Configs /\ DOMAIN entered \subseteq Configs
  /\ stream \in {"none", "handler", "supervisors", "extended"}

(* Whatever turned a skip into an entry also said what it enters: the       *)
(* position's row has a type and a buyer number, and a score of zero, the    *)
(* mark of a shadow row, only where the rules themselves gave it            *)
(* (decision_service.py, apply_ml_override and apply_checkpoint_override);  *)
(* and nobody enters a token that had no buy in its window, or in a process *)
(* that only collects, though the model or a checkpoint asked for it after  *)
(* the rules had looked at the price (pipeline.py, the quality gates).      *)
EntryDescribed ==
  \A c \in DOMAIN entered :
    /\ entered[c].enter /\ entered[c].type \in EntryTypes
    /\ entered[c].buyer >= 1
    /\ entered[c].score <= 0 => scored.base.enter
    /\ Buys(UpTo(Window)) # <<>>
    /\ ~mode.collectorOnly

(* The verdict of the observation window binds every config alike: all of   *)
(* them skip, or want to enter, whenever they decided (pipeline.py, the     *)
(* task is cancelled before the first config decides).                      *)
VerdictBinds ==
  \A c \in DOMAIN decision :
    /\ checkpoint.verdict = "SKIP_EARLY" => ~decision[c].enter
    /\ checkpoint.verdict = "BUY_EARLY" =>
         decision[c].enter /\ decision[c].type = checkpoint.source

(* Whatever the checkpoint task and the models do, the handler ends and the *)
(* subscription to the token is given back or held by supervisors           *)
(* (pipeline.py, _handle_token and _extended_observation).                  *)
StreamHandedOn == []<>(stream \in {"none", "supervisors"})
=============================================================================
