--------------------------- MODULE ModelLifecycle ---------------------------
(***************************************************************************)
(* The model artifacts: a trainer fits a model, judges it, and overwrites   *)
(* first <role>.ubj and then <role>.meta.json, while a bot may be loading   *)
(* the same two files and asking the meta file whether the model may act.   *)
(* The trainer may die between any two writes.  The n-th model trained is   *)
(* generation n; a file holds a generation, Absent or Torn.                 *)
(***************************************************************************)
EXTENDS Integers, FiniteSets

CONSTANTS
  Deployments,  (* what a bot may be set up with: as env below             *)
  Fits,         (* what a training may come to                             *)
  MinSkill,     (* bar of AUC, rank correlation or coverage                *)
  Tolerance,    (* largest drop of the AUC, largest shift of the median    *)
  MaxTrainings  (* bound: trainings                                        *)

(* Exit, survival and timing models are loaded without asking for their     *)
(* skill.                                                                   *)
Heads == {"quantile", "hold"}   (* of the exit: stop and target, hold time *)
Roles == {"entry", "reg", "t30", "survival", "timing", "exit"} \cup Heads
Gated == {"entry", "reg", "t30"} \cup Heads
BackedUp == {"entry", "survival"}

Absent == 0
Torn == -1
NaN == -1   (* AUC of a test set without positives: no comparison holds     *)

ASSUME ModelLifecycleAssumption ==
  /\ Deployments \subseteq [roles : SUBSET Roles, forced : BOOLEAN,
                      override : BOOLEAN]
  /\ MinSkill \in Nat /\ Tolerance \in Nat /\ MaxTrainings \in Nat
  /\ Fits \subseteq [skill : Nat \cup {NaN}, median : Nat, ev : BOOLEAN,
                     ranks : BOOLEAN, wide : BOOLEAN]

VARIABLES
  judged,   (* generation -> the meta written for it                       *)
  disk,     (* role -> the two files                                       *)
  prev,     (* role -> their .prev copies                                  *)
  trainer,  (* the training under way                                      *)
  unpaired, (* history: generations a failure parted from their meta       *)
  load,     (* the load under way in the bot                               *)
  used,     (* role -> what the bot has loaded                             *)
  env       (* the models this bot is set up with, whether it may load     *)
            (* degenerate ones, whether its config overrides thresholds    *)

files == <<judged, disk, prev, trainer, unpaired>>
modelVars == <<files, load, used, env>>

NoFiles == [model |-> Absent, meta |-> Absent]
NoTraining == [pc |-> "idle", role |-> "", gen |-> 0]
NoLoad == [pc |-> "idle", role |-> "", model |-> Absent, meta |-> Absent,
           raced |-> FALSE]
Unloaded == [state |-> "unloaded", model |-> Absent, meta |-> Absent,
             raced |-> FALSE]

ModelInit ==
  /\ judged = << >>
  /\ disk = [r \in Roles |-> NoFiles] /\ prev = [r \in Roles |-> NoFiles]
  /\ trainer = NoTraining /\ unpaired = {}
  /\ load = NoLoad
  /\ used = [r \in Roles |-> Unloaded]
  /\ env \in Deployments

ModelOff ==
  /\ judged = << >> /\ disk = << >> /\ prev = << >>
  /\ trainer = [NoTraining EXCEPT !.pc = "off"] /\ unpaired = {}
  /\ load = [NoLoad EXCEPT !.pc = "off"] /\ used = << >> /\ env = << >>

(* ------------------- judging ------------------------------------------- *)
(* The search for a floor and a ceiling: by expected value, else by         *)
(* quintiles if these rank, else none.                                      *)
SearchThresholds(fit) == CASE fit.ev -> "ok"
                           [] ~fit.ev /\ fit.ranks -> "ok_percentile_fallback"
                           [] OTHER -> "degenerate_flat"

(* The health of a new entry model, compared with the meta it replaces,     *)
(* whatever that one's own verdict was; the most severe finding counts.     *)
EntryHealth(fit, old) ==
  CASE SearchThresholds(fit) = "degenerate_flat" -> "degenerate"
    [] SearchThresholds(fit) # "degenerate_flat" /\ ~fit.wide ->
         "narrow_proba_spread"
    [] /\ SearchThresholds(fit) # "degenerate_flat" /\ fit.wide
       /\ old # {} /\ fit.skill # NaN
       /\ \E o \in old : o.skill # NaN /\ fit.skill < o.skill - Tolerance ->
         "auc_regression"
    [] /\ SearchThresholds(fit) # "degenerate_flat" /\ fit.wide
       /\ ~ \E o \in old : /\ fit.skill # NaN /\ o.skill # NaN
                           /\ fit.skill < o.skill - Tolerance
       /\ \E o \in old : \/ fit.median > o.median + Tolerance
                         \/ fit.median < o.median - Tolerance ->
         "calibration_drift"
    [] OTHER -> "ok"

(* assess_skill: an explicit verdict decides, else the metric of the kind.  *)
AssessSkill(meta) == IF meta.health # "none" THEN meta.health = "ok"
                     ELSE meta.skill >= MinSkill

(* ------------------- the trainer --------------------------------------- *)
Writing(r) == trainer.role = r /\ trainer.pc \in {"saved", "torn"}
NoteRace(r) == load' = IF load.role = r THEN [load EXCEPT !.raced = TRUE] ELSE load

(* A trainer fits a model and settles what its meta will say of it.         *)
Fitted(r, fit, health) ==
  LET g == Cardinality(DOMAIN judged) + 1
  IN /\ trainer.pc = "idle" /\ r \in env.roles /\ g <= MaxTrainings
     /\ judged' = [x \in DOMAIN judged \cup {g} |-> IF x = g
          THEN [skill |-> fit.skill, median |-> fit.median, health |-> health]
          ELSE judged[x]]
     /\ trainer' = [pc |-> "judged", role |-> r, gen |-> g]
     /\ UNCHANGED <<disk, prev, unpaired, load, used, env>>

OldMeta(r) == IF disk[r].meta \in {Absent, Torn} THEN {}
              ELSE {judged[disk[r].meta]}

(* train_entry searches thresholds and judges before it saves.              *)
TrainEntry ==
  \E fit \in Fits : Fitted("entry", fit, EntryHealth(fit, OldMeta("entry")))

(* The T+30 and the exit trainer leave the judging to whoever reads the     *)
(* AUC, the others write the verdict of assess_skill.                       *)
TrainEntryT30 == \E fit \in Fits : Fitted("t30", fit, "none")
TrainExit     == \E fit \in Fits : Fitted("exit", fit, "none")

Verdict(fit) == IF AssessSkill([skill |-> fit.skill, health |-> "none"])
                THEN "ok" ELSE "degenerate"

(* A hold time has to rank, whatever its coverage; one that ranks the wrong *)
(* way round is judged alike.                                               *)
HoldVerdict(fit) == IF fit.skill >= MinSkill THEN "ok" ELSE "weak_signal"

TrainEntryRegression == \E fit \in Fits : Fitted("reg", fit, Verdict(fit))
TrainExitQuantile    == \E fit \in Fits : Fitted("quantile", fit, Verdict(fit))
TrainMaxHold         == \E fit \in Fits : Fitted("hold", fit, HoldVerdict(fit))
TrainSurvivalModel   == \E fit \in Fits : Fitted("survival", fit, Verdict(fit))
TrainEntryTiming     == \E fit \in Fits : Fitted("timing", fit, Verdict(fit))

(* The old files are copied to .prev, where there are any; an error of the   *)
(* copying is noted and ignored.                                            *)
Snapshot ==
  /\ trainer.pc = "judged" /\ trainer.role \in BackedUp
  /\ LET r == trainer.role
         d == disk[r]
         partly == [prev[r] EXCEPT !.model = d.model]
         whole == IF d.meta = Absent THEN partly ELSE d
     IN IF d.model = Absent THEN UNCHANGED <<prev, unpaired>>
        ELSE \/ prev' = [prev EXCEPT ![r] = whole] /\ UNCHANGED unpaired
             \/ UNCHANGED <<prev, unpaired>>
             \/ /\ prev' = [prev EXCEPT ![r] = partly]
                /\ unpaired' = unpaired \cup {d.model}
  /\ trainer' = [trainer EXCEPT !.pc = "copied"]
  /\ UNCHANGED <<judged, disk, load, used, env>>

SaveModel ==
  /\ \/ trainer.pc = "judged" /\ trainer.role \notin BackedUp
     \/ trainer.pc = "copied"
  /\ disk' = [disk EXCEPT ![trainer.role].model = trainer.gen]
  /\ trainer' = [trainer EXCEPT !.pc = "saved"]
  /\ NoteRace(trainer.role)
  /\ UNCHANGED <<judged, prev, unpaired, used, env>>

(* write_text truncates the file and then fills it.                         *)
OpenMeta ==
  /\ trainer.pc = "saved"
  /\ disk' = [disk EXCEPT ![trainer.role].meta = Torn]
  /\ trainer' = [trainer EXCEPT !.pc = "torn"]
  /\ NoteRace(trainer.role)
  /\ UNCHANGED <<judged, prev, unpaired, used, env>>

WriteMeta ==
  /\ trainer.pc = "torn"
  /\ disk' = [disk EXCEPT ![trainer.role].meta = trainer.gen]
  /\ trainer' = NoTraining
  /\ NoteRace(trainer.role)
  /\ UNCHANGED <<judged, prev, unpaired, used, env>>

TrainerDies ==
  /\ trainer.pc \in {"judged", "copied", "saved", "torn"}
  /\ unpaired' = IF Writing(trainer.role) THEN unpaired \cup {trainer.gen}
                 ELSE unpaired
  /\ trainer' = NoTraining
  /\ UNCHANGED <<judged, disk, prev, load, used, env>>

(* The operator moves the .prev files back, as the comments of train.py say. *)
RollBack ==
  /\ trainer.pc = "idle"
  /\ \E r \in BackedUp :
       /\ prev[r].model # Absent
       /\ disk' = [disk EXCEPT ![r] = [model |-> prev[r].model, meta |->
                     IF prev[r].meta = Absent THEN @.meta ELSE prev[r].meta]]
       /\ prev' = [prev EXCEPT ![r] = NoFiles]
       /\ NoteRace(r)
  /\ UNCHANGED <<judged, trainer, unpaired, used, env>>

(* ------------------- the bot ------------------------------------------- *)
Ends(r, u) == used' = [used EXCEPT ![r] = u] /\ load' = NoLoad
Dropped == [Unloaded EXCEPT !.state = "none"]
Loaded(state) == [state |-> state, model |-> load.model, meta |-> load.meta,
                  raced |-> load.raced]

(* A load begins: entry and T+30 models once per process, the exit models   *)
(* with each position, survival with the first tick, the timing model with  *)
(* each question.  A regression head is wanted only beside an entry model.  *)
StartLoad ==
  /\ load.pc = "idle"
  /\ \E r \in env.roles :
       /\ r \in Heads \cup {"timing", "exit"} \/ used[r].state = "unloaded"
       /\ r = "reg" => used["entry"].state \in {"acts", "inert"}
       /\ IF disk[r].model = Absent THEN Ends(r, Dropped)
          ELSE /\ load' = [NoLoad EXCEPT !.pc = "meta", !.role = r,
                                         !.raced = Writing(r)]
               /\ UNCHANGED used
  /\ UNCHANGED <<files, env>>

(* The first look at the meta file.  A torn one ends every load but that of *)
(* the regression head, whose gate takes it for "unmeasured"; a missing one *)
(* ends the loads that need its fields.                                     *)
ReadMeta ==
  /\ load.pc = "meta"
  /\ LET r == load.role
         m == disk[r].meta
     IN IF \/ m = Torn /\ r # "reg"
           \/ m = Absent /\ r \in Heads \cup {"survival", "timing"}
           \/ r = "reg" /\ m \notin {Torn, Absent} /\ ~AssessSkill(judged[m])
                        /\ ~env.forced
        THEN Ends(r, Dropped)
        ELSE load' = [load EXCEPT !.pc = "model", !.meta = m] /\ UNCHANGED used
  /\ UNCHANGED <<files, env>>

ReadModel ==
  /\ load.pc = "model"
  /\ IF load.role = "reg" /\ disk[load.role].meta = Torn
     THEN Ends(load.role, Dropped)
     ELSE /\ load' = [load EXCEPT !.pc = "gate", !.model = disk[load.role].model]
          /\ UNCHANGED used
  /\ UNCHANGED <<files, env>>

(* Fault: the config's thresholds replace those of an inert model.           *)
ThresholdsOverridden(inert) == IF env.override THEN "config" ELSE
                               IF inert THEN "inert" ELSE "meta"

(* The thresholds of an entry model: the config overrides those of the meta *)
(* file, and the gate has the final word.                                   *)
Thresholds(inert) == IF inert THEN "inert" ELSE
                     IF env.override THEN "config" ELSE "meta"

GateEntry ==
  /\ load.pc = "gate" /\ load.role = "entry"
  /\ LET m == disk["entry"].meta
         inert == m # Absent /\ ~AssessSkill(judged[m]) /\ ~env.forced
     IN IF m = Torn THEN Ends("entry", Dropped)
        ELSE Ends("entry", [Loaded(IF Thresholds(inert) = "inert" THEN "inert"
                                   ELSE "acts") EXCEPT !.meta = m])
  /\ UNCHANGED <<files, env>>

(* _skill_gate of T+30 and quantile models: who cannot read the verdict      *)
(* lets the model act.                                                      *)
GateOther ==
  /\ load.pc = "gate" /\ load.role \in {"t30"} \cup Heads
  /\ LET m == disk[load.role].meta
     IN IF m \notin {Torn, Absent} /\ ~AssessSkill(judged[m])
        THEN Ends(load.role, Dropped)
        ELSE Ends(load.role, [Loaded("acts") EXCEPT !.meta = m])
  /\ UNCHANGED <<files, env>>

(* The regression head was gated before; the others are not.                *)
Ungated ==
  /\ load.pc = "gate" /\ load.role \in {"reg", "survival", "timing", "exit"}
  /\ Ends(load.role, Loaded("acts"))
  /\ UNCHANGED <<files, env>>

Restart ==
  /\ load.pc # "off"
  /\ \E r \in Roles : used[r] # Unloaded
  /\ used' = [r \in Roles |-> Unloaded] /\ load' = NoLoad
  /\ UNCHANGED <<files, env>>

Trainer == \/ TrainEntry \/ TrainEntryT30 \/ TrainEntryRegression
           \/ TrainExit \/ TrainExitQuantile \/ TrainMaxHold
           \/ TrainSurvivalModel \/ TrainEntryTiming
           \/ Snapshot \/ SaveModel \/ OpenMeta \/ WriteMeta
Loader == \/ StartLoad \/ ReadMeta \/ ReadModel
          \/ GateEntry \/ GateOther \/ Ungated
ModelNext == Trainer \/ Loader \/ TrainerDies \/ RollBack \/ Restart

ModelTypeOK ==
  /\ \A g \in DOMAIN judged : judged[g].health \in {"none", "ok", "degenerate",
       "narrow_proba_spread", "auc_regression", "calibration_drift",
       "weak_signal"}
  /\ \A r \in DOMAIN disk : {disk[r].model, disk[r].meta, prev[r].model,
       prev[r].meta} \subseteq {Absent, Torn} \cup DOMAIN judged
  /\ unpaired \subseteq DOMAIN judged
  /\ \A r \in DOMAIN used :
       used[r].state \in {"unloaded", "none", "inert", "acts"}

(* A gated model acts only on the verdict of its own training, and only if  *)
(* that accepted it or the operator forced it, unless the load overlapped   *)
(* the writing of these files or a failure had parted them before           *)
(* (policy/_main.py _skill_gate and from_path, train.py save order).        *)
GateJudgesItsModel ==
  \A r \in DOMAIN used : r \in Gated /\ used[r].state = "acts" =>
    IF used[r].meta = used[r].model
    THEN \/ AssessSkill(judged[used[r].model])
         \/ env.forced /\ r \in {"entry", "reg"}
    ELSE used[r].raced \/ used[r].model \in unpaired
=============================================================================
