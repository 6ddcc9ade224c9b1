------------------------------ MODULE BotProofs ------------------------------
(***************************************************************************)
(* Proofs about the jobs that keep what the bot relies on: the files of the *)
(* models, the thresholds a model answers by, the table of wallet activity  *)
(* and the clusters of wallets; and what the proofs of every job say of the *)
(* process that does one of them.                                           *)
(***************************************************************************)
EXTENDS Bot, TokenProofs

(* ------------------- the models ---------------------------------------- *)
ModelSpec == ModelInit /\ [][ModelNext]_modelVars

(* The trainings so far, numbered from 1.                                   *)
Done == DOMAIN judged
ModelFile == {Absent} \cup Done
MetaFile == {Absent, Torn} \cup Done
Pairs == [model : ModelFile, meta : MetaFile]
Uses == [state : {"unloaded", "none", "inert", "acts"},
         model : ModelFile, meta : MetaFile, raced : BOOLEAN]
Loads == [pc : {"idle", "meta", "model", "gate"}, role : Roles \cup {""},
          model : ModelFile, meta : MetaFile, raced : BOOLEAN]
Trainings == [pc : {"idle", "judged", "copied", "saved", "torn"},
              role : Roles \cup {""}, gen : ModelFile]

(* A model file is never torn, and what is there when a load begins stays.   *)
LifecycleTypes ==
  /\ \E n \in Nat : Done = 1..n
  /\ disk \in [Roles -> Pairs] /\ prev \in [Roles -> Pairs]
  /\ trainer \in Trainings
  /\ trainer.pc # "idle" => trainer.role \in Roles /\ trainer.gen \in Done
  /\ unpaired \subseteq Done
  /\ load \in Loads
  /\ load.pc # "idle" => load.role \in Roles /\ disk[load.role].model # Absent
  /\ load.pc = "gate" => load.model # Absent
  /\ used \in [Roles -> Uses]
  /\ \A r \in Roles : used[r].state = "acts" => used[r].model # Absent
  /\ env \in Deployments

(* Two files belong together, or are being written, or a failure parted them.*)
Paired ==
  \A r \in Roles :
    /\ disk[r].model # Absent =>
         \/ disk[r].meta = disk[r].model \/ Writing(r) \/ disk[r].model \in unpaired
    /\ Writing(r) => disk[r].model = trainer.gen
    /\ prev[r].model # Absent =>
         prev[r].meta = prev[r].model \/ prev[r].model \in unpaired

(* A load that overlapped no writing has read what is still on the disk.     *)
Settled ==
  load.pc # "idle" /\ ~load.raced =>
    /\ ~Writing(load.role)
    /\ load.pc # "meta" => load.meta = disk[load.role].meta
    /\ load.pc = "gate" => load.model = disk[load.role].model

(* The regression head has passed its gate before its model is read.         *)
RegressionPassed ==
  load.role = "reg" /\ load.pc \in {"model", "gate"} =>
    \/ load.meta \in {Absent, Torn}
    \/ AssessSkill(judged[load.meta])
    \/ env.forced

LifecycleInv ==
  LifecycleTypes /\ Paired /\ Settled /\ RegressionPassed /\ GateJudgesItsModel

-----------------------------------------------------------------------------
LEMMA LifecycleInit == ModelInit => LifecycleInv
<1> SUFFICES ASSUME ModelInit PROVE LifecycleInv
  OBVIOUS
<1>1. Done = 1..0
  BY DEF ModelInit, Done
<1>2. LifecycleTypes
  <2>1. disk \in [Roles -> Pairs] /\ prev \in [Roles -> Pairs]
    BY DEF ModelInit, Pairs, ModelFile, MetaFile, NoFiles
  <2>2. used \in [Roles -> Uses] /\ \A r \in Roles : used[r].state # "acts"
    BY DEF ModelInit, Uses, ModelFile, MetaFile, Unloaded
  <2>3. trainer \in Trainings /\ trainer.pc = "idle"
    BY DEF ModelInit, Trainings, ModelFile, NoTraining, Absent
  <2>4. load \in Loads /\ load.pc = "idle"
    BY DEF ModelInit, Loads, ModelFile, MetaFile, NoLoad
  <2>5. unpaired \subseteq Done /\ env \in Deployments
    BY DEF ModelInit
  <2> QED BY <1>1, <2>1, <2>2, <2>3, <2>4, <2>5 DEF LifecycleTypes
<1>3. Paired /\ Settled /\ RegressionPassed /\ GateJudgesItsModel
  BY DEF ModelInit, Paired, Settled, RegressionPassed, GateJudgesItsModel,
     Writing, NoFiles, NoTraining, NoLoad, Unloaded
<1> QED BY <1>2, <1>3 DEF LifecycleInv

(* A new training takes the next number and changes no earlier verdict.      *)
LEMMA NextGeneration ==
  ASSUME LifecycleInv, NEW r \in Roles, NEW fit, NEW health, Fitted(r, fit, health)
  PROVE  LifecycleInv'
<1> DEFINE g == Cardinality(Done) + 1
<1>1. PICK n \in Nat : Done = 1..n
  BY DEF LifecycleInv, LifecycleTypes
<1>2. g = n + 1
  <2>1. Cardinality(1..n) = IF 1 > n THEN 0 ELSE n - 1 + 1
    BY FS_Interval
  <2>2. Cardinality(1..n) = n
    BY <2>1
  <2> QED BY <1>1, <2>2
<1>3. /\ Done' = 1..(n + 1) /\ Done' = Done \cup {g} /\ g \in Nat \ {0}
      /\ \A x \in Done : judged'[x] = judged[x]
      /\ trainer' = [pc |-> "judged", role |-> r, gen |-> g]
      /\ trainer.pc = "idle"
      /\ UNCHANGED <<disk, prev, unpaired, load, used, env>>
  BY <1>1, <1>2 DEF Fitted, Done
<1> HIDE DEF g
<1>4. ModelFile \subseteq ModelFile' /\ MetaFile \subseteq MetaFile'
  BY <1>3 DEF ModelFile, MetaFile
<1>5. Pairs \subseteq Pairs' /\ Uses \subseteq Uses' /\ Loads \subseteq Loads'
  BY <1>4 DEF Pairs, Uses, Loads
<1>6. LifecycleTypes'
  <2>1. disk' \in [Roles -> Pairs'] /\ prev' \in [Roles -> Pairs'] /\ used' \in [Roles -> Uses']
    BY <1>3, <1>5 DEF LifecycleInv, LifecycleTypes
  <2>2. trainer' \in Trainings'
    BY <1>3 DEF Trainings, ModelFile
  <2>3. load' \in Loads'
    BY <1>3, <1>5 DEF LifecycleInv, LifecycleTypes
  <2>4. \E k \in Nat : Done' = 1..k
    BY <1>3
  <2> QED BY <1>3, <2>1, <2>2, <2>3, <2>4 DEF LifecycleInv, LifecycleTypes
<1>7. Paired' /\ Settled'
  BY <1>3 DEF LifecycleInv, Paired, Settled, Writing
<1>8. RegressionPassed'
  <2>1. load.meta \in {Absent, Torn} \cup Done
    BY DEF LifecycleInv, LifecycleTypes, Loads, MetaFile
  <2> QED BY <1>3, <2>1 DEF LifecycleInv, RegressionPassed
<1>9. GateJudgesItsModel'
  <2>1. \A q \in Roles : used[q].state = "acts" => used[q].model \in Done
    BY DEF LifecycleInv, LifecycleTypes, Uses, ModelFile
  <2>2. DOMAIN used = Roles
    BY DEF LifecycleInv, LifecycleTypes
  <2> QED BY <1>3, <2>1, <2>2 DEF LifecycleInv, GateJudgesItsModel
<1> QED BY <1>6, <1>7, <1>8, <1>9 DEF LifecycleInv

(* What the writing of files leaves alone.                                   *)
LEMMA VerdictsStay ==
  ASSUME LifecycleInv, UNCHANGED <<judged, used, env>>, unpaired \subseteq unpaired'
  PROVE  GateJudgesItsModel'
BY DEF LifecycleInv, GateJudgesItsModel

LEMMA RaceNoted ==
  ASSUME LifecycleInv, NEW r \in Roles, NoteRace(r)
  PROVE  /\ load' \in Loads
         /\ load'.pc = load.pc /\ load'.role = load.role
         /\ load'.meta = load.meta /\ load'.model = load.model
         /\ load.role = r => load'.raced
         /\ load.role # r => load'.raced = load.raced
BY DEF NoteRace, LifecycleInv, LifecycleTypes, Loads

(* A step of whoever writes files: it notes the race, and no load changes.   *)
LEMMA WriterStep ==
  ASSUME LifecycleInv, NEW r \in Roles, NoteRace(r),
         UNCHANGED <<judged, used, env>>,
         unpaired \subseteq unpaired', unpaired' \subseteq Done,
         disk' \in [Roles -> Pairs], prev' \in [Roles -> Pairs],
         \A q \in Roles \ {r} : disk'[q] = disk[q] /\ (Writing(q)' => Writing(q)),
         disk'[r].model # Absent,
         trainer' \in Trainings,
         trainer'.pc # "idle" => trainer'.role \in Roles /\ trainer'.gen \in Done,
         Paired'
  PROVE  LifecycleInv'
<1>1. Done' = Done /\ ModelFile' = ModelFile /\ MetaFile' = MetaFile /\ Pairs' = Pairs
      /\ Uses' = Uses /\ Loads' = Loads /\ Trainings' = Trainings
  BY DEF Done, ModelFile, MetaFile, Pairs, Uses, Loads, Trainings
<1>2. LifecycleTypes'
  BY <1>1, RaceNoted DEF LifecycleInv, LifecycleTypes
<1>3. Settled'
  BY RaceNoted DEF LifecycleInv, LifecycleTypes, Settled
<1>4. RegressionPassed'
  BY RaceNoted DEF LifecycleInv, RegressionPassed
<1> QED BY <1>2, <1>3, <1>4, VerdictsStay DEF LifecycleInv

(* The .prev copies are those of one pair, or the copying failed half way.   *)
LEMMA SnapshotStep == LifecycleInv /\ Snapshot => LifecycleInv'
<1> SUFFICES ASSUME LifecycleInv, Snapshot PROVE LifecycleInv'
  OBVIOUS
<1> DEFINE r == trainer.role
<1>1. /\ trainer.pc = "judged" /\ r \in Roles
      /\ trainer \in Trainings /\ trainer' = [trainer EXCEPT !.pc = "copied"]
      /\ UNCHANGED <<judged, disk, load, used, env>>
  BY DEF Snapshot, LifecycleInv, LifecycleTypes
<1>2. disk[r] \in Pairs /\ prev[r] \in Pairs /\ prev \in [Roles -> Pairs]
  BY <1>1 DEF LifecycleInv, LifecycleTypes
<1>3. /\ unpaired \subseteq unpaired' /\ unpaired' \subseteq Done
      /\ prev' \in [Roles -> Pairs]
      /\ \A q \in Roles \ {r} : prev'[q] = prev[q]
      /\ prev'[r].model # Absent =>
           prev'[r].meta = prev'[r].model \/ prev'[r].model \in unpaired'
  <2>1. ~Writing(r) /\ unpaired \subseteq Done
    BY <1>1 DEF Writing, LifecycleInv, LifecycleTypes
  <2>2. disk[r].model # Absent => disk[r].meta = disk[r].model
                                  \/ disk[r].model \in unpaired
    BY <1>1, <2>1 DEF LifecycleInv, Paired
  <2>3. CASE UNCHANGED <<prev, unpaired>>
    BY <1>1, <1>2, <2>1, <2>3 DEF LifecycleInv, Paired
  <2>4. CASE /\ disk[r].model # Absent
             /\ prev' = [prev EXCEPT ![r] =
                  IF disk[r].meta = Absent
                  THEN [prev[r] EXCEPT !.model = disk[r].model] ELSE disk[r]]
             /\ UNCHANGED unpaired
    BY <1>1, <1>2, <2>1, <2>2, <2>4 DEF Pairs
  <2>5. CASE /\ disk[r].model # Absent
             /\ prev' = [prev EXCEPT ![r] = [prev[r] EXCEPT !.model = disk[r].model]]
             /\ unpaired' = unpaired \cup {disk[r].model}
    BY <1>1, <1>2, <2>1, <2>5 DEF Pairs, ModelFile
  <2> QED BY <2>3, <2>4, <2>5 DEF Snapshot
<1>4. /\ Done' = Done /\ ModelFile' = ModelFile /\ MetaFile' = MetaFile
      /\ Pairs' = Pairs /\ Uses' = Uses /\ Loads' = Loads /\ Trainings' = Trainings
  BY <1>1 DEF Done, ModelFile, MetaFile, Pairs, Uses, Loads, Trainings
<1>5. trainer' \in Trainings /\ trainer'.gen = trainer.gen /\ trainer'.role = r
      /\ trainer'.pc = "copied"
  BY <1>1 DEF Trainings
<1>6. LifecycleTypes'
  BY <1>1, <1>3, <1>4, <1>5 DEF LifecycleInv, LifecycleTypes
<1>7. \A q \in Roles : ~Writing(q)' /\ ~Writing(q)
  BY <1>1, <1>5 DEF Writing
<1>8. Paired'
  BY <1>1, <1>3, <1>7 DEF LifecycleInv, Paired
<1>9. Settled' /\ RegressionPassed'
  BY <1>1, <1>5 DEF LifecycleInv, Settled, RegressionPassed, Writing
<1> QED BY <1>1, <1>3, <1>6, <1>8, <1>9, VerdictsStay DEF LifecycleInv

LEMMA SaveModelStep == LifecycleInv /\ SaveModel => LifecycleInv'
<1> SUFFICES ASSUME LifecycleInv, SaveModel PROVE LifecycleInv'
  OBVIOUS
<1> DEFINE r == trainer.role
<1>1. /\ r \in Roles /\ trainer.gen \in Done /\ trainer \in Trainings
      /\ disk \in [Roles -> Pairs] /\ prev \in [Roles -> Pairs]
      /\ \A q \in Roles : ~Writing(q)
  BY DEF SaveModel, LifecycleInv, LifecycleTypes, Writing
<1>2. /\ disk' = [disk EXCEPT ![r] = [disk[r] EXCEPT !.model = trainer.gen]]
      /\ trainer' = [trainer EXCEPT !.pc = "saved"]
      /\ NoteRace(r) /\ UNCHANGED <<judged, prev, unpaired, used, env>>
  BY <1>1 DEF SaveModel
<1>3. /\ trainer' \in Trainings /\ trainer'.role = r /\ trainer'.pc = "saved"
      /\ trainer'.gen = trainer.gen
  BY <1>1, <1>2 DEF Trainings
<1>4. trainer.gen # Absent
  BY <1>1 DEF LifecycleInv, LifecycleTypes, Absent
<1>5. disk' \in [Roles -> Pairs] /\ disk'[r].model = trainer.gen
      /\ \A q \in Roles \ {r} : disk'[q] = disk[q]
  BY <1>1, <1>2 DEF Pairs, ModelFile
<1>6. \A q \in Roles \ {r} : ~Writing(q)'
  BY <1>3 DEF Writing
<1>7. Writing(r)'
  BY <1>3 DEF Writing
<1>8. Paired'
  BY <1>1, <1>2, <1>3, <1>5, <1>6, <1>7 DEF LifecycleInv, Paired
<1>9. unpaired' \subseteq Done
  BY <1>2 DEF LifecycleInv, LifecycleTypes
<1> QED BY <1>1, <1>2, <1>3, <1>4, <1>5, <1>6, <1>8, <1>9, WriterStep

LEMMA OpenMetaStep == LifecycleInv /\ OpenMeta => LifecycleInv'
<1> SUFFICES ASSUME LifecycleInv, OpenMeta PROVE LifecycleInv'
  OBVIOUS
<1> DEFINE r == trainer.role
<1>1. /\ r \in Roles /\ trainer.gen \in Done /\ trainer \in Trainings
      /\ disk \in [Roles -> Pairs] /\ prev \in [Roles -> Pairs]
      /\ Writing(r) /\ \A q \in Roles \ {r} : ~Writing(q)
  BY DEF OpenMeta, LifecycleInv, LifecycleTypes, Writing
<1>2. /\ disk' = [disk EXCEPT ![r] = [disk[r] EXCEPT !.meta = Torn]]
      /\ trainer' = [trainer EXCEPT !.pc = "torn"]
      /\ NoteRace(r) /\ UNCHANGED <<judged, prev, unpaired, used, env>>
  BY <1>1 DEF OpenMeta
<1>3. /\ trainer' \in Trainings /\ trainer'.role = r /\ trainer'.pc = "torn"
      /\ trainer'.gen = trainer.gen
  BY <1>1, <1>2 DEF Trainings
<1>4. trainer.gen # Absent /\ disk[r].model = trainer.gen
  BY <1>1 DEF LifecycleInv, LifecycleTypes, Paired, Absent
<1>5. disk' \in [Roles -> Pairs] /\ disk'[r].model = trainer.gen
      /\ \A q \in Roles \ {r} : disk'[q] = disk[q]
  BY <1>1, <1>2, <1>4 DEF Pairs, MetaFile
<1>6. \A q \in Roles \ {r} : ~Writing(q)'
  BY <1>3 DEF Writing
<1>7. Writing(r)'
  BY <1>3 DEF Writing
<1>8. Paired'
  BY <1>1, <1>2, <1>3, <1>5, <1>6, <1>7 DEF LifecycleInv, Paired
<1>9. unpaired' \subseteq Done
  BY <1>2 DEF LifecycleInv, LifecycleTypes
<1> QED BY <1>1, <1>2, <1>3, <1>4, <1>5, <1>6, <1>8, <1>9, WriterStep

LEMMA WriteMetaStep == LifecycleInv /\ WriteMeta => LifecycleInv'
<1> SUFFICES ASSUME LifecycleInv, WriteMeta PROVE LifecycleInv'
  OBVIOUS
<1> DEFINE r == trainer.role
<1>1. /\ r \in Roles /\ trainer.gen \in Done /\ trainer \in Trainings
      /\ disk \in [Roles -> Pairs] /\ prev \in [Roles -> Pairs]
      /\ Writing(r) /\ \A q \in Roles \ {r} : ~Writing(q)
  BY DEF WriteMeta, LifecycleInv, LifecycleTypes, Writing
<1>2. /\ disk' = [disk EXCEPT ![r] = [disk[r] EXCEPT !.meta = trainer.gen]]
      /\ trainer' = NoTraining
      /\ NoteRace(r) /\ UNCHANGED <<judged, prev, unpaired, used, env>>
  BY <1>1 DEF WriteMeta
<1>3. trainer' \in Trainings /\ trainer'.pc = "idle"
  BY <1>2 DEF Trainings, NoTraining, ModelFile, Absent
<1>4. trainer.gen # Absent /\ disk[r].model = trainer.gen
  BY <1>1 DEF LifecycleInv, LifecycleTypes, Paired, Absent
<1>5. /\ disk' \in [Roles -> Pairs]
      /\ disk'[r].model = trainer.gen /\ disk'[r].meta = trainer.gen
      /\ \A q \in Roles \ {r} : disk'[q] = disk[q]
  BY <1>1, <1>2, <1>4 DEF Pairs, MetaFile
<1>6. \A q \in Roles : ~Writing(q)'
  BY <1>3 DEF Writing
<1>8. Paired'
  BY <1>1, <1>2, <1>5, <1>6 DEF LifecycleInv, Paired
<1>9. unpaired' \subseteq Done
  BY <1>2 DEF LifecycleInv, LifecycleTypes
<1> QED BY <1>1, <1>2, <1>3, <1>4, <1>5, <1>6, <1>8, <1>9, WriterStep

LEMMA RollBackStep == LifecycleInv /\ RollBack => LifecycleInv'
<1> SUFFICES ASSUME LifecycleInv, RollBack PROVE LifecycleInv'
  OBVIOUS
<1>1. PICK r \in BackedUp :
        /\ prev[r].model # Absent
        /\ disk' = [disk EXCEPT ![r] = [model |-> prev[r].model, meta |->
                      IF prev[r].meta = Absent THEN @.meta ELSE prev[r].meta]]
        /\ prev' = [prev EXCEPT ![r] = NoFiles]
        /\ NoteRace(r)
  BY DEF RollBack
<1>2. /\ r \in Roles /\ trainer.pc = "idle"
      /\ disk \in [Roles -> Pairs] /\ prev \in [Roles -> Pairs]
      /\ trainer \in Trainings /\ unpaired \subseteq Done
      /\ UNCHANGED <<judged, trainer, unpaired, used, env>>
  BY DEF RollBack, LifecycleInv, LifecycleTypes, Roles, BackedUp
<1>3. \A q \in Roles : ~Writing(q) /\ ~Writing(q)'
  BY <1>2 DEF Writing
<1>4. /\ disk' \in [Roles -> Pairs] /\ disk'[r].model = prev[r].model
      /\ prev[r].meta # Absent => disk'[r].meta = prev[r].meta
      /\ \A q \in Roles \ {r} : disk'[q] = disk[q]
  BY <1>1, <1>2 DEF Pairs
<1>5. /\ prev' \in [Roles -> Pairs] /\ prev'[r].model = Absent
      /\ \A q \in Roles \ {r} : prev'[q] = prev[q]
  BY <1>1, <1>2 DEF Pairs, NoFiles, ModelFile, MetaFile
<1>6. Paired'
  BY <1>1, <1>2, <1>3, <1>4, <1>5 DEF LifecycleInv, Paired
<1> QED BY <1>1, <1>2, <1>3, <1>4, <1>5, <1>6, WriterStep

(* A trainer that dies while it writes parts its model from its meta.        *)
LEMMA TrainerDiesStep == LifecycleInv /\ TrainerDies => LifecycleInv'
<1> SUFFICES ASSUME LifecycleInv, TrainerDies PROVE LifecycleInv'
  OBVIOUS
<1>1. /\ trainer.pc # "idle" /\ trainer.gen \in Done
      /\ trainer' = NoTraining /\ UNCHANGED <<judged, disk, prev, load, used, env>>
      /\ unpaired \subseteq unpaired' /\ unpaired' \subseteq unpaired \cup {trainer.gen}
      /\ Writing(trainer.role) => trainer.gen \in unpaired'
  BY DEF TrainerDies, LifecycleInv, LifecycleTypes
<1>2. /\ Done' = Done /\ ModelFile' = ModelFile /\ MetaFile' = MetaFile
      /\ Pairs' = Pairs /\ Uses' = Uses /\ Loads' = Loads /\ Trainings' = Trainings
  BY <1>1 DEF Done, ModelFile, MetaFile, Pairs, Uses, Loads, Trainings
<1>3. trainer' \in Trainings /\ trainer'.pc = "idle"
  BY <1>1 DEF Trainings, NoTraining, ModelFile, Absent
<1>4. \A q \in Roles : ~Writing(q)'
  BY <1>3 DEF Writing
<1>5. \A q \in Roles : Writing(q) => q = trainer.role
  BY DEF Writing
<1>6. LifecycleTypes'
  BY <1>1, <1>2, <1>3 DEF LifecycleInv, LifecycleTypes
<1>7. Paired'
  BY <1>1, <1>4, <1>5 DEF LifecycleInv, Paired
<1>8. Settled' /\ RegressionPassed'
  BY <1>1, <1>3 DEF LifecycleInv, Settled, RegressionPassed, Writing
<1> QED BY <1>1, <1>6, <1>7, <1>8, VerdictsStay DEF LifecycleInv

-----------------------------------------------------------------------------
(* A step of the bot: whatever it uses now, it is judged, and no file changes.*)
LEMMA LoaderStep ==
  ASSUME LifecycleInv, UNCHANGED <<files, env>>,
         used' \in [Roles -> Uses],
         \A q \in Roles : used'[q].state = "acts" => used'[q].model # Absent,
         load' \in Loads,
         load'.pc # "idle" => load'.role \in Roles /\ disk[load'.role].model # Absent,
         load'.pc = "gate" => load'.model # Absent,
         Settled', RegressionPassed', GateJudgesItsModel'
  PROVE  LifecycleInv'
<1>1. /\ Done' = Done /\ ModelFile' = ModelFile /\ MetaFile' = MetaFile
      /\ Pairs' = Pairs /\ Uses' = Uses /\ Loads' = Loads /\ Trainings' = Trainings
  BY DEF files, Done, ModelFile, MetaFile, Pairs, Uses, Loads, Trainings
<1>2. LifecycleTypes'
  BY <1>1 DEF LifecycleInv, LifecycleTypes, files
<1>3. Paired'
  BY DEF LifecycleInv, Paired, files, Writing
<1> QED BY <1>2, <1>3 DEF LifecycleInv

(* A load that ends leaves its role with a use that is judged.               *)
LEMMA EndStep ==
  ASSUME LifecycleInv, UNCHANGED <<files, env>>, NEW r \in Roles, NEW u \in Uses,
         Ends(r, u), u.state = "acts" => u.model # Absent,
         r \in Gated /\ u.state = "acts" =>
           IF u.meta = u.model
           THEN \/ AssessSkill(judged[u.model])
                \/ env.forced /\ r \in {"entry", "reg"}
           ELSE u.raced \/ u.model \in unpaired
  PROVE  LifecycleInv'
<1>1. used \in [Roles -> Uses]
  BY DEF LifecycleInv, LifecycleTypes
<1>2. /\ used' \in [Roles -> Uses] /\ used'[r] = u
      /\ \A q \in Roles \ {r} : used'[q] = used[q]
      /\ load' = NoLoad
  BY <1>1 DEF Ends
<1>3. \A q \in Roles : used'[q].state = "acts" => used'[q].model # Absent
  BY <1>2 DEF LifecycleInv, LifecycleTypes
<1>4. load' \in Loads /\ load'.pc = "idle"
  BY <1>2 DEF NoLoad, Loads, ModelFile, MetaFile
<1>5. Settled' /\ RegressionPassed'
  BY <1>4 DEF Settled, RegressionPassed
<1>6. GateJudgesItsModel'
  BY <1>1, <1>2 DEF LifecycleInv, GateJudgesItsModel, files
<1> QED BY <1>2, <1>3, <1>4, <1>5, <1>6, LoaderStep

LEMMA DroppedStep ==
  ASSUME LifecycleInv, UNCHANGED <<files, env>>, NEW r \in Roles, Ends(r, Dropped)
  PROVE  LifecycleInv'
<1>1. Dropped \in Uses /\ Dropped.state = "none"
  BY DEF Dropped, Unloaded, Uses, ModelFile, MetaFile
<1> QED BY <1>1, EndStep

LEMMA StartLoadStep == LifecycleInv /\ StartLoad => LifecycleInv'
<1> SUFFICES ASSUME LifecycleInv, StartLoad PROVE LifecycleInv'
  OBVIOUS
<1>1. env.roles \subseteq Roles /\ UNCHANGED <<files, env>>
  BY ModelLifecycleAssumption DEF LifecycleInv, LifecycleTypes, StartLoad
<1>2. PICK r \in Roles :
        IF disk[r].model = Absent THEN Ends(r, Dropped)
        ELSE /\ load' = [NoLoad EXCEPT !.pc = "meta", !.role = r, !.raced = Writing(r)]
             /\ UNCHANGED used
  BY <1>1 DEF StartLoad
<1>3. CASE disk[r].model = Absent
  BY <1>1, <1>2, <1>3, DroppedStep
<1>4. CASE disk[r].model # Absent
  <2>1. /\ load' = [NoLoad EXCEPT !.pc = "meta", !.role = r, !.raced = Writing(r)]
        /\ UNCHANGED used
    BY <1>2, <1>4
  <2>2. Writing(r) \in BOOLEAN
    BY DEF Writing
  <2>3. /\ load' \in Loads /\ load'.pc = "meta" /\ load'.role = r
        /\ load'.raced = Writing(r)
    BY <2>1, <2>2 DEF NoLoad, Loads, ModelFile, MetaFile
  <2>4. Settled' /\ RegressionPassed'
    BY <1>1, <2>3 DEF Settled, RegressionPassed, files, Writing
  <2>5. /\ used' \in [Roles -> Uses] /\ GateJudgesItsModel'
        /\ \A q \in Roles : used'[q].state = "acts" => used'[q].model # Absent
    BY <1>1, <2>1 DEF LifecycleInv, LifecycleTypes, GateJudgesItsModel, files
  <2> QED BY <1>1, <1>4, <2>3, <2>4, <2>5, LoaderStep
<1> QED BY <1>3, <1>4

LEMMA ReadMetaStep == LifecycleInv /\ ReadMeta => LifecycleInv'
<1> SUFFICES ASSUME LifecycleInv, ReadMeta PROVE LifecycleInv'
  OBVIOUS
<1> DEFINE r == load.role
           m == disk[r].meta
<1>1. /\ r \in Roles /\ disk[r].model # Absent /\ disk[r] \in Pairs /\ load \in Loads
      /\ load.pc = "meta" /\ UNCHANGED <<files, env>>
  BY DEF ReadMeta, LifecycleInv, LifecycleTypes
<1>2. CASE Ends(r, Dropped)
  BY <1>1, <1>2, DroppedStep
<1>3. CASE /\ load' = [load EXCEPT !.pc = "model", !.meta = m] /\ UNCHANGED used
           /\ r = "reg" => \/ m \in {Torn, Absent} \/ AssessSkill(judged[m])
                           \/ env.forced
  <2>1. /\ load' \in Loads /\ load'.pc = "model" /\ load'.role = r /\ load'.meta = m
        /\ load'.raced = load.raced
    BY <1>1, <1>3 DEF Loads, Pairs
  <2>2. Settled'
    BY <1>1, <2>1 DEF LifecycleInv, Settled, files, Writing
  <2>3. RegressionPassed'
    BY <1>1, <1>3, <2>1 DEF RegressionPassed, files
  <2>4. /\ used' \in [Roles -> Uses] /\ GateJudgesItsModel'
        /\ \A q \in Roles : used'[q].state = "acts" => used'[q].model # Absent
    BY <1>1, <1>3 DEF LifecycleInv, LifecycleTypes, GateJudgesItsModel, files
  <2> QED BY <1>1, <2>1, <2>2, <2>3, <2>4, LoaderStep
<1> QED BY <1>1, <1>2, <1>3 DEF ReadMeta

LEMMA ReadModelStep == LifecycleInv /\ ReadModel => LifecycleInv'
<1> SUFFICES ASSUME LifecycleInv, ReadModel PROVE LifecycleInv'
  OBVIOUS
<1> DEFINE r == load.role
<1>1. /\ r \in Roles /\ disk[r].model # Absent /\ disk[r] \in Pairs /\ load \in Loads
      /\ load.pc = "model" /\ UNCHANGED <<files, env>>
  BY DEF ReadModel, LifecycleInv, LifecycleTypes
<1>2. CASE Ends(r, Dropped)
  BY <1>1, <1>2, DroppedStep
<1>3. CASE load' = [load EXCEPT !.pc = "gate", !.model = disk[r].model] /\ UNCHANGED used
  <2>1. /\ load' \in Loads /\ load'.pc = "gate" /\ load'.role = r
        /\ load'.meta = load.meta /\ load'.model = disk[r].model
        /\ load'.raced = load.raced
    BY <1>1, <1>3 DEF Loads, Pairs
  <2>2. Settled'
    BY <1>1, <2>1 DEF LifecycleInv, Settled, files, Writing
  <2>3. RegressionPassed'
    BY <1>1, <2>1 DEF LifecycleInv, RegressionPassed, files
  <2>4. /\ used' \in [Roles -> Uses] /\ GateJudgesItsModel'
        /\ \A q \in Roles : used'[q].state = "acts" => used'[q].model # Absent
    BY <1>1, <1>3 DEF LifecycleInv, LifecycleTypes, GateJudgesItsModel, files
  <2> QED BY <1>1, <2>1, <2>2, <2>3, <2>4, LoaderStep
<1> QED BY <1>1, <1>2, <1>3 DEF ReadModel

(* What a gate finds: without a race the disk still has the model it read,   *)
(* and unless a failure parted them, the meta of that model.                 *)
LEMMA AtTheGate ==
  ASSUME LifecycleInv, load.pc = "gate"
  PROVE  /\ load.role \in Roles /\ load \in Loads /\ disk[load.role] \in Pairs
         /\ load.model # Absent /\ load.model # Torn
         /\ \/ load.raced \/ load.model \in unpaired
            \/ load.model = disk[load.role].meta
         /\ ~load.raced => load.meta = disk[load.role].meta
<1>1. /\ load.role \in Roles /\ load \in Loads /\ disk[load.role] \in Pairs
      /\ load.model # Absent /\ load.model \in ModelFile
  BY DEF LifecycleInv, LifecycleTypes, Loads
<1>2. load.model # Torn
  BY <1>1 DEF LifecycleInv, LifecycleTypes, ModelFile, Absent, Torn
<1> QED BY <1>1, <1>2 DEF LifecycleInv, Settled, Paired

LEMMA GateEntryStep == LifecycleInv /\ GateEntry => LifecycleInv'
<1> SUFFICES ASSUME LifecycleInv, GateEntry PROVE LifecycleInv'
  OBVIOUS
<1> DEFINE m == disk["entry"].meta
           inert == m # Absent /\ ~AssessSkill(judged[m]) /\ ~env.forced
           u == [Loaded(IF Thresholds(inert) = "inert" THEN "inert" ELSE "acts")
                   EXCEPT !.meta = m]
<1>1. load.pc = "gate" /\ load.role = "entry" /\ UNCHANGED <<files, env>>
      /\ (Ends("entry", Dropped) \/ Ends("entry", u))
  BY DEF GateEntry
<1>2. CASE Ends("entry", Dropped)
  BY <1>1, <1>2, AtTheGate, DroppedStep
<1>3. CASE Ends("entry", u)
  <2>1. (Thresholds(inert) = "inert") = inert
    BY DEF Thresholds
  <2>2. /\ u \in Uses /\ u.model = load.model /\ u.meta = m /\ u.raced = load.raced
        /\ u.state = "acts" => ~inert
    BY <1>1, <2>1, AtTheGate DEF Loaded, Uses, Loads, Pairs
  <2>3. u.state = "acts" =>
          IF u.meta = u.model
          THEN AssessSkill(judged[u.model]) \/ env.forced
          ELSE u.raced \/ u.model \in unpaired
    BY <1>1, <2>2, AtTheGate
  <2> HIDE DEF u
  <2> QED BY <1>1, <1>3, <2>2, <2>3, AtTheGate, EndStep
<1> QED BY <1>1, <1>2, <1>3

LEMMA GateOtherStep == LifecycleInv /\ GateOther => LifecycleInv'
<1> SUFFICES ASSUME LifecycleInv, GateOther PROVE LifecycleInv'
  OBVIOUS
<1> DEFINE r == load.role
           m == disk[r].meta
           u == [Loaded("acts") EXCEPT !.meta = m]
<1>1. load.pc = "gate" /\ UNCHANGED <<files, env>>
      /\ \/ Ends(r, Dropped)
         \/ Ends(r, u) /\ (m \in {Torn, Absent} \/ AssessSkill(judged[m]))
  BY DEF GateOther
<1>2. CASE Ends(r, Dropped)
  BY <1>1, <1>2, AtTheGate, DroppedStep
<1>3. CASE Ends(r, u) /\ (m \in {Torn, Absent} \/ AssessSkill(judged[m]))
  <2>1. /\ u \in Uses /\ u.model = load.model /\ u.meta = m /\ u.raced = load.raced
    BY <1>1, AtTheGate DEF Loaded, Uses, Loads, Pairs
  <2>2. IF u.meta = u.model THEN AssessSkill(judged[u.model])
        ELSE u.raced \/ u.model \in unpaired
    BY <1>1, <1>3, <2>1, AtTheGate
  <2> HIDE DEF u
  <2> QED BY <1>1, <1>3, <2>1, <2>2, AtTheGate, EndStep
<1> QED BY <1>1, <1>2, <1>3

LEMMA UngatedStep == LifecycleInv /\ Ungated => LifecycleInv'
<1> SUFFICES ASSUME LifecycleInv, Ungated PROVE LifecycleInv'
  OBVIOUS
<1> DEFINE r == load.role
           u == Loaded("acts")
<1>1. /\ load.pc = "gate" /\ r \in {"reg", "survival", "timing", "exit"}
      /\ UNCHANGED <<files, env>> /\ Ends(r, u)
  BY DEF Ungated
<1>2. /\ u \in Uses /\ u.model = load.model /\ u.meta = load.meta
      /\ u.raced = load.raced
  BY <1>1, AtTheGate DEF Loaded, Uses, Loads
<1>3. r \in Gated => r = "reg"
  BY <1>1 DEF Gated, Heads
<1>4. r = "reg" =>
        IF u.meta = u.model THEN AssessSkill(judged[u.model]) \/ env.forced
        ELSE u.raced \/ u.model \in unpaired
  BY <1>1, <1>2, AtTheGate DEF LifecycleInv, RegressionPassed
<1> HIDE DEF u
<1> QED BY <1>1, <1>2, <1>3, <1>4, AtTheGate, EndStep

LEMMA RestartStep == LifecycleInv /\ Restart => LifecycleInv'
<1> SUFFICES ASSUME LifecycleInv, Restart PROVE LifecycleInv'
  OBVIOUS
<1>1. /\ used' = [r \in Roles |-> Unloaded] /\ load' = NoLoad
      /\ UNCHANGED <<files, env>>
  BY DEF Restart
<1>2. used' \in [Roles -> Uses] /\ \A q \in Roles : used'[q].state # "acts"
  BY <1>1 DEF Unloaded, Uses, ModelFile, MetaFile
<1>3. load' \in Loads /\ load'.pc = "idle"
  BY <1>1 DEF NoLoad, Loads, ModelFile, MetaFile
<1>4. Settled' /\ RegressionPassed' /\ GateJudgesItsModel'
  BY <1>2, <1>3 DEF Settled, RegressionPassed, GateJudgesItsModel
<1> QED BY <1>1, <1>2, <1>3, <1>4, LoaderStep

LEMMA TrainingStep ==
  ASSUME LifecycleInv, NEW r, NEW fit, NEW health, Fitted(r, fit, health)
  PROVE  LifecycleInv'
<1>1. r \in Roles
  BY ModelLifecycleAssumption DEF LifecycleInv, LifecycleTypes, Fitted
<1> QED BY <1>1, NextGeneration

LEMMA LifecycleSteps == LifecycleInv /\ [ModelNext]_modelVars => LifecycleInv'
<1> SUFFICES ASSUME LifecycleInv, [ModelNext]_modelVars PROVE LifecycleInv'
  OBVIOUS
<1>1. CASE TrainEntry
  BY <1>1, TrainingStep DEF TrainEntry
<1>2. CASE TrainEntryT30 \/ TrainExit
  BY <1>2, TrainingStep DEF TrainEntryT30, TrainExit
<1>3. CASE TrainEntryRegression \/ TrainExitQuantile
  BY <1>3, TrainingStep DEF TrainEntryRegression, TrainExitQuantile
<1>4. CASE TrainMaxHold \/ TrainSurvivalModel \/ TrainEntryTiming
  BY <1>4, TrainingStep DEF TrainMaxHold, TrainSurvivalModel, TrainEntryTiming
<1>5. CASE Snapshot \/ SaveModel \/ OpenMeta \/ WriteMeta
  BY <1>5, SnapshotStep, SaveModelStep, OpenMetaStep, WriteMetaStep
<1>6. CASE StartLoad \/ ReadMeta \/ ReadModel
  BY <1>6, StartLoadStep, ReadMetaStep, ReadModelStep
<1>7. CASE GateEntry \/ GateOther \/ Ungated
  BY <1>7, GateEntryStep, GateOtherStep, UngatedStep
<1>8. CASE TrainerDies \/ RollBack \/ Restart
  BY <1>8, TrainerDiesStep, RollBackStep, RestartStep
<1>9. CASE UNCHANGED modelVars
  <2>1. UNCHANGED <<files, env>> /\ UNCHANGED <<load, used>>
    BY <1>9 DEF modelVars
  <2>2. Settled' /\ RegressionPassed' /\ GateJudgesItsModel'
    BY <2>1 DEF files, LifecycleInv, Settled, Writing, RegressionPassed,
       GateJudgesItsModel
  <2> QED BY <2>1, <2>2, LoaderStep DEF LifecycleInv, LifecycleTypes
<1> QED BY <1>1, <1>2, <1>3, <1>4, <1>5, <1>6, <1>7, <1>8, <1>9
        DEF ModelNext, Trainer, Loader

(* A gated model acts only on the verdict of its own training, accepted or   *)
(* forced, unless the load overlapped the writing or a failure parted model  *)
(* and meta (GateJudgesItsModel), for any number of trainings and any bars.  *)
THEOREM VerdictsMatch == ModelSpec => []GateJudgesItsModel
<1>1. LifecycleInv => GateJudgesItsModel
  BY DEF LifecycleInv
<1> QED BY <1>1, LifecycleInit, LifecycleSteps, PTL DEF ModelSpec

(* ------------------- what a bucket is worth ---------------------------- *)
(* A row of a validation set, and its P&L as the search takes it.            *)
Validated == [score : Int, pnl : Int]
Probably(cases) == \A i \in DOMAIN cases : cases[i].score \in 0..Certain
Clipped(cases, i) == Max({Worst, Min({Best, cases[i].pnl})})

LEMMA ClippedType ==
  ASSUME NEW cases \in Seq(Validated)
  PROVE  \A i \in DOMAIN cases : cases[i].pnl \in Int /\ cases[i].score \in Int
                                /\ Clipped(cases, i) \in Int
<1> TAKE i \in DOMAIN cases
<1>1. cases[i] \in Validated
  BY ElementOfSeq
<1>2. cases[i].pnl \in Int /\ cases[i].score \in Int
  BY <1>1 DEF Validated
<1>3. Worst \in Int /\ Best \in Int
  BY ModelVerdictAssumption
<1>4. PICK p \in Int : p = cases[i].pnl
  BY <1>2
<1>5. Min({Best, p}) \in Int
  <2>1. \E x \in {Best, p} : \A y \in {Best, p} : x <= y
    BY <1>3
  <2> QED BY <1>3, <2>1 DEF Min
<1>6. PICK m \in Int : m = Min({Best, p})
  BY <1>5
<1>7. Max({Worst, m}) \in Int
  <2>1. \E x \in {Worst, m} : \A y \in {Worst, m} : x >= y
    BY <1>3
  <2> QED BY <1>3, <2>1 DEF Max
<1> QED BY <1>2, <1>4, <1>6, <1>7 DEF Clipped

EarnedStep(h, cases, s) ==
  IF s = {} THEN 0 ELSE cases[Chosen(s)].pnl + h[s \ {Chosen(s)}]
ClippedStep(h, cases, s) ==
  IF s = {} THEN 0 ELSE Clipped(cases, Chosen(s)) + h[s \ {Chosen(s)}]

LEMMA EarnedIs ==
  ASSUME NEW cases \in Seq(Validated), NEW f, NEW B \in SUBSET (DOMAIN cases),
         Summed(f, [i \in DOMAIN cases |-> cases[i].pnl], DOMAIN cases),
         IsFiniteSet(DOMAIN cases)
  PROVE  Earned(cases, B) = f[B]
<1> DEFINE v == [i \in DOMAIN cases |-> cases[i].pnl]
           h == CHOOSE k : k = [s \in SUBSET B |-> EarnedStep(k, cases, s)]
<1>1. Earned(cases, B) = h[B]
  BY DEF Earned, MapThenSumSet, MapThenFoldSet, EarnedStep, Chosen
<1>2. \A s \in SUBSET (DOMAIN cases) : f[s] = Adds(f, v, s)
  BY DEF Summed, Adds
<1>3. \A k : \A s \in SUBSET B : EarnedStep(k, cases, s) = Adds(k, v, s)
  BY DEF EarnedStep, Adds, Chosen
<1> HIDE DEF v
<1>4. \E k : k = [s \in SUBSET B |-> EarnedStep(k, cases, s)]
  <2> DEFINE k == [s \in SUBSET B |-> f[s]]
  <2>1. \A s \in SUBSET B : k[s] = EarnedStep(k, cases, s)
    <3> TAKE s \in SUBSET B
    <3>1. k[s] = Adds(f, v, s)
      BY <1>2
    <3>2. Adds(f, v, s) = Adds(k, v, s)
      BY DEF Adds
    <3> HIDE DEF k
    <3> QED BY <1>3, <3>1, <3>2
  <2>2. k = [s \in SUBSET B |-> k[s]]
    OBVIOUS
  <2> HIDE DEF k
  <2> QED BY <2>1, <2>2
<1>5. h = [s \in SUBSET B |-> EarnedStep(h, cases, s)]
  BY <1>4
<1> HIDE DEF h
<1>6. \A s \in SUBSET B : h[s] = EarnedStep(h, cases, s)
  BY <1>5
<1>7. \A s \in SUBSET B : h[s] = Adds(h, v, s)
  BY <1>3, <1>6
<1>8. AddsUp(f, v, DOMAIN cases) /\ AddsUp(h, v, B)
  BY <1>2, <1>7 DEF AddsUp
<1>9. h[B] = f[B]
  BY <1>8, SumUnique
<1> QED BY <1>1, <1>9

LEMMA ClippedIs ==
  ASSUME NEW cases \in Seq(Validated), NEW f, NEW B \in SUBSET (DOMAIN cases),
         Summed(f, [i \in DOMAIN cases |-> Clipped(cases, i)], DOMAIN cases),
         IsFiniteSet(DOMAIN cases)
  PROVE  EarnedClipped(cases, B) = f[B]
<1> DEFINE v == [i \in DOMAIN cases |-> Clipped(cases, i)]
           h == CHOOSE k : k = [s \in SUBSET B |-> ClippedStep(k, cases, s)]
<1>1. EarnedClipped(cases, B) = h[B]
  BY DEF EarnedClipped, MapThenSumSet, MapThenFoldSet, ClippedStep, Clipped, Chosen
<1>2. \A s \in SUBSET (DOMAIN cases) : f[s] = Adds(f, v, s)
  BY DEF Summed, Adds
<1>3. \A k : \A s \in SUBSET B : ClippedStep(k, cases, s) = Adds(k, v, s)
  BY DEF ClippedStep, Adds, Chosen
<1> HIDE DEF v
<1>4. \E k : k = [s \in SUBSET B |-> ClippedStep(k, cases, s)]
  <2> DEFINE k == [s \in SUBSET B |-> f[s]]
  <2>1. \A s \in SUBSET B : k[s] = ClippedStep(k, cases, s)
    <3> TAKE s \in SUBSET B
    <3>1. k[s] = Adds(f, v, s)
      BY <1>2
    <3>2. Adds(f, v, s) = Adds(k, v, s)
      BY DEF Adds
    <3> HIDE DEF k
    <3> QED BY <1>3, <3>1, <3>2
  <2>2. k = [s \in SUBSET B |-> k[s]]
    OBVIOUS
  <2> HIDE DEF k
  <2> QED BY <2>1, <2>2
<1>5. h = [s \in SUBSET B |-> ClippedStep(h, cases, s)]
  BY <1>4
<1> HIDE DEF h
<1>6. \A s \in SUBSET B : h[s] = ClippedStep(h, cases, s)
  BY <1>5
<1>7. \A s \in SUBSET B : h[s] = Adds(h, v, s)
  BY <1>3, <1>6
<1>8. AddsUp(f, v, DOMAIN cases) /\ AddsUp(h, v, B)
  BY <1>2, <1>7 DEF AddsUp
<1>9. h[B] = f[B]
  BY <1>8, SumUnique
<1> QED BY <1>1, <1>9

LEMMA RowsFinite ==
  ASSUME NEW cases \in Seq(Validated)
  PROVE  /\ DOMAIN cases = 1..Len(cases) /\ Len(cases) \in Nat
         /\ IsFiniteSet(DOMAIN cases) /\ Cardinality(DOMAIN cases) = Len(cases)
         /\ \A b \in SUBSET (DOMAIN cases) :
              IsFiniteSet(b) /\ Cardinality(b) \in Nat /\ Cardinality(b) <= Len(cases)
<1>1. PICK n \in Nat : n = Len(cases)
  BY LenProperties
<1>2. DOMAIN cases = 1..n
  BY <1>1, LenProperties
<1>3. IsFiniteSet(1..n) /\ Cardinality(1..n) = n
  BY FS_Interval
<1>4. IsFiniteSet(DOMAIN cases) /\ Cardinality(DOMAIN cases) = n
  BY <1>2, <1>3
<1>5. \A b \in SUBSET (DOMAIN cases) :
        IsFiniteSet(b) /\ Cardinality(b) \in Nat /\ Cardinality(b) <= n
  BY <1>4, FS_Subset, FS_CardinalityType
<1> QED BY <1>1, <1>2, <1>4, <1>5

LEMMA CountJoins ==
  ASSUME NEW a, NEW b, IsFiniteSet(a), IsFiniteSet(b), a \cap b = {}
  PROVE  Cardinality(a \cup b) = Cardinality(a) + Cardinality(b)
<1>1. Cardinality(a \cup b) = Cardinality(a) + Cardinality(b) - Cardinality(a \cap b)
  BY FS_Union
<1>2. Cardinality(a \cap b) = 0
  BY FS_EmptySet
<1>3. Cardinality(a) \in Nat /\ Cardinality(b) \in Nat
  BY FS_CardinalityType
<1> QED BY <1>1, <1>2, <1>3

LEMMA WonType ==
  ASSUME NEW cases \in Seq(Validated), NEW b \in SUBSET (DOMAIN cases)
  PROVE  Won(cases, b) \in Nat /\ Won(cases, b) <= Cardinality(b)
<1> DEFINE w == {i \in b : cases[i].pnl > 0}
<1>1. IsFiniteSet(b) /\ w \in SUBSET b
  BY RowsFinite
<1> HIDE DEF w
<1>2. IsFiniteSet(w) /\ Cardinality(w) <= Cardinality(b) /\ Cardinality(w) \in Nat
  BY <1>1, FS_Subset, FS_CardinalityType
<1> QED BY <1>2 DEF Won, w

LEMMA WonAdds ==
  ASSUME NEW cases \in Seq(Validated), NEW a \in SUBSET (DOMAIN cases),
         NEW b \in SUBSET (DOMAIN cases)
  PROVE  /\ a \cap b = {} => Won(cases, a \cup b) = Won(cases, a) + Won(cases, b)
         /\ a \subseteq b => Won(cases, a) <= Won(cases, b)
<1> DEFINE w(s) == {i \in s : cases[i].pnl > 0}
<1>1. IsFiniteSet(a) /\ IsFiniteSet(b)
  BY RowsFinite
<1>2. IsFiniteSet(w(a)) /\ IsFiniteSet(w(b))
  BY <1>1, FS_Subset
<1>c. \A s : Won(cases, s) = Cardinality(w(s))
  BY DEF Won
<1>3. ASSUME a \cap b = {} PROVE Won(cases, a \cup b) = Won(cases, a) + Won(cases, b)
  <2>1. w(a \cup b) = w(a) \cup w(b) /\ w(a) \cap w(b) = {}
    BY <1>3
  <2>2. Cardinality(w(a) \cup w(b)) = Cardinality(w(a)) + Cardinality(w(b))
    <3>1. PICK p, q : p = w(a) /\ q = w(b)
      OBVIOUS
    <3>2. IsFiniteSet(p) /\ IsFiniteSet(q) /\ p \cap q = {}
      BY <1>2, <2>1, <3>1
    <3>3. Cardinality(p \cup q) = Cardinality(p) + Cardinality(q)
      BY <3>2, CountJoins
    <3> QED BY <3>1, <3>3
  <2>3. /\ Won(cases, a \cup b) = Cardinality(w(a) \cup w(b))
        /\ Won(cases, a) = Cardinality(w(a)) /\ Won(cases, b) = Cardinality(w(b))
    BY <1>c, <2>1
  <2> HIDE DEF w
  <2> QED BY <2>2, <2>3
<1>4. ASSUME a \subseteq b PROVE Won(cases, a) <= Won(cases, b)
  <2>1. PICK p, q : p = w(a) /\ q = w(b)
    OBVIOUS
  <2>2. p \in SUBSET q /\ IsFiniteSet(q)
    BY <1>2, <1>4, <2>1
  <2>3. Cardinality(p) <= Cardinality(q)
    BY <2>2, FS_Subset
  <2>4. Won(cases, a) = Cardinality(p) /\ Won(cases, b) = Cardinality(q)
    BY <1>c, <2>1
  <2> QED BY <2>3, <2>4
<1> QED BY <1>3, <1>4

LEMMA EarnedAdds ==
  ASSUME NEW cases \in Seq(Validated), NEW a \in SUBSET (DOMAIN cases),
         NEW b \in SUBSET (DOMAIN cases)
  PROVE  /\ Earned(cases, a) \in Int /\ EarnedClipped(cases, a) \in Int
         /\ a \cap b = {} =>
              EarnedClipped(cases, a \cup b) = EarnedClipped(cases, a) + EarnedClipped(cases, b)
<1>1. PICK D : D = DOMAIN cases /\ IsFiniteSet(D)
  BY RowsFinite
<1>2. PICK v \in [D -> Int] : v = [i \in DOMAIN cases |-> cases[i].pnl]
  BY <1>1, ClippedType
<1>3. PICK u \in [D -> Int] : u = [i \in DOMAIN cases |-> Clipped(cases, i)]
  BY <1>1, ClippedType
<1>4. PICK f : Summed(f, v, D)
  BY <1>1, SumIs
<1>5. PICK g : Summed(g, u, D)
  BY <1>1, SumIs
<1>6. Earned(cases, a) = f[a]
  BY <1>1, <1>2, <1>4, EarnedIs
<1>7. \A s \in SUBSET D : EarnedClipped(cases, s) = g[s]
  BY <1>1, <1>3, <1>5, ClippedIs
<1>8. f[a] \in Int /\ g[a] \in Int
  BY <1>1, <1>4, <1>5 DEF Summed
<1>9. a \cap b = {} => g[a \cup b] = g[a] + g[b]
  <2>1. JoinsUp(g, D)
    BY <1>1, <1>5, SumJoins
  <2> QED BY <1>1, <2>1 DEF JoinsUp
<1>10. a \in SUBSET D /\ b \in SUBSET D /\ a \cup b \in SUBSET D
  BY <1>1
<1> QED BY <1>6, <1>7, <1>8, <1>9, <1>10

LEMMA WorthAdds ==
  ASSUME NEW cases \in Seq(Validated), NEW by \in {"ev", "wr", "both"},
         NEW a \in SUBSET (DOMAIN cases), NEW b \in SUBSET (DOMAIN cases)
  PROVE  /\ Worth(cases, a, by) \in Int
         /\ by # "both" /\ a \cap b = {} =>
              Worth(cases, a \cup b, by) = Worth(cases, a, by) + Worth(cases, b, by)
<1>1. /\ Earned(cases, a) \in Int /\ EarnedClipped(cases, a) \in Int
      /\ a \cap b = {} =>
           EarnedClipped(cases, a \cup b) = EarnedClipped(cases, a) + EarnedClipped(cases, b)
  BY EarnedAdds
<1>2. /\ Won(cases, a) \in Nat
      /\ a \cap b = {} => Won(cases, a \cup b) = Won(cases, a) + Won(cases, b)
  BY WonType, WonAdds
<1>3. CASE by = "ev"
  BY <1>1, <1>3 DEF Worth
<1>4. CASE by = "wr"
  BY <1>2, <1>4 DEF Worth
<1>5. CASE by = "both"
  BY <1>1, <1>2, <1>5 DEF Worth
<1> QED BY <1>3, <1>4, <1>5

(* ------------------- the least of a finite set -------------------------- *)
HasLeast(s, R) == \E x \in s : \A y \in s : <<x, y>> \in R

LEMMA LeastOf ==
  ASSUME NEW F, IsFiniteSet(F), F # {}, NEW R,
         \A x, y \in F : <<x, y>> \in R \/ <<y, x>> \in R,
         \A x, y, z \in F : <<x, y>> \in R /\ <<y, z>> \in R => <<x, z>> \in R
  PROVE  HasLeast(F, R)
<1> DEFINE n == Cardinality(F)
           Good == {i \in 0..n : \A s \in SUBSET F :
                      s # {} /\ Cardinality(s) <= i => HasLeast(s, R)}
<1>0. n \in Nat /\ \A s \in SUBSET F : IsFiniteSet(s) /\ Cardinality(s) \in Nat /\ Cardinality(s) <= n
  BY FS_CardinalityType, FS_Subset
<1>1. 0 \in Good
  <2>1. ASSUME NEW s \in SUBSET F, s # {}, Cardinality(s) <= 0 PROVE FALSE
    BY <1>0, <2>1, FS_EmptySet
  <2> HIDE DEF n
  <2> QED BY <1>0, <2>1
<1>2. ASSUME NEW i \in 0..n, i # n, i \in Good PROVE i + 1 \in Good
  <2>1. ASSUME NEW s \in SUBSET F, s # {}, Cardinality(s) <= i + 1 PROVE HasLeast(s, R)
    <3>1. PICK y \in s : TRUE
      BY <2>1
    <3>2. IsFiniteSet(s) /\ Cardinality(s) \in Nat
      BY <1>0
    <3>3. Cardinality(s \ {y}) = Cardinality(s) - 1
      BY <3>1, <3>2, FS_RemoveElement
    <3>4. Cardinality(s \ {y}) <= i
      <4> HIDE DEF n, Good
      <4> QED BY <1>0, <2>1, <3>2, <3>3
    <3>5. CASE s \ {y} = {}
      <4>1. \A z \in s : z = y
        BY <3>5
      <4>2. <<y, y>> \in R
        BY <3>1
      <4> QED BY <3>1, <4>1, <4>2 DEF HasLeast
    <3>6. CASE s \ {y} # {}
      <4>1. HasLeast(s \ {y}, R)
        BY <1>2, <3>4, <3>6
      <4>2. PICK x \in s \ {y} : \A z \in s \ {y} : <<x, z>> \in R
        BY <4>1 DEF HasLeast
      <4>3. CASE <<x, y>> \in R
        BY <4>2, <4>3 DEF HasLeast
      <4>4. CASE <<y, x>> \in R
        <5>1. \A z \in s \ {y} : <<y, z>> \in R
          BY <3>1, <4>2, <4>4
        <5>2. <<y, y>> \in R
          BY <3>1
        <5> QED BY <3>1, <5>1, <5>2 DEF HasLeast
      <4> QED BY <3>1, <4>2, <4>3, <4>4
    <3> QED BY <3>5, <3>6
  <2>2. i + 1 \in 0..n
    BY <1>0, <1>2
  <2> HIDE DEF n
  <2> QED BY <2>1, <2>2
<1>3. \A i \in 0..n : i \in Good
  <2> HIDE DEF Good, n
  <2> QED BY <1>0, <1>1, <1>2, Climb
<1>4. n \in Good
  BY <1>0, <1>3
<1> QED BY <1>0, <1>4

LEMMA LeastOfInts ==
  ASSUME NEW S \in SUBSET Int, IsFiniteSet(S), S # {}
  PROVE  Min(S) \in S /\ \A y \in S : Min(S) <= y
<1> DEFINE R == {p \in S \X S : p[1] <= p[2]}
<1>1. \A x, y \in S : <<x, y>> \in R <=> x <= y
  OBVIOUS
<1> HIDE DEF R
<1>2. \A x, y \in S : <<x, y>> \in R \/ <<y, x>> \in R
  <2> TAKE x, y \in S
  <2>1. x \in Int /\ y \in Int
    OBVIOUS
  <2>2. x <= y \/ y <= x
    BY <2>1
  <2> QED BY <1>1, <2>2
<1>3. ASSUME NEW x \in S, NEW y \in S, NEW z \in S, <<x, y>> \in R, <<y, z>> \in R
      PROVE  <<x, z>> \in R
  <2>1. x \in Int /\ y \in Int /\ z \in Int
    OBVIOUS
  <2>2. x <= y /\ y <= z
    BY <1>1, <1>3
  <2>3. x <= z
    BY <2>1, <2>2
  <2> QED BY <1>1, <2>3
<1>4. HasLeast(S, R)
  BY <1>2, <1>3, LeastOf
<1>5. PICK x \in S : \A y \in S : x <= y
  BY <1>1, <1>4 DEF HasLeast
<1> QED BY <1>5 DEF Min

LEMMA ScaleUp ==
  ASSUME NEW x \in Int, NEW y \in Int, NEW k \in Nat, k # 0
  PROVE  x <= y <=> x * k <= y * k
<1>1. CASE x <= y
  <2>1. PICK d \in Nat : y = x + d
    <3>1. y - x \in Nat /\ y = x + (y - x)
      BY <1>1
    <3> QED BY <3>1
  <2>2. (x + d) * k = x * k + d * k /\ d * k \in Nat /\ x * k \in Int
    OBVIOUS
  <2> QED BY <1>1, <2>1, <2>2
<1>2. CASE ~(x <= y)
  <2>1. PICK d \in Nat : x = y + d /\ d >= 1
    <3>1. x - y \in Nat /\ x = y + (x - y) /\ x - y >= 1
      BY <1>2
    <3> QED BY <3>1
  <2>2. (y + d) * k = y * k + d * k /\ d * k \in Nat /\ y * k \in Int /\ d * k >= 1
    BY <2>1
  <2> QED BY <1>2, <2>1, <2>2
<1> QED BY <1>1, <1>2

(* a/p <= b/q <= c/r.                                                         *)
LEMMA RatioTrans ==
  ASSUME NEW a \in Int, NEW b \in Int, NEW c \in Int,
         NEW p \in Nat \ {0}, NEW q \in Nat \ {0}, NEW r \in Nat \ {0},
         a * q <= b * p, b * r <= c * q
  PROVE  a * r <= c * p
<1>1. /\ a * q \in Int /\ b * p \in Int /\ b * r \in Int /\ c * q \in Int
      /\ a * r \in Int /\ c * p \in Int
  OBVIOUS
<1>2. (a * q) * r <= (b * p) * r
  BY <1>1, ScaleUp
<1>3. (b * r) * p <= (c * q) * p
  BY <1>1, ScaleUp
<1>4. (b * p) * r = (b * r) * p /\ (a * q) * r = (a * r) * q /\ (c * q) * p = (c * p) * q
  OBVIOUS
<1>5. (a * r) * q <= (c * p) * q
  <2>1. /\ (a * q) * r \in Int /\ (b * p) * r \in Int /\ (c * q) * p \in Int
    BY <1>1
  <2> QED BY <1>2, <1>3, <1>4, <2>1
<1> QED BY <1>1, <1>5, ScaleUp

NotAbove(w, n, x, y) == w[x] * n[y] <= w[y] * n[x]
LeastRatio(F, w, n)    == \E t \in F : \A u \in F : NotAbove(w, n, t, u)
GreatestRatio(F, w, n) == \E t \in F : \A u \in F : NotAbove(w, n, u, t)

LEMMA RatioExtremes ==
  ASSUME NEW F, IsFiniteSet(F), F # {}, NEW w \in [F -> Int], NEW n \in [F -> Nat \ {0}]
  PROVE  LeastRatio(F, w, n) /\ GreatestRatio(F, w, n)
<1>1. ASSUME NEW x \in F, NEW y \in F
      PROVE  NotAbove(w, n, x, y) \/ NotAbove(w, n, y, x)
  <2>1. w[x] * n[y] \in Int /\ w[y] * n[x] \in Int
    <3>1. w[x] \in Int /\ w[y] \in Int /\ n[x] \in Int /\ n[y] \in Int
      OBVIOUS
    <3> QED BY <3>1
  <2>2. PICK p, q \in Int : p = w[x] * n[y] /\ q = w[y] * n[x]
    BY <2>1
  <2> QED BY <2>2 DEF NotAbove
<1>2. ASSUME NEW x \in F, NEW y \in F, NEW z \in F, NotAbove(w, n, x, y), NotAbove(w, n, y, z)
      PROVE  NotAbove(w, n, x, z)
  <2>1. PICK a \in Int, b \in Int, c \in Int : a = w[x] /\ b = w[y] /\ c = w[z]
    OBVIOUS
  <2>2. PICK p \in Nat \ {0}, q \in Nat \ {0}, r \in Nat \ {0} : p = n[x] /\ q = n[y] /\ r = n[z]
    OBVIOUS
  <2>3. a * q <= b * p /\ b * r <= c * q
    BY <1>2, <2>1, <2>2 DEF NotAbove
  <2>4. a * r <= c * p
    BY <2>3, RatioTrans
  <2> QED BY <2>1, <2>2, <2>4 DEF NotAbove
<1>3. LeastRatio(F, w, n)
  <2> DEFINE R == {p \in F \X F : NotAbove(w, n, p[1], p[2])}
  <2>1. \A x, y \in F : <<x, y>> \in R <=> NotAbove(w, n, x, y)
    OBVIOUS
  <2> HIDE DEF R
  <2>2. \A x, y \in F : <<x, y>> \in R \/ <<y, x>> \in R
    BY <1>1, <2>1
  <2>3. \A x, y, z \in F : <<x, y>> \in R /\ <<y, z>> \in R => <<x, z>> \in R
    BY <1>2, <2>1
  <2>4. HasLeast(F, R)
    BY <2>2, <2>3, LeastOf
  <2> QED BY <2>1, <2>4 DEF HasLeast, LeastRatio
<1>4. GreatestRatio(F, w, n)
  <2> DEFINE R == {p \in F \X F : NotAbove(w, n, p[2], p[1])}
  <2>1. \A x, y \in F : <<x, y>> \in R <=> NotAbove(w, n, y, x)
    OBVIOUS
  <2> HIDE DEF R
  <2>2. \A x, y \in F : <<x, y>> \in R \/ <<y, x>> \in R
    BY <1>1, <2>1
  <2>3. \A x, y, z \in F : <<x, y>> \in R /\ <<y, z>> \in R => <<x, z>> \in R
    BY <1>2, <2>1
  <2>4. HasLeast(F, R)
    BY <2>2, <2>3, LeastOf
  <2> QED BY <2>1, <2>4 DEF HasLeast, GreatestRatio
<1> QED BY <1>3, <1>4

(* ------------------- floor and ceiling ---------------------------------- *)
FloorFit(grid, cases) == {t \in grid : Enough(Below(cases, t))}
CeilingFit(grid, cases) == {t \in grid : Enough(Above(cases, t))}

LowestMean(fit, cases, by, t) ==
  \A u \in fit : ~Less(cases, Below(cases, u), Below(cases, t), by)
HighestMean(fit, cases, by, t) ==
  \A u \in fit : ~Less(cases, Above(cases, t), Above(cases, u), by)

IsFloor(grid, cases, by, default, t) ==
  /\ FloorFit(grid, cases) = {} => t = default
  /\ FloorFit(grid, cases) # {} =>
       t \in FloorFit(grid, cases) /\ LowestMean(FloorFit(grid, cases), cases, by, t)
IsCeiling(grid, cases, by, default, t) ==
  /\ CeilingFit(grid, cases) = {} => t = default
  /\ CeilingFit(grid, cases) # {} =>
       /\ t \in CeilingFit(grid, cases)
       /\ HighestMean(CeilingFit(grid, cases), cases, by, t)
       /\ \A s \in CeilingFit(grid, cases) :
            HighestMean(CeilingFit(grid, cases), cases, by, s) => t <= s

LEMMA BucketsAre ==
  ASSUME NEW cases, NEW t
  PROVE  /\ Below(cases, t) \in SUBSET (DOMAIN cases) /\ Above(cases, t) \in SUBSET (DOMAIN cases)
         /\ Below(cases, t) \cup Above(cases, t) = DOMAIN cases
         /\ Below(cases, t) \cap Above(cases, t) = {}
  BY DEF Below, Above

(* Rows enough are some rows.                                                *)
LEMMA EnoughIsSome ==
  ASSUME NEW cases \in Seq(Validated), NEW b \in SUBSET (DOMAIN cases), Enough(b)
  PROVE  Cardinality(b) \in Nat \ {0} /\ b # {}
<1>1. Cardinality(b) \in Nat /\ IsFiniteSet(b)
  BY RowsFinite
<1>2. MinBucket \in Nat /\ MinBucket # 0
  BY ModelVerdictAssumption
<1>3. Cardinality(b) >= MinBucket
  BY DEF Enough
<1>4. Cardinality(b) # 0
  BY <1>1, <1>2, <1>3
<1> QED BY <1>1, <1>4, FS_EmptySet

LEMMA FloorIs ==
  ASSUME NEW cases \in Seq(Validated), NEW by \in {"ev", "wr", "both"}, NEW default,
         NEW grid \in SUBSET Int, IsFiniteSet(grid)
  PROVE  IsFloor(grid, cases, by, default, FloorOn(grid, cases, by, default))
<1>1. PICK fit : fit = FloorFit(grid, cases)
  OBVIOUS
<1>2. CASE fit = {}
  BY <1>1, <1>2 DEF FloorOn, FloorFit, IsFloor
<1>3. CASE fit # {}
  <2> DEFINE best == {t \in fit : LowestMean(fit, cases, by, t)}
  <2>1. fit \in SUBSET grid /\ IsFiniteSet(fit)
    BY <1>1, FS_Subset DEF FloorFit
  <2>2. best # {}
    <3> DEFINE w == [t \in fit |-> Worth(cases, Below(cases, t), by)]
               n == [t \in fit |-> Cardinality(Below(cases, t))]
    <3>1. \A t \in fit : Worth(cases, Below(cases, t), by) \in Int
      BY BucketsAre, WorthAdds
    <3>2. \A t \in fit : Cardinality(Below(cases, t)) \in Nat \ {0}
      BY <1>1, BucketsAre, EnoughIsSome DEF FloorFit
    <3>3. w \in [fit -> Int] /\ n \in [fit -> Nat \ {0}]
      BY <3>1, <3>2
    <3>4. \A t, u \in fit : NotAbove(w, n, t, u) => ~Less(cases, Below(cases, u), Below(cases, t), by)
      <4> TAKE t, u \in fit
      <4>1. PICK a, b \in Int : a = Worth(cases, Below(cases, t), by) /\ b = Worth(cases, Below(cases, u), by)
        BY <3>1
      <4>2. PICK p, q \in Nat : p = Cardinality(Below(cases, t)) /\ q = Cardinality(Below(cases, u))
        BY <3>2
      <4>3. NotAbove(w, n, t, u) <=> a * q <= b * p
        BY <4>1, <4>2 DEF NotAbove
      <4>4. Less(cases, Below(cases, u), Below(cases, t), by) <=> b * p < a * q
        BY <4>1, <4>2 DEF Less
      <4>5. a * q \in Int /\ b * p \in Int
        OBVIOUS
      <4> QED BY <4>3, <4>4, <4>5
    <3> HIDE DEF w, n
    <3>5. LeastRatio(fit, w, n)
      BY <1>3, <2>1, <3>3, RatioExtremes
    <3> QED BY <3>4, <3>5 DEF LeastRatio, LowestMean
  <2>3. best \in SUBSET Int /\ IsFiniteSet(best) /\ best \subseteq fit
    BY <2>1, FS_Subset
  <2>4. FloorOn(grid, cases, by, default) = Min(best)
    BY <1>1, <1>3 DEF FloorOn, FloorFit, LowestMean
  <2>5. Min(best) \in best
    <3> HIDE DEF best
    <3> QED BY <2>2, <2>3, LeastOfInts
  <2> QED BY <1>1, <1>3, <2>4, <2>5 DEF IsFloor
<1> QED BY <1>2, <1>3

LEMMA CeilingIs ==
  ASSUME NEW cases \in Seq(Validated), NEW by \in {"ev", "wr", "both"}, NEW default,
         NEW grid \in SUBSET Int, IsFiniteSet(grid)
  PROVE  IsCeiling(grid, cases, by, default, CeilingOn(grid, cases, by, default))
<1>1. PICK fit : fit = CeilingFit(grid, cases)
  OBVIOUS
<1>2. CASE fit = {}
  BY <1>1, <1>2 DEF CeilingOn, CeilingFit, IsCeiling
<1>3. CASE fit # {}
  <2> DEFINE best == {t \in fit : HighestMean(fit, cases, by, t)}
  <2>1. fit \in SUBSET grid /\ IsFiniteSet(fit)
    BY <1>1, FS_Subset DEF CeilingFit
  <2>2. best # {}
    <3> DEFINE w == [t \in fit |-> Worth(cases, Above(cases, t), by)]
               n == [t \in fit |-> Cardinality(Above(cases, t))]
    <3>1. \A t \in fit : Worth(cases, Above(cases, t), by) \in Int
      BY BucketsAre, WorthAdds
    <3>2. \A t \in fit : Cardinality(Above(cases, t)) \in Nat \ {0}
      BY <1>1, BucketsAre, EnoughIsSome DEF CeilingFit
    <3>3. w \in [fit -> Int] /\ n \in [fit -> Nat \ {0}]
      BY <3>1, <3>2
    <3>4. \A t, u \in fit : NotAbove(w, n, u, t) => ~Less(cases, Above(cases, t), Above(cases, u), by)
      <4> TAKE t, u \in fit
      <4>1. PICK a, b \in Int : a = Worth(cases, Above(cases, t), by) /\ b = Worth(cases, Above(cases, u), by)
        BY <3>1
      <4>2. PICK p, q \in Nat : p = Cardinality(Above(cases, t)) /\ q = Cardinality(Above(cases, u))
        BY <3>2
      <4>3. NotAbove(w, n, u, t) <=> b * p <= a * q
        BY <4>1, <4>2 DEF NotAbove
      <4>4. Less(cases, Above(cases, t), Above(cases, u), by) <=> a * q < b * p
        BY <4>1, <4>2 DEF Less
      <4>5. a * q \in Int /\ b * p \in Int
        OBVIOUS
      <4> QED BY <4>3, <4>4, <4>5
    <3> HIDE DEF w, n
    <3>5. GreatestRatio(fit, w, n)
      BY <1>3, <2>1, <3>3, RatioExtremes
    <3> QED BY <3>4, <3>5 DEF GreatestRatio, HighestMean
  <2>3. best \in SUBSET Int /\ IsFiniteSet(best) /\ best \subseteq fit
    BY <2>1, FS_Subset
  <2>4. CeilingOn(grid, cases, by, default) = Min(best)
    BY <1>1, <1>3 DEF CeilingOn, CeilingFit, HighestMean
  <2>5. Min(best) \in best /\ \A s \in best : Min(best) <= s
    <3> HIDE DEF best
    <3> QED BY <2>2, <2>3, LeastOfInts
  <2> QED BY <1>1, <1>3, <2>4, <2>5 DEF IsCeiling
<1> QED BY <1>2, <1>3

LEMMA Grids ==
  /\ Tenths \in SUBSET Int /\ IsFiniteSet(Tenths) /\ 15 \in Tenths /\ 35 \in Tenths
  /\ Fives \in SUBSET Int /\ IsFiniteSet(Fives)
<1>1. Tenths \in SUBSET (0..50) /\ Fives \in SUBSET (-50..50)
  BY DEF Tenths, Fives
<1>2. IsFiniteSet(0..50) /\ IsFiniteSet(-50..50)
  <2>1. \A a, b \in Int : IsFiniteSet(a..b)
    BY FS_Interval
  <2>2. 0 \in Int /\ 50 \in Int /\ -50 \in Int
    OBVIOUS
  <2> QED BY <2>1, <2>2
<1>3. 15 = 5 * 3 /\ 35 = 5 * 7 /\ 3 \in 1..9 /\ 7 \in 1..9
  OBVIOUS
<1>4. 15 \in Tenths /\ 35 \in Tenths
  BY <1>3 DEF Tenths
<1>5. IsFiniteSet(Tenths) /\ IsFiniteSet(Fives)
  BY <1>1, <1>2, FS_Subset
<1> QED BY <1>1, <1>4, <1>5

(* What is added to the worse bucket is no worse.                            *)
LEMMA Averages ==
  ASSUME NEW a \in Int, NEW b \in Int, NEW p \in Nat, NEW q \in Nat
  PROVE  /\ ~((a + b) * p < a * (p + q)) => ~(b * p < a * q)
         /\ ~(b * (p + q) < (a + b) * q) => ~(b * p < a * q)
<1>1. /\ (a + b) * p = a * p + b * p /\ a * (p + q) = a * p + a * q
      /\ (a + b) * q = a * q + b * q /\ b * (p + q) = b * p + b * q
  OBVIOUS
<1>2. a * p \in Int /\ b * p \in Int /\ a * q \in Int /\ b * q \in Int
  OBVIOUS
<1> QED BY <1>1, <1>2

LEMMA LessIs ==
  ASSUME NEW cases \in Seq(Validated), NEW by \in {"ev", "wr"},
         NEW a \in SUBSET (DOMAIN cases), NEW b \in SUBSET (DOMAIN cases), a \cap b = {}
  PROVE  /\ ~Less(cases, a \cup b, a, by) => ~Less(cases, b, a, by)
         /\ ~Less(cases, b, a \cup b, by) => ~Less(cases, b, a, by)
<1>1. PICK x \in Int, y \in Int : x = Worth(cases, a, by) /\ y = Worth(cases, b, by)
  BY WorthAdds
<1>2. PICK p \in Nat, q \in Nat : p = Cardinality(a) /\ q = Cardinality(b)
  BY RowsFinite
<1>3. Worth(cases, a \cup b, by) = x + y
  BY <1>1, WorthAdds
<1>4. Cardinality(a \cup b) = p + q
  <2>1. IsFiniteSet(a) /\ IsFiniteSet(b)
    BY RowsFinite
  <2> QED BY <1>2, <2>1, CountJoins
<1>5. Less(cases, a \cup b, a, by) <=> (x + y) * p < x * (p + q)
  BY <1>1, <1>2, <1>3, <1>4 DEF Less
<1>6. Less(cases, b, a \cup b, by) <=> y * (p + q) < (x + y) * q
  BY <1>1, <1>2, <1>3, <1>4 DEF Less
<1>7. Less(cases, b, a, by) <=> y * p < x * q
  BY <1>1, <1>2 DEF Less
<1> QED BY <1>5, <1>6, <1>7, Averages

LEMMA BelowGrows ==
  ASSUME NEW cases \in Seq(Validated), NEW s \in Int, NEW t \in Int, s <= t
  PROVE  Below(cases, s) \subseteq Below(cases, t) /\ Above(cases, t) \subseteq Above(cases, s)
<1>1. Below(cases, s) \subseteq Below(cases, t)
  <2> SUFFICES ASSUME NEW i \in DOMAIN cases, cases[i].score < s PROVE cases[i].score < t
    BY DEF Below
  <2>1. cases[i].score \in Int
    BY ClippedType
  <2> QED BY <2>1
<1> QED BY <1>1 DEF Above

LEMMA EnoughGrows ==
  ASSUME NEW cases \in Seq(Validated), NEW a \in SUBSET (DOMAIN cases), NEW b \in SUBSET (DOMAIN cases),
         a \subseteq b, Enough(a)
  PROVE  Enough(b)
<1>1. IsFiniteSet(b) /\ Cardinality(b) \in Nat /\ Cardinality(a) \in Nat
  BY RowsFinite
<1>2. Cardinality(a) <= Cardinality(b)
  BY <1>1, FS_Subset
<1>3. MinBucket \in Nat
  BY ModelVerdictAssumption
<1> QED BY <1>1, <1>2, <1>3 DEF Enough

RowsRank(cases, floor, ceiling, by) ==
  LET grey == DOMAIN cases \ (Below(cases, floor) \cup Above(cases, ceiling))
  IN /\ grey # {}
     /\ ~Less(cases, grey, Below(cases, floor), by)
     /\ ~Less(cases, Above(cases, ceiling), grey, by)

LEMMA FoundRank ==
  ASSUME NEW cases \in Seq(Validated), NEW by \in {"ev", "wr"}, NEW floor \in Int, NEW ceiling \in Int,
         IsFloor(Tenths, cases, by, 15, floor), IsCeiling(Tenths, cases, by, 35, ceiling),
         floor < ceiling, Enough(Below(cases, floor)), Enough(Above(cases, ceiling))
  PROVE  RowsRank(cases, floor, ceiling, by)
<1> DEFINE down == Below(cases, floor)
           up == Above(cases, ceiling)
           grey == DOMAIN cases \ (down \cup up)
<1>1. floor \in FloorFit(Tenths, cases) /\ LowestMean(FloorFit(Tenths, cases), cases, by, floor)
  <2>1. FloorFit(Tenths, cases) # {}
    BY Grids DEF IsFloor, FloorFit
  <2> QED BY <2>1 DEF IsFloor
<1>2. /\ ceiling \in CeilingFit(Tenths, cases)
      /\ HighestMean(CeilingFit(Tenths, cases), cases, by, ceiling)
      /\ \A s \in CeilingFit(Tenths, cases) :
           HighestMean(CeilingFit(Tenths, cases), cases, by, s) => ceiling <= s
  <2>1. CeilingFit(Tenths, cases) # {}
    BY Grids DEF IsCeiling, CeilingFit
  <2> QED BY <2>1 DEF IsCeiling
<1>3. down \subseteq Below(cases, ceiling) /\ up \subseteq Above(cases, floor)
  BY BelowGrows
<1>4. /\ down \in SUBSET (DOMAIN cases) /\ up \in SUBSET (DOMAIN cases)
      /\ grey \in SUBSET (DOMAIN cases) /\ down \cap grey = {} /\ grey \cap up = {}
  BY BucketsAre
<1>5. down \cup grey = Below(cases, ceiling)
  BY <1>3 DEF Above, Below
<1>6. grey \cup up = Above(cases, floor)
  <2>1. Above(cases, floor) = DOMAIN cases \ down /\ up \in SUBSET (DOMAIN cases)
    BY <1>4 DEF Above
  <2> HIDE DEF down, up
  <2> QED BY <1>3, <2>1
<1>7. ceiling \in FloorFit(Tenths, cases)
  <2>1. Enough(Below(cases, ceiling))
    BY <1>3, BucketsAre, EnoughGrows
  <2> QED BY <1>2, <2>1 DEF FloorFit, CeilingFit
<1>8. floor \in CeilingFit(Tenths, cases)
  <2>1. Enough(Above(cases, floor))
    BY <1>3, BucketsAre, EnoughGrows
  <2> QED BY <1>1, <2>1 DEF FloorFit, CeilingFit
<1>9. ~Less(cases, down \cup grey, down, by)
  BY <1>1, <1>5, <1>7 DEF LowestMean
<1>10. ~Less(cases, up, grey \cup up, by)
  BY <1>2, <1>6, <1>8 DEF HighestMean
<1>11. grey # {}
  <2>1. SUFFICES ASSUME grey = {} PROVE FALSE
    OBVIOUS
  <2>2. Above(cases, floor) = Above(cases, ceiling)
    BY <1>6, <2>1
  <2>3. HighestMean(CeilingFit(Tenths, cases), cases, by, floor)
    BY <1>2, <2>2 DEF HighestMean
  <2>4. ceiling <= floor
    BY <1>2, <1>8, <2>3
  <2> QED BY <2>4
<1> HIDE DEF down, up, grey
<1>12. ~Less(cases, grey, down, by)
  BY <1>4, <1>9, LessIs
<1>13. ~Less(cases, up, grey, by)
  BY <1>4, <1>10, LessIs
<1> QED BY <1>11, <1>12, <1>13 DEF RowsRank, down, up, grey

(* ------------------- the outer fifths ----------------------------------- *)
LEMMA TopRow ==
  ASSUME NEW cases \in Seq(Validated), NEW b \in SUBSET (DOMAIN cases), b # {}
  PROVE  \E m \in b : \A l \in b : cases[l].score <= cases[m].score
<1> DEFINE R == {p \in b \X b : cases[p[2]].score <= cases[p[1]].score}
<1>0. IsFiniteSet(b)
  BY RowsFinite
<1>1. \A x, y \in b : <<x, y>> \in R <=> cases[y].score <= cases[x].score
  OBVIOUS
<1> HIDE DEF R
<1>2. \A x \in b : cases[x].score \in Int
  BY ClippedType
<1>3. ASSUME NEW x \in b, NEW y \in b PROVE <<x, y>> \in R \/ <<y, x>> \in R
  <2>1. PICK p \in Int, q \in Int : p = cases[x].score /\ q = cases[y].score
    BY <1>2
  <2> QED BY <1>1, <2>1
<1>4. ASSUME NEW x \in b, NEW y \in b, NEW z \in b, <<x, y>> \in R, <<y, z>> \in R
      PROVE  <<x, z>> \in R
  <2>1. PICK p \in Int, q \in Int, r \in Int :
          p = cases[x].score /\ q = cases[y].score /\ r = cases[z].score
    BY <1>2
  <2>2. q <= p /\ r <= q
    BY <1>1, <1>4, <2>1
  <2>3. r <= p
    BY <2>2
  <2> QED BY <1>1, <2>1, <2>3
<1>5. HasLeast(b, R)
  BY <1>0, <1>3, <1>4, LeastOf
<1> QED BY <1>1, <1>5 DEF HasLeast

NoHigher(cases, k) == {l \in DOMAIN cases : cases[l].score <= cases[k].score}
ScoresFrom(cases, i) == {cases[j].score : j \in {k \in DOMAIN cases : Cardinality(NoHigher(cases, k)) >= i}}

LeastRank(cases, i) ==
  /\ Nth(cases, i) \in ScoresFrom(cases, i) /\ ScoresFrom(cases, i) \subseteq 0..Certain
  /\ \A y \in ScoresFrom(cases, i) : Nth(cases, i) <= y

LEMMA RankedHas ==
  ASSUME NEW cases \in Seq(Validated), Probably(cases), NEW i \in 1..Len(cases)
  PROVE  LeastRank(cases, i)
<1>1. PICK n \in Nat : n = Len(cases) /\ DOMAIN cases = 1..n /\ Cardinality(DOMAIN cases) = n
  BY RowsFinite
<1>2. DOMAIN cases # {} /\ i \in Int /\ i <= n
  BY <1>1
<1>3. PICK m \in DOMAIN cases : \A l \in DOMAIN cases : cases[l].score <= cases[m].score
  BY <1>2, TopRow
<1>4. NoHigher(cases, m) = DOMAIN cases
  BY <1>3 DEF NoHigher
<1>5. cases[m].score \in ScoresFrom(cases, i)
  BY <1>1, <1>2, <1>4 DEF ScoresFrom
<1>6. ScoresFrom(cases, i) \subseteq 0..Certain
  BY DEF ScoresFrom, Probably
<1>7. PICK S : S = ScoresFrom(cases, i)
  OBVIOUS
<1>8. S # {} /\ S \subseteq Nat
  <2>1. 0..Certain \subseteq Nat
    BY DEF Certain
  <2> QED BY <1>5, <1>6, <1>7, <2>1
<1>9. Min(S) \in S /\ \A y \in S : Min(S) <= y
  BY <1>8, LeastInt
<1>10. Nth(cases, i) = Min(ScoresFrom(cases, i))
  BY DEF Nth, ScoresFrom, NoHigher
<1> QED BY <1>6, <1>7, <1>8, <1>9, <1>10 DEF LeastRank

LEMMA NthIs ==
  ASSUME NEW cases \in Seq(Validated), Probably(cases), NEW i \in 1..Len(cases)
  PROVE  /\ Nth(cases, i) \in 0..Certain
         /\ Cardinality(Below(cases, Nth(cases, i))) < i
         /\ \A j \in 1..Len(cases) : i <= j => Nth(cases, i) <= Nth(cases, j)
<1>0. /\ DOMAIN cases = 1..Len(cases) /\ Len(cases) \in Nat
      /\ \A k \in DOMAIN cases : Cardinality(NoHigher(cases, k)) \in Nat
  BY RowsFinite DEF NoHigher
<1>a. LeastRank(cases, i)
  BY RankedHas
<1>1. Nth(cases, i) \in 0..Certain
  BY <1>a DEF LeastRank
<1>2. Cardinality(Below(cases, Nth(cases, i))) < i
  <2>1. PICK a \in 0..Certain : a = Nth(cases, i)
    BY <1>1
  <2>b. Below(cases, a) \in SUBSET (DOMAIN cases)
    BY BucketsAre
  <2>c. \A b \in SUBSET (DOMAIN cases) : Cardinality(b) \in Nat
    BY RowsFinite
  <2>2. Cardinality(Below(cases, a)) \in Nat /\ i \in Int
    BY <2>b, <2>c
  <2>3. SUFFICES ASSUME Cardinality(Below(cases, a)) >= i PROVE FALSE
    BY <2>1, <2>2
  <2>4. Below(cases, a) # {}
    <3>1. Cardinality(Below(cases, a)) # 0
      BY <2>2, <2>3
    <3> QED BY <3>1, FS_EmptySet
  <2>5. PICK m \in Below(cases, a) : \A l \in Below(cases, a) : cases[l].score <= cases[m].score
    BY <2>4, BucketsAre, TopRow
  <2>6. m \in DOMAIN cases /\ cases[m].score < a /\ cases[m].score \in Int
    BY <2>5, ClippedType DEF Below
  <2>7. NoHigher(cases, m) = Below(cases, a)
    <3>1. ASSUME NEW l \in DOMAIN cases PROVE l \in NoHigher(cases, m) <=> l \in Below(cases, a)
      <4>1. PICK p \in Int, q \in Int : p = cases[l].score /\ q = cases[m].score
        BY <2>6, ClippedType
      <4>2. CASE l \in Below(cases, a)
        BY <2>5, <4>2 DEF NoHigher
      <4>3. CASE l \in NoHigher(cases, m)
        <5>1. p <= q /\ q < a
          BY <2>6, <4>1, <4>3 DEF NoHigher
        <5>2. p < a
          BY <2>1, <5>1
        <5> QED BY <4>1, <4>3, <5>2 DEF Below
      <4> QED BY <4>2, <4>3
    <3> QED BY <3>1 DEF NoHigher, Below
  <2>8. cases[m].score \in ScoresFrom(cases, i)
    BY <2>3, <2>6, <2>7 DEF ScoresFrom
  <2>9. a <= cases[m].score
    BY <1>a, <2>1, <2>8 DEF LeastRank
  <2> QED BY <2>1, <2>6, <2>9
<1>3. ASSUME NEW j \in 1..Len(cases), i <= j PROVE Nth(cases, i) <= Nth(cases, j)
  <2>1. Nth(cases, j) \in ScoresFrom(cases, j)
    <3>1. LeastRank(cases, j)
      BY RankedHas
    <3> QED BY <3>1 DEF LeastRank
  <2>2. PICK k \in DOMAIN cases : Cardinality(NoHigher(cases, k)) >= j /\ Nth(cases, j) = cases[k].score
    BY <2>1 DEF ScoresFrom
  <2>3. Cardinality(NoHigher(cases, k)) >= i
    <3>1. PICK c \in Nat : c = Cardinality(NoHigher(cases, k))
      BY <1>0
    <3>2. i \in Int /\ j \in Int /\ c >= j
      BY <2>2, <3>1
    <3>3. c >= i
      BY <1>3, <3>2
    <3> QED BY <3>1, <3>3
  <2>4. Nth(cases, j) \in ScoresFrom(cases, i)
    BY <2>2, <2>3 DEF ScoresFrom
  <2> QED BY <1>a, <2>4 DEF LeastRank
<1> QED BY <1>1, <1>2, <1>3

LEMMA Slice ==
  ASSUME NEW r \in 1..4, NEW d \in Nat
  PROVE  /\ (r * d) \div 5 \in Nat
         /\ d > 0 => (r * d) \div 5 < d
         /\ d = 0 => (r * d) \div 5 = 0
<1>1. r = 1 \/ r = 2 \/ r = 3 \/ r = 4
  OBVIOUS
<1> QED BY <1>1

(* Where a fifth lies among the ranks.                                       *)
FifthAt(cases, k) == (k * (Len(cases) - 1)) \div 5 + 1
FifthOver(cases, k) == (k * (Len(cases) - 1)) % 5

LEMMA FifthAtIs ==
  ASSUME NEW cases \in Seq(Validated), cases # <<>>, NEW k \in {1, 4}
  PROVE  /\ Len(cases) \in Nat \ {0}
         /\ FifthAt(cases, k) \in 1..Len(cases) /\ FifthOver(cases, k) \in 0..4
         /\ FifthOver(cases, k) # 0 => FifthAt(cases, k) + 1 \in 1..Len(cases)
         /\ FifthOver(cases, k) = 0 => Fifth(cases, k) = Nth(cases, FifthAt(cases, k))
         /\ FifthOver(cases, k) # 0 =>
              Fifth(cases, k) = Nth(cases, FifthAt(cases, k))
                + (FifthOver(cases, k) * (Nth(cases, FifthAt(cases, k) + 1) - Nth(cases, FifthAt(cases, k)))) \div 5
<1>1. PICK n \in Nat \ {0} : n = Len(cases)
  BY EmptySeq, LenProperties
<1>2. PICK h \in Nat : h = k * (n - 1) /\ h <= 4 * (n - 1)
  <2>1. CASE k = 1
    BY <2>1
  <2>2. CASE k = 4
    BY <2>2
  <2> QED BY <2>1, <2>2
<1>3. /\ h \div 5 + 1 \in 1..n /\ h % 5 \in 0..4
      /\ h % 5 # 0 => (h \div 5 + 1) + 1 \in 1..n
  BY <1>2
<1>4. FifthAt(cases, k) = h \div 5 + 1 /\ FifthOver(cases, k) = h % 5
  BY <1>1, <1>2 DEF FifthAt, FifthOver
<1>5. Fifth(cases, k) =
        IF FifthOver(cases, k) = 0 THEN Nth(cases, FifthAt(cases, k))
        ELSE Nth(cases, FifthAt(cases, k))
               + (FifthOver(cases, k) * (Nth(cases, FifthAt(cases, k) + 1) - Nth(cases, FifthAt(cases, k)))) \div 5
  BY DEF Fifth, FifthAt, FifthOver
<1> QED BY <1>1, <1>3, <1>4, <1>5

LEMMA FifthIs ==
  ASSUME NEW cases \in Seq(Validated), Probably(cases), cases # <<>>, NEW k \in {1, 4}
  PROVE  /\ Fifth(cases, k) \in Int /\ Nth(cases, FifthAt(cases, k)) <= Fifth(cases, k)
         /\ Fifth(cases, k) # Nth(cases, FifthAt(cases, k)) =>
              FifthOver(cases, k) # 0 /\ Fifth(cases, k) < Nth(cases, FifthAt(cases, k) + 1)
<1>1. FifthAt(cases, k) \in 1..Len(cases)
  BY FifthAtIs
<1>2. PICK a \in Nat : a = Nth(cases, FifthAt(cases, k))
  BY <1>1, NthIs DEF Certain
<1>3. CASE FifthOver(cases, k) = 0
  <2>1. Fifth(cases, k) = a
    BY <1>2, <1>3, FifthAtIs
  <2> QED BY <1>2, <2>1
<1>4. CASE FifthOver(cases, k) # 0
  <2>1. PICK i \in Int : i = FifthAt(cases, k)
    BY <1>1
  <2>2. i \in 1..Len(cases) /\ i + 1 \in 1..Len(cases)
    BY <1>1, <1>4, <2>1, FifthAtIs
  <2>3. Nth(cases, i + 1) \in 0..Certain /\ Nth(cases, i) <= Nth(cases, i + 1)
    <3>1. Nth(cases, i + 1) \in 0..Certain
      BY <2>2, NthIs
    <3>2. \A j \in 1..Len(cases) : i <= j => Nth(cases, i) <= Nth(cases, j)
      BY <2>2, NthIs
    <3> QED BY <2>2, <3>1, <3>2
  <2>4. PICK b \in Nat : b = Nth(cases, i + 1)
    BY <2>3 DEF Certain
  <2>5. PICK r \in 1..4 : r = FifthOver(cases, k)
    <3>1. FifthOver(cases, k) \in 0..4
      BY FifthAtIs
    <3> QED BY <1>4, <3>1
  <2>6. PICK d \in Nat : d = b - a
    BY <1>2, <2>1, <2>3, <2>4
  <2>7. Fifth(cases, k) = a + (r * d) \div 5
    <3>1. Fifth(cases, k) = Nth(cases, FifthAt(cases, k))
            + (FifthOver(cases, k) * (Nth(cases, FifthAt(cases, k) + 1) - Nth(cases, FifthAt(cases, k)))) \div 5
      BY <1>4, FifthAtIs
    <3> QED BY <1>2, <2>1, <2>4, <2>5, <2>6, <3>1
  <2>8. PICK x \in Nat : x = (r * d) \div 5 /\ (d > 0 => x < d) /\ (d = 0 => x = 0)
    BY Slice
  <2>9. Fifth(cases, k) = a + x
    BY <2>7, <2>8
  <2>10. b = a + d
    BY <1>2, <2>4, <2>6
  <2>13. a \in Nat /\ d \in Nat /\ x \in Nat /\ (d > 0 => x < d) /\ (d = 0 => x = 0)
    BY <1>2, <2>6, <2>8
  <2>11. a + x # a => a + x < b
    BY ONLY <2>10, <2>13
  <2>12. a + x \in Int /\ a <= a + x
    BY ONLY <2>13
  <2> QED BY <1>2, <1>4, <2>1, <2>4, <2>9, <2>11, <2>12
<1> QED BY <1>3, <1>4

(* Either the outer fifths are apart, or few rows are below the lower one.   *)
LEMMA FifthsApart ==
  ASSUME NEW cases \in Seq(Validated), Probably(cases), cases # <<>>
  PROVE  \/ Fifth(cases, 1) < Fifth(cases, 4)
         \/ 5 * Cardinality(Below(cases, Fifth(cases, 1))) <= Len(cases) - 1
<1>1. PICK n \in Nat \ {0} : n = Len(cases)
  BY FifthAtIs
<1>2. PICK i \in 1..n : i = FifthAt(cases, 1)
  BY <1>1, FifthAtIs
<1>3. PICK e \in 1..n : e = FifthAt(cases, 4)
  BY <1>1, FifthAtIs
<1>4. i = (n - 1) \div 5 + 1 /\ e = (4 * (n - 1)) \div 5 + 1
  BY <1>1, <1>2, <1>3 DEF FifthAt
<1>5. PICK low \in Int, high \in Int : low = Fifth(cases, 1) /\ high = Fifth(cases, 4)
  BY FifthIs
<1>6. CASE low = Nth(cases, i)
  <2>1. Cardinality(Below(cases, low)) < i
    BY <1>1, <1>6, NthIs
  <2>2. PICK c \in Nat : c = Cardinality(Below(cases, low))
    BY BucketsAre, RowsFinite
  <2>3. 5 * c <= n - 1
    BY <1>4, <2>1, <2>2
  <2> QED BY <1>1, <1>5, <2>2, <2>3
<1>7. CASE low # Nth(cases, i)
  <2>1. FifthOver(cases, 1) # 0 /\ low < Nth(cases, i + 1) /\ Nth(cases, i) <= low
    BY <1>2, <1>5, <1>7, FifthIs
  <2>2. (n - 1) % 5 # 0 /\ i + 1 \in 1..n
    BY <1>1, <1>2, <2>1, FifthAtIs DEF FifthOver
  <2>3. CASE n > 2
    <3>1. i + 1 <= e
      BY <1>4, <2>2, <2>3
    <3>2. Nth(cases, i + 1) <= Nth(cases, e)
      BY <1>1, <2>2, <3>1, NthIs
    <3>3. Nth(cases, e) <= high
      BY <1>3, <1>5, FifthIs
    <3>4. Nth(cases, i + 1) \in 0..Certain /\ Nth(cases, e) \in 0..Certain
      BY <1>1, <2>2, NthIs
    <3>a. PICK x \in Int, y \in Int : x = Nth(cases, i + 1) /\ y = Nth(cases, e)
      BY <3>4
    <3>b. low < x /\ x <= y /\ y <= high
      BY <2>1, <3>2, <3>3, <3>a
    <3>5. low < high
      BY <3>b
    <3> QED BY <1>5, <3>5
  <2>4. CASE n <= 2
    <3>1. n = 2 /\ i = 1 /\ e = 1
      BY <1>4, <2>2, <2>4
    <3>2. FifthOver(cases, 1) = 1 /\ FifthOver(cases, 4) = 4
      BY <1>1, <3>1 DEF FifthOver
    <3>3. PICK a \in Nat, b \in Nat : a = Nth(cases, 1) /\ b = Nth(cases, 2) /\ a <= b
      <4>1. 1 \in 1..Len(cases) /\ 2 \in 1..Len(cases) /\ 1 <= 2
        BY <1>1, <3>1
      <4>2. Nth(cases, 1) \in 0..Certain /\ Nth(cases, 2) \in 0..Certain
        BY <4>1, NthIs
      <4>3. Nth(cases, 1) <= Nth(cases, 2)
        BY <4>1, NthIs
      <4>4. 0..Certain \subseteq Nat
        BY DEF Certain
      <4> HIDE DEF Certain
      <4> QED BY <4>2, <4>3, <4>4
    <3>4. low = a + (1 * (b - a)) \div 5
      <4>1. low = Nth(cases, i) + (1 * (Nth(cases, i + 1) - Nth(cases, i))) \div 5
        BY <1>2, <1>5, <3>2, FifthAtIs
      <4>2. Nth(cases, i + 1) = b /\ Nth(cases, i) = a
        BY <3>1, <3>3
      <4> QED BY <4>1, <4>2
    <3>5. high = a + (4 * (b - a)) \div 5
      <4>1. high = Nth(cases, e) + (4 * (Nth(cases, e + 1) - Nth(cases, e))) \div 5
        BY <1>3, <1>5, <3>2, FifthAtIs
      <4>2. Nth(cases, e + 1) = b /\ Nth(cases, e) = a
        BY <3>1, <3>3
      <4> QED BY <4>1, <4>2
    <3>6. low # a
      BY <1>7, <3>1, <3>3
    <3>7. low < high
      <4>1. PICK d \in Nat : d = b - a
        BY <3>3
      <4>2. low = a + d \div 5 /\ high = a + (4 * d) \div 5
        BY <3>4, <3>5, <4>1
      <4>3. d \div 5 > 0 => d \div 5 < (4 * d) \div 5
        OBVIOUS
      <4>4. d \div 5 \in Nat
        OBVIOUS
      <4> QED BY <3>6, <4>2, <4>3, <4>4
    <3> QED BY <1>5, <3>7
  <2> QED BY <2>3, <2>4
<1> QED BY <1>6, <1>7

LEMMA ScaleDown ==
  ASSUME NEW x \in Int, NEW y \in Int, NEW k \in Nat \ {0}, k * x <= k * y
  PROVE  x <= y
<1>1. k * x = x * k /\ k * y = y * k
  OBVIOUS
<1> QED BY <1>1, ScaleUp

LEMMA FallbackRank ==
  ASSUME NEW cases \in Seq(Validated), Probably(cases), cases # <<>>,
         StillRanks(cases, Fifth(cases, 1), Fifth(cases, 4))
  PROVE  /\ Fifth(cases, 1) < Fifth(cases, 4)
         /\ Less(cases, Below(cases, Fifth(cases, 1)), DOMAIN cases, "wr")
         /\ Less(cases, DOMAIN cases, Above(cases, Fifth(cases, 4)), "wr")
<1>1. PICK n \in Nat \ {0} : n = Len(cases) /\ Cardinality(DOMAIN cases) = n
  BY FifthAtIs, RowsFinite
<1>2. PICK low \in Int, high \in Int : low = Fifth(cases, 1) /\ high = Fifth(cases, 4)
  BY FifthIs
<1>3. PICK down \in SUBSET (DOMAIN cases), up \in SUBSET (DOMAIN cases) :
        down = Below(cases, low) /\ up = Above(cases, high)
  BY BucketsAre
<1>4. PICK d \in Nat, u \in Nat : d = Cardinality(down) /\ u = Cardinality(up)
  BY RowsFinite
<1>5. PICK w \in Nat, wd \in Nat, wu \in Nat :
        w = Won(cases, DOMAIN cases) /\ wd = Won(cases, down) /\ wu = Won(cases, up)
  BY WonType
<1>6. /\ w > 0 /\ up # {} /\ down # {}
      /\ 10 * wu * n >= 13 * w * u
      /\ 10 * wd * n <= 7 * w * d
  BY <1>1, <1>2, <1>3, <1>4, <1>5 DEF StillRanks
<1>7. d > 0 /\ u > 0
  <2>1. IsFiniteSet(down) /\ IsFiniteSet(up)
    BY RowsFinite
  <2>2. d # 0 /\ u # 0
    BY <1>4, <1>6, <2>1, FS_EmptySet
  <2> QED BY <2>2
<1>8. w * d \in Nat /\ w * d > 0 /\ w * u \in Nat /\ w * u > 0
  BY <1>6, <1>7
<1>9. wd * n < w * d /\ w * u < wu * n
  <2>1. PICK p \in Nat, q \in Nat : p = wd * n /\ q = wu * n
    OBVIOUS
  <2>2. 10 * wd * n = 10 * p /\ 10 * wu * n = 10 * q
    BY <2>1
  <2>3. 13 * w * u = 13 * (w * u) /\ 7 * w * d = 7 * (w * d)
    OBVIOUS
  <2>4. PICK a \in Nat, b \in Nat : a = w * d /\ b = w * u
    OBVIOUS
  <2>5. 10 * p <= 7 * a /\ 10 * q >= 13 * b /\ a > 0 /\ b > 0
    BY <1>6, <1>8, <2>2, <2>3, <2>4
  <2> QED BY <2>1, <2>4, <2>5
<1>10. Less(cases, Below(cases, low), DOMAIN cases, "wr")
  BY <1>1, <1>3, <1>4, <1>5, <1>9 DEF Less, Worth
<1>11. Less(cases, DOMAIN cases, Above(cases, high), "wr")
  BY <1>1, <1>3, <1>4, <1>5, <1>9 DEF Less, Worth
<1>12. low < high
  <2>1. SUFFICES ASSUME ~(low < high) PROVE FALSE
    OBVIOUS
  <2>2. 5 * d <= n - 1
    BY <1>1, <1>2, <1>3, <1>4, <2>1, FifthsApart
  <2>3. u >= n - d
    <3>1. Above(cases, low) \subseteq up
      BY <1>3, <2>1, BelowGrows
    <3>2. PICK rest \in SUBSET (DOMAIN cases) : rest = Above(cases, low)
      BY BucketsAre
    <3>3. IsFiniteSet(down) /\ IsFiniteSet(rest) /\ IsFiniteSet(up)
      BY RowsFinite
    <3>4. PICK r \in Nat : r = Cardinality(rest)
      BY RowsFinite
    <3>5. down \cup rest = DOMAIN cases /\ down \cap rest = {}
      BY <1>3, <3>2, BucketsAre
    <3>6. n = d + r
      BY <1>1, <1>4, <3>3, <3>4, <3>5, CountJoins
    <3>7. r <= u
      <4>1. rest \in SUBSET up
        BY <3>1, <3>2
      <4>2. Cardinality(rest) <= Cardinality(up)
        BY <3>3, <4>1, FS_Subset
      <4> QED BY <1>4, <3>4, <4>2
    <3> QED BY <3>6, <3>7
  <2>4. wu <= w
    <3>1. up \subseteq DOMAIN cases /\ DOMAIN cases \in SUBSET (DOMAIN cases)
      OBVIOUS
    <3> QED BY <1>5, <3>1, WonAdds
  <2>5. wu * n <= w * n
    BY <2>4, ScaleUp
  <2>6. w * (13 * u) <= w * (10 * n)
    <3>1. PICK p \in Nat, q \in Nat, b \in Nat : p = wu * n /\ q = w * n /\ b = w * u
      OBVIOUS
    <3>2. 10 * wu * n = 10 * p /\ 13 * w * u = 13 * b
      BY <3>1
    <3>3. w * (13 * u) = 13 * b /\ w * (10 * n) = 10 * q
      BY <3>1
    <3>4. 10 * p >= 13 * b /\ p <= q
      BY <1>6, <2>5, <3>1, <3>2
    <3> QED BY <3>3, <3>4
  <2>7. 13 * u <= 10 * n
    <3>1. PICK x \in Int, y \in Int : x = 13 * u /\ y = 10 * n
      OBVIOUS
    <3>2. w * x <= w * y /\ w \in Nat \ {0}
      BY <1>6, <2>6, <3>1
    <3>3. x <= y
      BY <3>2, ScaleDown
    <3> QED BY <3>1, <3>3
  <2> QED BY <2>2, <2>3, <2>7
<1> QED BY <1>2, <1>10, <1>11, <1>12

(* What the search promises of its thresholds.                               *)
Promise(cases, floor, ceiling, status, by) ==
  /\ status # "degenerate_flat" => floor < ceiling
  /\ status = "ok" /\ Enough(Below(cases, floor)) /\ Enough(Above(cases, ceiling)) =>
       RowsRank(cases, floor, ceiling, by)
  /\ status = "ok_percentile_fallback" =>
       /\ Less(cases, Below(cases, floor), DOMAIN cases, "wr")
       /\ Less(cases, DOMAIN cases, Above(cases, ceiling), "wr")

Statuses == {"none", "ok", "ok_percentile_fallback", "degenerate_flat", "priors", "found", "fixed"}

LEMMA OnGridIsInt ==
  ASSUME NEW cases \in Seq(Validated), NEW by \in {"ev", "wr", "both"}, NEW default \in Int,
         NEW grid \in SUBSET Int, IsFiniteSet(grid)
  PROVE  FloorOn(grid, cases, by, default) \in Int /\ CeilingOn(grid, cases, by, default) \in Int
<1>1. PICK f : f = FloorOn(grid, cases, by, default) /\ IsFloor(grid, cases, by, default, f)
  BY FloorIs
<1>2. PICK c : c = CeilingOn(grid, cases, by, default) /\ IsCeiling(grid, cases, by, default, c)
  BY CeilingIs
<1>3. f \in Int
  BY <1>1 DEF IsFloor, FloorFit
<1>4. c \in Int
  BY <1>2 DEF IsCeiling, CeilingFit
<1> QED BY <1>1, <1>2, <1>3, <1>4

LEMMA ConfidenceRank ==
  ASSUME NEW cases \in Seq(Validated), Probably(cases), cases # <<>>, NEW by \in {"ev", "wr"}
  PROVE  LET t == ConfidenceThresholds(cases, by)
         IN /\ t.floor \in Int /\ t.ceiling \in Int /\ t.status \in Statuses
            /\ Promise(cases, t.floor, t.ceiling, t.status, by)
<1>1. PICK f : f = FloorOn(Tenths, cases, by, 15)
  OBVIOUS
<1>2. PICK c : c = CeilingOn(Tenths, cases, by, 35)
  OBVIOUS
<1>3. f \in Int /\ c \in Int
  BY <1>1, <1>2, Grids, OnGridIsInt
<1>4. PICK low \in Int, high \in Int : low = Fifth(cases, 1) /\ high = Fifth(cases, 4)
  BY FifthIs
<1>5. CASE f < c
  <2>1. ConfidenceThresholds(cases, by) = [floor |-> f, ceiling |-> c, status |-> "ok"]
    BY <1>1, <1>2, <1>5 DEF ConfidenceThresholds
  <2>2. IsFloor(Tenths, cases, by, 15, f) /\ IsCeiling(Tenths, cases, by, 35, c)
    BY <1>1, <1>2, Grids, FloorIs, CeilingIs
  <2>3. Enough(Below(cases, f)) /\ Enough(Above(cases, c)) => RowsRank(cases, f, c, by)
    BY <1>3, <1>5, <2>2, FoundRank
  <2> QED BY <1>3, <1>5, <2>1, <2>3 DEF Promise, Statuses
<1>6. CASE ~(f < c)
  <2>1. ConfidenceThresholds(cases, by) =
          [floor |-> low, ceiling |-> high, status |->
             IF StillRanks(cases, low, high) THEN "ok_percentile_fallback" ELSE "degenerate_flat"]
    BY <1>1, <1>2, <1>4, <1>6 DEF ConfidenceThresholds
  <2>2. StillRanks(cases, low, high) =>
          /\ low < high
          /\ Less(cases, Below(cases, low), DOMAIN cases, "wr")
          /\ Less(cases, DOMAIN cases, Above(cases, high), "wr")
    BY <1>4, FallbackRank
  <2> QED BY <1>4, <2>1, <2>2 DEF Promise, Statuses
<1> QED BY <1>5, <1>6

LEMMA PnlRank ==
  ASSUME NEW cases \in Seq(Validated)
  PROVE  LET t == PnlThresholds(cases)
         IN /\ t.floor \in Int /\ t.ceiling \in Int /\ t.floor < t.ceiling
            /\ t.status \in {"priors", "found"}
<1> DEFINE lossy == {t \in Fives : Won(cases, Below(cases, t)) < Cardinality(Below(cases, t))}
<1>1. lossy \in SUBSET Int /\ IsFiniteSet(lossy)
  BY Grids, FS_Subset
<1>2. PICK f : f = FloorOn(lossy, cases, "wr", 0)
  OBVIOUS
<1>3. PICK c : c = CeilingOn(Fives, cases, "both", 10)
  OBVIOUS
<1>4. PnlThresholds(cases) =
        IF c <= f THEN [floor |-> -10, ceiling |-> 5, status |-> "priors"]
        ELSE [floor |-> f, ceiling |-> c, status |-> "found"]
  BY <1>2, <1>3 DEF PnlThresholds
<1> HIDE DEF lossy
<1>5. f \in Int
  BY <1>1, <1>2, OnGridIsInt
<1>6. c \in Int
  BY <1>3, Grids, OnGridIsInt
<1>7. CASE c <= f
  BY <1>4, <1>7
<1>8. CASE ~(c <= f)
  BY <1>4, <1>5, <1>6, <1>8
<1> QED BY <1>7, <1>8

(* ------------------- a model's answers ---------------------------------- *)
VerdictSpec == VerdictInit /\ [][VerdictNext]_verdictVars

Metas == [head : {"none", "probability", "percentage", "early"}, floor : Int,
          ceiling : Int, status : Statuses, by : {"none", "ev", "wr", "both"},
          skilled : BOOLEAN]
Policies == [head : {"none", "probability", "percentage", "early"}, floor : Int,
             ceiling : Int, inert : BOOLEAN, grey : BOOLEAN, careful : BOOLEAN]

(* What is loaded, and an answer it gave.                                    *)
Inert(p) == p.inert /\ p.head = "probability" => p.floor = 0 /\ p.ceiling = Certain
Answered(p, a) == \E score \in Scores, sparse \in BOOLEAN :
                    /\ p.head # "percentage" => score \in 0..Certain
                    /\ a = [score |-> score, sparse |-> sparse,
                            action |-> DecideWithConfidence(p, score, sparse)]

VerdictInv ==
  /\ course \in {"untrained", "trained", "loaded", "dropped"}
  /\ sample \in Validations
  /\ trained \in Metas /\ acting \in Policies
  /\ \/ Promise(sample, trained.floor, trained.ceiling, trained.status, trained.by)
     \/ course = "untrained" /\ trained = NoMeta
  /\ Inert(acting)
  /\ asked = NoAnswer \/ (course = "loaded" /\ Answered(acting, asked))

LEMMA ValidationRows ==
  ASSUME NEW cases \in Validations PROVE cases \in Seq(Validated) /\ cases # <<>>
<1>1. cases # <<>> /\ cases \in Seq([score : Int, pnl : Int])
  BY ModelVerdictAssumption
<1> QED BY <1>1 DEF Validated

LEMMA VerdictStarts == VerdictInit => VerdictInv
<1> SUFFICES ASSUME VerdictInit PROVE VerdictInv
  OBVIOUS
<1>1. NoMeta \in Metas
  BY DEF NoMeta, Metas, Statuses
<1>2. NoPolicy \in Policies /\ Inert(NoPolicy)
  BY DEF NoPolicy, Policies, Inert
<1> QED BY <1>1, <1>2 DEF VerdictInit, VerdictInv

LEMMA VerdictTrains ==
  ASSUME VerdictInv, SaveClassifier \/ SaveRegressor \/ SaveEarly
  PROVE  VerdictInv'
<1>1. sample \in Seq(Validated) /\ sample # <<>>
  BY ValidationRows DEF VerdictInv
<1>2. course' = "trained" /\ sample' = sample /\ acting' = acting /\ asked' = asked
      /\ course = "untrained"
  BY DEF SaveClassifier, SaveRegressor, SaveEarly
<1>3. trained' \in Metas
      /\ Promise(sample, trained'.floor, trained'.ceiling, trained'.status, trained'.by)
  <2>1. CASE SaveClassifier
    <3>1. PICK by \in {"ev", "wr"}, skilled \in BOOLEAN :
            trained' = [head |-> "probability",
                        floor |-> ConfidenceThresholds(sample, by).floor,
                        ceiling |-> ConfidenceThresholds(sample, by).ceiling,
                        status |-> ConfidenceThresholds(sample, by).status, by |-> by,
                        skilled |-> skilled /\
                          ConfidenceThresholds(sample, by).status # "degenerate_flat"]
      BY <2>1 DEF SaveClassifier
    <3>2. PICK t : t = ConfidenceThresholds(sample, by)
      OBVIOUS
    <3>a. Probably(sample)
      BY <2>1 DEF SaveClassifier, Probabilities, Probably
    <3>3. /\ t.floor \in Int /\ t.ceiling \in Int /\ t.status \in Statuses
          /\ Promise(sample, t.floor, t.ceiling, t.status, by)
      BY <1>1, <3>2, <3>a, ConfidenceRank
    <3>4. PICK fit \in BOOLEAN : fit = (skilled /\ t.status # "degenerate_flat")
      OBVIOUS
    <3>5. trained' = [head |-> "probability", floor |-> t.floor, ceiling |-> t.ceiling,
                      status |-> t.status, by |-> by, skilled |-> fit]
      BY <3>1, <3>2, <3>4
    <3>6. trained' \in Metas
      BY <3>3, <3>5 DEF Metas
    <3> QED BY <3>3, <3>5, <3>6
  <2>2. CASE SaveRegressor
    <3>1. PICK skilled \in BOOLEAN :
            trained' = [head |-> "percentage", floor |-> PnlThresholds(sample).floor,
                        ceiling |-> PnlThresholds(sample).ceiling,
                        status |-> PnlThresholds(sample).status, by |-> "both",
                        skilled |-> skilled]
      BY <2>2 DEF SaveRegressor
    <3>2. PICK t : t = PnlThresholds(sample)
      OBVIOUS
    <3>3. /\ t.floor \in Int /\ t.ceiling \in Int /\ t.floor < t.ceiling
          /\ t.status \in {"priors", "found"}
      BY <1>1, <3>2, PnlRank
    <3>4. trained' = [head |-> "percentage", floor |-> t.floor, ceiling |-> t.ceiling,
                      status |-> t.status, by |-> "both", skilled |-> skilled]
      BY <3>1, <3>2
    <3>5. trained' \in Metas
      BY <3>3, <3>4 DEF Metas, Statuses
    <3> QED BY <3>3, <3>4, <3>5 DEF Promise
  <2>3. CASE SaveEarly
    <3>1. PICK skilled \in BOOLEAN :
            trained' = [head |-> "early", floor |-> 8, ceiling |-> 38,
                        status |-> "fixed", by |-> "none", skilled |-> skilled]
      BY <2>3 DEF SaveEarly
    <3>2. trained' \in Metas
      BY <3>1 DEF Metas, Statuses
    <3> QED BY <3>1, <3>2 DEF Promise
  <2> QED BY <2>1, <2>2, <2>3
<1>4. Promise(sample', trained'.floor, trained'.ceiling, trained'.status, trained'.by)
  BY <1>2, <1>3
<1>5. Inert(acting) /\ Inert(acting')
  BY <1>2 DEF VerdictInv
<1>6. asked' = NoAnswer
  BY <1>2 DEF VerdictInv
<1> QED BY <1>2, <1>3, <1>4, <1>5, <1>6 DEF VerdictInv

LEMMA LoadedType ==
  ASSUME NEW meta \in Metas, NEW o \in [floor : Int, ceiling : Int], NEW inert \in BOOLEAN
  PROVE  LET t == LoadedThresholds(meta, o, inert)
         IN /\ t.floor \in Int /\ t.ceiling \in Int
            /\ inert /\ meta.head = "probability" => t.floor = 0 /\ t.ceiling = Certain
<1>1. meta.floor \in Int /\ meta.ceiling \in Int /\ o.floor \in Int /\ o.ceiling \in Int
  BY DEF Metas
<1> QED BY <1>1 DEF LoadedThresholds, Certain

LEMMA VerdictLoads ==
  ASSUME VerdictInv, LoadPolicy \/ LoadEarly
  PROVE  VerdictInv'
<1>1. /\ sample' = sample /\ trained' = trained /\ asked' = asked
      /\ course = "trained" /\ course' \in {"loaded", "dropped"}
  BY DEF LoadPolicy, LoadEarly
<1>2. /\ sample \in Validations /\ trained \in Metas /\ acting \in Policies /\ Inert(acting)
      /\ Promise(sample, trained.floor, trained.ceiling, trained.status, trained.by)
      /\ asked = NoAnswer
  BY <1>1 DEF VerdictInv
<1>3. acting' \in Policies /\ Inert(acting')
  <2>1. CASE LoadPolicy
    <3>1. PICK o \in Overrides, s \in Switches :
            acting' = [head |-> trained.head,
                       floor |-> LoadedThresholds(trained, o, ~trained.skilled /\ ~s.forced).floor,
                       ceiling |-> LoadedThresholds(trained, o, ~trained.skilled /\ ~s.forced).ceiling,
                       inert |-> ~trained.skilled /\ ~s.forced, grey |-> s.grey,
                       careful |-> s.careful]
      BY <2>1 DEF LoadPolicy
    <3>2. /\ o \in [floor : Int, ceiling : Int]
          /\ s \in [forced : BOOLEAN, grey : BOOLEAN, careful : BOOLEAN]
      BY ModelVerdictAssumption
    <3>3. PICK inert \in BOOLEAN : inert = (~trained.skilled /\ ~s.forced)
      OBVIOUS
    <3>4. PICK t : t = LoadedThresholds(trained, o, inert)
      OBVIOUS
    <3>5. /\ t.floor \in Int /\ t.ceiling \in Int
          /\ inert /\ trained.head = "probability" => t.floor = 0 /\ t.ceiling = Certain
      BY <1>2, <3>2, <3>4, LoadedType
    <3>6. acting' = [head |-> trained.head, floor |-> t.floor, ceiling |-> t.ceiling,
                     inert |-> inert, grey |-> s.grey, careful |-> s.careful]
      BY <3>1, <3>3, <3>4
    <3>7. acting' \in Policies
      BY <1>2, <3>2, <3>5, <3>6 DEF Policies, Metas
    <3> QED BY <3>5, <3>6, <3>7 DEF Inert
  <2>2. CASE LoadEarly
    <3>1. CASE trained.skilled
      <4>1. acting' = [NoPolicy EXCEPT !.head = "early", !.floor = trained.floor,
                                       !.ceiling = trained.ceiling]
        BY <2>2, <3>1 DEF LoadEarly
      <4>2. acting' = [head |-> "early", floor |-> trained.floor, ceiling |-> trained.ceiling,
                       inert |-> FALSE, grey |-> FALSE, careful |-> FALSE]
        BY <4>1 DEF NoPolicy
      <4>3. trained.floor \in Int /\ trained.ceiling \in Int
        BY <1>2 DEF Metas
      <4> QED BY <4>2, <4>3 DEF Policies, Inert
    <3>2. CASE ~trained.skilled
      BY <1>2, <2>2, <3>2 DEF LoadEarly
    <3> QED BY <3>1, <3>2
  <2> QED BY <2>1, <2>2
<1>4. Promise(sample', trained'.floor, trained'.ceiling, trained'.status, trained'.by)
  BY <1>1, <1>2
<1> QED BY <1>1, <1>2, <1>3, <1>4 DEF VerdictInv

LEMMA VerdictAnswers ==
  ASSUME VerdictInv, AskModel
  PROVE  VerdictInv'
<1>1. /\ course = "loaded" /\ course' = course /\ sample' = sample /\ trained' = trained
      /\ acting' = acting
  BY DEF AskModel
<1>2. Answered(acting, asked')
  BY DEF AskModel, Answered
<1>3. Promise(sample', trained'.floor, trained'.ceiling, trained'.status, trained'.by)
  BY <1>1 DEF VerdictInv
<1>4. Answered(acting', asked') /\ Inert(acting')
  BY <1>1, <1>2 DEF VerdictInv
<1> QED BY <1>1, <1>3, <1>4 DEF VerdictInv

LEMMA VerdictStutters == VerdictInv /\ UNCHANGED verdictVars => VerdictInv'
<1> SUFFICES ASSUME VerdictInv, UNCHANGED verdictVars PROVE VerdictInv'
  OBVIOUS
<1>1. /\ course' = course /\ sample' = sample /\ trained' = trained /\ acting' = acting
      /\ asked' = asked
  BY DEF verdictVars
<1>2. \/ Promise(sample', trained'.floor, trained'.ceiling, trained'.status, trained'.by)
      \/ course' = "untrained" /\ trained' = NoMeta
  BY <1>1 DEF VerdictInv
<1>3. Inert(acting') /\ (asked' = NoAnswer \/ (course' = "loaded" /\ Answered(acting', asked')))
  BY <1>1 DEF VerdictInv
<1> QED BY <1>1, <1>2, <1>3 DEF VerdictInv

LEMMA VerdictSteps == VerdictInv /\ [VerdictNext]_verdictVars => VerdictInv'
<1>1. VerdictInv /\ VerdictNext => VerdictInv'
  BY VerdictTrains, VerdictLoads, VerdictAnswers DEF VerdictNext
<1> QED BY <1>1, VerdictStutters

LEMMA VerdictMeans == VerdictInv => VerdictRanks
<1> SUFFICES ASSUME VerdictInv PROVE VerdictRanks
  OBVIOUS
<1>1. ThresholdsRank
  <2>1. CASE course = "untrained" /\ trained = NoMeta
    <3>1. trained.status = "none"
      BY <2>1 DEF NoMeta
    <3> QED BY <2>1, <3>1 DEF ThresholdsRank
  <2>2. CASE Promise(sample, trained.floor, trained.ceiling, trained.status, trained.by)
    BY <2>2 DEF ThresholdsRank, Promise, RowsRank
  <2> QED BY <2>1, <2>2 DEF VerdictInv
<1>2. ASSUME NEW score \in Scores, NEW sparse \in BOOLEAN, NEW s \in Scores,
             DecideWithConfidence(acting, score, sparse) = "BUY", ~(s < score)
      PROVE  DecideWithConfidence(acting, s, sparse) # "SKIP"
  <2>1. acting.ceiling \in Int /\ score \in Int /\ s \in Int /\ acting.floor \in Int
    BY ModelVerdictAssumption DEF VerdictInv, Policies
  <2>2. ~(acting.careful /\ sparse) /\ score >= acting.ceiling
    BY <1>2 DEF DecideWithConfidence
  <2>3. s >= acting.ceiling
    BY <1>2, <2>1, <2>2
  <2> QED BY <2>1, <2>2, <2>3 DEF DecideWithConfidence
<1>3. ASSUME NEW score \in 0..Certain, NEW sparse \in BOOLEAN, score < Certain,
             acting.inert, acting.head = "probability", ~acting.grey
      PROVE  DecideWithConfidence(acting, score, sparse) = "RULES"
  <2>1. acting.floor = 0 /\ acting.ceiling = Certain
    BY <1>3 DEF VerdictInv, Inert
  <2>2. ~(score >= Certain) /\ ~(score < 0)
    BY <1>3 DEF Certain
  <2> QED BY <1>3, <2>1, <2>2 DEF DecideWithConfidence
<1>4. CASE asked = NoAnswer
  <2>1. asked.action = "none"
    BY <1>4 DEF NoAnswer
  <2> QED BY <1>1, <2>1 DEF VerdictRanks
<1>5. CASE Answered(acting, asked)
  <2>1. PICK score \in Scores, sparse \in BOOLEAN :
          /\ acting.head # "percentage" => score \in 0..Certain
          /\ asked = [score |-> score, sparse |-> sparse,
                      action |-> DecideWithConfidence(acting, score, sparse)]
    BY <1>5 DEF Answered
  <2>2. asked.score = score /\ asked.sparse = sparse
        /\ asked.action = DecideWithConfidence(acting, score, sparse)
    BY <2>1
  <2>3. \A s \in Scores : \/ asked.action # "BUY" \/ s < asked.score
                          \/ DecideWithConfidence(acting, s, asked.sparse) # "SKIP"
    BY <1>2, <2>2
  <2>4. acting.inert /\ acting.head = "probability" /\ ~acting.grey
          /\ asked.score < Certain => asked.action \in {"none", "RULES"}
    BY <1>3, <2>1, <2>2
  <2> QED BY <1>1, <2>3, <2>4 DEF VerdictRanks
<1> QED BY <1>4, <1>5 DEF VerdictInv

(* The thresholds the gate accepts rank the rows of whatever validation set  *)
(* they were searched on, no score is bought when a higher one is skipped,   *)
(* and a classifier that failed the gate leaves every score but certainty to *)
(* the rules (train.py's search, policy/_main.py from_path and               *)
(* decide_with_confidence).                                                  *)
THEOREM AnswersRank == VerdictSpec => []VerdictRanks
<1> QED BY VerdictStarts, VerdictSteps, VerdictMeans, PTL DEF VerdictSpec

(* ------------------- the table of wallet activity ---------------------- *)
LedgerSpec == LedgerInit /\ [][LedgerNext]_ledgerVars

Times(d, S) == IF d \in S THEN 1 ELSE 0

(* What is not under way is in its resting state; the table has a row for    *)
(* every trade while the job runs.                                          *)
LedgerShape ==
  /\ LedgerTypeOK
  /\ added \in [Deals -> Nat]
  /\ batch \cap late = {}
  /\ pass.agg \cap pass.flushed = {}
  /\ pass.pc = "begun" => pass.flushed = {} /\ pass.agg = {}
  /\ pass.pc # "off"
  /\ pass \in [pc : {"idle", "begun", "scan"}, truncates : BOOLEAN,
               cursor : SUBSET Deals, agg : SUBSET Deals, flushed : SUBSET Deals]

(* While a pass that emptied the table is under way, a trade was added once   *)
(* for each way it can come in: by a flush, and by the bot since.            *)
Counted ==
  /\ pass.pc \in {"begun", "scan"} => rebuilt = {}
  /\ pass.pc \in {"begun", "scan"} /\ pass.truncates =>
       \A d \in Deals : added[d] = Times(d, pass.flushed) + Times(d, late)

LedgerInv == LedgerShape /\ Counted /\ Rebuilt

LEMMA LedgerStarts == LedgerInit => LedgerInv
BY WalletLedgerAssumption
   DEF LedgerInit, LedgerInv, LedgerShape, LedgerTypeOK, Counted, Rebuilt, NoPass

LEMMA LedgerInserts == LedgerInv /\ InsertTradesBatch => LedgerInv'
BY DEF LedgerInv, LedgerShape, LedgerTypeOK, Counted, Rebuilt, InsertTradesBatch

LEMMA LedgerUpserts == LedgerInv /\ UpsertWalletActivity => LedgerInv'
<1> SUFFICES ASSUME LedgerInv, UpsertWalletActivity PROVE LedgerInv'
  OBVIOUS
<1> USE DEF LedgerInv, LedgerShape, LedgerTypeOK
<1>1. PICK b \in (SUBSET batch) \ {{}} :
        /\ \A d \in b : added[d] < MaxAdds
        /\ added' = Plus(added, b)
        /\ late' = late \cup b
        /\ batch' = batch \ b
  BY DEF UpsertWalletActivity
<1>2. UNCHANGED <<rows, pass, passes, rebuilt>>
  BY DEF UpsertWalletActivity
<1>3. b \subseteq Deals /\ b \cap late = {}
  BY <1>1
<1>4. \A d \in Deals : added'[d] = added[d] + Times(d, b)
  BY <1>1 DEF Plus, Times
<1>5. added' \in [Deals -> Nat] /\ \A d \in DOMAIN added' : added'[d] \in 0..MaxAdds
  BY <1>1, <1>3, WalletLedgerAssumption DEF Plus
<1>6. LedgerShape'
  BY <1>1, <1>2, <1>3, <1>5
<1>7. Counted'
  BY <1>1, <1>2, <1>3, <1>4 DEF Counted, Times
<1>8. Rebuilt'
  BY <1>1, <1>2, <1>3, <1>4 DEF Rebuilt, Times
<1> QED BY <1>6, <1>7, <1>8

LEMMA LedgerDrops == LedgerInv /\ NotAdded => LedgerInv'
BY DEF LedgerInv, LedgerShape, LedgerTypeOK, Counted, Rebuilt, NotAdded
LEMMA LedgerStartsPass == LedgerInv /\ StartBackfill => LedgerInv'
<1> SUFFICES ASSUME LedgerInv, StartBackfill PROVE LedgerInv'
  OBVIOUS
<1> USE DEF LedgerInv, LedgerShape, LedgerTypeOK
<1>1. PICK truncates \in BOOLEAN :
        /\ pass' = [NoPass EXCEPT !.pc = "begun", !.truncates = truncates]
        /\ IF truncates THEN added' = [d \in Deals |-> 0] /\ late' = {}
           ELSE UNCHANGED <<added, late>>
  BY DEF StartBackfill
<1>2. passes' \in 0..MaxPasses /\ rebuilt' = {} /\ UNCHANGED <<rows, batch>>
  BY WalletLedgerAssumption DEF StartBackfill
<1>3. pass' = [pc |-> "begun", truncates |-> truncates, cursor |-> {}, agg |-> {},
               flushed |-> {}]
  BY <1>1 DEF NoPass
<1>4. added' \in [Deals -> Nat] /\ \A d \in DOMAIN added' : added'[d] \in 0..MaxAdds
  BY <1>1, WalletLedgerAssumption
<1>5. late' \subseteq rows' /\ batch' \cap late' = {}
  BY <1>1, <1>2
<1>6. LedgerShape'
  BY <1>2, <1>3, <1>4, <1>5
<1>7. Counted'
  <2>1. CASE truncates
    <3>1. added' = [d \in Deals |-> 0] /\ late' = {}
      BY <1>1, <2>1, Zenon
    <3>2. \A d \in Deals : added'[d] = Times(d, pass'.flushed) + Times(d, late')
      BY <1>3, <3>1 DEF Times
    <3> QED BY <1>2, <3>2 DEF Counted
  <2>2. CASE ~truncates
    <3>1. pass' = [NoPass EXCEPT !.pc = "begun", !.truncates = FALSE]
      BY <1>1, <2>2
    <3>2. ~pass'.truncates
      BY <3>1 DEF NoPass
    <3> QED BY <1>2, <3>2 DEF Counted
  <2> QED BY <2>1, <2>2
<1>8. Rebuilt'
  BY <1>2 DEF Rebuilt
<1> QED BY <1>6, <1>7, <1>8

LEMMA LedgerOpens == LedgerInv /\ OpenCursor => LedgerInv'
BY DEF LedgerInv, LedgerShape, LedgerTypeOK, Counted, Rebuilt, OpenCursor
LEMMA LedgerReads == LedgerInv /\ ReadRow => LedgerInv'
BY DEF LedgerInv, LedgerShape, LedgerTypeOK, Counted, Rebuilt, ReadRow
LEMMA LedgerFlushes == LedgerInv /\ Flush => LedgerInv'
<1> SUFFICES ASSUME LedgerInv, Flush PROVE LedgerInv'
  OBVIOUS
<1> USE DEF LedgerInv, LedgerShape, LedgerTypeOK
<1>1. /\ pass.pc = "scan" /\ added' = Plus(added, pass.agg)
      /\ pass' = [pass EXCEPT !.flushed = @ \cup pass.agg, !.agg = {}]
      /\ UNCHANGED <<rows, batch, passes, rebuilt, late>>
      /\ \A d \in pass.agg : added[d] < MaxAdds
  BY DEF Flush
<1>2. added' \in [Deals -> Nat] /\ \A d \in DOMAIN added' : added'[d] \in 0..MaxAdds
  BY <1>1, WalletLedgerAssumption DEF Plus
<1>3. /\ pass'.pc = pass.pc /\ pass'.truncates = pass.truncates
      /\ pass'.cursor = pass.cursor /\ pass'.agg = {}
      /\ pass'.flushed = pass.flushed \cup pass.agg
  BY <1>1
<1>4. LedgerShape'
  BY <1>1, <1>2, <1>3
<1>5. \A d \in Deals : added'[d] = added[d] + Times(d, pass.agg)
  BY <1>1 DEF Plus, Times
<1>6. ASSUME pass.truncates, NEW d \in Deals
      PROVE  added'[d] = Times(d, pass'.flushed) + Times(d, late')
  <2>1. added[d] = Times(d, pass.flushed) + Times(d, late)
    BY <1>1, <1>6 DEF Counted
  <2> QED BY <1>1, <1>3, <1>5, <2>1 DEF Times
<1>7. rebuilt' = {}
  BY <1>1 DEF Counted
<1>8. Counted'
  BY <1>3, <1>6, <1>7 DEF Counted
<1>9. Rebuilt'
  BY <1>7 DEF Rebuilt
<1> QED BY <1>4, <1>8, <1>9

LEMMA LedgerEnds == LedgerInv /\ EndBackfill => LedgerInv'
<1> SUFFICES ASSUME LedgerInv, EndBackfill PROVE LedgerInv'
  OBVIOUS
<1> USE DEF LedgerInv, LedgerShape, LedgerTypeOK
<1>1. /\ pass.pc = "scan" /\ added' = Plus(added, pass.agg)
      /\ pass.cursor = pass.flushed \cup pass.agg
      /\ rebuilt' = IF pass.truncates THEN pass.cursor ELSE {}
      /\ pass' = NoPass
      /\ UNCHANGED <<rows, batch, passes, late>>
      /\ \A d \in pass.agg : added[d] < MaxAdds
  BY DEF EndBackfill
<1>2. added' \in [Deals -> Nat] /\ \A d \in DOMAIN added' : added'[d] \in 0..MaxAdds
  BY <1>1, WalletLedgerAssumption DEF Plus
<1>3. pass' = [pc |-> "idle", truncates |-> FALSE, cursor |-> {}, agg |-> {},
               flushed |-> {}]
  BY <1>1 DEF NoPass
<1>4. rebuilt' \subseteq rows
  BY <1>1
<1>5. LedgerShape'
  BY <1>1, <1>2, <1>3, <1>4
<1>6. Counted'
  BY <1>3 DEF Counted
<1>7. ASSUME pass.truncates, NEW d \in pass.cursor
      PROVE  added'[d] = 1 + Times(d, late')
  <2>1. added[d] = Times(d, pass.flushed) + Times(d, late)
    BY <1>1, <1>7 DEF Counted
  <2>2. added'[d] = added[d] + Times(d, pass.agg)
    BY <1>1, <1>7 DEF Plus, Times
  <2> QED BY <1>1, <1>7, <2>1, <2>2 DEF Times
<1>8. Rebuilt'
  BY <1>1, <1>7 DEF Rebuilt, Times
<1> QED BY <1>5, <1>6, <1>8

LEMMA LedgerDies == LedgerInv /\ BackfillDies => LedgerInv'
BY DEF LedgerInv, LedgerShape, LedgerTypeOK, Counted, Rebuilt, BackfillDies, NoPass

LEMMA LedgerSteps == LedgerInv /\ [LedgerNext]_ledgerVars => LedgerInv'
<1> SUFFICES ASSUME LedgerInv, [LedgerNext]_ledgerVars PROVE LedgerInv'
  OBVIOUS
<1>1. CASE UNCHANGED ledgerVars
  BY <1>1 DEF ledgerVars, LedgerInv, LedgerShape, LedgerTypeOK, Counted, Rebuilt
<1> QED
  BY <1>1, LedgerInserts, LedgerUpserts, LedgerDrops, LedgerStartsPass, LedgerOpens,
     LedgerReads, LedgerFlushes, LedgerEnds, LedgerDies DEF LedgerNext

(* Whatever trades the bot inserts and adds meanwhile, and however many passes *)
(* die: a backfill that emptied the table and ran to its end counts each trade *)
(* it found once, and a second time only if the bot added it after the table  *)
(* was emptied (ml/wallet_indexer.py, backfill and _flush).                    *)
THEOREM LedgerRebuilt == LedgerSpec => []Rebuilt
<1>1. LedgerInv => Rebuilt
  BY DEF LedgerInv
<1> QED BY <1>1, LedgerStarts, LedgerSteps, PTL DEF LedgerSpec

(* ------------------- the clusters of wallets --------------------------- *)
(* A forest: whoever is not its own parent is further from its root than its *)
(* parent is, and R names the roots.                                         *)
IsForest(p, R, k) ==
  LET D == DOMAIN p IN
  /\ p \in [D -> D] /\ R \in [D -> D] /\ k \in [D -> Nat]
  /\ \A w \in D : /\ p[w] = w => R[w] = w
                  /\ p[w] # w => R[w] = R[p[w]] /\ k[p[w]] < k[w]
                  /\ p[R[w]] = R[w]

(* The roots of a forest are what the recursion of find comes to.            *)
LEMMA RootIs ==
  ASSUME NEW p, NEW R, NEW k, IsForest(p, R, k)
  PROVE  (CHOOSE f : f = [w \in DOMAIN p |-> IF p[w] = w THEN w ELSE f[p[w]]]) = R
<1> DEFINE D == DOMAIN p
           F == CHOOSE f : f = [w \in D |-> IF p[w] = w THEN w ELSE f[p[w]]]
<1>1. R = [w \in D |-> IF p[w] = w THEN w ELSE R[p[w]]]
  BY DEF IsForest
<1>2. F = [w \in D |-> IF p[w] = w THEN w ELSE F[p[w]]]
  BY <1>1
<1> HIDE DEF F
<1>3. \A w \in D : F[w] = IF p[w] = w THEN w ELSE F[p[w]]
  BY <1>2
<1>4. DOMAIN F = D /\ F = [w \in D |-> F[w]]
  BY <1>2
<1>5. ASSUME NEW w \in D, F[w] # R[w] PROVE FALSE
  <2> DEFINE X == {k[x] : x \in {y \in D : F[y] # R[y]}}
  <2>1. X \subseteq Nat /\ X # {}
    BY <1>5 DEF IsForest
  <2>2. PICK n \in X : \A m \in X : n <= m
    <3> HIDE DEF X
    <3> QED BY <2>1, LeastNat
  <2>3. PICK x \in D : F[x] # R[x] /\ k[x] = n
    BY <2>2
  <2>4. p[x] # x
    BY <1>3, <2>3 DEF IsForest
  <2>5. F[p[x]] # R[p[x]] /\ k[p[x]] < k[x] /\ p[x] \in D
    BY <1>3, <2>3, <2>4 DEF IsForest
  <2>6. k[p[x]] \in X
    BY <2>5
  <2>7. n <= k[p[x]] /\ k[p[x]] \in Nat /\ n \in Nat
    BY <2>1, <2>2, <2>6
  <2> QED BY <2>3, <2>5, <2>7
<1>6. R = [w \in D |-> R[w]]
  BY DEF IsForest
<1>7. F = R
  BY <1>4, <1>5, <1>6
<1> QED BY <1>7 DEF F

(* A wallet nobody has looked up is a tree of its own.                       *)
LEMMA NewTree ==
  ASSUME NEW p, NEW R, NEW k, IsForest(p, R, k), NEW w, w \notin DOMAIN p,
         NEW q, q = [x \in DOMAIN p \cup {w} |-> IF x = w THEN w ELSE p[x]],
         NEW T, T = [x \in DOMAIN p \cup {w} |-> IF x = w THEN w ELSE R[x]],
         NEW l, l = [x \in DOMAIN p \cup {w} |-> IF x = w THEN 0 ELSE k[x]]
  PROVE  IsForest(q, T, l)
BY DEF IsForest

(* Halving a path moves no wallet to another tree.                           *)
LEMMA HalvedForest ==
  ASSUME NEW p, NEW R, NEW k, IsForest(p, R, k), NEW w \in DOMAIN p, p[w] # w
  PROVE  /\ IsForest([p EXCEPT ![w] = p[p[w]]], R, k)
         /\ p[p[w]] \in DOMAIN p /\ R[p[p[w]]] = R[w]
<1> DEFINE D == DOMAIN p
           up == p[p[w]]
           q == [p EXCEPT ![w] = up]
<1>1. /\ p \in [D -> D] /\ R \in [D -> D] /\ k \in [D -> Nat] /\ p[w] \in D /\ up \in D
      /\ R[w] = R[p[w]] /\ k[p[w]] < k[w]
  BY DEF IsForest
<1>2. /\ R[up] = R[w] /\ k[up] < k[w]
  <2>1. CASE up = p[w]
    BY <1>1, <2>1
  <2>2. CASE up # p[w]
    <3>1. R[p[w]] = R[up] /\ k[up] < k[p[w]]
      BY <1>1, <2>2 DEF IsForest
    <3> QED BY <1>1, <3>1
  <2> QED BY <2>1, <2>2
<1>3. DOMAIN q = D /\ q \in [D -> D] /\ q[w] = up /\ \A x \in D \ {w} : q[x] = p[x]
  BY <1>1
<1>4. up # w
  BY <1>1, <1>2
<1>5. ASSUME NEW x \in D
      PROVE  /\ q[x] = x => R[x] = x
             /\ q[x] # x => R[x] = R[q[x]] /\ k[q[x]] < k[x]
             /\ q[R[x]] = R[x]
  <2>1. p[R[x]] = R[x] /\ R[x] \in D /\ R[x] # w
    BY <1>1 DEF IsForest
  <2>2. CASE x = w
    BY <1>2, <1>3, <1>4, <2>1, <2>2
  <2>3. CASE x # w
    BY <1>3, <2>1, <2>3 DEF IsForest
  <2> QED BY <2>2, <2>3
<1> HIDE DEF q, up
<1>6. IsForest(q, R, k)
  BY <1>1, <1>3, <1>5 DEF IsForest
<1> QED BY <1>1, <1>2, <1>6 DEF q, up

(* Hanging one root below another joins their trees and no other.            *)
Merged(D, R, r, w) == [x \in D |-> IF R[x] = r THEN w ELSE R[x]]
RaisedBy(D, R, k, r, w) ==
  [x \in D |-> IF R[x] = r /\ r # w THEN k[x] + k[w] + 1 ELSE k[x]]

LEMMA LinkedForest ==
  ASSUME NEW p, NEW R, NEW k, IsForest(p, R, k),
         NEW r \in DOMAIN p, NEW w \in DOMAIN p, p[r] = r, p[w] = w
  PROVE  IsForest([p EXCEPT ![r] = w], Merged(DOMAIN p, R, r, w), RaisedBy(DOMAIN p, R, k, r, w))
<1> DEFINE D == DOMAIN p
<1>5. PICK q : q = [p EXCEPT ![r] = w]
  OBVIOUS
<1>6. PICK T : T = [x \in D |-> IF R[x] = r THEN w ELSE R[x]]
  OBVIOUS
<1>7. PICK l : l = [x \in D |-> IF R[x] = r /\ r # w THEN k[x] + k[w] + 1 ELSE k[x]]
  OBVIOUS
<1>1. /\ p \in [D -> D] /\ R \in [D -> D] /\ k \in [D -> Nat] /\ R[r] = r /\ R[w] = w
  BY DEF IsForest
<1>2. DOMAIN q = D /\ q \in [D -> D] /\ q[r] = w /\ \A x \in D \ {r} : q[x] = p[x]
  BY <1>1, <1>5
<1>3. T \in [D -> D] /\ l \in [D -> Nat]
  BY <1>1, <1>6, <1>7
<1>4. ASSUME NEW x \in D
      PROVE  /\ q[x] = x => T[x] = x
             /\ q[x] # x => T[x] = T[q[x]] /\ l[q[x]] < l[x]
             /\ q[T[x]] = T[x]
  <2>1. q[T[x]] = T[x]
    <3>1. p[R[x]] = R[x] /\ R[x] \in D
      BY <1>1 DEF IsForest
    <3>2. CASE R[x] = r
      BY <1>2, <1>6, <3>2
    <3>3. CASE R[x] # r
      BY <1>2, <1>6, <3>1, <3>3
    <3> QED BY <3>2, <3>3
  <2>2. CASE x = r
    <3>1. T[x] = w /\ T[w] = w
      BY <1>1, <1>6, <2>2
    <3>2. r # w => l[w] = k[w] /\ l[r] = k[r] + k[w] + 1
      BY <1>1, <1>7
    <3>3. k[w] \in Nat /\ k[r] \in Nat
      BY <1>1
    <3> QED BY <1>2, <2>1, <2>2, <3>1, <3>2, <3>3
  <2>3. CASE x # r /\ p[x] = x
    BY <1>2, <1>6, <2>1, <2>3 DEF IsForest
  <2>4. CASE x # r /\ p[x] # x
    <3>1. R[x] = R[p[x]] /\ k[p[x]] < k[x] /\ p[x] \in D /\ q[x] = p[x]
      BY <1>1, <1>2, <2>4 DEF IsForest
    <3>2. T[x] = T[p[x]]
      BY <1>6, <3>1
    <3>3. l[p[x]] < l[x]
      <4>1. k[p[x]] \in Nat /\ k[x] \in Nat /\ k[w] \in Nat
        BY <1>1, <3>1
      <4>2. CASE R[x] = r /\ r # w
        <5>1. l[p[x]] = k[p[x]] + k[w] + 1 /\ l[x] = k[x] + k[w] + 1
          BY <1>7, <3>1, <4>2
        <5> QED BY <3>1, <4>1, <5>1
      <4>3. CASE ~(R[x] = r /\ r # w)
        <5>1. l[p[x]] = k[p[x]] /\ l[x] = k[x]
          BY <1>7, <3>1, <4>3
        <5> QED BY <3>1, <5>1
      <4> QED BY <4>2, <4>3
    <3> QED BY <2>1, <2>4, <3>1, <3>2, <3>3
  <2> QED BY <2>2, <2>3, <2>4
<1>8. IsForest(q, T, l)
  BY <1>2, <1>3, <1>4 DEF IsForest
<1> QED BY <1>5, <1>6, <1>7, <1>8 DEF Merged, RaisedBy

-----------------------------------------------------------------------------
ClusterSpec == ClusterInit /\ [][ClusterNext]_clusterVars

(* The trees are the components of the united pairs: a pair is in one tree,  *)
(* and a set that splits no pair splits no tree.                             *)
Separates(D, U, R) ==
  /\ \A e \in U : e[1] \in D /\ e[2] \in D /\ e[1] # e[2] /\ R[e[1]] = R[e[2]]
  /\ \A S \in SUBSET D : (\A e \in U : e[1] \in S <=> e[2] \in S)
                            => \A x \in D : x \in S <=> R[x] \in S

(* Where a search for the root of v has come to.                             *)
Seeks(v, D, R) == \/ find.w = v
                  \/ find.w \in D /\ v \in D /\ R[find.w] = R[v]

Searches(D, R) ==
  /\ find.pc \in {"a", "b"} => find.a \in traded /\ find.b \in traded /\ find.a # find.b
  /\ find.pc = "a" => Seeks(find.a, D, R)
  /\ find.pc = "b" => Seeks(find.b, D, R) /\ find.a \in D /\ R[find.a] = find.ra

(* Who is in the forest: the wallets of united pairs and of the pair at hand. *)
Met(D) ==
  \A w \in D : \/ \E e \in united : w = e[1] \/ w = e[2]
               \/ find.pc \in {"a", "b"} /\ w = find.a
               \/ find.pc = "b" /\ w = find.b

Grouped(R, k) ==
  /\ IsForest(parent, R, k)
  /\ Separates(DOMAIN parent, united, R)
  /\ Searches(DOMAIN parent, R)

Named == \A w \in DOMAIN published : published[w] # Alone =>
           /\ published[w].size > 1
           /\ published[w].size >= Cardinality({x \in DOMAIN published :
                                       published[x].cluster = published[w].cluster})

Finds == [pc : {"idle", "stats", "next", "a", "b"}, a : People \cup {0}, b : People \cup {0},
          w : People \cup {0}, ra : People \cup {0}]

ClusterShape ==
  /\ ClusterTypeOK /\ traded \subseteq People /\ find \in Finds
  /\ \A p \in pairs : p[1] \in traded /\ p[2] \in traded /\ p[1] # p[2]
  /\ Met(DOMAIN parent)

ClusterInv == ClusterShape /\ Named /\ \E R, k : Grouped(R, k)

LEMMA RootsAre ==
  ASSUME NEW R, NEW k, IsForest(parent, R, k)
  PROVE  Root = R
BY RootIs DEF Root

LEMMA EmptyForest ==
  /\ IsForest(<<>>, <<>>, <<>>)
  /\ Separates(DOMAIN <<>>, {}, <<>>)
<1>1. DOMAIN <<>> = {}
  OBVIOUS
<1>2. <<>> \in [{} -> {}] /\ <<>> \in [{} -> Nat]
  OBVIOUS
<1> QED BY <1>1, <1>2 DEF IsForest, Separates

LEMMA ClustersStart == ClusterInit => ClusterInv
<1> SUFFICES ASSUME ClusterInit PROVE ClusterInv
  OBVIOUS
<1>1. /\ traded \subseteq People /\ pairs = {} /\ united = {} /\ parent = <<>> /\ stats = {}
      /\ published = <<>> /\ find.pc = "idle" /\ find \in Finds
  BY DEF ClusterInit, NoFind, Finds
<1>2. DOMAIN <<>> = {}
  OBVIOUS
<1>3. ClusterShape /\ Named
  BY <1>1, <1>2 DEF ClusterShape, ClusterTypeOK, Met, Named
<1>4. Grouped(<<>>, <<>>)
  BY <1>1, EmptyForest DEF Grouped, Searches
<1> QED BY <1>3, <1>4 DEF ClusterInv

(* Steps that touch neither the forest nor the search.                       *)
LEMMA ClusterFrame ==
  ASSUME ClusterInv, UNCHANGED <<united, parent>>, traded \subseteq traded',
         find'.pc \in {"a", "b"} => find' = find
  PROVE  \E R, k : Grouped(R, k)'
<1>1. PICK R, k : Grouped(R, k)
  BY DEF ClusterInv
<1>2. IsForest(parent', R, k) /\ Separates(DOMAIN parent', united', R)
  BY <1>1 DEF Grouped
<1>3. Searches(DOMAIN parent, R)
  BY <1>1 DEF Grouped
<1>4. Searches(DOMAIN parent, R)'
  BY <1>3 DEF Searches, Seeks
<1> QED BY <1>2, <1>4 DEF Grouped

LEMMA WalletTrades == ClusterInv /\ NewWallet => ClusterInv'
<1> SUFFICES ASSUME ClusterInv, NewWallet PROVE ClusterInv'
  OBVIOUS
<1>1. /\ UNCHANGED <<pairs, united, parent, find, stats, published, runs>>
      /\ traded \subseteq traded' /\ traded' \subseteq People
  BY DEF NewWallet, ClusterInv, ClusterShape
<1>2. ClusterShape'
  BY <1>1 DEF ClusterInv, ClusterShape, ClusterTypeOK, Met
<1>3. Named'
  BY <1>1 DEF ClusterInv, Named
<1> QED BY <1>1, <1>2, <1>3, ClusterFrame DEF ClusterInv

LEMMA StatsComputed == ClusterInv /\ ComputePerWalletStats => ClusterInv'
<1> SUFFICES ASSUME ClusterInv, ComputePerWalletStats PROVE ClusterInv'
  OBVIOUS
<1>1. /\ UNCHANGED <<traded, pairs, united, parent, published>> /\ stats' = traded
      /\ find'.pc = "stats" /\ find.pc = "idle" /\ find' \in Finds
  BY DEF ComputePerWalletStats, NoFind, Finds
<1>2. ClusterShape'
  BY <1>1 DEF ClusterInv, ClusterShape, ClusterTypeOK, Met
<1>3. Named'
  BY <1>1 DEF ClusterInv, Named
<1> QED BY <1>1, <1>2, <1>3, ClusterFrame DEF ClusterInv

LEMMA PairsFound == ClusterInv /\ ComputeClusters => ClusterInv'
<1> SUFFICES ASSUME ClusterInv, ComputeClusters PROVE ClusterInv'
  OBVIOUS
<1>1. PICK l \in Linked \cup {{}} : pairs' = {p \in l : {p[1], p[2]} \subseteq traded}
  BY DEF ComputeClusters
<1>2. /\ united' = {} /\ parent' = <<>> /\ find'.pc = "next" /\ find' \in Finds
      /\ UNCHANGED <<traded, stats, published, runs>>
  BY DEF ComputeClusters, NoFind, Finds
<1>3. \A p \in pairs' : p[1] \in traded /\ p[2] \in traded /\ p[1] # p[2]
  BY <1>1, WalletClustersAssumption
<1>4. DOMAIN <<>> = {}
  OBVIOUS
<1>5. ClusterShape'
  BY <1>2, <1>3, <1>4 DEF ClusterInv, ClusterShape, ClusterTypeOK, Met
<1>6. Named'
  BY <1>2 DEF ClusterInv, Named
<1>7. Grouped(<<>>, <<>>)'
  BY <1>2, EmptyForest DEF Grouped, Searches
<1> QED BY <1>5, <1>6, <1>7 DEF ClusterInv

LEMMA PassDies == ClusterInv /\ ClassifierDies => ClusterInv'
<1> SUFFICES ASSUME ClusterInv, ClassifierDies PROVE ClusterInv'
  OBVIOUS
<1>2. /\ pairs' = {} /\ united' = {} /\ parent' = <<>> /\ find'.pc = "idle" /\ find' \in Finds
      /\ UNCHANGED <<traded, stats, published, runs>>
  BY DEF ClassifierDies, NoFind, Finds
<1>4. DOMAIN <<>> = {}
  OBVIOUS
<1>5. ClusterShape'
  BY <1>2, <1>4 DEF ClusterInv, ClusterShape, ClusterTypeOK, Met
<1>6. Named'
  BY <1>2 DEF ClusterInv, Named
<1>7. Grouped(<<>>, <<>>)'
  BY <1>2, EmptyForest DEF Grouped, Searches
<1> QED BY <1>5, <1>6, <1>7 DEF ClusterInv

(* A pair is taken up.                                                       *)
LEMMA UnionStarts == ClusterInv /\ Union => ClusterInv'
<1> SUFFICES ASSUME ClusterInv, Union PROVE ClusterInv'
  OBVIOUS
<1>1. PICK p \in pairs : /\ pairs' = pairs \ {p}
                         /\ find' = [NoFind EXCEPT !.pc = "a", !.a = p[1], !.b = p[2], !.w = p[1]]
  BY DEF Union
<1>2. /\ find.pc = "next" /\ UNCHANGED <<traded, united, parent, stats, published, runs>>
  BY DEF Union
<1>3. find'.pc = "a" /\ find'.a = p[1] /\ find'.b = p[2] /\ find'.w = p[1]
  BY <1>1 DEF NoFind
<1>4. p[1] \in traded /\ p[2] \in traded /\ p[1] # p[2]
  BY DEF ClusterInv, ClusterShape
<1>9. find' \in Finds
  <2>1. p[1] \in People /\ p[2] \in People
    BY <1>4 DEF ClusterInv, ClusterShape
  <2> QED BY <1>1, <2>1 DEF NoFind, Finds
<1>5. ClusterShape'
  BY <1>1, <1>2, <1>3, <1>9 DEF ClusterInv, ClusterShape, ClusterTypeOK, Met
<1>6. Named'
  BY <1>2 DEF ClusterInv, Named
<1>7. PICK R, k : Grouped(R, k)
  BY DEF ClusterInv
<1>8. Grouped(R, k)'
  BY <1>2, <1>3, <1>4, <1>7 DEF Grouped, Searches, Seeks
<1> QED BY <1>5, <1>6, <1>8 DEF ClusterInv

(* What a search finds when it has looked its wallet up.                     *)
LEMMA LookedUp ==
  ASSUME ClusterInv, find.pc \in {"a", "b"}, NEW p, p = SetDefault(find.w)
  PROVE  /\ find.w \in DOMAIN p /\ DOMAIN p \subseteq traded /\ Met(DOMAIN p)
         /\ \E R, k : /\ IsForest(p, R, k) /\ Separates(DOMAIN p, united, R)
                      /\ Searches(DOMAIN p, R)
<1> DEFINE D == DOMAIN parent
           w == find.w
<1>1. PICK R, k : Grouped(R, k)
  BY DEF ClusterInv
<1>2. IsForest(parent, R, k) /\ Separates(D, united, R) /\ Searches(D, R)
  BY <1>1 DEF Grouped
<1>3. D \subseteq traded /\ Met(D)
  BY DEF ClusterInv, ClusterShape, ClusterTypeOK
<1>4. CASE w \in D
  <2>1. p = parent
    BY <1>4 DEF SetDefault
  <2> QED BY <1>2, <1>3, <1>4, <2>1
<1>5. CASE w \notin D
  <2>1. p = [x \in D \cup {w} |-> IF x = w THEN w ELSE parent[x]]
    BY <1>5 DEF SetDefault
  <2>2. PICK T : T = [x \in D \cup {w} |-> IF x = w THEN w ELSE R[x]]
    OBVIOUS
  <2>3. PICK l : l = [x \in D \cup {w} |-> IF x = w THEN 0 ELSE k[x]]
    OBVIOUS
  <2>4. IsForest(p, T, l)
    BY <1>2, <1>5, <2>1, <2>2, <2>3, NewTree
  <2>5. DOMAIN p = D \cup {w} /\ T[w] = w /\ \A x \in D : x # w /\ T[x] = R[x] /\ R[x] \in D
    BY <1>2, <1>5, <2>1, <2>2 DEF IsForest
  <2>6. /\ find.pc = "a" => w = find.a
        /\ find.pc = "b" => w = find.b /\ find.a \in D /\ R[find.a] = find.ra
    BY <1>2, <1>5 DEF Searches, Seeks
  <2>7. w \in traded
    BY <1>2, <2>6 DEF Searches
  <2>8. Met(DOMAIN p)
    BY <1>3, <2>5, <2>6 DEF Met
  <2>9. Searches(DOMAIN p, T)
    BY <1>2, <2>5, <2>6 DEF Searches, Seeks
  <2>10. Separates(DOMAIN p, united, T)
    <3>1. \A e \in united : /\ e[1] \in DOMAIN p /\ e[2] \in DOMAIN p /\ e[1] # e[2]
                            /\ T[e[1]] = T[e[2]]
      BY <1>2, <2>5 DEF Separates
    <3>2. ASSUME NEW S \in SUBSET DOMAIN p, \A e \in united : e[1] \in S <=> e[2] \in S,
                 NEW x \in DOMAIN p
          PROVE  x \in S <=> T[x] \in S
      <4>1. CASE x = w
        BY <2>5, <4>1
      <4>2. CASE x # w
        <5>1. x \in D
          BY <2>5, <4>2
        <5>2. \A e \in united : e[1] \in S \cap D <=> e[2] \in S \cap D
          BY <1>2, <3>2 DEF Separates
        <5>3. S \cap D \in SUBSET D
          OBVIOUS
        <5>4. x \in S \cap D <=> R[x] \in S \cap D
          BY <1>2, <5>1, <5>2, <5>3 DEF Separates
        <5> QED BY <2>5, <5>1, <5>4
      <4> QED BY <4>1, <4>2
    <3> QED BY <3>1, <3>2 DEF Separates
  <2> QED BY <1>3, <2>4, <2>5, <2>7, <2>8, <2>9, <2>10
<1> QED BY <1>4, <1>5

(* Two trees become one where a pair joins them.                             *)
LEMMA Joined ==
  ASSUME NEW D, NEW U, NEW R, R \in [D -> D], Separates(D, U, R),
         NEW a \in D, NEW b \in D, a # b, NEW r, R[a] = r, NEW w, R[b] = w, R[w] = w
  PROVE  Separates(D, U \cup {<<a, b>>}, Merged(D, R, r, w))
<1>0. PICK T : T = Merged(D, R, r, w)
  OBVIOUS
<1>1. T[a] = w /\ T[b] = w /\ \A x \in D : T[x] = IF R[x] = r THEN w ELSE R[x]
  BY <1>0 DEF Merged
<1>2. \A e \in U \cup {<<a, b>>} : e[1] \in D /\ e[2] \in D /\ e[1] # e[2] /\ T[e[1]] = T[e[2]]
  BY <1>1 DEF Separates
<1>3. ASSUME NEW S \in SUBSET D, \A e \in U \cup {<<a, b>>} : e[1] \in S <=> e[2] \in S,
             NEW x \in D
      PROVE  x \in S <=> T[x] \in S
  <2>1. \A y \in D : y \in S <=> R[y] \in S
    BY <1>3 DEF Separates
  <2>2. a \in S <=> b \in S
    <3>1. <<a, b>>[1] = a /\ <<a, b>>[2] = b
      OBVIOUS
    <3> QED BY <1>3, <3>1
  <2>3. r \in S <=> w \in S
    BY <2>1, <2>2
  <2> QED BY <1>1, <2>1, <2>3
<1> QED BY <1>0, <1>2, <1>3 DEF Separates

LEMMA FindSteps == ClusterInv /\ FindStep => ClusterInv'
<1> SUFFICES ASSUME ClusterInv, FindStep PROVE ClusterInv'
  OBVIOUS
<1> DEFINE w == find.w
<1>0. PICK p : p = SetDefault(w)
  OBVIOUS
<1>1. /\ find.pc \in {"a", "b"}
      /\ IF p[w] # w
         THEN /\ parent' = [p EXCEPT ![w] = p[p[w]]]
              /\ find' = [find EXCEPT !.w = p[p[w]]]
              /\ UNCHANGED united
         ELSE IF find.pc = "a"
         THEN /\ parent' = p
              /\ find' = [find EXCEPT !.pc = "b", !.ra = find.w, !.w = find.b]
              /\ UNCHANGED united
         ELSE /\ parent' = LinkedRoots(p)
              /\ united' = united \cup {<<find.a, find.b>>}
              /\ find' = [NoFind EXCEPT !.pc = "next"]
      /\ UNCHANGED <<traded, pairs, stats, published, runs>>
  BY <1>0 DEF FindStep
<1>2. w \in DOMAIN p /\ DOMAIN p \subseteq traded /\ Met(DOMAIN p)
  BY <1>0, <1>1, LookedUp
<1>3. PICK R, k : /\ IsForest(p, R, k) /\ Separates(DOMAIN p, united, R)
                  /\ Searches(DOMAIN p, R)
  BY <1>0, <1>1, LookedUp
<1>4. ClusterShape
  BY DEF ClusterInv
<1>5. Named'
  BY <1>1 DEF ClusterInv, Named
<1>6. /\ find \in Finds /\ traded \subseteq People /\ w \in People
      /\ find.b \in traded /\ find.a \in traded /\ find.a # find.b
  BY <1>1, <1>2, <1>3, <1>4 DEF ClusterShape, Searches
<1>7. /\ DOMAIN published \subseteq traded /\ stats \subseteq traded
      /\ \A e \in pairs : e[1] \in traded /\ e[2] \in traded /\ e[1] # e[2]
  BY <1>4 DEF ClusterShape, ClusterTypeOK
<1>8. /\ p \in [DOMAIN p -> DOMAIN p] /\ R \in [DOMAIN p -> DOMAIN p]
  BY <1>3 DEF IsForest
<1>9. CASE p[w] # w
  <2>1. /\ parent' = [p EXCEPT ![w] = p[p[w]]] /\ united' = united
        /\ find' = [find EXCEPT !.w = p[p[w]]]
    BY <1>1, <1>9
  <2>2. /\ IsForest(parent', R, k) /\ DOMAIN parent' = DOMAIN p
        /\ p[p[w]] \in DOMAIN p /\ R[p[p[w]]] = R[w]
    <3>1. PICK v \in DOMAIN p : v = w
      BY <1>2
    <3>2. IsForest(p, R, k) /\ p[v] # v
      BY <1>3, <1>9, <3>1
    <3>3. /\ IsForest([p EXCEPT ![v] = p[p[v]]], R, k)
          /\ p[p[v]] \in DOMAIN p /\ R[p[p[v]]] = R[v]
      BY <3>2, HalvedForest
    <3> QED BY <2>1, <3>1, <3>3
  <2>3. PICK up \in DOMAIN p : up = p[p[w]]
    BY <2>2
  <2>4. /\ find'.pc = find.pc /\ find'.a = find.a /\ find'.b = find.b /\ find'.w = up
        /\ find'.ra = find.ra /\ find' \in Finds
    BY <1>2, <1>6, <2>1, <2>3 DEF Finds
  <2>5. Searches(DOMAIN p, R)'
    <3>1. up \in DOMAIN p /\ R[up] = R[w]
      BY <2>2, <2>3
    <3>2. \A v \in traded : Seeks(v, DOMAIN p, R) => v \in DOMAIN p /\ R[up] = R[v]
      BY <1>2, <3>1 DEF Seeks
    <3> QED BY <1>1, <1>3, <2>4, <3>1, <3>2 DEF Searches, Seeks
  <2>6. Grouped(R, k)'
    BY <1>3, <2>1, <2>2, <2>5 DEF Grouped
  <2>7. \A x \in DOMAIN parent' : parent'[x] \in DOMAIN parent'
    BY <2>2 DEF IsForest
  <2>8. Met(DOMAIN parent)'
    BY <1>2, <2>1, <2>2, <2>4 DEF Met
  <2>9. ClusterShape'
    BY <1>1, <1>2, <1>6, <1>7, <2>2, <2>4, <2>7, <2>8 DEF ClusterShape, ClusterTypeOK
  <2> QED BY <1>5, <2>6, <2>9 DEF ClusterInv
<1>10. CASE p[w] = w /\ find.pc = "a"
  <2>1. /\ parent' = p /\ united' = united
        /\ find' = [find EXCEPT !.pc = "b", !.ra = find.w, !.w = find.b]
    BY <1>1, <1>10
  <2>2. /\ find'.pc = "b" /\ find'.a = find.a /\ find'.b = find.b /\ find'.w = find.b
        /\ find'.ra = w /\ find' \in Finds
    BY <1>6, <2>1 DEF Finds
  <2>3. find.a \in DOMAIN p /\ R[find.a] = w
    <3>1. R[w] = w
      BY <1>2, <1>3, <1>10 DEF IsForest
    <3> QED BY <1>2, <1>3, <1>10, <3>1 DEF Searches, Seeks
  <2>4. Searches(DOMAIN p, R)'
    BY <1>6, <1>1, <2>2, <2>3 DEF Searches, Seeks
  <2>5. Grouped(R, k)'
    BY <1>3, <2>1, <2>4 DEF Grouped
  <2>6. Met(DOMAIN parent)'
    BY <1>2, <1>10, <2>1, <2>2 DEF Met
  <2>7. ClusterShape'
    BY <1>1, <1>2, <1>6, <1>7, <1>8, <2>1, <2>2, <2>6 DEF ClusterShape, ClusterTypeOK
  <2> QED BY <1>5, <2>5, <2>7 DEF ClusterInv
<1>11. CASE p[w] = w /\ find.pc = "b"
  <2> DEFINE r == find.ra
  <2>1. /\ parent' = [p EXCEPT ![r] = w] /\ united' = united \cup {<<find.a, find.b>>}
        /\ find' = [NoFind EXCEPT !.pc = "next"]
    BY <1>1, <1>11 DEF LinkedRoots
  <2>2. find'.pc = "next" /\ find' \in Finds
    BY <2>1 DEF NoFind, Finds
  <2>3. /\ find.a \in DOMAIN p /\ R[find.a] = r /\ r \in DOMAIN p /\ p[r] = r
        /\ find.b \in DOMAIN p /\ R[find.b] = w /\ R[w] = w
    <3>1. R[w] = w
      BY <1>2, <1>3, <1>11 DEF IsForest
    <3>2. find.a \in DOMAIN p /\ R[find.a] = r
      BY <1>3, <1>11 DEF Searches
    <3>3. r \in DOMAIN p /\ p[r] = r
      BY <1>3, <3>2 DEF IsForest
    <3>4. find.b \in DOMAIN p /\ R[find.b] = w
      BY <1>2, <1>3, <1>11, <3>1 DEF Searches, Seeks
    <3> QED BY <3>1, <3>2, <3>3, <3>4
  <2>4. PICK q : q = [p EXCEPT ![r] = w]
    OBVIOUS
  <2>5. PICK T : T = Merged(DOMAIN p, R, r, w)
    OBVIOUS
  <2>6. PICK l : l = RaisedBy(DOMAIN p, R, k, r, w)
    OBVIOUS
  <2>7. IsForest(q, T, l)
    <3>1. PICK v \in DOMAIN p : v = w
      BY <1>2
    <3>2. PICK u \in DOMAIN p : u = r
      BY <2>3
    <3>3. IsForest(p, R, k) /\ p[u] = u /\ p[v] = v
      BY <1>3, <1>11, <2>3, <3>1, <3>2
    <3>4. IsForest([p EXCEPT ![u] = v], Merged(DOMAIN p, R, u, v), RaisedBy(DOMAIN p, R, k, u, v))
      BY <3>3, LinkedForest
    <3> QED BY <2>4, <2>5, <2>6, <3>1, <3>2, <3>4
  <2>8. DOMAIN q = DOMAIN p
    BY <2>4
  <2>9. PICK a : a = find.a
    OBVIOUS
  <2>10. PICK b : b = find.b
    OBVIOUS
  <2>11. Separates(DOMAIN p, united \cup {<<a, b>>}, T)
    <3>1. PICK v : v = w
      OBVIOUS
    <3>2. PICK u : u = r
      OBVIOUS
    <3>3. /\ a \in DOMAIN p /\ b \in DOMAIN p /\ a # b /\ R[a] = u /\ R[b] = v /\ R[v] = v
      BY <1>6, <2>3, <2>9, <2>10, <3>1, <3>2
    <3>4. PICK U : U = united
      OBVIOUS
    <3>5. Separates(DOMAIN p, U, R) /\ R \in [DOMAIN p -> DOMAIN p]
      BY <1>3, <1>8, <3>4
    <3>6. PICK D : D = DOMAIN p
      OBVIOUS
    <3>7. R \in [D -> D] /\ Separates(D, U, R) /\ a \in D /\ b \in D
      BY <3>3, <3>5, <3>6
    <3>8. Separates(D, U \cup {<<a, b>>}, Merged(D, R, u, v))
      BY <3>3, <3>7, Joined
    <3> QED BY <2>5, <3>1, <3>2, <3>4, <3>6, <3>8
  <2>12. Grouped(T, l)'
    <3>1. Searches(DOMAIN parent, T)'
      BY <2>2 DEF Searches
    <3> QED BY <2>1, <2>4, <2>7, <2>8, <2>9, <2>10, <2>11, <3>1 DEF Grouped
  <2>13. Met(DOMAIN parent)'
    <3>1. DOMAIN parent' = DOMAIN p
      BY <2>1, <2>4, <2>8
    <3>2. <<find.a, find.b>> \in united' /\ united \subseteq united'
      BY <2>1
    <3>3. <<find.a, find.b>>[1] = find.a /\ <<find.a, find.b>>[2] = find.b
      OBVIOUS
    <3>4. \A x \in DOMAIN p : \E e \in united' : x = e[1] \/ x = e[2]
      BY <1>2, <3>2, <3>3 DEF Met
    <3> QED BY <3>1, <3>4 DEF Met
  <2>14. \A x \in DOMAIN parent' : parent'[x] \in DOMAIN parent'
    BY <2>1, <2>4, <2>7 DEF IsForest
  <2>15. ClusterShape'
    <3>1. DOMAIN parent' = DOMAIN p
      BY <2>1, <2>4, <2>8
    <3> QED BY <1>1, <1>2, <1>6, <1>7, <2>2, <2>13, <2>14, <3>1 DEF ClusterShape, ClusterTypeOK
  <2> QED BY <1>5, <2>12, <2>15 DEF ClusterInv
<1> QED BY <1>1, <1>9, <1>10, <1>11

(* A cluster that is published has two wallets at least, and as many as its  *)
(* rows say.                                                                 *)
LEMMA Publishes == ClusterInv /\ Publish => ClusterInv'
<1> SUFFICES ASSUME ClusterInv, Publish PROVE ClusterInv'
  OBVIOUS
<1> DEFINE D == DOMAIN parent
<1>1. /\ find.pc = "next" /\ find' = NoFind
      /\ published' = [w \in stats |-> IF w \in D
                         THEN [cluster |-> Root[w], size |-> Cardinality(Members(w))]
                         ELSE Alone]
      /\ UNCHANGED <<traded, pairs, united, parent, stats, runs>>
  BY DEF Publish
<1>2. PICK R, k : Grouped(R, k)
  BY DEF ClusterInv
<1>3. /\ IsForest(parent, R, k) /\ Separates(D, united, R) /\ Root = R /\ R \in [D -> D]
  BY <1>2, RootsAre DEF Grouped, IsForest
<1>4. D \subseteq People /\ stats \subseteq traded /\ IsFiniteSet(D) /\ 0 \notin D
  <2>1. D \subseteq People /\ stats \subseteq traded
    BY DEF ClusterInv, ClusterShape, ClusterTypeOK
  <2> QED BY <2>1, WalletClustersAssumption, FS_Subset
<1>5. find'.pc = "idle" /\ find' \in Finds
  BY <1>1 DEF NoFind, Finds
<1>6. ClusterShape'
  BY <1>1, <1>4, <1>5 DEF ClusterInv, ClusterShape, ClusterTypeOK, Met
<1>7. ASSUME NEW w \in DOMAIN published', published'[w] # Alone
      PROVE  /\ published'[w].size > 1
             /\ published'[w].size >= Cardinality({x \in DOMAIN published' :
                                         published'[x].cluster = published'[w].cluster})
  <2>1. w \in stats /\ w \in D /\ DOMAIN published' = stats
        /\ published'[w] = [cluster |-> R[w], size |-> Cardinality(Members(w))]
    BY <1>1, <1>3, <1>7
  <2>2. Members(w) = {x \in D : R[x] = R[w]}
    BY <1>3 DEF Members
  <2>3. IsFiniteSet(Members(w))
    BY <1>4, <2>2, FS_Subset
  <2>4. \E x, y \in Members(w) : x # y
    <3>1. PICK e \in united : w = e[1] \/ w = e[2]
      BY <1>1, <2>1 DEF ClusterInv, ClusterShape, Met
    <3>2. e[1] \in D /\ e[2] \in D /\ e[1] # e[2] /\ R[e[1]] = R[e[2]]
      BY <1>3 DEF Separates
    <3> QED BY <2>2, <3>1, <3>2
  <2>5. Cardinality(Members(w)) > 1
    <3>1. PICK x \in Members(w), y \in Members(w) : x # y
      BY <2>4
    <3>2. {x, y} \subseteq Members(w) /\ IsFiniteSet({x, y}) /\ Cardinality({x, y}) = 2
      <4>1. Cardinality({x}) = 1 /\ IsFiniteSet({x}) /\ y \notin {x}
        BY <3>1, FS_Singleton
      <4>2. {x, y} = {x} \cup {y}
        OBVIOUS
      <4> QED BY <4>1, <4>2, FS_AddElement
    <3>3. 2 <= Cardinality(Members(w))
      BY <2>3, <3>2, FS_Subset
    <3>4. Cardinality(Members(w)) \in Nat
      BY <2>3, FS_CardinalityType
    <3> QED BY <3>3, <3>4
  <2>6. ASSUME NEW x \in stats, published'[x].cluster = R[w]
        PROVE  x \in Members(w)
    <3>1. CASE x \in D
      <4>1. published'[x] = [cluster |-> R[x], size |-> Cardinality(Members(x))]
        BY <1>1, <1>3, <3>1
      <4> QED BY <2>2, <2>6, <3>1, <4>1
    <3>2. CASE x \notin D
      <4>1. published'[x] = Alone
        BY <1>1, <3>2
      <4>2. R[w] = 0 /\ R[w] \in D
        BY <1>3, <2>1, <2>6, <4>1 DEF Alone
      <4> QED BY <1>4, <4>2
    <3> QED BY <3>1, <3>2
  <2>7. {x \in stats : published'[x].cluster = R[w]} \subseteq Members(w)
    BY <2>6
  <2>8. Cardinality({x \in stats : published'[x].cluster = R[w]}) <= Cardinality(Members(w))
    BY <2>3, <2>7, FS_Subset
  <2>9. published'[w].cluster = R[w] /\ published'[w].size = Cardinality(Members(w))
    BY <2>1
  <2>10. Cardinality(Members(w)) \in Nat
         /\ Cardinality({x \in stats : published'[x].cluster = R[w]}) \in Nat
    BY <2>3, <2>7, FS_Subset, FS_CardinalityType
  <2> QED BY <2>1, <2>5, <2>8, <2>9, <2>10
<1>8. Named'
  BY <1>7 DEF Named
<1>9. Grouped(R, k)'
  BY <1>1, <1>2, <1>5 DEF Grouped, Searches
<1> QED BY <1>6, <1>8, <1>9 DEF ClusterInv

LEMMA ClusterSteps == ClusterInv /\ [ClusterNext]_clusterVars => ClusterInv'
<1> SUFFICES ASSUME ClusterInv, [ClusterNext]_clusterVars PROVE ClusterInv'
  OBVIOUS
<1>1. CASE UNCHANGED clusterVars
  <2>1. UNCHANGED <<traded, pairs, united, parent, find, stats, published, runs>>
    BY <1>1 DEF clusterVars
  <2>2. ClusterShape' /\ Named'
    BY <2>1 DEF ClusterInv, ClusterShape, ClusterTypeOK, Met, Named
  <2> QED BY <2>1, <2>2, ClusterFrame DEF ClusterInv
<1> QED BY <1>1, WalletTrades, StatsComputed, PairsFound, UnionStarts, FindSteps, Publishes,
           PassDies DEF ClusterNext

(* A set that splits no pair splits no tree, and each tree is such a set.    *)
LEMMA TreesAreComponents == ClusterInv => ClustersAreComponents
<1> SUFFICES ASSUME ClusterInv PROVE ClustersAreComponents
  OBVIOUS
<1> DEFINE D == DOMAIN parent
<1>1. PICK R, k : Grouped(R, k)
  BY DEF ClusterInv
<1>2. /\ Separates(D, united, R) /\ Root = R
  BY <1>1, RootsAre DEF Grouped
<1>3. ASSUME NEW x \in D, NEW y \in D, R[x] = R[y] PROVE Connected(x, y)
  BY <1>2, <1>3 DEF Connected, Separates
<1>4. ASSUME NEW x \in D, NEW y \in D, Connected(x, y) PROVE R[x] = R[y]
  <2> DEFINE S == {z \in D : R[z] = R[x]}
  <2>1. S \in SUBSET D /\ x \in S
    OBVIOUS
  <2>2. \A e \in united : e[1] \in S <=> e[2] \in S
    BY <1>2 DEF Separates
  <2> HIDE DEF S
  <2>3. y \in S
    BY <1>4, <2>1, <2>2 DEF Connected
  <2> QED BY <2>3 DEF S
<1>5. \A x, y \in D : Root[x] = Root[y] <=> Connected(x, y)
  BY <1>2, <1>3, <1>4
<1> QED BY <1>5 DEF ClusterInv, Named, ClustersAreComponents

(* Whatever the order of the pairs, and though every search rewrites the     *)
(* paths it walks, the union-find of the classifier names the connected      *)
(* components, and what is published has the sizes it claims.                *)
THEOREM ClustersAreNamed == ClusterSpec => []ClustersAreComponents
<1>1. ClusterInit => ClusterInv
  BY ClustersStart
<1>2. ClusterInv /\ [ClusterNext]_clusterVars => ClusterInv'
  BY ClusterSteps
<1>3. ClusterInv => ClustersAreComponents
  BY TreesAreComponents
<1> QED BY <1>1, <1>2, <1>3, PTL DEF ClusterSpec

(* ------------------- one process, one job -------------------------------- *)
(* A job that is not the process's own does nothing, and what it promises    *)
(* holds of nothing.                                                         *)
LEMMA PipelineRests ==
  ASSUME PipelineOff
  PROVE  /\ ~ PipelineNext
         /\ VerdictBinds /\ EntryDescribed
         /\ UNCHANGED pipelineVars => PipelineOff'
<1>1. stage = "off" /\ checkpoint.pc = "off" /\ stream = "none" /\ decision = << >> /\ entered = << >>
  BY DEF PipelineOff
<1>2. ~ Handler /\ ~ Decline /\ ~ HandlerError /\ ~ Pass /\ ~ EndExtended
  BY <1>1 DEF Handler, Observe, Collect, EndOfStream, Score, Decide, Spawn, Decline,
     HandlerError, Pass, EndExtended
<1>3. ~ CheckpointTask
  BY <1>1 DEF CheckpointTask, Wake, AnswerT30, AskTiming, TaskCrash
<1>4. VerdictBinds /\ EntryDescribed
  BY <1>1 DEF VerdictBinds, EntryDescribed
<1>5. UNCHANGED pipelineVars => PipelineOff'
  BY DEF pipelineVars, task, PipelineOff
<1> QED BY <1>2, <1>3, <1>4, <1>5 DEF PipelineNext

LEMMA ModelRests ==
  ASSUME ModelOff
  PROVE  ~ ModelNext /\ GateJudgesItsModel /\ (UNCHANGED modelVars => ModelOff')
<1>1. trainer.pc = "off" /\ load.pc = "off" /\ used = << >>
  BY DEF ModelOff, NoTraining, NoLoad
<1>2. ~ Trainer
  BY <1>1 DEF Trainer, TrainEntry, TrainEntryT30, TrainExit, TrainEntryRegression,
     TrainExitQuantile, TrainMaxHold, TrainSurvivalModel, TrainEntryTiming, Fitted,
     Snapshot, SaveModel, OpenMeta, WriteMeta
<1>3. ~ Loader /\ ~ TrainerDies /\ ~ RollBack /\ ~ Restart
  BY <1>1 DEF Loader, StartLoad, ReadMeta, ReadModel, GateEntry, GateOther, Ungated,
     TrainerDies, RollBack, Restart
<1>4. GateJudgesItsModel
  BY <1>1 DEF GateJudgesItsModel
<1>5. UNCHANGED modelVars => ModelOff'
  BY DEF modelVars, files, ModelOff
<1> QED BY <1>2, <1>3, <1>4, <1>5 DEF ModelNext

LEMMA SweepRests ==
  ASSUME SweepOff
  PROVE  /\ ~ SweepNext
         /\ SlotsOverTime /\ TrainBlind /\ BestRanked
         /\ UNCHANGED sweepVars => SweepOff'
<1>1. /\ sweep.pc = "off" /\ sweep.subset = "all" /\ worker = NoWorker /\ saved = << >>
      /\ ranked = {} /\ dataset = << >> /\ combos = {}
  BY DEF SweepOff
<1>2. ~ SweepNext
  BY <1>1 DEF SweepNext, Run, LoadToken, EndLoad, BotWrites, StartCombo, TakeCandidate,
     Consume, ComboRaises, EvaluateHoldout, NoWorker
<1>3. SlotsOverTime
  BY <1>1, FS_EmptySet, PortfolioAssumption DEF SlotsOverTime, NoWorker
<1>4. TrainBlind
  BY <1>1 DEF TrainBlind
<1>5. BestRanked
  BY <1>1 DEF BestRanked
<1>6. UNCHANGED sweepVars => SweepOff'
  BY DEF sweepVars, SweepOff
<1> QED BY <1>2, <1>3, <1>4, <1>5, <1>6

LEMMA BacktestRests ==
  ASSUME BacktestOff
  PROVE  ~ BacktestNext /\ SlotsAtTrades /\ (UNCHANGED backtestVars => BacktestOff')
<1>1. engine.pc = "off" /\ tape = <<>>
  BY DEF BacktestOff
<1>2. ~ BacktestNext
  BY <1>1 DEF BacktestNext, ScoreTokenForEntry, ReplayTrade, OpenRest, CloseRemainingPositions
<1>3. SlotsAtTrades
  BY <1>1 DEF SlotsAtTrades
<1>4. UNCHANGED backtestVars => BacktestOff'
  BY DEF backtestVars, BacktestOff
<1> QED BY <1>2, <1>3, <1>4

LEMMA ReplayRests ==
  ASSUME ReplayOff
  PROVE  ~ ReplayNext /\ ReplayRotates /\ (UNCHANGED replayVars => ReplayOff')
<1>1. feed.pc = "off"
  BY DEF ReplayOff
<1>2. ~ ReplayNext
  <2>1. DOMAIN reader = {}
    BY DEF ReplayOff
  <2>2. ~ SubscribeReplay /\ ~ SkipToken /\ ~ DrainUntil /\ ~ StartDrain
    BY <1>1 DEF SubscribeReplay, SkipToken, DrainUntil, StartDrain
  <2>3. ~ DrainAll /\ ~ LeaveDrain /\ ~ UnsubscribeReplay
    BY <2>1 DEF DrainAll, LeaveDrain, UnsubscribeReplay
  <2> QED BY <2>2, <2>3 DEF ReplayNext
<1>3. ReplayRotates
  BY <1>1 DEF ReplayRotates
<1>4. UNCHANGED replayVars => ReplayOff'
  BY DEF replayVars, ReplayOff
<1> QED BY <1>2, <1>3, <1>4

LEMMA LedgerRests ==
  ASSUME LedgerOff
  PROVE  ~ LedgerNext /\ Rebuilt /\ (UNCHANGED ledgerVars => LedgerOff')
<1>1. pass.pc = "off" /\ batch = {} /\ rebuilt = {} /\ pass.truncates = FALSE /\ pass.cursor = {}
  BY DEF LedgerOff, NoPass
<1>2. ~ LedgerNext
  <2>1. ~ InsertTradesBatch /\ ~ StartBackfill
    BY <1>1 DEF InsertTradesBatch, StartBackfill
  <2>2. ~ UpsertWalletActivity /\ ~ NotAdded
    <3>1. ASSUME NEW b \in (SUBSET batch) \ {{}} PROVE FALSE
      <4>1. b # {} /\ \A x \in b : x \in batch
        OBVIOUS
      <4>2. \A x : x \notin batch
        BY <1>1
      <4> QED BY ONLY <4>1, <4>2
    <3>2. ~ UpsertWalletActivity
      BY ONLY <3>1 DEF UpsertWalletActivity
    <3> QED BY ONLY <3>1, <3>2 DEF NotAdded
  <2>3. ~ OpenCursor /\ ~ ReadRow /\ ~ Flush
    BY <1>1 DEF OpenCursor, ReadRow, Flush
  <2>4. ~ EndBackfill /\ ~ BackfillDies
    BY <1>1 DEF EndBackfill, BackfillDies
  <2> QED BY <2>1, <2>2, <2>3, <2>4 DEF LedgerNext
<1>3. Rebuilt
  BY <1>1 DEF Rebuilt
<1>4. UNCHANGED ledgerVars => LedgerOff'
  BY DEF ledgerVars, LedgerOff
<1> QED BY <1>2, <1>3, <1>4

LEMMA ClusterRests ==
  ASSUME ClusterOff
  PROVE  ~ ClusterNext /\ ClustersAreComponents /\ (UNCHANGED clusterVars => ClusterOff')
<1>1. find.pc = "off" /\ parent = << >> /\ published = << >>
  BY DEF ClusterOff, NoFind
<1>2. ~ ClusterNext
  BY <1>1 DEF ClusterNext, NewWallet, ComputePerWalletStats, ComputeClusters, Union,
     FindStep, Publish, ClassifierDies
<1>3. ClustersAreComponents
  BY <1>1 DEF ClustersAreComponents
<1>4. UNCHANGED clusterVars => ClusterOff'
  BY DEF clusterVars, ClusterOff
<1> QED BY <1>2, <1>3, <1>4

LEMMA CreatorRests ==
  ASSUME CreatorOff
  PROVE  ~ CreatorNext /\ AsOfSettles /\ (UNCHANGED creatorVars => CreatorOff')
<1>1. clock = -1 /\ intake = {} /\ views = << >> /\ fetches = {}
  BY DEF CreatorOff
<1>2. ~ CreatorNext
  BY <1>1 DEF CreatorNext, InsertToken, TakeView, ReadRows, Persist, GiveUp, Fate, ClockTicks
<1>3. AsOfSettles
  BY <1>1 DEF AsOfSettles
<1>4. UNCHANGED creatorVars => CreatorOff'
  BY DEF creatorVars, CreatorOff
<1> QED BY <1>2, <1>3, <1>4

LEMMA JudgeRests ==
  ASSUME VerdictOff
  PROVE  ~ VerdictNext /\ VerdictRanks /\ (UNCHANGED verdictVars => VerdictOff')
<1>1. course = "off" /\ trained = NoMeta
  BY DEF VerdictOff
<1>2. ~ VerdictNext
  BY <1>1 DEF VerdictNext, SaveClassifier, SaveRegressor, SaveEarly, LoadPolicy, LoadEarly, AskModel
<1>3. trained.status = "none"
  BY <1>1 DEF NoMeta
<1>4. VerdictRanks
  BY <1>1, <1>3 DEF VerdictRanks, ThresholdsRank
<1>5. UNCHANGED verdictVars => VerdictOff'
  BY DEF verdictVars, VerdictOff
<1> QED BY <1>2, <1>4, <1>5

LEMMA GeyserRests ==
  ASSUME GeyserOff
  PROVE  ~ GeyserNext /\ HeardAsReceived /\ (UNCHANGED geyserVars => GeyserOff')
<1>1. wire = "off" /\ DOMAIN pipe = {} /\ DOMAIN queues = {} /\ DOMAIN readers = {}
  BY DEF GeyserOff
<1>2. ~ GeyserNext
  <2>1. ~ ConnectGeyser /\ ~ HandleTransaction /\ ~ StreamBreaks /\ ~ ResumeReading
    BY <1>1 DEF ConnectGeyser, HandleTransaction, StreamBreaks, ResumeReading
  <2>2. ~ DisconnectGeyser /\ ~ TakeToken
    BY <1>1 DEF DisconnectGeyser, TakeToken, Running
  <2> QED BY <1>1, <2>1, <2>2 DEF GeyserNext
<1>3. HeardAsReceived
  <2>1. \A x : x \notin DOMAIN queues /\ x \notin DOMAIN readers
    BY <1>1
  <2> QED BY <2>1, Zenon DEF HeardAsReceived
<1>4. UNCHANGED geyserVars => GeyserOff'
  BY DEF geyserVars, GeyserOff
<1> QED BY <1>2, <1>3, <1>4

LEMMA FeaturesRests ==
  ASSUME FeaturesOff
  PROVE  /\ ~ FeaturesNext /\ ServedAsTrained /\ ReplayScoresAlike
         /\ UNCHANGED featureVars => FeaturesOff'
<1>1. phase = "off" /\ scoring = NotScored
  BY DEF FeaturesOff
<1>2. ~ Scored
  BY <1>1 DEF Scored, NotScored
<1>3. ~ FeaturesNext
  BY <1>1, <1>2 DEF FeaturesNext, Watch, Passes, Receive, CaptureHolders, AskAt30, ScoreToken,
     TradeElsewhere, Reclassify
<1>4. ServedAsTrained /\ ReplayScoresAlike
  BY <1>2 DEF ServedAsTrained, ReplayScoresAlike, Over
<1>5. UNCHANGED featureVars => FeaturesOff'
  BY DEF featureVars, FeaturesOff
<1> QED BY <1>3, <1>4, <1>5

(* Each job keeps its own invariant if it is the process's own, and does not *)
(* run if it is not.                                                         *)
JobsInv ==
  /\ PipelineInv \/ PipelineOff
  /\ LifecycleInv \/ ModelOff
  /\ SweepInv \/ SweepOff
  /\ BacktestInv \/ BacktestOff
  /\ ReplayInv \/ ReplayOff
  /\ LedgerInv \/ LedgerOff
  /\ ClusterInv \/ ClusterOff
  /\ SettledInv \/ CreatorOff
  /\ VerdictInv \/ VerdictOff
  /\ GeyserInv \/ GeyserOff
  /\ FeaturesInv \/ FeaturesOff
  /\ LabelsInv

LEMMA JobsStart == Init => JobsInv
<1> SUFFICES ASSUME Init PROVE JobsInv
  OBVIOUS
<1>1. PipelineInit \/ PipelineOff
  BY DEF Init, Off
<1>2. ModelInit \/ ModelOff
  BY DEF Init, Off
<1>3. SweepInit \/ SweepOff
  BY DEF Init, Off
<1>4. BacktestInit \/ BacktestOff
  BY DEF Init, Off
<1>5. ReplayInit \/ ReplayOff
  BY DEF Init, Off
<1>6. LedgerInit \/ LedgerOff
  BY DEF Init, Off
<1>7. ClusterInit \/ ClusterOff
  BY DEF Init, Off
<1>8. CreatorInit \/ CreatorOff
  BY DEF Init, Off
<1>9. GeyserInit \/ GeyserOff
  BY DEF Init, Off
<1>10. VerdictInit \/ VerdictOff
  BY DEF Init, Off
<1>11. FeaturesInit \/ FeaturesOff
  BY DEF Init, Off
<1>12. LabelsInit \/ LabelsOff
  BY DEF Init, Off
<1> QED
  BY <1>1, <1>2, <1>3, <1>4, <1>5, <1>6, <1>7, <1>8, <1>9, <1>10, <1>11, <1>12,
     LabelsBegin, FeaturesStart, PipelineStart, LifecycleInit, SweepStarts, BacktestStarts, ReplayStarts,
     LedgerStarts, ClustersStart, SettledInit, GeyserStarts, VerdictStarts DEF JobsInv

(* A step of the process is a step of one job at most.                      *)
LEMMA OneJobSteps ==
  ASSUME [Next]_vars
  PROVE  /\ [PipelineNext]_pipelineVars
         /\ [ModelNext]_modelVars
         /\ [SweepNext]_sweepVars
         /\ [BacktestNext]_backtestVars
         /\ [ReplayNext]_replayVars
         /\ [LedgerNext]_ledgerVars
         /\ [ClusterNext]_clusterVars
         /\ [CreatorNext]_creatorVars
         /\ [GeyserNext]_geyserVars
         /\ [VerdictNext]_verdictVars
         /\ [FeaturesNext]_featureVars
         /\ [LabelsNext]_labelVars
BY DEF Next, vars, Rest, HandleToken, TrainAndLoad, Optimize, Backtesting,
   ReplayToken, IndexWallets, ClassifyWallets, MakeRow, MeetCreator,
   JudgeScore, LabelExits, HearChain

LEMMA JobsStep == JobsInv /\ [Next]_vars => JobsInv'
<1> SUFFICES ASSUME JobsInv, [Next]_vars PROVE JobsInv'
  OBVIOUS
<1>1. (PipelineInv \/ PipelineOff)'
  BY OneJobSteps, PipelineStep, PipelineRests DEF JobsInv
<1>2. (LifecycleInv \/ ModelOff)'
  BY OneJobSteps, LifecycleSteps, ModelRests DEF JobsInv
<1>3. (SweepInv \/ SweepOff)'
  BY OneJobSteps, SweepSteps, SweepRests DEF JobsInv
<1>4. (BacktestInv \/ BacktestOff)'
  BY OneJobSteps, BacktestSteps, BacktestRests DEF JobsInv
<1>5. (ReplayInv \/ ReplayOff)'
  BY OneJobSteps, ReplaySteps, ReplayRests DEF JobsInv
<1>6. (LedgerInv \/ LedgerOff)'
  BY OneJobSteps, LedgerSteps, LedgerRests DEF JobsInv
<1>7. (ClusterInv \/ ClusterOff)'
  BY OneJobSteps, ClusterSteps, ClusterRests DEF JobsInv
<1>8. (SettledInv \/ CreatorOff)'
  BY OneJobSteps, SettledStep, CreatorRests DEF JobsInv
<1>9. (GeyserInv \/ GeyserOff)'
  BY OneJobSteps, GeyserSteps, GeyserRests DEF JobsInv
<1>10. (VerdictInv \/ VerdictOff)'
  BY OneJobSteps, VerdictSteps, JudgeRests DEF JobsInv
<1>11. (FeaturesInv \/ FeaturesOff)'
  BY OneJobSteps, FeaturesSteps, FeaturesRests DEF JobsInv
<1>12. LabelsInv'
  BY OneJobSteps, LabelsStep DEF JobsInv
<1> QED BY <1>1, <1>2, <1>3, <1>4, <1>5, <1>6, <1>7, <1>8, <1>9, <1>10, <1>11, <1>12 DEF JobsInv

(* What each job of the process promises holds of the whole program, whichever *)
(* command main.py was given (main.py runs one command and returns; the        *)
(* handlers, trainers and passes the properties name).                         *)
THEOREM JobsKeepTheirWord ==
  Spec => []( /\ VerdictBinds /\ EntryDescribed
              /\ GateJudgesItsModel
              /\ SlotsOverTime /\ TrainBlind /\ BestRanked
              /\ SlotsAtTrades
              /\ ReplayRotates
              /\ Rebuilt
              /\ ClustersAreComponents
              /\ AsOfSettles
              /\ VerdictRanks
              /\ HeardAsReceived
              /\ ServedAsTrained /\ ReplayScoresAlike
              /\ LabelsAsLived)
<1>1. JobsInv => /\ VerdictBinds /\ EntryDescribed
  <2>1. PipelineInv => VerdictBinds /\ EntryDescribed
    BY DEF PipelineInv, DecidedInv, Bound, VerdictBinds, EnteredInv, ScoredInv, Sound,
           EntryDescribed
  <2> QED BY <2>1, PipelineRests DEF JobsInv
<1>2. JobsInv => GateJudgesItsModel
  BY ModelRests DEF JobsInv, LifecycleInv
<1>3. JobsInv => SlotsOverTime /\ TrainBlind /\ BestRanked
  <2>1. SweepInv => SlotsOverTime /\ BestRanked
    BY DEF SweepInv, WorkerInv, Ranking
  <2> QED BY <2>1, BlindToHoldout, SweepRests DEF JobsInv
<1>4. JobsInv => SlotsAtTrades
  BY SlotsFromInv, BacktestRests DEF JobsInv
<1>5. JobsInv => ReplayRotates
  BY ReplayRests DEF JobsInv, ReplayInv
<1>6. JobsInv => Rebuilt
  BY LedgerRests DEF JobsInv, LedgerInv
<1>7. JobsInv => ClustersAreComponents
  BY TreesAreComponents, ClusterRests DEF JobsInv
<1>8. JobsInv => AsOfSettles
  BY SettledViews, CreatorRests DEF JobsInv
<1>9. JobsInv => HeardAsReceived
  BY HeardFromInv, GeyserRests DEF JobsInv
<1>10. JobsInv => VerdictRanks
  BY VerdictMeans, JudgeRests DEF JobsInv
<1>11. JobsInv => ServedAsTrained /\ ReplayScoresAlike
  BY AlikeFromInv, FeaturesRests DEF JobsInv
<1>12. JobsInv => LabelsAsLived
  BY LabelsKeepTheirWord DEF JobsInv
<1> QED BY <1>1, <1>2, <1>3, <1>4, <1>5, <1>6, <1>7, <1>8, <1>9, <1>10, <1>11, <1>12,
           JobsStart, JobsStep, PTL DEF Spec

(* ------------------- types of the process ------------------------------- *)
LEMMA LabelsTypes == LabelsInv => LabelsTypeOK
<1> SUFFICES ASSUME LabelsInv PROVE LabelsTypeOK
  OBVIOUS
<1>1. CASE held.reason = "off" /\ counted = <<>>
  BY <1>1 DEF LabelsTypeOK
<1>2. CASE LiveInv
  <2>1. held \in RunnerType /\ counted \in Seq({0, 1})
    BY <1>2 DEF LiveInv, HeldInv, CountInv
  <2>2. held.reason \in Reasons
    BY <2>1 DEF RunnerType
  <2>3. \A i \in DOMAIN counted : counted[i] \in {0, 1}
    BY <2>1
  <2> QED BY <2>2, <2>3 DEF Reasons, LabelsTypeOK
<1> QED BY <1>1, <1>2 DEF LabelsInv

LEMMA AnswersTyped ==
  ASSUME NEW p, NEW a, Answered(p, a)
  PROVE  a.action \in {"BUY", "SKIP", "RULES", "DEFER"}
<1>1. PICK score \in Scores, sparse \in BOOLEAN :
        a = [score |-> score, sparse |-> sparse, action |-> DecideWithConfidence(p, score, sparse)]
  BY DEF Answered
<1> QED BY <1>1 DEF DecideWithConfidence

LEMMA VerdictTypes == VerdictInv \/ VerdictOff => VerdictTypeOK
<1>1. VerdictInv => VerdictTypeOK
  BY AnswersTyped DEF VerdictInv, VerdictTypeOK, NoAnswer
<1>2. VerdictOff => VerdictTypeOK
  BY DEF VerdictOff, VerdictTypeOK, NoAnswer
<1> QED BY <1>1, <1>2

LEMMA ReplayTypes == ReplayInv \/ ReplayOff => ReplayTypeOK
<1>1. ReplayInv => ReplayTypeOK
  BY DEF ReplayInv, ReplayShape, ReplayTypeOK
<1>2. ReplayOff => ReplayTypeOK
  BY DEF ReplayOff, ReplayTypeOK
<1> QED BY <1>1, <1>2

LEMMA LedgerTypes == LedgerInv \/ LedgerOff => LedgerTypeOK
<1>1. LedgerOff => LedgerTypeOK
  BY WalletLedgerAssumption DEF LedgerOff, NoPass, LedgerTypeOK
<1> QED BY <1>1 DEF LedgerInv, LedgerShape

LEMMA ClusterTypes == ClusterInv \/ ClusterOff => ClusterTypeOK
<1>1. ClusterOff => ClusterTypeOK
  BY DEF ClusterOff, NoFind, ClusterTypeOK
<1> QED BY <1>1 DEF ClusterInv, ClusterShape

LEMMA SweepTypes == SweepInv \/ SweepOff => SweepTypeOK
<1>1. SweepInv => SweepTypeOK
  BY DEF SweepInv, SweepShape, WorkerShape, SweepState, WorkerState, SweepTypeOK
<1>2. SweepOff => SweepTypeOK
  BY DEF SweepOff, NoWorker, SweepTypeOK
<1> QED BY <1>1, <1>2

(* What a trainer wrote of a model's health.                                 *)
Healths == {"none", "ok", "degenerate", "narrow_proba_spread", "auc_regression",
            "calibration_drift", "weak_signal"}
MetasTyped == \A g \in DOMAIN judged : judged[g].health \in Healths

LEMMA MetasStartTyped == ModelInit \/ ModelOff => MetasTyped
BY DEF ModelInit, ModelOff, MetasTyped

LEMMA FittedTyped ==
  ASSUME MetasTyped, NEW r, NEW fit, NEW health \in Healths, Fitted(r, fit, health)
  PROVE  MetasTyped'
<1>1. PICK g : judged' = [x \in DOMAIN judged \cup {g} |-> IF x = g
          THEN [skill |-> fit.skill, median |-> fit.median, health |-> health]
          ELSE judged[x]]
  BY DEF Fitted
<1> QED BY <1>1 DEF MetasTyped

LEMMA MetasKeepTypes ==
  ASSUME MetasTyped, [ModelNext]_modelVars
  PROVE  MetasTyped'
<1>1. \A fit, old : EntryHealth(fit, old) \in Healths
  BY DEF EntryHealth, Healths
<1>2. \A fit : Verdict(fit) \in Healths /\ HoldVerdict(fit) \in Healths
  BY DEF Verdict, HoldVerdict, Healths
<1>3. "none" \in Healths
  BY DEF Healths
<1>4. CASE judged' = judged
  BY <1>4 DEF MetasTyped
<1>5. CASE TrainEntry
  <2>1. PICK fit \in Fits : Fitted("entry", fit, EntryHealth(fit, OldMeta("entry")))
    BY <1>5 DEF TrainEntry
  <2> QED BY <1>1, <2>1, FittedTyped
<1>6. CASE TrainEntryT30 \/ TrainExit
  <2>1. PICK fit \in Fits : Fitted("t30", fit, "none") \/ Fitted("exit", fit, "none")
    BY <1>6 DEF TrainEntryT30, TrainExit
  <2> QED BY <1>3, <2>1, FittedTyped
<1>7. CASE TrainEntryRegression \/ TrainExitQuantile
  <2>1. PICK fit \in Fits : \/ Fitted("reg", fit, Verdict(fit))
                            \/ Fitted("quantile", fit, Verdict(fit))
    BY <1>7 DEF TrainEntryRegression, TrainExitQuantile
  <2> QED BY <1>2, <2>1, FittedTyped
<1>8. CASE TrainMaxHold \/ TrainSurvivalModel \/ TrainEntryTiming
  <2>1. PICK fit \in Fits : \/ Fitted("hold", fit, HoldVerdict(fit))
                            \/ Fitted("survival", fit, Verdict(fit))
                            \/ Fitted("timing", fit, Verdict(fit))
    BY <1>8 DEF TrainMaxHold, TrainSurvivalModel, TrainEntryTiming
  <2> QED BY <1>2, <2>1, FittedTyped
<1>9. Snapshot \/ SaveModel \/ OpenMeta \/ WriteMeta => judged' = judged
  BY DEF Snapshot, SaveModel, OpenMeta, WriteMeta
<1>10. StartLoad \/ ReadMeta \/ ReadModel => judged' = judged
  BY DEF StartLoad, ReadMeta, ReadModel, files
<1>11. GateEntry \/ GateOther \/ Ungated => judged' = judged
  BY DEF GateEntry, GateOther, Ungated, files
<1>12. TrainerDies \/ RollBack \/ Restart => judged' = judged
  BY DEF TrainerDies, RollBack, Restart, files
<1>13. UNCHANGED modelVars => judged' = judged
  BY DEF modelVars, files
<1> QED BY <1>4, <1>5, <1>6, <1>7, <1>8, <1>9, <1>10, <1>11, <1>12, <1>13
        DEF ModelNext, Trainer, Loader

LEMMA ModelTypes ==
  ASSUME LifecycleInv \/ ModelOff, MetasTyped
  PROVE  ModelTypeOK
<1>1. CASE ModelOff
  BY <1>1 DEF ModelOff, ModelTypeOK
<1>2. CASE LifecycleInv
  <2>1. /\ disk \in [Roles -> Pairs] /\ prev \in [Roles -> Pairs]
        /\ used \in [Roles -> Uses] /\ unpaired \subseteq Done
    BY <1>2 DEF LifecycleInv, LifecycleTypes
  <2>2. \A r \in DOMAIN disk : {disk[r].model, disk[r].meta, prev[r].model,
          prev[r].meta} \subseteq {Absent, Torn} \cup DOMAIN judged
    BY <2>1 DEF Pairs, ModelFile, MetaFile, Done
  <2>3. \A r \in DOMAIN used :
          used[r].state \in {"unloaded", "none", "inert", "acts"}
    BY <2>1 DEF Uses
  <2>4. \A g \in DOMAIN judged : judged[g].health \in {"none", "ok", "degenerate",
          "narrow_proba_spread", "auc_regression", "calibration_drift", "weak_signal"}
    BY DEF MetasTyped, Healths
  <2> QED BY <2>1, <2>2, <2>3, <2>4 DEF ModelTypeOK, Done
<1> QED BY <1>1, <1>2

(* Beside what each job keeps, the types of the five jobs whose invariant does *)
(* not bound them.                                                            *)
TypesInv == PipelineTyped /\ MetasTyped /\ EngineTyped /\ FeaturesTyped /\ CreatorTyped

LEMMA TypesStart == Init => TypesInv
<1> SUFFICES ASSUME Init PROVE TypesInv
  OBVIOUS
<1>1. PipelineInit \/ PipelineOff
  BY DEF Init, Off
<1>2. ModelInit \/ ModelOff
  BY DEF Init, Off
<1>3. BacktestInit \/ BacktestOff
  BY DEF Init, Off
<1>4. FeaturesInit \/ FeaturesOff
  BY DEF Init, Off
<1>5. CreatorInit \/ CreatorOff
  BY DEF Init, Off
<1> QED BY <1>1, <1>2, <1>3, <1>4, <1>5, PipelineStartsTyped, MetasStartTyped,
           EngineStartsTyped, FeaturesStartTyped, CreatorStartsTyped DEF TypesInv

(* A job that is off moves nothing.                                          *)
LEMMA RestingTyped ==
  /\ EngineTyped /\ UNCHANGED backtestVars => EngineTyped'
  /\ FeaturesTyped /\ UNCHANGED featureVars => FeaturesTyped'
  /\ CreatorTyped /\ UNCHANGED creatorVars => CreatorTyped'
<1>1. EngineTyped /\ UNCHANGED backtestVars => EngineTyped'
  BY DEF backtestVars, EngineTyped, BacktestTypeOK
<1>2. FeaturesTyped /\ UNCHANGED featureVars => FeaturesTyped'
  BY DEF featureVars, FeaturesTyped, FeaturesTypeOK
<1>3. CreatorTyped /\ UNCHANGED creatorVars => CreatorTyped'
  BY DEF creatorVars, CreatorTyped, CapturesTyped, OneRefresh
<1> QED BY <1>1, <1>2, <1>3

LEMMA TypesStep == JobsInv /\ TypesInv /\ [Next]_vars => TypesInv'
<1> SUFFICES ASSUME JobsInv, TypesInv, [Next]_vars PROVE TypesInv'
  OBVIOUS
<1>1. PipelineTyped'
  BY OneJobSteps, PipelineKeepsTypes DEF TypesInv
<1>2. MetasTyped'
  BY OneJobSteps, MetasKeepTypes DEF TypesInv
<1>3. EngineTyped'
  BY OneJobSteps, EngineKeepsTypes, BacktestRests, RestingTyped DEF JobsInv, TypesInv
<1>4. FeaturesTyped'
  BY OneJobSteps, FeaturesKeepTypes, FeaturesRests, RestingTyped DEF JobsInv, TypesInv
<1>5. CreatorTyped'
  BY OneJobSteps, CreatorKeepsTypes, CreatorRests, RestingTyped DEF JobsInv, TypesInv
<1> QED BY <1>1, <1>2, <1>3, <1>4, <1>5 DEF TypesInv

(* Every job of the process keeps its types: no bound of the code's is passed *)
(* (the window's deadline, the length of a token's trades, one capture of a   *)
(* refresh at a time), no stage, verdict or health is unknown, no portfolio   *)
(* owes money and no position is sold more than once over, whichever command  *)
(* main.py was given (main.py runs one command and returns).                  *)
THEOREM TypesKept == Spec => []BotTypeOK
<1>1. JobsInv /\ TypesInv => BotTypeOK
  <2> SUFFICES ASSUME JobsInv, TypesInv PROVE BotTypeOK
    OBVIOUS
  <2>1. PipelineTypeOK /\ ModelTypeOK
    BY PipelineTypes, ModelTypes DEF JobsInv, TypesInv
  <2>2. SweepTypeOK /\ BacktestTypeOK /\ ReplayTypeOK
    BY SweepTypes, ReplayTypes DEF JobsInv, TypesInv, EngineTyped
  <2>3. LedgerTypeOK /\ ClusterTypeOK /\ FeaturesTypeOK /\ CreatorTypeOK
    BY LedgerTypes, ClusterTypes, CreatorTypes DEF JobsInv, TypesInv, FeaturesTyped
  <2>4. VerdictTypeOK /\ LabelsTypeOK /\ GeyserTypeOK
    BY VerdictTypes, LabelsTypes, GeyserTypes DEF JobsInv
  <2> QED BY <2>1, <2>2, <2>3, <2>4 DEF BotTypeOK
<1> QED BY <1>1, JobsStart, JobsStep, TypesStart, TypesStep, PTL DEF Spec
=============================================================================
