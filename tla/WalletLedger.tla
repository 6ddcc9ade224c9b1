---------------------------- MODULE WalletLedger ----------------------------
(***************************************************************************)
(* The table wallet_activity, which sums up the table trades: the bot adds  *)
(* each batch of trades after inserting it, in a statement of its own, and  *)
(* the backfill adds all trades again, after emptying the table if asked.   *)
(*                                                                          *)
(* An update of wallet_activity adds to what the row holds: the sums of a   *)
(* wallet and mint are right when every trade was added exactly once, so    *)
(* the table is modelled by how often each trade was added.                 *)
(***************************************************************************)
EXTENDS Integers, FiniteSets

CONSTANTS
  Deals,      (* the trades of the market                                  *)
  MaxAdds,    (* bound: how often a trade is added                         *)
  MaxPasses   (* bound: passes of the backfill                             *)

ASSUME WalletLedgerAssumption == MaxAdds \in Nat /\ MaxPasses \in Nat

VARIABLES
  rows,       (* trades: those inserted                                    *)
  added,      (* wallet_activity: trade -> times added                     *)
  batch,      (* what the bot has inserted and not yet added: batches of    *)
              (* the pipeline and of its supervisors                       *)
  pass,       (* the backfill: the rows of its cursor, those read and those *)
              (* added                                                     *)
  passes,     (* passes begun                                              *)
  rebuilt,    (* history: the rows of the last pass that emptied the table  *)
              (* and ran to its end, with no pass begun since              *)
  late        (* history: trades the bot added since the table was emptied *)

ledgerVars == <<rows, added, batch, pass, passes, rebuilt, late>>

NoPass == [pc |-> "idle", truncates |-> FALSE, cursor |-> {}, agg |-> {},
           flushed |-> {}]

LedgerInit ==
  /\ rows = {} /\ added = [d \in Deals |-> 0] /\ batch = {}
  /\ pass = NoPass /\ passes = 0
  /\ rebuilt = {} /\ late = {}

LedgerOff ==
  /\ rows = {} /\ added = << >> /\ batch = {}
  /\ pass = [NoPass EXCEPT !.pc = "off"] /\ passes = 0
  /\ rebuilt = {} /\ late = {}

Plus(sums, agg) == [d \in Deals |-> sums[d] + IF d \in agg THEN 1 ELSE 0]

(* insert_trades_batch, by the pipeline or by a supervisor.                  *)
InsertTradesBatch ==
  /\ pass.pc # "off"
  /\ \E b \in (SUBSET (Deals \ rows)) \ {{}} :
       /\ rows' = rows \cup b
       /\ batch' = batch \cup b
  /\ UNCHANGED <<added, pass, passes, rebuilt, late>>

(* upsert_wallet_activity_from_trades, one statement for a whole batch.      *)
UpsertWalletActivity ==
  /\ \E b \in (SUBSET batch) \ {{}} :
       /\ \A d \in b : added[d] < MaxAdds
       /\ added' = Plus(added, b)
       /\ late' = late \cup b
       /\ batch' = batch \ b
  /\ UNCHANGED <<rows, pass, passes, rebuilt>>

(* The update fails and is not repeated, the bot dies before it, or the      *)
(* trades are those of an extended observation, which never adds them.       *)
NotAdded ==
  /\ \E b \in (SUBSET batch) \ {{}} : batch' = batch \ b
  /\ UNCHANGED <<rows, added, pass, passes, rebuilt, late>>

(* ------------------- the backfill -------------------------------------- *)
StartBackfill ==
  /\ pass.pc = "idle" /\ passes < MaxPasses
  /\ \E truncates \in BOOLEAN :
       /\ pass' = [NoPass EXCEPT !.pc = "begun", !.truncates = truncates]
       /\ IF truncates THEN added' = [d \in Deals |-> 0] /\ late' = {}
          ELSE UNCHANGED <<added, late>>
  /\ passes' = passes + 1
  /\ rebuilt' = {}
  /\ UNCHANGED <<rows, batch>>

(* The cursor sees the rows committed when it is opened.                     *)
OpenCursor ==
  /\ pass.pc = "begun"
  /\ pass' = [pass EXCEPT !.pc = "scan", !.cursor = rows]
  /\ UNCHANGED <<rows, added, batch, passes, rebuilt, late>>

ReadRow ==
  /\ pass.pc = "scan"
  /\ \E d \in pass.cursor \ (pass.flushed \cup pass.agg) :
       pass' = [pass EXCEPT !.agg = @ \cup {d}]
  /\ UNCHANGED <<rows, added, batch, passes, rebuilt, late>>

(* _flush adds the sums of a batch, of any size, and commits.                *)
Flush ==
  /\ pass.pc = "scan" /\ pass.agg # {}
  /\ \A d \in pass.agg : added[d] < MaxAdds
  /\ added' = Plus(added, pass.agg)
  /\ pass' = [pass EXCEPT !.flushed = @ \cup pass.agg, !.agg = {}]
  /\ UNCHANGED <<rows, batch, passes, rebuilt, late>>

(* Fault: the last, incomplete batch is not flushed.                         *)
EndBackfillUnflushed ==
  /\ pass.pc = "scan" /\ pass.cursor = pass.flushed \cup pass.agg
  /\ rebuilt' = IF pass.truncates THEN pass.cursor ELSE {}
  /\ pass' = NoPass
  /\ UNCHANGED <<rows, added, batch, passes, late>>

(* The cursor is exhausted: what is left is flushed.                         *)
EndBackfill ==
  /\ pass.pc = "scan" /\ pass.cursor = pass.flushed \cup pass.agg
  /\ \A d \in pass.agg : added[d] < MaxAdds
  /\ added' = Plus(added, pass.agg)
  /\ rebuilt' = IF pass.truncates THEN pass.cursor ELSE {}
  /\ pass' = NoPass
  /\ UNCHANGED <<rows, batch, passes, late>>

BackfillDies ==
  /\ pass.pc \in {"begun", "scan"}
  /\ pass' = NoPass
  /\ UNCHANGED <<rows, added, batch, passes, rebuilt, late>>

LedgerNext == \/ InsertTradesBatch \/ UpsertWalletActivity \/ NotAdded
              \/ StartBackfill \/ OpenCursor \/ ReadRow \/ Flush
              \/ EndBackfill \/ BackfillDies

LedgerTypeOK ==
  /\ rows \subseteq Deals /\ batch \subseteq rows
  /\ \A d \in DOMAIN added : added[d] \in 0..MaxAdds
  /\ pass.pc \in {"off", "idle", "begun", "scan"}
  /\ pass.cursor \subseteq rows /\ pass.agg \subseteq pass.cursor
  /\ pass.flushed \subseteq pass.cursor
  /\ passes \in 0..MaxPasses /\ rebuilt \subseteq rows /\ late \subseteq rows

(* A backfill that emptied the table and ran to its end left out no trade it  *)
(* found, whatever the bot added meanwhile, and counts a trade twice only if  *)
(* the bot added it after the table was emptied (ml/wallet_indexer.py,        *)
(* backfill and _flush).                                                     *)
Rebuilt ==
  \A d \in rebuilt : added[d] = 1 + IF d \in late THEN 1 ELSE 0
=============================================================================
