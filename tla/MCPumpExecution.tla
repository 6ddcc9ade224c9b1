-------------------------- MODULE MCPumpExecution --------------------------
(* Small instances of PumpExecution for TLC.                                *)
EXTENDS PumpExecution, TLC

(* Reserves small enough for rounding to matter in every trade.             *)
SmallCurve == [vt |-> 24, vs |-> 9, rt |-> 12, rs |-> 2, complete |-> FALSE]

CallSymmetry == Permutations(Calls)
=============================================================================
