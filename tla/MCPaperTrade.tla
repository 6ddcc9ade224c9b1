---------------------------- MODULE MCPaperTrade ----------------------------
(* Small instances of PaperTrade for TLC.                                   *)
EXTENDS PaperTrade, TLC

(* Configurations and mints are interchangeable.                            *)
Symmetry == Permutations(Configs) \cup Permutations(Mints)
=============================================================================
