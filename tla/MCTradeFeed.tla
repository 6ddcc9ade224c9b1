---------------------------- MODULE MCTradeFeed ----------------------------
(* Small instances of TradeFeed for TLC.                                    *)
EXTENDS TradeFeed, TLC

Symmetry == Permutations(Mints) \cup Permutations(Readers)
=============================================================================
