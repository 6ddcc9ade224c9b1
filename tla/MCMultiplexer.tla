--------------------------- MODULE MCMultiplexer ---------------------------
(* Small instances of Multiplexer for TLC: how copies of a trade look.      *)
EXTENDS Multiplexer

(* The last two trades are the same order twice within one second for the   *)
(* primary, while the fallback stamps the last one a second later.          *)
Confusable == [s \in Sources |-> [n \in Trade |->
                 IF s = "primary" /\ n = NumTrades THEN n - 1 ELSE n]]
=============================================================================
