--------------------------- MODULE MCPaperPosition ---------------------------
(* Small instances of PaperPosition for TLC.                                *)
EXTENDS PaperPosition

(* P&L on each side of every threshold of the configurations.               *)
FewPnl  == {-20, -10, 0, 60, 120, 310}
HoldPnl == {-20, 0, 120, 310}
Fractions == {30, 70}
Half == {50}
=============================================================================
