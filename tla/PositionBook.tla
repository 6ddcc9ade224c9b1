----------------------------- MODULE PositionBook -----------------------------
(***************************************************************************)
(* What the paper-trading side of the bot promises, without loops, locks or *)
(* counters: which positions hold a slot of their portfolio, and what the   *)
(* book records of each.  A position takes a slot only while its portfolio  *)
(* has one free; it is written once as open and at most once as closed, and *)
(* only while it holds a slot; a restart hands a slot to every open one.    *)
(***************************************************************************)
EXTENDS Naturals, FiniteSets

CONSTANTS Configs, Mints, Cap

VARIABLES holders, (* positions that hold a slot                           *)
          book     (* what the table says of each position                 *)

Positions == Configs \X Mints
HeldBy(c) == {p \in holders : p[1] = c}

Init == /\ holders = {}
        /\ book = [p \in Positions |-> "none"]

(* Several portfolios may take the same mint in one step.                   *)
Acquire(m, cs) ==
  /\ cs # {}
  /\ \A c \in cs : Cardinality(HeldBy(c)) < Cap
  /\ \A c \in cs : <<c, m>> \notin holders /\ book[<<c, m>>] = "none"
  /\ holders' = holders \cup (cs \X {m})
  /\ UNCHANGED book

Open(p) ==
  /\ p \in holders
  /\ book[p] = "none"
  /\ book' = [book EXCEPT ![p] = "open"]
  /\ UNCHANGED holders

Close(p) ==
  /\ p \in holders
  /\ book[p] = "open"
  /\ book' = [book EXCEPT ![p] = "closed"]
  /\ UNCHANGED holders

Free(p) ==
  /\ p \in holders
  /\ book[p] # "none"
  /\ holders' = holders \ {p}
  /\ UNCHANGED book

Stop == /\ holders' = {}
        /\ UNCHANGED book

Restart == /\ holders = {}
           /\ holders' = {p \in Positions : book[p] = "open"}
           /\ UNCHANGED book

Next == \/ \E m \in Mints, cs \in SUBSET Configs : Acquire(m, cs)
        \/ \E p \in Positions : Open(p) \/ Close(p) \/ Free(p)
        \/ Stop
        \/ Restart

Spec == Init /\ [][Next]_<<holders, book>>
=============================================================================
