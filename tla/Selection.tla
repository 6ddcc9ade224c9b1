------------------------------ MODULE Selection ------------------------------
(***************************************************************************)
(* The members of a sequence that belong to a set, in their order: what a   *)
(* comprehension with a condition makes of a list.  It is SelectSeq, with   *)
(* the condition as a set and the recursion written out.                    *)
(***************************************************************************)
EXTENDS Integers, Sequences

Among(s, X) ==
  LET kept[i \in 0..Len(s)] ==
        IF i = 0 THEN <<>>
        ELSE IF s[i] \in X THEN Append(kept[i - 1], s[i]) ELSE kept[i - 1]
  IN kept[Len(s)]
=============================================================================
