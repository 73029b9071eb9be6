------------------------------ MODULE MCChain ------------------------------
(***************************************************************************)
(* A chain g-a1-a2 with a longer branch x2-x3 on a1, and a rival b1 of a1.  *)
(* The header of bad, a child of a1, skips a height.                        *)
(***************************************************************************)
EXTENDS Chain

TreeParent == [g |-> "none", a1 |-> "g", a2 |-> "a1", x2 |-> "a1", x3 |-> "x2", bad |-> "a1",
               b1 |-> "g"]
TreeHeight == [g |-> 0, a1 |-> 1, a2 |-> 2, x2 |-> 2, x3 |-> 3, bad |-> 3, b1 |-> 1]
TreeTime   == [g |-> 0, a1 |-> 1, a2 |-> 3, x2 |-> 2, x3 |-> 3, bad |-> 2, b1 |-> 1]
Tree       == DOMAIN TreeParent
=============================================================================
