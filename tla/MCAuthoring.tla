---------------------------- MODULE MCAuthoring -----------------------------
(* Two loops, in one process or in two.  Of three files the first is in the  *)
(* queue branch and the third would lie in a new directory.                  *)
EXTENDS Authoring

CONSTANTS p1, p2, a1, a2

OneOrTwo == {[a \in Author |-> p1], [a \in Author |-> IF a = a1 THEN p1 ELSE p2]}
OneAlone == {[a \in Author |-> p1]}
NewDirectory == [f \in {3} |-> 4]
WithNewDirectory == {{2, 3, 4}}
Whole == {{1, 2, 3, 4}}
=============================================================================
