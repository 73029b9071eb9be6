--------------------------- MODULE MCPublishQueue ---------------------------
(* Two pacers, in one process or in two.  The third commit of the queue goes
   back to the tree of the first. *)
EXTENDS PublishQueue, TLC

CONSTANTS p1, p2, h1, h2

OneOrTwo == {[p \in {p1, p2} |-> h1], [p \in {p1, p2} |-> IF p = p1 THEN h1 ELSE h2]}
Queue == <<1, 2, 1, 3>>
Verdicts == <<TRUE, FALSE, TRUE, TRUE>>
=============================================================================
