---------------------------- MODULE PublishedLog ----------------------------
(***************************************************************************)
(* What the publisher promises to a reader of the publish branch: commits   *)
(* of the queue appear one at a time, in the order of the queue, and no     *)
(* tree appears twice.                                                      *)
(***************************************************************************)
EXTENDS Integers, Sequences

CONSTANT treeOf  \* the tree of each commit of the queue, by position

VARIABLE log  \* the positions published so far

Init == log = << >>

Publish(i) ==
  /\ \A k \in DOMAIN log : log[k] < i /\ treeOf[log[k]] # treeOf[i]
  /\ log' = Append(log, i)

Next == \E i \in DOMAIN treeOf : Publish(i)

Spec == Init /\ [][Next]_log
=============================================================================
