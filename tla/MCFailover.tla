----------------------------- MODULE MCFailover -----------------------------
(* Two workers; Alice pays Bob, who can only then pay her back. *)
EXTENDS Failover

MCTx == {"t0", "u0"}
MCfrom == [t0 |-> "Alice", u0 |-> "Bob"]
MCto == [t0 |-> "Bob", u0 |-> "Alice"]
MCvalue == [t0 |-> 3, u0 |-> 2]
MCfee == [t0 |-> 1, u0 |-> 1]
MCnonce == [t0 |-> 0, u0 |-> 0]
MCInitBalance == [Alice |-> 6, Bob |-> 0, Val |-> 0]
=============================================================================
