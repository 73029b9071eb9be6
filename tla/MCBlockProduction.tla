------------------------- MODULE MCBlockProduction -------------------------
(***************************************************************************)
(* Alice pays Bob twice (t0, t1); t1x claims the nonce of t1 at a higher    *)
(* price; Bob pays Alice out of what t0 gives him (u0), and without that    *)
(* payment Alice cannot afford t1 or t1x.                                   *)
(***************************************************************************)
EXTENDS BlockProduction, TLC

CONSTANTS c1, c2

Cycles == Permutations({c1, c2})

MCTx == {"t0", "t1", "t1x", "u0"}
MCfrom == [t0 |-> "Alice", t1 |-> "Alice", t1x |-> "Alice", u0 |-> "Bob"]
MCto == [t0 |-> "Bob", t1 |-> "Bob", t1x |-> "Val", u0 |-> "Alice"]
MCvalue == [t0 |-> 3, t1 |-> 2, t1x |-> 1, u0 |-> 2]
MCfee == [t0 |-> 1, t1 |-> 1, t1x |-> 2, u0 |-> 1]
MCnonce == [t0 |-> 0, t1 |-> 1, t1x |-> 1, u0 |-> 0]
MCprice == [t0 |-> 1, t1 |-> 1, t1x |-> 2, u0 |-> 1]
MCInitBalance == [Alice |-> 6, Bob |-> 0, Val |-> 0]

\* Without Bob's payment, for the run that checks liveness.
LiveTx == {"t0", "t1", "t1x"}
LiveFrom == Restrict(MCfrom, LiveTx)
LiveTo == Restrict(MCto, LiveTx)
LiveValue == Restrict(MCvalue, LiveTx)
LiveFee == Restrict(MCfee, LiveTx)
LiveNonce == Restrict(MCnonce, LiveTx)
LivePrice == Restrict(MCprice, LiveTx)
LiveInitBalance == [Alice |-> 9, Bob |-> 0, Val |-> 0]
=============================================================================
