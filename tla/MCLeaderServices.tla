-------------------------- MODULE MCLeaderServices --------------------------
(* One process that is elected up to three times. *)
EXTENDS LeaderServices
=============================================================================
