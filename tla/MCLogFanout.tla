---------------------------- MODULE MCLogFanout ----------------------------
(* Small instances of LogFanout for TLC. *)
EXTENDS LogFanout, TLC

Symmetry == Permutations(Subscribers)
=============================================================================
