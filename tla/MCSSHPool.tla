----------------------------- MODULE MCSSHPool -----------------------------
(* A small instance of SSHPool for TLC. *)
EXTENDS SSHPool, TLC

Symmetry == Permutations(Nodes) \cup Permutations(Users) \cup Permutations(Clients)
=============================================================================
