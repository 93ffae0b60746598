-------------------------- MODULE MCAgentApprovals --------------------------
(* Small instances of AgentApprovals for TLC. *)
EXTENDS AgentApprovals, TLC

Symmetry == Permutations(Calls) \cup Permutations(Deciders)
=============================================================================
