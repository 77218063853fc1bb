---------------------------- MODULE MCAgentRepo ----------------------------
(* Instances of AgentRepo for TLC. *)
EXTENDS AgentRepo, TLC

\* Nothing in the module tells two devices or two coroutines apart.
Symmetry == Permutations(Devices) \cup Permutations(Pushers)
============================================================================
