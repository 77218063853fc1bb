-------------------------- MODULE MCDeviceSession --------------------------
(* Instances of DeviceSession for TLC. *)
EXTENDS DeviceSession, TLC

\* Nothing in the module tells two WebSocket objects, coroutines or request ids apart.
Symmetry == Permutations(Conns) \cup Permutations(Callers) \cup Permutations(Requests)
============================================================================
