--------------------------- MODULE MCInstallation ---------------------------
(* Instances of Installation for TLC. *)
EXTENDS Installation, TLC

\* Nothing in the module tells two keys apart.
Symmetry == Permutations(Keys)
=============================================================================
