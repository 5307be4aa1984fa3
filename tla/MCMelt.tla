------------------------------ MODULE MCMelt ------------------------------
(* Small instances of Melt for TLC.  Wires and secrets are interchangeable. *)
EXTENDS MeltInv, TLC

Interchangeable == Permutations(Secrets) \cup Permutations(Wires)
=============================================================================
