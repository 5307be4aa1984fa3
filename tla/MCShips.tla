------------------------------ MODULE MCShips ------------------------------
(* Small instances of TesseraShips for TLC.  Ships, secrets and
   ids are interchangeable. *)
EXTENDS TesseraShipsInv, TLC

Interchangeable == Permutations(Holders) \cup Permutations(Secrets) \cup Permutations(Rids)
=============================================================================
