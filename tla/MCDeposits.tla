---------------------------- MODULE MCDeposits ----------------------------
(* Small instances of Deposits for TLC.  Wires are interchangeable. *)
EXTENDS DepositsInv, TLC

OneSat == [q \in Quotes |-> 1]

Interchangeable == Permutations(Wires)
=============================================================================
