-------------------------- MODULE MCTesseraIssuer --------------------------
(* Small instances of TesseraIssuer for TLC.  Secrets are interchangeable. *)
EXTENDS TesseraIssuerInv, TLC

Base == [allowed |-> Who, quota |-> None, window |-> None, mode |-> "burn",
         forwards |-> TRUE, cap |-> None, expires |-> None]

\* a day pass with a quota, a membership under a cap, a credit of one window
Various == {
  [Base EXCEPT !.window = 2, !.quota = [n |-> 1, per |-> 2]],
  [Base EXCEPT !.mode = "check", !.window = 2, !.cap = 1],
  [Base EXCEPT !.quota = [n |-> 1, per |-> 1], !.expires = 2]}

Windows == {[Base EXCEPT !.window = 1], [Base EXCEPT !.window = 2]}

Interchangeable == Permutations(Secrets)
=============================================================================
