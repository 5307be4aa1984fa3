---------------------------- MODULE Redemption ----------------------------
(***************************************************************************)
(* What a mint promises about redeeming proofs for Lightning payments.  An  *)
(* attempt takes unspent proofs for a payment; the payment may leave the    *)
(* node and may come back; the attempt ends by keeping the proofs or by     *)
(* returning them, and the payment of an attempt whose proofs were returned *)
(* neither is out nor ever leaves.                                          *)
(***************************************************************************)
EXTENDS Naturals

CONSTANTS
  Secrets,   \* proofs
  Attempts   \* the attempts that may ever be made

VARIABLES
  free,      \* proofs that are not spent
  lot,       \* the proofs each attempt took
  fate,      \* "unmade", "open", "kept" or "returned"
  out        \* attempts whose payment is under way or settled

vars == <<free, lot, fate, out>>

Init ==
  /\ free = Secrets
  /\ lot = [a \in Attempts |-> {}]
  /\ fate = [a \in Attempts |-> "unmade"]
  /\ out = {}

\* Proofs are exchanged in a swap or redeemed without a payment.
Burn(ins) ==
  /\ ins # {} /\ ins \subseteq free
  /\ free' = free \ ins
  /\ UNCHANGED <<lot, fate, out>>

Take(a, ins) ==
  /\ fate[a] = "unmade"
  /\ ins # {} /\ ins \subseteq free
  /\ free' = free \ ins
  /\ lot' = [lot EXCEPT ![a] = ins]
  /\ fate' = [fate EXCEPT ![a] = "open"]
  /\ UNCHANGED out

\* The payment leaves: a late one may, even of an attempt already kept.
Leave(a) ==
  /\ fate[a] \in {"open", "kept"}
  /\ out' = out \cup {a}
  /\ UNCHANGED <<free, lot, fate>>

\* The payment fails.
ComeBack(a) ==
  /\ out' = out \ {a}
  /\ UNCHANGED <<free, lot, fate>>

Keep(a) ==
  /\ fate[a] = "open"
  /\ fate' = [fate EXCEPT ![a] = "kept"]
  /\ UNCHANGED <<free, lot, out>>

Return(a) ==
  /\ fate[a] = "open" /\ a \notin out
  /\ free' = free \cup lot[a]
  /\ fate' = [fate EXCEPT ![a] = "returned"]
  /\ UNCHANGED <<lot, out>>

Next ==
  \/ \E ins \in SUBSET Secrets : Burn(ins)
  \/ \E a \in Attempts :
       \/ \E ins \in SUBSET Secrets : Take(a, ins)
       \/ Leave(a) \/ ComeBack(a) \/ Keep(a) \/ Return(a)

Spec == Init /\ [][Next]_vars
=============================================================================
