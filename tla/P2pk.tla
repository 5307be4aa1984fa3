--------------------------------- MODULE P2pk ---------------------------------
(***************************************************************************)
(* Spending conditions of proofs (NUT-10, NUT-11): who may spend a proof     *)
(* whose secret is a P2PK lock (src/desk/lib/ecash-rules.hoon, check-p2pk).  *)
(*                                                                         *)
(* A public key is its x and its parity; a signature is named by the x of    *)
(* the key that made it ("" for an empty string), for Schnorr verification   *)
(* reads only x.  Numbers a lock carries are naturals, or cannot be read.    *)
(***************************************************************************)
EXTENDS Integers, Sequences, FiniteSets

MaxKeys == 10       \* max-p2pk-keys: most keys, and most signatures
Unreadable == -1    \* a number that does not parse
Pass == "pass"      \* what a check that passes says; one that fails says why
Blank == ""         \* an empty string

\* a lock: its kind, data and tags.  No kind is a secret with no condition.
NoLock == [kind |-> Blank, sigflag |-> "SIG_INPUTS", data |-> <<Blank, Blank>>, pubkeys |-> <<>>, nSigs |-> 1,
           locktime |-> 0, refund |-> <<>>, nRefund |-> 1]

\* Mutant: keys are counted as they are spelled.
CountKeys(sigs, keys, need) ==
  IF Len(sigs) > MaxKeys \/ Len(keys) > MaxKeys THEN 0
  ELSE LET valid == {k \in {keys[i] : i \in DOMAIN keys} : \E j \in DOMAIN sigs : sigs[j] = k[1] /\ sigs[j] # Blank}
       IN IF Cardinality(valid) > need THEN need ELSE Cardinality(valid)

\* canon-x and count-valid-sigs: distinct signers, up to need
CountValid(sigs, keys, need) ==
  IF Len(sigs) > MaxKeys \/ Len(keys) > MaxKeys THEN 0
  ELSE LET valid == {s \in {keys[i][1] : i \in DOMAIN keys} : \E j \in DOMAIN sigs : sigs[j] = s /\ s # Blank}
       IN IF Cardinality(valid) > need THEN need ELSE Cardinality(valid)

\* at least one signature, whatever the lock says
Need(n) == IF n > 1 THEN n ELSE 1

\* check-p2pk: does the witness meet the lock
CheckP2pk(lock, sigs, now) ==
  IF lock.sigflag # "SIG_INPUTS" THEN "unsupported-sigflag"
  ELSE IF lock.locktime = Unreadable THEN "invalid-locktime"
  ELSE IF lock.nSigs = Unreadable THEN "invalid-n-sigs"
  ELSE IF lock.locktime > 0 /\ now > lock.locktime
    THEN IF lock.refund = <<>> THEN Pass
         ELSE IF lock.nRefund = Unreadable THEN "invalid-n-sigs-refund"
         ELSE IF sigs = <<>> THEN "missing-witness-signatures"
         ELSE IF CountValid(sigs, lock.refund, Need(lock.nRefund)) >= Need(lock.nRefund) THEN Pass
         ELSE "invalid-refund-signature"
  ELSE IF sigs = <<>> THEN "missing-witness-signatures"
  ELSE IF CountValid(sigs, <<lock.data>> \o lock.pubkeys, Need(lock.nSigs)) >= Need(lock.nSigs) THEN Pass
  ELSE "insufficient-p2pk-signatures"

\* what a well-known secret asks of a spend: P2PK is enforced, any other
\* kind refused
Condition(lock, sigs, now) ==
  IF lock.kind = Blank THEN Pass
  ELSE IF lock.kind # "P2PK" THEN "unsupported-spending-condition"
  ELSE CheckP2pk(lock, sigs, now)

-----------------------------------------------------------------------------
(* What a lock means: the keyholders that signed open it if as many of those *)
(* it names as it asks for are among them.                                   *)

Holds(keys) == {keys[i][1] : i \in DOMAIN keys} \ {Blank}
Enough(signers, keys, n) ==
  /\ Len(keys) <= MaxKeys
  /\ \E team \in SUBSET (signers \cap Holds(keys)) : Cardinality(team) = Need(n)

MayOpen(lock, signers, now) ==
  /\ lock.kind = "P2PK" /\ lock.sigflag = "SIG_INPUTS"
  /\ lock.locktime # Unreadable /\ lock.nSigs # Unreadable
  /\ LET late == lock.locktime > 0 /\ lock.locktime < now IN
     \/ ~late /\ Enough(signers, <<lock.data>> \o lock.pubkeys, lock.nSigs)
     \/ late /\ lock.refund = <<>>
     \/ late /\ lock.nRefund # Unreadable /\ Enough(signers, lock.refund, lock.nRefund)
=============================================================================
