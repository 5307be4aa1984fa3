------------------------------ MODULE MeltInv ------------------------------
(***************************************************************************)
(* The inductive invariants behind the safety properties of Melt, in named  *)
(* parts: IInv holds in every environment, CInv in the cautious ones.  TLC  *)
(* checks them, and MeltProofs proves them.                                 *)
(***************************************************************************)
EXTENDS Melt

\* Attempts are numbered as they are made.
Numbered ==
  \A a \in Attempts : /\ a > now <=> tries[a].fate = "unmade"
                      /\ a > now <=> trip[a] = "unmade"

\* An attempt is open exactly while its quote's inflight record is about it.
Open ==
  /\ \A a \in Attempts : tries[a].fate = "open" =>
       inflight[tries[a].quote].started = a
  /\ \A q \in Quotes : HasInflight(q) =>
       LET t == tries[AttemptOf(q)] IN
       /\ t.fate = "open" /\ t.quote = q
       /\ t.hash = hash[q] /\ t.secrets = inflight[q].secrets

\* What was burned stays spent, what an attempt took until it is rolled back,
\* and what a settled one took is in no inflight record.
Kept ==
  /\ burned \subseteq spent
  /\ \A a \in Attempts :
       /\ tries[a].fate \in {"open", "settled"} => tries[a].secrets \subseteq spent
       /\ tries[a].fate = "settled" =>
            \A q \in Quotes : tries[a].secrets \cap inflight[q].secrets = {}

\* A payment was started by the pay request of an attempt on its invoice.
Backed ==
  \A n \in Nodes, h \in Invoices :
    LET p == pay[n][h] IN
    /\ p.status # "none" <=> p.by # NoAttempt
    /\ p.by # NoAttempt => /\ trip[p.by] = "started"
                           /\ tries[p.by].via = n /\ tries[p.by].hash = h

\* An outstanding decode request is alone in making its quote; any other
\* request is about an attempt of its quote.  What a node said was so.
Asked ==
  /\ \A w \in Wires : pending[w] # NoRequest =>
       LET r == pending[w] IN
       IF r.kind = "decode"
       THEN /\ state[r.quote] = "none" /\ r.reply \in {"none", "decoded", "unclear"}
            /\ \A v \in Wires \ {w} : pending[v] # NoRequest => pending[v].quote # r.quote
       ELSE /\ state[r.quote] # "none"
            /\ state[r.quote] # "dropped" => hash[r.quote] = r.hash
            /\ r.att # NoAttempt /\ trip[r.att] # "unmade"
            /\ tries[r.att].quote = r.quote /\ tries[r.att].hash = r.hash
            /\ r.reply = "settled" => Settled(r.hash)
  /\ \A q \in Quotes : state[q] = "none" => hash[q] = NoHash

\* A settled attempt's invoice was paid.
PaidFor == \A a \in Attempts : tries[a].fate = "settled" => Settled(tries[a].hash)

(* The state always accounts for every attempt and every outstanding request:
   what the records of melt-inflight, the quotes and the pending map of the
   agent say about an attempt agrees with its history and with the node. *)
IInv ==
  /\ TypeOK /\ InflightExact
  /\ Numbered /\ Open /\ Kept /\ Backed /\ Asked /\ PaidFor /\ NoLostProof

-----------------------------------------------------------------------------
(* The environments in which the mint does not pay twice: one backend, which
   never reports a failure or hears of a pay before it is asked about it, and
   an operator who forces an abort only after looking at the node.  The runs
   that drop a part of it show that each is needed. *)
Cautious ==
  /\ OperatorLooks
  /\ "lnd" \in Nodes => InOrder
  /\ Nodes # {"lnbits", "lnd"}

\* The attempt's pay can no longer move money.
Dead(a) ==
  /\ trip[a] # "sent"
  /\ \A n \in Nodes, h \in Invoices : pay[n][h].by = a => pay[n][h].status = "failed"

\* An answer that can roll its attempt back is about a dead one.
DeadWhenAsked ==
  \A w \in Wires : pending[w] # NoRequest =>
    LET r == pending[w] IN
    /\ r.kind = "pay" => r.reply # "failed"
    /\ r.kind = "force" \/ r.reply \in {"failed", "refused"} => Dead(r.att)

\* An attempt that was rolled back is dead.
DeadWhenRolledBack == \A a \in Attempts : tries[a].fate = "rolledback" => Dead(a)

(* In a cautious environment an attempt is only ever rolled back, and only
   ever about to be, when its payment can no longer happen. *)
CInv == IInv /\ DeadWhenAsked /\ DeadWhenRolledBack

-----------------------------------------------------------------------------
(* In a cautious environment melts keep the promise of Redemption: an attempt
   is out while a node pays for it or has paid for it. *)

Out == {a \in Attempts : \E n \in Nodes, h \in Invoices :
          pay[n][h].by = a /\ pay[n][h].status \in {"live", "settled"}}

Outcome(f) == CASE f = "settled" -> "kept"
                [] f = "rolledback" -> "returned"
                [] OTHER -> f

Promise == INSTANCE Redemption WITH
  free <- Secrets \ spent,
  lot  <- [a \in Attempts |-> tries[a].secrets],
  fate <- [a \in Attempts |-> Outcome(tries[a].fate)],
  out  <- Out

(* Every step of the mint, the nodes and the operator is a step that the
   promise allows, or none of its business: a melt's proofs come back only
   when its payment is not out, and then it never leaves. *)
KeepsPromise == Promise!Spec
=============================================================================
