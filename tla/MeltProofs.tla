---------------------------- MODULE MeltProofs ----------------------------
(***************************************************************************)
(* Proofs of the safety properties of Melt, for any sets of quotes, proofs, *)
(* outputs, invoices and wires and any number of attempts, and that melts   *)
(* implement Redemption.                                                    *)
(***************************************************************************)
EXTENDS MeltInv, TLAPS

USE DEF Attempts, NoAttempt

-----------------------------------------------------------------------------
(* The initial state. *)

LEMMA InitInv == Init => IInv
<1> SUFFICES ASSUME Init PROVE IInv
  OBVIOUS
<1>1. TypeOK
  BY MeltAssumption DEF Init, TypeOK, QuoteStates, NoInflight, Inflight, NoPayment, Payment
<1>2. InflightExact /\ Open /\ Kept
  BY DEF Init, InflightExact, HasInflight, NoInflight, Open, Kept, Unmade
<1>3. Numbered /\ Backed /\ Asked /\ PaidFor /\ NoLostProof
  BY DEF Init, Numbered, Backed, Asked, PaidFor, NoLostProof, Unmade, NoPayment
<1> QED
  BY <1>1, <1>2, <1>3 DEF IInv

-----------------------------------------------------------------------------
(* The effects that the handlers share. *)

(* Nothing the invariant says of quotes and attempts is disturbed by a step
   that only touches ln-config and the requests at the backend. *)
LEMMA RequestFrame ==
  ASSUME IInv, UNCHANGED <<mint, trip, pay, now, tries, burned>>
  PROVE  /\ InflightExact' /\ Numbered' /\ Open' /\ Kept' /\ Backed'
         /\ PaidFor' /\ NoLostProof'
BY DEF IInv, mint, InflightExact, HasInflight, Numbered, Open, AttemptOf, Kept,
       Backed, PaidFor, NoLostProof, Settled

(* A request that Send puts out has the type of one. *)
LEMMA SendType ==
  ASSUME TypeOK, NEW w \in Wires, NEW kind \in Kinds, NEW q \in Quotes,
         NEW h \in Invoices, NEW att \in {NoAttempt} \cup Attempts,
         ln # "none", Send(w, kind, q, h, att)
  PROVE  pending' \in [Wires -> Request \cup {NoRequest}]
BY DEF Send, TypeOK, Request, Replies

(* A request about the pending melt of q keeps what Asked says. *)
LEMMA SendInv ==
  ASSUME IInv, NEW w \in Wires, NEW kind \in Kinds \ {"decode"}, NEW q \in Quotes,
         state[q] = "pending", ln # "none", hash[q] # NoHash,
         Send(w, kind, q, hash[q], AttemptOf(q)),
         UNCHANGED <<mint, ln, trip, pay, now, tries, burned>>
  PROVE  IInv'
<1>1. AttemptOf(q) \in Attempts /\ hash[q] \in Invoices
  BY DEF IInv, TypeOK, Inflight, AttemptOf, InflightExact, HasInflight
<1>2. TypeOK'
  <2>1. pending' \in [Wires -> Request \cup {NoRequest}]
    BY <1>1, SendType DEF IInv
  <2> QED
    BY <2>1 DEF IInv, TypeOK, mint
<1>3. Asked'
  <2>1. /\ tries[AttemptOf(q)].quote = q /\ tries[AttemptOf(q)].hash = hash[q]
        /\ trip[AttemptOf(q)] # "unmade"
    BY <1>1 DEF IInv, InflightExact, Open, HasInflight, AttemptOf, Numbered
  <2> QED
    BY <1>1, <2>1 DEF IInv, Asked, Send, mint, TypeOK, Settled
<1> QED
  BY <1>2, <1>3, RequestFrame DEF IInv

(* A step that at most answers requests, and changes no quote's request,
   leaves the other requests as they were. *)
Fewer ==
  /\ pending' \in [Wires -> Request \cup {NoRequest}]
  /\ \A w \in Wires : pending'[w] \in {NoRequest, pending[w]}

(* Taking a wire leaves fewer requests. *)
LEMMA TakeFewer == ASSUME TypeOK, NEW w \in Wires, Take(w) PROVE Fewer
BY DEF TypeOK, Take, Fewer

(* What Asked says holds of fewer requests. *)
LEMMA FewerAsked ==
  ASSUME TypeOK, Asked, Fewer, UNCHANGED <<trip, hash, pay>>,
         \A q \in Quotes : /\ state[q] = "none" <=> state'[q] = "none"
                           /\ state[q] = "dropped" => state'[q] = "dropped",
         \A a \in Attempts : /\ tries'[a].quote = tries[a].quote
                             /\ tries'[a].hash = tries[a].hash
  PROVE  Asked'
BY DEF Asked, Fewer, TypeOK, Settled, Request

(* An answer that changes no quote: only its request goes. *)
LEMMA TakeInv ==
  ASSUME IInv, NEW w \in Wires, Take(w),
         UNCHANGED <<mint, ln, trip, pay, now, tries, burned>>
  PROVE  IInv'
<1>1. Fewer
  BY TakeFewer DEF IInv
<1>2. Asked'
  BY <1>1, FewerAsked DEF IInv, mint
<1>3. TypeOK'
  BY <1>1 DEF IInv, TypeOK, mint, Fewer
<1> QED
  BY <1>2, <1>3, RequestFrame DEF IInv

(* The attempt behind a pending quote, and what the invariant says of it. *)
LEMMA Pending ==
  ASSUME IInv, NEW q \in Quotes, state[q] = "pending"
  PROVE  /\ HasInflight(q) /\ AttemptOf(q) \in Attempts
         /\ tries[AttemptOf(q)] \in Try
         /\ tries[AttemptOf(q)].fate = "open" /\ tries[AttemptOf(q)].quote = q
         /\ tries[AttemptOf(q)].hash = hash[q]
         /\ tries[AttemptOf(q)].secrets = inflight[q].secrets
         /\ AttemptOf(q) <= now
<1>1. HasInflight(q) /\ AttemptOf(q) \in Attempts
  BY DEF IInv, InflightExact, HasInflight, TypeOK, Inflight, AttemptOf
<1>2. /\ tries[AttemptOf(q)].fate = "open" /\ tries[AttemptOf(q)].quote = q
      /\ tries[AttemptOf(q)].hash = hash[q]
      /\ tries[AttemptOf(q)].secrets = inflight[q].secrets
  BY <1>1 DEF IInv, Open
<1> QED
  BY <1>1, <1>2, MeltAssumption DEF IInv, TypeOK, Unmade, Numbered

(* Deciding an attempt changes its fate and nothing else of the history. *)
LEMMA Decided ==
  ASSUME IInv, NEW q \in Quotes, state[q] = "pending", NEW f \in Fates,
         Decide(q, f)
  PROVE  /\ tries' \in [Attempts -> Try \cup {Unmade}]
         /\ \A a \in Attempts :
              /\ tries'[a].quote = tries[a].quote /\ tries'[a].hash = tries[a].hash
              /\ tries'[a].via = tries[a].via /\ tries'[a].secrets = tries[a].secrets
              /\ a # AttemptOf(q) => tries'[a].fate = tries[a].fate
         /\ tries'[AttemptOf(q)].fate = f
<1>1. HasInflight(q) /\ AttemptOf(q) \in Attempts /\ tries[AttemptOf(q)] \in Try
  BY Pending
<1>2. [tries[AttemptOf(q)] EXCEPT !.fate = f] \in Try
  BY <1>1 DEF Try
<1>3. \A a \in Attempts : tries[a] \in Try \cup {Unmade}
  BY DEF IInv, TypeOK
<1>4. tries' \in [Attempts -> Try \cup {Unmade}]
  BY <1>1, <1>2, <1>3 DEF Decide
<1>5. /\ tries'[AttemptOf(q)].fate = f
      /\ tries'[AttemptOf(q)].quote = tries[AttemptOf(q)].quote
      /\ tries'[AttemptOf(q)].hash = tries[AttemptOf(q)].hash
      /\ tries'[AttemptOf(q)].via = tries[AttemptOf(q)].via
      /\ tries'[AttemptOf(q)].secrets = tries[AttemptOf(q)].secrets
  BY <1>1 DEF Try, Decide
<1>6. \A a \in Attempts : a # AttemptOf(q) => tries'[a] = tries[a]
  BY DEF Decide
<1> QED
  BY <1>4, <1>5, <1>6

(* Where a payment came from does not depend on how its attempt ended. *)
LEMMA BackedFrame ==
  ASSUME TypeOK, Backed, UNCHANGED <<trip, pay>>,
         \A a \in Attempts : tries'[a].via = tries[a].via /\ tries'[a].hash = tries[a].hash
  PROVE  Backed'
<1>1. \A n \in Nodes, h \in Invoices : pay[n][h].by \in {NoAttempt} \cup Attempts
  BY DEF TypeOK, Payment
<1> QED
  BY <1>1 DEF Backed

(* settle-melt on a pending quote whose invoice was paid. *)
LEMMA SettleInv ==
  ASSUME IInv, NEW q \in Quotes, state[q] = "pending", Settled(hash[q]),
         SettleMelt(q), Fewer, UNCHANGED <<ln, trip, pay, now, burned>>
  PROVE  IInv'
<1> DEFINE att == AttemptOf(q)
<1>1. /\ HasInflight(q) /\ att \in Attempts /\ tries[att] \in Try
      /\ tries[att].fate = "open" /\ tries[att].quote = q
      /\ tries[att].hash = hash[q] /\ tries[att].secrets = inflight[q].secrets
      /\ att <= now
  BY Pending
<1>2. /\ tries' \in [Attempts -> Try \cup {Unmade}]
      /\ \A a \in Attempts :
           /\ tries'[a].quote = tries[a].quote /\ tries'[a].hash = tries[a].hash
           /\ tries'[a].via = tries[a].via /\ tries'[a].secrets = tries[a].secrets
           /\ a # att => tries'[a].fate = tries[a].fate
      /\ tries'[att].fate = "settled"
  BY Decided DEF SettleMelt, Fates
<1>3. TypeOK'
  <2>1. /\ sigs' \in [Outputs -> 0..2]
        /\ change' \in [Quotes -> SUBSET Outputs]
    BY DEF SettleMelt, Sign, IInv, TypeOK, Inflight
  <2>2. /\ state' \in [Quotes -> QuoteStates]
        /\ inflight' \in [Quotes -> Inflight]
    BY DEF SettleMelt, IInv, TypeOK, QuoteStates, Inflight, NoInflight
  <2> QED
    BY <1>2, <2>1, <2>2 DEF IInv, TypeOK, SettleMelt, Fewer
<1>4. /\ inflight' = [inflight EXCEPT ![q] = NoInflight]
      /\ state' = [state EXCEPT ![q] = "paid"]
      /\ inflight' \in [Quotes -> Inflight] /\ inflight \in [Quotes -> Inflight]
      /\ state \in [Quotes -> QuoteStates]
      /\ UNCHANGED <<spent, hash>>
  BY <1>3 DEF SettleMelt, IInv, TypeOK
<1>5. InflightExact'
  BY <1>4 DEF IInv, InflightExact, HasInflight, NoInflight
<1>6. Numbered'
  <2>1. \A a \in Attempts : tries'[a].fate = "unmade" <=> tries[a].fate = "unmade"
    BY <1>1, <1>2
  <2> QED
    BY <2>1 DEF IInv, Numbered
<1>7. Open'
  <2>1. ASSUME NEW a \in Attempts, tries'[a].fate = "open"
        PROVE  inflight'[tries'[a].quote].started = a
    <3>1. a # att /\ tries[a].fate = "open" /\ tries'[a].quote = tries[a].quote
      BY <1>2, <2>1
    <3>2. inflight[tries[a].quote].started = a /\ tries[a].quote # q
      BY <3>1 DEF IInv, Open, AttemptOf
    <3> QED
      BY <1>4, <3>1, <3>2
  <2>2. ASSUME NEW p \in Quotes, HasInflight(p)'
        PROVE  LET t == tries'[inflight'[p].started] IN
               /\ t.fate = "open" /\ t.quote = p
               /\ t.hash = hash'[p] /\ t.secrets = inflight'[p].secrets
    <3>1. p # q /\ inflight'[p] = inflight[p] /\ HasInflight(p)
      BY <1>4, <2>2 DEF HasInflight, NoInflight
    <3>2. AttemptOf(p) \in Attempts /\ AttemptOf(p) # att
      BY <3>1, <1>1 DEF IInv, Open, HasInflight, AttemptOf, TypeOK, Inflight
    <3> QED
      BY <1>2, <1>4, <3>1, <3>2 DEF IInv, Open, AttemptOf
  <2> QED
    BY <2>1, <2>2 DEF Open, AttemptOf
<1>8. Kept'
  BY <1>1, <1>2, <1>4 DEF IInv, Kept, NoInflight, InflightExact
<1>9. Backed'
  BY <1>2, BackedFrame DEF IInv
<1>10. Asked'
  BY <1>2, <1>4, FewerAsked DEF IInv
<1>11. PaidFor'
  BY <1>1, <1>2 DEF IInv, PaidFor, Settled
<1>12. NoLostProof'
  <2> SUFFICES ASSUME NEW s \in spent', s \notin burned'
               PROVE \/ \E p \in Quotes : state'[p] = "pending" /\ s \in inflight'[p].secrets
                     \/ \E a \in Attempts : /\ s \in tries'[a].secrets
                                            /\ tries'[a].fate = "settled" /\ Settled(tries[a].hash)'
    BY DEF NoLostProof
  <2> s \in spent /\ s \notin burned
    BY <1>4
  <2>1. CASE \E p \in Quotes : state[p] = "pending" /\ s \in inflight[p].secrets
    BY <2>1, <1>1, <1>2, <1>4 DEF Settled
  <2>2. CASE \E a \in Attempts : /\ s \in tries[a].secrets
                                 /\ tries[a].fate = "settled" /\ Settled(tries[a].hash)
    <3>1. PICK a \in Attempts : /\ s \in tries[a].secrets
                                /\ tries[a].fate = "settled" /\ Settled(tries[a].hash)
      BY <2>2
    <3>2. a # att /\ tries'[a].fate = "settled" /\ s \in tries'[a].secrets
      BY <3>1, <1>1, <1>2
    <3> QED
      BY <3>1, <3>2, <1>2 DEF Settled
  <2> QED
    BY <2>1, <2>2 DEF IInv, NoLostProof
<1> QED
  BY <1>3, <1>5, <1>6, <1>7, <1>8, <1>9, <1>10, <1>11, <1>12 DEF IInv

(* rollback-melt on a pending quote: what it un-spends is in no other record
   and was taken by no settled attempt. *)
LEMMA RollbackInv ==
  ASSUME IInv, NEW q \in Quotes, state[q] = "pending",
         RollbackMelt(q), Fewer, UNCHANGED <<ln, trip, pay, now, burned>>
  PROVE  IInv'
<1> DEFINE att == AttemptOf(q)
<1>1. /\ HasInflight(q) /\ att \in Attempts /\ tries[att] \in Try
      /\ tries[att].fate = "open" /\ tries[att].quote = q
      /\ tries[att].hash = hash[q] /\ tries[att].secrets = inflight[q].secrets
      /\ att <= now
  BY Pending
<1>2. /\ tries' \in [Attempts -> Try \cup {Unmade}]
      /\ \A a \in Attempts :
           /\ tries'[a].quote = tries[a].quote /\ tries'[a].hash = tries[a].hash
           /\ tries'[a].via = tries[a].via /\ tries'[a].secrets = tries[a].secrets
           /\ a # att => tries'[a].fate = tries[a].fate
      /\ tries'[att].fate = "rolledback"
  BY Decided DEF RollbackMelt, Fates
<1>3. TypeOK'
  <2>1. /\ state' \in [Quotes -> QuoteStates]
        /\ inflight' \in [Quotes -> Inflight]
        /\ spent' \subseteq Secrets
    BY DEF RollbackMelt, IInv, TypeOK, QuoteStates, Inflight, NoInflight
  <2> QED
    BY <1>2, <2>1 DEF IInv, TypeOK, RollbackMelt, Fewer
<1>4. /\ inflight' = [inflight EXCEPT ![q] = NoInflight]
      /\ state' = [state EXCEPT ![q] = "failed"]
      /\ spent' = spent \ inflight[q].secrets
      /\ inflight' \in [Quotes -> Inflight] /\ inflight \in [Quotes -> Inflight]
      /\ state \in [Quotes -> QuoteStates]
      /\ UNCHANGED hash
  BY <1>3 DEF RollbackMelt, IInv, TypeOK
<1>5. InflightExact'
  BY <1>4 DEF IInv, InflightExact, HasInflight, NoInflight
<1>6. Numbered'
  <2>1. \A a \in Attempts : tries'[a].fate = "unmade" <=> tries[a].fate = "unmade"
    BY <1>1, <1>2
  <2> QED
    BY <2>1 DEF IInv, Numbered
<1>7. ASSUME NEW a \in Attempts, tries'[a].fate = "open"
      PROVE  /\ a # att /\ tries[a].fate = "open" /\ tries'[a].quote = tries[a].quote
             /\ inflight[tries[a].quote].started = a /\ tries[a].quote # q
  <2>1. a # att /\ tries[a].fate = "open" /\ tries'[a].quote = tries[a].quote
    BY <1>2, <1>7
  <2> QED
    BY <2>1 DEF IInv, Open, AttemptOf
<1>8. Open'
  <2>1. ASSUME NEW a \in Attempts, tries'[a].fate = "open"
        PROVE  inflight'[tries'[a].quote].started = a
    BY <1>4, <1>7, <2>1
  <2>2. ASSUME NEW p \in Quotes, HasInflight(p)'
        PROVE  LET t == tries'[inflight'[p].started] IN
               /\ t.fate = "open" /\ t.quote = p
               /\ t.hash = hash'[p] /\ t.secrets = inflight'[p].secrets
    <3>1. p # q /\ inflight'[p] = inflight[p] /\ HasInflight(p)
      BY <1>4, <2>2 DEF HasInflight, NoInflight
    <3>2. AttemptOf(p) \in Attempts /\ AttemptOf(p) # att
      BY <3>1, <1>1 DEF IInv, Open, HasInflight, AttemptOf, TypeOK, Inflight
    <3> QED
      BY <1>2, <1>4, <3>1, <3>2 DEF IInv, Open, AttemptOf
  <2> QED
    BY <2>1, <2>2 DEF Open, AttemptOf
<1>9. Kept'
  <2>1. ASSUME NEW a \in Attempts, tries'[a].fate = "open"
        PROVE  tries'[a].secrets \subseteq spent'
    <3>1. tries[a] \in Try /\ tries[a].quote \in Quotes
      BY <1>7, <2>1 DEF IInv, TypeOK, Unmade, Try
    <3>2. tries[a].secrets = inflight[tries[a].quote].secrets
      BY <1>7, <2>1, <3>1 DEF IInv, Open, HasInflight, AttemptOf
    <3>3. tries[a].secrets \cap inflight[q].secrets = {}
      BY <1>7, <2>1, <3>1, <3>2 DEF IInv, InflightExact
    <3> QED
      BY <1>2, <1>4, <1>7, <2>1, <3>3 DEF IInv, Kept
  <2>2. ASSUME NEW a \in Attempts, tries'[a].fate = "settled"
        PROVE  /\ tries'[a].secrets \subseteq spent'
               /\ \A p \in Quotes : tries'[a].secrets \cap inflight'[p].secrets = {}
    <3>1. tries[a].fate = "settled" /\ tries'[a].secrets = tries[a].secrets
      BY <1>2, <2>2
    <3> QED
      BY <3>1, <1>4 DEF IInv, Kept, NoInflight
  <2>3. (burned \subseteq spent)'
    BY <1>4 DEF IInv, Kept, InflightExact
  <2> QED
    BY <2>1, <2>2, <2>3 DEF Kept
<1>10. Backed'
  BY <1>2, BackedFrame DEF IInv
<1>11. Asked'
  BY <1>2, <1>4, FewerAsked DEF IInv
<1>12. PaidFor'
  BY <1>1, <1>2 DEF IInv, PaidFor, Settled
<1>13. NoLostProof'
  <2> SUFFICES ASSUME NEW s \in spent', s \notin burned'
               PROVE \/ \E p \in Quotes : state'[p] = "pending" /\ s \in inflight'[p].secrets
                     \/ \E a \in Attempts : /\ s \in tries'[a].secrets
                                            /\ tries'[a].fate = "settled" /\ Settled(tries[a].hash)'
    BY DEF NoLostProof
  <2> s \in spent /\ s \notin burned /\ s \notin inflight[q].secrets
    BY <1>4
  <2>1. CASE \E p \in Quotes : state[p] = "pending" /\ s \in inflight[p].secrets
    BY <2>1, <1>4
  <2>2. CASE \E a \in Attempts : /\ s \in tries[a].secrets
                                 /\ tries[a].fate = "settled" /\ Settled(tries[a].hash)
    <3>1. PICK a \in Attempts : /\ s \in tries[a].secrets
                                /\ tries[a].fate = "settled" /\ Settled(tries[a].hash)
      BY <2>2
    <3>2. a # att /\ tries'[a].fate = "settled" /\ s \in tries'[a].secrets
      BY <3>1, <1>1, <1>2
    <3> QED
      BY <3>1, <3>2, <1>2 DEF Settled
  <2> QED
    BY <2>1, <2>2 DEF IInv, NoLostProof
<1> QED
  BY <1>3, <1>5, <1>6, <1>8, <1>9, <1>10, <1>11, <1>12, <1>13 DEF IInv

-----------------------------------------------------------------------------
(* The steps. *)

(* Swaps and self melts burn proofs that no melt holds. *)
LEMMA BurnFrame ==
  ASSUME IInv, NEW ins, Spendable(ins),
         spent' = spent \cup ins, burned' = burned \cup ins,
         UNCHANGED <<hash, inflight, tries, trip, pay, now>>,
         \A q \in Quotes : state'[q] = "pending" <=> state[q] = "pending"
  PROVE  /\ InflightExact' /\ Numbered' /\ Open' /\ Kept' /\ Backed'
         /\ PaidFor' /\ NoLostProof'
<1>1. InflightExact' /\ Kept'
  BY DEF IInv, Spendable, InflightExact, HasInflight, Kept
<1>2. Numbered' /\ Open' /\ Backed' /\ PaidFor'
  BY DEF IInv, Numbered, Open, HasInflight, AttemptOf, Backed, PaidFor, Settled
<1>3. NoLostProof'
  BY DEF IInv, NoLostProof, Settled
<1> QED
  BY <1>1, <1>2, <1>3

(* post-swap preserves the invariant. *)
LEMMA PostSwapInv ==
  ASSUME IInv, NEW ins \in SUBSET Secrets, NEW outs \in SUBSET Outputs, PostSwap(ins, outs)
  PROVE  IInv'
<1>1. TypeOK'
  BY DEF IInv, TypeOK, PostSwap, Sign
<1>2. Asked'
  BY DEF IInv, Asked, PostSwap, Settled
<1> QED
  BY <1>1, <1>2, BurnFrame DEF IInv, PostSwap

(* A self melt (post-melt-v1) preserves the invariant. *)
LEMMA PostMeltSelfInv ==
  ASSUME IInv, NEW q \in Quotes, NEW ins \in SUBSET Secrets, NEW blanks \in SUBSET Outputs,
         PostMeltSelf(q, ins, blanks)
  PROVE  IInv'
<1>1. TypeOK'
  <2>1. /\ sigs' \in [Outputs -> 0..2] /\ change' \in [Quotes -> SUBSET Outputs]
        /\ state' \in [Quotes -> QuoteStates] /\ spent' \subseteq Secrets /\ burned' \subseteq Secrets
    BY DEF IInv, TypeOK, PostMeltSelf, Sign, QuoteStates
  <2> QED
    BY <2>1 DEF IInv, TypeOK, PostMeltSelf
<1>2. /\ state' = [state EXCEPT ![q] = "paid"] /\ state \in [Quotes -> QuoteStates]
      /\ state[q] \in {"unpaid", "failed"} /\ Spendable(ins)
  BY DEF PostMeltSelf, Meltable, IInv, TypeOK
<1>3. Asked'
  BY <1>2 DEF IInv, Asked, PostMeltSelf, Settled
<1> QED
  BY <1>1, <1>2, <1>3, BurnFrame DEF IInv, PostMeltSelf

(* Quotes that no attempt is open for come and go freely. *)
LEMMA QuoteFrame ==
  ASSUME IInv, UNCHANGED <<spent, burned, tries, trip, pay, now>>,
         \A q \in Quotes :
           /\ state'[q] = "pending" <=> state[q] = "pending"
           /\ state[q] = "pending" => hash'[q] = hash[q] /\ inflight'[q] = inflight[q]
           /\ inflight'[q] \in {inflight[q], NoInflight}
  PROVE  /\ InflightExact' /\ Numbered' /\ Open' /\ Kept' /\ Backed'
         /\ PaidFor' /\ NoLostProof'
<1>1. \A q \in Quotes : HasInflight(q) <=> state[q] = "pending"
  BY DEF IInv, InflightExact
<1>2. InflightExact' /\ Kept'
  BY <1>1 DEF IInv, InflightExact, HasInflight, Kept, NoInflight
<1>3. Numbered' /\ Backed' /\ PaidFor'
  BY DEF IInv, Numbered, Backed, PaidFor, Settled
<1>4. Open'
  <2>1. ASSUME NEW a \in Attempts, tries[a].fate = "open"
        PROVE  inflight'[tries[a].quote].started = a
    <3>1. tries[a].quote \in Quotes /\ inflight[tries[a].quote].started = a
      BY <2>1 DEF IInv, Open, TypeOK, Unmade, Try
    <3> QED
      BY <1>1, <3>1 DEF HasInflight
  <2>2. ASSUME NEW q \in Quotes, HasInflight(q)'
        PROVE  inflight'[q] = inflight[q] /\ hash'[q] = hash[q] /\ HasInflight(q)
    BY <1>1, <2>2 DEF HasInflight, NoInflight
  <2> QED
    BY <2>1, <2>2 DEF IInv, Open, AttemptOf
<1>5. NoLostProof'
  BY DEF IInv, NoLostProof, Settled
<1> QED
  BY <1>2, <1>3, <1>4, <1>5

(* A new self quote has no attempt, and preserves the invariant. *)
LEMMA PostMeltQuoteSelfInv ==
  ASSUME IInv, NEW q \in Quotes, PostMeltQuoteSelf(q)
  PROVE  IInv'
<1>1. /\ state' = [state EXCEPT ![q] = "unpaid"] /\ state \in [Quotes -> QuoteStates]
      /\ state[q] = "none" /\ \A w \in Wires : pending[w] # NoRequest => pending[w].quote # q
  BY DEF PostMeltQuoteSelf, Fresh, IInv, TypeOK
<1>2. TypeOK'
  BY <1>1 DEF IInv, TypeOK, PostMeltQuoteSelf, QuoteStates
<1>3. Asked'
  BY <1>1 DEF IInv, Asked, PostMeltQuoteSelf, Settled
<1> QED
  BY <1>1, <1>2, <1>3, QuoteFrame DEF IInv, PostMeltQuoteSelf

(* Asking a backend to decode the invoice of a fresh quote preserves the
   invariant. *)
LEMMA PostMeltQuoteInv ==
  ASSUME IInv, NEW q \in Quotes, NEW h \in Invoices, NEW w \in Wires, PostMeltQuote(q, h, w)
  PROVE  IInv'
<1>1. pending' \in [Wires -> Request \cup {NoRequest}]
  BY SendType DEF PostMeltQuote, IInv, Kinds
<1>2. TypeOK'
  BY <1>1 DEF IInv, TypeOK, PostMeltQuote, mint
<1>3. Asked'
  BY DEF IInv, Asked, PostMeltQuote, Send, Fresh, mint, Settled, TypeOK, Request
<1> QED
  BY <1>2, <1>3, RequestFrame DEF IInv, PostMeltQuote

(* ln-melt-quoted makes a quote that nothing was asked about yet. *)
LEMMA LnMeltQuotedInv ==
  ASSUME IInv, NEW w \in Wires, LnMeltQuoted(w)
  PROVE  IInv'
<1> DEFINE r == pending[w]
<1>1. /\ r \in Request /\ r.kind = "decode" /\ Fewer
      /\ state[r.quote] = "none"
      /\ \A v \in Wires \ {w} : pending[v] # NoRequest => pending[v].quote # r.quote
      /\ pending'[w] = NoRequest
  BY TakeFewer DEF LnMeltQuoted, Answered, IInv, Asked, TypeOK, Take
<1>2. \/ /\ state' = [state EXCEPT ![r.quote] = "unpaid"]
         /\ hash' = [hash EXCEPT ![r.quote] = r.hash]
      \/ UNCHANGED <<state, hash>>
  BY DEF LnMeltQuoted
<1>3. TypeOK'
  BY <1>1, <1>2 DEF IInv, TypeOK, LnMeltQuoted, Request, QuoteStates, Fewer
<1>4. Asked'
  <2> USE DEF Fewer, Request, TypeOK
  <2>1. CASE UNCHANGED <<state, hash>>
    BY <2>1, <1>1, FewerAsked DEF IInv, LnMeltQuoted
  <2>2. CASE /\ state' = [state EXCEPT ![r.quote] = "unpaid"]
             /\ hash' = [hash EXCEPT ![r.quote] = r.hash]
    <3>1. \A q \in Quotes \ {r.quote} : state'[q] = state[q] /\ hash'[q] = hash[q]
      BY <2>2, <1>1 DEF IInv
    <3>2. state'[r.quote] = "unpaid"
      BY <2>2, <1>1 DEF IInv
    <3>3. \A v \in Wires : pending'[v] # NoRequest =>
            v # w /\ pending'[v] = pending[v] /\ pending[v].quote \in Quotes \ {r.quote}
      BY <1>1 DEF IInv
    <3> QED
      BY <3>1, <3>2, <3>3, SMTT(30) DEF IInv, Asked, LnMeltQuoted, Settled
  <2> QED
    BY <1>2, <2>1, <2>2
<1> QED
  BY <1>1, <1>2, <1>3, <1>4, QuoteFrame DEF IInv, LnMeltQuoted, TypeOK, Request

(* A bolt11 melt: its inputs were unspent, its attempt is new, and its quote
   had no attempt open. *)
LEMMA PostMeltInv ==
  ASSUME IInv, NEW q \in Quotes, NEW ins \in SUBSET Secrets, NEW blanks \in SUBSET Outputs,
         NEW w \in Wires, PostMelt(q, ins, blanks, w)
  PROVE  IInv'
<1> DEFINE new == now + 1
<1>1. /\ new \in Attempts /\ now' = new /\ now \in Nat
      /\ tries[new].fate = "unmade" /\ trip[new] = "unmade"
  BY MeltAssumption DEF PostMelt, IInv, TypeOK, Numbered
<1>2. /\ state[q] \in {"unpaid", "failed"} /\ ins \cap spent = {}
      /\ hash[q] \in Invoices /\ ln \in Nodes
  BY DEF PostMelt, IsBolt11, Meltable, Spendable, IInv, TypeOK
<1>3. /\ spent' = spent \cup ins
      /\ state' = [state EXCEPT ![q] = "pending"]
      /\ inflight' = [inflight EXCEPT ![q] = [secrets |-> ins, blanks |-> blanks, started |-> new]]
      /\ trip' = [trip EXCEPT ![new] = "sent"]
      /\ tries' = [tries EXCEPT ![new] =
           [quote |-> q, hash |-> hash[q], via |-> ln, secrets |-> ins, fate |-> "open"]]
      /\ Send(w, "pay", q, hash[q], new)
      /\ UNCHANGED <<sigs, hash, age, change, ln, pay, burned>>
  BY <1>1 DEF PostMelt
<1>4. TypeOK'
  <2>1. pending' \in [Wires -> Request \cup {NoRequest}]
    <3>1. "pay" \in Kinds /\ ln # "none" /\ new \in {NoAttempt} \cup Attempts
      BY <1>1, <1>2, MeltAssumption DEF Kinds
    <3>2. TypeOK
      BY DEF IInv
    <3> QED
      BY <1>2, <1>3, <3>1, <3>2, SendType
  <2>2. /\ spent' \subseteq Secrets /\ state' \in [Quotes -> QuoteStates]
        /\ inflight' \in [Quotes -> Inflight]
        /\ trip' \in [Attempts -> {"unmade", "sent", "started", "refused", "lost"}]
    BY <1>1, <1>3 DEF IInv, TypeOK, QuoteStates, Inflight
  <2>3. [quote |-> q, hash |-> hash[q], via |-> ln, secrets |-> ins, fate |-> "open"] \in Try
    BY <1>2 DEF Try, Fates
  <2>4. tries' \in [Attempts -> Try \cup {Unmade}]
    BY <1>1, <1>3, <2>3 DEF IInv, TypeOK
  <2> QED
    BY <1>1, <1>3, <2>1, <2>2, <2>4 DEF IInv, TypeOK
<1>5. /\ inflight'[q] = [secrets |-> ins, blanks |-> blanks, started |-> new]
      /\ state'[q] = "pending" /\ trip'[new] = "sent"
      /\ tries'[new] = [quote |-> q, hash |-> hash[q], via |-> ln, secrets |-> ins, fate |-> "open"]
      /\ \A p \in Quotes \ {q} : inflight'[p] = inflight[p] /\ state'[p] = state[p]
      /\ \A a \in Attempts \ {new} : tries'[a] = tries[a] /\ trip'[a] = trip[a]
  BY <1>1, <1>3 DEF IInv, TypeOK
<1>6. ~HasInflight(q) /\ \A p \in Quotes : inflight[p].secrets \cap ins = {}
  BY <1>2 DEF IInv, InflightExact
<1>7. InflightExact'
  <2>1. new # NoAttempt
    BY <1>1
  <2>2. \A p \in Quotes \ {q} : /\ HasInflight(p) <=> state[p] = "pending"
                                /\ inflight[p].secrets \subseteq spent \ burned
                                /\ inflight[p].secrets \cap ins = {}
    BY <1>6 DEF IInv, InflightExact
  <2>3. ins \subseteq spent' \ burned'
    BY <1>2, <1>3 DEF IInv, Kept
  <2> QED
    BY <2>1, <2>2, <2>3, <1>3, <1>5 DEF IInv, InflightExact, HasInflight
<1>8. Numbered'
  <2>1. \A a \in Attempts \ {new} : (a > now') <=> (a > now)
    BY <1>1
  <2> QED
    BY <1>1, <1>5, <2>1 DEF IInv, Numbered
<1>9. Open'
  <2>1. ASSUME NEW a \in Attempts, tries'[a].fate = "open"
        PROVE  inflight'[tries'[a].quote].started = a
    <3>1. CASE a = new
      BY <3>1, <1>5
    <3>2. CASE a # new
      <4>1. tries[a].fate = "open" /\ tries'[a] = tries[a] /\ tries[a].quote \in Quotes
        BY <1>5, <2>1, <3>2 DEF IInv, TypeOK, Unmade, Try
      <4>2. inflight[tries[a].quote].started = a /\ tries[a].quote # q
        BY <1>6, <4>1 DEF IInv, Open, HasInflight
      <4> QED
        BY <1>5, <4>1, <4>2
    <3> QED
      BY <3>1, <3>2
  <2>2. ASSUME NEW p \in Quotes, HasInflight(p)'
        PROVE  LET t == tries'[inflight'[p].started] IN
               /\ t.fate = "open" /\ t.quote = p
               /\ t.hash = hash'[p] /\ t.secrets = inflight'[p].secrets
    <3>1. CASE p = q
      BY <3>1, <1>3, <1>5
    <3>2. CASE p # q
      <4>1. inflight'[p] = inflight[p] /\ HasInflight(p) /\ AttemptOf(p) \in Attempts
        BY <1>5, <2>2, <3>2 DEF HasInflight, AttemptOf, IInv, TypeOK, Inflight
      <4>2. AttemptOf(p) # new
        BY <1>1, <4>1 DEF IInv, Open
      <4> QED
        BY <1>3, <1>5, <4>1, <4>2 DEF IInv, Open, AttemptOf
    <3> QED
      BY <3>1, <3>2
  <2> QED
    BY <2>1, <2>2 DEF Open, AttemptOf
<1>10. Kept'
  <2>1. ASSUME NEW a \in Attempts, a # new, tries[a].fate = "settled", NEW p \in Quotes
        PROVE  tries[a].secrets \cap inflight'[p].secrets = {}
    <3>1. CASE p = q
      BY <2>1, <3>1, <1>2, <1>5 DEF IInv, Kept
    <3>2. CASE p # q
      BY <2>1, <3>2, <1>5 DEF IInv, Kept
    <3> QED
      BY <3>1, <3>2
  <2> QED
    BY <2>1, <1>3, <1>5 DEF IInv, Kept
<1>11. Backed'
  <2>1. \A n \in Nodes, h \in Invoices : pay[n][h].by \in {NoAttempt} \cup Attempts
    BY DEF IInv, TypeOK, Payment
  <2> QED
    BY <2>1, <1>1, <1>3, <1>5 DEF IInv, Backed
<1>12. Asked'
  <2>1. /\ pending[w] = NoRequest
        /\ pending' = [pending EXCEPT ![w] =
             [kind |-> "pay", quote |-> q, hash |-> hash[q], via |-> ln, att |-> new, reply |-> "none"]]
        /\ pending \in [Wires -> Request \cup {NoRequest}]
    BY <1>3 DEF Send, IInv, TypeOK
  <2>2. ASSUME NEW v \in Wires, v # w, pending[v] # NoRequest, pending[v].kind # "decode"
        PROVE  /\ state'[pending[v].quote] # "none"
               /\ state'[pending[v].quote] # "dropped" => hash[pending[v].quote] = pending[v].hash
               /\ pending[v].att # NoAttempt /\ trip'[pending[v].att] # "unmade"
               /\ tries'[pending[v].att].quote = pending[v].quote
               /\ tries'[pending[v].att].hash = pending[v].hash
    <3>1. /\ pending[v].att \in Attempts /\ pending[v].att # new /\ pending[v].quote \in Quotes
          /\ trip[pending[v].att] # "unmade"
      BY <1>1, <2>1, <2>2 DEF IInv, Asked, Request
    <3> QED
      BY <1>2, <1>5, <2>2, <3>1 DEF IInv, Asked
  <2>3. ASSUME NEW v \in Wires, v # w, pending[v] # NoRequest, pending[v].kind = "decode"
        PROVE  /\ state'[pending[v].quote] = "none" /\ pending[v].quote # q
               /\ pending[v].reply \in {"none", "decoded", "unclear"}
               /\ \A u \in Wires \ {v} : pending'[u] # NoRequest => pending'[u].quote # pending[v].quote
    BY <1>2, <1>5, <2>1, <2>3 DEF IInv, Asked, Request
  <2>4. \A v \in Wires \ {w} : pending'[v] = pending[v]
    BY <2>1
  <2>5. \A p \in Quotes : state'[p] = "none" => hash'[p] = NoHash
    BY <1>3, <1>5 DEF IInv, Asked
  <2>6. \A v \in Wires : pending[v] # NoRequest /\ pending[v].kind # "decode" =>
          (pending[v].reply = "settled" =>
             \E n \in Nodes : pay'[n][pending[v].hash].status = "settled")
    BY <1>3 DEF IInv, Asked, Settled
  <2>7. pending'[w] = [kind |-> "pay", quote |-> q, hash |-> hash[q], via |-> ln,
                       att |-> new, reply |-> "none"]
    BY <2>1
  <2> QED
    BY <1>1, <1>3, <1>5, <2>2, <2>3, <2>4, <2>5, <2>6, <2>7 DEF Asked, Settled
<1>13. PaidFor'
  BY <1>3, <1>5 DEF IInv, PaidFor, Settled
<1>14. NoLostProof'
  <2> SUFFICES ASSUME NEW s \in spent', s \notin burned'
               PROVE \/ \E p \in Quotes : state'[p] = "pending" /\ s \in inflight'[p].secrets
                     \/ \E a \in Attempts : /\ s \in tries'[a].secrets
                                            /\ tries'[a].fate = "settled" /\ Settled(tries[a].hash)'
    BY DEF NoLostProof
  <2>1. CASE s \in ins
    BY <2>1, <1>5
  <2>2. CASE \E p \in Quotes : state[p] = "pending" /\ s \in inflight[p].secrets
    BY <2>2, <1>2, <1>5
  <2>3. CASE \E a \in Attempts : /\ s \in tries[a].secrets
                                 /\ tries[a].fate = "settled" /\ Settled(tries[a].hash)
    <3>1. PICK a \in Attempts : /\ s \in tries[a].secrets
                                /\ tries[a].fate = "settled" /\ Settled(tries[a].hash)
      BY <2>3
    <3>2. tries'[a] = tries[a]
      BY <3>1, <1>1, <1>5
    <3> QED
      BY <3>1, <3>2, <1>3 DEF Settled
  <2> QED
    BY <2>1, <2>2, <2>3, <1>3 DEF IInv, NoLostProof
<1> QED
  BY <1>4, <1>7, <1>8, <1>9, <1>10, <1>11, <1>12, <1>13, <1>14 DEF IInv

(* An answer that shows a payment settled shows it of the quote's invoice. *)
LEMMA AnsweredSettled ==
  ASSUME IInv, NEW w \in Wires, pending[w] # NoRequest, pending[w].kind # "decode",
         pending[w].reply = "settled", state[pending[w].quote] = "pending"
  PROVE  pending[w].quote \in Quotes /\ Settled(hash[pending[w].quote])
BY DEF IInv, Asked, TypeOK, Request

(* ln-melt-paid: a refusal rolls back, a proof of payment settles. *)
LEMMA LnMeltPaidInv ==
  ASSUME IInv, NEW w \in Wires, LnMeltPaid(w)
  PROVE  IInv'
<1> DEFINE r == pending[w]
           q == r.quote
<1>1. /\ r # NoRequest /\ r.kind = "pay" /\ q \in Quotes /\ Take(w) /\ Fewer
      /\ UNCHANGED <<ln, trip, pay, now, burned>>
  BY TakeFewer DEF LnMeltPaid, Answered, IInv, TypeOK, Request
<1>2. CASE state[q] = "pending" /\ RollbackMelt(q)
  BY <1>1, <1>2, RollbackInv
<1>3. CASE state[q] = "pending" /\ PaySettled(r) /\ SettleMelt(q)
  BY <1>1, <1>3, AnsweredSettled, SettleInv DEF PaySettled
<1>4. CASE NoMintChange
  BY <1>1, <1>4, TakeInv DEF NoMintChange
<1> QED
  BY <1>2, <1>3, <1>4 DEF LnMeltPaid

(* ln-melt-checked settles or rolls back a pending quote. *)
LEMMA LnMeltCheckedInv ==
  ASSUME IInv, NEW w \in Wires, LnMeltChecked(w)
  PROVE  IInv'
<1> DEFINE r == pending[w]
           q == r.quote
<1>1. /\ r # NoRequest /\ r.kind = "check" /\ q \in Quotes /\ Take(w) /\ Fewer
      /\ UNCHANGED <<ln, trip, pay, now, burned>>
  BY TakeFewer DEF LnMeltChecked, Answered, IInv, TypeOK, Request
<1>2. CASE state[q] = "pending" /\ RollbackMelt(q)
  BY <1>1, <1>2, RollbackInv
<1>3. CASE state[q] = "pending" /\ PayStatus(r) = "settled" /\ SettleMelt(q)
  BY <1>1, <1>3, AnsweredSettled, SettleInv DEF PayStatus
<1>4. CASE NoMintChange
  BY <1>1, <1>4, TakeInv DEF NoMintChange
<1> QED
  BY <1>2, <1>3, <1>4 DEF LnMeltChecked

(* ln-melt-abort settles or rolls back a pending quote. *)
LEMMA LnMeltAbortInv ==
  ASSUME IInv, NEW w \in Wires, LnMeltAbort(w)
  PROVE  IInv'
<1> DEFINE r == pending[w]
           q == r.quote
<1>1. /\ r # NoRequest /\ r.kind \in {"abort", "force"} /\ q \in Quotes /\ Take(w) /\ Fewer
      /\ UNCHANGED <<ln, trip, pay, now, burned>>
  BY TakeFewer DEF LnMeltAbort, Answered, IInv, TypeOK, Request
<1>2. CASE state[q] = "pending" /\ RollbackMelt(q)
  BY <1>1, <1>2, RollbackInv
<1>3. CASE state[q] = "pending" /\ PayStatus(r) = "settled" /\ SettleMelt(q)
  BY <1>1, <1>3, AnsweredSettled, SettleInv DEF PayStatus
<1>4. CASE NoMintChange
  BY <1>1, <1>4, TakeInv DEF NoMintChange
<1> QED
  BY <1>2, <1>3, <1>4 DEF LnMeltAbort

(* What the operator does preserves the invariant: only a quote with no
   attempt open is deleted, and a request never changes a quote. *)
LEMMA OperatorInv ==
  ASSUME IInv, Operator
  PROVE  IInv'
<1>1. ASSUME NEW q \in Quotes, NEW kind \in {"abort", "force"}, NEW w \in Wires,
             AdminMeltAbort(q, kind, w)
      PROVE  IInv'
  BY <1>1, SendInv DEF AdminMeltAbort, Kinds
<1>2. ASSUME NEW q \in Quotes, AdminMeltAbortUnchecked(q)
      PROVE  IInv'
  <2>1. Fewer /\ UNCHANGED <<ln, trip, pay, now, burned>> /\ state[q] = "pending" /\ RollbackMelt(q)
    BY <1>2 DEF AdminMeltAbortUnchecked, Fewer, IInv, TypeOK
  <2> QED
    BY <2>1, RollbackInv
<1>3. ASSUME NEW q \in Quotes, AdminQuoteDelete(q)
      PROVE  IInv'
  <2>1. /\ state[q] # "pending" /\ state[q] # "none"
        /\ UNCHANGED <<spent, sigs, inflight, change, ln, pending, trip, pay, now, tries, burned>>
        /\ Drop({q})
    BY <1>3 DEF AdminQuoteDelete, Found, Absent
  <2>2. TypeOK'
    BY <2>1 DEF IInv, TypeOK, Drop, QuoteStates
  <2>3. \A p \in Quotes : /\ p # q => state'[p] = state[p] /\ hash'[p] = hash[p]
                          /\ p = q => state'[p] = "dropped" /\ hash'[p] = NoHash
    BY <2>1 DEF Drop
  <2>4. Asked'
    BY <2>1, <2>3 DEF IInv, Asked, Settled, TypeOK, Request
  <2> QED
    BY <2>1, <2>2, <2>3, <2>4, QuoteFrame DEF IInv
<1>4. ASSUME NEW c \in Nodes \cup {"none"}, LnConfigure(c)
      PROVE  IInv'
  <2>1. TypeOK'
    BY <1>4 DEF LnConfigure, IInv, TypeOK, mint
  <2>2. Asked'
    BY <1>4 DEF LnConfigure, IInv, Asked, mint, Settled
  <2> QED
    BY <1>4, <2>1, <2>2, RequestFrame DEF LnConfigure, IInv
<1> QED
  BY <1>1, <1>2, <1>3, <1>4 DEF Operator

(* run-cleanup drops only quotes that are not pending. *)
LEMMA CleanupInv ==
  ASSUME IInv, RunCleanup
  PROVE  IInv'
<1> DEFINE dropped == {q \in Quotes : Found(q) /\ ~KeepMeltQuote(q)}
<1>1. \A q \in dropped : state[q] # "pending" /\ state[q] # "none"
  BY DEF Found, Absent, KeepMeltQuote
<1>2. /\ Drop(dropped)
      /\ change' = [q \in Quotes |-> IF q \in dropped THEN {} ELSE change[q]]
      /\ inflight' = [q \in Quotes |-> IF q \in dropped THEN NoInflight ELSE inflight[q]]
      /\ UNCHANGED <<spent, sigs, ln, pending, trip, pay, now, tries, burned>>
  BY DEF RunCleanup
<1> HIDE DEF dropped
<1>3. TypeOK'
  <2>1. /\ inflight' \in [Quotes -> Inflight] /\ change' \in [Quotes -> SUBSET Outputs]
    BY <1>2 DEF IInv, TypeOK, NoInflight, Inflight
  <2> QED
    BY <1>2, <2>1 DEF IInv, TypeOK, Drop, QuoteStates
<1>4. \A p \in Quotes :
        \/ p \notin dropped /\ state'[p] = state[p] /\ hash'[p] = hash[p] /\ inflight'[p] = inflight[p]
        \/ p \in dropped /\ state'[p] = "dropped" /\ hash'[p] = NoHash /\ inflight'[p] = NoInflight
  BY <1>2 DEF Drop
<1>5. Asked'
  BY <1>1, <1>2, <1>4 DEF IInv, Asked, Settled, TypeOK, Request
<1> QED
  BY <1>1, <1>2, <1>3, <1>4, <1>5, QuoteFrame DEF IInv

(* The clock touches the quotes' age only. *)
LEMMA TickInv ==
  ASSUME IInv, NEW q \in Quotes, Tick(q)
  PROVE  IInv'
<1>1. TypeOK'
  BY DEF Tick, IInv, TypeOK
<1>2. Asked'
  BY DEF Tick, IInv, Asked, Settled
<1> QED
  BY <1>1, <1>2, QuoteFrame DEF IInv, Tick

(* A settled payment stays settled, whatever the nodes do. *)
LEMMA NodePayInv ==
  ASSUME IInv, NEW a \in Attempts, NodePay(a)
  PROVE  IInv' /\ (\A h \in Invoices : Settled(h) => Settled(h)')
<1> DEFINE n == tries[a].via
           h == tries[a].hash
<1>1. /\ trip[a] = "sent" /\ tries[a] \in Try /\ n \in Nodes /\ h \in Invoices
      /\ UNCHANGED <<mint, ln, pending, now, tries, burned>>
  BY DEF NodePay, IInv, Numbered, TypeOK, Unmade, Try
<1>2. \/ /\ pay[n][h].status \in {"none", "failed"}
         /\ pay' = [pay EXCEPT ![n][h] = [status |-> "live", by |-> a]]
         /\ trip' = [trip EXCEPT ![a] = "started"]
      \/ /\ \E t \in {"refused", "lost"} : trip' = [trip EXCEPT ![a] = t]
         /\ UNCHANGED pay
  BY DEF NodePay
<1>3. \A b \in Attempts : /\ b # a => trip'[b] = trip[b]
                          /\ trip'[b] = "unmade" <=> trip[b] = "unmade"
  BY <1>1, <1>2 DEF IInv, TypeOK
<1>4. \/ UNCHANGED pay
      \/ /\ pay'[n][h] = [status |-> "live", by |-> a] /\ trip'[a] = "started"
         /\ pay' \in [Nodes -> [Invoices -> Payment]]
         /\ \A m \in Nodes, g \in Invoices : m # n \/ g # h => pay'[m][g] = pay[m][g]
         /\ pay[n][h].status # "settled"
  <2>1. [status |-> "live", by |-> a] \in Payment
    BY DEF Payment
  <2>2. CASE /\ pay[n][h].status \in {"none", "failed"}
             /\ pay' = [pay EXCEPT ![n][h] = [status |-> "live", by |-> a]]
             /\ trip' = [trip EXCEPT ![a] = "started"]
    <3>1. pay \in [Nodes -> [Invoices -> Payment]] /\ trip'[a] = "started"
      BY <2>2 DEF IInv, TypeOK
    <3>2. /\ pay'[n] = [pay[n] EXCEPT ![h] = [status |-> "live", by |-> a]]
          /\ \A m \in Nodes : m # n => pay'[m] = pay[m]
      BY <1>1, <2>2, <3>1
    <3>3. /\ pay'[n][h] = [status |-> "live", by |-> a]
          /\ \A g \in Invoices : g # h => pay'[n][g] = pay[n][g]
          /\ pay'[n] \in [Invoices -> Payment]
      BY <1>1, <2>1, <3>1, <3>2
    <3>4. pay' \in [Nodes -> [Invoices -> Payment]]
      BY <2>2, <3>1, <3>2, <3>3
    <3> QED
      BY <1>1, <2>2, <3>1, <3>2, <3>3, <3>4
  <2> QED
    BY <1>2, <2>2
<1>5. \A m \in Nodes, g \in Invoices : pay[m][g].status = "settled" => pay'[m][g].status = "settled"
  BY <1>4
<1>6. \A g \in Invoices : Settled(g) => Settled(g)'
  BY <1>5 DEF Settled
<1>7. TypeOK'
  <2>1. trip' \in [Attempts -> {"unmade", "sent", "started", "refused", "lost"}]
    BY <1>2 DEF IInv, TypeOK
  <2> QED
    BY <1>1, <1>4, <2>1 DEF IInv, TypeOK, mint
<1>8. InflightExact' /\ Kept' /\ Open'
  BY <1>1 DEF IInv, mint, InflightExact, HasInflight, Kept, Open, AttemptOf
<1>9. Numbered'
  BY <1>1, <1>3 DEF IInv, Numbered
<1>10. Backed'
  <2>1. ASSUME NEW m \in Nodes, NEW g \in Invoices, pay'[m][g] = pay[m][g]
        PROVE  LET p == pay'[m][g] IN
               /\ p.status # "none" <=> p.by # NoAttempt
               /\ p.by # NoAttempt => /\ trip'[p.by] = "started"
                                      /\ tries'[p.by].via = m /\ tries'[p.by].hash = g
    <3>1. pay[m][g].by \in {NoAttempt} \cup Attempts
      BY DEF IInv, TypeOK, Payment
    <3> QED
      BY <1>1, <1>3, <2>1, <3>1 DEF IInv, Backed
  <2>2. CASE UNCHANGED pay
    BY <2>1, <2>2 DEF Backed
  <2>3. CASE /\ pay'[n][h] = [status |-> "live", by |-> a] /\ trip'[a] = "started"
             /\ \A m \in Nodes, g \in Invoices : m # n \/ g # h => pay'[m][g] = pay[m][g]
    <3>1. a # NoAttempt
      BY MeltAssumption
    <3> QED
      BY <2>1, <2>3, <3>1, <1>1 DEF Backed
  <2> QED
    BY <1>4, <2>2, <2>3
<1>11. Asked'
  <2>1. \A w \in Wires : pending[w] # NoRequest =>
          pending[w].att \in {NoAttempt} \cup Attempts /\ pending[w].hash \in Invoices
    BY DEF IInv, TypeOK, Request
  <2> QED
    BY <2>1, <1>1, <1>3, <1>6 DEF IInv, Asked, mint
<1>12. \A b \in Attempts : tries[b].fate = "settled" => tries[b].hash \in Invoices
  BY DEF IInv, TypeOK, Unmade, Try
<1>13. PaidFor'
  BY <1>1, <1>6, <1>12 DEF IInv, PaidFor
<1>14. NoLostProof'
  BY <1>1, <1>6, <1>12 DEF IInv, NoLostProof, mint
<1> QED
  BY <1>6, <1>7, <1>8, <1>9, <1>10, <1>11, <1>13, <1>14 DEF IInv

(* A live payment settles or fails, and a settled one is left alone. *)
LEMMA NodeResolveInv ==
  ASSUME IInv, NEW n \in Nodes, NEW h \in Invoices, NodeResolve(n, h)
  PROVE  IInv' /\ (\A g \in Invoices : Settled(g) => Settled(g)')
<1>1. PICK s \in {"settled", "failed"} : pay' = [pay EXCEPT ![n][h].status = s]
  BY DEF NodeResolve
<1>2. /\ pay[n][h].status = "live"
      /\ UNCHANGED <<mint, ln, pending, trip, now, tries, burned>>
  BY DEF NodeResolve
<1>3. /\ pay' \in [Nodes -> [Invoices -> Payment]]
      /\ pay'[n][h].status = s /\ pay'[n][h].by = pay[n][h].by
      /\ \A m \in Nodes, g \in Invoices : m # n \/ g # h => pay'[m][g] = pay[m][g]
  <2> DEFINE p == [pay[n][h] EXCEPT !.status = s]
  <2>1. pay \in [Nodes -> [Invoices -> Payment]] /\ pay[n][h] \in Payment
    BY DEF IInv, TypeOK
  <2>2. p \in Payment /\ p.status = s /\ p.by = pay[n][h].by
    BY <2>1 DEF Payment
  <2>3. pay' = [pay EXCEPT ![n] = [pay[n] EXCEPT ![h] = p]]
    BY <1>1
  <2> HIDE DEF p
  <2>4. pay'[n] = [pay[n] EXCEPT ![h] = p] /\ \A m \in Nodes : m # n => pay'[m] = pay[m]
    BY <2>1, <2>3
  <2>5. /\ pay'[n][h] = p /\ \A g \in Invoices : g # h => pay'[n][g] = pay[n][g]
        /\ pay'[n] \in [Invoices -> Payment]
    BY <2>1, <2>2, <2>4
  <2>6. pay' \in [Nodes -> [Invoices -> Payment]]
    BY <2>1, <2>3, <2>4, <2>5
  <2> QED
    BY <2>2, <2>4, <2>5, <2>6
<1>4. \A g \in Invoices : Settled(g) => Settled(g)'
  BY <1>2, <1>3 DEF Settled
<1>5. TypeOK'
  BY <1>2, <1>3 DEF IInv, TypeOK, mint
<1>6. InflightExact' /\ Kept' /\ Open' /\ Numbered'
  BY <1>2 DEF IInv, mint, InflightExact, HasInflight, Kept, Open, AttemptOf, Numbered
<1>7. Backed'
  BY <1>2, <1>3 DEF IInv, Backed
<1>8. Asked'
  <2>1. \A w \in Wires : pending[w] # NoRequest => pending[w].hash \in Invoices
    BY DEF IInv, TypeOK, Request
  <2> QED
    BY <2>1, <1>2, <1>4 DEF IInv, Asked, mint
<1>9. \A b \in Attempts : tries[b].fate = "settled" => tries[b].hash \in Invoices
  BY DEF IInv, TypeOK, Unmade, Try
<1>10. PaidFor'
  BY <1>2, <1>4, <1>9 DEF IInv, PaidFor
<1>11. NoLostProof'
  BY <1>2, <1>4, <1>9 DEF IInv, NoLostProof, mint
<1> QED
  BY <1>4, <1>5, <1>6, <1>7, <1>8, <1>10, <1>11 DEF IInv

(* What a node says of a payment as settled is so. *)
LEMMA NodeReplyInv ==
  ASSUME IInv, NEW w \in Wires, NEW reply \in Replies, NodeReply(w, reply)
  PROVE  IInv'
<1> DEFINE r == pending[w]
<1>1. /\ r \in Request /\ r # NoRequest /\ reply \in Says(r)
      /\ pending' = [pending EXCEPT ![w].reply = reply]
      /\ UNCHANGED <<mint, ln, trip, pay, now, tries, burned>>
  BY DEF NodeReply, IInv, TypeOK
<1>2. /\ \A v \in Wires \ {w} : pending'[v] = pending[v]
      /\ pending'[w] = [r EXCEPT !.reply = reply]
      /\ pending'[w] \in Request
  BY <1>1 DEF IInv, TypeOK, Request
<1>3. /\ r.kind = "decode" => reply \in {"decoded", "unclear"}
      /\ r.kind # "decode" /\ reply = "settled" => Settled(r.hash)
  <2>1. CASE r.kind = "decode"
    BY <2>1, <1>1 DEF Says
  <2>2. CASE r.kind = "pay"
    BY <2>2, <1>1 DEF Says, Settled, Request
  <2>3. CASE r.kind \notin {"decode", "pay"}
    BY <2>3, <1>1 DEF Says, Settled, Request
  <2> QED
    BY <2>1, <2>2, <2>3
<1>4. TypeOK'
  <2>1. pending' \in [Wires -> Request \cup {NoRequest}]
    BY <1>1, <1>2 DEF IInv, TypeOK
  <2> QED
    BY <1>1, <2>1 DEF IInv, TypeOK, mint
<1>5. Asked'
  <2>1. /\ pending'[w].kind = r.kind /\ pending'[w].quote = r.quote
        /\ pending'[w].hash = r.hash /\ pending'[w].att = r.att /\ pending'[w].reply = reply
    BY <1>1, <1>2 DEF Request
  <2>2. \A v \in Wires : pending'[v] # NoRequest =>
          /\ pending[v] # NoRequest
          /\ pending'[v].kind = pending[v].kind /\ pending'[v].quote = pending[v].quote
          /\ pending'[v].hash = pending[v].hash /\ pending'[v].att = pending[v].att
          /\ v # w => pending'[v].reply = pending[v].reply
    BY <1>1, <1>2, <2>1
  <2> QED
    BY <1>1, <1>3, <2>1, <2>2 DEF IInv, Asked, mint, Settled
<1> QED
  BY <1>1, <1>4, <1>5, RequestFrame DEF IInv

(* What wallets ask for preserves the invariant. *)
LEMMA WalletInv ==
  ASSUME IInv, Wallet
  PROVE  IInv'
<1>1. ASSUME NEW q \in Quotes, NEW w \in Wires, GetMeltQuote(q, w)
      PROVE  IInv'
  BY <1>1, SendInv DEF GetMeltQuote, Kinds
<1> QED
  BY <1>1, PostSwapInv, PostMeltQuoteSelfInv, PostMeltQuoteInv, PostMeltSelfInv, PostMeltInv
     DEF Wallet

(* A stutter preserves the invariant. *)
LEMMA StutterInv ==
  ASSUME IInv, UNCHANGED vars
  PROVE  IInv'
<1>1. TypeOK' /\ Asked'
  BY DEF IInv, TypeOK, Asked, Settled, vars, mint
<1> QED
  BY <1>1, RequestFrame DEF IInv, vars

(* IInv is inductive. *)
LEMMA StepInv ==
  ASSUME IInv, [Next]_vars
  PROVE  IInv'
<1>1. ASSUME NEW w \in Wires, Cancel(w)
      PROVE  IInv'
  BY <1>1, TakeInv DEF Cancel
<1>2. ASSUME NEW w \in Wires, Answer(w)
      PROVE  IInv'
  BY <1>2, LnMeltQuotedInv, LnMeltPaidInv, LnMeltCheckedInv, LnMeltAbortInv DEF Answer
<1>3. ASSUME Node
      PROVE  IInv'
  BY <1>3, NodePayInv, NodeResolveInv, NodeReplyInv DEF Node
<1> QED
  BY <1>1, <1>2, <1>3, WalletInv, OperatorInv, CleanupInv, TickInv, StutterInv DEF Next

-----------------------------------------------------------------------------
(* The theorems for every environment. *)

(* IInv is an invariant. *)
THEOREM Invariance == Spec => []IInv
<1>1. Init => IInv
  BY InitInv
<1>2. IInv /\ [Next]_vars => IInv'
  BY StepInv
<1> QED
  BY <1>1, <1>2, PTL DEF Spec

(* Every variable always has its type. *)
THEOREM TypeCorrect == Spec => []TypeOK
<1>1. IInv => TypeOK
  BY DEF IInv
<1> QED
  BY <1>1, Invariance, PTL

(* No proof is spent for nothing, whatever the nodes, the network and the
   operator do. *)
THEOREM ProofsAccountedFor == Spec => []NoLostProof
<1>1. IInv => NoLostProof
  BY DEF IInv
<1> QED
  BY <1>1, Invariance, PTL

(* The inflight records are exactly the undecided melts, and are disjoint. *)
THEOREM InflightCorrect == Spec => []InflightExact
<1>1. IInv => InflightExact
  BY DEF IInv
<1> QED
  BY <1>1, Invariance, PTL

(* No step takes a paid quote back, replaces its change, or gives back a
   proof other than by failing the pending melt that holds it. *)
LEMMA DecidedOnceStep ==
  ASSUME IInv, [Next]_vars
  PROVE  /\ \A q \in Quotes : state[q] = "paid" =>
              \/ state'[q] = "paid" /\ change'[q] = change[q]
              \/ state'[q] = "dropped"
         /\ \A s \in spent \ spent' : \E q \in Quotes :
              /\ s \in inflight[q].secrets
              /\ state[q] = "pending" /\ state'[q] = "failed"
<1> DEFINE Once == /\ \A q \in Quotes : state[q] = "paid" =>
                        \/ state'[q] = "paid" /\ change'[q] = change[q]
                        \/ state'[q] = "dropped"
                   /\ \A s \in spent \ spent' : \E q \in Quotes :
                        /\ s \in inflight[q].secrets
                        /\ state[q] = "pending" /\ state'[q] = "failed"
<1> SUFFICES Once
  OBVIOUS
<1>1. state \in [Quotes -> QuoteStates] /\ change \in [Quotes -> SUBSET Outputs]
  BY DEF IInv, TypeOK
<1>2. ASSUME UNCHANGED <<state, change, spent>> PROVE Once
  BY <1>2
<1>3. ASSUME NEW q \in Quotes, state[q] = "pending", SettleMelt(q) PROVE Once
  BY <1>1, <1>3 DEF SettleMelt
<1>4. ASSUME NEW q \in Quotes, state[q] = "pending", RollbackMelt(q) PROVE Once
  BY <1>1, <1>4 DEF RollbackMelt
<1>5. CASE Wallet
  <2>1. ASSUME NEW ins \in SUBSET Secrets, NEW outs \in SUBSET Outputs, PostSwap(ins, outs)
        PROVE  Once
    BY <2>1 DEF PostSwap
  <2>2. ASSUME NEW q \in Quotes, PostMeltQuoteSelf(q) PROVE Once
    BY <1>1, <2>2 DEF PostMeltQuoteSelf, Fresh
  <2>3. ASSUME NEW q \in Quotes, NEW h \in Invoices, NEW w \in Wires, PostMeltQuote(q, h, w)
        PROVE  Once
    BY <1>2, <2>3 DEF PostMeltQuote, mint
  <2>4. ASSUME NEW q \in Quotes, NEW w \in Wires, GetMeltQuote(q, w) PROVE Once
    BY <1>2, <2>4 DEF GetMeltQuote, mint
  <2>5. ASSUME NEW q \in Quotes, NEW ins \in SUBSET Secrets, NEW blanks \in SUBSET Outputs,
               PostMeltSelf(q, ins, blanks)
        PROVE  Once
    BY <1>1, <2>5 DEF PostMeltSelf, Meltable
  <2>6. ASSUME NEW q \in Quotes, NEW ins \in SUBSET Secrets, NEW blanks \in SUBSET Outputs,
               NEW w \in Wires, PostMelt(q, ins, blanks, w)
        PROVE  Once
    BY <1>1, <2>6 DEF PostMelt, Meltable
  <2> QED
    BY <1>5, <2>1, <2>2, <2>3, <2>4, <2>5, <2>6 DEF Wallet
<1>6. ASSUME NEW w \in Wires, Answer(w) \/ Cancel(w) PROVE Once
  <2>1. CASE Cancel(w)
    BY <1>2, <2>1 DEF Cancel, mint
  <2>2. CASE LnMeltQuoted(w)
    <3>1. pending[w].kind = "decode" /\ pending[w].quote \in Quotes /\ state[pending[w].quote] = "none"
      BY <2>2 DEF LnMeltQuoted, Answered, IInv, Asked, TypeOK, Request
    <3> QED
      BY <1>1, <2>2, <3>1 DEF LnMeltQuoted
  <2>3. ASSUME NEW q \in Quotes,
               \/ state[q] = "pending" /\ (SettleMelt(q) \/ RollbackMelt(q))
               \/ NoMintChange
        PROVE  Once
    BY <1>2, <1>3, <1>4, <2>3 DEF NoMintChange, mint
  <2>4. pending[w] # NoRequest => pending[w].quote \in Quotes
    BY DEF IInv, TypeOK, Request
  <2>5. CASE LnMeltPaid(w)
    BY <2>3, <2>4, <2>5 DEF LnMeltPaid, Answered
  <2>6. CASE LnMeltChecked(w)
    BY <2>3, <2>4, <2>6 DEF LnMeltChecked, Answered
  <2>7. CASE LnMeltAbort(w)
    BY <2>3, <2>4, <2>7 DEF LnMeltAbort, Answered
  <2> QED
    BY <1>6, <2>1, <2>2, <2>5, <2>6, <2>7 DEF Answer
<1>7. CASE Operator
  BY <1>2, <1>4, <1>7 DEF Operator, AdminMeltAbort, AdminMeltAbortUnchecked, AdminQuoteDelete,
     Drop, LnConfigure, mint
<1>8. CASE RunCleanup
  BY <1>8 DEF RunCleanup, Drop
<1>9. ASSUME NEW q \in Quotes, Tick(q) PROVE Once
  BY <1>2, <1>9 DEF Tick
<1>10. CASE Node
  BY <1>2, <1>10 DEF Node, NodePay, NodeResolve, NodeReply, mint
<1>11. CASE UNCHANGED vars
  BY <1>2, <1>11 DEF vars, mint
<1> QED
  BY <1>5, <1>6, <1>7, <1>8, <1>9, <1>10, <1>11 DEF Next

(* In every environment a quote is decided once, and a proof comes back only
   with the failure of the pending melt that holds it. *)
THEOREM DecisionsFinal == Spec => DecidedOnce
<1> DEFINE Once == /\ \A q \in Quotes : state[q] = "paid" =>
                        \/ state'[q] = "paid" /\ change'[q] = change[q]
                        \/ state'[q] = "dropped"
                   /\ \A s \in spent \ spent' : \E q \in Quotes :
                        /\ s \in inflight[q].secrets
                        /\ state[q] = "pending" /\ state'[q] = "failed"
<1>1. IInv /\ [Next]_vars => Once
  BY DecidedOnceStep
<1>2. Spec => [][Once]_vars
  BY <1>1, Invariance, PTL DEF Spec
<1> QED
  BY <1>2, PTL DEF DecidedOnce

-----------------------------------------------------------------------------
(* The cautious environments. *)

(* An attempt that was made and is dead stays dead. *)
LEMMA DeadStable ==
  ASSUME IInv, [Next]_vars, NEW a \in Attempts, trip[a] # "unmade", Dead(a)
  PROVE  Dead(a)'
<1>1. ASSUME UNCHANGED <<trip, pay>> PROVE Dead(a)'
  BY <1>1 DEF Dead
<1>2. CASE Wallet
  <2>1. ASSUME NEW q \in Quotes, NEW ins \in SUBSET Secrets, NEW blanks \in SUBSET Outputs,
               NEW w \in Wires, PostMelt(q, ins, blanks, w)
        PROVE  Dead(a)'
    <3>1. now + 1 \in Attempts /\ now + 1 # a
      BY <2>1, MeltAssumption DEF PostMelt, IInv, TypeOK, Numbered
    <3>2. UNCHANGED pay /\ trip'[a] = trip[a]
      BY <2>1, <3>1 DEF PostMelt, IInv, TypeOK
    <3> QED
      BY <3>2 DEF Dead
  <2> QED
    BY <1>1, <1>2, <2>1 DEF Wallet, PostSwap, PostMeltQuoteSelf, PostMeltQuote, GetMeltQuote,
       PostMeltSelf
<1>3. ASSUME NEW w \in Wires, Answer(w) \/ Cancel(w) PROVE Dead(a)'
  BY <1>1, <1>3 DEF Answer, Cancel, LnMeltQuoted, LnMeltPaid, LnMeltChecked, LnMeltAbort
<1>4. CASE Operator
  BY <1>1, <1>4 DEF Operator, AdminMeltAbort, AdminMeltAbortUnchecked, AdminQuoteDelete, LnConfigure
<1>5. CASE RunCleanup \/ (\E q \in Quotes : Tick(q)) \/ UNCHANGED vars
  BY <1>1, <1>5 DEF RunCleanup, Tick, vars
<1>6. CASE Node
  <2>1. ASSUME NEW b \in Attempts, NodePay(b) PROVE Dead(a)'
    <3>1. b # a /\ trip'[a] = trip[a]
      BY <2>1 DEF NodePay, Dead, IInv, TypeOK
    <3>2. ASSUME NEW n \in Nodes, NEW h \in Invoices, pay'[n][h].by = a
          PROVE  pay'[n][h] = pay[n][h]
      <4>1. CASE n = tries[b].via /\ h = tries[b].hash
        BY <2>1, <3>1, <3>2, <4>1 DEF NodePay, IInv, TypeOK
      <4>2. CASE ~(n = tries[b].via /\ h = tries[b].hash)
        BY <2>1, <4>2 DEF NodePay, IInv, TypeOK
      <4> QED
        BY <4>1, <4>2
    <3> QED
      BY <3>1, <3>2 DEF Dead
  <2>2. ASSUME NEW m \in Nodes, NEW g \in Invoices, NodeResolve(m, g) PROVE Dead(a)'
    <3>1. PICK s \in {"settled", "failed"} : pay' = [pay EXCEPT ![m][g].status = s]
      BY <2>2 DEF NodeResolve
    <3>2. pay[m][g].status = "live" /\ pay[m][g].by # a /\ UNCHANGED trip
      BY <2>2 DEF NodeResolve, Dead
    <3>3. ASSUME NEW n \in Nodes, NEW h \in Invoices, pay'[n][h].by = a
          PROVE  pay'[n][h] = pay[n][h]
      <4>1. pay[m][g] \in Payment /\ pay \in [Nodes -> [Invoices -> Payment]]
        BY DEF IInv, TypeOK
      <4>2. pay'[m][g].by = pay[m][g].by
        BY <3>1, <4>1 DEF Payment
      <4>3. n # m \/ h # g
        BY <3>2, <3>3, <4>2
      <4> QED
        BY <3>1, <4>1, <4>3
    <3> QED
      BY <3>2, <3>3 DEF Dead
  <2> QED
    BY <1>1, <1>6, <2>1, <2>2 DEF Node, NodeReply
<1> QED
  BY <1>2, <1>3, <1>4, <1>5, <1>6 DEF Next

(* The operator only forces the abort of an attempt that is dead. *)
LEMMA LookedDead ==
  ASSUME IInv, Cautious, NEW q \in Quotes, state[q] = "pending", Looked(q)
  PROVE  Dead(AttemptOf(q))
<1> DEFINE att == AttemptOf(q)
<1>1. att \in Attempts /\ att # NoAttempt /\ tries[att].hash = hash[q]
  BY Pending, MeltAssumption
<1>2. trip[att] # "sent" /\ pay[tries[att].via][hash[q]].status \notin {"live", "settled"}
  BY DEF Cautious, Looked
<1>3. ASSUME NEW n \in Nodes, NEW h \in Invoices, pay[n][h].by = att
      PROVE  pay[n][h].status = "failed"
  <2>1. tries[att].via = n /\ tries[att].hash = h /\ pay[n][h].status # "none"
    BY <1>1, <1>3 DEF IInv, Backed
  <2>2. pay[n][h].status \in {"none", "live", "settled", "failed"}
    BY DEF IInv, TypeOK, Payment
  <2> QED
    BY <1>1, <1>2, <2>1, <2>2
<1> QED
  BY <1>2, <1>3 DEF Dead

(* A cautious node says failed or refused only of a dead attempt. *)
LEMMA SaidDead ==
  ASSUME IInv, Cautious, NEW w \in Wires, pending[w] # NoRequest,
         NEW reply \in {"failed", "refused"}, reply \in Says(pending[w])
  PROVE  Dead(pending[w].att)
<1> DEFINE r == pending[w]
<1>1. /\ r \in Request /\ r.kind # "decode"
  BY DEF IInv, TypeOK, Says
<1>2. /\ r.att \in Attempts /\ r.att # NoAttempt /\ tries[r.att].hash = r.hash
  BY <1>1 DEF IInv, Asked, Request
<1>3. ASSUME NEW n \in Nodes, NEW h \in Invoices, pay[n][h].by = r.att
      PROVE  trip[r.att] = "started" /\ tries[r.att].via = n /\ r.hash = h
  BY <1>2, <1>3 DEF IInv, Backed
<1>4. CASE r.kind = "pay"
  <2>1. trip[r.att] = "refused"
    BY <1>4 DEF Says
  <2> QED
    BY <1>3, <2>1 DEF Dead
<1>5. CASE r.kind # "pay"
  <2>1. /\ ~(InOrder /\ trip[r.att] = "sent")
        /\ pay[r.via][r.hash].status = "failed" /\ r.via = "lnd"
    BY <1>1, <1>5 DEF Says
  <2>2. InOrder /\ \A n \in Nodes : n = "lnd"
    BY <1>1, <2>1, MeltAssumption DEF Cautious, Request
  <2> QED
    BY <1>3, <2>1, <2>2 DEF Dead
<1> QED
  BY <1>4, <1>5

(* A request after a step is one from before it, or its answer can roll back
   only an attempt that was made and is dead. *)
LEMMA RequestStep ==
  ASSUME CInv, Cautious, [Next]_vars, NEW w \in Wires, NEW r, r = pending'[w], r # NoRequest
  PROVE  \/ r = pending[w]
         \/ /\ r.kind = "pay" => r.reply # "failed"
            /\ r.kind = "force" \/ r.reply \in {"failed", "refused"} =>
                 r.att \in Attempts /\ trip[r.att] # "unmade" /\ Dead(r.att)
<1> DEFINE Sound == \/ r = pending[w]
                    \/ /\ r.kind = "pay" => r.reply # "failed"
                       /\ r.kind = "force" \/ r.reply \in {"failed", "refused"} =>
                            r.att \in Attempts /\ trip[r.att] # "unmade" /\ Dead(r.att)
<1> SUFFICES Sound
  OBVIOUS
<1> USE DEF CInv
<1>1. ASSUME UNCHANGED pending PROVE Sound
  BY <1>1
<1>2. ASSUME NEW v \in Wires, Take(v) PROVE Sound
  BY <1>2 DEF Take, IInv, TypeOK
<1>3. ASSUME NEW v \in Wires, NEW kind \in {"decode", "pay", "check", "abort"},
             NEW q \in Quotes, NEW h, NEW a, Send(v, kind, q, h, a)
      PROVE  Sound
  BY <1>3 DEF Send, IInv, TypeOK
<1>4. CASE Wallet
  BY <1>1, <1>3, <1>4 DEF Wallet, PostSwap, PostMeltQuoteSelf, PostMeltQuote, GetMeltQuote,
     PostMeltSelf, PostMelt
<1>5. ASSUME NEW v \in Wires, Answer(v) \/ Cancel(v) PROVE Sound
  BY <1>2, <1>5 DEF Answer, Cancel, LnMeltQuoted, LnMeltPaid, LnMeltChecked, LnMeltAbort, Answered
<1>6. CASE Operator
  <2>1. ASSUME NEW q \in Quotes, NEW v \in Wires, AdminMeltAbort(q, "force", v)
        PROVE  Sound
    <3>1. Dead(AttemptOf(q)) /\ AttemptOf(q) \in Attempts /\ trip[AttemptOf(q)] # "unmade"
      BY <2>1, Pending, LookedDead DEF AdminMeltAbort, IInv, Numbered
    <3>2. r = pending[w] \/ (r.kind = "force" /\ r.reply = "none" /\ r.att = AttemptOf(q))
      BY <2>1 DEF AdminMeltAbort, Send, IInv, TypeOK
    <3> QED
      BY <3>1, <3>2
  <2> QED
    BY <1>1, <1>3, <1>6, <2>1 DEF Operator, AdminMeltAbort, AdminMeltAbortUnchecked,
       AdminQuoteDelete, LnConfigure
<1>7. CASE RunCleanup \/ (\E q \in Quotes : Tick(q)) \/ UNCHANGED vars
  BY <1>1, <1>7 DEF RunCleanup, Tick, vars
<1>8. CASE Node
  <2>1. ASSUME NEW v \in Wires, NEW reply \in Replies, NodeReply(v, reply)
        PROVE  Sound
    <3>1. CASE v # w
      BY <2>1, <3>1 DEF NodeReply, IInv, TypeOK
    <3>2. CASE v = w
      <4>1. /\ pending[w] \in Request /\ reply \in Says(pending[w]) /\ pending[w] # NoRequest
            /\ r = [pending[w] EXCEPT !.reply = reply]
        BY <2>1, <3>2 DEF NodeReply, IInv, TypeOK
      <4>2. r.kind = pending[w].kind /\ r.att = pending[w].att /\ r.reply = reply
        BY <4>1 DEF Request
      <4>3. r.kind = "pay" => reply # "failed"
        BY <4>1, <4>2 DEF Says
      <4>4. reply \in {"failed", "refused"} => r.kind # "decode" /\ Dead(r.att)
        BY <4>1, <4>2, SaidDead DEF Says
      <4>5. r.kind = "force" => Dead(r.att)
        BY <4>1, <4>2 DEF DeadWhenAsked
      <4>6. r.kind # "decode" => r.att \in Attempts /\ trip[r.att] # "unmade"
        BY <4>1, <4>2 DEF IInv, Asked, Request
      <4> QED
        BY <4>2, <4>3, <4>4, <4>5, <4>6
    <3> QED
      BY <3>1, <3>2
  <2> QED
    BY <1>1, <1>8, <2>1 DEF Node, NodePay, NodeResolve
<1> QED
  BY <1>4, <1>5, <1>6, <1>7, <1>8 DEF Next

(* An attempt is rolled back only when it is dead. *)
LEMMA RollbackStep ==
  ASSUME CInv, Cautious, [Next]_vars, NEW a \in Attempts, tries'[a].fate = "rolledback"
  PROVE  trip[a] # "unmade" /\ Dead(a)
<1> DEFINE Sound == trip[a] # "unmade" /\ Dead(a)
<1> SUFFICES Sound
  OBVIOUS
<1> USE DEF CInv
<1>1. ASSUME tries[a].fate = "rolledback" PROVE Sound
  BY <1>1 DEF DeadWhenRolledBack, IInv, Numbered
<1>2. ASSUME UNCHANGED tries PROVE Sound
  BY <1>1, <1>2
<1>3. ASSUME NEW q \in Quotes, state[q] = "pending", SettleMelt(q) PROVE Sound
  <2>1. \A b \in Attempts : b # AttemptOf(q) => tries'[b].fate = tries[b].fate
    BY <1>3, Decided DEF SettleMelt, Fates
  <2>2. tries'[AttemptOf(q)].fate = "settled"
    BY <1>3, Decided DEF SettleMelt, Fates
  <2> QED
    BY <1>1, <2>1, <2>2
<1>4. ASSUME NEW q \in Quotes, state[q] = "pending", RollbackMelt(q), Dead(AttemptOf(q)) PROVE Sound
  <2>1. \A b \in Attempts : b # AttemptOf(q) => tries'[b].fate = tries[b].fate
    BY <1>4, Decided DEF RollbackMelt, Fates
  <2>2. trip[AttemptOf(q)] # "unmade"
    BY <1>4, Pending DEF IInv, Numbered
  <2> QED
    BY <1>1, <1>4, <2>1, <2>2
<1>5. CASE Wallet
  <2>1. ASSUME NEW q \in Quotes, NEW ins \in SUBSET Secrets, NEW blanks \in SUBSET Outputs,
               NEW w \in Wires, PostMelt(q, ins, blanks, w)
        PROVE  Sound
    <3>1. tries'[a] = tries[a] \/ tries'[a].fate = "open"
      BY <2>1 DEF PostMelt, IInv, TypeOK
    <3> QED
      BY <1>1, <3>1
  <2> QED
    BY <1>2, <1>5, <2>1 DEF Wallet, PostSwap, PostMeltQuoteSelf, PostMeltQuote, GetMeltQuote,
       PostMeltSelf, mint
<1>6. ASSUME NEW w \in Wires, Answer(w) \/ Cancel(w) PROVE Sound
  <2> DEFINE r == pending[w]
             q == r.quote
  <2>1. r # NoRequest => q \in Quotes
    BY DEF IInv, TypeOK, Request
  <2>2. ASSUME r # NoRequest, r.kind # "decode", ThisAttempt(r.att, q),
               r.kind = "force" \/ r.reply \in {"failed", "refused"}
        PROVE  Dead(AttemptOf(q))
    BY <2>2 DEF ThisAttempt, DeadWhenAsked, IInv, Asked
  <2>3. CASE LnMeltPaid(w)
    BY <1>2, <1>3, <1>4, <2>1, <2>2, <2>3 DEF LnMeltPaid, Answered, PayRejected, NoMintChange
  <2>4. CASE LnMeltChecked(w)
    BY <1>2, <1>3, <1>4, <2>1, <2>2, <2>4 DEF LnMeltChecked, Answered, PayStatus, NoMintChange
  <2>5. CASE LnMeltAbort(w)
    BY <1>2, <1>3, <1>4, <2>1, <2>2, <2>5 DEF LnMeltAbort, Answered, PayStatus, NoMintChange
  <2> QED
    BY <1>2, <1>6, <2>3, <2>4, <2>5 DEF Answer, LnMeltQuoted, Cancel
<1>7. CASE Operator
  BY <1>2, <1>4, <1>7, LookedDead DEF Operator, AdminMeltAbort, AdminMeltAbortUnchecked,
     AdminQuoteDelete, LnConfigure
<1>8. CASE RunCleanup \/ (\E q \in Quotes : Tick(q)) \/ Node \/ UNCHANGED vars
  BY <1>2, <1>8 DEF RunCleanup, Tick, Node, NodePay, NodeResolve, NodeReply, vars
<1> QED
  BY <1>5, <1>6, <1>7, <1>8 DEF Next

(* CInv is inductive in a cautious environment. *)
LEMMA CautiousStep ==
  ASSUME CInv, Cautious, [Next]_vars
  PROVE  CInv'
<1>1. IInv'
  BY StepInv DEF CInv
<1>2. DeadWhenAsked'
  <2> SUFFICES ASSUME NEW w \in Wires, NEW r, r = pending'[w], r # NoRequest
               PROVE  /\ r.kind = "pay" => r.reply # "failed"
                      /\ r.kind = "force" \/ r.reply \in {"failed", "refused"} => Dead(r.att)'
    BY DEF DeadWhenAsked
  <2>1. CASE r = pending[w]
    <3>1. r.kind = "decode" => r.kind # "force" /\ r.reply \notin {"failed", "refused"}
      BY <2>1 DEF CInv, IInv, Asked
    <3>2. r.kind # "decode" => r.att \in Attempts /\ trip[r.att] # "unmade"
      BY <2>1 DEF CInv, IInv, Asked, TypeOK, Request
    <3> QED
      BY <2>1, <3>1, <3>2, DeadStable DEF CInv, DeadWhenAsked
  <2> QED
    BY <2>1, RequestStep, DeadStable DEF CInv
<1>3. DeadWhenRolledBack'
  <2>1. ASSUME NEW a \in Attempts, tries'[a].fate = "rolledback"
        PROVE  Dead(a)'
    BY <2>1, RollbackStep, DeadStable DEF CInv
  <2> QED
    BY <2>1 DEF DeadWhenRolledBack
<1> QED
  BY <1>1, <1>2, <1>3 DEF CInv

(* In a cautious environment CInv is an invariant. *)
THEOREM CautiousInvariance == ASSUME Cautious PROVE Spec => []CInv
<1>1. Init => CInv
  BY InitInv DEF CInv, DeadWhenAsked, DeadWhenRolledBack, Init, Unmade
<1>2. CInv /\ [Next]_vars => CInv'
  BY CautiousStep
<1> QED
  BY <1>1, <1>2, PTL DEF Spec

(* With one backend that never answers of a payment before it has heard of
   it, and an operator who looks before forcing an abort, the mint never pays
   for proofs that it gave back. *)
THEOREM NeverPaysTwice == ASSUME Cautious PROVE Spec => []NoDoublePay
<1>1. CInv => NoDoublePay
  <2> SUFFICES ASSUME CInv, NEW n \in Nodes, NEW h \in Invoices,
                      pay[n][h].status \in {"live", "settled"}
               PROVE  /\ tries[pay[n][h].by].fate # "rolledback"
                      /\ tries[pay[n][h].by].secrets \subseteq spent
    BY DEF NoDoublePay
  <2> DEFINE a == pay[n][h].by
  <2>1. a \in Attempts /\ trip[a] = "started"
    BY DEF CInv, IInv, Backed, TypeOK, Payment
  <2>2. ~Dead(a)
    BY DEF Dead
  <2>3. tries[a].fate # "rolledback" /\ tries[a].fate # "unmade"
    BY <2>1, <2>2 DEF CInv, DeadWhenRolledBack, IInv, Numbered
  <2>4. tries[a].fate \in Fates
    BY <2>1 DEF CInv, IInv, TypeOK, Try, Unmade, Fates
  <2> QED
    BY <2>1, <2>3, <2>4 DEF CInv, IInv, Kept, Fates
<1> QED
  BY <1>1, CautiousInvariance, PTL

-----------------------------------------------------------------------------
(* Melts, in a cautious environment, implement Redemption.                  *)

Lot  == [a \in Attempts |-> tries[a].secrets]
Fate == [a \in Attempts |-> Outcome(tries[a].fate)]

(* A step that leaves proofs, attempts and payments alone is a stutter. *)
LEMMA PromiseStutter ==
  ASSUME UNCHANGED <<spent, tries, pay>>
  PROVE  UNCHANGED Promise!vars
BY DEF Promise!vars, Out

(* At first nothing is spent, no attempt was made and nothing was paid. *)
LEMMA PromiseInit == Init => Promise!Init
BY DEF Init, Promise!Init, Out, Unmade, NoPayment, Outcome

(* Proofs burned are free ones. *)
LEMMA PromiseBurn ==
  ASSUME NEW ins \in SUBSET Secrets, Spendable(ins), spent' = spent \cup ins,
         UNCHANGED <<tries, pay>>
  PROVE  Promise!Next
<1>1. Promise!Burn(ins)
  BY DEF Promise!Burn, Spendable, Out
<1> QED
  BY <1>1 DEF Promise!Next

(* A new attempt takes free proofs. *)
LEMMA PromiseTake ==
  ASSUME IInv, NEW q \in Quotes, NEW ins \in SUBSET Secrets, NEW blanks \in SUBSET Outputs,
         NEW w \in Wires, PostMelt(q, ins, blanks, w)
  PROVE  Promise!Next
<1> DEFINE new == now + 1
<1>1. new \in Attempts /\ tries[new].fate = "unmade"
  BY MeltAssumption DEF PostMelt, IInv, TypeOK, Numbered
<1>2. /\ spent' = spent \cup ins /\ Spendable(ins) /\ UNCHANGED pay
      /\ tries'[new].secrets = ins /\ tries'[new].fate = "open"
      /\ \A a \in Attempts \ {new} : tries'[a] = tries[a]
  BY <1>1 DEF PostMelt, Meltable, IInv, TypeOK
<1>3. Lot' = [Lot EXCEPT ![new] = ins] /\ Fate' = [Fate EXCEPT ![new] = "open"]
  BY <1>1, <1>2 DEF Lot, Fate, Outcome
<1>4. Fate[new] = "unmade"
  BY <1>1 DEF Fate, Outcome
<1>5. Promise!Take(new, ins)
  BY <1>2, <1>3, <1>4 DEF Promise!Take, Spendable, Out, Lot, Fate
<1> QED
  BY <1>1, <1>5 DEF Promise!Next

(* A settled melt keeps its proofs. *)
LEMMA PromiseKeep ==
  ASSUME IInv, NEW q \in Quotes, state[q] = "pending", SettleMelt(q), UNCHANGED pay
  PROVE  Promise!Next
<1> DEFINE att == AttemptOf(q)
<1>1. att \in Attempts /\ tries[att].fate = "open"
  BY Pending
<1>2. /\ \A a \in Attempts : /\ tries'[a].secrets = tries[a].secrets
                             /\ a # att => tries'[a].fate = tries[a].fate
      /\ tries'[att].fate = "settled"
  BY Decided DEF SettleMelt, Fates
<1>3. Lot' = Lot /\ Fate' = [Fate EXCEPT ![att] = "kept"] /\ Fate[att] = "open"
  BY <1>1, <1>2 DEF Lot, Fate, Outcome
<1>4. Promise!Keep(att)
  BY <1>3 DEF Promise!Keep, Lot, Fate, SettleMelt, Out
<1> QED
  BY <1>1, <1>4 DEF Promise!Next

(* A melt rolled back returns its proofs, and its payment is not out. *)
LEMMA PromiseReturn ==
  ASSUME IInv, NEW q \in Quotes, state[q] = "pending", RollbackMelt(q), Dead(AttemptOf(q)),
         UNCHANGED pay
  PROVE  Promise!Next
<1> DEFINE att == AttemptOf(q)
<1>1. att \in Attempts /\ tries[att].fate = "open" /\ tries[att].secrets = inflight[q].secrets
  BY Pending
<1>2. /\ \A a \in Attempts : /\ tries'[a].secrets = tries[a].secrets
                             /\ a # att => tries'[a].fate = tries[a].fate
      /\ tries'[att].fate = "rolledback"
  BY Decided DEF RollbackMelt, Fates
<1>3. Lot' = Lot /\ Fate' = [Fate EXCEPT ![att] = "returned"] /\ Fate[att] = "open"
  BY <1>1, <1>2 DEF Lot, Fate, Outcome
<1>4. att \notin Out
  BY DEF Dead, Out
<1>5. Secrets \ spent' = (Secrets \ spent) \cup Lot[att]
  BY <1>1 DEF RollbackMelt, IInv, TypeOK, InflightExact, Lot
<1>6. Promise!Return(att)
  BY <1>3, <1>4, <1>5 DEF Promise!Return, Lot, Fate, Out
<1> QED
  BY <1>1, <1>6 DEF Promise!Next

(* What the nodes do: a pay that arrives is a payment that leaves, for its
   attempt's proofs were not returned, and a payment that fails comes back. *)
LEMMA PromiseNode ==
  ASSUME CInv, Node
  PROVE  [Promise!Next]_Promise!vars
<1> USE DEF CInv
<1>1. ASSUME NEW a \in Attempts, NodePay(a)
      PROVE  [Promise!Next]_Promise!vars
  <2> DEFINE n == tries[a].via
             h == tries[a].hash
  <2>1. /\ trip[a] = "sent" /\ n \in Nodes /\ h \in Invoices
        /\ UNCHANGED <<spent, tries>>
    BY <1>1 DEF NodePay, IInv, Numbered, TypeOK, Unmade, Try, mint
  <2>2. Fate[a] \in {"open", "kept"}
    <3>1. tries[a].fate \in {"open", "settled"}
      <4>1. tries[a].fate # "rolledback" /\ tries[a].fate # "unmade"
        BY <2>1 DEF DeadWhenRolledBack, Dead, IInv, Numbered
      <4>2. tries[a].fate \in Fates
        BY DEF IInv, TypeOK, Try, Unmade, Fates
      <4> QED
        BY <4>1, <4>2 DEF Fates
    <3> QED
      BY <3>1 DEF Fate, Outcome
  <2>3. CASE UNCHANGED pay
    BY <2>1, <2>3, PromiseStutter
  <2>4. CASE /\ pay[n][h].status \in {"none", "failed"}
             /\ pay' = [pay EXCEPT ![n][h] = [status |-> "live", by |-> a]]
    <3>1. pay'[n][h] = [status |-> "live", by |-> a]
      BY <2>1, <2>4 DEF IInv, TypeOK
    <3>2. \A m \in Nodes, g \in Invoices : m # n \/ g # h => pay'[m][g] = pay[m][g]
      BY <2>1, <2>4 DEF IInv, TypeOK
    <3>3. Out' = Out \cup {a}
      BY <2>1, <2>4, <3>1, <3>2 DEF Out
    <3>4. Promise!Leave(a)
      BY <2>1, <2>2, <3>3 DEF Promise!Leave, Fate
    <3> QED
      BY <3>4 DEF Promise!Next
  <2> QED
    BY <1>1, <2>3, <2>4 DEF NodePay
<1>2. ASSUME NEW n \in Nodes, NEW h \in Invoices, NodeResolve(n, h)
      PROVE  [Promise!Next]_Promise!vars
  <2> DEFINE a == pay[n][h].by
  <2>1. PICK s \in {"settled", "failed"} : pay' = [pay EXCEPT ![n][h].status = s]
    BY <1>2 DEF NodeResolve
  <2>2. pay[n][h].status = "live" /\ UNCHANGED <<spent, tries>>
    BY <1>2 DEF NodeResolve, mint
  <2>3. pay \in [Nodes -> [Invoices -> Payment]] /\ pay[n][h] \in Payment
    BY DEF IInv, TypeOK
  <2>4. pay'[n][h].status = s /\ pay'[n][h].by = a
    BY <2>1, <2>3 DEF Payment
  <2>5. \A m \in Nodes, g \in Invoices : m # n \/ g # h => pay'[m][g] = pay[m][g]
    BY <2>1, <2>3
  <2>6. a \in Attempts /\ \A m \in Nodes, g \in Invoices : pay[m][g].by = a => m = n /\ g = h
    <3>1. a \in Attempts /\ a # NoAttempt
      BY <2>2, <2>3 DEF IInv, Backed, Payment
    <3> QED
      BY <3>1 DEF IInv, Backed
  <2>7. CASE s = "settled"
    <3>1. Out' = Out
      BY <2>2, <2>4, <2>5, <2>7 DEF Out
    <3> QED
      BY <2>2, <3>1 DEF Promise!vars
  <2>8. CASE s = "failed"
    <3>1. Out' = Out \ {a}
      BY <2>2, <2>4, <2>5, <2>6, <2>8 DEF Out
    <3>2. Promise!ComeBack(a)
      BY <2>2, <3>1 DEF Promise!ComeBack
    <3> QED
      BY <2>6, <3>2 DEF Promise!Next
  <2> QED
    BY <2>7, <2>8
<1>3. ASSUME NEW w \in Wires, NEW reply \in Replies, NodeReply(w, reply)
      PROVE  [Promise!Next]_Promise!vars
  BY <1>3, PromiseStutter DEF NodeReply, mint
<1> QED
  BY <1>1, <1>2, <1>3 DEF Node

(* An answer rolls back only a dead attempt (as in RollbackStep). *)
LEMMA AnswerDead ==
  ASSUME CInv, NEW w \in Wires, pending[w] # NoRequest, pending[w].kind # "decode",
         ThisAttempt(pending[w].att, pending[w].quote),
         pending[w].kind = "force" \/ pending[w].reply \in {"failed", "refused"}
  PROVE  Dead(AttemptOf(pending[w].quote))
BY DEF CInv, ThisAttempt, DeadWhenAsked, IInv, Asked

(* Every step of a cautious environment is a step of Redemption or a stutter. *)
LEMMA PromiseStep ==
  ASSUME CInv, Cautious, [Next]_vars
  PROVE  [Promise!Next]_Promise!vars
<1> DEFINE Step == [Promise!Next]_Promise!vars
<1> SUFFICES Step
  OBVIOUS
<1>1. IInv
  BY DEF CInv
<1>2. ASSUME UNCHANGED <<spent, tries, pay>> PROVE Step
  BY <1>2, PromiseStutter
<1>3. CASE Wallet
  <2>1. ASSUME NEW ins \in SUBSET Secrets, NEW outs \in SUBSET Outputs, PostSwap(ins, outs)
        PROVE  Step
    BY <2>1, PromiseBurn DEF PostSwap
  <2>2. ASSUME NEW q \in Quotes, NEW ins \in SUBSET Secrets, NEW blanks \in SUBSET Outputs,
               PostMeltSelf(q, ins, blanks)
        PROVE  Step
    BY <2>2, PromiseBurn DEF PostMeltSelf, Meltable
  <2>3. ASSUME NEW q \in Quotes, NEW ins \in SUBSET Secrets, NEW blanks \in SUBSET Outputs,
               NEW w \in Wires, PostMelt(q, ins, blanks, w)
        PROVE  Step
    BY <1>1, <2>3, PromiseTake
  <2> QED
    BY <1>2, <1>3, <2>1, <2>2, <2>3 DEF Wallet, PostMeltQuoteSelf, PostMeltQuote, GetMeltQuote, mint
<1>4. ASSUME NEW w \in Wires, Answer(w) \/ Cancel(w) PROVE Step
  <2> DEFINE r == pending[w]
             q == r.quote
  <2>1. r # NoRequest => q \in Quotes
    BY <1>1 DEF IInv, TypeOK, Request
  <2>2. ASSUME q \in Quotes, state[q] = "pending", SettleMelt(q), UNCHANGED pay PROVE Step
    BY <1>1, <2>2, PromiseKeep
  <2>3. ASSUME q \in Quotes, state[q] = "pending", RollbackMelt(q), UNCHANGED pay,
               r # NoRequest, r.kind # "decode", ThisAttempt(r.att, q),
               r.kind = "force" \/ r.reply \in {"failed", "refused"}
        PROVE  Step
    BY <1>1, <2>3, AnswerDead, PromiseReturn
  <2>4. ASSUME NoMintChange, UNCHANGED pay PROVE Step
    BY <1>2, <2>4 DEF NoMintChange, mint
  <2>5. CASE LnMeltPaid(w)
    BY <2>1, <2>2, <2>3, <2>4, <2>5 DEF LnMeltPaid, Answered, PayRejected
  <2>6. CASE LnMeltChecked(w)
    BY <2>1, <2>2, <2>3, <2>4, <2>6 DEF LnMeltChecked, Answered, PayStatus
  <2>7. CASE LnMeltAbort(w)
    BY <2>1, <2>2, <2>3, <2>4, <2>7 DEF LnMeltAbort, Answered, PayStatus
  <2> QED
    BY <1>2, <1>4, <2>5, <2>6, <2>7 DEF Answer, LnMeltQuoted, Cancel, mint
<1>5. CASE Operator
  <2>1. ASSUME NEW q \in Quotes, AdminMeltAbortUnchecked(q) PROVE Step
    BY <1>1, <2>1, LookedDead, PromiseReturn DEF AdminMeltAbortUnchecked
  <2> QED
    BY <1>2, <1>5, <2>1 DEF Operator, AdminMeltAbort, AdminQuoteDelete, LnConfigure, mint
<1>6. CASE RunCleanup \/ (\E q \in Quotes : Tick(q)) \/ UNCHANGED vars
  BY <1>2, <1>6 DEF RunCleanup, Tick, vars, mint
<1>7. CASE Node
  BY <1>7, PromiseNode
<1> QED
  BY <1>3, <1>4, <1>5, <1>6, <1>7 DEF Next

(* In a cautious environment melts implement Redemption: proofs come back only
   of a payment that is not out and never will be. *)
THEOREM MeltsKeepPromise == ASSUME Cautious PROVE Spec => KeepsPromise
<1>1. Init => Promise!Init
  BY PromiseInit
<1>2. CInv /\ [Next]_vars => [Promise!Next]_Promise!vars
  BY PromiseStep
<1>3. Spec => []CInv
  BY CautiousInvariance
<1> QED
  BY <1>1, <1>2, <1>3, PTL DEF Spec, KeepsPromise, Promise!Spec
=============================================================================
