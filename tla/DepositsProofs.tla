-------------------------- MODULE DepositsProofs --------------------------
(***************************************************************************)
(* Proofs about Deposits: DInv is an invariant, and with it a quote mints   *)
(* once and for a paid invoice, a deposit known to be paid is kept, and a   *)
(* cleanup that is on time forgets none without having looked at it.        *)
(***************************************************************************)
EXTENDS DepositsInv, SumProofs, TLAPS

USE DepositAssumption DEF quotes, nodes, history

(* Division by a day rounds down. *)
LEMMA Division ==
  ASSUME NEW n \in Nat, NEW d \in Nat \ {0}
  PROVE  /\ n \div d \in Nat
         /\ d * (n \div d) <= n
         /\ n < d * (n \div d) + d
OBVIOUS

(* The lesser of two numbers is no more than the second. *)
LEMMA MinPair ==
  ASSUME NEW a \in Nat, NEW b \in Nat
  PROVE  Min({a, b}) \in Nat /\ Min({a, b}) <= b
<1>1. \E x \in {a, b} : \A y \in {a, b} : x <= y OBVIOUS
<1>2. Min({a, b}) \in {a, b} /\ \A y \in {a, b} : Min({a, b}) <= y BY <1>1 DEF Min
<1>3. QED BY <1>2

(* The initial state. *)
LEMMA InitQInv == Init => QInv
<1> SUFFICES ASSUME Init PROVE QInv OBVIOUS
<1>1. TypeOK
  <2>1. self \in BOOLEAN BY Zenon DEF Init
  <2>2. QED BY <2>1 DEF Init, TypeOK, States, Ids
<1>0. MintsBacked BY DEF Init, MintsBacked
<1>2. Known BY DEF Init, Known, HasInvoice, Found, Absent
<1>3. Asked /\ Counted /\ LastWord BY DEF Init, Asked, Counted, LastWord
<1>4. Scheduled /\ Looked BY DEF Init, Scheduled, Looked
<1>5. QED BY <1>0, <1>1, <1>2, <1>3, <1>4 DEF QInv

(* A self quote is paid on creation. *)
LEMMA PostMintQuoteSelfInv ==
  ASSUME QInv, NEW q \in Quotes, PostMintQuoteSelf(q)
  PROVE  QInv'
<1>1. TypeOK' BY DEF QInv, TypeOK, Request, Ids, States, Replies, PostMintQuoteSelf,
       Fresh
<1>2. MintsBacked' BY DEF QInv, TypeOK, MintsBacked, Counted, PostMintQuoteSelf, Fresh
<1>3. Known' BY DEF QInv, TypeOK, Known, HasInvoice, Found, Absent, Asked,
       PostMintQuoteSelf, Fresh
<1>4. Asked' BY DEF QInv, TypeOK, Request, Known, Asked, HasInvoice, Found, Absent,
       PostMintQuoteSelf, Fresh
<1>5. Counted' BY DEF QInv, TypeOK, Counted, PostMintQuoteSelf, Fresh
<1>6. LastWord' BY DEF QInv, TypeOK, Request, LastWord, Due, Final, Known, Asked,
       HasInvoice, PostMintQuoteSelf, Fresh
<1>7. Scheduled' BY DEF QInv, TypeOK, Scheduled, PostMintQuoteSelf, Fresh
<1>8. Looked' BY DEF QInv, TypeOK, Looked, HasInvoice, Scheduled, PostMintQuoteSelf,
       Fresh
<1>9. QED BY <1>1, <1>2, <1>3, <1>4, <1>5, <1>6, <1>7, <1>8 DEF QInv

(* A new quote has no invoice, and its request is alone in asking about it. *)
LEMMA PostMintQuoteInv ==
  ASSUME QInv, NEW q \in Quotes, NEW w \in Wires, PostMintQuote(q, w)
  PROVE  QInv'
<1>1. TypeOK' BY DEF QInv, TypeOK, Request, Ids, States, Replies, PostMintQuote,
       Fresh, Send, Ask
<1>2. MintsBacked' BY DEF QInv, TypeOK, MintsBacked, Counted, PostMintQuote, Fresh,
       Send, Ask
<1>3. Known' BY DEF QInv, TypeOK, Known, HasInvoice, Found, Absent, Asked,
       PostMintQuote, Fresh, Send, Ask
<1>4. Asked' BY DEF QInv, TypeOK, Request, Known, Asked, HasInvoice, Found, Absent,
       Ids, States, PostMintQuote, Fresh, Send, Ask
<1>5. Counted' BY DEF QInv, TypeOK, Counted, PostMintQuote, Fresh, Send, Ask
<1>6. LastWord' BY DEF QInv, TypeOK, Request, LastWord, Due, Final, Known, Asked,
       HasInvoice, PostMintQuote, Fresh, Send, Ask
<1>7. Scheduled' BY DEF QInv, TypeOK, Scheduled, PostMintQuote, Fresh, Send, Ask
<1>8. Looked' BY DEF QInv, TypeOK, Looked, HasInvoice, Scheduled, PostMintQuote,
       Fresh, Send, Ask
<1>9. QED BY <1>1, <1>2, <1>3, <1>4, <1>5, <1>6, <1>7, <1>8 DEF QInv

(* A poll is about an invoice that was told. *)
LEMMA GetMintQuoteInv ==
  ASSUME QInv, NEW q \in Quotes, NEW w \in Wires, GetMintQuote(q, w)
  PROVE  QInv'
<1>1. TypeOK' BY DEF QInv, TypeOK, Request, Ids, States, Replies, GetMintQuote, Send,
       Ask
<1>2. MintsBacked' BY DEF QInv, TypeOK, MintsBacked, Counted, GetMintQuote, Send, Ask
<1>3. Known' BY DEF QInv, TypeOK, Known, HasInvoice, Found, Absent, Asked,
       GetMintQuote, Send, Ask
<1>4. Asked' BY DEF QInv, TypeOK, Request, Known, Asked, HasInvoice, Found, Absent,
       GetMintQuote, Send, Ask
<1>5. Counted' BY DEF QInv, TypeOK, Counted, GetMintQuote, Send, Ask
<1>6. LastWord' BY DEF QInv, TypeOK, Request, LastWord, Due, Final, Known, Asked,
       HasInvoice, GetMintQuote, Send, Ask
<1>7. Scheduled' BY DEF QInv, TypeOK, Scheduled, GetMintQuote, Send, Ask
<1>8. Looked' BY DEF QInv, TypeOK, Looked, HasInvoice, Scheduled, GetMintQuote, Send,
       Ask
<1>9. QED BY <1>1, <1>2, <1>3, <1>4, <1>5, <1>6, <1>7, <1>8 DEF QInv

(* A paid quote mints, and is issued. *)
LEMMA PostMintInv ==
  ASSUME QInv, NEW q \in Quotes, PostMint(q)
  PROVE  QInv'
<1>1. TypeOK' BY DEF QInv, TypeOK, Request, Ids, States, Replies, PostMint, Mintable
<1>2. MintsBacked' BY DEF QInv, TypeOK, MintsBacked, Counted, PostMint, Mintable
<1>3. Known' BY DEF QInv, TypeOK, Known, HasInvoice, Found, Absent, Asked, PostMint,
       Mintable
<1>4. Asked' BY DEF QInv, TypeOK, Request, Known, Asked, HasInvoice, Found, Absent,
       PostMint, Mintable
<1>5. Counted' BY DEF QInv, TypeOK, Counted, PostMint, Mintable
<1>6. LastWord' BY DEF QInv, TypeOK, Request, LastWord, Due, Final, Known, Asked,
       HasInvoice, PostMint, Mintable
<1>7. Scheduled' BY DEF QInv, TypeOK, Scheduled, PostMint, Mintable
<1>8. Looked' BY DEF QInv, TypeOK, Looked, HasInvoice, Scheduled, PostMint, Mintable
<1>9. QED BY <1>1, <1>2, <1>3, <1>4, <1>5, <1>6, <1>7, <1>8 DEF QInv

(* An invoice is paid in time, so not after the last word on it. *)
LEMMA PayInvoiceInv ==
  ASSUME QInv, NEW q \in Quotes, PayInvoice(q)
  PROVE  QInv'
<1>1. TypeOK' BY DEF QInv, TypeOK, Request, Ids, States, Replies, PayInvoice
<1>2. MintsBacked' BY DEF QInv, TypeOK, MintsBacked, Counted, PayInvoice
<1>3. Known' BY DEF QInv, TypeOK, Known, HasInvoice, Found, Absent, Asked, PayInvoice
<1>4. Asked' BY DEF QInv, TypeOK, Request, Known, Asked, HasInvoice, Found, Absent,
       PayInvoice
<1>5. Counted' BY DEF QInv, TypeOK, Counted, PayInvoice
<1>6. LastWord' BY DEF QInv, TypeOK, Request, LastWord, Due, Final, Known, Asked,
       HasInvoice, PayInvoice
<1>7. Scheduled' BY DEF QInv, TypeOK, Scheduled, PayInvoice
<1>8. Looked' BY DEF QInv, TypeOK, Looked, HasInvoice, Scheduled, PayInvoice
<1>9. QED BY <1>1, <1>2, <1>3, <1>4, <1>5, <1>6, <1>7, <1>8 DEF QInv

(* A quote gets its invoice before the cleanup could have missed it. *)
LEMMA LnMintCreatedInv ==
  ASSUME QInv, NEW w \in Wires, LnMintCreated(w)
  PROVE  QInv'
<1>1. TypeOK' BY DEF QInv, TypeOK, Request, Ids, States, Replies, LnMintCreated,
       Answered, Drop
<1>2. MintsBacked' BY DEF QInv, TypeOK, MintsBacked, Counted, Known, Asked,
       LnMintCreated, Answered, Drop
<1>3. Known' BY DEF QInv, TypeOK, Known, HasInvoice, Found, Absent, Asked,
       LnMintCreated, Answered, Drop
<1>4. Asked' BY DEF QInv, TypeOK, Request, Known, Asked, HasInvoice, Found, Absent,
       LnMintCreated, Answered, Drop
<1>5. Counted' BY DEF QInv, TypeOK, Counted, LnMintCreated, Answered, Drop
<1>6. LastWord' BY DEF QInv, TypeOK, Request, LastWord, Due, Final, Known, Asked,
       HasInvoice, LnMintCreated, Answered, Drop
<1>7. Scheduled' BY DEF QInv, TypeOK, Scheduled, LnMintCreated, Answered, Drop
<1>8. Looked' BY DEF QInv, TypeOK, Looked, HasInvoice, Scheduled, LnMintCreated,
       Answered, Drop
<1>9. QED BY <1>1, <1>2, <1>3, <1>4, <1>5, <1>6, <1>7, <1>8 DEF QInv

(* Only an unpaid quote is promoted, and only when its invoice was paid. *)
LEMMA LnMintCheckedInv ==
  ASSUME QInv, NEW w \in Wires, LnMintChecked(w)
  PROVE  QInv'
<1>1. TypeOK' BY DEF QInv, TypeOK, Request, Ids, States, Replies, LnMintChecked,
       Answered, Promotable, InvoicePaid
<1>2. MintsBacked' BY DEF QInv, TypeOK, MintsBacked, Counted, Asked, LnMintChecked,
       Answered, Promotable, InvoicePaid
<1>3. Known' BY DEF QInv, TypeOK, Known, HasInvoice, Found, Absent, Asked,
       LnMintChecked, Answered, Promotable, InvoicePaid
<1>4. Asked' BY DEF QInv, TypeOK, Request, Known, Asked, HasInvoice, Found, Absent,
       LnMintChecked, Answered, Promotable, InvoicePaid
<1>5. Counted' BY DEF QInv, TypeOK, Counted, LnMintChecked, Answered, Promotable,
       InvoicePaid
<1>6. LastWord' BY DEF QInv, TypeOK, Request, LastWord, Due, Final, Known, Asked,
       HasInvoice, LnMintChecked, Answered, Promotable, InvoicePaid
<1>7. Scheduled' BY DEF QInv, TypeOK, Scheduled, LnMintChecked, Answered, Promotable,
       InvoicePaid
<1>8. Looked' BY DEF QInv, TypeOK, Looked, HasInvoice, Scheduled, LnMintChecked,
       Answered, Promotable, InvoicePaid
<1>9. QED BY <1>1, <1>2, <1>3, <1>4, <1>5, <1>6, <1>7, <1>8 DEF QInv

(* A cancelled request is forgotten. *)
LEMMA CancelInv ==
  ASSUME QInv, NEW w \in Wires, Cancel(w)
  PROVE  QInv'
<1>1. TypeOK' BY DEF QInv, TypeOK, Request, Ids, States, Replies, Cancel
<1>2. MintsBacked' BY DEF QInv, TypeOK, MintsBacked, Counted, Cancel
<1>3. Known' BY DEF QInv, TypeOK, Known, HasInvoice, Found, Absent, Asked, Cancel
<1>4. Asked' BY DEF QInv, TypeOK, Request, Known, Asked, HasInvoice, Found, Absent,
       Cancel
<1>5. Counted' BY DEF QInv, TypeOK, Counted, Cancel
<1>6. LastWord' BY DEF QInv, TypeOK, Request, LastWord, Due, Final, Known, Asked,
       HasInvoice, Cancel
<1>7. Scheduled' BY DEF QInv, TypeOK, Scheduled, Cancel
<1>8. Looked' BY DEF QInv, TypeOK, Looked, HasInvoice, Scheduled, Cancel
<1>9. QED BY <1>1, <1>2, <1>3, <1>4, <1>5, <1>6, <1>7, <1>8 DEF QInv

(* Deleting a quote nobody is owed for. *)
LEMMA AdminQuoteDeleteInv ==
  ASSUME QInv, NEW q \in Quotes, AdminQuoteDelete(q)
  PROVE  QInv'
<1>1. TypeOK' BY DEF QInv, TypeOK, Request, Ids, States, Replies, AdminQuoteDelete,
       Deletable, Drop
<1>2. MintsBacked' BY DEF QInv, TypeOK, MintsBacked, Counted, AdminQuoteDelete,
       Deletable, Drop
<1>3. Known' BY DEF QInv, TypeOK, Known, HasInvoice, Found, Absent, Asked,
       AdminQuoteDelete, Deletable, Drop
<1>4. Asked' BY DEF QInv, TypeOK, Request, Known, Asked, HasInvoice, Found, Absent,
       AdminQuoteDelete, Deletable, Drop
<1>5. Counted' BY DEF QInv, TypeOK, Counted, AdminQuoteDelete, Deletable, Drop
<1>6. LastWord' BY DEF QInv, TypeOK, Request, LastWord, Due, Final, Known, Asked,
       HasInvoice, AdminQuoteDelete, Deletable, Drop
<1>7. Scheduled' BY DEF QInv, TypeOK, Scheduled, AdminQuoteDelete, Deletable, Drop
<1>8. Looked' BY DEF QInv, TypeOK, Looked, HasInvoice, Scheduled, AdminQuoteDelete,
       Deletable, Drop
<1>9. QED BY <1>1, <1>2, <1>3, <1>4, <1>5, <1>6, <1>7, <1>8 DEF QInv

(* Writing off a quote: the total stays a natural number. *)
LEMMA AdminQuoteRevokeInv ==
  ASSUME QInv, NEW q \in Quotes, AdminQuoteRevoke(q)
  PROVE  QInv'
<1>1. TypeOK'
  <2>1. issued' \in Nat BY MinPair DEF QInv, TypeOK, AdminQuoteRevoke, WriteOff
  <2>2. QED BY <2>1 DEF QInv, TypeOK, States, Ids, Request, AdminQuoteRevoke, Drop
<1>2. MintsBacked' BY DEF QInv, TypeOK, MintsBacked, Counted, AdminQuoteRevoke, Drop,
       WriteOff
<1>3. Known' BY DEF QInv, TypeOK, Known, HasInvoice, Found, Absent, Asked,
       AdminQuoteRevoke, Drop, WriteOff
<1>4. Asked' BY DEF QInv, TypeOK, Request, Known, Asked, HasInvoice, Found, Absent,
       AdminQuoteRevoke, Drop, WriteOff
<1>5. Counted' BY DEF QInv, TypeOK, Counted, AdminQuoteRevoke, Drop, WriteOff
<1>6. LastWord' BY DEF QInv, TypeOK, Request, LastWord, Due, Final, Known, Asked,
       HasInvoice, AdminQuoteRevoke, Drop, WriteOff
<1>7. Scheduled' BY DEF QInv, TypeOK, Scheduled, AdminQuoteRevoke, Drop, WriteOff
<1>8. Looked' BY DEF QInv, TypeOK, Looked, HasInvoice, Scheduled, AdminQuoteRevoke,
       Drop, WriteOff
<1>9. QED BY <1>1, <1>2, <1>3, <1>4, <1>5, <1>6, <1>7, <1>8 DEF QInv

(* Switching the self method changes no quote. *)
LEMMA UpdateSelfInv ==
  ASSUME QInv, NEW on \in BOOLEAN, UpdateSelf(on)
  PROVE  QInv'
<1>1. TypeOK' BY DEF QInv, TypeOK, Request, Ids, States, Replies, UpdateSelf
<1>2. MintsBacked' BY DEF QInv, TypeOK, MintsBacked, Counted, UpdateSelf
<1>3. Known' BY DEF QInv, TypeOK, Known, HasInvoice, Found, Absent, Asked, UpdateSelf
<1>4. Asked' BY DEF QInv, TypeOK, Request, Known, Asked, HasInvoice, Found, Absent,
       UpdateSelf
<1>5. Counted' BY DEF QInv, TypeOK, Counted, UpdateSelf
<1>6. LastWord' BY DEF QInv, TypeOK, Request, LastWord, Due, Final, Known, Asked,
       HasInvoice, UpdateSelf
<1>7. Scheduled' BY DEF QInv, TypeOK, Scheduled, UpdateSelf
<1>8. Looked' BY DEF QInv, TypeOK, Looked, HasInvoice, Scheduled, UpdateSelf
<1>9. QED BY <1>1, <1>2, <1>3, <1>4, <1>5, <1>6, <1>7, <1>8 DEF QInv

(* Switching the backend changes no quote. *)
LEMMA LnConfigureInv ==
  ASSUME QInv, NEW c \in Nodes \cup {"none"}, LnConfigure(c)
  PROVE  QInv'
<1>1. TypeOK' BY DEF QInv, TypeOK, Request, Ids, States, Replies, LnConfigure
<1>2. MintsBacked' BY DEF QInv, TypeOK, MintsBacked, Counted, LnConfigure
<1>3. Known' BY DEF QInv, TypeOK, Known, HasInvoice, Found, Absent, Asked, LnConfigure
<1>4. Asked' BY DEF QInv, TypeOK, Request, Known, Asked, HasInvoice, Found, Absent,
       LnConfigure
<1>5. Counted' BY DEF QInv, TypeOK, Counted, LnConfigure
<1>6. LastWord' BY DEF QInv, TypeOK, Request, LastWord, Due, Final, Known, Asked,
       HasInvoice, LnConfigure
<1>7. Scheduled' BY DEF QInv, TypeOK, Scheduled, LnConfigure
<1>8. Looked' BY DEF QInv, TypeOK, Looked, HasInvoice, Scheduled, LnConfigure
<1>9. QED BY <1>1, <1>2, <1>3, <1>4, <1>5, <1>6, <1>7, <1>8 DEF QInv

(* The cleanup adds requests only: last checks of quotes that just expired. *)
LEMMA CleanupAsks ==
  ASSUME TypeOK, RunCleanup
  PROVE  /\ pending' \in [Wires -> Request \cup {NoRequest}]
         /\ \A w \in Wires : pending'[w] # pending[w] =>
              \E q \in Quotes : RecheckMintQuote(q) /\ pending'[w] = Ask("check", q, TRUE)
<1>1. CASE ln = "none" BY <1>1 DEF RunCleanup, TypeOK
<1>2. CASE ln # "none"
  <2> DEFINE recheck == {q \in Quotes : KeepMintQuote(q) /\ RecheckMintQuote(q)}
  <2>1. PICK wire \in Injection(recheck, {w \in Wires : pending[w] = NoRequest}) :
          pending' = [w \in Wires |->
                 IF \E q \in recheck : wire[q] = w
                 THEN Ask("check", CHOOSE q \in recheck : wire[q] = w, TRUE)
                 ELSE pending[w]]
    BY <1>2 DEF RunCleanup, recheck
  <2>2. \A q \in Quotes : Ask("check", q, TRUE) \in Request
    BY <1>2 DEF Ask, Request, Replies, TypeOK
  <2>3. ASSUME NEW w \in Wires, \E q \in recheck : wire[q] = w
        PROVE  \E q \in recheck : pending'[w] = Ask("check", q, TRUE)
    <3>1. (CHOOSE q \in recheck : wire[q] = w) \in recheck BY <2>3
    <3>2. pending'[w] = Ask("check", CHOOSE q \in recheck : wire[q] = w, TRUE)
      BY <2>1, <2>3
    <3>3. QED BY <3>1, <3>2
  <2>4. ASSUME NEW w \in Wires, ~\E q \in recheck : wire[q] = w
        PROVE  pending'[w] = pending[w]
    BY <2>1, <2>4
  <2>5. ASSUME NEW w \in Wires PROVE pending'[w] \in Request \cup {NoRequest}
    <3>1. CASE \E q \in recheck : wire[q] = w
      <4>1. PICK q \in recheck : pending'[w] = Ask("check", q, TRUE) BY <2>3, <3>1
      <4>2. QED BY <2>2, <4>1
    <3>2. CASE ~\E q \in recheck : wire[q] = w
      BY <2>4, <3>2 DEF TypeOK
    <3>3. QED BY <3>1, <3>2
  <2>6. QED BY <2>1, <2>3, <2>4, <2>5
<1>3. QED BY <1>1, <1>2

(* run-cleanup: every quote in its first day past expiry is asked about, and one
   past it was. *)
LEMMA RunCleanupInv ==
  ASSUME QInv, RunCleanup
  PROVE  QInv'
<1>1. Day * (now \div Day) <= now /\ now < Day * (now \div Day) + Day /\ now \div Day \in Nat
  BY Division DEF QInv, TypeOK
<1>2. due' \in Nat /\ now <= due' /\ due' <= now + Day
  BY <1>1 DEF QInv, TypeOK, RunCleanup
<1>3. TypeOK'
  BY <1>2, CleanupAsks DEF QInv, TypeOK, States, Ids, RunCleanup, Drop
<1>4. MintsBacked'
  BY DEF QInv, TypeOK, MintsBacked, RunCleanup, Drop
<1>5. Known'
  BY DEF QInv, TypeOK, Known, HasInvoice, Found, Absent, RunCleanup, Drop, RecheckMintQuote
<1>6. ASSUME NEW w \in Wires, pending'[w] # pending[w]
      PROVE  /\ pending'[w].kind = "check" /\ pending'[w].reply = "none"
             /\ pending'[w].quote \in told
             /\ Due(pending'[w].quote)
  <2>1. PICK q \in Quotes : RecheckMintQuote(q) /\ pending'[w] = Ask("check", q, TRUE)
    BY <1>6, CleanupAsks DEF QInv
  <2>2. QED BY <2>1 DEF Ask, Due, RecheckMintQuote, QInv, Known
<1>7. Asked'
  <2> SUFFICES ASSUME NEW w \in Wires, pending'[w] # NoRequest
               PROVE  Asked!(w)'
    BY DEF Asked
  <2>2. QED BY <1>6 DEF QInv, TypeOK, Request, Asked, RunCleanup, Drop, Absent, Found
<1>8. Counted'
  BY DEF QInv, TypeOK, Counted, RunCleanup, Drop, KeepMintQuote
<1>9. LastWord'
  BY <1>6 DEF QInv, TypeOK, Request, LastWord, Due, Final, RunCleanup, Drop
<1>10. Scheduled'
  BY <1>2 DEF Scheduled, QInv, TypeOK, RunCleanup
<1>11. Looked'
  BY <1>2 DEF QInv, TypeOK, Scheduled, Looked, HasInvoice, RunCleanup, Drop,
       KeepMintQuote, RecheckMintQuote, Found, Absent
<1>12. QED BY <1>3, <1>4, <1>5, <1>7, <1>8, <1>9, <1>10, <1>11 DEF QInv

(* Time passes up to the cleanup. *)
LEMMA TickInv ==
  ASSUME QInv, Tick
  PROVE  QInv'
<1>1. TypeOK' BY DEF QInv, TypeOK, Request, Ids, States, Replies, Tick
<1>2. MintsBacked' BY DEF QInv, TypeOK, MintsBacked, Counted, Tick
<1>3. Known' BY DEF QInv, TypeOK, Known, HasInvoice, Found, Absent, Asked, Tick
<1>4. Asked' BY DEF QInv, TypeOK, Request, Known, Asked, HasInvoice, Found, Absent, Tick
<1>5. Counted' BY DEF QInv, TypeOK, Counted, Tick
<1>6. LastWord' BY DEF QInv, TypeOK, Request, LastWord, Due, Final, Known, Asked,
       HasInvoice, Tick
<1>7. Scheduled' BY DEF QInv, TypeOK, Scheduled, Tick
<1>8. Looked' BY DEF QInv, TypeOK, Looked, HasInvoice, Scheduled, Tick
<1>9. QED BY <1>1, <1>2, <1>3, <1>4, <1>5, <1>6, <1>7, <1>8 DEF QInv

(* An invoice is made while nobody was told one. *)
LEMMA NodeCreateInv ==
  ASSUME QInv, NEW w \in Wires, NodeCreate(w)
  PROVE  QInv'
<1>1. TypeOK' BY DEF QInv, TypeOK, Request, Ids, States, Replies, NodeCreate
<1>2. MintsBacked' BY DEF QInv, TypeOK, MintsBacked, Counted, NodeCreate
<1>3. Known' BY DEF QInv, TypeOK, Known, HasInvoice, Found, Absent, Asked, NodeCreate
<1>4. Asked' BY DEF QInv, TypeOK, Request, Known, Asked, HasInvoice, Found, Absent,
       NodeCreate
<1>5. Counted' BY DEF QInv, TypeOK, Counted, NodeCreate
<1>6. LastWord' BY DEF QInv, TypeOK, Request, LastWord, Due, Final, Known, Asked,
       HasInvoice, NodeCreate
<1>7. Scheduled' BY DEF QInv, TypeOK, Scheduled, NodeCreate
<1>8. Looked' BY DEF QInv, TypeOK, Looked, HasInvoice, Scheduled, NodeCreate
<1>9. QED BY <1>1, <1>2, <1>3, <1>4, <1>5, <1>6, <1>7, <1>8 DEF QInv

(* What a node says is so. *)
LEMMA NodeReplyInv ==
  ASSUME QInv, NEW w \in Wires, NEW reply \in Replies, NodeReply(w, reply)
  PROVE  QInv'
<1>1. TypeOK' BY DEF QInv, TypeOK, Request, Ids, States, Replies, NodeReply, Says
<1>2. MintsBacked' BY DEF QInv, TypeOK, MintsBacked, Counted, NodeReply, Says
<1>3. Known' BY DEF QInv, TypeOK, Known, HasInvoice, Found, Absent, Asked, NodeReply,
       Says
<1>4. Asked' BY DEF QInv, TypeOK, Request, Known, Asked, HasInvoice, Found, Absent,
       NodeReply, Says
<1>5. Counted' BY DEF QInv, TypeOK, Counted, NodeReply, Says
<1>6. LastWord' BY DEF QInv, TypeOK, Request, LastWord, Due, Final, Known, Asked,
       HasInvoice, NodeReply, Says
<1>7. Scheduled' BY DEF QInv, TypeOK, Scheduled, NodeReply, Says
<1>8. Looked' BY DEF QInv, TypeOK, Looked, HasInvoice, Scheduled, NodeReply, Says
<1>9. QED BY <1>1, <1>2, <1>3, <1>4, <1>5, <1>6, <1>7, <1>8 DEF QInv

(* A stutter preserves the invariant. *)
LEMMA StutterQInv ==
  ASSUME QInv, UNCHANGED vars
  PROVE  QInv'
<1>1. (TypeOK /\ MintsBacked /\ Known)'
  BY DEF vars, QInv, TypeOK, MintsBacked, Known, HasInvoice, Found
<1>2. (Asked /\ Counted /\ LastWord)'
  BY DEF vars, QInv, Asked, Counted, LastWord, Due, Final
<1>3. (Scheduled /\ Looked)'
  BY DEF vars, QInv, Scheduled, Looked, HasInvoice
<1>4. QED BY <1>1, <1>2, <1>3 DEF QInv

(* QInv is inductive. *)
LEMMA StepQInv == QInv /\ [Next]_vars => QInv'
<1> SUFFICES ASSUME QInv, [Next]_vars PROVE QInv' OBVIOUS
<1>1. CASE Wallet
  BY <1>1, PostMintQuoteSelfInv, PostMintInv, PayInvoiceInv, PostMintQuoteInv, GetMintQuoteInv
     DEF Wallet
<1>2. CASE Operator
  BY <1>2, AdminQuoteDeleteInv, AdminQuoteRevokeInv, UpdateSelfInv, LnConfigureInv DEF Operator
<1>3. CASE Backend
  BY <1>3, NodeCreateInv, NodeReplyInv, LnMintCreatedInv, LnMintCheckedInv, CancelInv
     DEF Backend
<1>4. CASE RunCleanup BY <1>4, RunCleanupInv
<1>5. CASE Tick BY <1>5, TickInv
<1>6. CASE UNCHANGED vars BY <1>6, StutterQInv
<1>7. QED BY <1>1, <1>2, <1>3, <1>4, <1>5, <1>6 DEF Next

(***************************************************************************)
(* The total of what was issued.                                            *)
(***************************************************************************)

(* What is minted and not written off cannot change, nor the total, in a step
   that mints nothing and writes nothing off. *)
LEMMA WrittenKept ==
  ASSUME Written, UNCHANGED <<issued, minted, revoked>>,
         \A q \in revoked : state[q] = "dropped" => state'[q] = "dropped"
  PROVE  Written'
<1>1. Live' = Live BY DEF Live
<1>2. QED BY <1>1 DEF Written, LedgerExact, Total

(* Amounts are natural numbers. *)
LEMMA LiveAmounts == \A q \in Live : Amount[q] \in Nat
BY DEF Live

(* A quote that mints was not counted yet, and is now. *)
LEMMA PostMintWritten ==
  ASSUME QInv, Written, NEW q \in Quotes, PostMint(q)
  PROVE  Written'
<1>1. minted[q] = 0 /\ q \notin revoked
  BY DEF QInv, TypeOK, Counted, PostMint, Mintable, Written
<1>2. Live' = Live \cup {q} /\ q \notin Live
  BY <1>1 DEF Live, PostMint, QInv, TypeOK
<1>3. IsFiniteSet(Live) /\ issued = SumFunctionOnSet(Amount, Live)
  BY DEF Written, LedgerExact, Total
<1>4. Amount[q] \in Nat OBVIOUS
<1>5. SumFunctionOnSet(Amount, Live \cup {q}) = SumFunctionOnSet(Amount, Live) + Amount[q]
  BY <1>2, <1>3, <1>4, LiveAmounts, SumAdd
<1>6. IsFiniteSet(Live') BY <1>2, <1>3, FS_AddElement
<1>7. LedgerExact' BY <1>2, <1>3, <1>5 DEF PostMint, LedgerExact, Total
<1>8. (\A p \in revoked : state[p] = "dropped")' BY <1>1 DEF Written, PostMint, QInv, TypeOK
<1>9. QED BY <1>6, <1>7, <1>8 DEF Written

(* What is written off was counted: the total is enough for it. *)
LEMMA AdminQuoteRevokeWritten ==
  ASSUME QInv, Written, NEW q \in Quotes, AdminQuoteRevoke(q)
  PROVE  Written'
<1>1. q \notin revoked BY DEF AdminQuoteRevoke, Found, Absent, Written
<1>2. IsFiniteSet(Live) /\ issued = SumFunctionOnSet(Amount, Live)
  BY DEF Written, LedgerExact, Total
<1>3. Live' = Live \ {q} BY DEF Live, AdminQuoteRevoke
<1>4. IsFiniteSet(Live') BY <1>2, <1>3, FS_RemoveElement
<1>5. (\A p \in revoked : state[p] = "dropped")'
  BY DEF Written, AdminQuoteRevoke, Drop, QInv, TypeOK
<1>6. CASE state[q] = "issued"
  <2>1. q \in Live BY <1>1, <1>6 DEF Live, QInv, TypeOK, Counted
  <2>2. issued = SumFunctionOnSet(Amount, Live \ {q}) + Amount[q]
    BY <1>2, <2>1, LiveAmounts, SumRemove
  <2>3. SumFunctionOnSet(Amount, Live \ {q}) \in Nat BY <1>2, LiveAmounts, FS_RemoveElement, SumType
  <2>4. Amount[q] \in Nat /\ Amount[q] <= issued BY <2>2, <2>3
  <2>5. Min({Amount[q], issued}) = Amount[q]
    <3>1. \A y \in {Amount[q], issued} : Amount[q] <= y BY <2>4
    <3>2. Min({Amount[q], issued}) \in {Amount[q], issued}
          /\ \A y \in {Amount[q], issued} : Min({Amount[q], issued}) <= y BY <3>1 DEF Min
    <3>3. QED BY <2>2, <2>3, <2>4, <3>2
  <2>6. issued' = issued - Amount[q] BY <1>6, <2>5 DEF AdminQuoteRevoke, WriteOff
  <2>7. LedgerExact' BY <1>3, <2>2, <2>3, <2>6 DEF LedgerExact, Total
  <2>8. QED BY <1>4, <1>5, <2>7 DEF Written
<1>7. CASE state[q] # "issued"
  <2>1. q \notin Live BY <1>7 DEF Live, AdminQuoteRevoke, Found, Absent, QInv, TypeOK, Counted
  <2>2. Live' = Live BY <1>3, <2>1
  <2>3. issued \in Nat BY DEF QInv, TypeOK
  <2>4. Min({0, issued}) = 0
    <3>1. \A y \in {0, issued} : 0 <= y BY <2>3
    <3>2. Min({0, issued}) \in {0, issued} /\ \A y \in {0, issued} : Min({0, issued}) <= y
      BY <3>1 DEF Min
    <3>3. QED BY <2>3, <3>2
  <2>5. issued' = issued BY <1>7, <2>3, <2>4 DEF AdminQuoteRevoke, WriteOff
  <2>6. LedgerExact' BY <1>2, <2>2, <2>5 DEF LedgerExact, Total
  <2>7. QED BY <1>4, <1>5, <2>6 DEF Written
<1>8. QED BY <1>6, <1>7

(* No step brings a written-off quote back. *)
LEMMA StepWritten ==
  ASSUME QInv, Written, [Next]_vars
  PROVE  Written'
<1> DEFINE Stays == \A q \in revoked : state[q] = "dropped" => state'[q] = "dropped"
           Kept == UNCHANGED <<issued, minted, revoked>> /\ Stays
<1>1. Kept => Written' BY WrittenKept
<1>2. ASSUME NEW q \in Quotes, PostMintQuoteSelf(q) PROVE Kept
  BY <1>2 DEF PostMintQuoteSelf, Fresh, QInv, TypeOK
<1>3. ASSUME NEW q \in Quotes, PayInvoice(q) PROVE Kept
  BY <1>3 DEF PayInvoice
<1>4. ASSUME NEW q \in Quotes, NEW w \in Wires, PostMintQuote(q, w) \/ GetMintQuote(q, w) PROVE Kept
  BY <1>4 DEF PostMintQuote, GetMintQuote, Fresh, QInv, TypeOK
<1>5. CASE Wallet BY <1>1, <1>2, <1>3, <1>4, <1>5, PostMintWritten DEF Wallet
<1>6. ASSUME NEW q \in Quotes, AdminQuoteDelete(q) PROVE Kept
  BY <1>6 DEF AdminQuoteDelete, Drop, QInv, TypeOK
<1>7. ASSUME NEW v, UpdateSelf(v) \/ LnConfigure(v) PROVE Kept
  BY <1>7 DEF UpdateSelf, LnConfigure
<1>8. CASE Operator BY <1>1, <1>6, <1>7, <1>8, AdminQuoteRevokeWritten DEF Operator
<1>9. ASSUME NEW w \in Wires, LnMintCreated(w) PROVE Kept
  BY <1>9 DEF LnMintCreated, Drop, QInv, TypeOK
<1>10. ASSUME NEW w \in Wires, LnMintChecked(w) PROVE Kept
  BY <1>10 DEF LnMintChecked, Promotable, QInv, TypeOK
<1>11. ASSUME NEW w \in Wires, NodeCreate(w) \/ Cancel(w) PROVE Kept
  BY <1>11 DEF NodeCreate, Cancel
<1>12. ASSUME NEW w \in Wires, NEW r, NodeReply(w, r) PROVE Kept
  BY <1>12 DEF NodeReply
<1>13. CASE Backend BY <1>1, <1>9, <1>10, <1>11, <1>12, <1>13 DEF Backend
<1>14. CASE RunCleanup BY <1>1, <1>14 DEF RunCleanup, Drop, QInv, TypeOK
<1>15. CASE Tick \/ UNCHANGED vars BY <1>1, <1>15 DEF Tick, vars
<1>16. QED BY <1>5, <1>8, <1>13, <1>14, <1>15 DEF Next

(* At first nothing is minted. *)
LEMMA InitWritten == Init => Written
<1> SUFFICES ASSUME Init PROVE Written OBVIOUS
<1>1. Live = {} BY DEF Init, Live
<1>2. IsFiniteSet({}) /\ SumFunctionOnSet(Amount, {}) = 0 BY FS_EmptySet, SumEmpty
<1>3. QED BY <1>1, <1>2 DEF Init, Written, LedgerExact, Total

(* DInv is an invariant. *)
THEOREM DepositsInvariance == Spec => []DInv
<1>1. Init => DInv BY InitQInv, InitWritten DEF DInv
<1>2. DInv /\ [Next]_vars => DInv' BY StepQInv, StepWritten DEF DInv
<1>3. QED BY <1>1, <1>2, PTL DEF Spec

(* Every variable always has its type. *)
THEOREM DepositsTypeCorrect == Spec => []TypeOK
<1>1. DInv => TypeOK BY DEF DInv, QInv, QInv
<1>2. QED BY <1>1, DepositsInvariance, PTL

(* total-issued-sats is always what was minted less what was written off: the
   clamp of admin-quote-revoke never bites, and nothing is written off twice. *)
THEOREM IssuedExact == Spec => []LedgerExact
<1>1. DInv => LedgerExact BY DEF DInv, Written
<1>2. QED BY <1>1, DepositsInvariance, PTL

(* A quote mints at most once, and only for an invoice that was paid or as a
   self quote. *)
THEOREM MintedOnce == Spec => []MintsBacked
<1>1. DInv => MintsBacked BY DEF DInv, QInv, QInv
<1>2. QED BY <1>1, DepositsInvariance, PTL

(* Only the cleanup moves its timer. *)
LEMMA DueMoves ==
  ASSUME [Next]_vars, due' # due
  PROVE  RunCleanup
<1>1. ~Wallet
  BY DEF Wallet, PostMintQuoteSelf, PostMint, PayInvoice, PostMintQuote, GetMintQuote
<1>2. ~Operator BY DEF Operator, AdminQuoteDelete, AdminQuoteRevoke, UpdateSelf, LnConfigure
<1>3. ~Backend
  BY DEF Backend, NodeCreate, NodeReply, LnMintCreated, LnMintChecked, Cancel
<1>4. ~Tick /\ ~UNCHANGED vars BY DEF Tick, vars
<1>5. QED BY <1>1, <1>2, <1>3, <1>4 DEF Next

(* A deposit known to be paid is kept until it mints or is written off. *)
LEMMA PaidKeptStep ==
  ASSUME DInv, [Next]_vars, NEW q \in Quotes, state[q] = "paid", state'[q] # "paid"
  PROVE  minted'[q] > minted[q] \/ q \in revoked'
<1>1. CASE Wallet
  <2>1. ASSUME NEW p \in Quotes, PostMint(p) PROVE minted'[q] > minted[q]
    <3>1. p = q BY <2>1 DEF PostMint, DInv, QInv, TypeOK
    <3>2. minted[q] = 0 BY DEF DInv, QInv, TypeOK, Counted
    <3>3. QED BY <2>1, <3>1, <3>2 DEF PostMint, DInv, QInv, TypeOK
  <2>2. ASSUME NEW p \in Quotes, PostMintQuoteSelf(p) PROVE FALSE
    BY <2>2 DEF PostMintQuoteSelf, Fresh, DInv, QInv, TypeOK
  <2>3. ASSUME NEW p \in Quotes, NEW w \in Wires, PostMintQuote(p, w) PROVE FALSE
    BY <2>3 DEF PostMintQuote, Fresh, DInv, QInv, TypeOK
  <2>4. QED BY <1>1, <2>1, <2>2, <2>3 DEF Wallet, PayInvoice, GetMintQuote
<1>2. CASE Operator
  <2>1. ASSUME NEW p \in Quotes, AdminQuoteRevoke(p) PROVE q \in revoked'
    BY <2>1 DEF AdminQuoteRevoke, Drop, DInv, QInv, TypeOK
  <2>2. ASSUME NEW p \in Quotes, AdminQuoteDelete(p) PROVE FALSE
    BY <2>2 DEF AdminQuoteDelete, Deletable, Drop, DInv, QInv, TypeOK
  <2>3. QED BY <1>2, <2>1, <2>2 DEF Operator, UpdateSelf, LnConfigure
<1>3. CASE Backend
  <2>1. ASSUME NEW w \in Wires, LnMintCreated(w) PROVE FALSE
    BY <2>1 DEF LnMintCreated, Answered, Drop, DInv, QInv, TypeOK, MintsBacked, Known, Asked
  <2>2. ASSUME NEW w \in Wires, LnMintChecked(w) PROVE FALSE
    BY <2>2 DEF LnMintChecked, Promotable, DInv, QInv, TypeOK
  <2>3. QED BY <1>3, <2>1, <2>2 DEF Backend, NodeCreate, NodeReply, Cancel
<1>4. CASE RunCleanup BY <1>4 DEF RunCleanup, Drop, KeepMintQuote, DInv, QInv, TypeOK
<1>5. CASE Tick \/ UNCHANGED vars BY <1>5 DEF Tick, vars
<1>6. QED BY <1>1, <1>2, <1>3, <1>4, <1>5 DEF Next

(* In every environment, only minting and the operator's write-off end a deposit
   that the mint knows to be paid. *)
THEOREM PaidDepositsKept == Spec => PaidKept
<1>1. DInv /\ [Next]_vars =>
        [\A q \in Quotes : state[q] = "paid" /\ state'[q] # "paid" =>
           minted'[q] > minted[q] \/ q \in revoked']_vars
  BY PaidKeptStep
<1>2. QED BY <1>1, DepositsInvariance, PTL DEF Spec, PaidKept

(* A cleanup on time forgets no unpaid quote with an invoice that it never
   asked about. *)
LEMMA ForgottenChecked ==
  ASSUME Late = 0, DInv, [Next]_vars, NEW q \in Quotes, Forgotten(q),
         state[q] = "unpaid", HasInvoice(q)
  PROVE  checked[q] # "no"
<1>1. RunCleanup BY DueMoves DEF Forgotten
<1>2. now = due /\ expiry[q] + 2 * Day <= now
  BY <1>1 DEF RunCleanup, Drop, KeepMintQuote, Forgotten, DInv, QInv, TypeOK, Scheduled
<1>3. QED BY <1>2 DEF DInv, QInv, TypeOK, Looked

(* With a timer that fires on time, an unpaid quote with an invoice is forgotten
   only after the cleanup asked about it, or could not for want of a backend. *)
THEOREM LookedBeforeForgotten == ASSUME Late = 0 PROVE Spec => CheckedBeforeForgotten
<1>1. DInv /\ [Next]_vars =>
        [\A q \in Quotes : Forgotten(q) /\ state[q] = "unpaid" /\ HasInvoice(q) =>
           checked[q] # "no"]_vars
  BY ForgottenChecked
<1>2. QED BY <1>1, DepositsInvariance, PTL DEF Spec, CheckedBeforeForgotten

(* A paid deposit that a cleanup on time forgets was not looked at with success,
   or its invoice outlived the quote. *)
LEMMA LostExcused ==
  ASSUME Late = 0, DInv, [Next]_vars, NEW q \in Quotes, Forgotten(q), q \in paid, minted[q] = 0
  PROVE  checked[q] \in {"blind", "asked"} \/ until[q] > expiry[q]
<1>1. RunCleanup BY DueMoves DEF Forgotten
<1>2. state[q] = "unpaid"
  BY <1>1 DEF RunCleanup, Drop, KeepMintQuote, Forgotten, Found, Absent, DInv, QInv, TypeOK,
       States, Counted
<1>3. HasInvoice(q) BY <1>2 DEF DInv, QInv, Known
<1>4. checked[q] # "no" BY <1>2, <1>3, ForgottenChecked
<1>5. checked[q] = "answered" => until[q] > expiry[q]
  BY <1>2 DEF DInv, QInv, TypeOK, LastWord, Final
<1>6. QED BY <1>4, <1>5 DEF DInv, QInv, TypeOK

(* With a timer that fires on time, no deposit is lost to the cleanup but for want
   of a backend or of an answer, or to an invoice that outlives its quote. *)
THEOREM DepositsNotLost == ASSUME Late = 0 PROVE Spec => NoDepositLost
<1>1. DInv /\ [Next]_vars =>
        [\A q \in Quotes : Forgotten(q) /\ q \in paid /\ minted[q] = 0 =>
           checked[q] \in {"blind", "asked"} \/ until[q] > expiry[q]]_vars
  BY LostExcused
<1>2. QED BY <1>1, DepositsInvariance, PTL DEF Spec, NoDepositLost
=============================================================================
