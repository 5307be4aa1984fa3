------------------------------ MODULE MintAndMock ------------------------------
(***************************************************************************)
(* The mint and the mock LNbits together, with any honest client: wallets    *)
(* and an operator who ask for anything, at any time.  What the mint asks of *)
(* Lightning arrives at the mock, is answered, and reaches the mint whenever  *)
(* it may, in any order, or is lost.  The free clients of Suites are such      *)
(* clients.                                                                   *)
(*                                                                         *)
(* Honest is what the mint rests on and cannot see to itself: quote ids are   *)
(* drawn at random, an invoice is what it is, the reserve covers the routing  *)
(* fee, and nobody forces an abort on a payment that goes through.            *)
(***************************************************************************)
EXTENDS OpenMint, MockLnbits

VARIABLES
  mock,     \* the mint's backend
  calls     \* Lightning requests on their way, by number

DepositCalls == {"mint-quote-create", "mint-quote-check"}
MeltCalls == {"melt-quote-create", "melt-pay", "melt-check", "melt-abort"}

\* A call that goes out; asker: who waits for its answer.
NewCall(call, asker) ==
  [call |-> call, asker |-> asker, stage |-> "sent", mode |-> Blank, slow |-> FALSE,
   answer |-> [status |-> 0]]

\* what deposits are named, and so the invoices issued for them
DepositNames(m, k, cs) ==
  DOMAIN m.mints \cup DOMAIN k.invoices
  \cup {cs[i].call.quote : i \in {j \in DOMAIN cs : cs[j].call.kind \in DepositCalls}}
\* the invoices of others that the mint is asked to pay
Wanted(m, cs) ==
  {m.melts[q].request : q \in {p \in DOMAIN m.melts : m.melts[p].method = "bolt11"}}
  \cup {cs[i].call.invoice : i \in {j \in DOMAIN cs :
          cs[j].call.kind \in MeltCalls /\ cs[j].call.invoice.text = "bolt11"}}

-----------------------------------------------------------------------------
(* Honest clients. *)

\* The smallest reserve covers the routing fee.
Covers(bps, floor) == bps \in Nat /\ floor \in Nat /\ FeeMsat <= 1000 * floor

\* an invoice that somebody else issued, for one amount
Strangers(m, k, cs, invoice) ==
  /\ invoice.msat \in Nat /\ invoice.hash \notin DepositNames(m, k, cs)
  /\ \A w \in Wanted(m, cs) : w.hash = invoice.hash => w.msat = invoice.msat
  /\ invoice.hash \in DOMAIN k.payments => k.payments[invoice.hash] = invoice.msat

\* The payment of this melt did not go through, and is not on its way.
PayFailed(m, k, cs, q) ==
  /\ m.melts[q].request.hash \notin DOMAIN k.payments
  /\ \A i \in DOMAIN cs :
       cs[i].call.kind = "melt-pay" /\ cs[i].call.quote = q /\ cs[i].call.att = m.inflight[q].started
         => cs[i].stage = "answered"

Honest(m, k, cs, r) ==
  /\ r.op = "mint-quote" =>
       r.quote \notin DepositNames(m, k, cs) \cup {w.hash : w \in Wanted(m, cs)} \cup DOMAIN k.payments
  /\ r.op = "melt-quote" =>
       /\ r.quote \notin {cs[i].call.quote : i \in {j \in DOMAIN cs : cs[j].call.kind \in MeltCalls}}
       /\ (r.method # "self" /\ r.invoice.text = "bolt11") => Strangers(m, k, cs, r.invoice)
  /\ r.op = "set-settings" => LET m2 == UpdateSettings(m, r).mint IN Covers(m2.bps, m2.floor)
  /\ r.op = "abort" /\ r.force /\ r.quote \in DOMAIN m.inflight => PayFailed(m, k, cs, r.quote)

-----------------------------------------------------------------------------
(* Steps. *)

\* The call of an answer that was just made goes out.
Sent(call) ==
  IF call.kind = "none" THEN UNCHANGED calls
  ELSE \E i, asker : i \notin DOMAIN calls /\ calls' = Put(calls, i, NewCall(call, asker))

ClientAsks ==
  \E r : /\ Proper(mint, r) /\ Honest(mint, mock, calls, r)
         /\ LET s == Serve(mint, r) IN mint' = s.mint /\ Sent(s.call)
         /\ UNCHANGED mock

\* A call reaches the mock.
Arriving(i) ==
  /\ calls[i].stage = "sent"
  /\ LET a == Arrived(mock, calls[i].call) IN
     /\ mock' = a.mock
     /\ calls' = [calls EXCEPT ![i].stage = "arrived", ![i].mode = a.mode, ![i].slow = a.slow]

\* The mock makes its answer.
Answering(i) ==
  /\ calls[i].stage = "arrived"
  /\ LET a == MakeAnswer(mock, calls[i].call, calls[i].mode) IN
     /\ mock' = a.mock
     /\ calls' = [calls EXCEPT ![i].stage = "answered", ![i].answer = a.answer]

\* An answer reaches the mint.
Hearing(i) ==
  /\ calls[i].stage = "answered" /\ Heard(mint, calls[i].call)
  /\ mint' = Answered(mint, calls[i].call, calls[i].answer).mint
  /\ calls' = Del(calls, i)

Lightning1 == \E i \in DOMAIN calls : \/ Arriving(i) /\ UNCHANGED mint
                                      \/ Answering(i) /\ UNCHANGED mint
                                      \/ Hearing(i) /\ UNCHANGED mock

\* Calls are lost, when the mock is killed.
Lost == (\E I \in SUBSET DOMAIN calls : calls' = [i \in I |-> calls[i]]) /\ UNCHANGED <<mint, mock>>

\* The mock answers differently from now on; a payer pays.
Outside ==
  /\ \/ \E set : mock' = SetModes(mock, set)
     \/ \E h \in DOMAIN mock.invoices : mock' = MarkPaid(mock, h)
  /\ UNCHANGED <<mint, calls>>

BothInit ==
  /\ \E bps, floor, self, ln : \E fee \in Nat :
       Covers(bps, floor) /\ mint = [NewMint(bps, floor, fee) EXCEPT !.self = self, !.ln = ln]
  /\ mock = NewMock /\ calls = <<>>

BothNext == ClientAsks \/ Lightning1 \/ Lost \/ Outside \/ (Tick /\ UNCHANGED <<mock, calls>>)

bothVars == <<mint, mock, calls>>
BothSpec == BothInit /\ [][BothNext]_bothVars

-----------------------------------------------------------------------------
(* What the mint has and what it owes, in msat. *)

\* what came in over Lightning
Came(invoices) == SumFunction([h \in DOMAIN invoices |-> IF invoices[h].paid THEN invoices[h].msat ELSE 0])
\* what payments cost
Prices(payments) == [h \in DOMAIN payments |-> payments[h] + FeeMsat]
Cost(payments, hs) == SumFunctionOnSet(Prices(payments), hs \cap DOMAIN payments)

\* in sats: what came and left by the self method
SelfIn(mints) == SumFunction([q \in DOMAIN mints |-> IF mints[q].self THEN mints[q].amount ELSE 0])
SelfSpent(mq) == mq.method = "self" /\ mq.state = "paid"
SelfLeft(melts) == SumFunction([q \in DOMAIN melts |-> IF SelfSpent(melts[q]) THEN melts[q].amount ELSE 0])

\* in sats: deposits paid for and not minted yet, and inputs of melts that
\* are not known to have paid
Awaited(q, mq, invoices) ==
  \/ mq.state = "paid"
  \/ mq.state = "unpaid" /\ q \in DOMAIN invoices /\ invoices[q].paid
ToMint(mints, invoices) ==
  SumFunction([q \in DOMAIN mints |-> IF Awaited(q, mints[q], invoices) THEN mints[q].amount ELSE 0])
Flying(inflight) == SumFunction([q \in DOMAIN inflight |-> inflight[q].total])

\* payments of melts that the mint knows settled, and those it does not
Noticed(melts) ==
  {melts[q].request.hash : q \in {p \in DOMAIN melts : melts[p].method = "bolt11" /\ melts[p].state = "paid"}}
Unnoticed ==
  {h \in DOMAIN mock.payments \ Noticed(mint.melts) :
     \E q \in DOMAIN mint.inflight : mint.melts[q].request.hash = h}

Backing == Came(mock.invoices) - Cost(mock.payments, DOMAIN mock.payments)
           + 1000 * (SelfIn(mint.mints) - SelfLeft(mint.melts))
\* the tokens that can be spent and are not written off, the deposits, and
\* the inputs
Owed == 1000 * (ValueOf(Unspent) - mint.revoked + ToMint(mint.mints, mock.invoices) + Flying(mint.inflight))
        - Cost(mock.payments, Unnoticed)

\* The mint never owes more than it has, whatever wallets ask and however
\* Lightning answers, if the routing fee is within the reserve and no abort is
\* forced on a payment that goes through.
Solvent == Owed <= Backing
=============================================================================
