---------------------------- MODULE MintAndMockInv ----------------------------
(***************************************************************************)
(* The inductive invariant that the solvency of the mint rests on: how its   *)
(* quotes agree with the mock's invoices and payments, what a call on its way *)
(* may still do to it, and which melt holds the inputs for each payment.  The *)
(* parts are operators of a mint m, a mock k and calls cs.                    *)
(***************************************************************************)
EXTENDS MintAndMock

\* the mock's fields, and numbers where it keeps numbers
MockFits(k) ==
  /\ DOMAIN k = DOMAIN NewMock
  /\ IsFiniteSet(DOMAIN k.invoices) /\ IsFiniteSet(DOMAIN k.payments)
  /\ \A h \in DOMAIN k.invoices :
       /\ DOMAIN k.invoices[h] = {"msat", "paid"}
       /\ k.invoices[h].msat \in Nat /\ k.invoices[h].paid \in BOOLEAN
  /\ \A h \in DOMAIN k.payments : k.payments[h] \in Nat

\* A deposit by Lightning is worth its invoice, and one by the self method has
\* none and never waits to be paid.
DepositFits(q, mq, invoices) ==
  /\ mq.self \in BOOLEAN /\ mq.state \in {"unpaid", "paid", "issued"}
  /\ mq.self => mq.state # "unpaid"
  /\ mq.invoice = NoInvoice \/ mq.invoice.hash = q
  /\ q \in DOMAIN invoices => ~mq.self /\ invoices[q].msat = 1000 * mq.amount
DepositsAgree(mints, invoices) == \A q \in DOMAIN mints : DepositFits(q, mints[q], invoices)

\* A melt by Lightning asks for its invoice and a reserve that covers the
\* fee, and is settled only if its invoice was paid.
MeltFits(mq, payments) ==
  /\ mq.amount \in Nat /\ mq.reserve \in Nat /\ mq.method \in {"self", "bolt11"}
  /\ mq.method = "bolt11" =>
       /\ mq.request.text = "bolt11" /\ mq.request.msat <= 1000 * mq.amount
       /\ FeeMsat <= 1000 * mq.reserve
       /\ mq.state = "paid" => mq.request.hash \in DOMAIN payments
\* The inputs of one in flight cover amount, reserve and excess.
FlightPays(e, mq, attempts) ==
  /\ mq.method = "bolt11" /\ e.started \in 1..attempts
  /\ e.excess \in Nat /\ e.total \in Nat /\ e.excess + mq.amount + mq.reserve <= e.total
MeltsAgree(m, payments) ==
  /\ IsFiniteSet(DOMAIN m.melts) /\ m.attempts \in Nat /\ Covers(m.bps, m.floor)
  /\ \A q \in DOMAIN m.melts : MeltFits(m.melts[q], payments)
  /\ \A q \in DOMAIN m.inflight : FlightPays(m.inflight[q], m.melts[q], m.attempts)

\* Deposits and invoices of others share no name, and an invoice is paid at
\* its worth.
Foreign(names, wanted, payments) ==
  /\ \A w \in wanted : w.msat \in Nat /\ w.hash \notin names
  /\ \A v, w \in wanted : v.hash = w.hash => v.msat = w.msat
  /\ \A h \in DOMAIN payments : h \notin names /\ \A w \in wanted : w.hash = h => payments[h] = w.msat

-----------------------------------------------------------------------------
(* Calls. *)

Done1(x) == x.stage = "answered"
Good(x) == Done1(x) /\ x.answer.status \in 200..299
TellsPaid(x) == Done1(x) /\ x.answer.status = 200 /\ x.answer.paid
MadeBy(c, payments) == c.invoice.hash \in DOMAIN payments

CreateFits(m, k, x) ==
  LET c == x.call IN
  /\ c.amount \in Nat
  /\ c.quote \in DOMAIN m.mints => ~m.mints[c.quote].self /\ m.mints[c.quote].amount = c.amount
  /\ Done1(x) \/ c.quote \notin DOMAIN k.invoices
  /\ Good(x) => x.answer.invoice.hash = c.quote
CheckFits(m, k, x) ==
  LET c == x.call IN
  /\ c.invoice.hash = c.quote
  /\ TellsPaid(x) => c.quote \in DOMAIN k.invoices /\ k.invoices[c.quote].paid
DecodeFits(m, x) ==
  LET c == x.call IN
  /\ c.quote \notin DOMAIN m.melts
  /\ Good(x) => c.invoice.text = "bolt11" /\ x.answer.msat = c.invoice.msat

\* a call about a melt that was asked for
Concerns(m, c) ==
  /\ c.att \in 1..m.attempts /\ c.invoice.text = "bolt11"
  /\ c.quote \in DOMAIN m.melts => m.melts[c.quote].method = "bolt11" /\ m.melts[c.quote].request = c.invoice
\* A payment that is not made yet is one that the melt is still in flight for.
PayFits(m, k, x) ==
  LET c == x.call IN
  /\ Concerns(m, c)
  /\ \/ Done1(x) \/ MadeBy(c, k.payments)
     \/ c.quote \in DOMAIN m.inflight /\ m.inflight[c.quote].started = c.att
  /\ Good(x) /\ x.answer.preimage => MadeBy(c, k.payments) /\ x.answer.fee = <<-FeeMsat>>
StatusFits(m, k, x) ==
  LET c == x.call IN
  /\ Concerns(m, c)
  /\ TellsPaid(x) => MadeBy(c, k.payments) /\ x.answer.fee = <<-FeeMsat>>

Kinds == {"mint-quote-create", "mint-quote-check", "melt-quote-create", "melt-pay", "melt-check", "melt-abort"}
CallFits(m, k, x) ==
  LET kind == x.call.kind IN
  /\ kind \in Kinds
  /\ DOMAIN x = {"call", "asker", "stage", "mode", "slow", "answer"}
  /\ kind = "mint-quote-create" => CreateFits(m, k, x)
  /\ kind = "mint-quote-check" => CheckFits(m, k, x)
  /\ kind = "melt-quote-create" => DecodeFits(m, x)
  /\ kind = "melt-pay" => PayFits(m, k, x)
  /\ kind \in {"melt-check", "melt-abort"} => StatusFits(m, k, x)

\* calls about the same attempt
SameTry(c, d) == c.quote = d.quote /\ c.att = d.att
Forces(x) == x.call.kind = "melt-abort" /\ x.call.force
\* Two calls: each deposit is asked for once, each quote is decoded once and
\* before anything else of it, each attempt is paid once, and no abort is forced
\* while a payment is on its way.
PairFits(x, y) ==
  LET c == x.call  d == y.call IN
  /\ c.kind = "mint-quote-create" /\ d.kind = "mint-quote-create" => c.quote # d.quote
  /\ c.kind = "melt-quote-create" /\ d.kind \in MeltCalls => c.quote # d.quote
  /\ c.kind = "melt-pay" /\ d.kind = "melt-pay" => ~SameTry(c, d)
  /\ Forces(x) /\ d.kind = "melt-pay" /\ SameTry(c, d) => Done1(y)
CallsFit(m, k, cs) ==
  /\ \A i \in DOMAIN cs : CallFits(m, k, cs[i])
  /\ \A i, j \in DOMAIN cs : i # j => PairFits(cs[i], cs[j])

\* a call that may yet roll its melt back
Doomed(x) ==
  \/ x.call.kind = "melt-pay" /\ (Done1(x) => x.answer.status = 400 /\ ~x.answer.hash)
  \/ Forces(x)
Safe(m, cs, q) ==
  \A i \in DOMAIN cs :
    ~(Doomed(cs[i]) /\ cs[i].call.quote = q /\ cs[i].call.att = m.inflight[q].started)

\* For each payment, some melt was settled, or holds its inputs and is not
\* going to give them back.
HeldFor(m, cs, h) ==
  \/ h \in Noticed(m.melts)
  \/ \E q \in DOMAIN m.inflight : m.melts[q].request.hash = h /\ Safe(m, cs, q)
PaymentsHeld(m, k, cs) == \A h \in DOMAIN k.payments : HeldFor(m, cs, h)

-----------------------------------------------------------------------------
(* The balance. *)

\* in msat: what was put into circulation, is owed besides or left, and what
\* came back or in
Out(m, k) ==
  1000 * (m.issued + SumFunction(ChangeWorth(m.change)) + ToMint(m.mints, k.invoices)
          + Flying(m.inflight) + SelfLeft(m.melts)) + Cost(k.payments, Noticed(m.melts))
In(m, k) == Came(k.invoices) + 1000 * (m.redeemed + SelfIn(m.mints))
Balance(m, k) == Out(m, k) <= In(m, k)

Fits(m, k, cs) ==
  /\ MockFits(k)
  /\ DepositsAgree(m.mints, k.invoices) /\ MeltsAgree(m, k.payments)
  /\ Foreign(DepositNames(m, k, cs), Wanted(m, cs), k.payments)
  /\ CallsFit(m, k, cs) /\ PaymentsHeld(m, k, cs)
  /\ Balance(m, k)

\* the invariant
SolventInv == Kept(mint) /\ Fits(mint, mock, calls)
=============================================================================
