------------------------------ MODULE MockLnbits ------------------------------
(***************************************************************************)
(* The stand-in LNbits of the suites (src/mock-lnbits.mjs).  A request       *)
(* arrives, and keeps the modes it arrived under; its answer is made later,  *)
(* from what was paid by then, and the process handles one thing at a time   *)
(* between two awaits.                                                       *)
(***************************************************************************)
EXTENDS Ledger

FeeMsat == 2000   \* FEE_MSAT: the routing fee every settled pay reports

NewMock == [modes |-> [pay |-> "ok", invoice |-> "ok", decode |-> "ok",
                       pay_delay |-> FALSE, status_delay |-> FALSE],
            invoices |-> <<>>,   \* issued by it: hash -> msat, and if paid
            payments |-> <<>>,   \* made by it: hash -> msat
            payCount |-> 0]      \* pay requests that arrived

Pays(c)   == c.kind = "melt-pay"
Status(c) == c.kind \in {"mint-quote-check", "melt-check", "melt-abort"}

\* A call arrives: pays are counted, and the modes are read.  slow: its
\* answer is delayed.
Arrived(k, c) ==
  [mock |-> IF Pays(c) THEN [k EXCEPT !.payCount = @ + 1] ELSE k,
   mode |-> IF Pays(c) THEN k.modes.pay
            ELSE IF c.kind = "mint-quote-create" THEN k.modes.invoice ELSE k.modes.decode,
   slow |-> (Pays(c) /\ k.modes.pay_delay) \/ (Status(c) /\ k.modes.status_delay)]

Answer(k, a) == [mock |-> k, answer |-> a]

\* pay, after its delay: an invoice is paid once
Pay(k, c, mode) ==
  LET refused(status, hash) ==
        Answer(k, [status |-> status, hash |-> hash, preimage |-> FALSE, fee |-> <<>>])
  IN IF c.invoice.hash \in DOMAIN k.payments THEN refused(400, FALSE)
     ELSE IF mode = "500" THEN refused(500, FALSE)
     ELSE IF mode = "400" THEN refused(400, FALSE)
     ELSE IF mode = "400-hash" THEN refused(400, TRUE)
     ELSE Answer([k EXCEPT !.payments = Put(@, c.invoice.hash, c.invoice.msat)],
                 [status |-> 201, hash |-> TRUE, preimage |-> mode # "inflight",
                  fee |-> <<IF mode = "inflight" THEN 0 ELSE -FeeMsat>>])

\* GET /api/v1/payments/{hash}: the payer's view first, then the payee's
PaymentStatus(k, c) ==
  LET h == c.invoice.hash IN
  Answer(k,
    IF h \in DOMAIN k.payments
      THEN [status |-> 200, paid |-> TRUE, msat |-> -k.payments[h], fee |-> <<-FeeMsat>>]
    ELSE IF h \in DOMAIN k.invoices
      THEN [status |-> 200, paid |-> k.invoices[h].paid, msat |-> k.invoices[h].msat, fee |-> <<0>>]
    ELSE [status |-> 404])

\* POST /api/v1/payments {out: false}
CreateInvoice(k, c, mode) ==
  IF mode = "500" THEN Answer(k, [status |-> 500])
  ELSE LET msat == c.amount * 1000 IN
       Answer([k EXCEPT !.invoices = Put(@, c.quote, [msat |-> msat, paid |-> FALSE])],
              [status |-> 201, invoice |-> Invoice("bolt11", c.quote, msat)])

\* POST /api/v1/payments/decode
Decode(k, c, mode) ==
  Answer(k, IF c.invoice.text # "bolt11" THEN [status |-> 400]
            ELSE [status |-> 200, msat |-> c.invoice.msat, hash |-> mode # "nohash"])

MakeAnswer(k, c, mode) ==
  CASE c.kind = "melt-pay"          -> Pay(k, c, mode)
    [] Status(c)                    -> PaymentStatus(k, c)
    [] c.kind = "mint-quote-create" -> CreateInvoice(k, c, mode)
    [] c.kind = "melt-quote-create" -> Decode(k, c, mode)

\* the routes of the tests: how it answers from now on, and that a payer
\* paid an invoice of its own
SetModes(k, set) ==
  [k EXCEPT !.modes = [f \in DOMAIN @ |-> IF f \in DOMAIN set THEN set[f] ELSE @[f]]]
MarkPaid(k, hash) == [k EXCEPT !.invoices[hash].paid = TRUE]
=============================================================================
