-------------------------------- MODULE Ledger --------------------------------
(***************************************************************************)
(* The mint's ledger with amounts (src/desk/app/ecash.hoon, with the rules  *)
(* of src/desk/lib/ecash-rules.hoon): what every wallet route, every answer *)
(* of an LNbits backend and the operator's routes do to the mint's state,   *)
(* and what they answer.                                                    *)
(*                                                                         *)
(* A Gall agent handles one event at a time, so a handler is an operator    *)
(* from the mint's state and a request to the state after, the answer, and  *)
(* the Lightning request that leaves.  A proof is named by the blinded      *)
(* output it was signed for.  Attempts are numbered, and no quote expires    *)
(* (see Melt and Deposits for what time does): only locktimes read the clock. *)
(***************************************************************************)
EXTENDS P2pk, SequencesExt

CONSTANT TopBit   \* denominations are 2^0 to 2^TopBit (default-denoms: 20)

ASSUME LedgerAssumption == TopBit \in Nat

MaxBatch == 100   \* max-batch: most inputs, and most outputs, of a request

-----------------------------------------------------------------------------
(* Rules: amounts and fees. *)

Total(amounts) == SumFunction(amounts)

\* amount-total, of proofs or outputs
AmountTotal(msgs) == Total([i \in DOMAIN msgs |-> msgs[i].amount])

\* x / n rounded up, as in (div (add x (dec n)) n)
CeilDiv(x, n) == (x + n - 1) \div n

\* compute-fee: thousandths of a sat for each proof, rounded up once
ComputeFee(m, proofs) ==
  CeilDiv(Total([i \in DOMAIN proofs |->
            IF proofs[i].id \in DOMAIN m.keysets THEN m.keysets[proofs[i].id].fee ELSE 0]), 1000)

MeltFeeReserve(amount, bps, floor) == Max({floor, (amount * bps) \div 10000})

\* routing-fee-sats of an LNbits answer: msat, negative for an outgoing
\* payment, rounded up; one that cannot be read counts as the whole reserve
RoutingFeeSats(fee, cap) ==
  IF fee = <<>> THEN cap
  ELSE Min({CeilDiv(IF fee[1] < 0 THEN -fee[1] ELSE fee[1], 1000), cap})

\* Mutant: what the inputs paid beyond the reserve is kept.
MeltChangeNoExcess(reserve, fee, excess) == reserve - Min({fee, reserve})

MeltChange(reserve, fee, excess) == (reserve - Min({fee, reserve})) + excess

\* The first bits of a number as powers of two, the largest first
Bits(n, count) ==
  LET acc[k \in 0..count] ==
        IF k = 0 THEN <<>>
        ELSE IF (n \div 2^(k - 1)) % 2 = 1 THEN <<2^(k - 1)>> \o acc[k - 1] ELSE acc[k - 1]
  IN acc[count]

Width == 28   \* bound: amounts are below 2^Width

\* split-amount
SplitAmount(n) == Bits(n, Width)

\* and with a largest denomination: 2^top as often as it goes, then the bits
Split(n, top) == [i \in 1..(n \div 2^top) |-> 2^top] \o Bits(n, top)

\* max-amount: what a keyset can always pay in one request
MaxAmount(top) == IF MaxBatch <= top THEN 0 ELSE (MaxBatch - top) * 2^top

-----------------------------------------------------------------------------
(* The mint's state. *)

Keyset(fee, active) == [fee |-> fee, active |-> active, top |-> TopBit]

\* init, and a first keyset.  A mint that has run already has settings of its own.
NewMint(bps, floor, fee) ==
  [self    |-> FALSE,               \* self-method-enabled
   ln      |-> "none",              \* ln-config
   bps     |-> bps,                 \* fee-reserve-pct
   floor   |-> floor,               \* fee-reserve-min
   keysets |-> [k \in {"k0"} |-> Keyset(fee, TRUE)],
   active  |-> "k0",                \* active-keyset
   mints   |-> <<>>,                \* mint-quotes, by id
   melts   |-> <<>>,                \* melt-quotes, by id
   inflight |-> <<>>,               \* melt-inflight, by quote
   change  |-> <<>>,                \* melt-change, by quote
   spent   |-> {},                  \* spent, and spent-ys
   signed  |-> <<>>,                \* restore: output -> amount and keyset
   given   |-> {},                  \* history: every signature made
   issued  |-> 0,                   \* total-issued-sats
   redeemed |-> 0,                  \* total-redeemed-sats
   attempts |-> 0,                  \* melts begun: now.bowl of the newest
   now     |-> 1,                   \* now.bowl, as locktimes read it
   revoked |-> 0,                   \* history: what revoking took off issued
   clamped |-> FALSE]               \* history: a total was clamped at zero

\* f with k -> v added or replaced
Put(f, k, v) == [x \in DOMAIN f \cup {k} |-> IF x = k THEN v ELSE f[x]]
Del(f, k) == [x \in DOMAIN f \ {k} |-> f[x]]

\* an invoice: how its text reads, a name for its payment hash, and its msat
Invoice(text, hash, msat) == [text |-> text, hash |-> hash, msat |-> msat]
NoInvoice == Invoice(Blank, Blank, 0)
SelfMelt  == Invoice("self-melt", Blank, 0)

MintQuote(amount, self, state, invoice) ==
  [amount |-> amount, self |-> self, state |-> state, invoice |-> invoice]
MeltQuote(amount, reserve, method, request, state) ==
  [amount |-> amount, reserve |-> reserve, method |-> method, request |-> request, state |-> state]

-----------------------------------------------------------------------------
(* Answers.  A handler answers with a record of the fields the program's     *)
(* clients read.                                                             *)

NoCall == [kind |-> "none"]
Later  == [status |-> 0]   \* the answer waits for Lightning

Reply(m, answer) == [mint |-> m, answer |-> answer, call |-> NoCall]
Refuse(m, status, detail) == Reply(m, [status |-> status, detail |-> detail])
Ask(m, answer, call) == [mint |-> m, answer |-> answer, call |-> call]

\* The checks of a handler, in its order: the first that fails answers.
When(failed, detail) == IF failed THEN detail ELSE Pass
First(details) ==
  LET some == {i \in DOMAIN details : details[i] # Pass}
  IN IF some = {} THEN Pass ELSE details[Min(some)]

\* what the mint signed, as a wallet reads it
Signatures(outs) == [i \in DOMAIN outs |-> [amount |-> outs[i].amount, id |-> outs[i].id, b |-> outs[i].b]]

MintQuoteJson(q, mq) ==
  [status |-> 200, quote |-> q, amount |-> mq.amount, state |-> mq.state, request |-> mq.invoice]
\* a failed pay reads UNPAID: the quote may be tried again
MeltQuoteJson(q, mq, change) ==
  [status |-> 200, quote |-> q, amount |-> mq.amount, reserve |-> mq.reserve, change |-> change,
   changed |-> AmountTotal(change), request |-> mq.request,
   state |-> IF mq.state = "failed" THEN "unpaid" ELSE mq.state]

-----------------------------------------------------------------------------
(* Outputs and proofs. *)

\* output-error: the first output that cannot be signed, and why
OutputError(m, outs, blank) ==
  First([i \in DOMAIN outs |->
    LET o == outs[i] IN First(<<
      o.bad,
      When(\E j \in 1..(i - 1) : outs[j].x = o.x, "duplicate-output"),
      When(o.b \in DOMAIN m.signed, "output-already-signed"),
      When(~blank /\ o.id \notin DOMAIN m.keysets, "unknown-keyset"),
      When(~blank /\ o.id \in DOMAIN m.keysets /\ ~m.keysets[o.id].active, "inactive-keyset"),
      When(~blank /\ o.amount \notin {2^k : k \in 0..TopBit}, "unknown-denomination")>>)])

\* verify-proofs: first everything cheap of every proof, then its signature and
\* its spending condition
VerifyProofs(m, proofs) ==
  First(<<
    First([i \in DOMAIN proofs |->
      LET p == proofs[i] IN First(<<
        When(p.long, "secret-too-long"),
        When(p.b \in m.spent \/ \E j \in 1..(i - 1) : proofs[j].b = p.b, "token-already-spent"),
        When(p.id \notin DOMAIN m.keysets, "unknown-keyset"),
        When(p.amount \notin {2^k : k \in 0..TopBit}, "unknown-denomination")>>)]),
    First([i \in DOMAIN proofs |-> First(<<
      When([amount |-> proofs[i].amount, id |-> proofs[i].id, b |-> proofs[i].b] \notin m.given,
           "invalid-token-signature"),
      Condition(proofs[i].lock, proofs[i].sigs, m.now)>>)])>>)

Secrets(proofs) == {proofs[i].b : i \in DOMAIN proofs}

\* sign-outputs and restore-entries: what was signed can be restored.  Of an
\* output signed twice the newer signature is kept.
Sign(signed, sigs) ==
  [b \in DOMAIN signed \cup Secrets(sigs) |->
    IF b \notin Secrets(sigs) THEN signed[b]
    ELSE LET i == CHOOSE i \in DOMAIN sigs : sigs[i].b = b
         IN [amount |-> sigs[i].amount, id |-> sigs[i].id]]

\* the mint with these signatures made
Signed(m, sigs) == [m EXCEPT !.signed = Sign(@, sigs), !.given = @ \cup Range(sigs)]

\* sign-change-outputs: as many of the parts of the change as there are
\* blanks, under the active keyset.  Only the parts beyond the largest
\* denomination, which come first, cannot be signed.
SignChange(m, blanks, over) ==
  LET parts == SplitAmount(over)
      n == Min({Len(parts), Len(blanks)})
      big == Cardinality({i \in 1..n : parts[i] > 2^m.keysets[m.active].top})
  IN [i \in 1..(n - big) |-> [amount |-> parts[big + i], id |-> m.active, b |-> blanks[big + i].b]]

-----------------------------------------------------------------------------
(* NUT-03: swaps. *)

PostSwap(m, r) ==
  LET fee == ComputeFee(m, r.inputs)
      claimed == AmountTotal(r.inputs)
      why == First(<<
        When(Len(r.inputs) > MaxBatch \/ Len(r.outputs) > MaxBatch, "batch-too-large"),
        When(fee > claimed, "fee-exceeds-inputs"),
        When(claimed - fee # AmountTotal(r.outputs), "amounts-do-not-balance"),
        OutputError(m, r.outputs, FALSE),
        VerifyProofs(m, r.inputs)>>)
  IN IF why # Pass THEN Refuse(m, 400, why)
     ELSE Reply([Signed(m, Signatures(r.outputs)) EXCEPT
                          !.spent = @ \cup Secrets(r.inputs),
                          !.issued = @ + AmountTotal(r.outputs),
                          !.redeemed = @ + claimed],
                [status |-> 200, signatures |-> Signatures(r.outputs),
                 amount |-> AmountTotal(r.outputs)])

-----------------------------------------------------------------------------
(* NUT-04: deposits. *)

PostMintQuote(m, r) ==
  LET top == MaxAmount(m.keysets[m.active].top)
      why == First(<<
        When(r.method = "self" /\ ~m.self, "self-method-disabled"),
        When(r.amount = 0, "invalid-amount"),
        When(r.amount > top, "amount-too-large"),
        When(r.method = "bolt11" /\ m.ln = "none", "no-lightning-backend-configured")>>)
      mq == MintQuote(r.amount, r.method = "self", IF r.method = "self" THEN "paid" ELSE "unpaid", NoInvoice)
      m2 == [m EXCEPT !.mints = Put(@, r.quote, mq)]
  IN IF why # Pass THEN Refuse(m, 400, why)
     ELSE IF r.method = "self" THEN Reply(m2, MintQuoteJson(r.quote, mq))
     ELSE Ask(m2, Later, [kind |-> "mint-quote-create", quote |-> r.quote, amount |-> r.amount])

\* get-mint-quote: answers at once, and asks Lightning behind the answer
GetMintQuote(m, r) ==
  IF r.quote \notin DOMAIN m.mints THEN Refuse(m, 404, "quote-not-found")
  ELSE LET mq == m.mints[r.quote] IN
    Ask(m, MintQuoteJson(r.quote, mq),
        IF mq.state = "unpaid" /\ mq.invoice # NoInvoice /\ m.ln # "none"
        THEN [kind |-> "mint-quote-check", quote |-> r.quote, invoice |-> mq.invoice] ELSE NoCall)

PostMint(m, r) ==
  LET mq == m.mints[r.quote]
      why == First(<<
        When(r.method = "self" /\ ~m.self, "self-method-disabled"),
        When(mq.self /\ ~m.self, "self-method-disabled"),
        When(mq.state # "paid", "quote-not-paid"),
        When(Len(r.outputs) > MaxBatch, "batch-too-large"),
        When(AmountTotal(r.outputs) # mq.amount, "output-amount-mismatch"),
        OutputError(m, r.outputs, FALSE)>>)
  IN IF r.quote \notin DOMAIN m.mints THEN Refuse(m, 404, "quote-not-found")
     ELSE IF why # Pass THEN Refuse(m, 400, why)
     ELSE Reply([Signed(m, Signatures(r.outputs)) EXCEPT
                          !.mints[r.quote].state = "issued",
                          !.issued = @ + mq.amount],
                [status |-> 200, signatures |-> Signatures(r.outputs), amount |-> mq.amount])

\* ln-mint-created: no invoice, no quote
MintCreated(m, c, a) ==
  IF c.quote \notin DOMAIN m.mints THEN Refuse(m, 500, "quote-lost")
  ELSE IF a.status \notin 200..299
    THEN Refuse([m EXCEPT !.mints = Del(@, c.quote)], 502, "lightning-invoice-creation-failed")
  ELSE LET mq == [m.mints[c.quote] EXCEPT !.invoice = a.invoice]
       IN Reply([m EXCEPT !.mints = Put(@, c.quote, mq)], MintQuoteJson(c.quote, mq))

\* ln-mint-checked: promotes only a quote that is still unpaid (invoice-paid)
MintChecked(m, c, a) ==
  IF c.quote \notin DOMAIN m.mints THEN Refuse(m, 404, "quote-not-found")
  ELSE LET mq == m.mints[c.quote]
           paid == /\ mq.state = "unpaid" /\ m.ln = "lnbits" /\ a.status = 200 /\ a.paid
                   /\ a.msat > 0 => a.msat \div 1000 = 0 \/ a.msat \div 1000 >= mq.amount
           new == IF paid THEN [mq EXCEPT !.state = "paid"] ELSE mq
       IN Reply([m EXCEPT !.mints = Put(@, c.quote, new)], MintQuoteJson(c.quote, new))

-----------------------------------------------------------------------------
(* NUT-05: melts. *)

PostMeltQuote(m, r) ==
  LET why == First(<<
        When(r.method = "self" /\ ~m.self, "self-method-disabled"),
        When(r.method = "self" /\ r.amount = 0, "missing-amount"),
        When(r.method = "bolt11" /\ m.ln = "none", "no-lightning-backend-configured"),
        When(r.method = "bolt11" /\ r.invoice.text = Blank, "missing-request-bolt11"),
        When(r.method = "bolt11" /\ r.invoice.text = "unsafe", "invalid-request")>>)
      mq == MeltQuote(r.amount, 0, "self", SelfMelt, "unpaid")
  IN IF why # Pass THEN Refuse(m, 400, why)
     ELSE IF r.method = "self"
       THEN Reply([m EXCEPT !.melts = Put(@, r.quote, mq)], MeltQuoteJson(r.quote, mq, <<>>))
     ELSE Ask(m, Later, [kind |-> "melt-quote-create", quote |-> r.quote, invoice |-> r.invoice])

\* ln-melt-quoted: part of a sat costs the whole sat
MeltQuoted(m, c, a) ==
  LET amount == CeilDiv(a.msat, 1000)
      mq == MeltQuote(amount, MeltFeeReserve(amount, m.bps, m.floor), "bolt11", c.invoice, "unpaid")
  IN IF a.status \notin 200..299 THEN Refuse(m, 502, "lightning-decode-failed")
     ELSE IF amount = 0 THEN Refuse(m, 400, "could-not-decode-invoice-amount")
     ELSE IF ~a.hash THEN Refuse(m, 502, "lightning-decode-missing-hash")
     ELSE Reply([m EXCEPT !.melts = Put(@, c.quote, mq)], MeltQuoteJson(c.quote, mq, <<>>))

\* attempt-of, and this-attempt: an answer asked for when no melt was in
\* flight (0) counts as current
AttemptOf(m, q) == IF q \in DOMAIN m.inflight THEN m.inflight[q].started ELSE 0
ThisAttempt(m, att, q) == att = 0 \/ att = AttemptOf(m, q)

StoredChange(m, q) == IF q \in DOMAIN m.change THEN m.change[q] ELSE <<>>

\* get-melt-quote: answers at once, and asks Lightning behind the answer
GetMeltQuote(m, r) ==
  IF r.quote \notin DOMAIN m.melts THEN Refuse(m, 404, "quote-not-found")
  ELSE LET mq == m.melts[r.quote] IN
    Ask(m, MeltQuoteJson(r.quote, mq, StoredChange(m, r.quote)),
        IF mq.state = "pending" /\ mq.method = "bolt11" /\ m.ln # "none"
        THEN [kind |-> "melt-check", quote |-> r.quote, att |-> AttemptOf(m, r.quote),
              invoice |-> mq.request]
        ELSE NoCall)

PostMelt(m, r) ==
  LET mq == m.melts[r.quote]
      fee == ComputeFee(m, r.inputs)
      claimed == AmountTotal(r.inputs)
      need == mq.amount + mq.reserve
      why == First(<<
        When(r.method = "self" /\ ~m.self, "self-method-disabled"),
        When(r.method # mq.method, "method-mismatch"),
        When(mq.state = "pending", "quote-pending"),
        When(mq.state = "paid", "quote-already-paid"),
        When(Len(r.inputs) > MaxBatch \/ Len(r.outputs) > MaxBatch, "batch-too-large"),
        When(fee > claimed, "fee-exceeds-inputs"),
        When(claimed - fee < need, "insufficient-inputs"),
        OutputError(m, r.outputs, TRUE),
        VerifyProofs(m, r.inputs)>>)
      excess == (claimed - fee) - need
      m2 == [m EXCEPT !.spent = @ \cup Secrets(r.inputs), !.redeemed = @ + claimed]
      change == SignChange(m, r.outputs, excess)
      paid == [mq EXCEPT !.state = "paid"]
      started == m.attempts + 1
  IN IF r.quote \notin DOMAIN m.melts THEN Refuse(m, 404, "quote-not-found")
     ELSE IF why # Pass THEN Refuse(m, 400, why)
     ELSE IF r.method = "self"
       THEN Reply([Signed(m2, change) EXCEPT
                             !.melts = Put(@, r.quote, paid),
                             !.change = IF change = <<>> THEN @ ELSE Put(@, r.quote, change)],
                  MeltQuoteJson(r.quote, paid, change))
     ELSE Ask([m2 EXCEPT !.melts[r.quote].state = "pending",
                         !.attempts = started,
                         !.inflight = Put(@, r.quote,
                           [secrets |-> Secrets(r.inputs), total |-> claimed, blanks |-> r.outputs,
                            excess |-> excess, started |-> started])],
              Later,
              [kind |-> "melt-pay", quote |-> r.quote, att |-> started, invoice |-> mq.request])

\* Mutant: the inflight record outlives its melt.
SettleMeltHeld(m, q, fee) ==
  LET mq == m.melts[q]
      change == SignChange(m, m.inflight[q].blanks,
                           MeltChange(mq.reserve, RoutingFeeSats(fee, mq.reserve), m.inflight[q].excess))
  IN [Signed(m, change) EXCEPT !.change = Put(@, q, change), !.melts[q].state = "paid"]

\* settle-melt: paid, with the unused reserve and the excess as change
SettleMelt(m, q, fee) ==
  LET mq == m.melts[q]
      held == q \in DOMAIN m.inflight
      blanks == IF held THEN m.inflight[q].blanks ELSE <<>>
      over == MeltChange(mq.reserve, RoutingFeeSats(fee, mq.reserve),
                         IF held THEN m.inflight[q].excess ELSE 0)
      change == SignChange(m, blanks, over)
  IN [Signed(m, change) EXCEPT
               !.change = IF change = <<>> THEN @ ELSE Put(@, q, change),
               !.melts[q].state = "paid",
               !.inflight = Del(@, q)]

\* Mutant: the redeemed total keeps what was rolled back.
RollbackMeltTotal(m, q) ==
  [m EXCEPT !.spent = @ \ m.inflight[q].secrets,
            !.melts[q].state = "failed",
            !.inflight = Del(@, q)]

\* rollback-melt: exactly what the melt spent is unspent again
RollbackMelt(m, q) ==
  LET e == m.inflight[q] IN
  [m EXCEPT !.spent = @ \ e.secrets,
            !.redeemed = @ - Min({e.total, @}),
            !.clamped = @ \/ e.total > m.redeemed,
            !.melts[q].state = "failed",
            !.inflight = Del(@, q)]

MeltJson(m, q) == MeltQuoteJson(q, m.melts[q], StoredChange(m, q))

\* Mutant: a refusal rolls back whatever attempt it is about.
MeltPaidAnyAttempt(m, c, a) ==
  LET q == c.quote
      pending == m.melts[q].state = "pending"
      rejected == a.status = 400 /\ ~a.hash
      settled == a.status \in 200..299 /\ a.preimage
      m2 == IF rejected /\ pending THEN RollbackMelt(m, q)
            ELSE IF settled /\ pending THEN SettleMelt(m, q, a.fee) ELSE m
  IN Reply(m2, MeltJson(m2, q))

\* ln-melt-paid: the pay's own answer settles on proof, and rolls back only
\* on a refusal that names no payment (pay-settled, pay-rejected)
MeltPaid(m, c, a) ==
  LET q == c.quote
      pending == m.melts[q].state = "pending"
      rejected == m.ln = "lnbits" /\ a.status = 400 /\ ~a.hash
      settled == a.status \in 200..299 /\ a.preimage
      m2 == IF rejected /\ pending /\ ThisAttempt(m, c.att, q) /\ q \in DOMAIN m.inflight
            THEN RollbackMelt(m, q)
            ELSE IF settled /\ pending THEN SettleMelt(m, q, a.fee) ELSE m
  IN IF q \notin DOMAIN m.melts THEN Refuse(m, 500, "quote-lost") ELSE Reply(m2, MeltJson(m2, q))

\* ln-melt-checked: a status answer of LNbits settles, or says nothing
MeltChecked(m, c, a) ==
  LET q == c.quote
      m2 == IF m.melts[q].state = "pending" /\ m.ln = "lnbits" /\ a.status = 200 /\ a.paid
            THEN SettleMelt(m, q, a.fee) ELSE m
  IN IF q \notin DOMAIN m.melts THEN Refuse(m, 404, "quote-not-found") ELSE Reply(m2, MeltJson(m2, q))

-----------------------------------------------------------------------------
(* NUT-07 and NUT-09. *)

InFlight(m) == UNION {m.inflight[q].secrets : q \in DOMAIN m.inflight}

StateOf(m, b) ==
  CASE b \in InFlight(m)             -> "pending"
    [] b \in m.spent \ InFlight(m)   -> "spent"
    [] b \notin m.spent \cup InFlight(m) -> "unspent"

PostCheckstate(m, r) ==
  Reply(m, [status |-> 200, states |-> [i \in DOMAIN r.proofs |-> StateOf(m, r.proofs[i].b)]])

\* post-restore: unknown outputs are left out
PostRestore(m, r) ==
  LET known == SelectSeq(r.outputs, LAMBDA o : o.b \in DOMAIN m.signed)
  IN Reply(m, [status |-> 200,
       signatures |-> [i \in DOMAIN known |->
         [amount |-> m.signed[known[i].b].amount, id |-> m.signed[known[i].b].id, b |-> known[i].b]]])

-----------------------------------------------------------------------------
(* NUT-06 and NUT-01. *)

\* get-info, and get-keys-all: the methods that work, and the active keyset
GetInfo(m) ==
  Reply(m, [status |-> 200, max |-> MaxAmount(m.keysets[m.active].top),
            methods |-> (IF m.self THEN {"self"} ELSE {})
                        \cup (IF m.ln = "none" THEN {} ELSE {"bolt11"})])
GetKeys(m) ==
  Reply(m, [status |-> 200, id |-> m.active, fee |-> m.keysets[m.active].fee,
            top |-> m.keysets[m.active].top])

-----------------------------------------------------------------------------
(* The operator. *)

AdminSettings(m) ==
  [status |-> 200, self |-> m.self, bps |-> m.bps, floor |-> m.floor]

\* admin-update-settings: the fields the request names.  A malformed field
\* refuses the request.
UpdateSettings(m, r) ==
  LET set(field) == IF field \in DOMAIN r.set THEN r.set[field] ELSE m[field]
      m2 == [m EXCEPT !.self = set("self"), !.bps = set("bps"), !.floor = set("floor")]
  IN IF r.bad # Pass THEN Refuse(m, 400, r.bad) ELSE Reply(m2, AdminSettings(m2))

LnConfigure(m, r) ==
  Reply([m EXCEPT !.ln = r.ln], [status |-> 200, configured |-> r.ln # "none"])

\* the keysets, with another one active: the old one signs no more
Activated(m, id) ==
  [k \in DOMAIN m.keysets |->
    [m.keysets[k] EXCEPT !.active = IF k = id THEN TRUE ELSE IF k = m.active THEN FALSE ELSE @]]

KeysetActivate(m, r) ==
  IF r.id \notin DOMAIN m.keysets THEN Refuse(m, 404, "keyset-not-found")
  ELSE Reply([m EXCEPT !.keysets = Activated(m, r.id), !.active = r.id], [status |-> 200, id |-> r.id])

\* never the one that is active
KeysetDeactivate(m, r) ==
  IF r.id \notin DOMAIN m.keysets THEN Refuse(m, 404, "keyset-not-found")
  ELSE IF r.id = m.active THEN Refuse(m, 400, "cannot-deactivate-active")
  ELSE Reply([m EXCEPT !.keysets[r.id].active = FALSE], [status |-> 200, id |-> r.id])

KeysetGenerate(m, r) ==
  Reply([m EXCEPT !.keysets = Put(@, r.new, Keyset(0, FALSE))], [status |-> 200, id |-> r.new])

\* admin-keyset-set-fee: a fresh keyset; the old id stays, and signs no more
KeysetSetFee(m, r) ==
  LET was == r.id = m.active
  IN IF r.id \notin DOMAIN m.keysets THEN Refuse(m, 404, "keyset-not-found")
     ELSE IF r.bad # Pass THEN Refuse(m, 400, r.bad)
     ELSE IF r.fee = m.keysets[r.id].fee THEN Reply(m, [status |-> 200, old |-> r.id, new |-> r.id])
     ELSE Reply([m EXCEPT !.keysets = Put([@ EXCEPT ![r.id].active = FALSE], r.new, Keyset(r.fee, was)),
                          !.active = IF was THEN r.new ELSE @],
                [status |-> 200, old |-> r.id, new |-> r.new])

QuoteDelete(m, r) ==
  LET state == IF r.type = "mint" THEN m.mints[r.quote].state ELSE m.melts[r.quote].state
      why == IF r.type = "mint"
             THEN First(<<When(state = "issued", "cannot-delete-issued"),
                          When(state = "paid", "cannot-delete-paid-mint")>>)
             ELSE First(<<When(state = "paid", "cannot-delete-paid-melt"),
                          When(state = "pending" \/ r.quote \in DOMAIN m.inflight,
                               "cannot-delete-pending-melt")>>)
  IN IF r.quote \notin DOMAIN (IF r.type = "mint" THEN m.mints ELSE m.melts)
       THEN Refuse(m, 404, "quote-not-found")
     ELSE IF why # Pass THEN Refuse(m, 400, why)
     ELSE Reply(IF r.type = "mint" THEN [m EXCEPT !.mints = Del(@, r.quote)]
                                   ELSE [m EXCEPT !.melts = Del(@, r.quote)],
                [status |-> 200, deleted |-> TRUE])

QuoteRevoke(m, r) ==
  LET dec == IF m.mints[r.quote].state = "issued" THEN m.mints[r.quote].amount ELSE 0
  IN IF r.quote \notin DOMAIN m.mints THEN Refuse(m, 404, "quote-not-found")
     ELSE Reply([m EXCEPT !.issued = @ - Min({dec, @}), !.revoked = @ + dec, !.clamped = @ \/ dec > m.issued,
                          !.mints = Del(@, r.quote)], [status |-> 200, revoked |-> TRUE])

Aborted(m, aborted, result) == Reply(m, [status |-> 200, aborted |-> aborted, result |-> result])

\* admin-melt-abort: with a backend to ask it asks first; without one it
\* rolls back only when forced.  (Every melt here has its inflight record.)
MeltAbort(m, r) ==
  IF r.quote = Blank THEN Refuse(m, 400, "missing-quote_id")
  ELSE IF r.quote \notin DOMAIN m.melts THEN Refuse(m, 404, "quote-not-found")
  ELSE IF m.melts[r.quote].state # "pending" THEN Refuse(m, 400, "quote-not-pending")
  ELSE IF m.ln # "none"
    THEN Ask(m, Later, [kind |-> "melt-abort", quote |-> r.quote, att |-> AttemptOf(m, r.quote),
                        invoice |-> m.melts[r.quote].request, force |-> r.force])
  ELSE IF ~r.force THEN Aborted(m, FALSE, "in-flight-or-unconfirmed")
  ELSE Aborted(RollbackMelt(m, r.quote), TRUE, "aborted-forced")

\* ln-melt-abort
LnMeltAbort(m, c, a) ==
  LET q == c.quote IN
  IF q \notin DOMAIN m.melts THEN Refuse(m, 404, "quote-not-found")
  ELSE IF m.melts[q].state # "pending" THEN Aborted(m, FALSE, "no-op-not-pending")
  ELSE IF m.ln = "lnbits" /\ a.status = 200 /\ a.paid
    THEN Aborted(SettleMelt(m, q, a.fee), FALSE, "settled-not-aborted")
  ELSE IF ~c.force THEN Aborted(m, FALSE, "in-flight-or-unconfirmed")
  ELSE IF ~ThisAttempt(m, c.att, q) THEN Aborted(m, FALSE, "stale-attempt")
  ELSE Aborted(RollbackMelt(m, q), TRUE, "aborted-forced")

-----------------------------------------------------------------------------
(* The routes, and the answers of Lightning by what asked. *)

Serve(m, r) ==
  CASE r.op = "swap" -> PostSwap(m, r)
    [] r.op = "mint-quote" -> PostMintQuote(m, r)
    [] r.op = "get-mint-quote" -> GetMintQuote(m, r)
    [] r.op = "mint" -> PostMint(m, r)
    [] r.op = "melt-quote" -> PostMeltQuote(m, r)
    [] r.op = "get-melt-quote" -> GetMeltQuote(m, r)
    [] r.op = "melt" -> PostMelt(m, r)
    [] r.op = "checkstate" -> PostCheckstate(m, r)
    [] r.op = "restore" -> PostRestore(m, r)
    [] r.op = "info" -> GetInfo(m)
    [] r.op = "keys" -> GetKeys(m)
    [] r.op = "settings" -> Reply(m, AdminSettings(m))
    [] r.op = "set-settings" -> UpdateSettings(m, r)
    [] r.op = "configure" -> LnConfigure(m, r)
    [] r.op = "activate" -> KeysetActivate(m, r)
    [] r.op = "deactivate" -> KeysetDeactivate(m, r)
    [] r.op = "generate" -> KeysetGenerate(m, r)
    [] r.op = "set-fee" -> KeysetSetFee(m, r)
    [] r.op = "delete" -> QuoteDelete(m, r)
    [] r.op = "revoke" -> QuoteRevoke(m, r)
    [] r.op = "abort" -> MeltAbort(m, r)

\* handle-ln-response
Answered(m, c, a) ==
  CASE c.kind = "mint-quote-create" -> MintCreated(m, c, a)
    [] c.kind = "mint-quote-check" -> MintChecked(m, c, a)
    [] c.kind = "melt-quote-create" -> MeltQuoted(m, c, a)
    [] c.kind = "melt-pay" -> MeltPaid(m, c, a)
    [] c.kind = "melt-check" -> MeltChecked(m, c, a)
    [] c.kind = "melt-abort" -> LnMeltAbort(m, c, a)
=============================================================================
