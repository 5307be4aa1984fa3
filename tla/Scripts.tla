-------------------------------- MODULE Scripts --------------------------------
(***************************************************************************)
(* The suites that drive the mint, and the demo, as scripts: the requests   *)
(* each sends in its order, and what it checks of the answers.  A script is *)
(* an operator of what its client has been answered so far (x), so a later  *)
(* step may use an earlier answer; a check that asks for it later is a step *)
(* of its own.                                                              *)
(***************************************************************************)
EXTENDS MockLnbits

(* Steps.  Each helper is a sequence of steps, and a script joins them. *)

\* Ask, and keep the answer under a name; want: fields it must have.
Do(name, req, want) == <<[kind |-> "do", as |-> name, req |-> req, want |-> want]>>
\* refused: exactly this error
Refused(name, req, status, detail) == Do(name, req, [status |-> status, detail |-> detail])
\* Ask, and go on without the answer; and wait for it.
Start(name, req)   == <<[kind |-> "start", as |-> name, req |-> req]>>
Await(name, want)  == <<[kind |-> "await", as |-> name, want |-> want]>>
\* poll: ask until the answer has this state
Poll(name, req, state) == <<[kind |-> "poll", as |-> name, req |-> req, want |-> [state |-> state]]>>
Until(ok) == <<[kind |-> "until", ok |-> ok]>>
Sleep     == <<[kind |-> "sleep"]>>
\* check
Check(ok) == <<[kind |-> "check", ok |-> ok]>>
\* what the mock and the operator count, to compare with later
Count(name) == <<[kind |-> "count", as |-> name]>>
Mode(set)   == <<[kind |-> "mode", set |-> set]>>
Paid(hash)  == <<[kind |-> "paid", hash |-> hash]>>

Fine == [status |-> 200]

\* An answer, with the fields it does not have blank
Got(x, name) ==
  LET a == IF name \in DOMAIN x.got THEN x.got[name] ELSE <<>>
      blank == [status |-> 0, detail |-> "", amount |-> 0, reserve |-> 0, state |-> "", request |-> NoInvoice,
                signatures |-> <<>>, change |-> <<>>, changed |-> 0, states |-> <<>>, result |-> "",
                aborted |-> FALSE, id |-> "k0", fee |-> 0, top |-> 0, pays |-> 0, quotes |-> 0,
                methods |-> {}, max |-> 0, self |-> FALSE, bps |-> 0, floor |-> 0]
  IN a @@ blank

-----------------------------------------------------------------------------
(* The client's helpers. *)

\* outputs: fresh blinded messages for these amounts (0: a blank)
Outputs(name, amounts, id) ==
  [i \in DOMAIN amounts |->
    [b |-> <<name, i>>, x |-> <<name, i>>, amount |-> amounts[i], id |-> id, bad |-> Pass]]
Blanks(name, n) == Outputs(name, [i \in 1..n |-> 0], "k0")
\* the proofs of these signatures, and a forged one
Proofs(sigs) == [i \in DOMAIN sigs |-> [b |-> sigs[i].b, amount |-> sigs[i].amount,
                                        id |-> sigs[i].id, long |-> FALSE,
                                        lock |-> NoLock, sigs |-> <<>>]]
Forged(amount, id) == [b |-> <<"forged", amount>>, amount |-> amount, id |-> id, long |-> FALSE,
                       lock |-> NoLock, sigs |-> <<>>]
\* a proof whose secret is this lock, with these signatures as its witness
Locked(proof, lock, sigs) == [proof EXCEPT !.lock = lock, !.sigs = sigs]
All(states, s) == states # <<>> /\ \A i \in DOMAIN states : states[i] = s

SetSelf(on) == Do("self", [op |-> "set-settings", set |-> [self |-> on], bad |-> Pass], [self |-> on])
Keys        == Do("keys", [op |-> "keys"], Fine)
Configure(ln) == Do("ln", [op |-> "configure", ln |-> ln], [configured |-> ln # "none"])
States(name, proofs) == Do(name, [op |-> "checkstate", proofs |-> proofs], Fine)

SelfQuote(q, amount) == [op |-> "mint-quote", method |-> "self", quote |-> q, amount |-> amount]
LnQuote(q, amount)   == [op |-> "mint-quote", method |-> "bolt11", quote |-> q, amount |-> amount]
GetMint(q) == [op |-> "get-mint-quote", quote |-> q]
MintOver(method, q, outs) == [op |-> "mint", method |-> method, quote |-> q, outputs |-> outs]
SelfOut(q, amount)   == [op |-> "melt-quote", method |-> "self", quote |-> q, amount |-> amount]
LnOut(q, invoice)    == [op |-> "melt-quote", method |-> "bolt11", quote |-> q, amount |-> 0, invoice |-> invoice]
GetMelt(q) == [op |-> "get-melt-quote", quote |-> q]
MeltOver(method, q, ins, outs) ==
  [op |-> "melt", method |-> method, quote |-> q, inputs |-> ins, outputs |-> outs]
Swap(ins, outs)   == [op |-> "swap", inputs |-> ins, outputs |-> outs]
Abort(q, force)   == [op |-> "abort", quote |-> q, force |-> force]
Delete(type, q)   == [op |-> "delete", type |-> type, quote |-> q]
Revoke(q)         == [op |-> "revoke", quote |-> q]
Bolt11(hash, msat) == Invoice("bolt11", hash, msat)

\* selfMint: proofs for these amounts, under the name
SelfMint(x, name, amounts) ==
  Do("fund", SelfQuote(name, Total(amounts)), Fine)
  \o Do(name, MintOver("self", name, Outputs(name, amounts, Got(x, "keys").id)), Fine)
\* fund: proofs worth this
Fund(x, name, total) == SelfMint(x, name, Split(total, TopBit))
Funds(x, name) == Proofs(Got(x, name).signatures)
Due(x, q) == Got(x, q).amount + Got(x, q).reserve

\* every proof reads so
Read(x, proofs, s) == States("states", proofs) \o Check(All(Got(x, "states").states, s))

-----------------------------------------------------------------------------
(* test-self-method *)

SelfMethod(x) == FlattenSeq(<<
  Keys,
  SetSelf(FALSE),
  Refused("off", SelfQuote("off", 4), 400, "self-method-disabled"),
  Refused("off2", SelfOut("off2", 4), 400, "self-method-disabled"),
  SetSelf(TRUE),
  Do("q", SelfQuote("q", 4), [status |-> 200, state |-> "paid"]),
  SetSelf(FALSE),
  Refused("m", MintOver("self", "q", Outputs("m", <<4>>, Got(x, "keys").id)), 400, "self-method-disabled"),
  Refused("m", MintOver("bolt11", "q", Outputs("m", <<4>>, Got(x, "keys").id)), 400, "self-method-disabled"),
  SetSelf(TRUE),
  Do("m", MintOver("self", "q", Outputs("m", <<4>>, Got(x, "keys").id)), Fine)>>)

(* test-e2e *)

E2E(x) == LET id == Got(x, "keys").id IN FlattenSeq(<<
  SetSelf(TRUE), Keys,
  \* mint
  Do("q", SelfQuote("q", 5), [status |-> 200, state |-> "paid", amount |-> 5]),
  Do("m", MintOver("self", "q", Outputs("m", <<4, 1>>, id)), Fine),
  Check(Len(Got(x, "m").signatures) = 2),
  Do("get", GetMint("q"), [state |-> "issued"]),
  Refused("m2", MintOver("self", "q", Outputs("m2", <<4, 1>>, id)), 400, "quote-not-paid"),
  Read(x, Funds(x, "m"), "unspent"),
  \* swap
  Do("s", Swap(Funds(x, "m"), Outputs("s", <<2, 2, 1>>, id)), [status |-> 200, amount |-> 5]),
  Read(x, Funds(x, "m"), "spent"),
  Refused("s2", Swap(Funds(x, "m"), Outputs("s2", <<4, 1>>, id)), 400, "token-already-spent"),
  \* melt with change
  Do("mq", SelfOut("mq", 2), [reserve |-> 0, state |-> "unpaid", request |-> SelfMelt]),
  Do("r", MeltOver("self", "mq", Funds(x, "s"), Blanks("r", 3)), [status |-> 200, state |-> "paid"]),
  Check([i \in DOMAIN Got(x, "r").change |-> Got(x, "r").change[i].amount] = Split(3, TopBit)),
  Do("back", Swap(Proofs(Got(x, "r").change), Outputs("back", Split(3, TopBit), id)), Fine),
  \* melt without change outputs
  SelfMint(x, "fresh", <<1>>),
  Do("mq1", SelfOut("mq1", 1), Fine),
  Do("r1", MeltOver("self", "mq1", Funds(x, "fresh"), <<>>), [state |-> "paid", change |-> <<>>])>>)

(* test-melt-fee *)

MeltFee(x) == LET id == Got(x, "keys").id IN FlattenSeq(<<
  SetSelf(TRUE), Keys,
  Do("mq", LnOut("mq", Bolt11("mq", 10000)), [amount |-> 10, reserve |-> 10]),
  Refused("short", MeltOver("bolt11", "mq", <<Forged(16, id), Forged(2, id), Forged(1, id)>>, <<>>),
          400, "insufficient-inputs"),
  Fund(x, "ins", 25),
  Do("r", MeltOver("bolt11", "mq", Funds(x, "ins"), Blanks("r", 6)), [state |-> "paid", changed |-> 13]),
  Check([i \in DOMAIN Got(x, "r").change |-> Got(x, "r").change[i].amount] = <<8, 4, 1>>),
  Do("spend", Swap(Proofs(Got(x, "r").change), Outputs("spend", Split(13, TopBit), id)), Fine),
  Do("polled", GetMelt("mq"), [change |-> Got(x, "r").change])>>)

(* test-restore *)

Restore(x) ==
  LET id == Got(x, "keys").id
      outs == Outputs("m", <<2, 1>>, id)
      ask(list) == [op |-> "restore", outputs |-> list]
  IN FlattenSeq(<<
  SetSelf(TRUE), Keys,
  Do("q", SelfQuote("q", 3), Fine),
  Do("m", MintOver("self", "q", outs), Fine),
  \* the two known come back in order, with the signatures first issued
  Do("r", ask(<<outs[1]>> \o Outputs("unknown", <<1>>, id) \o <<outs[2]>>),
     [signatures |-> Got(x, "m").signatures]),
  \* change is restorable too
  SelfMint(x, "p", <<4>>),
  Do("mq", SelfOut("mq", 1), Fine),
  Do("melt", MeltOver("self", "mq", Funds(x, "p"), Blanks("melt", 1)), Fine),
  Do("back", ask(Blanks("melt", 1)), [signatures |-> Got(x, "melt").change]),
  Check(Got(x, "melt").change # <<>>)>>)

(* test-ladder: the largest batches *)

Ladder(x) ==
  LET id == Got(x, "keys").id
      amounts == [i \in 1..99 |-> 2^((i - 1) % (TopBit + 1))]
  IN FlattenSeq(<<
  SetSelf(TRUE), Keys,
  Do("q", SelfQuote("q", Total(amounts)), Fine),
  Do("m", MintOver("self", "q", Outputs("m", amounts, id)), Fine),
  Check(Len(Got(x, "m").signatures) = 99),
  Do("s", Swap(Funds(x, "m"), Outputs("s", amounts, id)), Fine),
  Check(Len(Got(x, "s").signatures) = 99)>>)

-----------------------------------------------------------------------------
(* test-lightning *)

Lightning(x) ==
  LET id == Got(x, "keys").id
      hundred(name) == MintOver("bolt11", "q", Outputs(name, Split(100, TopBit), id))
      over(method, q, name) == MeltOver(method, q, Funds(x, name), <<>>)
  IN FlattenSeq(<<
  SetSelf(TRUE), Keys,
  \* deposit: a quote with an invoice, seen paid by a later poll
  Do("q", LnQuote("q", 100),
     [state |-> "unpaid", amount |-> 100, request |-> Bolt11("q", 100000)]),
  Refused("m0", hundred("m0"), 400, "quote-not-paid"),
  Mode([status_delay |-> TRUE]),
  Do("slow", GetMint("q"), [state |-> "unpaid"]),
  Mode([status_delay |-> FALSE]),
  Paid("q"),
  Poll("seen", GetMint("q"), "paid"),
  Do("m", hundred("m"), [status |-> 200, amount |-> 100]),
  Refused("m2", hundred("m2"), 400, "quote-not-paid"),
  \* a failed invoice creation leaves no quote behind
  Count("n"),
  Mode([invoice |-> "500"]),
  Refused("q7", LnQuote("q7", 7), 502, "lightning-invoice-creation-failed"),
  Mode([invoice |-> "ok"]),
  Check(Cardinality(DOMAIN x.mints) = Got(x, "n").quotes),
  \* withdraw: melt quotes
  Do("mq", LnOut("mq", Bolt11("mq", 50000)),
     [amount |-> 50, reserve |-> 10, state |-> "unpaid", request |-> Bolt11("mq", 50000)]),
  Do("part", LnOut("part", Bolt11("part", 1500)), [amount |-> 2]),
  Refused("no", LnOut("no", NoInvoice), 400, "missing-request-bolt11"),
  Refused("no", LnOut("no", Invoice("unsafe", "", 0)), 400, "invalid-request"),
  Refused("no", LnOut("no", Invoice("text", "", 0)), 502, "lightning-decode-failed"),
  Mode([decode |-> "nohash"]),
  Refused("no", LnOut("no", Bolt11("no", 10000)), 502, "lightning-decode-missing-hash"),
  Mode([decode |-> "ok"]),
  \* withdraw: melt
  Fund(x, "ins", 60),
  Do("r", over("bolt11", "mq", "ins"), [state |-> "paid"]),
  Do("rq", GetMelt("mq"), [state |-> "paid"]),
  Read(x, Funds(x, "ins"), "spent"),
  \* a melt quote settles only by the method that made it
  Do("sq", SelfOut("sq", 1), Fine),
  Do("bq", LnOut("bq", Bolt11("bq", 1000)), Fine),
  Fund(x, "one", 1), Fund(x, "eleven", 11),
  Refused("x1", over("bolt11", "sq", "one"), 400, "method-mismatch"),
  Refused("x2", over("self", "bq", "eleven"), 400, "method-mismatch"),
  Read(x, Funds(x, "one") \o Funds(x, "eleven"), "unspent"),
  Do("bq2", GetMelt("bq"), [state |-> "unpaid"]),
  \* the admin quote list names each quote's method
  Do("sm", SelfQuote("sm", 1), Fine),
  Check({"q", "sm"} \subseteq DOMAIN x.mints /\ ~x.mints["q"].self /\ x.mints["sm"].self),
  Check({"bq", "sq"} \subseteq DOMAIN x.melts
        /\ x.melts["bq"].method = "bolt11" /\ x.melts["sq"].method = "self"),
  Do("rev", Revoke("sm"), Fine)>>)

LightningEnd(x) == FlattenSeq(<<
  Do("del", Delete("melt", "mq"), <<>>), Do("del", Delete("melt", "part"), <<>>),
  Do("del", Delete("melt", "sq"), <<>>), Do("del", Delete("melt", "bq"), <<>>)>>)

-----------------------------------------------------------------------------
(* test-melt-pending *)

PaysSince(x, name) == x.pays - Got(x, name).pays

\* melt: a fresh 10-sat quote, funded exactly, melted with the pay answering
\* in this mode
MeltIn(x, q, mode) == FlattenSeq(<<
  Mode([pay |-> mode]),
  Do(q, LnOut(q, Bolt11(q, 10000)), Fine),
  Fund(x, q \o ".in", Due(x, q)),
  Count(q \o ".n"),
  Do(q \o ".r", MeltOver("bolt11", q, Funds(x, q \o ".in"), Blanks(q \o ".out", 4)), <<>>)>>)
\* it answered so, after exactly one pay
OnePay(x, q, state) == Check(Got(x, q \o ".r").state = state /\ PaysSince(x, q \o ".n") = 1)

\* remelt: with fresh inputs; refused, and it pays nothing
Remelt(x, q, detail) == FlattenSeq(<<
  Fund(x, q \o ".again", Due(x, q)),
  Count(q \o ".n"),
  Refused("again", MeltOver("bolt11", q, Funds(x, q \o ".again"), <<>>), 400, detail),
  Check(PaysSince(x, q \o ".n") = 0)>>)

MeltPending(x) ==
  LET over(q, name) == MeltOver("bolt11", q, Funds(x, name), <<>>) IN FlattenSeq(<<
  SetSelf(TRUE), Keys,
  \* 201 with a preimage settles at once
  MeltIn(x, "ok", "ok"), OnePay(x, "ok", "paid"),
  Remelt(x, "ok", "quote-already-paid"),
  \* an ambiguous 500: pending, inputs held, never rolled back by itself
  MeltIn(x, "amb", "500"), OnePay(x, "amb", "pending"),
  Read(x, Funds(x, "amb.in"), "pending"),
  Remelt(x, "amb", "quote-pending"),
  Do("poll", GetMelt("amb"), <<>>), Sleep,
  Do("poll", GetMelt("amb"), <<>>), Sleep,
  Do("still", GetMelt("amb"), [state |-> "pending"]),
  Read(x, Funds(x, "amb.in"), "pending"),
  \* 201 without a preimage settles on a later poll
  MeltIn(x, "fl", "inflight"), OnePay(x, "fl", "pending"),
  Poll("settled", GetMelt("fl"), "paid"),
  Check(Got(x, "settled").changed = 8),
  Read(x, Funds(x, "fl.in"), "spent"),
  \* a pay refused before dispatch rolls back
  MeltIn(x, "rej", "400"), OnePay(x, "rej", "unpaid"),
  Read(x, Funds(x, "rej.in"), "unspent"),
  Mode([pay |-> "ok"]),
  Do("retry", over("rej", "rej.in"), [state |-> "paid"]),
  \* a 400 that names a payment is ambiguous
  MeltIn(x, "named", "400-hash"), Check(Got(x, "named.r").state = "pending"),
  Read(x, Funds(x, "named.in"), "pending"),
  Refused("del", Delete("melt", "named"), 400, "cannot-delete-pending-melt"),
  Configure("none"),
  Do("blind", Abort("named", FALSE), [aborted |-> FALSE, result |-> "in-flight-or-unconfirmed"]),
  Read(x, Funds(x, "named.in"), "pending"),
  Configure("lnbits"),
  \* a late answer about an older attempt cannot roll back a newer one
  Mode([pay |-> "400", pay_delay |-> TRUE]),
  Do("mqA", LnOut("mqA", Bolt11("mqA", 10000)), Fine),
  Fund(x, "insA", 20),
  Count("n0"),
  Start("first", over("mqA", "insA")),
  Until(PaysSince(x, "n0") > 0),
  Mode([pay |-> "inflight", pay_delay |-> FALSE]),
  Do("abA", Abort("mqA", TRUE), [result |-> "aborted-forced"]),
  Do("second", over("mqA", "insA"), [state |-> "pending"]),
  Await("first", <<>>),
  Read(x, Funds(x, "insA"), "pending"),
  Do("heldA", GetMelt("mqA"), [state |-> "pending"]),
  Poll("thenA", GetMelt("mqA"), "paid"),
  \* an abort whose check left before the quote was melted again
  MeltIn(x, "b", "500"),
  Mode([status_delay |-> TRUE]),
  Start("slow", Abort("b", TRUE)),
  Sleep,
  Mode([status_delay |-> FALSE, pay |-> "400-hash"]),
  Do("abB", Abort("b", TRUE), [result |-> "aborted-forced"]),
  Do("reB", over("b", "b.in"), [state |-> "pending"]),
  Await("slow", [aborted |-> FALSE, result |-> "stale-attempt"]),
  Read(x, Funds(x, "b.in"), "pending"),
  \* an operator's abort checks Lightning first
  Do("ab", Abort("amb", FALSE), [aborted |-> FALSE, result |-> "in-flight-or-unconfirmed"]),
  Read(x, Funds(x, "amb.in"), "pending"),
  Do("forced", Abort("amb", TRUE), [aborted |-> TRUE, result |-> "aborted-forced"]),
  Read(x, Funds(x, "amb.in"), "unspent"),
  Do("forced2", GetMelt("amb"), [state |-> "unpaid"]),
  Refused("ab", Abort("amb", FALSE), 400, "quote-not-pending"),
  MeltIn(x, "done", "inflight"),
  Do("ab2", Abort("done", TRUE), [aborted |-> FALSE, result |-> "settled-not-aborted"]),
  Read(x, Funds(x, "done.in"), "spent"),
  Do("done2", GetMelt("done"), [state |-> "paid"]),
  Refused("nope", Abort("nope", FALSE), 404, "quote-not-found"),
  Refused("nope", Abort("", FALSE), 400, "missing-quote_id")>>)

\* what is left pending is aborted and deleted
MeltPendingEnd(x) == FlattenSeq([i \in 1..3 |->
  LET q == <<"amb", "named", "b">>[i]
  IN Do("ab", Abort(q, TRUE), <<>>) \o Do("del", Delete("melt", q), <<>>)])

-----------------------------------------------------------------------------
(* test-limits *)

LimitsWhen(x, self, ln, name) ==
  LET works(on) == [status |-> IF on THEN 200 ELSE 400] IN FlattenSeq(<<
  SetSelf(self), Configure(IF ln THEN "lnbits" ELSE "none"),
  Do("info", [op |-> "info"], [methods |-> (IF self THEN {"self"} ELSE {})
                                           \cup (IF ln THEN {"bolt11"} ELSE {})]),
  Do("works", SelfQuote(name \o ".self", 1), works(self)),
  Do("works", LnQuote(name \o ".ln", 1), works(ln))>>)

Limits(x) ==
  LET top == 2^Got(x, "keys").top
      cap == (100 - Got(x, "keys").top) * top
      worst == Outputs("m", Split(cap - 1, Got(x, "keys").top), Got(x, "keys").id)
  IN FlattenSeq(<<
  Keys,
  LimitsWhen(x, FALSE, TRUE, "a"), LimitsWhen(x, TRUE, TRUE, "b"),
  LimitsWhen(x, TRUE, FALSE, "c"), LimitsWhen(x, FALSE, FALSE, "d"),
  Configure("lnbits"), SetSelf(TRUE),
  Do("info", [op |-> "info"], [max |-> cap]),
  \* mint quotes are capped, melt quotes are not
  Do("s", SelfQuote("s", cap), [status |-> 200, amount |-> cap]),
  Refused("over", SelfQuote("over", cap + 1), 400, "amount-too-large"),
  Do("l", LnQuote("l", cap), [status |-> 200, amount |-> cap]),
  Refused("over", LnQuote("over", cap + 1), 400, "amount-too-large"),
  Do("ms", SelfOut("ms", cap + 1), [status |-> 200, amount |-> cap + 1]),
  Do("ml", LnOut("ml", Bolt11("ml", (cap + 1) * 1000)), [status |-> 200, amount |-> cap + 1]),
  \* the worst amount under the cap still mints in one request
  Do("q", SelfQuote("q", cap - 1), Fine),
  Check(Len(worst) = 99),
  Do("m", MintOver("self", "q", worst), Fine)>>)

LimitsEnd(x) == FlattenSeq(<<
  Do("rev", Revoke("b.self"), <<>>), Do("rev", Revoke("c.self"), <<>>),
  Do("del", Delete("mint", "a.ln"), <<>>), Do("del", Delete("mint", "b.ln"), <<>>),
  Do("del", Delete("mint", "l"), <<>>), Do("del", Delete("melt", "ms"), <<>>),
  Do("del", Delete("melt", "ml"), <<>>), Do("rev", Revoke("s"), <<>>)>>)

-----------------------------------------------------------------------------
(* test-admin *)

Admin(x) ==
  LET before == Got(x, "before")
      set(fields, bad) == [op |-> "set-settings", set |-> fields, bad |-> bad]
      fee(id, ppk, bad) == [op |-> "set-fee", id |-> id, fee |-> ppk, new |-> "k1", bad |-> bad]
      old == Got(x, "old")
      minFee == [floor |-> before.floor + 1]
  IN FlattenSeq(<<
  \* a malformed field is refused, with a valid one beside it
  Refused("bad", set(minFee, "invalid-fee_reserve_pct"), 400, "invalid-fee_reserve_pct"),
  Refused("bad", set([bps |-> before.bps + 1], "invalid-fee_reserve_min"), 400, "invalid-fee_reserve_min"),
  Refused("bad", set(minFee, "invalid-quote_ttl_secs"), 400, "invalid-quote_ttl_secs"),
  Refused("bad", set(minFee, "invalid-self_method_enabled"), 400, "invalid-self_method_enabled"),
  Do("same", [op |-> "settings"], [self |-> before.self, bps |-> before.bps, floor |-> before.floor]),
  Do("valid", set(minFee, Pass), [self |-> before.self, bps |-> before.bps, floor |-> before.floor + 1]),
  \* set-fee rotates to a fresh keyset; tokens of the old id still spend
  SetSelf(TRUE),
  Do("old", [op |-> "keys"], Fine), Do("keys", [op |-> "keys"], Fine),
  SelfMint(x, "p", <<1>>),
  Refused("fee", fee(old.id, 0, "missing-input_fee_ppk"), 400, "missing-input_fee_ppk"),
  Refused("fee", fee(old.id, 0, "invalid-input_fee_ppk"), 400, "invalid-input_fee_ppk"),
  Refused("fee", fee("unknown", 100, Pass), 404, "keyset-not-found"),
  Do("fee", fee(old.id, old.fee + 100, Pass), [old |-> old.id, new |-> "k1"]),
  Do("now", [op |-> "keys"], [id |-> "k1", fee |-> old.fee + 100, top |-> TopBit]),
  Check(old.id \in DOMAIN x.keysets /\ ~x.keysets[old.id].active),
  Do("s", Swap(Funds(x, "p"), Outputs("s", <<1>>, "k1")), Fine)>>)

-----------------------------------------------------------------------------
(* test-swap-security, on a mint with no inactive keyset yet *)

SwapSecurity(x) ==
  LET id == Got(x, "keys").id
      p4 == Funds(x, "p4")
      out(name, amounts) == Outputs(name, amounts, id)
      with(outs, i, field, value) == [outs EXCEPT ![i] = [f \in DOMAIN @ |-> IF f = field THEN value ELSE @[f]]]
      bad(outs, why) == Refused("bad", Swap(p4, outs), 400, why)
      caps == Funds(x, "caps")
      atCap == SelectSeq(caps, LAMBDA p : p.b = <<"caps", 1>>)
      tail == SelectSeq(caps, LAMBDA p : p.b = <<"caps", 2>>)
      long == [i \in DOMAIN tail |-> [tail[i] EXCEPT !.long = TRUE]]
  IN FlattenSeq(<<
  SetSelf(TRUE), Keys,
  SelfMint(x, "p4", <<4>>),
  \* an output that cannot be signed refuses the whole swap
  bad(with(out("o", <<4, 0>>), 2, "bad", "invalid-msg"), "invalid-msg"),
  bad(with(out("o", <<4>>), 1, "bad", "missing-B_"), "missing-B_"),
  bad(with(out("o", <<4>>), 1, "bad", "invalid-B_-point"), "invalid-B_-point"),
  bad(with(out("o", <<4, 0>>), 2, "x", <<"o", 1>>), "duplicate-output"),
  bad(with(out("o", <<4>>), 1, "b", <<"p4", 1>>), "output-already-signed"),
  bad(with(out("o", <<4>>), 1, "id", "unknown"), "unknown-keyset"),
  Do("gen", [op |-> "generate", new |-> "k1"], Fine),
  bad(with(out("o", <<4>>), 1, "id", "k1"), "inactive-keyset"),
  bad(out("o", <<4, 0>>), "unknown-denomination"),
  bad(out("o", <<3, 1>>), "unknown-denomination"),
  Read(x, p4, "unspent"),
  \* the claimed amounts balance before any curve work
  bad(out("o", <<2>>), "amounts-do-not-balance"),
  Refused("forged", Swap(<<Forged(4, id)>>, out("o", <<8>>)), 400, "amounts-do-not-balance"),
  Do("fee", [op |-> "set-fee", id |-> "k1", fee |-> 1000, new |-> "k2", bad |-> Pass], Fine),
  Refused("forged", Swap(<<Forged(0, "k2")>>, <<>>), 400, "fee-exceeds-inputs"),
  \* every cheap check covers the whole batch before any curve work
  Refused("twice", Swap(p4 \o p4, out("o", <<8>>)), 400, "token-already-spent"),
  SelfMint(x, "caps", <<1, 1>>),
  Refused("forged", Swap(<<Forged(1, id)>> \o long, out("o", <<2>>)), 400, "secret-too-long"),
  Refused("long", Swap(long, out("o", <<1>>)), 400, "secret-too-long"),
  Do("cap", Swap(atCap, out("cap", <<1>>)), Fine),
  \* after every refusal the proof still swaps
  Do("o", Swap(p4, out("o4", <<4>>)), Fine),
  Read(x, p4, "spent"),
  \* a mint signs every output or none
  Do("q", SelfQuote("q", 2), Fine),
  Refused("m", MintOver("self", "q", with(out("m", <<2>>), 1, "bad", "invalid-B_-point")),
          400, "invalid-B_-point"),
  Do("m", MintOver("self", "q", out("m", <<2>>)), Fine)>>)

-----------------------------------------------------------------------------
(* test-p2pk, with the keyholders a, b and c *)

P2pkLock(key, more, n) == [NoLock EXCEPT !.kind = "P2PK", !.data = key, !.pubkeys = more, !.nSigs = n]

\* spend: a 1-sat proof under this lock, swapped with these signatures
Spend(x, name, lock, sigs, want) ==
  LET p == Funds(x, name) IN
  SelfMint(x, name, <<1>>)
  \o Do(name \o ".out", Swap([i \in DOMAIN p |-> Locked(p[i], lock, sigs)],
                             Outputs(name \o ".out", <<1>>, Got(x, "keys").id)), want)

P2PK(x) ==
  LET a == <<"a", "02">>
      one == P2pkLock(a, <<>>, 1)
      multi == P2pkLock(a, <<<<"b", "02">>, <<"c", "02">>>>, 2)
      not(why) == [status |-> 400, detail |-> why]
      few == not("insufficient-p2pk-signatures")
  IN FlattenSeq(<<
  SetSelf(TRUE), Keys,
  \* single key
  Spend(x, "s1", one, <<"a">>, Fine),
  Spend(x, "s2", one, <<>>, not("missing-witness-signatures")),
  Spend(x, "s3", one, <<"b">>, few),
  \* 2-of-3
  Spend(x, "m1", multi, <<"a", "c">>, Fine),
  Spend(x, "m2", multi, <<"a">>, few),
  Spend(x, "m3", multi, <<"a", "a">>, few),
  Spend(x, "m4", P2pkLock(a, <<<<"a", "03">>>>, 2), <<"a">>, few),
  \* conditions the mint does not support
  Spend(x, "u1", [one EXCEPT !.kind = "UNKNOWN_KIND"], <<>>, not("unsupported-spending-condition")),
  Spend(x, "u2", [one EXCEPT !.sigflag = "SIG_ALL"], <<"a">>, not("unsupported-sigflag"))>>)

(* test-conformance: what its wallet asks of the mint *)

Conformance(x) ==
  LET id == Got(x, "keys").id
      parts == Proofs(Got(x, "split").signatures)
      keep == SelectSeq(parts, LAMBDA p : p.b = <<"split", 1>>)
      send == SelectSeq(parts, LAMBDA p : p.b = <<"split", 2>>)
      received == Proofs(Got(x, "received").signatures)
  IN FlattenSeq(<<
  Keys,
  \* mint over bolt11
  Do("q", LnQuote("q", 16), Fine),
  Paid("q"),
  Poll("paid", GetMint("q"), "paid"),
  Do("m", MintOver("bolt11", "q", Outputs("m", <<16>>, id)), [amount |-> 16]),
  \* send and receive
  Do("split", Swap(Funds(x, "m"), Outputs("split", <<8, 8>>, id)), Fine),
  Do("received", Swap(send, Outputs("received", <<8>>, id)), [amount |-> 8]),
  Read(x, send, "spent"),
  \* melt over bolt11
  Do("mq", LnOut("mq", Bolt11("mq", 4000)), [amount |-> 4, reserve |-> 10]),
  Do("res", MeltOver("bolt11", "mq", keep \o received, Blanks("res", 4)),
     [state |-> "paid", changed |-> 10]),
  Do("change", Swap(Proofs(Got(x, "res").change), Outputs("change", Split(10, TopBit), id)),
     [amount |-> 10])>>)

-----------------------------------------------------------------------------
(* demo: Alice deposits, pays Bob, and Bob cashes out.  Its client does not  *)
(* use the self method, and the mint's mock is up already.                  *)

\* denoms and changeDenoms
Denoms(n) == SelectSeq([i \in 1..10 |-> 2^(10 - i)], LAMBDA d : (n \div d) % 2 = 1)
ChangeDenoms(most) == SelectSeq([i \in 1..20 |-> 2^(20 - i)], LAMBDA d : d <= most)

Demo(x, amount) ==
  LET id == Got(x, "keys").id
      send == Max({11, (amount * 4) \div 10})
      both == Proofs(Got(x, "swap").signatures)
      nBob == Min({Len(Denoms(send)), Len(both)})
      bob == SubSeq(both, 1, nBob)
      alice == Funds(x, "m")
      bobTotal == AmountTotal(bob)
      \* an invoice that leaves nothing over: asked again if the reserve differs
      exact == Due(x, "mq") = bobTotal
      mq == IF exact THEN "mq" ELSE "mq2"
  IN FlattenSeq(<<
  Do("info", [op |-> "info"], Fine), Check("bolt11" \in Got(x, "info").methods), Keys,
  \* act 2: Alice deposits
  Do("q", LnQuote("q", amount), Fine),
  Paid("q"),
  Poll("paid", GetMint("q"), "paid"),
  Do("m", MintOver("bolt11", "q", Outputs("m", Denoms(amount), id)), Fine),
  \* act 3: Alice pays Bob
  Do("swap", Swap(alice, Outputs("swap", Denoms(send) \o Denoms(amount - send), id)), Fine),
  \* act 4: no double spending
  Do("replay", Swap(alice, Outputs("replay", Denoms(amount), id)), [detail |-> "token-already-spent"]),
  Read(x, alice, "spent"), Read(x, bob, "unspent"),
  \* act 5: Bob cashes out
  Do("mq", LnOut("mq", Bolt11("mq", (bobTotal - 10) * 1000)), Fine),
  IF exact THEN <<>>
  ELSE Do("mq2", LnOut("mq2", Bolt11("mq2", (bobTotal - Got(x, "mq").reserve) * 1000)), Fine),
  Do("melt", MeltOver("bolt11", mq, bob, Blanks("melt", Len(ChangeDenoms(Got(x, mq).reserve)))),
     [state |-> "paid"]),
  \* books balance
  Check(Due(x, mq) = bobTotal)>>)
=============================================================================
