------------------------------- MODULE Melt -------------------------------
(***************************************************************************)
(* Melts of the %ecash mint (src/desk/app/ecash.hoon): a wallet hands in    *)
(* proofs and the mint pays a Lightning invoice for them through an HTTP    *)
(* backend.  Every handler runs as one atomic event of the agent, so the    *)
(* concurrency lives in the requests that are out at the backend: pays,     *)
(* status checks and operator aborts of several attempts of several quotes  *)
(* are answered late, in any order, or never, and the pay itself may reach  *)
(* the backend after a later request did.                                   *)
(*                                                                         *)
(* Swaps are here because they compete with melts for proofs and for        *)
(* blinded outputs.  Amounts, keysets and mint quotes are left to other     *)
(* modules: an input set is any set of verified proofs that covers a quote. *)
(***************************************************************************)
EXTENDS Naturals, FiniteSets

CONSTANTS
  Quotes,         \* melt quote ids; each is used for one quote only
  Secrets,        \* secrets of the proofs that wallets hold; Y = hash(secret)
  Outputs,        \* blinded messages B_ that wallets may send
  Invoices,       \* payment hashes of the bolt11 invoices melts pay
  NoHash,         \* the empty payment-hash of a self quote
  Wires,          \* wire ids: a bound on the requests out at one time
  NoRequest,      \* a wire with no pending request
  Nodes,          \* the Lightning backends the operator may configure
  SelfMethod,     \* whether self-method-enabled is ever on
  InOrder,        \* a status check reaches the node after the pay it is about
  OperatorLooks,  \* the operator forces an abort only of a failed payment
  MaxAttempts     \* bound: bolt11 pays dispatched in a behaviour

ASSUME MeltAssumption ==
  /\ NoHash \notin Invoices
  /\ Nodes \subseteq {"lnbits", "lnd"}
  /\ SelfMethod \in BOOLEAN /\ InOrder \in BOOLEAN /\ OperatorLooks \in BOOLEAN
  /\ MaxAttempts \in Nat

(***************************************************************************)
(* An attempt is the event time at which a bolt11 melt was dispatched,      *)
(* melt-inflight-entry.started: distinct and increasing.  0 stands for no   *)
(* attempt, the ~ of the code's (unit @da).                                 *)
(***************************************************************************)
Attempts == 1..MaxAttempts
NoAttempt == 0

VARIABLES
  spent,      \* spent (and spent-ys, always updated alongside)
  sigs,       \* per B_, signatures given: 0, 1, or 2 for several;
              \* the keys of restore are the B_ with sigs > 0
  state,      \* melt-quotes: state of each quote, or none / dropped
  hash,       \* melt-quotes: payment-hash
  age,        \* melt-quotes: expiry against now
  inflight,   \* melt-inflight
  change,     \* melt-change: the B_ signed as NUT-08 change of a quote
  ln,         \* ln-config
  pending,    \* pending: the Lightning requests waiting for an answer
  trip,       \* the network: what became of each attempt's pay request
  pay,        \* the nodes: payment of each invoice and the attempt behind it
  now,        \* the last attempt's number
  tries,      \* history: what each attempt handed in and how it ended
  burned      \* history: secrets spent by swaps and self melts

mint == <<spent, sigs, state, hash, age, inflight, change>>
vars == <<mint, ln, pending, trip, pay, now, tries, burned>>

-----------------------------------------------------------------------------
(* Types of the records. *)

NoInflight == [secrets |-> {}, blanks |-> {}, started |-> NoAttempt]
Inflight   == [secrets : SUBSET Secrets, blanks : SUBSET Outputs,
               started : {NoAttempt} \cup Attempts]

QuoteStates == {"none", "unpaid", "pending", "paid", "failed", "dropped"}
Absent      == {"none", "dropped"}

Kinds   == {"decode", "pay", "check", "abort", "force"}
Replies == {"none", "decoded", "settled", "failed", "refused", "unclear"}
Request == [kind : Kinds, quote : Quotes, hash : Invoices, via : Nodes,
            att : {NoAttempt} \cup Attempts, reply : Replies]

NoPayment == [status |-> "none", by |-> NoAttempt]
Payment   == [status : {"none", "live", "settled", "failed"},
              by : {NoAttempt} \cup Attempts]

Fates == {"unmade", "open", "settled", "rolledback"}
Unmade == [quote |-> NoHash, hash |-> NoHash, via |-> "none",
           secrets |-> {}, fate |-> "unmade"]
Try == [quote : Quotes, hash : Invoices, via : Nodes,
        secrets : SUBSET Secrets, fate : Fates]

TypeOK ==
  /\ spent \subseteq Secrets /\ burned \subseteq Secrets
  /\ sigs \in [Outputs -> 0..2]
  /\ state \in [Quotes -> QuoteStates]
  /\ hash \in [Quotes -> Invoices \cup {NoHash}]
  /\ age \in [Quotes -> {"live", "expired", "old"}]
  /\ inflight \in [Quotes -> Inflight]
  /\ change \in [Quotes -> SUBSET Outputs]
  /\ ln \in Nodes \cup {"none"}
  /\ pending \in [Wires -> Request \cup {NoRequest}]
  /\ trip \in [Attempts -> {"unmade", "sent", "started", "refused", "lost"}]
  /\ pay \in [Nodes -> [Invoices -> Payment]]
  /\ now \in 0..MaxAttempts
  /\ tries \in [Attempts -> Try \cup {Unmade}]

Init ==
  /\ spent = {} /\ burned = {}
  /\ sigs = [b \in Outputs |-> 0]
  /\ state = [q \in Quotes |-> "none"]
  /\ hash = [q \in Quotes |-> NoHash]
  /\ age = [q \in Quotes |-> "live"]
  /\ inflight = [q \in Quotes |-> NoInflight]
  /\ change = [q \in Quotes |-> {}]
  /\ ln = "none"
  /\ pending = [w \in Wires |-> NoRequest]
  /\ trip = [a \in Attempts |-> "unmade"]
  /\ pay = [n \in Nodes |-> [h \in Invoices |-> NoPayment]]
  /\ now = 0
  /\ tries = [a \in Attempts |-> Unmade]

-----------------------------------------------------------------------------
(* Helpers of the agent. *)

\* restore: the B_ the mint has on record as signed
Signed == {b \in Outputs : sigs[b] > 0}

\* sign-outputs / sign-change-outputs with the restore update
Sign(outs) ==
  sigs' = [b \in Outputs |-> IF b \in outs /\ sigs[b] < 2 THEN sigs[b] + 1 ELSE sigs[b]]

HasInflight(q) == inflight[q].started # NoAttempt

\* attempt-of: the attempt now in flight for a quote
AttemptOf(q) == inflight[q].started

\* Mutant: answers are not tied to an attempt.
ThisAttemptAny(att, q) == TRUE

\* this-attempt: was an answer asked for the attempt now in flight?  An
\* untagged one counts as current.
ThisAttempt(att, q) == att = NoAttempt \/ att = AttemptOf(q)

\* ln-card / ln-card-at: send a request on a wire of its own
Send(w, kind, q, h, att) ==
  /\ pending[w] = NoRequest
  /\ pending' = [pending EXCEPT ![w] =
       [kind |-> kind, quote |-> q, hash |-> h, via |-> ln, att |-> att, reply |-> "none"]]

\* handle-ln-response deletes the wire before it looks at the answer
Take(w) == pending' = [pending EXCEPT ![w] = NoRequest]

\* Mutants: whatever is not settled has failed; an unclear answer settles;
\* no answer is a definite failure.
PayStatusHasty(r) == IF r.via = ln /\ r.reply = "settled" THEN "settled" ELSE "failed"
PayStatusCredulous(r) ==
  IF r.reply \in {"settled", "unclear"} THEN "settled"
  ELSE IF r.reply = "failed" THEN "failed" ELSE "unknown"
PayStatusOnlySettled(r) == IF r.via = ln /\ r.reply = "settled" THEN "settled" ELSE "unknown"

\* pay-status: only a settled pay and LND's FAILED are definite, and an answer
\* in the other backend's format says nothing to the one now configured
PayStatus(r) ==
  IF r.via = ln /\ r.reply \in {"settled", "failed"} THEN r.reply ELSE "unknown"

\* ln-melt-quoted finds an amount only in the format it expects
Decoded(r) == r.reply = "decoded" /\ (r.via = "lnd" <=> ln = "lnd")

\* pay-settled: a 2xx with a preimage, whatever the backend
PaySettled(r) == r.reply = "settled"

\* Mutant: every error body counts as a refusal.
PayRejectedAny(r) == r.reply \in {"refused", "unclear"} /\ ln = "lnbits"

\* pay-rejected: an LNbits 4xx that names no payment
PayRejected(r) == r.reply = "refused" /\ ln = "lnbits"

\* melt-quote-method: a quote with a payment hash is paid through Lightning.
\* Mutant: any quote may be.
IsBolt11Any(q) == TRUE
IsBolt11(q) == hash[q] # NoHash

\* Mutant: inputs are not looked up in spent.
SpendableAgain(ins) == ins # {}

\* verify-proofs with the fee and amount checks: inputs none of which is spent
Spendable(ins) == ins # {} /\ ins \cap spent = {}

\* output-error: an output on record as signed refuses the request
Signable(outs) == outs \cap Signed = {}

\* history: the attempt in flight for a quote is decided
Decide(q, fate) ==
  tries' = [a \in Attempts |->
    IF HasInflight(q) /\ a = AttemptOf(q) THEN [tries[a] EXCEPT !.fate = fate] ELSE tries[a]]

\* settle-melt: the quote is paid, and change is signed on a part of its
\* blank outputs (as many as the change has powers of two)
SettleMelt(q) ==
  /\ \E chg \in SUBSET inflight[q].blanks :
       /\ Sign(chg)
       /\ change' = [change EXCEPT ![q] = IF chg = {} THEN @ ELSE chg]
  /\ state' = [state EXCEPT ![q] = "paid"]
  /\ inflight' = [inflight EXCEPT ![q] = NoInflight]
  /\ Decide(q, "settled")
  /\ UNCHANGED <<spent, hash, age>>

\* Mutant: the quote fails, and its inputs stay spent.
RollbackMeltUnpaid(q) ==
  /\ state' = [state EXCEPT ![q] = "failed"]
  /\ inflight' = [inflight EXCEPT ![q] = NoInflight]
  /\ Decide(q, "rolledback")
  /\ UNCHANGED <<spent, sigs, hash, age, change>>

\* Mutant: the inputs are un-spent, and the quote stays pending.
RollbackMeltPending(q) ==
  /\ spent' = spent \ inflight[q].secrets
  /\ inflight' = [inflight EXCEPT ![q] = NoInflight]
  /\ Decide(q, "rolledback")
  /\ UNCHANGED <<state, sigs, hash, age, change>>

\* rollback-melt: un-spend exactly what the melt spent; the quote may be retried
RollbackMelt(q) ==
  /\ spent' = spent \ inflight[q].secrets
  /\ state' = [state EXCEPT ![q] = "failed"]
  /\ inflight' = [inflight EXCEPT ![q] = NoInflight]
  /\ Decide(q, "rolledback")
  /\ UNCHANGED <<sigs, hash, age, change>>

NoMintChange == UNCHANGED <<mint, tries>>

-----------------------------------------------------------------------------
(* Requests of wallets. *)

\* post-swap: all or nothing, inputs spent and outputs signed in one event
PostSwap(ins, outs) ==
  /\ Spendable(ins)
  /\ outs # {} /\ Signable(outs)
  /\ spent' = spent \cup ins
  /\ Sign(outs)
  /\ burned' = burned \cup ins
  /\ UNCHANGED <<state, hash, age, inflight, change, ln, pending, trip, pay, now, tries>>

Fresh(q) == /\ state[q] = "none"
            /\ \A w \in Wires : pending[w] # NoRequest => pending[w].quote # q

\* post-melt-quote, method self: the quote is made at once
PostMeltQuoteSelf(q) ==
  /\ SelfMethod
  /\ Fresh(q)
  /\ state' = [state EXCEPT ![q] = "unpaid"]
  /\ UNCHANGED <<spent, sigs, hash, age, inflight, change,
                 ln, pending, trip, pay, now, tries, burned>>

\* post-melt-quote, method bolt11: the quote waits for the decoded invoice
PostMeltQuote(q, h, w) ==
  /\ ln # "none"
  /\ Fresh(q)
  /\ Send(w, "decode", q, h, NoAttempt)
  /\ UNCHANGED <<mint, ln, trip, pay, now, tries, burned>>

\* Mutant: an expired quote is not checked any more.
GetMeltQuoteLive(q, w) ==
  /\ state[q] = "pending" /\ age[q] = "live"
  /\ hash[q] # NoHash /\ ln # "none"
  /\ Send(w, "check", q, hash[q], AttemptOf(q))
  /\ UNCHANGED <<mint, ln, trip, pay, now, tries, burned>>

\* get-melt-quote: a poll of a pending melt checks the payment behind its answer
GetMeltQuote(q, w) ==
  /\ state[q] = "pending"
  /\ hash[q] # NoHash /\ ln # "none"
  /\ Send(w, "check", q, hash[q], AttemptOf(q))
  /\ UNCHANGED <<mint, ln, trip, pay, now, tries, burned>>

\* post-melt-v1 up to the method: the guards shared by both
Meltable(q, ins, blanks) ==
  /\ state[q] \in {"unpaid", "failed"}
  /\ age[q] = "live"
  /\ Signable(blanks)
  /\ Spendable(ins)

\* post-melt-v1, method self: paid at once, the overpayment returned as change
PostMeltSelf(q, ins, blanks) ==
  /\ SelfMethod /\ ~IsBolt11(q)
  /\ Meltable(q, ins, blanks)
  /\ spent' = spent \cup ins
  /\ burned' = burned \cup ins
  /\ state' = [state EXCEPT ![q] = "paid"]
  /\ \E chg \in SUBSET blanks :
       /\ Sign(chg)
       /\ change' = [change EXCEPT ![q] = IF chg = {} THEN @ ELSE chg]
  /\ UNCHANGED <<hash, age, inflight, ln, pending, trip, pay, now, tries>>

\* post-melt-v1, method bolt11: inputs spent, quote pending and inflight record
\* kept before the pay goes out.  Without a backend ln-pay-invoice crashes, and
\* the event changes nothing.
PostMelt(q, ins, blanks, w) ==
  /\ now < MaxAttempts
  /\ IsBolt11(q) /\ ln # "none"
  /\ Meltable(q, ins, blanks)
  /\ now' = now + 1
  /\ spent' = spent \cup ins
  /\ state' = [state EXCEPT ![q] = "pending"]
  /\ inflight' = [inflight EXCEPT ![q] = [secrets |-> ins, blanks |-> blanks, started |-> now']]
  /\ Send(w, "pay", q, hash[q], now')
  /\ trip' = [trip EXCEPT ![now'] = "sent"]
  /\ tries' = [tries EXCEPT ![now'] =
       [quote |-> q, hash |-> hash[q], via |-> ln, secrets |-> ins, fate |-> "open"]]
  /\ UNCHANGED <<sigs, hash, age, change, ln, pay, burned>>

-----------------------------------------------------------------------------
(* Answers of the backend, as the agent handles them. *)

Answered(w, kinds) ==
  /\ pending[w] # NoRequest
  /\ pending[w].kind \in kinds /\ pending[w].reply # "none"
  /\ Take(w)

Found(q) == state[q] \notin Absent

\* ln-melt-quoted: the quote comes to be when the invoice is decoded
LnMeltQuoted(w) ==
  /\ Answered(w, {"decode"})
  /\ LET r == pending[w] IN
       IF Decoded(r)
       THEN /\ state' = [state EXCEPT ![r.quote] = "unpaid"]
            /\ hash' = [hash EXCEPT ![r.quote] = r.hash]
       ELSE UNCHANGED <<state, hash>>
  /\ UNCHANGED <<spent, sigs, age, inflight, change, ln, trip, pay, now, tries, burned>>

\* ln-melt-paid: a dispatch receipt.  Roll back on a refusal of the attempt in
\* flight, settle on proof, otherwise leave the quote as it is.
LnMeltPaid(w) ==
  /\ Answered(w, {"pay"})
  /\ LET r == pending[w]
         q == r.quote
         rejected == /\ PayRejected(r) /\ state[q] = "pending"
                     /\ ThisAttempt(r.att, q) /\ HasInflight(q)
         settled == PaySettled(r) /\ state[q] = "pending"
     IN \/ rejected /\ RollbackMelt(q)
        \/ ~rejected /\ settled /\ SettleMelt(q)
        \/ ~rejected /\ ~settled /\ NoMintChange
  /\ UNCHANGED <<ln, trip, pay, now, burned>>

\* ln-melt-checked: a status check of a pending melt
LnMeltChecked(w) ==
  /\ Answered(w, {"check"})
  /\ LET r == pending[w]
         q == r.quote
         settled == state[q] = "pending" /\ PayStatus(r) = "settled"
         failed  == /\ state[q] = "pending" /\ PayStatus(r) = "failed"
                    /\ ThisAttempt(r.att, q) /\ HasInflight(q)
     IN \/ settled /\ SettleMelt(q)
        \/ failed /\ RollbackMelt(q)
        \/ ~settled /\ ~failed /\ NoMintChange
  /\ UNCHANGED <<ln, trip, pay, now, burned>>

\* ln-melt-abort: the operator's abort, after the payment was checked again
LnMeltAbort(w) ==
  /\ Answered(w, {"abort", "force"})
  /\ LET r == pending[w]
         q == r.quote
         settled == state[q] = "pending" /\ PayStatus(r) = "settled"
         undo    == /\ state[q] = "pending" /\ ~settled
                    /\ r.kind = "force" \/ PayStatus(r) = "failed"
                    /\ ThisAttempt(r.att, q) /\ HasInflight(q)
     IN \/ settled /\ SettleMelt(q)
        \/ undo /\ RollbackMelt(q)
        \/ ~settled /\ ~undo /\ NoMintChange
  /\ UNCHANGED <<ln, trip, pay, now, burned>>

\* handle-ln-response on %cancel (a runtime restart): the request is forgotten,
\* and no quote changes, for a pay may be anywhere
Cancel(w) ==
  /\ pending[w] # NoRequest
  /\ Take(w)
  /\ UNCHANGED <<mint, ln, trip, pay, now, tries, burned>>

-----------------------------------------------------------------------------
(* The operator and the clock. *)

\* the runbook's condition for a forced abort: the node shows that this
\* attempt's payment is not under way
Looked(q) ==
  OperatorLooks =>
    /\ trip[AttemptOf(q)] # "sent"
    /\ pay[tries[AttemptOf(q)].via][hash[q]].status \notin {"live", "settled"}

\* admin-melt-abort with a backend: check the payment first
AdminMeltAbort(q, kind, w) ==
  /\ kind \in {"abort", "force"}
  /\ state[q] = "pending"
  /\ ln # "none" /\ hash[q] # NoHash
  /\ kind = "force" => Looked(q)
  /\ Send(w, kind, q, hash[q], AttemptOf(q))
  /\ UNCHANGED <<mint, ln, trip, pay, now, tries, burned>>

\* admin-melt-abort without a backend: only force does anything
AdminMeltAbortUnchecked(q) ==
  /\ state[q] = "pending" /\ ln = "none"
  /\ Looked(q)
  /\ RollbackMelt(q)
  /\ UNCHANGED <<ln, pending, trip, pay, now, burned>>

\* the quotes leave melt-quotes
Drop(qs) ==
  /\ state' = [q \in Quotes |-> IF q \in qs THEN "dropped" ELSE state[q]]
  /\ hash' = [q \in Quotes |-> IF q \in qs THEN NoHash ELSE hash[q]]
  /\ age' = [q \in Quotes |-> IF q \in qs THEN "live" ELSE age[q]]

\* admin-quote-delete of a melt quote
AdminQuoteDelete(q) ==
  /\ Found(q)
  /\ state[q] \notin {"paid", "pending"} /\ ~HasInflight(q)
  /\ Drop({q})
  /\ UNCHANGED <<spent, sigs, inflight, change, ln, pending, trip, pay, now, tries, burned>>

\* Mutant: a pending quote goes like any other.
KeepMeltQuoteUnpending(q) ==
  \/ age[q] = "live"
  \/ state[q] = "paid" /\ age[q] = "expired"

\* keep-melt-quote
KeepMeltQuote(q) ==
  \/ age[q] = "live"
  \/ state[q] = "pending"
  \/ state[q] = "paid" /\ age[q] = "expired"

\* run-cleanup, for melts: quotes past their life go, with their records
RunCleanup ==
  LET dropped == {q \in Quotes : Found(q) /\ ~KeepMeltQuote(q)} IN
  /\ dropped # {}
  /\ Drop(dropped)
  /\ change' = [q \in Quotes |-> IF q \in dropped THEN {} ELSE change[q]]
  /\ inflight' = [q \in Quotes |-> IF q \in dropped THEN NoInflight ELSE inflight[q]]
  /\ UNCHANGED <<spent, sigs, ln, pending, trip, pay, now, tries, burned>>

\* time passes a quote's expiry, then expiry + paid-melt-life, which matters to
\* a paid quote only
Tick(q) ==
  /\ Found(q)
  /\ age[q] = "live" \/ (age[q] = "expired" /\ state[q] = "paid")
  /\ age' = [age EXCEPT ![q] = IF @ = "live" THEN "expired" ELSE "old"]
  /\ UNCHANGED <<spent, sigs, state, hash, inflight, change,
                 ln, pending, trip, pay, now, tries, burned>>

\* admin-ln-configure
LnConfigure(c) ==
  /\ c # ln
  /\ ln' = c
  /\ UNCHANGED <<mint, pending, trip, pay, now, tries, burned>>

-----------------------------------------------------------------------------
(* The Lightning backend (external): what its answers are taken to mean. *)

\* a pay request arrives: paid unless the node refuses it, or it is lost.  An
\* invoice has one payment at a time and is never paid twice by one node.
NodePay(a) ==
  /\ trip[a] = "sent"
  /\ LET n == tries[a].via
         h == tries[a].hash
     IN \/ /\ pay[n][h].status \in {"none", "failed"}
           /\ pay' = [pay EXCEPT ![n][h] = [status |-> "live", by |-> a]]
           /\ trip' = [trip EXCEPT ![a] = "started"]
        \/ /\ \E t \in {"refused", "lost"} : trip' = [trip EXCEPT ![a] = t]
           /\ UNCHANGED pay
  /\ UNCHANGED <<mint, ln, pending, now, tries, burned>>

NodeResolve(n, h) ==
  /\ pay[n][h].status = "live"
  /\ \E s \in {"settled", "failed"} : pay' = [pay EXCEPT ![n][h].status = s]
  /\ UNCHANGED <<mint, ln, pending, trip, now, tries, burned>>

\* what a node may answer: an unclear answer (an error, a timeout, in flight) is
\* always possible; LNbits never says of an outgoing payment that it failed
Says(r) ==
  LET p == pay[r.via][r.hash] IN
  {"unclear"} \cup
  CASE r.kind = "decode" -> {"decoded"}
    [] r.kind = "pay" ->
         (IF trip[r.att] = "refused" THEN {"refused"} ELSE {}) \cup
         (IF p.by = r.att /\ p.status = "settled" THEN {"settled"} ELSE {})
    [] OTHER ->
         IF InOrder /\ trip[r.att] = "sent" THEN {}
         ELSE (IF p.status = "settled" THEN {"settled"} ELSE {}) \cup
              (IF p.status = "failed" /\ r.via = "lnd" THEN {"failed"} ELSE {})

NodeReply(w, reply) ==
  /\ pending[w] # NoRequest
  /\ pending[w].reply = "none"
  /\ reply \in Says(pending[w])
  /\ pending' = [pending EXCEPT ![w].reply = reply]
  /\ UNCHANGED <<mint, ln, trip, pay, now, tries, burned>>

-----------------------------------------------------------------------------
Wallet ==
  \/ \E ins \in SUBSET Secrets, outs \in SUBSET Outputs : PostSwap(ins, outs)
  \/ \E q \in Quotes :
       \/ PostMeltQuoteSelf(q)
       \/ \E h \in Invoices, w \in Wires : PostMeltQuote(q, h, w)
       \/ \E w \in Wires : GetMeltQuote(q, w)
       \/ \E ins \in SUBSET Secrets, blanks \in SUBSET Outputs :
            \/ PostMeltSelf(q, ins, blanks)
            \/ \E w \in Wires : PostMelt(q, ins, blanks, w)

Answer(w) == LnMeltQuoted(w) \/ LnMeltPaid(w) \/ LnMeltChecked(w) \/ LnMeltAbort(w)

Operator ==
  \/ \E q \in Quotes :
       \/ \E kind \in {"abort", "force"}, w \in Wires : AdminMeltAbort(q, kind, w)
       \/ AdminMeltAbortUnchecked(q)
       \/ AdminQuoteDelete(q)
  \/ \E c \in Nodes \cup {"none"} : LnConfigure(c)

Node ==
  \/ \E a \in Attempts : NodePay(a)
  \/ \E n \in Nodes, h \in Invoices : NodeResolve(n, h)
  \/ \E w \in Wires, reply \in Replies : NodeReply(w, reply)

Next ==
  \/ Wallet
  \/ \E w \in Wires : Answer(w) \/ Cancel(w)
  \/ Operator
  \/ RunCleanup \/ \E q \in Quotes : Tick(q)
  \/ Node

Spec == Init /\ [][Next]_vars

-----------------------------------------------------------------------------
(* Properties. *)

Settled(h) == \E n \in Nodes : pay[n][h].status = "settled"

(* The mint never pays for proofs it gave back: while the payment of an
   attempt is under way, and once it settled, the proofs that attempt took
   stay spent.  (rollback-melt: "Only for a pay known to have failed".) *)
NoDoublePay ==
  \A n \in Nodes, h \in Invoices :
    pay[n][h].status \in {"live", "settled"} =>
      /\ tries[pay[n][h].by].fate # "rolledback"
      /\ tries[pay[n][h].by].secrets \subseteq spent

(* No proof is spent for nothing: a spent secret went to a swap or a self
   melt, is in the inflight record of a pending quote, or was taken by an
   attempt that settled, and then its invoice was paid.  (settle-melt needs a
   settled pay; cleanup and delete keep what a pending melt owes.) *)
NoLostProof ==
  \A s \in spent :
    \/ s \in burned
    \/ \E q \in Quotes : state[q] = "pending" /\ s \in inflight[q].secrets
    \/ \E a \in Attempts : /\ s \in tries[a].secrets
                           /\ tries[a].fate = "settled" /\ Settled(tries[a].hash)

(* The inflight records say exactly what is undecided: a quote has one iff it
   is pending, its secrets are spent, and no proof is in two of them; so a
   rollback cannot un-spend another melt's inputs, and the PENDING of
   checkstate covers every proof that may come back. *)
InflightExact ==
  /\ \A q \in Quotes : HasInflight(q) <=> state[q] = "pending"
  /\ \A q \in Quotes : inflight[q].secrets \subseteq spent \ burned
  /\ \A p, q \in Quotes : p # q => inflight[p].secrets \cap inflight[q].secrets = {}

(* A quote is decided once: no late, repeated or stale answer, abort or
   cleanup takes a paid quote back or replaces its change, and a proof comes
   back only when the pending melt that holds it fails. *)
DecidedOnce ==
  [][ /\ \A q \in Quotes : state[q] = "paid" =>
           \/ state'[q] = "paid" /\ change'[q] = change[q]
           \/ state'[q] = "dropped"
      /\ \A s \in spent \ spent' : \E q \in Quotes :
           /\ s \in inflight[q].secrets
           /\ state[q] = "pending" /\ state'[q] = "failed" ]_vars

(* "a recorded B_ is never signed again" (docs/operator-runbook.md 17,
   output-error). *)
SignedOnce == \A b \in Outputs : sigs[b] <= 1

-----------------------------------------------------------------------------
(* Liveness.  A wallet polls its pending quote again and again; the node that
   is asked again and again tells what it knows at some time, and not every
   answer is cancelled by a restart or read under another configuration. *)

TellsOutcome(q) ==
  \E w \in Wires, reply \in {"settled", "failed"} :
    /\ pending[w] # NoRequest /\ pending[w].quote = q /\ pending[w].kind = "check"
    /\ NodeReply(w, reply)

HearsOutcome(q) ==
  \E w \in Wires :
    /\ pending[w] # NoRequest /\ pending[w].quote = q
    /\ PayStatus(pending[w]) # "unknown"
    /\ LnMeltChecked(w)

FairSpec ==
  /\ Spec
  /\ \A w \in Wires : WF_vars(Answer(w)) /\ WF_vars(\E reply \in Replies : NodeReply(w, reply))
  /\ \A q \in Quotes : /\ SF_vars(\E w \in Wires : GetMeltQuote(q, w))
                       /\ SF_vars(TellsOutcome(q))
                       /\ SF_vars(HearsOutcome(q))

\* the operator leaves one backend configured from some time on
Configured == \E n \in Nodes : <>[](ln = n)

(* A melt whose payment settled does not stay pending: once the backend is
   back, polls settle it (docs/operator-runbook.md 5: "they reconcile on the
   next poll or abort once the backend is back"). *)
SettledReconciles ==
  Configured => \A q \in Quotes :
    (state[q] = "pending" /\ Settled(hash[q])) ~> (state[q] # "pending")

(* With LND, polls also give back a melt whose payment failed. *)
FailedReconciles ==
  Configured => \A q \in Quotes :
    (state[q] = "pending" /\ \E n \in Nodes : pay[n][hash[q]] =
        [status |-> "failed", by |-> AttemptOf(q)])
      ~> (state[q] # "pending")
=============================================================================
