----------------------------- MODULE Deposits -----------------------------
(***************************************************************************)
(* Mint quotes of the %ecash mint (src/desk/app/ecash.hoon): a wallet asks  *)
(* for a quote, pays its invoice, and mints tokens for it once.  The mint   *)
(* learns that an invoice was paid only by asking the backend: when the     *)
(* wallet polls, and once in the daily cleanup after the quote expired.     *)
(* Quotes that nobody paid are forgotten, and a deposit that was paid       *)
(* shortly before must not be forgotten with them.                          *)
(*                                                                         *)
(* Time is counted in ticks.  Every handler is one atomic event; requests   *)
(* to the backend are answered late, in any order, or never.  The outputs   *)
(* of a mint request are any batch of the quote's amount that passes        *)
(* output-error.                                                            *)
(***************************************************************************)
EXTENDS Naturals, FiniteSets, Functions, FiniteSetsExt

CONSTANTS
  Quotes,      \* mint quote ids; each is used for one quote only
  Amount,      \* the amount of each quote
  Wires,       \* wire ids: a bound on the requests out at one time
  NoRequest,   \* a wire with no pending request
  Nodes,       \* the Lightning backends the operator may configure
  Day,         \* ticks in a day, ~d1
  TTL,         \* quote-ttl-secs, in ticks
  Late,        \* how late the timer of the daily cleanup may fire
  MaxNow       \* bound: ticks in a behaviour

ASSUME DepositAssumption ==
  /\ Amount \in [Quotes -> Nat \ {0}]
  /\ Nodes \subseteq {"lnbits", "lnd"}
  /\ Day \in Nat \ {0} /\ TTL \in Nat \ {0}
  /\ Late \in Nat /\ MaxNow \in Nat

VARIABLES
  now,       \* now.bowl
  due,       \* when the /cleanup timer is set to fire
  ln,        \* ln-config
  self,      \* self-method-enabled
  state,     \* mint-quotes: state of each quote, or none / dropped
  request,   \* mint-quotes: request and checking-id, as far as they matter
  expiry,    \* mint-quotes: expiry
  issued,    \* total-issued-sats
  pending,   \* pending: the Lightning requests waiting for an answer
  until,     \* the nodes: when the invoice of a quote expires there, 0 if unmade
  home,      \* the nodes: the one that made the invoice
  paid,      \* the nodes: quotes whose invoice was paid
  told,      \* the wallets: quotes whose invoice they were given
  minted,    \* history: how often a quote minted (2 for several)
  revoked,   \* history: quotes that the operator wrote off
  checked    \* history: what became of a quote's check after its expiry

quotes == <<state, request, expiry>>
nodes  == <<until, home, paid>>
history == <<told, minted, revoked, checked>>
vars == <<now, due, ln, self, quotes, issued, pending, nodes, history>>

-----------------------------------------------------------------------------
States == {"none", "unpaid", "paid", "issued", "dropped"}
Absent == {"none", "dropped"}

\* "self" is the request of a self quote; the others are checking-ids: '', the
\* invoice's, and one in a form that its node does not know
Ids == {"self", "empty", "known", "garbled"}

Replies == {"none", "made", "paid", "unpaid", "unclear"}
Request == [kind : {"create", "check"}, quote : Quotes, via : Nodes,
            last : BOOLEAN, reply : Replies]

TypeOK ==
  /\ now \in 0..MaxNow /\ due \in Nat
  /\ ln \in Nodes \cup {"none"} /\ self \in BOOLEAN
  /\ state \in [Quotes -> States] /\ request \in [Quotes -> Ids]
  /\ expiry \in [Quotes -> Nat]
  /\ issued \in Nat
  /\ pending \in [Wires -> Request \cup {NoRequest}]
  /\ until \in [Quotes -> Nat] /\ home \in [Quotes -> Nodes \cup {"none"}]
  /\ paid \subseteq Quotes /\ told \subseteq Quotes
  /\ minted \in [Quotes -> 0..2] /\ revoked \subseteq Quotes
  /\ checked \in [Quotes -> {"no", "blind", "asked", "answered"}]

Init ==
  /\ now = 0 /\ due = Day
  /\ ln = "none" /\ self = FALSE
  /\ state = [q \in Quotes |-> "none"]
  /\ request = [q \in Quotes |-> "empty"]
  /\ expiry = [q \in Quotes |-> 0]
  /\ issued = 0
  /\ pending = [w \in Wires |-> NoRequest]
  /\ until = [q \in Quotes |-> 0] /\ home = [q \in Quotes |-> "none"]
  /\ paid = {} /\ told = {}
  /\ minted = [q \in Quotes |-> 0] /\ revoked = {}
  /\ checked = [q \in Quotes |-> "no"]

-----------------------------------------------------------------------------
(* Helpers of the agent. *)

Found(q) == state[q] \notin Absent

\* quotes leave mint-quotes
Drop(qs) ==
  /\ state' = [q \in Quotes |-> IF q \in qs THEN "dropped" ELSE state[q]]
  /\ request' = [q \in Quotes |-> IF q \in qs THEN "empty" ELSE request[q]]
  /\ expiry' = [q \in Quotes |-> IF q \in qs THEN 0 ELSE expiry[q]]

Ask(kind, q, last) ==
  [kind |-> kind, quote |-> q, via |-> ln, last |-> last, reply |-> "none"]

\* ln-card: send a request on a wire of its own
Send(w, r) == pending[w] = NoRequest /\ pending' = [pending EXCEPT ![w] = r]

Answered(w, kind) ==
  /\ pending[w] # NoRequest
  /\ pending[w].kind = kind /\ pending[w].reply # "none"
  /\ pending' = [pending EXCEPT ![w] = NoRequest]

\* invoice-paid: a settled answer, in the format of the backend now configured
InvoicePaid(r) == r.reply = "paid" /\ r.via = ln

HasInvoice(q) == request[q] \in {"known", "garbled"}

\* Mutant: a paid quote goes when it expires.
KeepMintQuoteUnpaid(q) ==
  \/ expiry[q] > now
  \/ state[q] = "unpaid" /\ HasInvoice(q) /\ expiry[q] + 2 * Day > now

\* keep-mint-quote
KeepMintQuote(q) ==
  \/ expiry[q] > now
  \/ state[q] = "paid"
  \/ state[q] = "unpaid" /\ HasInvoice(q) /\ expiry[q] + 2 * Day > now

\* Mutant: a quote that expires with the cleanup is left for the next one.
RecheckMintQuoteStrict(q) ==
  /\ state[q] = "unpaid" /\ HasInvoice(q)
  /\ expiry[q] < now /\ now < expiry[q] + Day

\* recheck-mint-quote: expired within the last day
RecheckMintQuote(q) ==
  /\ state[q] = "unpaid" /\ HasInvoice(q)
  /\ expiry[q] <= now /\ now < expiry[q] + Day

-----------------------------------------------------------------------------
(* Requests of wallets. *)

Fresh(q) == state[q] = "none"

\* post-mint-quote, method self: paid on creation
PostMintQuoteSelf(q) ==
  /\ self /\ Fresh(q)
  /\ state' = [state EXCEPT ![q] = "paid"]
  /\ request' = [request EXCEPT ![q] = "self"]
  /\ expiry' = [expiry EXCEPT ![q] = now + TTL]
  /\ UNCHANGED <<now, due, ln, self, issued, pending, nodes, history>>

\* post-mint-quote, method bolt11: the quote is stored, and waits for its invoice
PostMintQuote(q, w) ==
  /\ ln # "none" /\ Fresh(q)
  /\ state' = [state EXCEPT ![q] = "unpaid"]
  /\ expiry' = [expiry EXCEPT ![q] = now + TTL]
  /\ Send(w, Ask("create", q, FALSE))
  /\ UNCHANGED <<now, due, ln, self, request, issued, nodes, history>>

\* Mutant: without a backend the poll is sent all the same.
GetMintQuoteUnset(q, w) ==
  /\ state[q] = "unpaid" /\ HasInvoice(q)
  /\ Send(w, Ask("check", q, FALSE))
  /\ UNCHANGED <<now, due, ln, self, quotes, issued, nodes, history>>

\* get-mint-quote: a poll of an unpaid quote checks its invoice behind the answer
GetMintQuote(q, w) ==
  /\ state[q] = "unpaid" /\ HasInvoice(q) /\ ln # "none"
  /\ Send(w, Ask("check", q, FALSE))
  /\ UNCHANGED <<now, due, ln, self, quotes, issued, nodes, history>>

\* Mutant: an issued quote mints too.
MintableAgain(q) == state[q] \in {"paid", "issued"}

\* post-mint-v1: only a paid quote mints, whatever its age, and a self quote only
\* while self is on
Mintable(q) == state[q] = "paid" /\ (request[q] = "self" => self)

PostMint(q) ==
  /\ Mintable(q)
  /\ state' = [state EXCEPT ![q] = "issued"]
  /\ issued' = issued + Amount[q]
  /\ minted' = [minted EXCEPT ![q] = IF @ < 2 THEN @ + 1 ELSE @]
  /\ UNCHANGED <<now, due, ln, self, request, expiry, pending, nodes,
                 told, revoked, checked>>

-----------------------------------------------------------------------------
(* Answers of the backend, as the agent handles them. *)

\* ln-mint-created: the quote gets its invoice, or goes.  LND's answer read as
\* LNbits' leaves the checking-id in base64, which no node knows.
LnMintCreated(w) ==
  /\ Answered(w, "create")
  /\ LET r == pending[w]
         q == r.quote
     IN \/ /\ Found(q) /\ r.reply = "made"
           /\ request' = [request EXCEPT ![q] =
                IF r.via = "lnd" /\ ln # "lnd" THEN "garbled" ELSE "known"]
           /\ told' = told \cup {q}
           /\ UNCHANGED <<state, expiry>>
        \/ Found(q) /\ r.reply # "made" /\ Drop({q}) /\ UNCHANGED told
        \/ ~Found(q) /\ UNCHANGED <<quotes, told>>
  /\ UNCHANGED <<now, due, ln, self, issued, nodes, minted, revoked, checked>>

\* Mutant: a late check promotes an issued quote too.
PromotableAgain(q) == state[q] \in {"unpaid", "issued"}

\* ln-mint-checked promotes only a still-unpaid quote
Promotable(q) == state[q] = "unpaid"

LnMintChecked(w) ==
  /\ Answered(w, "check")
  /\ LET r == pending[w]
         q == r.quote
     IN /\ state' = [state EXCEPT ![q] = IF Promotable(q) /\ InvoicePaid(r) THEN "paid" ELSE @]
        /\ checked' = [checked EXCEPT ![q] =
             IF r.last /\ r.via = ln /\ r.reply # "unclear" THEN "answered" ELSE @]
  /\ UNCHANGED <<now, due, ln, self, request, expiry, issued, nodes, told, minted, revoked>>

\* handle-ln-response on %cancel: the request is forgotten
Cancel(w) ==
  /\ pending[w] # NoRequest
  /\ pending' = [pending EXCEPT ![w] = NoRequest]
  /\ UNCHANGED <<now, due, ln, self, quotes, issued, nodes, history>>

-----------------------------------------------------------------------------
(* The operator and the clock. *)

\* Mutant: only an issued quote is refused.
DeletablePaid(q) == state[q] \in {"unpaid", "paid"}

\* admin-quote-delete of a mint quote: not one that is owed tokens
Deletable(q) == Found(q) /\ state[q] \notin {"paid", "issued"}

AdminQuoteDelete(q) ==
  /\ Deletable(q)
  /\ Drop({q})
  /\ UNCHANGED <<now, due, ln, self, issued, pending, nodes, history>>

\* admin-quote-revoke: what comes off total-issued-sats
WriteOff(q) == IF state[q] = "issued" THEN Amount[q] ELSE 0

AdminQuoteRevoke(q) ==
  /\ Found(q)
  /\ issued' = issued - Min({WriteOff(q), issued})
  /\ revoked' = revoked \cup {q}
  /\ Drop({q})
  /\ UNCHANGED <<now, due, ln, self, pending, nodes, told, minted, checked>>

\* admin-update-settings, self_method_enabled
UpdateSelf(on) ==
  /\ self' = on /\ self' # self
  /\ UNCHANGED <<now, due, ln, quotes, issued, pending, nodes, history>>

\* admin-ln-configure
LnConfigure(c) ==
  /\ c # ln /\ ln' = c
  /\ UNCHANGED <<now, due, self, quotes, issued, pending, nodes, history>>

\* run-cleanup, for mint quotes, and the /cleanup timer set for the next day
\* boundary: quotes past their life go, and with a backend each due one is checked
RunCleanup ==
  LET dropped == {q \in Quotes : Found(q) /\ ~KeepMintQuote(q)}
      recheck == {q \in Quotes : KeepMintQuote(q) /\ RecheckMintQuote(q)}
  IN
  /\ now >= due
  /\ due' = Day * (now \div Day) + Day
  /\ Drop(dropped)
  /\ checked' = [q \in Quotes |->
       IF q \in recheck THEN IF ln = "none" THEN "blind" ELSE "asked" ELSE checked[q]]
  /\ IF ln = "none" THEN UNCHANGED pending
     ELSE \E wire \in Injection(recheck, {w \in Wires : pending[w] = NoRequest}) :
            pending' = [w \in Wires |->
              IF \E q \in recheck : wire[q] = w
              THEN Ask("check", CHOOSE q \in recheck : wire[q] = w, TRUE)
              ELSE pending[w]]
  /\ UNCHANGED <<now, ln, self, issued, nodes, told, minted, revoked>>

\* the cleanup is never more than Late ticks behind its timer
Tick ==
  /\ now < MaxNow /\ now < due + Late
  /\ now' = now + 1
  /\ UNCHANGED <<due, ln, self, quotes, issued, pending, nodes, history>>

-----------------------------------------------------------------------------
(* The Lightning backend and its payers (external). *)

\* an invoice is made when the request for it arrives, and lives for the TTL
NodeCreate(w) ==
  /\ pending[w] # NoRequest
  /\ pending[w].kind = "create" /\ pending[w].reply = "none"
  /\ pending' = [pending EXCEPT ![w].reply = "made"]
  /\ until' = [until EXCEPT ![pending[w].quote] = now + TTL]
  /\ home' = [home EXCEPT ![pending[w].quote] = pending[w].via]
  /\ UNCHANGED <<now, due, ln, self, quotes, issued, paid, history>>

PayInvoice(q) ==
  /\ q \in told /\ q \notin paid /\ now < until[q]
  /\ paid' = paid \cup {q}
  /\ UNCHANGED <<now, due, ln, self, quotes, issued, pending, until, home, history>>

\* an unclear answer is always possible; a node knows only invoices of its own,
\* under their checking-id
Says(r) ==
  {"unclear"} \cup
  (IF r.kind = "check" /\ home[r.quote] = r.via /\ request[r.quote] = "known"
   THEN IF r.quote \in paid THEN {"paid"} ELSE {"unpaid"}
   ELSE {})

NodeReply(w, reply) ==
  /\ pending[w] # NoRequest
  /\ pending[w].reply = "none"
  /\ reply \in Says(pending[w])
  /\ pending' = [pending EXCEPT ![w].reply = reply]
  /\ UNCHANGED <<now, due, ln, self, quotes, issued, nodes, history>>

-----------------------------------------------------------------------------
Wallet ==
  \E q \in Quotes :
    \/ PostMintQuoteSelf(q) \/ PostMint(q) \/ PayInvoice(q)
    \/ \E w \in Wires : PostMintQuote(q, w) \/ GetMintQuote(q, w)

Operator ==
  \/ \E q \in Quotes : AdminQuoteDelete(q) \/ AdminQuoteRevoke(q)
  \/ \E on \in BOOLEAN : UpdateSelf(on)
  \/ \E c \in Nodes \cup {"none"} : LnConfigure(c)

Backend ==
  \E w \in Wires :
    \/ NodeCreate(w) \/ \E reply \in Replies : NodeReply(w, reply)
    \/ LnMintCreated(w) \/ LnMintChecked(w) \/ Cancel(w)

Next == Wallet \/ Operator \/ Backend \/ RunCleanup \/ Tick

Spec == Init /\ [][Next]_vars

-----------------------------------------------------------------------------
(* Properties. *)

(* Tokens are minted once for a quote, and only for an invoice that was paid or
   for a self quote: no late or repeated check makes an issued quote paid again
   (ln-mint-checked), and no answer about something else makes one paid. *)
MintsBacked ==
  \A q \in Quotes :
    /\ minted[q] <= 1
    /\ state[q] \in {"paid", "issued"} => q \in paid \/ request[q] = "self"

Total(qs) == SumFunctionOnSet(Amount, qs)
Live == {q \in Quotes : minted[q] > 0 /\ q \notin revoked}

(* total-issued-sats is what was minted less what was written off: the clamp in
   admin-quote-revoke never bites, and nothing is written off twice. *)
LedgerExact == issued = Total(Live)

(* A deposit the mint knows to be paid leaves that state only by minting or by
   the operator's write-off, whatever its age. *)
PaidKept ==
  [][\A q \in Quotes : state[q] = "paid" /\ state'[q] # "paid" =>
       minted'[q] > minted[q] \/ q \in revoked']_vars

Forgotten(q) == due' # due /\ Found(q) /\ state'[q] = "dropped"

(* An unpaid quote with an invoice is forgotten only after the cleanup looked at
   it once since it expired (keep-mint-quote, recheck-mint-quote: "the daily
   cleanup checks it once"). *)
CheckedBeforeForgotten ==
  [][\A q \in Quotes : Forgotten(q) /\ state[q] = "unpaid" /\ HasInvoice(q) =>
       checked[q] # "no"]_vars

(* No deposit is forgotten: one that was paid and not minted is dropped by the
   cleanup only if no backend was configured when it was due for its last check,
   or that check got no usable answer, or the node let the invoice outlive the
   quote. *)
NoDepositLost ==
  [][\A q \in Quotes : Forgotten(q) /\ q \in paid /\ minted[q] = 0 =>
       checked[q] \in {"blind", "asked"} \/ until[q] > expiry[q]]_vars
=============================================================================
