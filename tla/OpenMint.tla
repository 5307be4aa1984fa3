------------------------------- MODULE OpenMint -------------------------------
(***************************************************************************)
(* The mint's ledger with any client and any Lightning backend.  A client    *)
(* asks whatever parses, an answer of the backend says whatever it may, in   *)
(* any order and any number; of a client only what the protocol rests on is  *)
(* asked: it makes a fresh blinded message for each output, so two outputs    *)
(* are the same message or none that collide, and it never asks to have a     *)
(* message signed that it gave as a blank to a melt that is still pending.    *)
(* The suites, the demo and the free clients (Suites) are such clients.       *)
(***************************************************************************)
EXTENDS Ledger

VARIABLE mint

\* Requests that reach a handler: the routes there are, a body that parses,
\* and new names (drawn at random) for what the mint makes.
IsList(s) == Len(s) \in Nat /\ s = [i \in 1..Len(s) |-> s[i]]
Colliding(outs) == {i \in DOMAIN outs : \E j \in DOMAIN outs : outs[i].b = outs[j].b /\ outs[i].x # outs[j].x}
AreOutputs(outs) ==
  /\ IsList(outs)
  /\ \A i \in DOMAIN outs : outs[i].amount \in Nat
  /\ Colliding(outs) = {}
AreProofs(proofs) ==
  /\ IsList(proofs)
  /\ \A i \in DOMAIN proofs : proofs[i].amount \in Nat

Asks == {"swap", "mint-quote", "get-mint-quote", "mint", "melt-quote", "get-melt-quote", "melt",
         "checkstate", "restore", "info", "keys", "settings", "set-settings", "configure",
         "activate", "deactivate", "generate", "set-fee", "delete", "revoke", "abort"}

\* blanks of the melts that are pending
Held(m) == UNION {Secrets(m.inflight[q].blanks) : q \in DOMAIN m.inflight}

Proper(m, r) ==
  /\ r.op \in Asks
  /\ r.op \in {"swap", "melt"} => AreProofs(r.inputs)
  /\ r.op \in {"swap", "mint", "melt"} => AreOutputs(r.outputs) /\ Secrets(r.outputs) \cap Held(m) = {}
  /\ r.op = "mint-quote" => r.amount \in Nat /\ r.quote \notin DOMAIN m.mints
  /\ r.op = "melt-quote" => r.quote \notin DOMAIN m.melts /\ (r.method = "self" => r.amount \in Nat)
  /\ r.op \in {"generate", "set-fee"} => r.new \notin DOMAIN m.keysets
  /\ r.op = "set-fee" => (r.bad = Pass => r.fee \in Nat)

Questions == {"mint-quote-create", "mint-quote-check", "melt-quote-create", "melt-pay", "melt-check", "melt-abort"}
Heard(m, c) == c.kind \in Questions /\ (c.kind = "melt-quote-create" => c.quote \notin DOMAIN m.melts)

\* a mint as it is installed, with the operator's settings
OpenInit == \E bps, floor, self, ln : \E fee \in Nat :
              mint = [NewMint(bps, floor, fee) EXCEPT !.self = self, !.ln = ln]

Served == \E r : Proper(mint, r) /\ mint' = Serve(mint, r).mint
HeardBack == \E c, a : Heard(mint, c) /\ mint' = Answered(mint, c, a).mint
Tick == mint' = [mint EXCEPT !.now = @ + 1]

OpenNext == Served \/ HeardBack \/ Tick

OpenSpec == OpenInit /\ [][OpenNext]_mint

-----------------------------------------------------------------------------
(* What the mint's state satisfies. *)

\* what each signature made, each change and each deposit minted is worth
Worth(signed) == [b \in DOMAIN signed |-> signed[b].amount]
ChangeWorth(change) == [q \in DOMAIN change |-> AmountTotal(change[q])]
Deposited(mints) == [q \in DOMAIN mints |-> mints[q].amount]
Minted(mints) == {q \in DOMAIN mints : mints[q].state = "issued"}

Unspent == DOMAIN mint.signed \ mint.spent
ValueOf(bs) == SumFunctionOnSet(Worth(mint.signed), bs)
ChangeGiven == SumFunction(ChangeWorth(mint.change))

\* The two totals account for every token.  total-issued-sats leaves out
\* change, and takes off what was revoked; with both put back, issued less
\* redeemed is the worth of the tokens that can be spent, through swaps,
\* melts, rollbacks and fees; and neither total was ever clamped.
Books ==
  /\ ~mint.clamped
  /\ mint.issued + mint.revoked + ChangeGiven - mint.redeemed = ValueOf(Unspent)

\* the mint's fields, and numbers where it keeps numbers
Shaped(m) ==
  /\ DOMAIN m = DOMAIN NewMint(0, 0, 0)
  /\ m.issued \in Nat /\ m.redeemed \in Nat /\ m.revoked \in Nat /\ m.now \in Nat
  /\ IsFiniteSet(DOMAIN m.mints)
  /\ \A q \in DOMAIN m.mints :
       DOMAIN m.mints[q] = {"amount", "self", "state", "invoice"} /\ m.mints[q].amount \in Nat
  /\ \A q \in DOMAIN m.melts :
       DOMAIN m.melts[q] = {"amount", "reserve", "method", "request", "state"}

\* one keyset signs, and no keyset was ever forgotten that signed something
OneSigns(m) ==
  /\ {k \in DOMAIN m.keysets : m.keysets[k].active} = {m.active}
  /\ \A k \in DOMAIN m.keysets : /\ DOMAIN m.keysets[k] = {"fee", "active", "top"}
                                 /\ m.keysets[k].top = TopBit /\ m.keysets[k].fee \in Nat

\* what was signed: each message once, worth a denomination, of a keyset the
\* mint still has, so that it can be redeemed
SignedFit(m) ==
  /\ IsFiniteSet(DOMAIN m.signed)
  /\ \A b \in DOMAIN m.signed :
       m.signed[b].id \in DOMAIN m.keysets /\ m.signed[b].amount \in {2^k : k \in 0..TopBit}
  /\ m.given = {[amount |-> m.signed[b].amount, id |-> m.signed[b].id, b |-> b] : b \in DOMAIN m.signed}

\* a melt has an inflight record while it is pending, and change once it is paid
QuotesFit(m) ==
  /\ DOMAIN m.inflight = {q \in DOMAIN m.melts : m.melts[q].state = "pending"}
  /\ IsFiniteSet(DOMAIN m.change)
  /\ \A q \in DOMAIN m.change : /\ q \in DOMAIN m.melts /\ m.melts[q].state = "paid"
                                /\ AmountTotal(m.change[q]) \in Nat

\* The inputs of a melt that is pending are spent, and are no other melt's;
\* its blanks are not signed yet, and are no other melt's.
FlightFits(e, spent, signed) ==
  /\ e.secrets \subseteq spent
  /\ e.total = SumFunctionOnSet(Worth(signed), e.secrets)
  /\ AreOutputs(e.blanks)
  /\ \A i, j \in DOMAIN e.blanks : e.blanks[i].b = e.blanks[j].b => i = j
  /\ Secrets(e.blanks) \cap DOMAIN signed = {}
Apart(e1, e2) == e1.secrets \cap e2.secrets = {} /\ Secrets(e1.blanks) \cap Secrets(e2.blanks) = {}
FlightsFit(m) ==
  /\ m.spent \subseteq DOMAIN m.signed
  /\ \A q \in DOMAIN m.inflight : FlightFits(m.inflight[q], m.spent, m.signed)
  /\ \A q1, q2 \in DOMAIN m.inflight : q1 # q2 => Apart(m.inflight[q1], m.inflight[q2])

\* The totals: everything signed was issued, or is change; everything spent
\* was redeemed; and a deposit that is revoked is within what was issued.
Accounted(m) ==
  /\ ~m.clamped
  /\ SumFunctionOnSet(Worth(m.signed), DOMAIN m.signed)
       = m.issued + m.revoked + SumFunction(ChangeWorth(m.change))
  /\ SumFunctionOnSet(Worth(m.signed), m.spent) = m.redeemed
  /\ SumFunctionOnSet(Deposited(m.mints), Minted(m.mints)) <= m.issued

\* The mint's parts fit, in every state.
Kept(m) == Shaped(m) /\ OneSigns(m) /\ SignedFit(m) /\ QuotesFit(m) /\ FlightsFit(m) /\ Accounted(m)
=============================================================================
