# Verification of the %ecash mint and %tessera

This directory holds TLA+ models of the two Urbit agents of this repository,
TLC configurations that check them on small instances, and TLAPS proofs for
every value of the constants. It follows the source: every definition that
models code names its lines in `PROJECT.json` ("map").

| | |
|---|---|
| `Melt.tla` | the mint's melts: proofs in, Lightning payments out |
| `MeltInv.tla` | their inductive invariants, and the refinement mapping to `Redemption` |
| `MeltProofs.tla` | proofs of the invariants, of the safety properties and of the refinement |
| `Redemption.tla` | abstract specification: what a mint promises when it redeems proofs |
| `Deposits.tla` | the mint's deposits: Lightning payments in, tokens out |
| `DepositsInv.tla`, `DepositsProofs.tla` | its inductive invariant and the proofs |
| `TesseraIssuer.tla` | one service of a `%tessera` issuer |
| `TesseraIssuerInv.tla`, `TesseraIssuerProofs.tla` | its inductive invariant and the proofs |
| `TesseraShips.tla` | holders of tokens and their issuer, over Ames |
| `TesseraShipsInv.tla`, `TesseraShipsProofs.tla` | its inductive invariant and the proofs |
| `Ledger.tla`, `P2pk.tla` | the mint's ledger with amounts, fees, keysets and totals; locks on proofs |
| `OpenMint.tla` | the ledger with any client and any backend: a specification, and what its state satisfies |
| `SumProofs.tla`, `LedgerProofs.tla` | lemmas about sums, and the proofs about locks, the ledger and its suites |
| `MintAndMock.tla` | the ledger and the mock with any honest client, and what the mint has and owes |
| `MintAndMockInv.tla`, `SolventProofs.tla` | its inductive invariant, and the proofs that the mint is solvent |
| `MockLnbits.tla` | the mock Lightning backend of the tests |
| `Scripts.tla`, `FreeClients.tla`, `Suites.tla` | the test suites, the demo and clients without a script, run against ledger and mock |
| `TestKit.tla` | the harness: one suite after another, and what each leaves behind |
| `TestKitInv.tla`, `TestKitProofs.tla` | its inductive invariant and the proofs |
| `MC*` | instances for TLC |

To check: `tlc -config MCMelt_lnbits.cfg MCMelt` (and so on), `tlapm MeltProofs.tla`.

## 1. The system

`src/desk` is a Cashu mint as a Gall agent (`app/ecash.hoon`), with its pure
rules in `lib/ecash-rules.hoon`. Wallets talk to it over HTTP (NUT routes), the
operator over an authenticated HTTP API, and it talks to a Lightning backend
(LNbits or LND) over HTTP through iris. `src/desk-tessera` is a second agent:
ships issue, hold, hand over and present access tokens to each other, with the
same blind signatures.

A Gall agent handles one event at a time, and an event that crashes changes
nothing. So there are no races on the agent's state. All concurrency is
between events: requests that are out while other events are handled, answers
that come late, in any order, twice in effect (two checks of one thing), or
never, timers that fire late, an operator who reads one thing and acts later,
and a node or a peer ship with a state of its own.

### Components

**Mint: melts** (`post-melt-quote`, `post-melt-v1`, `get-melt-quote`,
`ln-melt-*`, `settle-melt`, `rollback-melt`, `admin-melt-abort`, the melt half of
`run-cleanup`). State: `melt-quotes`, `melt-inflight`, `melt-change`, `spent`
(with `spent-ys`), `restore`, `pending`, `ln-config`. A melt spends its inputs,
marks the quote pending and records what to give back *before* the pay goes out;
the answer settles it, rolls it back, or says nothing. Hard: no answer at all is
not a failure; an answer may be about an earlier attempt of the quote; a check
may overtake the pay; a backend may be exchanged underneath. Correct if proofs
come back only for payments that can no longer happen, nothing stays spent
without a payment or a record of who is owed, and a decision is final.

**Mint: deposits** (`post-mint-quote`, `get-mint-quote`, `post-mint-v1`,
`ln-mint-*`, `admin-quote-delete`, `admin-quote-revoke`, the mint half of
`run-cleanup`, the `/cleanup` timer). State: `mint-quotes`, `total-issued-sats`,
`pending`. Hard: the mint learns of a payment only by asking; quotes are
forgotten after their expiry; the last check happens once, in a daily job.
Correct if a quote mints once and only when paid, and no paid deposit is
forgotten without a look.

**Mint: swaps, restore, checkstate** (`post-swap`, `post-restore`,
`post-checkstate`). A swap spends and signs in one event. It matters to melts
because it takes proofs and outputs from under them. The other two only read.

**Mint: totals and fees** (`total-issued-sats`, `total-redeemed-sats`, input
fees, fee reserve, routing fee, change). Change is not counted as issued, and a
write-off takes off what was. Correct if issued less redeemed is what is
outstanding up to these two, and the mint never owes more than it has.

**Mint: keysets** (generation, activation, fee change). Correct if exactly one
active keyset per unit signs, and what an inactive one signed stays spendable.

**Mint: pure rules** (`lib/ecash-rules.hoon`): reading backend answers, quote
life, `max-amount`, `compute-fee`, `melt-fee-reserve`, `melt-change`,
`check-p2pk`. Correct, for locks, if a proof opens to whom its lock names.

**Mint: HTTP and admin** (`lib/ecash-http.hoon`, routing, sessions, JSON). No
state of its own.

**Mint: state migration** (`on-load`). Pure conversions of older states.

**Cryptography** (`lib/bdhke.hoon`, `lib/curve.hoon`, `lib/blind.hoon`).
secp256k1, blind signatures, DLEQ proofs.

**Tessera: issuer** (`app/tessera.hoon`: services, keysets and their rotation,
quotas per ship and period, spent sets, `%present` forwarded to the serving
agent and answered later).

**Tessera: holder and ships** (wallet, requests waiting for an issuer, offers,
transfers between ships, acks and nacks). Hard: an answer that arrives after a
rotation; an offer accepted and deleted before the refresh is answered; a
transfer whose ack is lost.

**Suites and demo** (`test-*.mjs`, `demo.mjs`). Clients that ask the mint one
thing at a time, while what the mint asks Lightning comes in when it may.
Correct if their checks do not depend on when that is.

**Mock backend** (`mock-lnbits.mjs`): invoices, payments and modes for the ways an
LNbits can misbehave.

**Test kit** (`test-helpers.mjs`, `run-tests.mjs`). Runs suites one after another
on a ship in use, with a mock backend of their own. State: what the ship was set
to, the cleanups registered, the mock's process, the exit code. Hard: calls that
fail, an interrupt beside a running body. Correct if an exit with 0 means that
the checks passed and the ship is as it was.

**Demo agent, dashboards, desk plumbing, build.** No logic of their own that a
model would say anything about.

Interactions: deposits, melts and swaps share `spent`, `restore` and the
totals; deposits and melts share `pending`, `ln-config` and the cleanup; both
use the rules to read answers; keysets decide what may be signed and at which
fee; tessera's holder and issuer exchange pokes, gifts and acks; the suites run
against all of the mint and the mock, and the kit around the suites.

The hazards of this code, with the line each bites at and the properties that
cover it, are in `PROJECT.json` ("hazards").

## 2. Plan

Done, in this order: the two protocols that move money between the mint and
Lightning (`Melt`, `Deposits`) and their abstract promise (`Redemption`); the issuer
of `%tessera`; its holders over the network (`TesseraShips`); the mint's ledger with
amounts and keysets (`Ledger`, `P2pk`), run by any client (`OpenMint`) and by its suites against the mock
(`MockLnbits`, `Scripts`, `FreeClients`, `Suites`), and ledger and mock with any honest client
(`MintAndMock`); the harness (`TestKit`). Proofs about all of them.

How they compose. `MeltInv` maps `Melt` to `Redemption`. `MintAndMock` EXTENDS `OpenMint` and
`MockLnbits`, both on `Ledger` and `P2pk`, and `Suites` EXTENDS it and `FreeClients` with
`Scripts`: the ledger is a set of
operators from a state and a request to the state after, so one module says what
the mint does, and another what is going on around it. `Melt` and `Deposits` model
the same handlers in finer steps and in any environment, with time, failures and
two kinds of backend, but without amounts; `Ledger` has the amounts, without
time and with LNbits only. `TesseraShips` has the issuer reduced to what holders
can tell of `TesseraIssuer`.

Left: the ledger as a refinement of `Melt` and `Deposits`, and of a deposit
as "paid, then minted once or written off"; migration of states with and without inflight records, as a function
before `Melt`'s `Init`; the curve ladder over a small field.

## 3. Melts

### Model

`Melt` has one action per handler. The operator's and the wallets' requests:
`PostSwap`, `PostMeltQuote`, `PostMeltQuoteSelf`, `GetMeltQuote`, `PostMelt`,
`PostMeltSelf`, `AdminMeltAbort`, `AdminMeltAbortUnchecked`, `AdminQuoteDelete`,
`LnConfigure`. Answers: `LnMeltQuoted`, `LnMeltPaid`, `LnMeltChecked`,
`LnMeltAbort`, and `Cancel` for iris' `%cancel`. The clock: `RunCleanup`, `Tick`.
The node, external: `NodePay`, `NodeResolve`, `NodeReply`.

State against the code:

- `spent`, `inflight`, `change`, `ln`, `pending` are the agent's fields. `state`,
  `hash` and `age` are the parts of a melt quote that decide anything.
- `sigs[b]` counts signatures given for a blinded output; the keys of `restore`
  are the outputs with a count above 0. The code has no counter: it is there to
  see a second signature.
- `AttemptOf(q)` is `started` of the inflight record, the event time that tags
  a pay's wire; attempts are numbered in that order.
- `trip`, `pay` are the network and the node. `tries`, `burned` are history.
- `pending[w].reply` is the answer on its way back on a wire. Between the node's
  answer and its handling anything may happen.

Abstractions, and why they lose nothing the properties see:

- Amounts: `Spendable(ins)` is any non-empty set of unspent proofs; whether it
  covers the quote is the wallet's choice, and the shortfall error changes
  nothing. Change is any subset of the blanks: the amounts decide which.
- A body is what it tells the rules: `settled`, `failed`, `refused` (an LNbits 4xx
  without a payment hash), `decoded`, or `unclear` for the rest, among them a
  network error. An answer in the format of one backend read under the other
  is unclear, except that a 2xx with a preimage is proof under any
  (`PaySettled`).
- `age` has three values: before expiry, after it, and past `paid-melt-life`.
- Signature checks, keysets and P2PK conditions are taken as passed; failing
  ones leave the state alone.
- A node pays an invoice at most once, and may take it again after a failure.
  LNbits never reports that an outgoing payment failed, so under LNbits only a
  refusal of the pay rolls back; these are what the rules' comments rely on.

`InOrder` says that a check reaches the node after the pay it is about, and
`OperatorLooks` that an operator forces an abort only of a payment that the node
shows is not under way (the runbook's condition). They describe the world
around the mint; each is dropped in some run.

### What is checked

- `NoDoublePay`: proofs of an attempt whose payment is under way or settled are
  spent, and stay so.
- `NoLostProof`: whatever is spent was swapped, is owed by a pending melt, or
  was paid for.
- `InflightExact`: the inflight records are exactly the pending melts, and hold
  disjoint, spent proofs.
- `DecidedOnce`: a paid quote stays paid with its change; a proof comes back
  only by the failure of the pending melt that holds it.
- `KeepsPromise`: `Melt` implements `Redemption`.
- `SettledReconciles`, `FailedReconciles`: once a backend stays configured, polls
  decide a melt whose payment ended (failures under LND only).
- `IInv`, `CInv`: the inductive invariants of section 9.

| run | instance | shows |
|---|---|---|
| `melt_lnbits` | 2 quotes of 1 invoice, 1 proof, 1 output, 2 wires, 2 attempts | competing melts, late receipts, refusals, polls and forced aborts through LNbits |
| `melt_lnd` | 1 quote, 1 proof, 2 wires, 2 attempts, fairness | a retry while requests of the first attempt are out: the refinement, and liveness |
| `melt_any` | both nodes, no order, careless operator, self melts, 2 quotes | the mint's own books hold whatever the world does |
| `melt_reordered` | LND, a check may overtake its pay | finding 1 |
| `melt_blanks` | 2 proofs, 1 output | finding 2 |

Why these bounds. Each hazard of melts is between two attempts (of one quote,
or of two quotes of one invoice), two outstanding requests and one proof that
both want: two of each, or one shared thing, is the least instance in which it
happens, and a third attempt only repeats the relation of the second to the
first. `melt_any` has one wire, enough for a request to outlive its attempt; two
wires there and two nodes exceed what is practical, and the theorems cover them.
Outputs are absent where no property reads them. Deadlock is checked in every
run: the operator may always reconfigure.

### Fairness

`FairSpec` assumes: the agent handles an answer that arrived, and a node answers
somehow, perhaps unclearly (`WF`); a wallet polls its pending quote again and
again, a node asked again and again at some time tells what it knows, and not
every such answer is cancelled or read under another configuration (`SF`).
Gall handles every event and iris delivers each response once or cancels it; the
wallet's polling is the protocol's (NUT-05), and a status route that never answers
is a node that is down for good. Strong fairness is needed because polling can
be disabled by the wires being busy, by the quote failing and being melted
again, or by an unset configuration. Nothing is assumed of payments ending, of
the operator or of the clock.

### Findings

1. `melt_reordered`. LND's status is about a payment hash, not about an attempt.
   A check tagged with the retry that reaches LND before the retry's pay reads
   the first attempt's FAILED; the tag matches the attempt in flight, the retry
   is rolled back, and its pay goes out.
2. `melt_blanks`. A pending melt's blank outputs are in no record until it
   settles. A swap may have one signed, and the settlement signs it again,
   which the runbook says never happens to a recorded output.
3. `deposits_late`, in section 4, and 4. `tessera_window`, in section 5.

What a switch of the backend may do. Checks go to the backend configured now.
After a switch from LNbits, LND may know the same invoice from an earlier,
failed attempt, and its FAILED rolls back what LNbits is paying. No document
promises otherwise (the operator who switches with melts out takes that risk), so
this is no finding, and `NoDoublePay` is stated with one backend: `melt_lnbits`
checks it, `KeepsPromise` implies as much in `melt_lnd`, and the theorem
`NeverPaysTwice` covers each. With both, `melt_any` checks what remains true.

## 4. Deposits

### Model

`Deposits` counts time in ticks of a part of a day. Requests: `PostMintQuoteSelf`,
`PostMintQuote`, `GetMintQuote`, `PostMint`; answers: `LnMintCreated`,
`LnMintChecked`, `Cancel`; operator: `AdminQuoteDelete`, `AdminQuoteRevoke`,
`UpdateSelf`, `LnConfigure`; clock: `Tick`, `RunCleanup`. `Tick` lets time pass
until the timer of the cleanup is `Late` ticks overdue, so a cleanup fires on its
day boundary (`Late = 0`) or up to `Late` after it; it then sets the timer for the
next boundary as the code does. External: `NodeCreate`, `PayInvoice`, `NodeReply`.

`state`, `request` and `expiry` are the parts of a mint quote that matter;
`request` is a self quote's, none yet, an invoice's checking-id, or one that was
read in the wrong backend's format and so is known to no node. `issued` is
`total-issued-sats`, with the clamp of `admin-quote-revoke`. `until`, `home`, `paid` are
the nodes', `told`, `minted`, `revoked`, `checked` are history.

The invoice's lifetime is the quote's, counted from when the node makes it: the
code sends the same setting in both. A quote id is used once, as ids hash fresh
entropy. The lifetime is one constant in a behaviour, though the operator may
change the setting; each quote fixes its own at creation.

### What is checked

- `MintsBacked`: a quote mints at most once, and only when paid or self.
- `LedgerExact`: `total-issued-sats` is what was minted and not written off.
- `PaidKept`: a deposit known to be paid ends only by minting or write-off.
- `CheckedBeforeForgotten`: the cleanup drops an unpaid quote with an invoice
  only after it looked at it once past its expiry.
- `NoDepositLost`: a paid deposit is dropped only if there was no backend at its
  last check, that check got no usable answer, or the invoice outlived the quote.
  The three exceptions are real: TLC finds a behaviour for each when it is left
  out.

Run `deposits`: one quote, two wires, both backends, a day of 2 ticks, a lifetime
of 1, six ticks. Quotes meet only in the wires and in the total, so one quote
with two wires has every ordering of a poll, a last check and a switch of the
backend; three days are needed to create a quote, check it and drop it, and a
half day is enough for an expiry on and off the boundary. Run `deposits_late`: a
day of 4 ticks and a cleanup up to one tick late. A quote that expires right
after a punctual cleanup is more than a day past expiry at a late next one:
`recheck-mint-quote` no longer holds, `keep-mint-quote` still does, and the
cleanup after that drops it unseen. The comment on `keep-mint-quote` says that
the cleanup checks every such quote once.

## 5. The issuer of %tessera

### Model

`TesseraIssuer` is one service: services share nothing but the maps they are
kept in. Requests: `Request` (mint over HTTP, `%request` over Ames), `Use`
(`redeem`, `%verify`, and `%present` without a forward), `Present` (with one),
`Refresh`, and `Touch`, which stands for every request that passes
`resolve-service` and is then refused or only reads: it rotates the keyset all the
same. The served agent: `ForwardAcked`, `ForwardRefused`. The owner: `AdminCreate`,
`AdminUpdate`, `AdminActivate`, `AdminDelete`, `AdminBatch`. The clock: `Tick`, and
`Prune`, which the hourly timer, `on-load` and the owner may run at any time, so a
restart between any two events is among the behaviours (all state is persisted).

- `exists`, `active`, `set`, `closes`, `issued`, `redeemed` are fields of the
  service; `set` holds those that `apply-fields` takes from the owner. `kid` numbers
  the keysets in the order they are made, where the code has a hash of the key.
- A token is a keyset's number and a secret: `check-token` takes one if its id is
  the keyset's and the service signed it. What is signed is blind, so `Request`
  and `Refresh` sign any secrets, also one that was signed before or elsewhere.
- `spent` is the code's map flattened; a keyset with an empty set is a keyset without
  one. `forwards` are the pokes to the agent that it has not acked, with what
  the wire carries.
- An identity stands for a ship, a Clear-auth key, or all open clients; `allowed`
  for what `ship-ok` and `mint-identity` let in. `Owner` is this ship.
- `signed`, `claims` (times a token was burned and not given back), `counted`
  (tokens an identity got in the current quota period) are history. `counted` starts
  again when the owner changes the quota, as nothing is said of a change within
  a period.
- Signatures, token parsing and the checks of verifiers and agents only decide
  between acting and refusing.

### What is checked

- `UsedOnce`: no token is burned twice unless the agent it was burned for refused
  it. The hard case is a forward that is refused after a mode change, a refresh or a
  rotation.
- `SpentKept`: what rotation, pruning and refusals take out of `spent`, no request
  can use any more.
- `Supply`: the tokens still good are at most as many as were issued, so refreshes
  and refusals make nothing.
- `ForwardsCounted`: every forward that is out is counted in `redeemed`; the
  decrement for a refusal cannot crash, also across delete and re-creation.
- `QuotaKept`: in one period nobody gets more than the quota, whatever is pruned.
- `IssuerInv`: the inductive invariant.

Run `tessera_issuer`: two secrets (one to burn and one to renew it into), one
identity, one forward, four keysets, two tokens issued, four times. Three settings
differ in window, mode, quota, cap and expiry, and the owner may switch between
them at any time: windows of 2 over times 0 to 3 turn once, with the quota
periods on and off that boundary. Two forwards at once are left to the theorems.
No property needs fairness: nothing here must happen.

Run `tessera_window` (finding 4): `rotate` tells keysets apart by the time they
close. A window changed from 2 to 1 in the second half closes when the old one
does (a day changed to an hour after 23:00), and the tokens out keep working until
then. docs/tessera.md says that they stop at once.

## 6. Holders and ships of %tessera

### Model

`TesseraShips` has holders, one issuer, and Ames between them. A holder's actions:
`DoGet`, `DoUse`, `DoAsk` (a verifier's), `DoGive`, `DoAccept`, `DoDecline`, `TakeOut`. The
issuer's: `OnRequest`, `OnPresent`, `OnRefresh`, `OnVerify`, `TakeForward`; the clock and
the owner: `Turn`, `Switch`. Between ships: `OnTransfer` and `Nack`. What comes back:
`OnAnswer`, `LoseAnswer`, `TakeAck`.

- `wallet`, `offers`, `pend` are the agent's. A request is numbered in the order it
  was sent: `msg` says what it asks, `stage` where it is, `answer` whether its answer
  is on the way, `told` what the asker heard. `kid`, `active`, `spent`, `forwards`, `burnt` are what is
  left of the issuer.
- Ames delivers each poke exactly once and in order on a flow. A request has a
  wire of its own, on which its ack comes back; the issuer's answers to one ship
  share one wire. So an answer may come before or after its request's ack,
  answers come in order, and requests overtake each other.
- A crash is a nack, and a crash on an answer loses it; nothing else gets lost.
- A ship may choose the id of a request. `Careful` says that it uses an id again
  only after the last request under it was acked. The code asks only that
  nothing waits under it, which an answer before the ack ends. Then the late ack
  of the first request settles the second: without `Careful` TLC finds a give told
  done that never arrived. docs/tessera.md leaves ids to the asker and promises
  nothing of it, and the admin pages make a new one each time.
- Policy, quota and cap may refuse any request; `TesseraIssuer` says when.
- `judge` burns a fresh token only if the service is in burn mode (`Burn`). The owner may
  change the mode between any two requests, so every verdict chooses. A forward
  remembers in its wire whether its token was burned (`burnt`), and only then does the
  agent's refusal take it out of `spent`.

### What is checked

- `OneHolder`: a token is in one place: a wallet, an offer, out as a string, on its way.
- `FreshHeld`: no wallet, offer or returning request holds a token that was used up.
- `NothingLost`: a token that is signed, unspent and of the current keyset is
  somewhere, but for those in `letgo`: declined, used at a service in check
  mode (the issuer would take it again, but `do-use` dropped it from the wallet, and
  only a refusal brings it back), dropped by a failed accept (the code takes this
  loss: the offer goes before the refresh is answered), or lost with an answer that
  a ship crashed on. In particular a late answer does not replace
  newer tokens, which is so only because answers come in order.
- `GiveSettled`: done means that the receiver took the tokens, and every
  hand-over that is refused is told so.
- `PendOpen`: what waits is not over and can still be ended.
- `ShipsInv`: the inductive invariant of section 9.

Run `ships`: two holders (a giver and a receiver, or two givers of each other), two
secrets (a token and what an accept renews it into), two ids (one in use while
another ends), one rotation, three requests (issue, hand over, accept; or issue,
use, and a second request under the same id). BatMaxMint and MaxOffers are 1, so
that both limits on offers are reached. Nothing must happen (no property needs
fairness, and the bounded messages run out), so deadlock is not checked.

## 7. Ledger, suites and mock

### Model

`Ledger` has an operator per handler from the mint's state to its state after, an
answer, and the Lightning request that leaves: `Serve` routes a client's request to
it and `Answered` an answer of the backend. Checks are in the code's order, and the
first that fails names the error. Amounts, fees (in thousandths per input, rounded
up once), reserve, routing fee, change, both totals with their clamps, and keysets
are the code's. `P2pk` is `check-p2pk`, and beside it what a lock means (`MayOpen`).

`MockLnbits` is the mock with its modes. Its comment on lines 16 to 20 says that
a status GET of an unknown payment is a 404; for invoices the mock itself issued it
answers that they are not paid, and the model follows the code.

`OpenMint` is the ledger alone, with any client and any backend: any request that
reaches a handler (`Proper`) is served, and any answer to a question that the mint
asks (`Heard`) is heard, in any order and any number of times, whatever it says. What is
asked of a client is what the protocol rests on: amounts are natural numbers (bodies
that do not parse are refused before a handler), the names of quotes, invoices and
keysets are new (the code draws them at random), each blinded message is fresh, and none
is asked to be signed that is a blank of a melt still pending. The last is finding 2:
`melt_blanks` shows what happens otherwise. `Proper` and `Heard` are also guards of
`Suites`, and the check for deadlock shows that no script is held up by them.

`MintAndMock` puts the ledger and the mock together, with a call on its way between them
for each question the mint asks: it arrives (`Arriving`), is answered (`Answering`) and reaches
the mint (`Hearing`) whenever it may, in any order, or is lost (`Lost`). Any client
asks anything that is `Proper` and `Honest`. `Honest` is what a mint rests on and cannot
see to itself:

- the id of a new quote is new to the calls on their way too, and is no invoice of a
  stranger (the code draws ids at random, and the hash of an invoice stands for its
  quote here);
- an invoice that the mint is asked to pay is not the mint's own, is of one amount, and
  what was paid for it was that amount (an invoice is named by the hash of its contents);
- the reserve's floor covers the routing fee, `FeeMsat`, after a change of the settings as
  before (settings are natural numbers, as `admin-update-settings` parses them);
- nobody forces an abort of an attempt whose payment went through or is on its way
  (`PayFailed`, the runbook's condition; `Melt` has what happens otherwise).

`Scripts` has twelve suites and the demo as sequences of steps: what is asked, in
which order, and what is checked of the answers. `Suites` runs one of them, or
a client of `FreeClients` that asks anything it can at any time, against ledger
and mock. A suite waits for its answers; what it does not wait for is what the mint
asks Lightning behind an answer (a poll's check, a melt that is only begun), which
arrives at the mock (`Arrive`), is answered (`MockAnswers`) and reaches the mint
(`MintHears`) in any order with all the rest: the steps of `MintAndMock`, with what
the suite that waits does about them.

Abstractions. A delay of the mock is longer than the pauses between calls, and ends
before the suite's own wait for it does. Inputs and outputs are named; secrets that
a suite makes invalid are marked so. `conformance` models what its wallet library asks of
the mint; the denominations are the library's choice, and DLEQ proofs are left
out. Of `test-lightning`, the operator's connection test (lines 86 to 93) is left
out. Init has no inactive keyset. Quotes do not expire here. The demo's check that
nothing of an overpayment is lost may fail with reserve settings other than the
defaults, so it runs with those, as do the suites that state amounts.

### What is checked

- `ChecksPass`: every check of every suite holds in every order of answers.
- `Books`: issued plus change plus written off, less redeemed, is the worth of
  the spendable tokens, and no total was ever clamped.
- `Solvent`: what the mint owes (tokens, deposits not minted, inputs of open melts) is
  at most what came in less what it paid, if the routing fee (2 sats in the mock) is
  within the reserve and no abort is forced on a payment that goes through. Two quotes
  of one invoice are among the behaviours: one payment settles both. A melt to an
  invoice of the mint's own is not.
- `LocksHold`: a locked proof passes exactly for the keyholders its lock names.
- `TypeOK`: `Kept`, that the parts of the mint fit each other (section 9): one keyset
  signs, what was signed can be redeemed, the inflight records are the pending melts;
  and that calls are numbered.
- `Progress`: every step brings the end nearer, which with the check for deadlock says
  that every suite ends. It stands in for a liveness property, whose check would
  need the enabledness of all handlers in every state.

Run `suites`: each program with both reserve settings where it does not fix them;
the demo with 12, 100, 517 and 1000 sats (below, at and above powers of two and
the reserve's floor); denominations up to 2^10 (`TopBit`), so the ladder and the
limits are reached with small sums; polls of four tries, between which the mock
answers whatever it does not delay. Free clients: five requests about melts, of an
inflight, refused, failing or unclear backend; four about deposits; four
about keysets (also to deactivate one); and two about a locked proof, for each of 30 locks (thresholds 0
to 3 and unreadable, locktimes before, at and after the tick, refunds, a key in two
parities, eleven keys). A melt needs three requests to be opened, paid and
polled, so five let two of them meet.

## 8. The test kit

`TestKit` is `run`, `snapshot`, `startMock`, the cleanups and `run-tests`, one process
at a time. `Gates`, `Snapshot`, `Configure`, `Body`, `BodyEnds` and `Finally` are `run`;
`StartMock` and `MockStarts` are `startMock` up to the spawn and its loop;
`OwnCleanup`, `StopMock`, `RestoreSettings`, `RestoreLn`, `RestoreActive`, `Compare` are what the
registered cleanups do, last first; `NextSuite` is `run-tests`; `MockListens`, `ExitSeen` and
`MockGone` are the mock's process and the operating system. Any call may be refused, not
be delivered, or take effect with its answer lost.

A body may change settings and the active keyset, and one that uses Lightning may turn it off, give
the mint a wrong key and turn it on again, as `test-limits`, `test-lightning` and
`test-melt-pending` do (`Changes`); an error or an interrupt may come anywhere between.

`Interrupt` is SIGINT between any two awaits: it begins the cleanup, and the
body runs on beside it, as in the code. It may be sent to the suite alone, or by the
terminal, which sends it to the whole process group: the mock is spawned in it and has no handler,
nor has `run-tests`, so both end, and no further suite is run. Exit code 130 promises
nothing, so what a body still changes then is not held against it. A second SIGINT ends node at once
and is not modelled: one interrupt per suite.

The child's states are those that the stop (`test-helpers.mjs:269`) tells apart, and some it does not.
The stop does not wait if `exitCode` is set (`exited`: the port was taken). It is null of a child that runs
(`spawned`, `up`), and also of one that a signal ended (`killed`, and `gone` when node has
emitted its `exit`). Waiting for the `exit` of a `killed` child succeeds. Of a `gone` one it never
does: `finish` does not settle and the restore after it is not run. Node, with nothing
else under way, then ends by itself with exit code 13, as the suites await `run` at top level
(`Unsettled`). `exit` is emitted before the stop only if a body's own cleanup was awaited in
between, since the stop otherwise begins in the same turn as the interrupt.

A suite says what it needs: `Suite` has a record of `auth`, `mutates` and `ln`, and whoever
uses Lightning mutates, as all five do that set `ln`. (A suite with `ln` and without `mutates`
would not be put back after.)

- `ZeroIsClean`: exit code 0 means that no check failed and that the ship, its
  Lightning and its keyset are as they were found, and no mock is left.
- `CleanedInOrder`: the kit takes nothing away before a body's own cleanup: the ship is
  as the suite last changed it, and the mock is up, unless the terminal's interrupt killed it. It does not
  say that Lightning points at the mock: a body that failed while Lightning was off, or with the wrong key, has its
  own cleanup run so.
- `RunEnds`: every run ends, and no suite by code 13 unless the terminal's interrupt killed its mock.
  Fairness: one of the process' steps is taken if one
  can be (`WF` of their disjunction); node runs on, and every call is answered or
  throws. An interrupt need not come.

What the two exceptions mean for a user. After Ctrl-C at the terminal the mock is dead while own cleanups
run, so the comment at `test-melt-pending.mjs:18` (a melt is force-aborted "while the
mock is up") does not hold then; and the mint may be left pointed at the dead mock, with the exit code 13 and not
130. TLC reaches both (an invariant that excludes code 13, or a dead mock or Lightning off at an own
cleanup, is violated within a second). Exit code 0 is not affected.

Run `testkit`: one or two suites, of the kinds that read only, change settings, or
use Lightning; two steps of a body (enough for a cleanup registered and Lightning switched), two calls
that fail in each suite (one in the body and one in a cleanup), a port that is free or taken, an operator with
Lightning of his own.

## 9. Proofs

TLAPS checks every theorem for every value of the constants (any number of
quotes, proofs, wires, attempts, ticks, secrets, settings), from the constants' named assumptions
only (`MeltAssumption`, `DepositAssumption`, `IssuerAssumption`, `ShipsAssumption`,
`NoAnswer`, `LedgerAssumption`, `SuitesAssumption`, `TestKitAssumption`) and what each theorem assumes.

**`IInv`, melts in any environment** (`Invariance`). `InflightExact` and
`NoLostProof` are not inductive by themselves: that a rollback gives back only
its own proofs needs that the inflight record belongs to the open attempt of its
quote (`Open`, `Numbered`); that a settled melt was paid for needs that what is on
the wires is true (`Asked`) and that a payment belongs to a pay on its invoice
(`Backed`); that nothing else un-spends needs `Kept`. The proof has a lemma per
handler, built on lemmas for sending, taking an answer, settling and rolling
back. `TypeCorrect`, `ProofsAccountedFor`, `InflightCorrect` follow, and
`DecisionsFinal` is an action property proved from it.

**`CInv`, melts in a cautious environment** (`CautiousInvariance`, assuming
`Cautious`: one backend; LND in order; an operator who looks). It adds that any
answer or command which could roll an attempt back is about a dead one: its pay
is not on the way, and no payment that it started is live or settled. Deadness
is stable (a dead attempt's payment cannot start, and a later attempt takes the
invoice over under its own number), and the tag test (`ThisAttempt`) makes the
handler apply the answer to that very attempt. `NeverPaysTwice` follows, and
`MeltsKeepPromise` shows the refinement of `Redemption`: each action maps to one
of its steps or to a stutter under the mapping in `MeltInv`. Finding 1 and the
case of a switched backend (section 3) show that the assumptions are needed.

**`DInv`, deposits** (`DepositsInvariance`, any lateness). For `MintedOnce` and
`PaidDepositsKept`: the create request of a quote is alone (`Asked`), what a node
said was true, and a quote's state says how often it minted (`Counted`). With a
punctual timer (`Late = 0`), `Scheduled` and `Looked` say that every unpaid quote
a day past its expiry at the next cleanup was looked at in this one, which gives
`LookedBeforeForgotten`; `LastWord` says that the answer to a last check is final
unless the invoice outlives the quote, which gives `DepositsNotLost`.

`LedgerExact` is about a sum over the quotes that minted. What a fold computes cannot be
proved by induction over the set, as the library's induction takes an operator. But a
sum of natural numbers is the size of a set: of one unit `<<q, n>>` for each `n` from 1
to the amount of `q`. `SumProofs` shows once that the library's `SumFunctionOnSet` is that,
by taking a smallest set for which it would not be, and from there a
sum grows by what is added, as sizes of disjoint sets do. `IssuedExact` then adds to `DInv`
what each handler writes into the total.

**`IssuerInv`, the issuer** (`IssuerInvariant`, any settings, secrets, identities
and forwards). `UsedOnce` needs that a burned token which is not in `spent` can
never be taken again (`Claimed`): its keyset is not the service's, or closes at a
time that is past, and then the next request rotates it away (`WindowCloses`: a
window closes after every time in it). For refusals, a token that waits for an
agent was burned for that forward only (`Forwarded`). `Supply` needs to count
the tokens that a refusal may bring back with those that are good (`Supplied`), and
`QuotaKept` that `used` has the count of this period (`Quotas`, with `SamePeriod` on
the division). Two lemmas carry the handlers: what a rotation with signing
preserves (`Minted`), and what burning with renewal does (`Burned`). All six
properties of the run are proved.

**`ShipsInv`, holders and ships** (`ShipsCorrect`, any ships, secrets, ids, limits,
windows and messages, assuming `Careful`). Its first half, `Protocol`, ties `pend` to the
network: what may still come back for a request waits under its own id (`Open`), and
until a request's ack is heard no later one is under its id (`Serial`). The second is
all that needs `Careful`; `PendingOpen` and `GivesSettled` follow. Its second half says
where tokens are. Every step moves tokens between at most two places (`Shift` in the
proofs), which gives `TokensApart`; the issuer's step on a request (`Verdict`) is one
shape for its four handlers. What the issuer signs is nowhere yet, since blinds on
their way are in no token and in no other request (`Secret`). `HeldUnspent` needs that
a token is never of a keyset to come (`Aged`): a rotation which forgets the spent set
makes every older token dead. `TokensKept` needs that a token burned for an agent
is in the spent set until the agent refuses it (`Burned`), and that an answer is of a
keyset at least as new as any token its ship has or may get back (`Ordered`): so the
tokens that `on-answer` drops are dead.

**Locks** (`LocksOpenAsMeant`). For every lock, list of signatures and time, `check-p2pk`
lets a proof pass exactly if enough distinct keyholders of those it names signed: the
code's count of valid keys reaches the number asked for if and only if there is a team
of as many.

**`Kept`, the ledger** (`OpenKept`: any clients, any amounts, any answers, any denominations;
from `OpenMint`). `Books` relates two totals that only ever grow to what is signed and
unspent, over swaps, melts, rollbacks, change and write-offs, and is not inductive: a
rollback has to know that what it gives back is the worth of what it takes out of
`redeemed`, and a deposit that is revoked has to be within `issued`. `Kept` has six parts.
`Shaped` and `OneSigns` are the fields and the one active keyset. `SignedFit`: each
message was signed once (so what was signed can be summed over messages), for a
denomination, under a keyset the mint still has. `QuotesFit`: inflight records are the
pending melts, change is of paid ones. `FlightsFit`: the inputs of a pending melt are spent
and no other's, its `total` is what they are worth, and its blanks are not signed yet. And
`Accounted`: all that is signed is issued, written off or change; all that is spent is
redeemed; the deposits minted are within `issued`. There is a lemma for each of the
handlers, on lemmas for signing, spending, settling and rolling back, each of which adds to
the sums what it adds to the totals. `OpenBooks` follows: `Books` holds whatever wallets
ask, whatever the operator sets and whatever Lightning says.

**The suites** (`SuitesTypeOK`, `SuitesBooks`, `SuitesLocks`, `SuitesProgress`: any suites,
reserves, locks, number of polls and of requests). A step of `Suites` is one of `OpenMint` or
leaves the mint alone, so `Kept` and `Books` carry over. `LocksHold` is `LocksOpenAsMeant`
applied to proofs that the mint signed. `Progress` needs that what is left to do for
Lightning (`Work`, a sum) falls with every step that an answer takes.

**`SolventInv`, what the mint has and owes** (`OpenFits`, `OpenSolvent`: any honest
clients, any amounts, fees and settings that cover the routing fee, any order of
calls and answers; from `MintAndMock`). `Solvent` compares the mint's books with the mock's, and
no handler sees both. `SolventInv` adds to `Kept`:

- `DepositsAgree`, `MeltsAgree`: a deposit by Lightning is worth its invoice; a melt by
  Lightning is settled only if its invoice was paid, asks for at least its worth and a reserve
  that covers the fee, and the inputs in flight cover amount, reserve and excess;
- `Foreign`: deposits and invoices of others share no name, and an invoice is paid
  at its worth, so one payment answers for every melt of its invoice;
- `CallsFit`: what a call on its way asks is still so when it is answered, and what its answer
  says is true. For a pay: it was made, or the attempt it is for is still in flight;
- `PaymentsHeld`: for each payment some melt was settled, or holds its inputs and no call
  on its way can roll it back (`Safe`);
- `Balance`: what was put into circulation, is owed besides or was paid out is at most what
  came in or back, with each payment that a settled melt noticed at its cost.

`PaymentsHeld` is the heart of it. A melt is rolled back by a refusal of its pay or a forced
abort (`Doomed`). The mock refuses an invoice that it has paid already, also for a second quote of
the same invoice: the second melt is rolled back, so the payment has to be held by the first,
and it is, since each attempt sends one pay and that one went through.
The proof has three layers. How the mint moves, for each handler (`Moves`: deposits, melts and
records in flight change only so, and the balance with them); what a new call joins
(`Joins`); and what the mock's steps do to calls and books (`PaidFits`, `IssuedFits`, `MarkedFits`).
`OneMore` says what a change of one record does to a sum. When all payments are noticed or held,
`Balance` and `Books` give `Solvent` (`InvSolvent`). Before the proof TLC checked `SolventInv` on
the free clients of run `suites` (365,691 states).

The clients of `FreeClients` are honest (`FreeSolvent`: up to eight requests, as there are eight
names). `Named` says that whatever is named bears the name of a request that was made, and all
that is asked to be paid is the one invoice of a stranger; so each name is new (`OwnHonest`). Each
of their steps in `Suites` is one of `MintAndMock` (`FreeKeeps`). It assumes that each
reserve in `Reserves` covers the routing fee, as both of the run do.

**`KitInv`, the test kit** (`ExitTrusted`, `CleanedFirst`: any suites one after another,
bodies of any length, any cleanups, calls that fail anywhere, an interrupt at any time, of the suite alone or
of the mock too).
What a cleanup still has to do is a sequence made from a sequence, last first
(`OrderOfCleanups`, about the fold `FlattenSeq`): own steps, then the mock's stop, then the
restore with its comparison. `Finishing` says that it stays so while it is worked off,
beside a body that runs on. If the run itself began it and nothing failed, the comparison
is its last call (`ComparedLast`) and the mock is alive only if it will be stopped, so whatever
ends with 0 has compared what it found. `Given` is what own cleanups find: since restore and stop come
after them in what is to do, only the body changes the ship before, and only a signal ends the mock. If the interrupt began it, the code is 130; that
the run's own `finish` cannot have come first while a body runs (`Led`) is the reason that a
body cannot change the ship after a comparison that counts.

**Only model-checked**: liveness (`SettledReconciles`, `FailedReconciles`, `RunEnds`), which the
prover does not reach; `ChecksPass`, as the scripts are finite programs that TLC runs in
full; and `Solvent` for those scripts, as to show that each step of each script is honest is
as much as running it.

## 10. Not modelled

Not yet: what section 2 lists as left. Not at all: elliptic-curve arithmetic and
DLEQ (number theory; valid signatures are taken for granted, and so the suites of
vectors), HTTP parsing and rendering, sessions and cookies (no state of the
protocols), migration of older states (a fresh mint never runs it), dashboards, the
example agent, vendored plumbing, the build script, and the suites of `%tessera`: they check
single answers of what `TesseraIssuer` and `TesseraShips` model in every order.
Operators that delete an unpaid-looking quote whose invoice was just paid are
modelled, and nothing in the code prevents it; no property is stated, since no
document promises it.
