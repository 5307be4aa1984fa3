-------------------------------- MODULE Suites --------------------------------
(***************************************************************************)
(* A client, the mint and the mock LNbits, run together.  A client is a      *)
(* suite, the demo, or one that follows no script (FreeClients).  A suite    *)
(* asks one thing at a time and waits; what it does not wait for is what the *)
(* mint asks Lightning behind its answers, and the two requests that         *)
(* test-melt-pending leaves open on purpose.  Those calls arrive at the      *)
(* mock, are answered, and reach the mint whenever they may.  A free client  *)
(* waits for nothing.                                                        *)
(*                                                                         *)
(* Time, for a suite: a call that is not delayed is answered within a sleep, *)
(* or between two polls; a request left open is answered, delayed by 4 s,    *)
(* when the suite waits for it.                                              *)
(***************************************************************************)
EXTENDS FreeClients, MintAndMock

CONSTANTS
  Programs,   \* the suites, the demo by its amount, and free clients
  Reserves,   \* reserve settings a mint may have: basis points and floor
  Tries       \* bound: how often a poll asks (40 in the code)

\* a lock that can be written down: lists of keys, and numbers that may not read
IsLock(lock) ==
  /\ lock.kind # Blank
  /\ IsList(lock.pubkeys) /\ IsList(lock.refund)
  /\ {lock.nSigs, lock.nRefund, lock.locktime} \subseteq Int

ASSUME SuitesAssumption ==
  /\ Tries \in Nat \ {0}
  /\ \A p \in Programs : p.name = "locks" => IsLock(p.lock)

\* The amount of a free client is the bound on what it asks.
Free(p) == p.name \in {"melts", "deposits", "keysets", "locks"}

VARIABLES
  program,  \* what runs
  made,     \* how many there were
  pc,       \* step of the script
  waiting,  \* the step waits for its answer
  tries,    \* polls made by this step
  got,      \* answers so far
  failed    \* steps whose check failed

vars == <<program, mint, mock, calls, made, pc, waiting, tries, got, failed>>

x == [got |-> got, pays |-> mock.payCount, mints |-> mint.mints, melts |-> mint.melts,
      keysets |-> mint.keysets]

UsesLn(p) == p.name \in {"lightning", "melt-fee", "melt-pending", "limits", "conformance"}

Body(p) ==
  CASE p.name = "self-method"   -> SelfMethod(x)
    [] p.name = "e2e"           -> E2E(x)
    [] p.name = "melt-fee"      -> MeltFee(x)
    [] p.name = "restore"       -> Restore(x)
    [] p.name = "ladder"        -> Ladder(x)
    [] p.name = "lightning"     -> Lightning(x)
    [] p.name = "melt-pending"  -> MeltPending(x)
    [] p.name = "limits"        -> Limits(x)
    [] p.name = "admin"         -> Admin(x)
    [] p.name = "swap-security" -> SwapSecurity(x)
    [] p.name = "p2pk"          -> P2PK(x)
    [] p.name = "conformance"   -> Conformance(x)
    [] p.name = "demo"          -> Demo(x, p.amount)
    [] Free(p)                  -> <<>>

Cleanup(p) ==
  CASE p.name = "lightning"    -> LightningEnd(x)
    [] p.name = "melt-pending" -> MeltPendingEnd(x)
    [] p.name = "limits"       -> LimitsEnd(x)
    [] OTHER                   -> <<>>

\* run, with snapshot: the settings are read first and put back last, and
\* the last registered is the first cleaned up
Script ==
  LET p == program
      before == Got(x, "before")
      settings == [self |-> before.self, bps |-> before.bps, floor |-> before.floor]
  IN IF p.name = "demo" \/ Free(p) THEN Body(p)
     ELSE FlattenSeq(<<
       Do("before", [op |-> "settings"], Fine), Do("active", [op |-> "keys"], Fine),
       IF UsesLn(p) THEN Configure("lnbits") ELSE <<>>,
       Body(p),
       Cleanup(p),
       IF UsesLn(p) THEN <<[kind |-> "stop"]>> \o Configure("none") ELSE <<>>,
       Do("set", [op |-> "set-settings", set |-> settings, bad |-> Pass], <<>>),
       IF mint.active = Got(x, "active").id THEN <<>>
       ELSE Do("activate", [op |-> "activate", id |-> Got(x, "active").id], <<>>),
       Do("after", [op |-> "settings"], settings),
       Check(mint.active = Got(x, "active").id /\ (UsesLn(p) => mint.ln = "none"))>>)

Init ==
  /\ program \in Programs
  /\ \E r \in IF program.name \in {"demo", "melt-fee", "melt-pending", "lightning", "conformance"}
              THEN {[bps |-> 100, floor |-> 10]} ELSE Reserves :
       mint = IF Free(program) THEN FreeMint(r.bps, r.floor)
              ELSE [NewMint(r.bps, r.floor, 0) EXCEPT !.ln = IF program.name = "demo" THEN "lnbits" ELSE "none"]
  /\ mock = NewMock
  /\ calls = <<>> /\ made = 0
  /\ pc = 1 /\ waiting = FALSE /\ tries = 0
  /\ got = <<>> /\ failed = {}

-----------------------------------------------------------------------------
(* The suite. *)

\* an answer as it was wanted
Matches(answer, want) ==
  \A f \in DOMAIN want : f \in DOMAIN answer /\ answer[f] = want[f]

Next1 == pc' = pc + 1 /\ waiting' = FALSE /\ tries' = 0
Fail(ok) == failed' = IF ok THEN failed ELSE failed \cup {pc}

\* the answer of a step: it is kept and checked
Take(step, answer) ==
  /\ got' = Put(got, step.as, answer)
  /\ Fail(Matches(answer, step.want))
  /\ Next1

Nobody == "nobody"

\* A call goes out; asker: who waits for its answer, or Nobody.
Called(call, asker) ==
  IF call.kind = "none" THEN UNCHANGED <<calls, made>>
  ELSE /\ made' = made + 1
       /\ calls' = Put(calls, made + 1, NewCall(call, asker))

Quick == {i \in DOMAIN calls : ~(calls[i].stage = "arrived" /\ calls[i].slow)}

\* ask the mint, and take its answer if it does not wait for Lightning
Ask1(step) ==
  /\ step.kind = "do" /\ Proper(mint, step.req)
  /\ LET s == Serve(mint, step.req) IN
     /\ mint' = s.mint
     /\ IF s.answer = Later
        THEN Called(s.call, "suite") /\ waiting' = TRUE /\ UNCHANGED <<pc, tries, got, failed>>
        ELSE Called(s.call, Nobody) /\ Take(step, s.answer)
  /\ UNCHANGED mock

\* poll: the state it waits for, or the last try's answer
PollStep(step) ==
  /\ step.kind = "poll" /\ Proper(mint, step.req)
  /\ tries > 0 => Quick = {}
  /\ LET s == Serve(mint, step.req)
         over == Matches(s.answer, step.want) \/ tries + 1 = Tries
     IN /\ mint' = s.mint
        /\ Called(s.call, Nobody)
        /\ IF over THEN Take(step, s.answer)
           ELSE tries' = tries + 1 /\ UNCHANGED <<pc, waiting, got, failed>>
  /\ UNCHANGED mock

StartStep(step) ==
  /\ step.kind = "start" /\ Proper(mint, step.req)
  /\ LET s == Serve(mint, step.req) IN mint' = s.mint /\ Called(s.call, step.as)
  /\ Next1
  /\ UNCHANGED <<mock, got, failed>>

AwaitStep(step) ==
  /\ step.kind = "await" /\ step.as \in DOMAIN got
  /\ Fail(Matches(got[step.as], step.want))
  /\ Next1
  /\ UNCHANGED <<mint, mock, calls, made, got>>

\* steps that ask nothing of the mint
LocalStep(step) ==
  /\ \/ step.kind = "check" /\ Fail(step.ok) /\ UNCHANGED <<mock, calls, got>>
     \/ step.kind = "until" /\ step.ok /\ UNCHANGED <<mock, calls, got, failed>>
     \/ step.kind = "sleep" /\ Quick = {} /\ UNCHANGED <<mock, calls, got, failed>>
     \/ /\ step.kind = "count"
        /\ got' = Put(got, step.as, [pays |-> mock.payCount, quotes |-> Cardinality(DOMAIN mint.mints)])
        /\ UNCHANGED <<mock, calls, failed>>
     \/ step.kind = "mode" /\ mock' = SetModes(mock, step.set) /\ UNCHANGED <<calls, got, failed>>
     \/ /\ step.kind = "paid" /\ step.hash \in DOMAIN mock.invoices
        /\ mock' = MarkPaid(mock, step.hash) /\ UNCHANGED <<calls, got, failed>>
     \* the mock is killed: what it has not answered is cancelled, which
     \* changes nothing
     \/ step.kind = "stop" /\ calls' = <<>> /\ UNCHANGED <<mock, got, failed>>
  /\ Next1
  /\ UNCHANGED <<mint, made>>

SuiteStep ==
  /\ ~waiting
  /\ LET script == Script
         step == script[pc]
     IN pc <= Len(script)
        /\ (Ask1(step) \/ PollStep(step) \/ StartStep(step) \/ AwaitStep(step) \/ LocalStep(step))
  /\ UNCHANGED program

-----------------------------------------------------------------------------
(* A free client.  A request that is refused changes nothing. *)

FreeStep ==
  /\ Free(program) /\ pc <= program.amount
  /\ \/ /\ \E r \in Requests(program, mint, pc) :
             Proper(mint, r) /\ LET s == Serve(mint, r) IN
             /\ s.mint # mint \/ s.call # NoCall
             /\ mint' = s.mint
             /\ Called(s.call, Nobody)
        /\ UNCHANGED mock
     \* the clock, which only locktimes read
     \/ /\ program.name = "locks"
        /\ mint' = [mint EXCEPT !.now = @ + 1]
        /\ UNCHANGED <<mock, calls, made>>
     \/ /\ \/ \E set \in Modes(program.name) : mock' = SetModes(mock, set)
           \/ \E h \in DOMAIN mock.invoices : mock' = MarkPaid(mock, h)
        /\ mock' # mock
        /\ UNCHANGED <<mint, calls, made>>
  /\ pc' = pc + 1
  /\ UNCHANGED <<program, waiting, tries, got, failed>>

-----------------------------------------------------------------------------
(* Lightning. *)

Arrive(i) ==
  /\ Arriving(i)
  /\ UNCHANGED <<program, mint, made, pc, waiting, tries, got, failed>>

\* a request left open is delayed until the suite waits for it
Due1(i) ==
  LET c == calls[i]
  IN c.slow /\ c.asker \notin {Nobody, "suite"} =>
       pc <= Len(Script) /\ Script[pc].kind = "await" /\ Script[pc].as = c.asker

MockAnswers(i) ==
  /\ Due1(i) /\ Answering(i)
  /\ UNCHANGED <<program, mint, made, pc, waiting, tries, got, failed>>

\* Mutant: a question put behind an answer is put again and again.
MintHearsAgain(i) ==
  /\ calls[i].stage = "answered" /\ Heard(mint, calls[i].call)
  /\ LET c == calls[i]
         s == Answered(mint, c.call, c.answer)
     IN /\ mint' = s.mint
        /\ IF c.asker = "suite" THEN Take(Script[pc], s.answer)
           ELSE /\ got' = IF c.asker = Nobody THEN got ELSE Put(got, c.asker, s.answer)
                /\ UNCHANGED <<pc, waiting, tries, failed>>
        /\ calls' = IF c.asker = Nobody THEN [calls EXCEPT ![i].stage = "sent"] ELSE Del(calls, i)
  /\ UNCHANGED <<program, mock, made>>

MintHears(i) ==
  /\ Hearing(i)
  /\ LET asker == calls[i].asker
         answer == Answered(mint, calls[i].call, calls[i].answer).answer
     IN IF asker = "suite" THEN Take(Script[pc], answer)
        ELSE /\ got' = IF asker = Nobody THEN got ELSE Put(got, asker, answer)
             /\ UNCHANGED <<pc, waiting, tries, failed>>
  /\ UNCHANGED <<program, mock, made>>

Done == pc > Len(Script) /\ DOMAIN calls = {} /\ UNCHANGED vars

Next ==
  \/ SuiteStep
  \/ FreeStep
  \/ \E i \in DOMAIN calls : Arrive(i) \/ MockAnswers(i) \/ MintHears(i)
  \/ Done

Spec == Init /\ [][Next]_vars

-----------------------------------------------------------------------------
(* Properties. *)

\* The mint's parts fit, and so do its totals (Kept); calls are numbered.
TypeOK ==
  /\ Kept(mint)
  /\ {made, tries} \subseteq Nat
  /\ DOMAIN calls \subseteq 1..made
  /\ \A i \in DOMAIN calls :
       /\ DOMAIN calls[i] = {"call", "asker", "stage", "mode", "slow", "answer"}
       /\ calls[i].stage \in {"sent", "arrived", "answered"}

\* Every check of every suite holds, whenever the answers the suite does not
\* wait for reach the mint, and whatever reserve settings the mint has.
ChecksPass == failed = {}

\* A locked proof can be spent by whom its lock means and by nobody else: as
\* many distinct keyholders as it asks for, of those it names until its
\* locktime, and then of its refund keys, or anyone if it names none.
LocksHold ==
  program.name = "locks" =>
    \A b \in DOMAIN mint.signed \ mint.spent : \A w \in Witnesses :
      LET proof == Locked(ProofOf(mint, b), program.lock, w)
          signers == IF Len(w) > MaxKeys THEN {} ELSE {w[i] : i \in DOMAIN w}
      IN VerifyProofs(mint, <<proof>>) = Pass <=> MayOpen(program.lock, signers, mint.now)

\* How much is left to do for Lightning
Work == Total([i \in 1..made |->
          IF i \notin DOMAIN calls THEN 0
          ELSE [sent |-> 3, arrived |-> 2, answered |-> 1][calls[i].stage]])

\* Every step brings the end nearer: it takes the client a step on, or to
\* another try of a poll (of a bounded number), or to waiting, or it takes one
\* call nearer its answer.  Nothing stops before a suite is over and every call
\* is answered (Done, with the check for deadlock), so every suite ends.
Progress ==
  [][\/ pc' > pc
     \/ pc' = pc /\ tries' > tries
     \/ pc' = pc /\ tries' = tries /\ ~waiting /\ waiting'
     \/ UNCHANGED <<pc, tries, waiting>> /\ Work' < Work]_vars
=============================================================================
