------------------------------ MODULE FreeClients ------------------------------
(***************************************************************************)
(* Clients that follow no script: wallets and an operator who ask for         *)
(* anything, at any time, also while Lightning is being asked.  What they may *)
(* ask is drawn from the mint's state: any proof ever signed, spent or not,   *)
(* any quote there is, and one invoice of a stranger.  The operator forces no *)
(* abort (Melt has what that takes).                                          *)
(***************************************************************************)
EXTENDS Scripts, FiniteSetsExt

\* a mint that has issued some tokens already
FreeMint(bps, floor) ==
  LET m0 == [NewMint(bps, floor, 0) EXCEPT !.self = TRUE, !.ln = "lnbits"]
      m1 == PostMintQuote(m0, SelfQuote("t", 8)).mint
  IN PostMint(m1, MintOver("self", "t", Outputs("t", <<4, 4>>, "k0"))).mint

\* names for what the n-th request makes
Name(n) == <<"n1", "n2", "n3", "n4", "n5", "n6", "n7", "n8">>[n]

\* the proof of a signed output
ProofOf(m, b) == [b |-> b, amount |-> m.signed[b].amount, id |-> m.signed[b].id, long |-> FALSE,
                  lock |-> NoLock, sigs |-> <<>>]
\* one or two proofs, as a wallet lists them
Hands(m) == {<<ProofOf(m, b)>> : b \in DOMAIN m.signed}
            \cup {<<ProofOf(m, s[1]), ProofOf(m, s[2])>> :
                  s \in {SetToSeq(u) : u \in kSubset(2, DOMAIN m.signed)}}

Stranger == Bolt11("stranger", 1500)

MeltRequests(m, n) ==
  {LnOut(Name(n), Stranger), SelfOut(Name(n), 1)}
  \cup {GetMelt(q) : q \in DOMAIN m.melts}
  \cup UNION {{MeltOver(m.melts[q].method, q, ins, Blanks(Name(n), 2)) : ins \in Hands(m)} : q \in DOMAIN m.melts}

DepositRequests(m, n) ==
  {SelfQuote(Name(n), 3), LnQuote(Name(n), 2)}
  \cup {GetMint(q) : q \in DOMAIN m.mints}
  \cup UNION {{MintOver(method, q, Outputs(Name(n), Split(m.mints[q].amount, TopBit), m.active)) :
                method \in {"self", "bolt11"}} : q \in DOMAIN m.mints}

SwapRequests(m, n) ==
  {Swap(ins, Outputs(Name(n), Split(AmountTotal(ins) - ComputeFee(m, ins), TopBit), id)) :
    ins \in Hands(m), id \in DOMAIN m.keysets}

\* Who may sign for a locked proof: a keyholder, two others, an empty string
Hand == {"a", "b", "c", Blank}
\* and who does: up to two of them, or one more signature than are read
Witnesses == (UNION {[1..k -> Hand] : k \in 0..2}) \cup {[i \in 1..11 |-> "a"]}
LockRequests(m, n, lock) ==
  {Swap(<<Locked(ProofOf(m, b), lock, w)>>, Outputs(Name(n), <<m.signed[b].amount>>, m.active)) :
    b \in DOMAIN m.signed, w \in Witnesses}
  \cup {SelfOut(Name(n), 4)}
  \cup {MeltOver("self", q, <<Locked(ProofOf(m, b), lock, w)>>, <<>>) :
         q \in DOMAIN m.melts, b \in DOMAIN m.signed, w \in Witnesses}

\* what one kind of client asks for: everything about melts, about deposits,
\* about keysets, or about proofs under a lock
Requests(p, m, n) ==
  LET name == p.name IN
  CASE name = "locks" -> LockRequests(m, n, p.lock)
    [] name = "melts" ->
         MeltRequests(m, n)
         \cup {Abort(q, FALSE) : q \in DOMAIN m.melts} \cup {Delete("melt", q) : q \in DOMAIN m.melts}
         \cup {[op |-> "configure", ln |-> ln] : ln \in {"none", "lnbits"}}
    [] name = "deposits" ->
         DepositRequests(m, n)
         \cup {Delete("mint", q) : q \in DOMAIN m.mints} \cup {Revoke(q) : q \in DOMAIN m.mints}
         \cup {[op |-> "set-settings", set |-> [self |-> ~m.self], bad |-> Pass]}
    [] name = "keysets" ->
         SwapRequests(m, n) \cup {SelfOut(Name(n), 1), SelfQuote(Name(n), 3)}
         \cup {r \in MeltRequests(m, n) : r.op = "melt"}
         \cup {r \in DepositRequests(m, n) : r.op = "mint"}
         \cup {[op |-> "set-fee", id |-> k, fee |-> 500, new |-> Name(n), bad |-> Pass] : k \in DOMAIN m.keysets}
         \cup {[op |-> op, id |-> k] : op \in {"activate", "deactivate"}, k \in DOMAIN m.keysets}
         \cup {[op |-> "generate", new |-> Name(n)]}

\* how the backend may come to answer
Modes(name) ==
  CASE name = "melts"    -> {[pay |-> p] : p \in {"inflight", "500", "400", "400-hash"}}
    [] name = "deposits" -> {[invoice |-> "500"]}
    [] name \in {"keysets", "locks"} -> {}
=============================================================================
