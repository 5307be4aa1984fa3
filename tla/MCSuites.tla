------------------------------- MODULE MCSuites -------------------------------
EXTENDS Suites

\* Locks of a, and of a with others: thresholds from 0 to 3 and unreadable, a
\* locktime between two ticks, refunds, a key in both parities, eleven keys
MCLocks ==
  LET a == <<"a", "02">>  b == <<"b", "02">>  c == <<"c", "03">>
      one == P2pkLock(a, <<>>, 1)
      both == P2pkLock(a, <<b>>, 2)
      timed == {[l EXCEPT !.locktime = t] : l \in {one, both}, t \in {Unreadable, 0, 1, 2}}
      refunds == {[l EXCEPT !.locktime = 1, !.refund = r, !.nRefund = n] :
                    l \in {one}, r \in {<<c>>, <<b, c>>, <<c, <<"c", "02">>>>}, n \in {Unreadable, 0, 1, 2}}
  IN timed \cup refunds
     \cup {P2pkLock(a, <<b, c>>, n) : n \in {Unreadable, 0, 1, 2, 3}}
     \cup {P2pkLock(a, <<<<"a", "03">>>>, 2), P2pkLock(a, [i \in 1..10 |-> b], 1)}
     \cup {[one EXCEPT !.sigflag = "SIG_ALL"], [one EXCEPT !.kind = "HTLC"],
           [one EXCEPT !.kind = "HTLC", !.locktime = 1]}

MCPrograms ==
  {[name |-> n, amount |-> 0] : n \in {"self-method", "e2e", "melt-fee", "restore", "ladder",
     "lightning", "melt-pending", "limits", "admin", "swap-security", "p2pk", "conformance"}}
  \cup {[name |-> "demo", amount |-> a] : a \in {12, 100, 517, 1000}}
  \cup {[name |-> "melts", amount |-> 5], [name |-> "deposits", amount |-> 4],
        [name |-> "keysets", amount |-> 4]}
  \cup {[name |-> "locks", amount |-> 2, lock |-> l] : l \in MCLocks}
MCReserves == {[bps |-> 100, floor |-> 10], [bps |-> 0, floor |-> 2]}
=============================================================================
