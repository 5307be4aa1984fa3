------------------------------ MODULE TestKitInv ------------------------------
(***************************************************************************)
(* The inductive invariant behind TestKit's safety properties.              *)
(***************************************************************************)
EXTENDS TestKit

Cleanups == {"own", "mock", "restore"}
CallNames == {"own", "stop"} \cup Restoring

Ships == [settings : {"set", "changed"}, ln : {"none", "real", "mock", "wrong"}, active : {"k0", "k1"}]
\* who is where, of what kind
Process ==
  [at : {"gates", "snapshot", "mock", "starting", "configure", "body", "finally", "waiting", "exited"},
   before : Ships, left : Ships,
   cleanups : Seq(Cleanups), finishing : BOOLEAN, todo : Seq(CallNames),
   waiters : Seq({"run", "sigint"}),
   child : {"none", "spawned", "up", "exited", "killed", "gone", "stopped"},
   failed : BOOLEAN, interrupted : BOOLEAN, code : {0, 1, 13, 130}, steps : Nat, faults : Nat]

Result == [code : {0, 1, 13, 130}, failed : BOOLEAN, mock : BOOLEAN, killed : BOOLEAN,
           asFound : BOOLEAN, ran : BOOLEAN]

Typed ==
  /\ suites \in Seq(Suite)
  /\ ship \in Ships
  /\ p \in Process /\ results \in Seq(Result)
  /\ ~env.alone => env.cookie

Own(k) == [i \in 1..k |-> "own"]
Has(s, e) == \E i \in DOMAIN s : s[i] = e

\* what a suite's process has registered before its body
Base == IF suite.ln THEN <<"restore", "mock">> ELSE IF suite.mutates THEN <<"restore">> ELSE <<>>
\* and when its body has begun: its own cleanups come last
WithOwn(c) == \E k \in 0..Len(c) : c = Base \o Own(k)

\* What own cleanups need: nothing was taken away since they were registered.
Given == ship = p.left /\ (suite.ln => p.child = "up" \/ Killed(p.child))

\* Until finish is begun, what is registered is what was done.
Registered ==
  ~p.finishing =>
    /\ p.waiters = <<>> /\ p.todo = <<>>
    /\ p.at \in {"gates", "snapshot"} => p.cleanups = <<>>
    /\ p.at = "mock" => p.cleanups = <<"restore">>
    /\ p.at \in {"starting", "configure"} => p.cleanups = <<"restore", "mock">>
    /\ p.at = "configure" => p.child = "up" \/ Killed(p.child)
    /\ p.at = "body" => WithOwn(p.cleanups) /\ Given
    /\ p.at = "finally" =>
         \/ WithOwn(p.cleanups) /\ (Has(p.cleanups, "own") => Given)
         \/ p.failed /\ suite.mutates /\ p.cleanups \in {<<>>, <<"restore">>, <<"restore", "mock">>}
    /\ p.at # "waiting"

\* Before snapshot nothing was done, and what does not apply to a suite never is.
Untouched ==
  /\ p.at \in {"gates", "snapshot"} =>
       ~p.finishing /\ ship = found /\ p.left = found /\ p.child = "none"
  /\ p.at = "gates" => ~p.failed
  /\ p.at = "snapshot" => suite.mutates
  /\ p.at \in {"mock", "starting", "configure"} => suite.ln
  /\ ~suite.mutates => ship = found
  /\ ~suite.ln => ~Alive(p.child)
  /\ suite.mutates /\ p.at \notin {"gates", "snapshot", "exited"} /\ ~p.failed => p.before = found

\* The first who waits is the run itself: its body is over.
Led == p.waiters # <<>> /\ p.waiters[1] = "run"

\* own cleanups come first
OwnFirst(t) == \A i, j \in DOMAIN t : i <= j /\ t[j] = "own" => t[i] = "own"
\* what is restored is compared later, or last
Compared(t) == \A i \in DOMAIN t : t[i] \in Restoring => \E j \in DOMAIN t : i <= j /\ t[j] = "compare"
ComparedLast(t) == \A i \in DOMAIN t : t[i] = "compare" <=> i = Len(t)

\* While finish goes on: own cleanups come first, with what they need still
\* there; and for a run that has not failed, the comparison is the last call,
\* and the mock is yet to be stopped if it is up.
Finishing ==
  p.finishing /\ p.at # "exited" =>
    /\ p.waiters # <<>> /\ p.todo # <<>>
    /\ Led => p.at = "waiting"
    /\ OwnFirst(p.todo) /\ Compared(p.todo)
    /\ ~suite.mutates => \A i \in DOMAIN p.todo : p.todo[i] = "own"
    /\ Has(p.todo, "own") => p.at \in {"body", "finally", "waiting"} /\ Given
    /\ Led /\ ~p.failed /\ suite.mutates => ComparedLast(p.todo)
    /\ Led /\ ~p.failed /\ Alive(p.child) => Has(p.todo, "stop")

\* A process that ended with 0 left all as it was.
Over ==
  p.at = "exited" =>
    /\ p.todo = <<>>
    /\ p.code = 0 => ~p.failed /\ ship = found /\ ~Alive(p.child)

KitInv ==
  /\ Typed
  /\ ZeroIsClean
  /\ suites # <<>> => Registered /\ Untouched /\ Finishing /\ Over
=============================================================================
