-------------------------------- MODULE TestKit --------------------------------
(***************************************************************************)
(* The harness of the suites (src/test-helpers.mjs, src/run-tests.mjs).       *)
(* run-tests starts one suite after another, each a process that records the *)
(* mint's settings, starts a mock LNbits, points the mint at it, runs its    *)
(* body, and cleans up: the steps its body registered, the mock, the         *)
(* settings.                                                               *)
(*                                                                         *)
(* Any call to the ship may fail, before or after it took effect, and one    *)
(* interrupt may come between any two awaits: it begins the cleanup, and     *)
(* the body runs on beside it.  One typed at the terminal goes to run-tests  *)
(* and to the mock too, and ends both.  A body is any few steps: changes to  *)
(* the settings, to Lightning and to the active keyset, cleanups of its own, *)
(* failed checks, an error.                                                  *)
(***************************************************************************)
EXTENDS Integers, Sequences, SequencesExt

CONSTANTS
  Runs,       \* what run-tests may be asked to run: sequences of suites
  MaxSteps,   \* bound: steps of a body
  MaxFaults   \* bound: calls of a suite that fail

\* what a suite asks of run; one that uses Lightning changes the ship
Suite == {s \in [auth : BOOLEAN, mutates : BOOLEAN, ln : BOOLEAN] : s.ln => s.mutates}

ASSUME TestKitAssumption == MaxSteps \in Nat /\ MaxFaults \in Nat /\ Runs \subseteq Seq(Suite)

VARIABLES
  env,      \* is the ship on this machine, is the cookie set, was one suite
            \* started by hand (without REQUIRE_AUTH)
  suites,   \* the suites left to run, the first of them running
  ship,     \* what suites may change: settings, Lightning, active keyset
  port,     \* who listens on MOCK_PORT
  p,        \* the suite's process
  found,    \* history: the ship as the suite found it
  results   \* of the suites that ended

vars == <<env, suites, ship, port, p, found, results>>

suite == Head(suites)

NewProcess(s) ==
  [at |-> "gates",        \* where run is
   before |-> s,          \* what snapshot read
   left |-> s,            \* history: the ship as the suite last changed it
  cleanups |-> <<>>,     \* registered, in order
   finishing |-> FALSE,   \* finish was begun
   todo |-> <<>>,         \* what it still has to do
   waiters |-> <<>>,      \* who waits for it, first come first
   child |-> "none",      \* the mock this process spawned: see startMock
   failed |-> FALSE,      \* a check failed
   interrupted |-> FALSE, \* history: SIGINT came
   code |-> 0, steps |-> 0, faults |-> 0]

Init ==
  /\ env \in [loopback : BOOLEAN, cookie : BOOLEAN, alone : BOOLEAN]
  /\ ~env.alone => env.cookie   \* run-tests does not start without
  /\ suites \in Runs /\ (env.alone => Len(suites) = 1)
  /\ ship \in [settings : {"set"}, ln : {"none", "real"}, active : {"k0"}]
  /\ port \in {"free", "other"}
  /\ p = NewProcess(ship) /\ found = ship /\ results = <<>>

Exited(code) == [p EXCEPT !.at = "exited", !.code = code]

-----------------------------------------------------------------------------
(* A call to the ship: done, refused, not delivered, or done with the answer  *)
(* lost.  The last two throw.                                                *)

Outcomes == {"ok"} \cup IF p.faults < MaxFaults THEN {"refused", "down", "lost"} ELSE {}
Effect(o) == o \in {"ok", "lost"}
Throws(o) == o \in {"down", "lost"}
Called(o) == [p EXCEPT !.faults = IF o = "ok" THEN @ ELSE @ + 1]

\* an error in the try block: a failed check, and on to its finally
Thrown(q) == [q EXCEPT !.at = "finally", !.failed = TRUE]

-----------------------------------------------------------------------------
(* run. *)

\* skip, under run-tests a failure; and no change to a ship elsewhere
Gates ==
  /\ p.at = "gates"
  /\ p' = IF suite.auth /\ ~env.cookie THEN Exited(IF env.alone THEN 0 ELSE 1)
          ELSE IF suite.mutates /\ ~env.loopback THEN Exited(1)
          ELSE [p EXCEPT !.at = IF suite.mutates THEN "snapshot" ELSE "body"]
  /\ UNCHANGED <<env, suites, ship, port, found, results>>

\* snapshot: a Lightning suite refuses to replace a backend it could not put back
Snapshot ==
  /\ p.at = "snapshot"
  /\ \E o \in Outcomes :
       p' = IF o # "ok" THEN Thrown(Called(o))
            ELSE IF suite.ln /\ ship.ln # "none" THEN Exited(1)
            ELSE [p EXCEPT !.before = ship, !.cleanups = Append(@, "restore"),
                           !.at = IF suite.ln THEN "mock" ELSE "body"]
  /\ UNCHANGED <<env, suites, ship, port, found, results>>

(* startMock.  The child is "spawned" and then "up", or has "exited" since the *)
(* port is taken.  An interrupt at the terminal kills it: it is "killed", and *)
(* "gone" when node has told of its exit.  Its exitCode is null then, as it   *)
(* is while it runs.  A cleanup leaves it "stopped".                          *)

Alive(child) == child \in {"spawned", "up"}
Killed(child) == child \in {"killed", "gone"}

\* the child's stop is registered before it is known to be up
StartMock ==
  /\ p.at = "mock"
  /\ p' = [p EXCEPT !.at = "starting", !.cleanups = Append(@, "mock"), !.child = "spawned"]
  /\ UNCHANGED <<env, suites, ship, port, found, results>>

MockListens ==
  /\ p.child = "spawned" /\ p.at # "exited"
  /\ IF port = "free" THEN port' = "mock" /\ p' = [p EXCEPT !.child = "up"]
     ELSE UNCHANGED port /\ p' = [p EXCEPT !.child = "exited"]
  /\ UNCHANGED <<env, suites, ship, found, results>>

\* the loop: the child answers; or it does not, another does, or it is too slow
MockStarts ==
  /\ p.at = "starting"
  /\ \/ p.child = "up" /\ p' = [p EXCEPT !.at = "configure"]
     \/ ~Alive(p.child) /\ p' = Thrown(p)
     \/ p.child = "spawned" /\ port # "free" /\ p' = Thrown(p)
     \/ p.faults < MaxFaults /\ p' = Thrown(Called("down"))
  /\ UNCHANGED <<env, suites, ship, port, found, results>>

\* node tells of a killed child's exit.  (While its stop waits for that, this
\* is StopMock's.)
ExitSeen ==
  /\ p.child = "killed" /\ p.at # "exited"
  /\ p.todo # <<>> => Head(p.todo) # "stop"
  /\ p' = [p EXCEPT !.child = "gone"]
  /\ UNCHANGED <<env, suites, ship, port, found, results>>

Configure ==
  /\ p.at = "configure"
  /\ \E o \in Outcomes :
       /\ ship' = IF Effect(o) THEN [ship EXCEPT !.ln = "mock"] ELSE ship
       /\ p' = IF o = "ok" THEN [p EXCEPT !.at = "body", !.left = ship'] ELSE Thrown(Called(o))
  /\ UNCHANGED <<env, suites, port, found, results>>

\* what bodies change.  Those that use Lightning also turn it off, give the
\* mint a key the mock refuses, and turn it on again.
Changes ==
  {[ship EXCEPT !.settings = "changed"], [ship EXCEPT !.active = "k1"]} \cup
  IF suite.ln THEN {[ship EXCEPT !.ln = l] : l \in {"none", "wrong", "mock"}} ELSE {}

\* a step of a body: a call that may change the ship (not every refusal is
\* checked), a cleanup registered, a check that fails, or an error
Body ==
  /\ p.at = "body" /\ p.steps < MaxSteps
  /\ LET q == [p EXCEPT !.steps = @ + 1] IN
     \/ \E o \in Outcomes, new \in Changes, seen \in BOOLEAN :
          /\ suite.mutates
          /\ ship' = IF Effect(o) THEN new ELSE ship
          /\ LET r == [Called(o) EXCEPT !.steps = @ + 1, !.left = IF Effect(o) THEN new ELSE @]
             IN p' = IF Throws(o) THEN Thrown(r) ELSE [r EXCEPT !.failed = @ \/ (o = "refused" /\ seen)]
     \/ /\ p' \in {[q EXCEPT !.cleanups = Append(@, "own")], [q EXCEPT !.failed = TRUE], Thrown(q)}
        /\ UNCHANGED ship
  /\ UNCHANGED <<env, suites, port, found, results>>

BodyEnds ==
  /\ p.at = "body" /\ p' = [p EXCEPT !.at = "finally"]
  /\ UNCHANGED <<env, suites, ship, port, found, results>>

-----------------------------------------------------------------------------
(* finish. *)

\* the calls of a cleanup, in its order
Calls(c) ==
  CASE c = "own" -> <<"own">> [] c = "mock" -> <<"stop">>
    [] c = "restore" -> <<"settings">> \o (IF suite.ln THEN <<"ln">> ELSE <<>>) \o <<"active", "compare">>

\* Mutant: first registered, first cleaned up.
CleanupOrderKept(cleanups) == FlattenSeq([i \in DOMAIN cleanups |-> Calls(cleanups[i])])

\* last registered first
CleanupOrder(cleanups) ==
  FlattenSeq([i \in DOMAIN cleanups |-> Calls(cleanups[Len(cleanups) + 1 - i])])

\* finishing ??= finish(): the first who comes begins it, and all wait.  The
\* cleanups it takes are no longer registered.
Finish(q, who) ==
  LET r == [q EXCEPT !.waiters = Append(@, who), !.finishing = TRUE]
  IN IF q.finishing THEN r ELSE [r EXCEPT !.todo = CleanupOrder(q.cleanups), !.cleanups = <<>>]

\* with nothing more to do the first who waits ends the process
Ended(q) ==
  IF q.todo # <<>> THEN q
  ELSE [q EXCEPT !.at = "exited",
                 !.code = IF q.waiters[1] = "sigint" THEN 130 ELSE IF q.failed THEN 1 ELSE 0]

Finally ==
  /\ p.at = "finally"
  /\ p' = Ended([Finish(p, "run") EXCEPT !.at = "waiting"])
  /\ UNCHANGED <<env, suites, ship, port, found, results>>

\* process.once('SIGINT').  Sent by the terminal it reaches the process group:
\* the mock and run-tests do not handle it, and the suites to come are not run.
Interrupt ==
  /\ p.at \notin {"gates", "exited"} /\ ~p.interrupted
  /\ \E terminal \in BOOLEAN :
       /\ suites' = IF terminal THEN <<suite>> ELSE suites
       /\ port' = IF terminal /\ p.child = "up" THEN "free" ELSE port
       /\ p' = Ended([Finish(p, "sigint") EXCEPT
                        !.interrupted = TRUE,
                        !.child = IF terminal /\ Alive(@) THEN "killed" ELSE @])
  /\ UNCHANGED <<env, ship, found, results>>

Restoring == {"settings", "ln", "active", "compare"}
\* what comes after the cleanup that the next call is of
Left(todo) ==
  IF Head(todo) \notin Restoring THEN Tail(todo)
  ELSE LET i == CHOOSE i \in DOMAIN todo : todo[i] = "compare" IN SubSeq(todo, i + 1, Len(todo))

\* a call of a cleanup; if it throws, that cleanup is left, with a failed check
Cleaned(o) ==
  Ended(IF ~Throws(o) THEN [Called(o) EXCEPT !.todo = Tail(@)]
        ELSE [Called(o) EXCEPT !.failed = TRUE, !.todo = Left(@)])

\* the call a cleanup makes next, and what it does to the ship
Cleanup(call, new) ==
  /\ p.todo # <<>> /\ Head(p.todo) = call
  /\ \E o \in Outcomes : p' = Cleaned(o) /\ ship' = IF Effect(o) THEN new ELSE ship
  /\ UNCHANGED <<env, suites, port, found, results>>

OwnCleanup      == Cleanup("own", ship)
RestoreSettings == Cleanup("settings", [ship EXCEPT !.settings = p.before.settings])
RestoreLn       == Cleanup("ln", [ship EXCEPT !.ln = "none"])
RestoreActive   == Cleanup("active", [ship EXCEPT !.active = p.before.active])

\* Mutant: Lightning is not compared.
SameButLn == [ship EXCEPT !.ln = ""] = [p.before EXCEPT !.ln = ""]

\* everything read again is as it was
Same == ship = p.before

\* the last check: what the restore did, seen in the ship.  A read that is
\* refused is not the same.
Compare ==
  /\ p.todo # <<>> /\ Head(p.todo) = "compare"
  /\ \E o \in Outcomes :
       LET ok == o = "ok" /\ Same
           q == [p EXCEPT !.failed = @ \/ ~ok]
       IN p' = Ended([q EXCEPT !.todo = Tail(@), !.faults = Called(o).faults])
  /\ UNCHANGED <<env, suites, ship, port, found, results>>

\* Mutant: the exit of a child that has exited is waited for.
AwaitsAny == TRUE

\* child.exitCode === null
Awaits == p.child # "exited"
ExitToCome == Alive(p.child) \/ p.child = "killed"

\* the child is killed and its exit waited for, unless it has exited by itself
StopMock ==
  /\ p.todo # <<>> /\ Head(p.todo) = "stop" /\ (Awaits => ExitToCome)
  /\ port' = IF p.child = "up" THEN "free" ELSE port
  /\ p' = Ended([p EXCEPT !.todo = Tail(@), !.child = "stopped"])
  /\ UNCHANGED <<env, suites, ship, found, results>>

\* finish waits for an exit that node has told of before: with nothing else
\* under way node ends, with 13, and what is still to do is not done
Unsettled ==
  /\ p.at = "waiting" /\ p.todo # <<>> /\ Head(p.todo) = "stop" /\ Awaits /\ ~ExitToCome
  /\ p' = [p EXCEPT !.at = "exited", !.code = 13, !.todo = <<>>]
  /\ UNCHANGED <<env, suites, ship, port, found, results>>

-----------------------------------------------------------------------------
(* run-tests: the exit code is the verdict, and the next suite starts.  A    *)
(* mock left up is killed at the exit, which nobody waits for.               *)

NextSuite ==
  /\ p.at = "exited"
  /\ results' = Append(results, [code |-> p.code, failed |-> p.failed, mock |-> Alive(p.child),
                                 killed |-> Killed(p.child), asFound |-> ship = found,
                                 ran |-> suite.auth => env.cookie])
  /\ suites' = Tail(suites)
  /\ p' = NewProcess(ship) /\ found' = ship
  /\ port' \in IF p.child = "up" THEN {"old", "free"} ELSE {port}
  /\ UNCHANGED <<env, ship>>

\* the mock that was killed is gone
MockGone ==
  /\ port = "old" /\ port' = "free"
  /\ UNCHANGED <<env, suites, ship, p, found, results>>

Done == suites = <<>> /\ UNCHANGED vars

Steps ==
  \/ /\ suites # <<>>
     /\ \/ Gates \/ Snapshot \/ StartMock \/ MockListens \/ MockStarts \/ ExitSeen \/ Configure
        \/ Body \/ BodyEnds \/ Finally \/ OwnCleanup \/ StopMock \/ Unsettled
        \/ RestoreSettings \/ RestoreLn \/ RestoreActive \/ Compare \/ NextSuite
  \/ MockGone

Next == Steps \/ (suites # <<>> /\ Interrupt) \/ Done

\* node runs on, and every call to the ship is answered or throws; nobody has
\* to interrupt
Spec == Init /\ [][Next]_vars /\ WF_vars(Steps)

-----------------------------------------------------------------------------
(* Properties. *)

\* The exit code is to be trusted: a suite that ended with 0 has run, no check
\* of it failed, and it left the ship as it found it and no mock behind,
\* whichever calls failed; only one started by hand may have been skipped.
ZeroIsClean ==
  \A i \in DOMAIN results :
    LET r == results[i] IN
    r.code = 0 => /\ ~r.failed /\ r.asFound /\ ~r.mock
                  /\ env.alone \/ r.ran

\* A body's own cleanup runs before the kit takes anything away: the ship is
\* as the suite last changed it, also where the body left Lightning off, and the
\* mock is up, unless an interrupt at the terminal killed it.
CleanedInOrder ==
  p.todo # <<>> /\ Head(p.todo) = "own" /\ suites # <<>> =>
    /\ ship = p.left
    /\ suite.ln => p.child = "up" \/ Killed(p.child)

\* Every suite ends, interrupted or not, and not by waiting for what cannot
\* come (its ship not restored), unless the terminal's interrupt killed its mock.
RunEnds == <>(suites = <<>> /\ \A i \in DOMAIN results : results[i].code = 13 => results[i].killed)
=============================================================================
