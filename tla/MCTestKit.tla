------------------------------- MODULE MCTestKit -------------------------------
EXTENDS TestKitInv

Plain   == [auth |-> FALSE, mutates |-> FALSE, ln |-> FALSE]
Mutates == [auth |-> TRUE, mutates |-> TRUE, ln |-> FALSE]
Ln      == [auth |-> TRUE, mutates |-> TRUE, ln |-> TRUE]
MCRuns == {<<s>> : s \in {Plain, Mutates, Ln}} \cup {<<Ln, Ln>>, <<Mutates, Ln>>}
=============================================================================
