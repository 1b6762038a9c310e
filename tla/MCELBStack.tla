------------------------------ MODULE MCELBStack ------------------------------
(***************************************************************************)
(* Instances of ELBStack for TLC: one port and one node that stay, one of  *)
(* each that changes.                                                      *)
(***************************************************************************)
EXTENDS ELBStack

CONSTANTS p1, p2, a, b

TwoPorts == {p1, p2}
TwoNodes == {a, b}
AnyNodePort == {0, 1, 2}
StablePort == {p1}
StableNode == {a}

\* A failed CreatePool or CreateHealthCheck leaves an unfinished stack behind that is
\* never completed.
RetriedCalls == Calls \ {"createPool", "createCheck"}
PoolOnly == {"createPool"}

SomeChanges == [c \in Changes |-> 1]
OneFault == [[c \in Changes |-> 0] EXCEPT !["fault"] = 1]
=============================================================================
