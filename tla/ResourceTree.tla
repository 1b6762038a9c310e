---------------------------- MODULE ResourceTree ----------------------------
(***************************************************************************)
(* What the cloud asks of whoever works on a load balancer.  Its resources *)
(* form a tree: a resource is created below one that exists, and deleted   *)
(* when nothing is left below it ("Huawei Cloud API requires each child    *)
(* resource to be deleted before its parent"), or, if the cloud cascades,  *)
(* together with all that is.  The load balancer itself never cascades.    *)
(* ELBStack implements it.                                                 *)
(***************************************************************************)
CONSTANTS
    Root,        \* the load balancer
    Above(_)     \* the resources a resource hangs below

VARIABLES
    exist,       \* the resources there are
    cascade      \* a deletion takes along what hangs below

vars == <<exist, cascade>>

Below(x) == {y \in exist : x \in Above(y)}

Init == exist = {Root} /\ cascade \in BOOLEAN

Create(x) ==
    /\ Above(x) \subseteq exist
    /\ exist' = exist \cup {x}
    /\ UNCHANGED cascade

Delete(x) ==
    /\ Below(x) = {} \/ (cascade /\ x # Root)
    /\ exist' = exist \ ({x} \cup Below(x))
    /\ UNCHANGED cascade

\* One resource comes, or one goes with all that hangs below it.
Next ==
    \/ \E x \in exist' \ exist : Create(x)
    \/ \E x \in exist \ exist' : Delete(x)

Spec == Init /\ [][Next]_vars
=============================================================================
