---------------------------- MODULE ELBOwnership ----------------------------
(***************************************************************************)
(* What the ServiceReconciler promises about the load balancers of one     *)
(* Service name, without bindings, caches, queues or crashes: it provides  *)
(* at most one per incarnation and ELB name, only for incarnations that    *)
(* exist or existed, and never takes one from the incarnation that owns    *)
(* the name now.  ServiceLifecycle implements it.                          *)
(***************************************************************************)
CONSTANTS UIDs, ELBIDs, Names, None

VARIABLES
    owner,   \* uid of the Service that exists and is not being deleted, or None
    used,    \* uids of all Services so far
    elbs     \* the load balancers

vars == <<owner, used, elbs>>

Live(e) == elbs[e].st \in {"pending", "active"}

Fresh == [st |-> "free", uid |-> None, name |-> None]

Init ==
    \/ /\ owner = None /\ used = {}
       /\ elbs = [e \in ELBIDs |-> Fresh]
    \/ \E u \in UIDs, n \in Names, e \in ELBIDs :
          /\ owner = u /\ used = {u}
          /\ elbs = [x \in ELBIDs |->
                       IF x = e THEN [st |-> "active", uid |-> u, name |-> n] ELSE Fresh]

Arrive(u) ==
    /\ owner = None /\ u \notin used
    /\ owner' = u /\ used' = used \cup {u}
    /\ UNCHANGED elbs

Leave ==
    /\ owner # None /\ owner' = None
    /\ UNCHANGED <<used, elbs>>

Provide(e, u, n) ==
    /\ elbs[e].st = "free" /\ u \in used
    /\ \A f \in ELBIDs : ~ (Live(f) /\ elbs[f].uid = u /\ elbs[f].name = n)
    /\ elbs' = [elbs EXCEPT ![e] = [st |-> "pending", uid |-> u, name |-> n]]
    /\ UNCHANGED <<owner, used>>

Activate(e) ==
    /\ elbs[e].st = "pending"
    /\ elbs' = [elbs EXCEPT ![e].st = "active"]
    /\ UNCHANGED <<owner, used>>

Reclaim(e) ==
    /\ Live(e) /\ elbs[e].uid # owner
    /\ elbs' = [elbs EXCEPT ![e].st = "gone"]
    /\ UNCHANGED <<owner, used>>

Next ==
    \/ \E u \in UIDs : Arrive(u)
    \/ Leave
    \/ \E e \in ELBIDs :
          \/ \E u \in UIDs, n \in Names : Provide(e, u, n)
          \/ Activate(e) \/ Reclaim(e)

Spec == Init /\ [][Next]_vars
=============================================================================
