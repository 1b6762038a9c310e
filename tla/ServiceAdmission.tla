-------------------------- MODULE ServiceAdmission --------------------------
(***************************************************************************)
(* How a wish about a database's Service gets into the API server: the     *)
(* user edits the database cluster, its operator writes the Service from a *)
(* template, the mutating webhook looks after spec.loadBalancerClass, and  *)
(* the API server validates.  The class decides who serves the Service:    *)
(* the cloud controller manager (CCM) leaves alone what has another class. *)
(*                                                                         *)
(* The operators of PXC and PSMDB send the template as it is, without a    *)
(* class; the one of PostgreSQL, like a user's editor, keeps the class.    *)
(***************************************************************************)
EXTENDS Naturals, FiniteSets

CONSTANTS
    Ports,     \* ports of Services
    CIDRs,     \* source ranges
    Sizes,     \* values of huawei-elb.io/bandwidth-size; 0: none or unusable
    Wishes,    \* the Service specs asked for in this instance
    None,      \* an empty field
    Edits      \* how often the user changes his mind

Types == {"LoadBalancer", "ClusterIP"}
Specs == [type : Types, ports : SUBSET Ports, ranges : SUBSET CIDRs, size : Sizes]
Untyped == [type |-> "ClusterIP", ports |-> {}, ranges |-> {}, size |-> 0]

ASSUME SizeAssumption == Sizes \subseteq Nat /\ 0 \in Sizes
ASSUME WishAssumption == Wishes \subseteq Specs
ASSUME EditAssumption == Edits \in Nat
ASSUME ClassAssumption == None # "direct-api"

VARIABLES
    wish,      \* the spec the operator wants the Service to have
    ccm,       \* the template carries kubernetes.io/elb.id or elb.autocreate
    st,        \* the Service: "none" yet, "live", "deleting" or "gone"
    spec,      \* its spec in the API server
    class,     \* its loadBalancerClass
    edits      \* edits left

admissionVars == <<wish, ccm, st, spec, class, edits>>

AdmissionTypeOK ==
    /\ wish \in Specs /\ spec \in Specs
    /\ ccm \in BOOLEAN
    /\ st \in {"none", "live", "deleting", "gone"}
    /\ class \in {None, "direct-api"}
    /\ edits \in 0..Edits

AdmissionInit ==
    /\ wish \in Wishes /\ ccm \in BOOLEAN
    /\ st = "none" /\ spec = Untyped /\ class = None
    /\ edits = Edits

IsLoadBalancer(s) == s.type = "LoadBalancer"

(***************************************************************************)
(* The webhook: the class a request has when it leaves it.  failurePolicy  *)
(* is Fail: while it does not answer, requests are refused and the operator *)
(* repeats them, which is the same as sending them later.                  *)
(***************************************************************************)
\* Mutant: no class is injected.
CreateUntouched(s, c) == c

HandleCreate(s, c) ==
    IF IsLoadBalancer(s) /\ c = None /\ ~ ccm THEN "direct-api" ELSE c

\* Mutant: only CREATE is intercepted.
UpdateUntouched(s, c, old) == c

HandleUpdate(s, c, old) ==
    IF IsLoadBalancer(s) /\ c = None /\ old = "direct-api" THEN "direct-api" ELSE c

(***************************************************************************)
(* The API server: only a Service of type LoadBalancer has a class, and    *)
(* as long as it is one the class is immutable.                            *)
(***************************************************************************)
Stored(s, c) == IF IsLoadBalancer(s) THEN c ELSE None

Accepts(s, c) == IsLoadBalancer(s) /\ IsLoadBalancer(spec) => c = class

\* The class in the update an operator sends: none, or the one it finds.
Submitted == {None, class}

CreateService ==
    /\ st = "none"
    /\ st' = "live" /\ spec' = wish /\ class' = Stored(wish, HandleCreate(wish, None))
    /\ UNCHANGED <<wish, ccm, edits>>

UpdateService ==
    /\ st = "live" /\ spec # wish
    /\ \E c \in Submitted :
          /\ Accepts(wish, HandleUpdate(wish, c, class))
          /\ class' = Stored(wish, HandleUpdate(wish, c, class))
    /\ spec' = wish
    /\ UNCHANGED <<wish, ccm, st, edits>>

EditWish ==
    /\ st \in {"none", "live"} /\ edits > 0 /\ edits' = edits - 1
    /\ wish' \in Wishes \ {wish}
    /\ UNCHANGED <<ccm, st, spec, class>>

\* A finalizer of somebody else may hold the Service for a while.
DeleteService ==
    /\ st = "live" /\ st' \in {"deleting", "gone"}
    /\ UNCHANGED <<wish, ccm, spec, class, edits>>

ReleaseService ==
    /\ st = "deleting" /\ st' = "gone"
    /\ UNCHANGED <<wish, ccm, spec, class, edits>>

Operator == CreateService \/ UpdateService

AdmissionNext == Operator \/ EditWish \/ DeleteService \/ ReleaseService

(***************************************************************************)
(* Who serves the Service.                                                 *)
(***************************************************************************)
CCMServes == st = "live" /\ IsLoadBalancer(spec) /\ class = None

\* shouldReconcileService, which does not look at the class.
ShouldReconcile == st = "live" /\ IsLoadBalancer(spec) /\ ~ ccm

(***************************************************************************)
(* Properties.                                                             *)
(***************************************************************************)
\* Whatever operator a database has and whatever it is asked for, the API server
\* accepts the next update it sends: the webhook restores what a template leaves out
\* and invents nothing.
OperatorAccepted ==
    st = "live" => \A c \in Submitted : Accepts(wish, HandleUpdate(wish, c, class))
=============================================================================
