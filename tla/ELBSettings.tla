----------------------------- MODULE ELBSettings -----------------------------
(***************************************************************************)
(* The settings of the load balancer of one Service: the IP group that     *)
(* enforces its source ranges on the listeners, and the bandwidth of its   *)
(* public address.  Extends ServiceAdmission, which says how they get into *)
(* the Service: together the way from a user's wish to the cloud.          *)
(*                                                                         *)
(* A reconcile works on the copies of the spec and of the ELBBinding it    *)
(* read; the binding records the id of the IP group and the parameters     *)
(* applied last, and is all that is remembered.  Every cloud call and      *)
(* every write of the binding is a step of its own.  How listeners are     *)
(* built is ELBStack's subject: here they are one step.  A crash, or an    *)
(* answer that is lost, leaves what the failure of the next call leaves,   *)
(* except that a cleanup without a Service is not repeated after a crash:  *)
(* ServiceLifecycle is about that.                                         *)
(***************************************************************************)
EXTENDS ServiceAdmission

CONSTANTS
    Groups,       \* ids of IP groups, never reused
    ValidCIDRs,   \* the ranges the controller can parse
    DefaultSize,  \* DefaultBandwidthSize
    MaxSize,      \* maxBandwidthSize; the cloud refuses more
    Faults        \* how many calls fail or cached bindings are late

ASSUME GroupAssumption == {None, "absent"} \cap Groups = {} /\ None # "absent"
ASSUME RangeAssumption == ValidCIDRs \subseteq CIDRs
ASSUME BandwidthAssumption ==
    /\ MaxSize \in Nat \ {0} /\ DefaultSize \in 1..MaxSize
ASSUME FaultAssumption == Faults \in Nat

VARIABLES
    elb,        \* the load balancer: "none" yet, "active" or "gone"
    internal,   \* it has no public address, hence no bandwidth
    bandwidth,  \* of its public address; 0 while there is none
    acl,        \* port -> IP group of its listener, None, or "absent"
    groups,     \* the IP groups named after the Service
    bind,       \* the ELBBinding: the IP group, the bandwidth-size and whether the
                \* id of the load balancer is recorded; fin: it is there, with the finalizer
    bindCache,  \* the manager's copy
    pc,         \* the next call, "idle" between reconciles
    read,       \* the spec the reconcile works on
    recorded,   \* the binding it works on
    group,      \* the IP group it works on
    faults,     \* disturbances left
    hit         \* the kinds of disturbance so far

cloud  == <<elb, internal, bandwidth, acl, groups>>
local  == <<pc, read, recorded, group>>
luck   == <<faults, hit>>
settingsVars == <<cloud, bind, bindCache, local, luck>>
vars == <<wish, ccm, st, spec, class, edits,
          elb, internal, bandwidth, acl, groups, bind, bindCache,
          pc, read, recorded, group, faults, hit>>

ACLCalls == {"find", "update", "create", "bind", "unbind", "deleteGroup"}
SyncCalls ==
    {"createELB", "ensure", "recordELB", "restore", "restoreID", "sync", "params"}
        \cup ACLCalls \cup {"persist"}
CleanupCalls == {"deleteELB", "findLeft", "reclaim", "release"}
Calls == SyncCalls \cup CleanupCalls

\* Where a reconcile is cut short; that the cached binding lags behind; and what does
\* not stop a reconcile: the id cannot be recorded, the nodes cannot be listed.
Kinds == {"call", "acl", "record", "lag", "id", "nodes"}
Kind(c) == IF c \in ACLCalls THEN "acl" ELSE IF c = "persist" THEN "record" ELSE "call"

Bindings == [acl : Groups \cup {None}, size : Sizes, id : BOOLEAN, fin : BOOLEAN]
NoBinding == [acl |-> None, size |-> 0, id |-> FALSE, fin |-> FALSE]

Live(g) == groups[g].st = "live"
Unused == [st |-> "free", ranges |-> {}]
Listeners == {p \in Ports : acl[p] # "absent"}

TypeOK ==
    /\ AdmissionTypeOK
    /\ elb \in {"none", "active", "gone"} /\ internal \in BOOLEAN
    /\ bandwidth \in Nat
    /\ acl \in [Ports -> Groups \cup {None, "absent"}]
    /\ groups \in [Groups -> [st : {"free", "live", "gone"}, ranges : SUBSET ValidCIDRs]]
    /\ bind \in Bindings /\ bindCache \in Bindings /\ recorded \in Bindings
    /\ pc \in Calls \cup {"idle"}
    /\ read \in Specs
    /\ group \in Groups \cup {None}
    /\ faults \in 0..Faults /\ hit \subseteq Kinds

Init ==
    /\ AdmissionInit
    /\ elb = "none" /\ internal \in BOOLEAN /\ bandwidth = 0
    /\ acl = [p \in Ports |-> "absent"] /\ groups = [g \in Groups |-> Unused]
    /\ bind = NoBinding /\ bindCache = NoBinding
    /\ pc = "idle" /\ read = Untyped /\ recorded = NoBinding /\ group = None
    /\ faults = Faults /\ hit = {}

Return == pc' = "idle" /\ read' = Untyped /\ recorded' = NoBinding /\ group' = None

Goto(c) == pc' = c /\ UNCHANGED <<read, recorded, group>>

Undisturbed == UNCHANGED <<admissionVars, bindCache, luck>>

Strikes(k) == faults > 0 /\ faults' = faults - 1 /\ hit' = hit \cup {k}

\* Mutant: unreadable ranges are not filtered out.
Unfiltered(rs) == rs

Valid(rs) == rs \cap ValidCIDRs

(***************************************************************************)
(* Reconcile.  A lagging copy of the Service is the same as a Service that *)
(* changes a little later; a lagging copy of the binding shows what the    *)
(* reconcile before had not written yet, and is a disturbance.             *)
(***************************************************************************)
BindingRead == IF bindCache = bind THEN UNCHANGED luck ELSE Strikes("lag")

StartReconcile ==
    /\ pc = "idle" /\ ShouldReconcile /\ BindingRead
    /\ \/ bindCache.id /\ pc' = "sync"
       \/ ~ bindCache.id /\ elb = "none" /\ pc' = "createELB"
       \/ ~ bindCache.id /\ elb = "active" /\ pc' = "restore"
    /\ read' = spec /\ recorded' = bindCache /\ UNCHANGED group
    /\ UNCHANGED <<admissionVars, cloud, bind, bindCache>>

\* resolveBandwidthSize.
CreationSize(s) ==
    IF s.size = 0 THEN DefaultSize ELSE IF s.size > MaxSize THEN MaxSize ELSE s.size

CreateELB ==
    /\ pc = "createELB"
    /\ elb' = "active" /\ bandwidth' = IF internal THEN 0 ELSE CreationSize(read)
    /\ Goto("ensure")
    /\ UNCHANGED <<internal, acl, groups, bind>> /\ Undisturbed

EnsureBinding ==
    /\ pc = "ensure"
    /\ bind' = [bind EXCEPT !.fin = TRUE]
    /\ Goto("recordELB")
    /\ UNCHANGED cloud /\ Undisturbed

\* The status of the new binding: the parameters with the id.
RecordELB ==
    /\ pc = "recordELB"
    /\ bind' = [bind EXCEPT !.size = read.size, !.id = TRUE]
    /\ Goto("sync")
    /\ UNCHANGED cloud /\ Undisturbed

\* Update and patch both fail: the reconcile goes on.
RecordFails ==
    /\ pc = "recordELB" /\ Strikes("id")
    /\ Goto("sync")
    /\ UNCHANGED <<admissionVars, cloud, bind, bindCache>>

\* A load balancer found by its name.
RestoreBinding ==
    /\ pc = "restore"
    /\ bind' = [bind EXCEPT !.fin = TRUE]
    /\ Goto("restoreID")
    /\ UNCHANGED cloud /\ Undisturbed

\* Mutant: the parameters of today are recorded as applied.
RestoreAll ==
    /\ pc = "restoreID" /\ BindingRead
    /\ bind' = IF bind.fin /\ bindCache.fin
               THEN [bind EXCEPT !.id = TRUE, !.size = read.size] ELSE bind
    /\ Return
    /\ UNCHANGED <<cloud, admissionVars, bindCache>>

\* The id is recorded, the parameters are not; nothing is when the binding just
\* created is not in the cache yet.
RestoreID ==
    /\ pc = "restoreID" /\ BindingRead
    /\ bind' = IF bind.fin /\ bindCache.fin THEN [bind EXCEPT !.id = TRUE] ELSE bind
    /\ Return
    /\ UNCHANGED <<cloud, admissionVars, bindCache>>

\* Mutant: an id that is not recorded is not looked for.
EnterUnrecorded(id) ==
    /\ group' = id
    /\ pc' = IF Valid(read.ranges) # {} THEN (IF id = None THEN "create" ELSE "update")
             ELSE IF id = None THEN "persist" ELSE "unbind"
    /\ UNCHANGED <<read, recorded>>

\* ensureACL begins with the id the caller has.
EnterACL(id) ==
    /\ group' = id
    /\ pc' = IF Valid(read.ranges) # {} THEN (IF id = None THEN "find" ELSE "update")
             ELSE IF id = None THEN "persist" ELSE "unbind"
    /\ UNCHANGED <<read, recorded>>

\* A new listener has no IP group yet.  recorded.id: this is reconcileUpdate.
SyncListeners ==
    /\ pc = "sync"
    /\ acl' = [p \in Ports |-> IF p \notin read.ports THEN "absent"
                               ELSE IF acl[p] = "absent" THEN None ELSE acl[p]]
    /\ IF recorded.id THEN Goto("params") ELSE EnterACL(None)
    /\ UNCHANGED <<elb, internal, bandwidth, groups, bind>> /\ Undisturbed

\* getNodeBackends fails: reconcileUpdate goes on with the listeners there are.
NodesUnreadable ==
    /\ pc = "sync" /\ recorded.id /\ Strikes("nodes")
    /\ Goto("params")
    /\ UNCHANGED <<admissionVars, cloud, bind, bindCache>>

\* buildUpdateOption: 0 when there is nothing to update.
NewSize == IF read.size # recorded.size THEN read.size ELSE 0

\* UpdateELB, which fails without a public address and for what the cloud refuses.
UpdateELB ==
    /\ pc = "params"
    /\ \/ NewSize = 0 /\ EnterACL(recorded.acl) /\ UNCHANGED bandwidth
       \/ /\ NewSize > 0 /\ ~ internal /\ NewSize <= MaxSize
          /\ bandwidth' = NewSize /\ EnterACL(recorded.acl)
       \/ NewSize > 0 /\ (internal \/ NewSize > MaxSize) /\ Return /\ UNCHANGED bandwidth
    /\ UNCHANGED <<elb, internal, acl, groups, bind>> /\ Undisturbed

(***************************************************************************)
(* ensureACL.                                                              *)
(***************************************************************************)
FindIPGroup ==
    /\ pc = "find"
    /\ \/ \E g \in Groups : Live(g) /\ group' = g /\ pc' = "update"
       \/ (\A g \in Groups : ~ Live(g)) /\ group' = None /\ pc' = "create"
    /\ UNCHANGED <<read, recorded, cloud, bind>> /\ Undisturbed

\* Mutant: the group is bound again, its ranges are left as they are.
KeepIPGroup ==
    /\ pc = "update"
    /\ IF Live(group) THEN Goto("bind") ELSE Return
    /\ UNCHANGED <<cloud, bind>> /\ Undisturbed

\* UpdateIPGroup; a group that is gone cannot be updated.
UpdateIPGroup ==
    /\ pc = "update"
    /\ IF Live(group)
       THEN groups' = [groups EXCEPT ![group].ranges = Valid(read.ranges)] /\ Goto("bind")
       ELSE Return /\ UNCHANGED groups
    /\ UNCHANGED <<elb, internal, bandwidth, acl, bind>> /\ Undisturbed

CreateIPGroup ==
    /\ pc = "create"
    /\ \E g \in Groups :
          /\ groups[g].st = "free"
          /\ groups' = [groups EXCEPT ![g] = [st |-> "live", ranges |-> Valid(read.ranges)]]
          /\ group' = g
    /\ pc' = "bind" /\ UNCHANGED <<read, recorded>>
    /\ UNCHANGED <<elb, internal, bandwidth, acl, bind>> /\ Undisturbed

\* bindACLToAllListeners and unbindACLFromAllListeners, one UpdateListenerACL each.
SetACL(g, then) ==
    /\ \/ \E p \in Listeners : acl[p] # g /\ acl' = [acl EXCEPT ![p] = g] /\ UNCHANGED local
       \/ (\A p \in Listeners : acl[p] = g) /\ Goto(then) /\ UNCHANGED acl
    /\ UNCHANGED <<elb, internal, bandwidth, groups, bind>> /\ Undisturbed

BindACL == pc = "bind" /\ SetACL(group, "persist")

\* Mutant: the group is deleted while listeners refer to it.
DeleteBound ==
    /\ pc = "unbind" /\ Goto("deleteGroup")
    /\ UNCHANGED <<cloud, bind>> /\ Undisturbed

UnbindACL == pc = "unbind" /\ SetACL(None, "deleteGroup")

\* That the group is gone already is not an error.
DeleteIPGroup ==
    /\ pc = "deleteGroup"
    /\ groups' = [groups EXCEPT ![group].st = IF @ = "live" THEN "gone" ELSE @]
    /\ pc' = "persist" /\ group' = None /\ UNCHANGED <<read, recorded>>
    /\ UNCHANGED <<elb, internal, bandwidth, acl, bind>> /\ Undisturbed

\* Mutant: the id of the group is not recorded.
RecordSizeOnly ==
    /\ pc = "persist" /\ BindingRead
    /\ bind' = IF bind.fin /\ bindCache.fin /\ recorded.id /\ bindCache.size # read.size
               THEN [bind EXCEPT !.size = read.size] ELSE bind
    /\ Return
    /\ UNCHANGED <<cloud, admissionVars, bindCache>>

(***************************************************************************)
(* patchBindingStatus writes the fields in which it differs from the       *)
(* cached binding, and nothing when none is cached; at the end of          *)
(* reconcileCreate the IP group only.                                      *)
(***************************************************************************)
PersistSettings ==
    /\ pc = "persist" /\ BindingRead
    /\ bind' = IF ~ (bind.fin /\ bindCache.fin) THEN bind
               ELSE [bind EXCEPT
                       !.acl = IF group # bindCache.acl THEN group ELSE @,
                       !.size = IF recorded.id /\ read.size # bindCache.size
                                THEN read.size ELSE @]
    /\ Return
    /\ UNCHANGED <<cloud, admissionVars, bindCache>>

(***************************************************************************)
(* cleanupBindingResources: the load balancer, by the id the binding has   *)
(* or by name, then the IP group, by the record or by name.  Without a     *)
(* Service (read is Untyped then) the binding, which has to have the       *)
(* finalizer, is all there is to go by.  The deletion of a Service that is *)
(* no LoadBalancer is not seen.                                            *)
(***************************************************************************)
\* Mutant: only what the binding records is deleted.
ReclaimRecorded(b, s) ==
    /\ group' = b.acl
    /\ pc' = IF b.acl # None THEN "reclaim" ELSE "release"

ReclaimGroup(b, s) ==
    /\ group' = b.acl
    /\ pc' = IF b.acl # None THEN "reclaim"
             ELSE IF IsLoadBalancer(s) THEN "findLeft" ELSE "release"

StartCleanup ==
    /\ pc = "idle" /\ IsLoadBalancer(spec) /\ BindingRead
    /\ \/ st = "deleting" /\ read' = spec
       \/ st = "gone" /\ bindCache.fin /\ read' = Untyped
    /\ recorded' = bindCache
    /\ IF bindCache.id \/ (st = "deleting" /\ elb = "active")
       THEN pc' = "deleteELB" /\ UNCHANGED group
       ELSE ReclaimGroup(bindCache, read')
    /\ UNCHANGED <<admissionVars, cloud, bind, bindCache>>

DeleteELB ==
    /\ pc = "deleteELB"
    /\ elb' = "gone" /\ bandwidth' = 0 /\ acl' = [p \in Ports |-> "absent"]
    /\ ReclaimGroup(recorded, read) /\ UNCHANGED <<read, recorded>>
    /\ UNCHANGED <<internal, groups, bind>> /\ Undisturbed

FindLeftGroup ==
    /\ pc = "findLeft"
    /\ \/ \E g \in Groups : Live(g) /\ group' = g /\ pc' = "reclaim"
       \/ (\A g \in Groups : ~ Live(g)) /\ group' = None /\ pc' = "release"
    /\ UNCHANGED <<read, recorded, cloud, bind>> /\ Undisturbed

\* The cloud may refuse to delete a group that listeners refer to.
ReclaimIPGroup ==
    /\ pc = "reclaim"
    /\ \/ /\ groups' = [groups EXCEPT ![group].st = IF @ = "live" THEN "gone" ELSE @]
          /\ Goto("release")
       \/ (\E p \in Listeners : acl[p] = group) /\ Return /\ UNCHANGED groups
    /\ UNCHANGED <<elb, internal, bandwidth, acl, bind>> /\ Undisturbed

\* The update of a copy that is out of date is refused.
ReleaseBinding ==
    /\ pc = "release"
    /\ bind' = IF recorded.fin /\ bindCache = bind THEN [bind EXCEPT !.fin = FALSE] ELSE bind
    /\ Return
    /\ UNCHANGED cloud /\ Undisturbed

(***************************************************************************)
(* A call fails, or the manager stops before it: the reconcile is over and *)
(* is repeated.  What can be lost depends on where.                        *)
(***************************************************************************)
CallFails ==
    /\ pc \in Calls /\ Strikes(Kind(pc))
    /\ Return
    /\ UNCHANGED <<admissionVars, cloud, bind, bindCache>>

ControllerStep ==
    \/ StartReconcile \/ CreateELB \/ EnsureBinding \/ RecordELB \/ RecordFails
    \/ RestoreBinding \/ RestoreID
    \/ SyncListeners \/ NodesUnreadable \/ UpdateELB
    \/ FindIPGroup \/ UpdateIPGroup \/ CreateIPGroup \/ BindACL \/ UnbindACL
    \/ DeleteIPGroup \/ PersistSettings
    \/ StartCleanup \/ DeleteELB \/ FindLeftGroup \/ ReclaimIPGroup \/ ReleaseBinding
    \/ CallFails

SyncBinding ==
    /\ bindCache # bind /\ bindCache' = bind
    /\ UNCHANGED <<admissionVars, cloud, bind, local, luck>>

Next ==
    \/ ControllerStep \/ SyncBinding
    \/ AdmissionNext /\ UNCHANGED settingsVars

Spec == Init /\ [][Next]_vars

\* Users need not act; operators, the manager and the API server go on.
FairSpec ==
    /\ Spec
    /\ WF_vars(ControllerStep) /\ WF_vars(SyncBinding)
    /\ WF_vars(Operator /\ UNCHANGED settingsVars)
    /\ WF_vars(ReleaseService /\ UNCHANGED settingsVars)

(***************************************************************************)
(* Properties.                                                             *)
(***************************************************************************)
\* What the README of the repository says of the CCM: it never serves a Service that
\* this controller serves.  The run both_serve shows it violated.
NeverBoth == ~ (CCMServes /\ ShouldReconcile)

\* What is left of it: a Service comes to be served by both only when an update makes
\* it a LoadBalancer; one created as a LoadBalancer is never handed to the CCM.
BothOnlyByExposing ==
    [][CCMServes' /\ ShouldReconcile' =>
          \/ CCMServes /\ ShouldReconcile
          \/ st = "live" /\ ~ IsLoadBalancer(spec)]_vars

\* No second IP group is ever made for a Service, whatever answers, records and
\* cached bindings are lost or late: ensureACL looks for one by name first.
OneGroup == \A g, h \in Groups : Live(g) /\ Live(h) => g = h

Spared(kinds) == hit \cap kinds = {}

\* No listener refers to an IP group that has been deleted, unless the id of the load
\* balancer could not be recorded: a cleanup without a Service then finds the group
\* in the binding and not the load balancer.
BoundGroupExists ==
    Spared({"id"}) => \A p \in Listeners : acl[p] # None => Live(acl[p])

\* A reconcile that gets as far as recording what it did has the ranges it read in force
\* on every listener, whatever failed, or was late, before; and the listeners are those
\* of the ports it read, unless the nodes could not be listed.
EnforcedWhenRecorded ==
    pc = "persist" /\ Valid(read.ranges) # {} =>
        /\ Spared({"nodes"}) => Listeners = read.ports
        /\ \A p \in Listeners : acl[p] = group
        /\ Live(group) /\ groups[group].ranges = Valid(read.ranges)

\* Between reconciles the recorded bandwidth is the one the load balancer has, if there
\* is one to have, no call of ensureACL has failed and no record was lost or late: it is
\* what the next reconcile decides by.
RecordedSizeApplied ==
    /\ Spared({"acl", "record", "lag"}) /\ pc = "idle"
    /\ elb = "active" /\ ~ internal /\ bind.size \in 1..MaxSize
    => bandwidth = bind.size

\* UpdateELB will never succeed, and what comes after it is not reached.
Unsettable(s) == s.size > MaxSize \/ (internal /\ s.size > 0)

Stands == ShouldReconcile /\ ~ Unsettable(wish)

\* The ranges a user asks for in the end are the ones every listener enforces, whatever
\* the operator's template, calls that fail on the way and late cached bindings, as
\* long as the binding can be written.
RangesEnforced ==
    []Spared({"record"}) =>
        <>[](Stands /\ Valid(wish.ranges) # {} =>
               /\ Listeners = wish.ports
               /\ \A p \in Listeners : acl[p] # None /\ groups[acl[p]].ranges = Valid(wish.ranges))

\* When they are removed, the listeners are open again and the IP group is gone, if no
\* call of ensureACL has failed on the way and no cached binding was late.
RangesLifted ==
    []Spared({"acl", "record", "lag"}) =>
        <>[](Stands /\ Valid(wish.ranges) = {} =>
               /\ \A p \in Listeners : acl[p] = None
               /\ \A g \in Groups : ~ Live(g))

\* The bandwidth a user asks for in the end is the one the load balancer has, under the
\* same condition: UpdateELB and the record of what it applied are apart.
SizeApplied ==
    []Spared({"acl", "record", "lag"}) =>
        <>[](Stands /\ wish.size > 0 => bandwidth = wish.size)

\* A binding is released with its IP group deleted when the Service is still there to
\* be asked for the group's name, even if the group was never recorded.
NoGroupLeftBehind ==
    [][bind.fin /\ ~ bind'.fin /\ IsLoadBalancer(read) /\ Spared({"lag"}) =>
          \A g \in Groups : ~ Live(g)]_vars

\* The IP group of a deleted Service is deleted, whether the Service is still there
\* to be asked or only its binding, which then has to have recorded it, and the load
\* balancer that listeners refer to it from.
GroupReclaimed ==
    []Spared({"acl", "record", "lag", "id"}) =>
        <>[](st = "gone" /\ IsLoadBalancer(spec) => \A g \in Groups : ~ Live(g))
=============================================================================
