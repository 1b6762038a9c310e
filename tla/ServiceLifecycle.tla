-------------------------- MODULE ServiceLifecycle --------------------------
(***************************************************************************)
(* One Service key of the ServiceReconciler: the Service, its ELBBinding   *)
(* and the load balancers (ELBs) of Huawei Cloud that carry its name,      *)
(* from creation to reclamation.                                           *)
(*                                                                         *)
(* The reconciler is a sequence of calls to the API server and to the      *)
(* cloud.  pc names the call that comes next, so everything else (users,   *)
(* the garbage collector, the informers, the cloud, a crash) may happen    *)
(* between any two calls.  The workqueue runs one reconcile of a key at a  *)
(* time and keeps at most one entry of it: `pending' says whether it is    *)
(* queued, immediately or after a delay (delays are not timed).            *)
(*                                                                         *)
(* Reads of the Service and of the ELBBinding go to the informer caches    *)
(* svcCache and bindCache, writes go to the API server: svc and binding.   *)
(* A write that carries a resourceVersion succeeds when the cached copy    *)
(* equals the stored object; a merge patch writes the fields in which the  *)
(* modified copy differs from the cached one, whatever the stored object.  *)
(***************************************************************************)
EXTENDS Naturals, FiniteSets

CONSTANTS
    UIDs,              \* uids a Service of this key may get, one per incarnation
    ELBIDs,            \* ids the cloud hands out, never reused
    Names,             \* values of huawei-elb.io/name (one is "not set")
    None,              \* an absent object or an empty field
    FaultPoints,       \* the calls that may fail in this instance
    Budget,            \* how many of each disturbance may still happen
    Starts,            \* the initial situations considered, see Init
    Holds,             \* subset of BOOLEAN: may a Service have foreign finalizers
    Changes            \* the changes of class a Service may undergo

\* What may go wrong or get in the way: a call that fails (Kind tells which of the three
\* kinds of failure it is), a binding cache that is behind when it is read, a stop of
\* the manager, a start that no longer finds the Service, and what others do to it.
Disturbances == {"fault", "lost", "recover", "lag", "crash", "unseen",
                 "rename", "reclass", "overwrite"}

\* What the filters of service_utils.go make of a Service: one of ours, one
\* that is no longer of type LoadBalancer, one that carries a label or an
\* annotation that makes it somebody else's.
Classes == {"ours", "otherType", "foreign"}

Phases == {"", "Provisioning", "Ready"}

CreateSteps == {"lookup", "recover", "recoverPatch", "createELB", "waitActive",
                "ensureBinding", "persist", "createSync", "createStatus"}
UpdateSteps == {"update", "adopt", "adoptPatch", "strip", "heal", "updateSync",
                "persistParams", "updateStatus"}
DeleteSteps == {"findDelete", "deleteELB", "clearStatus", "finalizer"}
Steps == CreateSteps \cup UpdateSteps \cup DeleteSteps \cup {"ready"}

ASSUME NoneAssumption == None \notin UIDs \cup ELBIDs \cup Names
\* After every stop the manager can start again.
ASSUME BudgetAssumption ==
    Budget \in [Disturbances -> Nat] /\ Budget["crash"] <= Budget["unseen"]
ASSUME SwitchAssumption ==
    /\ Starts \subseteq {"empty", "annotated", "unheld"}
    /\ Holds \subseteq BOOLEAN
    /\ Changes \subseteq Classes \X Classes
ASSUME FaultAssumption == FaultPoints \subseteq Steps \cup {"createLost"}

VARIABLES
    svc,        \* the Service in the API server
    binding,    \* the ELBBinding of the same name in the API server
    elbs,       \* the load balancers in the cloud
    used,       \* the uids given to a Service so far
    svcCache,   \* the manager's cached copy of svc
    bindCache,  \* the manager's cached copy of binding
    pending,    \* the workqueue holds this key
    up,         \* the manager is running
    pc,         \* the next call of the reconcile, "idle" between reconciles
    svcRead,    \* the Service object the reconcile works on
    bindRead,   \* the ELBBinding object the reconcile works on
    elbID,      \* the load balancer the reconcile works on
    budget      \* disturbances left

cluster == <<svc, binding, used>>
caches  == <<svcCache, bindCache>>
local   == <<pc, svcRead, bindRead, elbID>>
vars == <<svc, binding, elbs, used, svcCache, bindCache, pending, up,
          pc, svcRead, bindRead, elbID, budget>>

(***************************************************************************)
(* The objects.  ann is the annotation huawei-elb.io/elb-id that versions  *)
(* 1 to 5 wrote, ingress the load balancer whose address is published in   *)
(* status.loadBalancer, held that the Service has a finalizer of somebody  *)
(* else, fin the finalizer huawei-elb.io/elb-cleanup.                      *)
(***************************************************************************)
NoService == [uid |-> None, name |-> None, class |-> "ours",
              held |-> FALSE, deleting |-> FALSE, ann |-> None, ingress |-> None]
NoBinding == [uid |-> None, elb |-> None, phase |-> "",
              fin |-> FALSE, deleting |-> FALSE]

Services == [uid : UIDs \cup {None}, name : Names \cup {None}, class : Classes,
             held : BOOLEAN, deleting : BOOLEAN,
             ann : ELBIDs \cup {None}, ingress : ELBIDs \cup {None}]
Bindings == [uid : UIDs \cup {None}, elb : ELBIDs \cup {None}, phase : Phases,
             fin : BOOLEAN, deleting : BOOLEAN]
LoadBalancers == [st : {"free", "pending", "active", "gone"},
                  uid : UIDs \cup {None}, name : Names \cup {None}]

Exists(o) == o.uid # None
Live(e) == elbs[e].st \in {"pending", "active"}
Free == {e \in ELBIDs : elbs[e].st = "free"}

\* Mutant: only finished load balancers are looked at.
FindActiveELBByName(s) == {e \in ELBIDs : elbs[e].st = "active" /\ elbs[e].uid = s.uid
                                          /\ elbs[e].name = s.name}

\* BuildELBName puts the uid of the Service behind the default or the custom
\* name, so (uid, name) identifies it.
FindELBByName(s) == {e \in ELBIDs : Live(e) /\ elbs[e].uid = s.uid
                                            /\ elbs[e].name = s.name}

NewService(u, n, h) == [NoService EXCEPT !.uid = u, !.name = n, !.held = h]
\* Mutant: the finalizer is forgotten.
BareBinding(u) == [NoBinding EXCEPT !.uid = u]

NewBinding(u) == [NoBinding EXCEPT !.uid = u, !.fin = TRUE]

\* Deleting an object that has a finalizer only marks it.
Deleted(b) == IF b.fin THEN [b EXCEPT !.deleting = TRUE] ELSE NoBinding

NewELB(e, s) ==
    elbs' = [elbs EXCEPT ![e] = [st |-> "pending", uid |-> s.uid, name |-> s.name]]

TypeOK ==
    /\ svc \in Services /\ svcCache \in Services /\ svcRead \in Services
    /\ binding \in Bindings /\ bindCache \in Bindings /\ bindRead \in Bindings
    /\ elbs \in [ELBIDs -> LoadBalancers]
    /\ used \subseteq UIDs
    /\ pending \in BOOLEAN /\ up \in BOOLEAN
    /\ pc \in Steps \cup {"idle"}
    /\ elbID \in ELBIDs \cup {None}
    /\ budget \in [Disturbances -> Nat]

(***************************************************************************)
(* Initially nothing exists, or a Service that an earlier version of the   *)
(* controller provisioned.  "annotated": its load balancer is recorded in  *)
(* the annotation, there is no ELBBinding yet, and the finalizer that      *)
(* version put on the Service is still there.  "unheld": the ELBBinding    *)
(* exists without the finalizer.                                           *)
(***************************************************************************)
InitEmpty ==
    /\ svc = NoService /\ binding = NoBinding
    /\ used = {}
    /\ elbs = [x \in ELBIDs |-> [st |-> "free", uid |-> None, name |-> None]]
    /\ pending = FALSE

InitProvisioned(u, n, e) ==
    /\ used = {u}
    /\ elbs = [x \in ELBIDs |-> IF x = e
                 THEN [st |-> "active", uid |-> u, name |-> n]
                 ELSE [st |-> "free", uid |-> None, name |-> None]]
    /\ pending = TRUE

InitAnnotated(u, n, e) ==
    /\ svc = [NewService(u, n, TRUE) EXCEPT !.ann = e, !.ingress = e]
    /\ binding = NoBinding
    /\ InitProvisioned(u, n, e)

InitUnheld(u, n, e) ==
    /\ svc = [NewService(u, n, TRUE) EXCEPT !.ingress = e]
    /\ binding = [NewBinding(u) EXCEPT !.elb = e, !.phase = "Ready", !.fin = FALSE]
    /\ InitProvisioned(u, n, e)

Init ==
    /\ \/ "empty" \in Starts /\ InitEmpty
       \/ "annotated" \in Starts
          /\ \E u \in UIDs, n \in Names, e \in ELBIDs : InitAnnotated(u, n, e)
       \/ "unheld" \in Starts
          /\ \E u \in UIDs, n \in Names, e \in ELBIDs : InitUnheld(u, n, e)
    /\ svcCache = svc /\ bindCache = binding
    /\ up = TRUE
    /\ pc = "idle" /\ svcRead = NoService /\ bindRead = NoBinding /\ elbID = None
    /\ budget = Budget

(***************************************************************************)
(* Moving through a reconcile.                                             *)
(***************************************************************************)
At(p) == up /\ pc = p

Spend(d) == budget[d] > 0 /\ budget' = [budget EXCEPT ![d] = @ - 1]

\* None of these has happened so far.
Spared(kinds) == \A d \in kinds : budget[d] = Budget[d]

\* The cached ELBBinding is current when it is read, unless its informer is behind.
Fresh == bindCache = binding \/ ~ Spared({"lag"})

Goto(p) == pc' = p /\ UNCHANGED <<pending, svcRead>>

Finish(requeue) ==
    /\ pc' = "idle" /\ pending' = (pending \/ requeue)
    /\ svcRead' = NoService /\ bindRead' = NoBinding /\ elbID' = None

\* The steps of the reconciler leave the rest of the world alone.
Undisturbed == UNCHANGED <<used, svcCache, bindCache, up, budget>>

\* patchBindingStatus: Get from the cache, modify, merge-patch the status.
BindingPatchable == Exists(bindCache) /\ Exists(binding)

PatchBindingStatus(e, ph) ==
    binding' = IF BindingPatchable
               THEN [binding EXCEPT !.elb = IF e = bindCache.elb THEN @ ELSE e,
                                    !.phase = IF ph = bindCache.phase THEN @ ELSE ph]
               ELSE binding

\* updateStatusWithRetry: the same on the status of the Service.
ServicePatchable == Exists(svcCache) /\ Exists(svc)

PatchIngress(e) ==
    svc' = IF ServicePatchable /\ e # svcCache.ingress
           THEN [svc EXCEPT !.ingress = e] ELSE svc

\* patchBindingFinalizer: an Update, refused unless the cached copy is current.
\* The API server accepts no new finalizer on an object being deleted.
WithFinalizer ==
    IF bindCache = binding /\ ~ binding.deleting
    THEN [binding EXCEPT !.fin = TRUE] ELSE binding

(***************************************************************************)
(* ensureBinding: what it returns and what it leaves in the API server.    *)
(* A cached binding of another uid is deleted first; the delete fails when *)
(* there is nothing to delete, and leaves the object in place when it has  *)
(* a finalizer, so that the create that follows fails.                     *)
(***************************************************************************)
EnsureBinding(u) ==
    LET stale == Exists(bindCache) /\ bindCache.uid # u
        left  == IF stale THEN Deleted(binding) ELSE binding
        fails == (stale /\ ~ Exists(binding)) \/ Exists(left)
    IN  IF bindCache.uid = u
        THEN [ok |-> TRUE, ret |-> bindCache,
              server |-> IF bindCache.fin THEN binding ELSE WithFinalizer]
        ELSE IF fails
        THEN [ok |-> FALSE, ret |-> NoBinding, server |-> left]
        ELSE [ok |-> TRUE, ret |-> NewBinding(u), server |-> NewBinding(u)]

(***************************************************************************)
(* Reconcile: take the key off the queue, read the Service, route.         *)
(***************************************************************************)
TakeRequest ==
    /\ At("idle") /\ pending /\ Fresh
    /\ UNCHANGED <<svc, binding, elbs>> /\ Undisturbed

\* Mutant: a Service that is not found is always ignored.
SkipMissing ==
    /\ TakeRequest
    /\ \/ ~ Exists(svcCache)
       \/ Exists(svcCache) /\ svcCache.class = "otherType"
       \/ Exists(svcCache) /\ svcCache.class = "foreign" /\ ~ svcCache.deleting
    /\ pending' = FALSE /\ UNCHANGED local

SkipService ==
    /\ TakeRequest
    /\ \/ ~ Exists(svcCache) /\ ~ bindCache.fin
       \/ Exists(svcCache) /\ svcCache.class = "otherType"
       \/ Exists(svcCache) /\ svcCache.class = "foreign" /\ ~ svcCache.deleting
    /\ pending' = FALSE /\ UNCHANGED local

\* reconcileOrphanedBinding: the Service is gone, there is no name to look up.
ReconcileOrphanedBinding ==
    /\ TakeRequest
    /\ ~ Exists(svcCache) /\ bindCache.fin
    /\ bindRead' = bindCache /\ elbID' = bindCache.elb
    /\ pc' = IF bindCache.elb # None THEN "deleteELB" ELSE "finalizer"
    /\ pending' = FALSE /\ UNCHANGED svcRead

\* reconcileDelete: the binding's id first, then the annotation's, then by name.
ReconcileDelete ==
    LET recorded == IF bindCache.elb # None THEN bindCache.elb ELSE svcCache.ann
    IN  /\ TakeRequest
        /\ Exists(svcCache) /\ svcCache.class # "otherType" /\ svcCache.deleting
        /\ svcRead' = svcCache /\ bindRead' = bindCache /\ elbID' = recorded
        /\ pc' = IF recorded # None THEN "deleteELB" ELSE "findDelete"
        /\ pending' = FALSE

\* Mutant: only the annotation tells that a Service has a load balancer.
ReconcileByAnnotation ==
    /\ TakeRequest
    /\ Exists(svcCache) /\ svcCache.class = "ours" /\ ~ svcCache.deleting
    /\ svcRead' = svcCache
    /\ pc' = IF svcCache.ann # None THEN "update" ELSE "lookup"
    /\ pending' = FALSE /\ UNCHANGED <<bindRead, elbID>>

ReconcileService ==
    /\ TakeRequest
    /\ Exists(svcCache) /\ svcCache.class = "ours" /\ ~ svcCache.deleting
    /\ svcRead' = svcCache
    /\ pc' = IF svcCache.ann # None \/ bindCache.elb # None THEN "update" ELSE "lookup"
    /\ pending' = FALSE /\ UNCHANGED <<bindRead, elbID>>

(***************************************************************************)
(* reconcileCreate.                                                        *)
(***************************************************************************)
Lookup ==
    /\ At("lookup")
    /\ \/ \E e \in FindELBByName(svcRead) : elbID' = e /\ Goto("recover")
       \/ FindELBByName(svcRead) = {} /\ elbID' = None /\ Goto("createELB")
    /\ UNCHANGED <<svc, binding, elbs, bindRead>> /\ Undisturbed

\* An error of ensureBinding is only logged here.
Recover ==
    /\ At("recover") /\ Fresh
    /\ binding' = EnsureBinding(svcRead.uid).server
    /\ Goto("recoverPatch")
    /\ UNCHANGED <<svc, elbs, bindRead, elbID>> /\ Undisturbed

RecoverPatch ==
    /\ At("recoverPatch") /\ Fresh
    /\ PatchBindingStatus(elbID, bindCache.phase)
    /\ Finish(TRUE)
    /\ UNCHANGED <<svc, elbs>> /\ Undisturbed

\* Mutant: the call is repeated although its first attempt succeeded.
CreateELBTwice ==
    /\ At("createELB")
    /\ \E e, f \in Free :
          /\ elbs' = [x \in ELBIDs |-> IF x \in {e, f}
                         THEN [st |-> "pending", uid |-> svcRead.uid, name |-> svcRead.name]
                         ELSE elbs[x]]
          /\ elbID' = e
    /\ Goto("waitActive")
    /\ UNCHANGED <<svc, binding, bindRead>> /\ Undisturbed

CreateELB ==
    /\ At("createELB")
    /\ \E e \in Free : NewELB(e, svcRead) /\ elbID' = e
    /\ Goto("waitActive")
    /\ UNCHANGED <<svc, binding, bindRead>> /\ Undisturbed

\* The cloud created the load balancer, the answer was lost.
CreateELBAnswerLost ==
    /\ At("createELB") /\ "createLost" \in FaultPoints /\ Spend("lost")
    /\ \E e \in Free : NewELB(e, svcRead)
    /\ Finish(TRUE)
    /\ UNCHANGED <<svc, binding, used, svcCache, bindCache, up>>

WaitForELBActive ==
    /\ At("waitActive") /\ elbs[elbID].st = "active"
    /\ Goto("ensureBinding")
    /\ UNCHANGED <<svc, binding, elbs, bindRead, elbID>> /\ Undisturbed

CreateBinding ==
    LET b == EnsureBinding(svcRead.uid)
    IN  /\ At("ensureBinding") /\ Fresh
        /\ binding' = b.server
        /\ \/ b.ok /\ bindRead' = b.ret /\ Goto("persist") /\ UNCHANGED elbID
           \/ ~ b.ok /\ Finish(TRUE)
        /\ UNCHANGED <<svc, elbs>> /\ Undisturbed

\* Status().Update with the object ensureBinding returned; on a conflict the
\* patch of a fresh read; when both fail the reconcile goes on.
PersistELBID ==
    /\ At("persist")
    /\ IF Exists(binding) /\ binding = bindRead
       THEN binding' = [binding EXCEPT !.elb = elbID, !.phase = "Provisioning"]
       ELSE Fresh /\ PatchBindingStatus(elbID, "Provisioning")
    /\ Goto("createSync")
    /\ UNCHANGED <<svc, elbs, bindRead, elbID>> /\ Undisturbed

\* createListenerStack for every port, then ensureACL: the load balancer must
\* still be there.
CreateStacks ==
    /\ At("createSync")
    /\ \/ elbs[elbID].st = "active" /\ Goto("createStatus") /\ UNCHANGED <<bindRead, elbID>>
       \/ elbs[elbID].st # "active" /\ Finish(TRUE)
    /\ UNCHANGED <<svc, binding, elbs>> /\ Undisturbed

CreateStatus ==
    /\ At("createStatus")
    /\ PatchIngress(elbID)
    /\ \/ ServicePatchable /\ Goto("ready") /\ UNCHANGED <<bindRead, elbID>>
       \/ ~ ServicePatchable /\ Finish(TRUE)
    /\ UNCHANGED <<binding, elbs>> /\ Undisturbed

\* Phase Ready; errors are logged, and both paths requeue.
MarkReady ==
    /\ At("ready") /\ Fresh
    /\ PatchBindingStatus(bindCache.elb, "Ready")
    /\ Finish(TRUE)
    /\ UNCHANGED <<svc, elbs>> /\ Undisturbed

(***************************************************************************)
(* reconcileUpdate.  The binding is read again; its ServiceUID is never    *)
(* compared with the uid of the Service.                                   *)
(***************************************************************************)
UpdateEntry ==
    LET recorded == IF bindCache.elb # None THEN bindCache.elb ELSE svcRead.ann
    IN  /\ At("update") /\ Fresh
        /\ elbID' = recorded
        /\ \/ recorded = None /\ Goto("lookup") /\ UNCHANGED bindRead
           \/ /\ recorded # None
              /\ bindRead' = bindCache
              /\ Goto(IF Exists(bindCache) THEN "heal" ELSE "adopt")
        /\ UNCHANGED <<svc, binding, elbs>> /\ Undisturbed

Adopt ==
    LET b == EnsureBinding(svcRead.uid)
    IN  /\ At("adopt") /\ Fresh
        /\ binding' = b.server
        /\ \/ b.ok /\ bindRead' = b.ret /\ Goto("adoptPatch")
           \/ ~ b.ok /\ Goto("heal") /\ UNCHANGED bindRead
        /\ UNCHANGED <<svc, elbs, elbID>> /\ Undisturbed

\* adoptLegacyAnnotations: the cache must already show the binding just made.
AdoptPatch ==
    /\ At("adoptPatch") /\ Fresh
    /\ PatchBindingStatus(IF svcRead.ann # None THEN svcRead.ann ELSE bindCache.elb,
                          IF bindCache.phase = "" THEN "Ready" ELSE bindCache.phase)
    /\ Goto(IF BindingPatchable /\ svcRead.ann # None THEN "strip" ELSE "heal")
    /\ UNCHANGED <<svc, elbs, bindRead, elbID>> /\ Undisturbed

StripAnnotations ==
    /\ At("strip")
    /\ svc' = IF ServicePatchable /\ svcCache.ann # None
              THEN [svc EXCEPT !.ann = None] ELSE svc
    /\ Goto("heal")
    /\ UNCHANGED <<binding, elbs, bindRead, elbID>> /\ Undisturbed

\* Mutant: bindings of earlier versions stay as they are.
LeaveFinalizer ==
    /\ At("heal") /\ Fresh
    /\ Goto("updateSync")
    /\ UNCHANGED <<svc, binding, elbs, bindRead, elbID>> /\ Undisturbed

HealFinalizer ==
    /\ At("heal") /\ Fresh
    /\ binding' = IF Exists(bindRead) /\ ~ bindRead.fin /\ Exists(bindCache)
                  THEN WithFinalizer ELSE binding
    /\ Goto("updateSync")
    /\ UNCHANGED <<svc, elbs, bindRead, elbID>> /\ Undisturbed

\* syncListenerStacks, syncAllPoolMembers, UpdateELB and ensureACL.
UpdateSync ==
    /\ At("updateSync")
    /\ \/ elbs[elbID].st = "active" /\ Goto("persistParams") /\ UNCHANGED <<bindRead, elbID>>
       \/ elbs[elbID].st # "active" /\ Finish(TRUE)
    /\ UNCHANGED <<svc, binding, elbs>> /\ Undisturbed

\* LastKnownParams and the ACL fields are not modelled here, whether they can be
\* written is.
PersistParams ==
    /\ At("persistParams") /\ Fresh
    /\ \/ BindingPatchable /\ Goto("updateStatus") /\ UNCHANGED <<bindRead, elbID>>
       \/ ~ BindingPatchable /\ Finish(TRUE)
    /\ UNCHANGED <<svc, binding, elbs>> /\ Undisturbed

UpdateStatus ==
    /\ At("updateStatus")
    /\ IF svcRead.ingress = None /\ Live(elbID) THEN PatchIngress(elbID) ELSE svc' = svc
    /\ Goto("ready")
    /\ UNCHANGED <<binding, elbs, bindRead, elbID>> /\ Undisturbed

(***************************************************************************)
(* cleanupBindingResources.                                                *)
(***************************************************************************)
AfterDelete(s) == IF Exists(s) THEN "clearStatus" ELSE "finalizer"

FindForDelete ==
    /\ At("findDelete")
    /\ \/ \E e \in FindELBByName(svcRead) : elbID' = e /\ Goto("deleteELB")
       \/ FindELBByName(svcRead) = {} /\ Goto("clearStatus") /\ UNCHANGED elbID
    /\ UNCHANGED <<svc, binding, elbs, bindRead>> /\ Undisturbed

\* deleteELBStack; that the load balancer is already gone is not an error.
DeleteELB ==
    /\ At("deleteELB")
    /\ elbs' = [elbs EXCEPT ![elbID].st = IF Live(elbID) THEN "gone" ELSE @]
    /\ Goto(AfterDelete(svcRead))
    /\ UNCHANGED <<svc, binding, bindRead, elbID>> /\ Undisturbed

\* Mutant: an empty address instead of none.
BlankStatus ==
    /\ At("clearStatus")
    /\ PatchIngress("")
    /\ Goto("finalizer")
    /\ UNCHANGED <<binding, elbs, bindRead, elbID>> /\ Undisturbed

ClearStatus ==
    /\ At("clearStatus")
    /\ PatchIngress(None)
    /\ Goto("finalizer")
    /\ UNCHANGED <<binding, elbs, bindRead, elbID>> /\ Undisturbed

\* The finalizer was seen in bindRead; patchBindingFinalizer reads the cache
\* again.  Not found is success, a conflict that outlives the retries requeues.
RemoveFinalizer ==
    LET gone     == ~ bindRead.fin \/ ~ Exists(bindCache) \/ ~ Exists(binding)
        conflict == ~ gone /\ bindCache # binding
    IN  /\ At("finalizer") /\ Fresh
        /\ binding' = IF gone \/ conflict THEN binding
                      ELSE IF binding.deleting THEN NoBinding
                      ELSE [binding EXCEPT !.fin = FALSE]
        /\ Finish(conflict)
        /\ UNCHANGED <<svc, elbs>> /\ Undisturbed

(***************************************************************************)
(* A call fails.  Most errors end the reconcile with a requeue; the ones   *)
(* below are logged and the reconcile goes on.  A failed write or a failed *)
(* cloud call has no effect (but see CreateELBAnswerLost).                 *)
(***************************************************************************)
AfterError ==
    [p \in Steps |->
        CASE p = "recover"      -> "recoverPatch"
          [] p = "persist"      -> "createSync"
          [] p = "adopt"        -> "heal"
          [] p = "adoptPatch"   -> "heal"
          [] p = "strip"        -> "heal"
          [] p = "heal"         -> "updateSync"
          [] p = "updateStatus" -> "ready"
          [] p = "clearStatus"  -> "finalizer"
          [] OTHER              -> "idle"]

\* "lost": up to the record of its id a load balancer can be found by its name only.
\* "recover": the id is written although the binding may lack the finalizer.
Kind(p) ==
    CASE p \in {"waitActive", "ensureBinding", "persist"} -> "lost"
      [] p = "recover"                                    -> "recover"
      [] OTHER                                            -> "fault"

\* Mutant: an error ends the reconcile for good.
CallGivesUp ==
    /\ pc \in FaultPoints \cap Steps /\ At(pc) /\ Spend(Kind(pc))
    /\ IF AfterError[pc] = "idle" THEN Finish(FALSE)
                                  ELSE Goto(AfterError[pc]) /\ UNCHANGED <<bindRead, elbID>>
    /\ UNCHANGED <<svc, binding, elbs, used, svcCache, bindCache, up>>

CallFails ==
    /\ pc \in FaultPoints \cap Steps /\ At(pc) /\ Spend(Kind(pc))
    /\ IF AfterError[pc] = "idle" THEN Finish(TRUE)
                                  ELSE Goto(AfterError[pc]) /\ UNCHANGED <<bindRead, elbID>>
    /\ UNCHANGED <<svc, binding, elbs, used, svcCache, bindCache, up>>

ControllerStep ==
    \/ SkipService \/ ReconcileOrphanedBinding \/ ReconcileDelete \/ ReconcileService
    \/ Lookup \/ Recover \/ RecoverPatch \/ CreateELB \/ CreateELBAnswerLost
    \/ WaitForELBActive \/ CreateBinding \/ PersistELBID \/ CreateStacks
    \/ CreateStatus \/ MarkReady
    \/ UpdateEntry \/ Adopt \/ AdoptPatch \/ StripAnnotations \/ HealFinalizer
    \/ UpdateSync \/ PersistParams \/ UpdateStatus
    \/ FindForDelete \/ DeleteELB \/ ClearStatus \/ RemoveFinalizer
    \/ CallFails

(***************************************************************************)
(* The informers.  svcPredicate decides which Service events queue the     *)
(* key; it is installed as the event filter of the whole controller, so    *)
(* events of the ELBBinding (Owns) are dropped.                            *)
(***************************************************************************)
Watched(s) == Exists(s) /\ s.class = "ours"

Enqueues(old, new) ==
    IF old.uid # new.uid THEN Watched(old) \/ Watched(new)
    ELSE IF new.deleting THEN Watched(new)
    ELSE /\ (old.class = "otherType") # (new.class = "otherType")
         /\ Watched(old) \/ Watched(new)

SyncService ==
    /\ up /\ svcCache # svc
    /\ svcCache' = svc
    /\ pending' = (pending \/ Enqueues(svcCache, svc))
    /\ UNCHANGED <<cluster, elbs, bindCache, up, local, budget>>

SyncBinding ==
    /\ up /\ bindCache # binding
    /\ bindCache' = binding
    /\ UNCHANGED <<cluster, elbs, svcCache, pending, up, local, budget>>

\* From here on reconciles may read the binding before its informer has caught up.
BindingLags ==
    /\ up /\ bindCache # binding /\ Spend("lag")
    /\ UNCHANGED <<cluster, elbs, caches, pending, up, local>>

(***************************************************************************)
(* The manager stops between two calls and starts again: the caches are    *)
(* filled and every Service in them is a create event.  A start that does  *)
(* not find the Service any more is counted: the deletion is no event.     *)
(***************************************************************************)
Crash ==
    /\ up /\ Spend("crash")
    /\ up' = FALSE /\ pending' = FALSE
    /\ pc' = "idle" /\ svcRead' = NoService /\ bindRead' = NoBinding /\ elbID' = None
    /\ svcCache' = NoService /\ bindCache' = NoBinding
    /\ UNCHANGED <<cluster, elbs>>

\* Mutant: the workers do not wait for the Service cache.
RestartCold ==
    /\ ~ up /\ up' = TRUE
    /\ svcCache' = NoService /\ bindCache' = binding
    /\ pending' = Watched(svc)
    /\ IF Exists(svc) THEN UNCHANGED budget ELSE Spend("unseen")
    /\ UNCHANGED <<cluster, elbs, local>>

Restart ==
    /\ ~ up /\ up' = TRUE
    /\ svcCache' = svc /\ bindCache' = binding
    /\ pending' = Watched(svc)
    /\ IF Exists(svc) THEN UNCHANGED budget ELSE Spend("unseen")
    /\ UNCHANGED <<cluster, elbs, local>>

(***************************************************************************)
(* Users, other controllers, the garbage collector and the cloud.          *)
(***************************************************************************)
AllButService == UNCHANGED <<binding, elbs, caches, pending, up, local>>

CreateService ==
    /\ ~ Exists(svc)
    /\ \E u \in UIDs \ used, n \in Names, h \in Holds :
          /\ used' = used \cup {u}
          /\ \/ svc' = NewService(u, n, h) /\ UNCHANGED budget
             \/ /\ Spend("reclass")
                /\ \E c \in Classes \ {"ours"} :
                      <<c, "ours">> \in Changes
                      /\ svc' = [NewService(u, n, h) EXCEPT !.class = c]
    /\ AllButService

DeleteService ==
    /\ Exists(svc) /\ ~ svc.deleting
    /\ svc' = IF svc.held THEN [svc EXCEPT !.deleting = TRUE] ELSE NoService
    /\ AllButService /\ UNCHANGED <<used, budget>>

\* The last foreign finalizer is removed by its owner.
ReleaseService ==
    /\ Exists(svc) /\ svc.deleting
    /\ svc' = NoService
    /\ AllButService /\ UNCHANGED <<used, budget>>

\* huawei-elb.io/name is edited, or a LoadBalancerConfig sets it.
RenameService ==
    /\ Exists(svc) /\ Spend("rename")
    /\ \E n \in Names \ {svc.name} : svc' = [svc EXCEPT !.name = n]
    /\ AllButService /\ UNCHANGED used

\* The type, or the labels and annotations, of a Service change; the API server
\* clears the status of one that leaves type LoadBalancer.  A time out of our class,
\* from the start or by a change, counts as a disturbance; the way back does not.
ReclassifyService ==
    /\ Exists(svc)
    /\ \E c \in Classes \ {svc.class} :
          /\ <<svc.class, c>> \in Changes
          /\ svc' = [svc EXCEPT !.class = c,
                                !.ingress = IF c = "otherType" THEN None ELSE @]
          /\ IF svc.class = "ours" THEN Spend("reclass") ELSE UNCHANGED budget
    /\ AllButService /\ UNCHANGED used

\* OpenEverest rewrites the annotations, CCE CCM clears the status.
OverwriteService ==
    /\ Exists(svc) /\ Spend("overwrite")
    /\ \/ svc.ann # None /\ svc' = [svc EXCEPT !.ann = None]
       \/ svc.ingress # None /\ svc' = [svc EXCEPT !.ingress = None]
    /\ AllButService /\ UNCHANGED used

\* The owner of the binding is gone.
GarbageCollect ==
    /\ Exists(binding) /\ ~ binding.deleting /\ binding.uid # svc.uid
    /\ binding' = Deleted(binding)
    /\ UNCHANGED <<svc, used, elbs, caches, pending, up, local, budget>>

ELBActivates(e) ==
    /\ elbs[e].st = "pending"
    /\ elbs' = [elbs EXCEPT ![e].st = "active"]
    /\ UNCHANGED <<cluster, caches, pending, up, local, budget>>

Environment ==
    \/ CreateService \/ DeleteService \/ ReleaseService \/ RenameService
    \/ ReclassifyService \/ OverwriteService \/ GarbageCollect
    \/ \E e \in ELBIDs : ELBActivates(e)

Next == ControllerStep \/ SyncService \/ SyncBinding \/ BindingLags \/ Crash \/ Restart \/ Environment

Spec == Init /\ [][Next]_vars

\* Users are never obliged to act; everything automatic goes on.
Fairness ==
    /\ WF_vars(ControllerStep)
    /\ WF_vars(SyncService) /\ WF_vars(SyncBinding) /\ WF_vars(Restart)
    /\ WF_vars(ReleaseService) /\ WF_vars(GarbageCollect)
    /\ \A e \in ELBIDs : WF_vars(ELBActivates(e))

FairSpec == Spec /\ Fairness

(***************************************************************************)
(* Properties.                                                             *)
(***************************************************************************)
\* No Service incarnation ever has two load balancers of the same name: the
\* lookup that guards CreateELB finds every one made before, whatever answer was
\* lost and wherever the manager crashed.
UniqueELBName ==
    \A e, f \in ELBIDs :
        /\ Live(e) /\ Live(f)
        /\ elbs[e].uid = elbs[f].uid /\ elbs[e].name = elbs[f].name
        => e = f

\* The load balancer of a Service that nobody deleted is never deleted, however
\* stale the caches and bindings that cleanupBindingResources acts on.
LiveELBKept ==
    [][\A e \in ELBIDs :
          Live(e) /\ elbs[e].uid = svc.uid /\ ~ svc.deleting => elbs'[e].st # "gone"]_vars

\* A binding that records a live load balancer carries the finalizer: the garbage
\* collector cannot remove the record before the controller has deleted it.  So it is
\* until a reconcile works on a binding copy that is behind, or writes the id after the
\* failed ensureBinding whose error is only logged.
FinalizerHoldsELB ==
    Spared({"lag", "recover"}) /\ binding.elb # None /\ Live(binding.elb) => binding.fin

\* Under the same condition the id of a live load balancer, once recorded, stays recorded
\* until that is gone: no later create or recovery writes another over it.
RecordedIDKept ==
    [][Spared({"lag", "recover"}) /\ binding.elb # None /\ Live(binding.elb)
          => binding'.elb = binding.elb]_vars

\* The Service is gone, and the controller knows it and has nothing left to do.
GoneAndDone == up /\ pc = "idle" /\ ~ pending /\ ~ Exists(svc) /\ ~ Exists(svcCache)

\* Then a load balancer that was recorded is deleted, whatever calls failed, whatever
\* answers were lost and wherever the manager stopped; a deletion while it was down and
\* a Service that was not ours for a time lose the event that this rests on.
RecordedReclaimed ==
    GoneAndDone /\ Spared({"lag", "recover", "unseen", "reclass"})
        => binding.elb = None \/ ~ Live(binding.elb)

\* If also nothing was lost between the creation of a load balancer and its record, then
\* no load balancer of the name is left at all, however often it was renamed.
NoSilentLeak ==
    GoneAndDone /\ Spared({"lag", "lost", "recover", "crash", "reclass"})
        => \A e \in ELBIDs : ~ Live(e)

\* When a name stays free in the end, so do the cloud and the binding: nothing of
\* the Services that used it is left, under the conditions of NoSilentLeak.
DeletedServiceReclaimed ==
    []Spared({"lag", "lost", "recover", "crash", "reclass"}) =>
        (<>[](~ Exists(svc)) => <>[](~ Exists(binding) /\ \A e \in ELBIDs : ~ Live(e)))

\* A terminating ELBBinding that the finalizer holds and whose Service is gone does not
\* keep its load balancer when the controller, which sees it, has nothing left to do.
HeldOrphanCleaned ==
    /\ GoneAndDone /\ bindCache = binding
    /\ binding.fin /\ binding.deleting /\ binding.elb # None
    => ~ Live(binding.elb)

\* A Service is served when its own load balancer is active, published in its status
\* and recorded in its own binding under the finalizer.
Served ==
    \E e \in ELBIDs :
        /\ elbs[e].st = "active" /\ elbs[e].uid = svc.uid
        /\ svc.ingress = e
        /\ binding.uid = svc.uid /\ binding.elb = e
        /\ binding.phase = "Ready" /\ binding.fin

Wanted == Exists(svc) /\ svc.class = "ours" /\ ~ svc.deleting

\* A Service that stays is served in the end, and stays served.
LiveServiceServed == <>[]Wanted => <>[]Served

(***************************************************************************)
(* The reconciler implements ELBOwnership: every call that touches a load  *)
(* balancer is one that ELBOwnership allows, every other step changes      *)
(* nothing it knows of.                                                    *)
(***************************************************************************)
Owner == IF Exists(svc) /\ ~ svc.deleting THEN svc.uid ELSE None

Ownership == INSTANCE ELBOwnership WITH owner <- Owner

\* Load balancers are provided and taken back only as ELBOwnership promises.
OwnershipKept == Ownership!Spec

=============================================================================
