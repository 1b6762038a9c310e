------------------------ MODULE ServiceReclaimProofs ------------------------
(***************************************************************************)
(* What the ELBBinding records is not lost: the id of a live load balancer *)
(* stays there, and when the Service is gone and the ServiceReconciler     *)
(* rests, the load balancer is gone too.  Proved for any number of         *)
(* incarnations of the name, load balancers, renamings, overwrites, lost   *)
(* answers and retried failures.                                           *)
(***************************************************************************)
EXTENDS ServiceLifecycleProofs

(***************************************************************************)
(* The record.  As long as the history is Regular an id is written only    *)
(* into a binding that has none.                                           *)
(***************************************************************************)
Unrecorded ==
    /\ ~ Exists(binding) => binding.elb = None
    /\ pc \in {"lookup", "recover", "recoverPatch", "createELB", "waitActive",
               "ensureBinding", "persist", "adopt", "adoptPatch"} => binding.elb = None

\* The initial situations without a half-upgraded binding have none.
LEMMA UnrecordedInit == "unheld" \notin Starts /\ Init => Unrecorded
  <1> SUFFICES ASSUME "unheld" \notin Starts, Init PROVE binding = NoBinding
    BY AbsentFields DEF Unrecorded
  <1> QED
    BY DEF Init, InitEmpty, InitAnnotated

\* What a step does to the recorded id: nothing, unless there was none or it is no
\* longer that of a live load balancer.
LEMMA RecordStep ==
    ASSUME Regular, TypeOK, Inv, Hold, Unrecorded, [Next]_vars
    PROVE  /\ binding.elb = None \/ ~ Live(binding.elb) \/ binding'.elb = binding.elb
           /\ ~ Exists(binding)' => binding'.elb = None
           /\ \/ binding'.elb \in {binding.elb, None}
              \/ pc \in {"recoverPatch", "persist", "adoptPatch"}
                 /\ pc' \in {"idle", "createSync", "strip", "heal"}
  <1> USE AbsentFields DEF Unrecorded, At, Goto, Finish, Exists
  <1>b. Fresh => bindCache = binding
    BY DEF Fresh, Spared, Regular
  <1>c. pc \in {"recover", "ensureBinding", "adopt"} => svcRead.uid \in UIDs
    BY DEF Inv, ServiceShape, TypeOK, Services, DeleteSteps
  <1>1. CASE Recover \/ CreateBinding \/ Adopt
    <2>1. /\ pc \in {"recover", "ensureBinding", "adopt"} /\ bindCache = binding
          /\ binding' = EnsureBinding(svcRead.uid).server
      BY <1>1, <1>b DEF Recover, CreateBinding, Adopt
    <2>2. binding'.elb \in {None, binding.elb}
      BY <1>c, <2>1, EnsureHeld DEF Hold
    <2> QED
      BY <2>1, <2>2
  <1>2. CASE RecoverPatch \/ PersistELBID \/ AdoptPatch
    <2>1. pc \in {"recoverPatch", "persist", "adoptPatch"}
          /\ pc' \in {"idle", "createSync", "strip", "heal"}
      BY <1>2 DEF RecoverPatch, PersistELBID, AdoptPatch
    <2>2. binding.uid = None => binding'.elb = binding.elb
      BY <1>2 DEF RecoverPatch, PersistELBID, AdoptPatch, PatchBindingStatus, BindingPatchable
    <2>3. binding'.uid = binding.uid
      BY <1>2 DEF RecoverPatch, PersistELBID, AdoptPatch, PatchBindingStatus, TypeOK, Bindings
    <2> QED
      BY <2>1, <2>2, <2>3
  <1>3. CASE MarkReady \/ HealFinalizer
    <2>1. binding'.elb = binding.elb /\ binding'.uid = binding.uid
      <3>1. CASE MarkReady
        BY <3>1, <1>b, FreshPatch, FieldTypes DEF MarkReady, Phases
      <3>2. CASE HealFinalizer
        BY <3>2 DEF HealFinalizer, WithFinalizer, TypeOK, Bindings
      <3> QED
        BY <1>3, <3>1, <3>2
    <2> QED
      BY <2>1
  <1>4. CASE RemoveFinalizer \/ GarbageCollect
    <2>1. \/ binding' = NoBinding
          \/ binding'.elb = binding.elb /\ binding'.uid = binding.uid
      BY <1>4 DEF RemoveFinalizer, GarbageCollect, Deleted, TypeOK, Bindings
    <2>2. binding' = NoBinding => binding.elb = None \/ ~ Live(binding.elb)
      BY <1>4 DEF RemoveFinalizer, GarbageCollect, Deleted, Hold, CleanupCovers,
         RecordHeld, TypeOK, Bindings
    <2> QED
      BY <2>1, <2>2
  <1>5. CASE binding' = binding
    BY <1>5
  <1> QED
    BY <1>1, <1>2, <1>3, <1>4, <1>5
       DEF Next, ControllerStep, Environment, SkipService, ReconcileOrphanedBinding,
           ReconcileDelete, ReconcileService, TakeRequest, Lookup, CreateELB,
           CreateELBAnswerLost, WaitForELBActive, CreateStacks, CreateStatus, UpdateEntry,
           StripAnnotations, UpdateSync, PersistParams, UpdateStatus, FindForDelete, DeleteELB,
           ClearStatus, CallFails, SyncService, SyncBinding, BindingLags, Crash, Restart,
           CreateService,
           DeleteService, ReleaseService, RenameService, ReclassifyService, OverwriteService,
           ELBActivates, AllButService, cluster, vars

\* Unrecorded is inductive: a reconcile sets out to create, recover or adopt only when
\* it saw no id, and nobody else writes one.
LEMMA UnrecordedNext ==
    ASSUME Regular, Inv, Hold, Unrecorded, [Next]_vars
    PROVE  Unrecorded'
  <1> DEFINE Early == {"lookup", "recover", "recoverPatch", "createELB", "waitActive",
                       "ensureBinding", "persist", "adopt", "adoptPatch"}
  <1>1. ASSUME pc' \in Early, pc \notin Early PROVE binding'.elb = None
    <2> USE DEF At, Goto, Finish
    <2>1. CASE ReconcileService
      BY <1>1, <2>1 DEF ReconcileService, TakeRequest, Unrecorded, Fresh, Regular, Spared
    <2>2. CASE UpdateEntry
      BY <1>1, <2>2 DEF UpdateEntry, Unrecorded, Exists, Fresh, Regular, Spared
    <2>3. pc' # pc /\ pc # "recover"
      BY <1>1
    <2>4. CASE CallFails
      BY <1>1, <2>4 DEF CallFails, AfterError, Steps, CreateSteps
    <2> QED
      BY <1>1, <2>1, <2>2, <2>3, <2>4
         DEF Next, ControllerStep, Environment, SkipService, ReconcileOrphanedBinding,
             ReconcileDelete, Lookup, Recover, RecoverPatch, CreateELB, CreateELBAnswerLost,
             WaitForELBActive, CreateBinding, PersistELBID, CreateStacks, CreateStatus,
             MarkReady, Adopt, AdoptPatch, StripAnnotations, HealFinalizer, UpdateSync,
             PersistParams, UpdateStatus, FindForDelete, DeleteELB, ClearStatus,
             RemoveFinalizer, AfterDelete, SyncService, SyncBinding, BindingLags, Crash,
             Restart,
             CreateService, DeleteService, ReleaseService, RenameService, ReclassifyService,
             OverwriteService, GarbageCollect, ELBActivates, AllButService, local, vars
  <1>2. ASSUME pc' \in Early, pc \in Early PROVE binding'.elb = None
    BY <1>2, RecordStep DEF Unrecorded, Inv
  <1> QED
    BY <1>1, <1>2, RecordStep DEF Unrecorded, Inv

\* What is known of the record as long as the history is regular.
Recorded == Held /\ (Regular => Unrecorded)

\* It holds initially and every step keeps it.
LEMMA RecordedInductive ==
    /\ "unheld" \notin Starts /\ Init => Recorded
    /\ Inv /\ Recorded /\ [Next]_vars => Recorded'
  <1>1. "unheld" \notin Starts /\ Init => Recorded
    BY HeldInit, UnrecordedInit DEF Recorded
  <1>2. ASSUME Inv, Recorded, [Next]_vars PROVE Recorded'
    <2>1. Held'
      BY <1>2, HeldNext DEF Recorded
    <2>2. Regular' => Regular
      BY <1>2, SparedBefore DEF Recorded, Held, Inv, Regular, Disturbances
    <2>3. Regular' => Unrecorded'
      BY <1>2, <2>2, UnrecordedNext DEF Recorded, Held
    <2> QED
      BY <2>1, <2>3 DEF Recorded
  <1> QED
    BY <1>1, <1>2

\* Once the id of a live load balancer is recorded it stays so until that is gone:
\* through crashes, failures, lost answers, renamings and new incarnations of the Service,
\* until a reconcile reads a binding that is behind or writes after a failed ensureBinding.
THEOREM RecordKept ==
    ASSUME "unheld" \notin Starts
    PROVE  Spec => RecordedIDKept
  <1> DEFINE All == Inv /\ Recorded
             Keep == Spared({"lag", "recover"}) /\ binding.elb # None /\ Live(binding.elb)
                        => binding'.elb = binding.elb
  <1>1. Init => All
    BY InvInit, RecordedInductive
  <1>2. All /\ [Next]_vars => All'
    BY InvNext, RecordedInductive
  <1>3. All /\ [Next]_vars => [Keep]_vars
    BY RecordStep DEF Recorded, Held, Regular, Inv
  <1> HIDE DEF All, Keep
  <1>4. Spec => [][Keep]_vars
    BY <1>1, <1>2, <1>3, PTL DEF Spec
  <1> QED
    BY <1>4 DEF RecordedIDKept, Keep

(***************************************************************************)
(* The deletion.  Unless the manager was down when it happened, or the     *)
(* Service was somebody else's for a time, its disappearance queues the    *)
(* key, and the reconciler rests again only when the recorded load         *)
(* balancer is gone.                                                       *)
(***************************************************************************)
Watchful == Spared({"lag", "recover", "unseen", "reclass"})

Steady == svc.class = "ours" /\ svcCache.class = "ours"

Awake ==
    up /\ pc = "idle" /\ ~ pending /\ ~ Exists(svcCache)
        => binding.elb = None \/ ~ Live(binding.elb)

\* What is spared is not spent.
LEMMA NotSpent ==
    ASSUME TypeOK, NEW d \in {"unseen", "reclass"}, Watchful, Watchful'
    PROVE  ~ Spend(d)
  <1>1. budget[d] \in Nat /\ budget'[d] = budget[d]
    BY DEF Watchful, Spared, TypeOK, Disturbances
  <1>2. ASSUME Spend(d) PROVE budget'[d] = budget[d] - 1
    BY <1>2 DEF Spend, TypeOK, Disturbances
  <1> QED
    BY <1>1, <1>2

\* The Service stays ours.
LEMMA SteadyNext ==
    ASSUME TypeOK, Watchful, Watchful', Steady, [Next]_vars
    PROVE  Steady'
  <1> USE DEF TakeRequest, Undisturbed, AllButService, cluster, caches, local
  <1>a. NoService.class = "ours"
    BY DEF NoService
  <1>b. ~ Spend("reclass")
    BY NotSpent
  <1>1. CASE QuietAction
    <2>1. svcCache' = svcCache
      BY <1>1, QuietSteps DEF Quiet, SameIdentity
    <2>2. CASE RenameService \/ ReclassifyService \/ OverwriteService \/ StripAnnotations
      <3>1. svc'.class = "ours"
        BY <1>b, <2>2
           DEF Steady, RenameService, ReclassifyService, OverwriteService, StripAnnotations,
               TypeOK, Services
      <3> QED
        BY <2>1, <3>1 DEF Steady
    <2>3. CASE CreateStatus \/ UpdateStatus \/ ClearStatus
      <3>1. svc'.class = "ours"
        BY <2>3
           DEF Steady, CreateStatus, UpdateStatus, ClearStatus, PatchIngress, TypeOK, Services
      <3> QED
        BY <2>1, <3>1 DEF Steady
    <2>4. CASE svc' = svc
      BY <2>1, <2>4 DEF Steady
    <2> QED
      BY <1>1, <2>2, <2>3, <2>4 DEF QuietAction, SkipService, Recover, RecoverPatch,
         WaitForELBActive, CreateBinding, PersistELBID, CreateStacks, MarkReady, UpdateEntry,
         Adopt, AdoptPatch, HealFinalizer, UpdateSync, PersistParams, FindForDelete,
         RemoveFinalizer, CallFails, SyncBinding, BindingLags, GarbageCollect, vars
  <1>2. CASE CreateService
    <2>1. PICK u \in UIDs, n \in Names, h \in Holds : svc' = NewService(u, n, h)
      BY <1>b, <1>2 DEF CreateService
    <2>2. svc'.class = "ours"
      BY <2>1 DEF NewService, NoService
    <2> QED
      BY <1>2, <2>2 DEF Steady, CreateService
  <1>3. CASE DeleteService \/ ReleaseService
    <2>1. svc'.class = "ours"
      BY <1>a, <1>3 DEF Steady, DeleteService, ReleaseService, TypeOK, Services
    <2> QED
      BY <1>3, <2>1 DEF Steady, DeleteService, ReleaseService
  <1> QED
    BY <1>a, <1>1, <1>2, <1>3, NextCases
       DEF Steady, ReconcileOrphanedBinding, ReconcileDelete, ReconcileService, Lookup,
           CreateELB, CreateELBAnswerLost, DeleteELB, SyncService, Crash, Restart, ELBActivates

\* A reconcile that ends without queueing the key leaves no recorded load balancer, and
\* an event queues it when the Service disappears from the cache.
LEMMA AwakeNext ==
    ASSUME TypeOK, Regular, Watchful, Watchful', Hold, Steady, Awake, [Next]_vars
    PROVE  Awake'
  <1> USE DEF At, TakeRequest, Goto, Finish, Undisturbed, AllButService, cluster, caches, local
  <1>1. CASE SkipService
    <2>1. bindCache = binding
      BY <1>1 DEF SkipService, Fresh, Regular, Spared
    <2>2. UNCHANGED <<binding, elbs, svcCache>>
          /\ (Exists(svcCache) \/ ~ bindCache.fin)
      BY <1>1 DEF SkipService
    <2> QED
      BY <2>1, <2>2 DEF Awake, Exists, Live, Hold, RecordHeld
  <1>2. CASE RemoveFinalizer
    <2>1. pc = "finalizer" /\ elbs' = elbs
      BY <1>2 DEF RemoveFinalizer
    <2>2. binding'.elb \in {binding.elb, None}
      BY <1>2, AbsentFields DEF RemoveFinalizer, TypeOK, Bindings
    <2> QED
      BY <2>1, <2>2 DEF Awake, Live, Hold, CleanupCovers
  <1>3. CASE SyncService
    <2>1. UNCHANGED <<binding, elbs, pc, up>> /\ (pending => pending')
          /\ (Exists(svcCache) /\ ~ Exists(svcCache)' => pending')
      BY <1>3 DEF SyncService, Enqueues, Watched, Steady, Exists
    <2> QED
      BY <2>1 DEF Awake, Exists, Live
  <1>4. CASE GarbageCollect
    <2>1. UNCHANGED <<elbs, pc, pending, up, svcCache>> /\ binding'.elb \in {binding.elb, None}
      BY <1>4, AbsentFields DEF GarbageCollect, Deleted, TypeOK, Bindings
    <2> QED
      BY <2>1 DEF Awake, Exists, Live
  <1>5. CASE \E e \in ELBIDs : ELBActivates(e)
    <2>1. \A e \in ELBIDs : Live(e)' => Live(e)
      BY <1>5 DEF ELBActivates, Live, TypeOK, LoadBalancers
    <2>2. UNCHANGED <<binding, pc, pending, up, svcCache>> /\ binding.elb \in ELBIDs \cup {None}
      BY <1>5 DEF ELBActivates, TypeOK, Bindings
    <2> QED
      BY <2>1, <2>2 DEF Awake, Exists
  <1>6. CASE UNCHANGED <<binding, elbs, pc, pending, up, svcCache>>
    BY <1>6 DEF Awake, Exists, Live
  <1>7. CASE pc' # "idle" \/ pending'
    BY <1>7 DEF Awake
  <1>8. CASE Crash \/ Restart
    <2>1. ~ up' \/ Exists(svcCache)'
      BY <1>8, NotSpent DEF Crash, Restart, Exists
    <2> QED
      BY <2>1 DEF Awake
  <1>9. CASE CallFails
    <2>1. pc' # "idle" \/ pending'
      BY <1>9 DEF CallFails
    <2> QED
      BY <1>7, <2>1
  <1> QED
    BY <1>1, <1>2, <1>3, <1>4, <1>5, <1>6, <1>7, <1>8, <1>9
       DEF Next, ControllerStep, Environment, ReconcileOrphanedBinding, ReconcileDelete,
           ReconcileService, Lookup, Recover, RecoverPatch, CreateELB, CreateELBAnswerLost,
           WaitForELBActive, CreateBinding, PersistELBID, CreateStacks, CreateStatus,
           MarkReady, UpdateEntry, Adopt, AdoptPatch, StripAnnotations, HealFinalizer,
           UpdateSync, PersistParams, UpdateStatus, FindForDelete, DeleteELB, AfterDelete,
           ClearStatus, SyncBinding, BindingLags, CreateService, DeleteService,
           ReleaseService, RenameService, ReclassifyService, OverwriteService, vars

\* When the Service is gone and the controller has nothing left to do, a load balancer
\* that was recorded is deleted: whatever calls failed, whatever answers were lost,
\* however often the manager stopped and however many incarnations took over each
\* other's binding, until one of the four disturbances that lose the event or the
\* finalizer.
THEOREM RecordReclaimed ==
    ASSUME "unheld" \notin Starts
    PROVE  Spec => []RecordedReclaimed
  <1> DEFINE All == Inv /\ Recorded /\ (Watchful => Steady /\ Awake)
  <1>1. Init => All
    <2> SUFFICES ASSUME Init PROVE Steady /\ Awake
      BY InvInit, RecordedInductive
    <2>1. svcCache = svc /\ up /\ bindCache = binding
      BY DEF Init
    <2>2. svc.class = "ours" /\ (Exists(svc) \/ binding = NoBinding)
      <3>1. CASE InitEmpty
        BY <3>1 DEF InitEmpty, NoService
      <3>2. ASSUME NEW u \in UIDs, NEW n \in Names, NEW e \in ELBIDs,
                   InitAnnotated(u, n, e) \/ InitUnheld(u, n, e)
            PROVE  svc.class = "ours" /\ svc.uid = u
        BY <3>2 DEF InitAnnotated, InitUnheld, NewService, NoService
      <3> QED
        BY <3>1, <3>2, NoneAssumption DEF Init, Exists
    <2> QED
      BY <2>1, <2>2, AbsentFields DEF Steady, Awake, Exists
  <1>2. All /\ [Next]_vars => All'
    <2> SUFFICES ASSUME All, [Next]_vars PROVE All'
      OBVIOUS
    <2>1. Inv' /\ Recorded' /\ TypeOK
      BY InvNext, RecordedInductive DEF Inv
    <2>2. Watchful' => Watchful
      BY <2>1, SparedBefore DEF Recorded, Held, Watchful, Disturbances
    <2>3. Watchful => Regular
      BY DEF Watchful, Regular, Spared
    <2>4. Watchful' => Steady' /\ Awake'
      BY <2>1, <2>2, <2>3, SteadyNext, AwakeNext DEF Recorded, Held
    <2> QED
      BY <2>1, <2>4
  <1>3. All => RecordedReclaimed
    BY DEF Watchful, Awake, GoneAndDone, RecordedReclaimed
  <1> HIDE DEF All
  <1> QED
    BY <1>1, <1>2, <1>3, PTL DEF Spec

=============================================================================
