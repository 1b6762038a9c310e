----------------------- MODULE ServiceLifecycleProofs -----------------------
(***************************************************************************)
(* Theorems of ServiceLifecycle for any uids, load balancers, names, fault *)
(* points and budgets, any cache lag and any number of restarts; what is   *)
(* said of the finalizer holds until one of the disturbances it names.     *)
(***************************************************************************)
EXTENDS ServiceLifecycle, TLAPS

\* The uids around belong to incarnations of the Service that existed.
UidsUsed ==
    /\ svc.uid \in used \cup {None}
    /\ svcCache.uid \in used \cup {None}
    /\ svcRead.uid \in used \cup {None}
    /\ \A e \in ELBIDs : Live(e) => elbs[e].uid \in used

\* A Service that exists has a name, an absent one is not being deleted; the calls
\* of reconcileCreate and reconcileUpdate have a Service to work on.
ServiceShape ==
    /\ Exists(svc) => svc.name \in Names
    /\ Exists(svcCache) => svcCache.name \in Names
    /\ Exists(svcRead) => svcRead.name \in Names
    /\ svc.deleting => Exists(svc)
    /\ svcCache.deleting => Exists(svcCache)
    /\ pc \notin DeleteSteps \cup {"idle"} => Exists(svcRead)

\* While the manager runs its view of the Service is at most one incarnation
\* behind: what exists for the current incarnation was made after it was seen.
CacheKnows ==
    /\ up => \A e \in ELBIDs :
                Live(e) /\ elbs[e].uid = svc.uid => svcCache.uid = svc.uid
    /\ Exists(svcRead) /\ svcRead.uid = svc.uid => svcCache.uid = svc.uid
    /\ svcCache.deleting /\ svcCache.uid = svc.uid => svc.deleting

\* The lookup still holds when CreateELB is called: nobody else creates.
LookupHolds == pc = "createELB" => FindELBByName(svcRead) = {}

\* A cleanup never runs while a Service that nobody deleted has a load balancer.
CleanupHasNoOwner ==
    pc \in DeleteSteps =>
        \A e \in ELBIDs : Live(e) /\ elbs[e].uid = svc.uid => svc.deleting

Inv ==
    /\ TypeOK /\ UidsUsed /\ ServiceShape /\ CacheKnows
    /\ LookupHolds /\ CleanupHasNoOwner /\ UniqueELBName

(***************************************************************************)
(* Type correctness.                                                       *)
(***************************************************************************)
\* The objects the operators build are well formed.
LEMMA ObjectTypes ==
    /\ NoService \in Services /\ NoBinding \in Bindings
    /\ \A u \in UIDs \cup {None} : NewBinding(u) \in Bindings
    /\ \A u \in UIDs, n \in Names, h \in BOOLEAN : NewService(u, n, h) \in Services
    /\ \A b \in Bindings : Deleted(b) \in Bindings
  BY DEF NoService, NoBinding, NewBinding, NewService, Deleted, Services, Bindings,
         Classes, Phases

\* Whatever ensureBinding finds, it leaves and returns a well formed binding.
LEMMA EnsureBindingType ==
    ASSUME TypeOK, NEW u \in UIDs \cup {None}
    PROVE  /\ EnsureBinding(u).ret \in Bindings
           /\ EnsureBinding(u).server \in Bindings
  <1>1. WithFinalizer \in Bindings
    BY DEF TypeOK, WithFinalizer, Bindings
  <1>2. Deleted(binding) \in Bindings /\ NewBinding(u) \in Bindings /\ NoBinding \in Bindings
    BY ObjectTypes DEF TypeOK
  <1> QED
    BY <1>1, <1>2 DEF TypeOK, EnsureBinding

\* The patches of the binding's and of the Service's status keep them well formed.
LEMMA PatchTypes ==
    ASSUME TypeOK, NEW e \in ELBIDs \cup {None}, NEW ph \in Phases
    PROVE  /\ PatchBindingStatus(e, ph) => binding' \in Bindings
           /\ PatchIngress(e) => svc' \in Services
  BY DEF TypeOK, PatchBindingStatus, PatchIngress, Bindings, Services

\* The fields of well formed objects are in their ranges.
LEMMA FieldTypes ==
    ASSUME TypeOK
    PROVE  /\ svcCache.ann \in ELBIDs \cup {None} /\ svcRead.ann \in ELBIDs \cup {None}
           /\ bindCache.elb \in ELBIDs \cup {None} /\ bindCache.phase \in Phases
           /\ svcRead.uid \in UIDs \cup {None} /\ svcRead.name \in Names \cup {None}
  BY DEF TypeOK, Services, Bindings

\* A disturbance costs its budget and leaves a budget.
LEMMA SpendType ==
    ASSUME TypeOK, NEW d \in Disturbances, Spend(d)
    PROVE  budget' \in [Disturbances -> Nat]
  <1>1. budget[d] - 1 \in Nat
    BY DEF TypeOK, Spend
  <1> QED
    BY <1>1 DEF TypeOK, Spend

\* A new Service is well formed, whatever its class.
LEMMA NewServiceFields ==
    ASSUME CreateService
    PROVE  \E u \in UIDs \ used, n \in Names :
               /\ svc' \in Services
               /\ svc'.uid = u /\ svc'.name = n /\ svc'.ann = None /\ ~ svc'.deleting
               /\ used' = used \cup {u}
  <1>1. PICK u \in UIDs \ used, n \in Names, h \in Holds :
            /\ used' = used \cup {u}
            /\ \/ svc' = NewService(u, n, h)
               \/ \E c \in Classes : svc' = [NewService(u, n, h) EXCEPT !.class = c]
    BY DEF CreateService
  <1>2. NewService(u, n, h) \in Services
    BY SwitchAssumption, ObjectTypes
  <1>3. /\ NewService(u, n, h).uid = u /\ NewService(u, n, h).name = n
        /\ NewService(u, n, h).ann = None /\ ~ NewService(u, n, h).deleting
    BY DEF NewService, NoService
  <1> QED
    BY <1>1, <1>2, <1>3 DEF Services

\* CreateELB makes a well formed load balancer.
LEMMA NewELBType ==
    ASSUME TypeOK, NEW e \in ELBIDs, NewELB(e, svcRead)
    PROVE  elbs' \in [ELBIDs -> LoadBalancers]
  <1>1. [st |-> "pending", uid |-> svcRead.uid, name |-> svcRead.name] \in LoadBalancers
    BY FieldTypes DEF LoadBalancers
  <1> QED
    BY <1>1 DEF TypeOK, NewELB

\* The initial situations are well formed.
LEMMA TypeInit == Init => TypeOK
  <1> SUFFICES ASSUME Init PROVE TypeOK
    OBVIOUS
  <1>1. svc \in Services /\ binding \in Bindings
    <2>1. CASE InitEmpty
      BY <2>1, ObjectTypes DEF InitEmpty
    <2>2. ASSUME NEW u \in UIDs, NEW n \in Names, NEW e \in ELBIDs,
                 InitAnnotated(u, n, e) \/ InitUnheld(u, n, e)
          PROVE  svc \in Services /\ binding \in Bindings
      <3>1. NewService(u, n, TRUE) \in Services /\ NewBinding(u) \in Bindings
        BY ObjectTypes
      <3>2. CASE InitAnnotated(u, n, e)
        BY <3>1, <3>2, ObjectTypes DEF InitAnnotated, Services
      <3>3. CASE InitUnheld(u, n, e)
        <4>1. svc \in Services
          BY <3>1, <3>3 DEF InitUnheld, Services
        <4>2. binding \in Bindings
          BY <3>1, <3>3 DEF InitUnheld, Bindings, Phases
        <4> QED
          BY <4>1, <4>2
      <3> QED
        BY <2>2, <3>2, <3>3
    <2> QED
      BY <2>1, <2>2 DEF Init
  <1>2. elbs \in [ELBIDs -> LoadBalancers] /\ used \subseteq UIDs /\ pending \in BOOLEAN
    <2>1. CASE InitEmpty
      BY <2>1 DEF InitEmpty, LoadBalancers
    <2>2. ASSUME NEW u \in UIDs, NEW n \in Names, NEW e \in ELBIDs, InitProvisioned(u, n, e)
          PROVE  elbs \in [ELBIDs -> LoadBalancers] /\ used \subseteq UIDs
                 /\ pending \in BOOLEAN
      BY <2>2 DEF InitProvisioned, LoadBalancers
    <2> QED
      BY <2>1, <2>2 DEF Init, InitAnnotated, InitUnheld
  <1> QED
    BY <1>1, <1>2, ObjectTypes, BudgetAssumption DEF Init, TypeOK

\* Every step keeps every variable well formed.
LEMMA TypeNext == TypeOK /\ [Next]_vars => TypeOK'
  <1> SUFFICES ASSUME TypeOK, [Next]_vars PROVE TypeOK'
    OBVIOUS
  <1>a. NoService \in Services /\ NoBinding \in Bindings
    BY ObjectTypes
  <1>1. CASE SkipService
    BY <1>1 DEF SkipService, TakeRequest, Undisturbed, local, TypeOK
  <1>2. CASE ReconcileOrphanedBinding
    BY <1>2 DEF ReconcileOrphanedBinding, TakeRequest, Undisturbed, TypeOK, Steps, DeleteSteps,
                Bindings
  <1>3. CASE ReconcileDelete
    BY <1>3, FieldTypes
       DEF ReconcileDelete, TakeRequest, Undisturbed, TypeOK, Steps, DeleteSteps
  <1>4. CASE ReconcileService
    BY <1>4 DEF ReconcileService, TakeRequest, Undisturbed, TypeOK, Steps, CreateSteps,
                UpdateSteps
  <1>5. CASE Lookup
    BY <1>5 DEF Lookup, At, Goto, Undisturbed, TypeOK, Steps, CreateSteps, FindELBByName
  <1>6. CASE Recover
    BY <1>6, EnsureBindingType
       DEF Recover, At, Goto, Undisturbed, TypeOK, Steps, CreateSteps, Services
  <1>7. CASE RecoverPatch
    <2>1. binding' \in Bindings
      BY <1>7, PatchTypes DEF RecoverPatch, TypeOK, Bindings
    <2> QED
      BY <1>7, <1>a, <2>1 DEF RecoverPatch, Finish, Undisturbed, TypeOK
  <1>8. CASE CreateELB \/ CreateELBAnswerLost
    <2>1. elbs' \in [ELBIDs -> LoadBalancers]
      BY <1>8, NewELBType DEF CreateELB, CreateELBAnswerLost, Free
    <2>2. budget' \in [Disturbances -> Nat]
      BY <1>8, SpendType DEF CreateELB, CreateELBAnswerLost, Undisturbed, TypeOK, Disturbances
    <2>3. pc' \in Steps \cup {"idle"} /\ elbID' \in ELBIDs \cup {None} /\ pending' \in BOOLEAN
          /\ svcRead' \in Services /\ bindRead' \in Bindings
      BY <1>8, <1>a DEF CreateELB, CreateELBAnswerLost, Goto, Finish, TypeOK, Steps,
         CreateSteps, Free
    <2> QED
      BY <1>8, <2>1, <2>2, <2>3 DEF CreateELB, CreateELBAnswerLost, Undisturbed, TypeOK
  <1>9. CASE WaitForELBActive
    BY <1>9 DEF WaitForELBActive, Goto, Undisturbed, TypeOK, Steps, CreateSteps
  <1>10. CASE CreateBinding
    <2>1. /\ EnsureBinding(svcRead.uid).ret \in Bindings
          /\ EnsureBinding(svcRead.uid).server \in Bindings
      BY EnsureBindingType, FieldTypes
    <2>2. binding' \in Bindings /\ UNCHANGED <<svc, elbs>> /\ Undisturbed
      BY <1>10, <2>1 DEF CreateBinding
    <2>3. CASE Finish(TRUE)
      BY <1>a, <2>2, <2>3 DEF Finish, Undisturbed, TypeOK
    <2>4. CASE /\ bindRead' = EnsureBinding(svcRead.uid).ret
               /\ Goto("persist") /\ UNCHANGED elbID
      BY <2>1, <2>2, <2>4 DEF Goto, Undisturbed, TypeOK, Steps, CreateSteps
    <2> QED
      BY <1>10, <2>3, <2>4 DEF CreateBinding
  <1>11. CASE PersistELBID
    <2>1. elbID \in ELBIDs \cup {None} /\ "Provisioning" \in Phases
      BY DEF TypeOK, Phases
    <2>2. binding' \in Bindings
      <3>1. CASE PatchBindingStatus(elbID, "Provisioning")
        BY <2>1, <3>1, PatchTypes
      <3>2. CASE binding' = [binding EXCEPT !.elb = elbID, !.phase = "Provisioning"]
        BY <2>1, <3>2 DEF TypeOK, Bindings
      <3> QED
        BY <1>11, <3>1, <3>2 DEF PersistELBID
    <2> QED
      BY <1>11, <2>2 DEF PersistELBID, Goto, Undisturbed, TypeOK, Steps, CreateSteps
  <1>12. CASE CreateStacks
    BY <1>12, <1>a DEF CreateStacks, Goto, Finish, Undisturbed, TypeOK, Steps, CreateSteps
  <1>13. CASE CreateStatus
    <2>1. svc' \in Services
      BY <1>13, PatchTypes DEF CreateStatus, TypeOK, Phases
    <2> QED
      BY <1>13, <1>a, <2>1 DEF CreateStatus, Goto, Finish, Undisturbed, TypeOK, Steps
  <1>14. CASE MarkReady
    <2>1. binding' \in Bindings
      BY <1>14, PatchTypes DEF MarkReady, TypeOK, Bindings, Phases
    <2> QED
      BY <1>14, <1>a, <2>1 DEF MarkReady, Finish, Undisturbed, TypeOK
  <1>15. CASE UpdateEntry
    BY <1>15 DEF UpdateEntry, Goto, Undisturbed, TypeOK, Steps, CreateSteps, UpdateSteps,
                 Bindings, Services
  <1>16. CASE Adopt
    BY <1>16, EnsureBindingType
       DEF Adopt, Goto, Undisturbed, TypeOK, Steps, UpdateSteps, Services
  <1>17. CASE AdoptPatch
    <2>1. binding' \in Bindings
      <3> DEFINE e == IF svcRead.ann # None THEN svcRead.ann ELSE bindCache.elb
                 ph == IF bindCache.phase = "" THEN "Ready" ELSE bindCache.phase
      <3>1. e \in ELBIDs \cup {None} /\ ph \in Phases
        BY FieldTypes DEF Phases
      <3>2. PatchBindingStatus(e, ph)
        BY <1>17 DEF AdoptPatch
      <3> QED
        BY <3>1, <3>2, PatchTypes
    <2> QED
      BY <1>17, <2>1 DEF AdoptPatch, Goto, Undisturbed, TypeOK, Steps, UpdateSteps
  <1>18. CASE StripAnnotations
    BY <1>18 DEF StripAnnotations, Goto, Undisturbed, TypeOK, Steps, UpdateSteps, Services
  <1>19. CASE HealFinalizer
    <2>1. binding' \in Bindings
      BY <1>19 DEF HealFinalizer, WithFinalizer, TypeOK, Bindings
    <2> QED
      BY <1>19, <2>1 DEF HealFinalizer, Goto, Undisturbed, TypeOK, Steps, UpdateSteps
  <1>20. CASE UpdateSync
    BY <1>20, <1>a DEF UpdateSync, Goto, Finish, Undisturbed, TypeOK, Steps, UpdateSteps
  <1>21. CASE PersistParams
    BY <1>21, <1>a DEF PersistParams, Goto, Finish, Undisturbed, TypeOK, Steps, UpdateSteps
  <1>22. CASE UpdateStatus
    <2>1. svc' \in Services
      BY <1>22, PatchTypes DEF UpdateStatus, TypeOK, Phases
    <2> QED
      BY <1>22, <2>1 DEF UpdateStatus, Goto, Undisturbed, TypeOK, Steps
  <1>23. CASE FindForDelete
    BY <1>23 DEF FindForDelete, Goto, Undisturbed, TypeOK, Steps, DeleteSteps, FindELBByName
  <1>24. CASE DeleteELB
    <2>1. elbs' \in [ELBIDs -> LoadBalancers]
      BY <1>24 DEF DeleteELB, TypeOK, LoadBalancers
    <2> QED
      BY <1>24, <2>1 DEF DeleteELB, AfterDelete, Goto, Undisturbed, TypeOK, Steps, DeleteSteps
  <1>25. CASE ClearStatus
    <2>1. svc' \in Services
      BY <1>25, PatchTypes DEF ClearStatus, TypeOK, Phases
    <2> QED
      BY <1>25, <2>1 DEF ClearStatus, Goto, Undisturbed, TypeOK, Steps, DeleteSteps
  <1>26. CASE RemoveFinalizer
    <2>1. binding' \in Bindings
      BY <1>26, <1>a DEF RemoveFinalizer, TypeOK, Bindings
    <2> QED
      BY <1>26, <1>a, <2>1 DEF RemoveFinalizer, Finish, Undisturbed, TypeOK
  <1>27. CASE CallFails
    <2>1. AfterError[pc] \in Steps \cup {"idle"}
      BY <1>27 DEF CallFails, AfterError, Steps, CreateSteps, UpdateSteps, DeleteSteps
    <2>2. budget' \in [Disturbances -> Nat]
      BY <1>27, SpendType DEF CallFails, Kind, Disturbances
    <2> QED
      BY <1>27, <1>a, <2>1, <2>2 DEF CallFails, Goto, Finish, TypeOK
  <1>28. CASE SyncService
    BY <1>28 DEF SyncService, cluster, local, TypeOK
  <1>29. CASE SyncBinding \/ BindingLags
    BY <1>29, SpendType DEF SyncBinding, BindingLags, cluster, caches, local, TypeOK, Disturbances
  <1>30. CASE Crash
    <2>1. budget' \in [Disturbances -> Nat]
      BY <1>30, SpendType DEF Crash, Disturbances
    <2> QED
      BY <1>30, <1>a, <2>1 DEF Crash, cluster, TypeOK
  <1>31. CASE Restart
    BY <1>31, SpendType DEF Restart, Watched, cluster, local, TypeOK, Disturbances
  <1>32. CASE CreateService
    <2>1. svc' \in Services /\ used' \subseteq UIDs
      BY <1>32, NewServiceFields DEF TypeOK
    <2>2. budget' \in [Disturbances -> Nat]
      BY <1>32, SpendType DEF CreateService, TypeOK, Disturbances
    <2> QED
      BY <1>32, <2>1, <2>2 DEF CreateService, AllButService, caches, local, TypeOK
  <1>33. CASE DeleteService \/ ReleaseService
    BY <1>33, <1>a DEF DeleteService, ReleaseService, AllButService, caches, local, TypeOK,
                       Services
  <1>34. CASE RenameService \/ ReclassifyService \/ OverwriteService
    <2>1. svc' \in Services
      BY <1>34 DEF RenameService, ReclassifyService, OverwriteService, TypeOK, Services, Classes
    <2>2. budget' \in [Disturbances -> Nat]
      BY <1>34, SpendType
         DEF RenameService, ReclassifyService, OverwriteService, TypeOK, Disturbances
    <2> QED
      BY <1>34, <2>1, <2>2 DEF RenameService, ReclassifyService, OverwriteService,
         AllButService, caches, local, TypeOK
  <1>35. CASE GarbageCollect
    BY <1>35, ObjectTypes DEF GarbageCollect, caches, local, TypeOK
  <1>36. CASE \E e \in ELBIDs : ELBActivates(e)
    BY <1>36 DEF ELBActivates, cluster, caches, local, TypeOK, LoadBalancers
  <1>37. CASE UNCHANGED vars
    BY <1>37 DEF vars, TypeOK
  <1> QED
    BY <1>1, <1>2, <1>3, <1>4, <1>5, <1>6, <1>7, <1>8, <1>9, <1>10, <1>11, <1>12, <1>13,
       <1>14, <1>15, <1>16, <1>17, <1>18, <1>19, <1>20, <1>21, <1>22, <1>23, <1>24, <1>25,
       <1>26, <1>27, <1>28, <1>29, <1>30, <1>31, <1>32, <1>33, <1>34, <1>35, <1>36, <1>37
       DEF Next, ControllerStep, Environment

\* The variables keep the shapes TypeOK gives them: phases, ids and uids stay in
\* their ranges through every patch, update and requeue of the reconciler.
THEOREM TypeCorrect == Spec => []TypeOK
  BY TypeInit, TypeNext, PTL DEF Spec

(***************************************************************************)
(* Most steps are quiet: they touch neither the load balancers nor what    *)
(* identifies the Service, and leave the reconcile where it was, end it,   *)
(* or move it on within the cleanup or outside it.                         *)
(***************************************************************************)
SameIdentity ==
    /\ svc'.uid = svc.uid /\ svc'.deleting = svc.deleting
    /\ svc'.name \in Names \cup {svc.name}
    /\ UNCHANGED <<used, elbs, svcCache, up>>

Quiet ==
    /\ SameIdentity
    /\ \/ UNCHANGED <<pc, svcRead>>
       \/ pc' = "idle" /\ svcRead' = NoService
       \/ /\ svcRead' = svcRead /\ pc' # "createELB" /\ pc # "idle" /\ pc' # "idle"
          /\ pc' \in DeleteSteps <=> pc \in DeleteSteps

QuietAction ==
    \/ SkipService \/ Recover \/ RecoverPatch \/ WaitForELBActive \/ CreateBinding
    \/ PersistELBID \/ CreateStacks \/ CreateStatus \/ MarkReady
    \/ UpdateEntry \/ Adopt \/ AdoptPatch \/ StripAnnotations \/ HealFinalizer
    \/ UpdateSync \/ PersistParams \/ UpdateStatus
    \/ FindForDelete \/ ClearStatus \/ RemoveFinalizer \/ CallFails
    \/ SyncBinding \/ BindingLags \/ RenameService \/ ReclassifyService \/ OverwriteService
    \/ GarbageCollect \/ UNCHANGED vars

\* A patch of the status does not touch what identifies a Service.
LEMMA PatchIdentity ==
    ASSUME TypeOK, NEW e, PatchIngress(e)
    PROVE  svc'.uid = svc.uid /\ svc'.deleting = svc.deleting /\ svc'.name = svc.name
  BY DEF TypeOK, PatchIngress, Services

\* Most steps touch nothing that Inv speaks of, save by moving pc in a way it allows.
LEMMA QuietSteps == TypeOK /\ QuietAction => Quiet
  <1> SUFFICES ASSUME TypeOK, QuietAction PROVE Quiet
    OBVIOUS
  <1> USE DEF Quiet, SameIdentity, Undisturbed, At, DeleteSteps
  <1>1. CASE SkipService
    BY <1>1 DEF SkipService, TakeRequest, local
  <1>2. CASE Recover \/ RecoverPatch \/ WaitForELBActive
    BY <1>2 DEF Recover, RecoverPatch, WaitForELBActive, Goto, Finish
  <1>3. CASE CreateBinding \/ PersistELBID \/ CreateStacks
    BY <1>3 DEF CreateBinding, PersistELBID, CreateStacks, Goto, Finish
  <1>4. CASE CreateStatus \/ UpdateStatus \/ ClearStatus
    <2>1. svc'.uid = svc.uid /\ svc'.deleting = svc.deleting /\ svc'.name = svc.name
      BY <1>4, PatchIdentity DEF CreateStatus, UpdateStatus, ClearStatus
    <2> QED
      BY <1>4, <2>1 DEF CreateStatus, UpdateStatus, ClearStatus, Goto, Finish
  <1>5. CASE MarkReady \/ RemoveFinalizer
    BY <1>5 DEF MarkReady, RemoveFinalizer, Finish
  <1>6. CASE UpdateEntry \/ Adopt \/ AdoptPatch
    BY <1>6 DEF UpdateEntry, Adopt, AdoptPatch, Goto
  <1>7. CASE StripAnnotations
    BY <1>7 DEF StripAnnotations, Goto, TypeOK, Services
  <1>8. CASE HealFinalizer \/ UpdateSync \/ PersistParams
    BY <1>8 DEF HealFinalizer, UpdateSync, PersistParams, Goto, Finish
  <1>9. CASE FindForDelete
    BY <1>9 DEF FindForDelete, Goto
  <1>10. CASE CallFails
    <2>1. pc \in Steps
      BY <1>10 DEF CallFails
    <2>2. \/ AfterError[pc] = "idle"
          \/ /\ AfterError[pc] \notin {"createELB", "idle"} /\ pc # "idle"
             /\ AfterError[pc] \in DeleteSteps <=> pc \in DeleteSteps
      BY <2>1 DEF AfterError, Steps, CreateSteps, UpdateSteps
    <2> QED
      BY <1>10, <2>2 DEF CallFails, Goto, Finish
  <1>11. CASE SyncBinding \/ BindingLags \/ GarbageCollect
    BY <1>11 DEF SyncBinding, BindingLags, GarbageCollect, cluster, caches, local
  <1>12. CASE RenameService \/ ReclassifyService \/ OverwriteService
    <2>1. /\ svc'.uid = svc.uid /\ svc'.deleting = svc.deleting
          /\ svc'.name \in Names \cup {svc.name}
      BY <1>12 DEF RenameService, ReclassifyService, OverwriteService, TypeOK, Services
    <2> QED
      BY <1>12, <2>1
         DEF RenameService, ReclassifyService, OverwriteService, AllButService, caches, local
  <1>13. CASE UNCHANGED vars
    BY <1>13 DEF vars
  <1> QED
    BY <1>1, <1>2, <1>3, <1>4, <1>5, <1>6, <1>7, <1>8, <1>9, <1>10, <1>11, <1>12, <1>13
       DEF QuietAction

\* What is left of Next.
LEMMA NextCases ==
    ASSUME [Next]_vars
    PROVE  \/ QuietAction
           \/ ReconcileOrphanedBinding \/ ReconcileDelete \/ ReconcileService
           \/ Lookup \/ CreateELB \/ CreateELBAnswerLost \/ DeleteELB
           \/ SyncService \/ Crash \/ Restart
           \/ CreateService \/ DeleteService \/ ReleaseService
           \/ \E e \in ELBIDs : ELBActivates(e)
  BY DEF Next, ControllerStep, Environment, QuietAction

(***************************************************************************)
(* The invariant.                                                          *)
(***************************************************************************)
\* Inv holds initially.
LEMMA InvInit == Init => Inv
  <1> SUFFICES ASSUME Init PROVE Inv
    OBVIOUS
  <1>1. TypeOK
    BY TypeInit
  <1>2. /\ svc.uid \in used \cup {None} /\ svc.deleting = FALSE
        /\ Exists(svc) => svc.name \in Names
        /\ \A e \in ELBIDs : Live(e) => elbs[e].uid \in used
        /\ \A e, f \in ELBIDs : Live(e) /\ Live(f) => e = f
    <2>1. CASE InitEmpty
      BY <2>1 DEF InitEmpty, NoService, Live, Exists
    <2>2. ASSUME NEW u \in UIDs, NEW n \in Names, NEW e \in ELBIDs,
                 InitAnnotated(u, n, e) \/ InitUnheld(u, n, e)
          PROVE  /\ svc.uid = u /\ svc.deleting = FALSE /\ svc.name = n /\ used = {u}
                 /\ \A x \in ELBIDs : Live(x) => x = e /\ elbs[x].uid = u
      <3>1. svc.uid = u /\ svc.deleting = FALSE /\ svc.name = n
        BY <2>2 DEF InitAnnotated, InitUnheld, NewService, NoService
      <3> QED
        <4>1. InitProvisioned(u, n, e)
          BY <2>2 DEF InitAnnotated, InitUnheld
        <4> QED
          BY <3>1, <4>1 DEF InitProvisioned, Live
    <2>3. ASSUME NEW u \in UIDs, NEW n \in Names, NEW e \in ELBIDs,
                 InitAnnotated(u, n, e) \/ InitUnheld(u, n, e)
          PROVE  /\ svc.uid \in used \cup {None} /\ svc.deleting = FALSE
                 /\ Exists(svc) => svc.name \in Names
                 /\ \A x \in ELBIDs : Live(x) => elbs[x].uid \in used
                 /\ \A x, y \in ELBIDs : Live(x) /\ Live(y) => x = y
      <3>1. /\ svc.uid = u /\ svc.deleting = FALSE /\ svc.name = n /\ used = {u}
            /\ \A x \in ELBIDs : Live(x) => x = e /\ elbs[x].uid = u
        BY <2>2, <2>3
      <3> QED
        BY <3>1
    <2> QED
      BY <2>1, <2>3 DEF Init
  <1>3. svcCache = svc /\ pc = "idle" /\ svcRead = NoService /\ elbID = None
    BY DEF Init
  <1>4. UidsUsed /\ ServiceShape
    BY <1>2, <1>3 DEF UidsUsed, ServiceShape, NoService, Exists
  <1>5. CacheKnows /\ LookupHolds /\ CleanupHasNoOwner
    BY <1>2, <1>3 DEF CacheKnows, LookupHolds, CleanupHasNoOwner, NoService, Exists,
       DeleteSteps
  <1>6. UniqueELBName
    BY <1>2 DEF UniqueELBName
  <1> QED
    BY <1>1, <1>4, <1>5, <1>6 DEF Inv

\* Quiet steps preserve everything.
LEMMA InvQuiet ==
    ASSUME Inv, Quiet, TypeOK'
    PROVE  Inv'
  <1>1. UidsUsed'
    BY DEF Inv, Quiet, SameIdentity, UidsUsed, Live, NoService
  <1>2. ServiceShape'
    BY DEF Inv, Quiet, SameIdentity, ServiceShape, Exists, NoService
  <1>3. CacheKnows'
    BY DEF Inv, Quiet, SameIdentity, CacheKnows, Live, Exists, NoService
  <1>4. LookupHolds'
    BY DEF Inv, Quiet, SameIdentity, LookupHolds, FindELBByName, Live
  <1>5. CleanupHasNoOwner'
    BY DEF Inv, Quiet, SameIdentity, CleanupHasNoOwner, Live, DeleteSteps
  <1>6. UniqueELBName'
    BY DEF Inv, Quiet, SameIdentity, UniqueELBName, Live
  <1> QED
    BY <1>1, <1>2, <1>3, <1>4, <1>5, <1>6 DEF Inv

\* The steps that start a reconcile, and the lookup.
LEMMA InvReconcile ==
    ASSUME Inv, TypeOK',
           ReconcileOrphanedBinding \/ ReconcileDelete \/ ReconcileService \/ Lookup
    PROVE  Inv'
  <1> USE DEF ReconcileOrphanedBinding, ReconcileDelete, ReconcileService, Lookup,
              TakeRequest, At, Goto, Undisturbed
  <1>0. UNCHANGED <<svc, elbs, used, svcCache, up>> /\ svcRead' \in {svcRead, svcCache}
    OBVIOUS
  <1>1. UidsUsed'
    BY <1>0 DEF Inv, UidsUsed, Live
  <1>2. ServiceShape'
    BY <1>0 DEF Inv, ServiceShape, Exists, DeleteSteps
  <1>3. CacheKnows'
    BY <1>0 DEF Inv, CacheKnows, Live, Exists
  <1>4. LookupHolds'
    BY <1>0 DEF LookupHolds, FindELBByName, Live
  <1>5. CleanupHasNoOwner'
    <2>1. ASSUME pc' \in DeleteSteps
          PROVE  up /\ (~ Exists(svcCache) \/ svcCache.deleting)
      BY <2>1 DEF DeleteSteps
    <2>2. \A e \in ELBIDs : Live(e) => elbs[e].uid # None
      BY NoneAssumption DEF Inv, UidsUsed, TypeOK
    <2> QED
      BY <1>0, <2>1, <2>2 DEF Inv, CleanupHasNoOwner, CacheKnows, Live, Exists
  <1>6. UniqueELBName'
    BY <1>0 DEF Inv, UniqueELBName, Live
  <1> QED
    BY <1>1, <1>2, <1>3, <1>4, <1>5, <1>6 DEF Inv

\* Creating a load balancer, with the answer or without: there was none of that name.
LEMMA InvCreateELB ==
    ASSUME Inv, TypeOK', CreateELB \/ CreateELBAnswerLost
    PROVE  Inv'
  <1>1. /\ UNCHANGED <<svc, used, svcCache, up>> /\ up /\ pc = "createELB"
        /\ \/ pc' = "waitActive" /\ svcRead' = svcRead
           \/ pc' = "idle" /\ svcRead' = NoService
    BY DEF CreateELB, CreateELBAnswerLost, At, Goto, Finish, Undisturbed
  <1>2. PICK e \in ELBIDs : elbs[e].st = "free" /\ NewELB(e, svcRead)
    BY DEF CreateELB, CreateELBAnswerLost, Free
  <1>3. Exists(svcRead) /\ svcRead.uid \in used
    BY <1>1 DEF Inv, ServiceShape, UidsUsed, DeleteSteps, Exists
  <1>4. \A x \in ELBIDs :
          elbs'[x] = IF x = e THEN [st |-> "pending", uid |-> svcRead.uid, name |-> svcRead.name]
                              ELSE elbs[x]
    BY <1>2 DEF NewELB, Inv, TypeOK
  <1>5. \A x \in ELBIDs : Live(x) => ~ (elbs[x].uid = svcRead.uid /\ elbs[x].name = svcRead.name)
    BY <1>1 DEF Inv, LookupHolds, FindELBByName
  <1>6. UidsUsed'
    BY <1>1, <1>3, <1>4 DEF Inv, UidsUsed, Live, NoService
  <1>7. ServiceShape' /\ LookupHolds' /\ CleanupHasNoOwner'
    BY <1>1, <1>3 DEF Inv, ServiceShape, LookupHolds, CleanupHasNoOwner, Exists, NoService,
       DeleteSteps
  <1>8. CacheKnows'
    BY <1>1, <1>3, <1>4 DEF Inv, CacheKnows, Live, Exists, NoService
  <1>9. UniqueELBName'
    BY <1>2, <1>4, <1>5 DEF Inv, UniqueELBName, Live
  <1> QED
    BY <1>6, <1>7, <1>8, <1>9 DEF Inv

\* Deleting and activating a load balancer.
LEMMA InvELB ==
    ASSUME Inv, TypeOK', DeleteELB \/ \E e \in ELBIDs : ELBActivates(e)
    PROVE  Inv'
  <1>1. /\ UNCHANGED <<svc, used, svcCache, up, svcRead>>
        /\ \/ pc' = pc \/ (pc = "deleteELB" /\ pc' \in {"clearStatus", "finalizer"})
    BY DEF DeleteELB, ELBActivates, AfterDelete, At, Goto, Undisturbed, cluster, caches, local
  <1>2. \A x \in ELBIDs : /\ Live(x)' => Live(x)
                          /\ elbs'[x].uid = elbs[x].uid /\ elbs'[x].name = elbs[x].name
    BY DEF DeleteELB, ELBActivates, Live, Inv, TypeOK, LoadBalancers
  <1>3. UidsUsed' /\ ServiceShape'
    BY <1>1, <1>2 DEF Inv, UidsUsed, ServiceShape, Exists, DeleteSteps
  <1>4. CacheKnows'
    BY <1>1, <1>2 DEF Inv, CacheKnows, Exists
  <1>5. LookupHolds'
    BY <1>1, <1>2 DEF Inv, LookupHolds, FindELBByName
  <1>6. CleanupHasNoOwner' /\ UniqueELBName'
    BY <1>1, <1>2 DEF Inv, CleanupHasNoOwner, UniqueELBName, DeleteSteps
  <1> QED
    BY <1>3, <1>4, <1>5, <1>6 DEF Inv

\* The informer, a crash and a restart.
LEMMA InvManager ==
    ASSUME Inv, TypeOK', SyncService \/ Crash \/ Restart
    PROVE  Inv'
  <1>1. /\ UNCHANGED <<svc, used, elbs>> /\ svcCache' \in {svc, NoService}
        /\ up' => svcCache' = svc
        /\ \/ UNCHANGED <<pc, svcRead>> \/ (pc' = "idle" /\ svcRead' = NoService)
    BY DEF SyncService, Crash, Restart, cluster, local
  <1>2. svcCache' = NoService => (~ up' /\ svcRead' = NoService) \/ svcCache' = svc
    BY DEF SyncService, Crash, Restart
  <1>3. UidsUsed' /\ ServiceShape'
    BY <1>1 DEF Inv, UidsUsed, ServiceShape, Live, Exists, NoService, DeleteSteps
  <1>4. CacheKnows'
    BY <1>1, <1>2 DEF Inv, CacheKnows, ServiceShape, Live, Exists, NoService
  <1>5. LookupHolds' /\ CleanupHasNoOwner' /\ UniqueELBName'
    BY <1>1 DEF Inv, LookupHolds, CleanupHasNoOwner, UniqueELBName, FindELBByName, Live,
       DeleteSteps
  <1> QED
    BY <1>3, <1>4, <1>5 DEF Inv

\* A new incarnation has no load balancer, and nothing running knows of it.
LEMMA InvUser ==
    ASSUME Inv, TypeOK', CreateService \/ DeleteService \/ ReleaseService
    PROVE  Inv'
  <1> USE NoneAssumption DEF AllButService, caches, local
  <1>1. UNCHANGED <<elbs, svcCache, up, pc, svcRead>>
    BY DEF CreateService, DeleteService, ReleaseService
  <1>2. /\ used \subseteq used'
        /\ \/ svc' = NoService /\ used' = used
           \/ /\ svc'.uid = svc.uid /\ svc'.deleting = TRUE /\ svc'.name = svc.name
              /\ Exists(svc) /\ used' = used
           \/ /\ svc'.uid \in UIDs \ used /\ svc'.deleting = FALSE
              /\ svc'.uid \in used' /\ svc'.name \in Names
    <2>1. CASE CreateService
      BY <2>1, NewServiceFields
    <2>2. CASE DeleteService
      BY <2>2 DEF DeleteService, Inv, TypeOK, Services
    <2>3. CASE ReleaseService
      BY <2>3 DEF ReleaseService
    <2> QED
      BY <2>1, <2>2, <2>3
  <1>3. UidsUsed'
    BY <1>1, <1>2 DEF Inv, UidsUsed, Live, NoService
  <1>4. ServiceShape'
    BY <1>1, <1>2 DEF Inv, ServiceShape, Exists, NoService
  <1>5. CacheKnows'
    BY <1>1, <1>2 DEF Inv, CacheKnows, UidsUsed, ServiceShape, TypeOK, Live, Exists, NoService
  <1>6. LookupHolds' /\ UniqueELBName'
    BY <1>1 DEF Inv, LookupHolds, UniqueELBName, FindELBByName, Live
  <1>7. CleanupHasNoOwner'
    BY <1>1, <1>2 DEF Inv, CleanupHasNoOwner, UidsUsed, TypeOK, Live, NoService, DeleteSteps
  <1> QED
    BY <1>3, <1>4, <1>5, <1>6, <1>7 DEF Inv

\* Inv is inductive.
LEMMA InvNext == Inv /\ [Next]_vars => Inv'
  <1> SUFFICES ASSUME Inv, [Next]_vars PROVE Inv'
    OBVIOUS
  <1>1. TypeOK'
    BY TypeNext DEF Inv
  <1>2. QuietAction => Inv'
    BY <1>1, QuietSteps, InvQuiet DEF Inv
  <1> QED
    BY <1>1, <1>2, NextCases, InvReconcile, InvCreateELB, InvELB, InvManager, InvUser

\* In every reachable state the reconcile, the caches and the cloud agree on whose the
\* load balancers are, as far as Inv says.
THEOREM Invariance == Spec => []Inv
  BY InvInit, InvNext, PTL DEF Spec

\* However often CreateELB loses its answer or the manager restarts, the lookup by
\* name in reconcileCreate leaves no room for a second load balancer of that name.
THEOREM UniqueName == Spec => []UniqueELBName
  BY Invariance, PTL DEF Inv

(***************************************************************************)
(* What a step does to a load balancer.                                    *)
(***************************************************************************)
\* A load balancer that a step deletes does not belong to a Service that lives.
LEMMA DeleteOnlyUnowned ==
    ASSUME Inv, [Next]_vars, NEW e \in ELBIDs,
           Live(e), elbs[e].uid = svc.uid, ~ svc.deleting
    PROVE  elbs'[e].st # "gone"
  <1>1. CASE QuietAction
    BY <1>1, QuietSteps DEF Inv, Quiet, SameIdentity, Live
  <1>2. CASE \/ ReconcileOrphanedBinding \/ ReconcileDelete \/ ReconcileService \/ Lookup
             \/ SyncService \/ Crash \/ Restart
             \/ CreateService \/ DeleteService \/ ReleaseService
    <2>1. elbs' = elbs
      BY <1>2 DEF ReconcileOrphanedBinding, ReconcileDelete, ReconcileService, Lookup,
         TakeRequest, SyncService, Crash, Restart, CreateService, DeleteService,
         ReleaseService, AllButService
    <2> QED
      BY <2>1 DEF Live
  <1>3. CASE CreateELB \/ CreateELBAnswerLost
    <2>1. PICK f \in ELBIDs : elbs[f].st = "free" /\ NewELB(f, svcRead)
      BY <1>3 DEF CreateELB, CreateELBAnswerLost, Free
    <2> QED
      BY <2>1 DEF NewELB, Live, Inv, TypeOK
  <1>4. CASE DeleteELB
    BY <1>4 DEF DeleteELB, At, Inv, CleanupHasNoOwner, DeleteSteps
  <1>5. ASSUME NEW f \in ELBIDs, ELBActivates(f) PROVE elbs'[e].st # "gone"
    BY <1>5 DEF ELBActivates, Live, Inv, TypeOK
  <1> QED
    BY <1>1, <1>2, <1>3, <1>4, <1>5, NextCases

\* No cleanup, whatever stale Service, binding or id it works on, deletes the load
\* balancer of a Service that nobody deleted.
THEOREM LiveKept == Spec => LiveELBKept
  <1>1. Inv /\ [Next]_vars =>
          [\A e \in ELBIDs : Live(e) /\ elbs[e].uid = svc.uid /\ ~ svc.deleting
                             => elbs'[e].st # "gone"]_vars
    BY DeleteOnlyUnowned
  <1> QED
    BY <1>1, Invariance, PTL DEF Spec, LiveELBKept

(***************************************************************************)
(* The refinement.                                                         *)
(***************************************************************************)
\* The initial situations are initial states of ELBOwnership.
LEMMA OwnershipInit == Init => Ownership!Init
  <1> SUFFICES ASSUME Init PROVE Ownership!Init
    OBVIOUS
  <1> USE DEF Ownership!Init, Ownership!Fresh, Owner, Exists
  <1>1. CASE InitEmpty
    BY <1>1 DEF InitEmpty, NoService
  <1>2. ASSUME NEW u \in UIDs, NEW n \in Names, NEW e \in ELBIDs,
               InitAnnotated(u, n, e) \/ InitUnheld(u, n, e)
        PROVE  Ownership!Init
    <2>1. Owner = u
      BY <1>2, NoneAssumption DEF InitAnnotated, InitUnheld, NewService, NoService
    <2>2. InitProvisioned(u, n, e)
      BY <1>2 DEF InitAnnotated, InitUnheld
    <2> QED
      BY <2>1, <2>2 DEF InitProvisioned
  <1> QED
    BY <1>1, <1>2 DEF Init

\* Every step is a step of ELBOwnership or changes nothing it knows of.
LEMMA OwnershipNext == Inv /\ [Next]_vars => [Ownership!Next]_(Ownership!vars)
  <1> SUFFICES ASSUME Inv, [Next]_vars PROVE [Ownership!Next]_(Ownership!vars)
    OBVIOUS
  <1> USE DEF Ownership!vars
  <1>1. CASE QuietAction
    BY <1>1, QuietSteps DEF Inv, Quiet, SameIdentity, Owner, Exists
  <1>2. CASE \/ ReconcileOrphanedBinding \/ ReconcileDelete \/ ReconcileService \/ Lookup
             \/ SyncService \/ Crash \/ Restart
    BY <1>2 DEF ReconcileOrphanedBinding, ReconcileDelete, ReconcileService, Lookup, Undisturbed,
       TakeRequest, SyncService, Crash, Restart, cluster, Owner, Exists
  <1>3. CASE CreateELB \/ CreateELBAnswerLost
    <2>1. PICK e \in ELBIDs : elbs[e].st = "free" /\ NewELB(e, svcRead)
      BY <1>3 DEF CreateELB, CreateELBAnswerLost, Free
    <2>2. /\ UNCHANGED <<svc, used>> /\ svcRead.uid \in used
          /\ FindELBByName(svcRead) = {}
      BY <1>3 DEF CreateELB, CreateELBAnswerLost, At, Undisturbed, Inv, ServiceShape, UidsUsed,
         LookupHolds, Exists, DeleteSteps
    <2>3. svcRead.uid \in UIDs /\ svcRead.name \in Names
      BY <2>2, NoneAssumption DEF Inv, TypeOK, ServiceShape, Exists
    <2>4. Ownership!Provide(e, svcRead.uid, svcRead.name)
      BY <2>1, <2>2 DEF NewELB, FindELBByName, Live, Owner, Exists, Ownership!Provide,
         Ownership!Live
    <2> QED
      BY <2>3, <2>4 DEF Ownership!Next
  <1>4. CASE DeleteELB
    <2>1. UNCHANGED <<svc, used>>
      BY <1>4 DEF DeleteELB, Undisturbed
    <2>2. CASE elbID \in ELBIDs /\ Live(elbID)
      <3>1. elbs[elbID].uid # Owner
        BY <1>4, <2>2, NoneAssumption
           DEF DeleteELB, At, Inv, TypeOK, UidsUsed, CleanupHasNoOwner, DeleteSteps, Owner
      <3> QED
        BY <1>4, <2>1, <2>2, <3>1 DEF DeleteELB, Owner, Exists, Live, Ownership!Next,
           Ownership!Reclaim, Ownership!Live
    <2>3. CASE ~ (elbID \in ELBIDs /\ Live(elbID))
      BY <1>4, <2>1, <2>3 DEF DeleteELB, Owner, Exists, Inv, TypeOK, LoadBalancers
    <2> QED
      BY <2>2, <2>3
  <1>5. CASE CreateService
    <2>1. ~ Exists(svc) /\ elbs' = elbs
      BY <1>5 DEF CreateService, AllButService
    <2> QED
      BY <1>5, <2>1, NewServiceFields, NoneAssumption
         DEF Owner, Exists, Ownership!Next, Ownership!Arrive
  <1>6. CASE DeleteService \/ ReleaseService
    BY <1>6 DEF DeleteService, ReleaseService, AllButService, NoService, Owner, Exists, Inv,
       TypeOK, Services, Ownership!Next, Ownership!Leave
  <1>7. ASSUME NEW e \in ELBIDs, ELBActivates(e) PROVE Ownership!Next
    BY <1>7 DEF ELBActivates, cluster, Owner, Exists, Ownership!Next, Ownership!Activate
  <1> QED
    BY <1>1, <1>2, <1>3, <1>4, <1>5, <1>6, <1>7, NextCases

\* The reconciler implements ELBOwnership.
THEOREM Refinement == Spec => OwnershipKept
  BY OwnershipInit, OwnershipNext, Invariance, PTL DEF Spec, OwnershipKept, Ownership!Spec

(***************************************************************************)
(* The finalizer.  Until a reconcile reads a binding that is behind, or    *)
(* ensureBinding fails where its error is only logged, a binding gets its  *)
(* finalizer before it gets a load balancer and keeps it until that is     *)
(* gone.                                                                   *)
(***************************************************************************)
\* The budgets never exceed what they were.
WithinBudget == \A d \in Disturbances : budget[d] <= Budget[d]

\* A step costs one disturbance or none.
LEMMA BudgetStep ==
    ASSUME [Next]_vars
    PROVE  budget' = budget \/ \E d \in Disturbances : Spend(d)
  <1> USE DEF Undisturbed, TakeRequest, Disturbances
  <1>1. CASE SkipService \/ ReconcileOrphanedBinding \/ ReconcileDelete \/ ReconcileService
    BY <1>1 DEF SkipService, ReconcileOrphanedBinding, ReconcileDelete, ReconcileService
  <1>2. CASE \/ Lookup \/ Recover \/ RecoverPatch \/ CreateELB \/ CreateELBAnswerLost
             \/ WaitForELBActive \/ CreateBinding \/ PersistELBID \/ CreateStacks
             \/ CreateStatus \/ MarkReady
    BY <1>2 DEF Lookup, Recover, RecoverPatch, CreateELB, CreateELBAnswerLost, WaitForELBActive,
       CreateBinding, PersistELBID, CreateStacks, CreateStatus, MarkReady
  <1>3. CASE \/ UpdateEntry \/ Adopt \/ AdoptPatch \/ StripAnnotations \/ HealFinalizer
             \/ UpdateSync \/ PersistParams \/ UpdateStatus
             \/ FindForDelete \/ DeleteELB \/ ClearStatus \/ RemoveFinalizer
    BY <1>3 DEF UpdateEntry, Adopt, AdoptPatch, StripAnnotations, HealFinalizer, UpdateSync,
       PersistParams, UpdateStatus, FindForDelete, DeleteELB, ClearStatus, RemoveFinalizer
  <1>4. CASE CallFails
    BY <1>4 DEF CallFails, Kind
  <1>5. CASE \/ SyncService \/ SyncBinding \/ BindingLags \/ Crash \/ Restart
             \/ Environment \/ UNCHANGED vars
    BY <1>5 DEF SyncService, SyncBinding, BindingLags, Crash, Restart, Environment,
       CreateService, DeleteService, ReleaseService, RenameService, ReclassifyService,
       OverwriteService, GarbageCollect, ELBActivates, vars
  <1> QED
    BY <1>1, <1>2, <1>3, <1>4, <1>5 DEF Next, ControllerStep

\* What was not spent after a step was not spent before it.
LEMMA SparedBefore ==
    ASSUME TypeOK, WithinBudget, [Next]_vars
    PROVE  /\ WithinBudget'
           /\ \A K \in SUBSET Disturbances : Spared(K)' => Spared(K)
  <1>1. \A d \in Disturbances : /\ budget[d] \in Nat /\ Budget[d] \in Nat
                                /\ budget'[d] \in {budget[d], budget[d] - 1}
    BY BudgetStep, BudgetAssumption DEF TypeOK, Spend
  <1> QED
    BY <1>1 DEF WithinBudget, Spared

Made(e) == e # None => elbs[e].st # "free"

\* Every id the controller holds was handed out by the cloud.
IdsMade ==
    /\ Made(binding.elb) /\ Made(elbID)
    /\ Made(svc.ann) /\ Made(svcCache.ann) /\ Made(svcRead.ann)

\* Where an id is about to be written, the binding it goes to has the finalizer.
HeldBeforeRecorded ==
    /\ binding.deleting => binding.fin
    /\ pc \in {"recoverPatch", "persist", "adoptPatch"} /\ Exists(binding) => binding.fin

\* The cleanup works on the recorded load balancer, if there is one.
CleanupCovers ==
    /\ pc = "findDelete" => binding.elb = None
    /\ pc = "deleteELB" => binding.elb \in {None, elbID}
    /\ pc \in {"clearStatus", "finalizer"} => binding.elb = None \/ ~ Live(binding.elb)

RecordHeld == binding.elb # None /\ Live(binding.elb) => binding.fin

Hold == IdsMade /\ HeldBeforeRecorded /\ CleanupCovers /\ RecordHeld

\* What it is proved under, as far as it concerns the history.
Regular == Spared({"lag", "recover"})

\* It holds when nothing is there yet, and for an annotated Service of an earlier version.
LEMMA HoldInit == "unheld" \notin Starts /\ Init => Hold
  <1> SUFFICES ASSUME "unheld" \notin Starts, Init PROVE Hold
    OBVIOUS
  <1> USE DEF Hold, IdsMade, Made, HeldBeforeRecorded, CleanupCovers, RecordHeld,
              NoService, NoBinding
  <1>1. CASE InitEmpty
    BY <1>1 DEF Init, InitEmpty
  <1>2. ASSUME NEW u \in UIDs, NEW n \in Names, NEW e \in ELBIDs, InitAnnotated(u, n, e)
        PROVE  Hold
    BY <1>2 DEF Init, InitAnnotated, InitProvisioned, NewService
  <1> QED
    BY <1>1, <1>2 DEF Init

\* A binding that is absent has no fields to speak of.
LEMMA AbsentFields ==
    NoBinding.uid = None /\ NoBinding.elb = None /\ ~ NoBinding.fin /\ ~ NoBinding.deleting
  BY DEF NoBinding

\* With a current cache ensureBinding leaves no binding without the finalizer, and no id
\* that was not there.
LEMMA EnsureHeld ==
    ASSUME TypeOK, HeldBeforeRecorded, bindCache = binding, NEW u \in UIDs
    PROVE  LET b == EnsureBinding(u).server
           IN  b.elb \in {None, binding.elb} /\ (b.fin \/ b = NoBinding)
  <1>2. WithFinalizer.fin /\ WithFinalizer.elb = binding.elb
    BY DEF HeldBeforeRecorded, WithFinalizer, TypeOK, Bindings
  <1>3. Deleted(binding).elb \in {None, binding.elb}
        /\ (Deleted(binding).fin \/ Deleted(binding) = NoBinding)
    BY DEF Deleted, TypeOK, Bindings, NoBinding
  <1>4. NewBinding(u).elb = None /\ NewBinding(u).fin
    BY DEF NewBinding, NoBinding
  <1>5. CASE bindCache.uid = u
    BY <1>2, <1>5 DEF EnsureBinding
  <1>6. CASE bindCache.uid # u
    BY <1>3, <1>4, <1>6 DEF EnsureBinding, Exists, TypeOK, Bindings, NoBinding
  <1> QED
    BY <1>5, <1>6

\* What the reconciler does to the Service takes annotations away, it adds none.
LEMMA AnnotationKept ==
    ASSUME TypeOK, NEW e, PatchIngress(e)
    PROVE  svc'.ann = svc.ann
  BY DEF TypeOK, PatchIngress, Services

\* What a status patch does with a fresh cache.
LEMMA FreshPatch ==
    ASSUME TypeOK, bindCache = binding, NEW e \in ELBIDs \cup {None}, NEW ph \in Phases,
           PatchBindingStatus(e, ph)
    PROVE  /\ binding'.elb = IF Exists(binding) THEN e ELSE binding.elb
           /\ binding'.fin = binding.fin /\ binding'.deleting = binding.deleting
           /\ binding'.uid = binding.uid
  BY DEF TypeOK, PatchBindingStatus, BindingPatchable, Exists, Bindings

\* Steps that make no load balancer and write no id that was not there.
Sober ==
    /\ elbs' = elbs /\ svc'.ann \in {svc.ann, None}
    /\ svcCache'.ann \in {svcCache.ann, svc.ann, None}
    /\ svcRead'.ann \in {svcRead.ann, None}
    /\ elbID' \in {elbID, None}
    /\ binding'.elb \in {binding.elb, None}

\* What they keep, if they move pc only where nothing is claimed or where it was.
LEMMA HoldSober ==
    ASSUME TypeOK, TypeOK', Hold, Sober,
           binding' = binding \/ binding'.fin \/ binding' = NoBinding,
           \/ pc' = pc /\ elbID' = elbID
           \/ pc' = "finalizer" /\ pc = "clearStatus"
           \/ pc' \notin {"recoverPatch", "persist", "adoptPatch", "findDelete", "deleteELB",
                          "clearStatus", "finalizer"}
           \/ /\ pc' \in {"recoverPatch", "persist", "adoptPatch"}
              /\ binding'.fin \/ binding' = NoBinding
    PROVE  Hold'
  <1> USE AbsentFields DEF Hold, Sober
  <1>1. IdsMade'
    BY DEF IdsMade, Made
  <1>2. HeldBeforeRecorded'
    BY DEF HeldBeforeRecorded, Exists
  <1>3. CleanupCovers'
    BY DEF CleanupCovers, Live
  <1>4. RecordHeld'
    BY DEF RecordHeld, Live
  <1> QED
    BY <1>1, <1>2, <1>3, <1>4

\* Every step keeps it.
LEMMA HoldNext ==
    ASSUME Regular, Regular', Inv, Hold, [Next]_vars
    PROVE  Hold'
  <1> USE AbsentFields DEF Hold, IdsMade, Made, HeldBeforeRecorded, CleanupCovers,
              RecordHeld, Live, At, Goto, Finish, Undisturbed, NoService
  <1>a. TypeOK /\ TypeOK'
    BY TypeNext DEF Inv
  <1>b. Fresh => bindCache = binding
    BY DEF Fresh, Spared, Regular
  <1>c. pc \in {"recover", "ensureBinding", "adopt"} => svcRead.uid \in UIDs
    BY <1>a DEF Inv, ServiceShape, Exists, TypeOK, Services, DeleteSteps
  <1>1. CASE SkipService \/ ReconcileService
    BY <1>1 DEF SkipService, ReconcileService, TakeRequest, local
  <1>2. CASE ReconcileOrphanedBinding \/ ReconcileDelete
    BY <1>2, <1>b DEF ReconcileOrphanedBinding, ReconcileDelete, TakeRequest
  <1>3. CASE Lookup \/ FindForDelete
    BY <1>3 DEF Lookup, FindForDelete, FindELBByName
  <1>4. CASE Recover \/ CreateBinding \/ Adopt
    <2>1. /\ pc \in {"recover", "ensureBinding", "adopt"}
          /\ pc' \in {"recoverPatch", "persist", "adoptPatch", "heal", "idle"}
          /\ binding' = EnsureBinding(svcRead.uid).server
          /\ UNCHANGED <<svc, elbs, svcCache>>
          /\ elbID' \in {elbID, None} /\ svcRead' \in {svcRead, NoService}
          /\ bindCache = binding
      BY <1>4, <1>b DEF Recover, CreateBinding, Adopt
    <2>2. binding'.elb \in {None, binding.elb} /\ (binding'.fin \/ binding' = NoBinding)
      BY <1>a, <1>c, <2>1, EnsureHeld
    <2> QED
      BY <2>1, <2>2, <1>a, HoldSober DEF Sober
  <1>5. CASE RecoverPatch \/ PersistELBID \/ AdoptPatch
    <2>1. /\ pc \in {"recoverPatch", "persist", "adoptPatch"}
          /\ pc' \in {"idle", "createSync", "strip", "heal"}
          /\ UNCHANGED <<svc, elbs, svcCache>>
          /\ elbID' \in {elbID, None} /\ svcRead' \in {svcRead, NoService}
      BY <1>5 DEF RecoverPatch, PersistELBID, AdoptPatch
    <2>2. /\ binding'.elb \in {binding.elb, elbID, svcRead.ann}
          /\ binding'.fin = binding.fin /\ binding'.deleting = binding.deleting
          /\ binding'.elb # binding.elb => Exists(binding)
      <3>1. CASE RecoverPatch
        BY <1>a, <1>b, <3>1, FreshPatch DEF RecoverPatch, TypeOK, Bindings
      <3>2. CASE PersistELBID
        <4>1. CASE Fresh /\ PatchBindingStatus(elbID, "Provisioning")
          BY <1>a, <1>b, <4>1, FreshPatch DEF TypeOK, Phases
        <4>2. CASE /\ Exists(binding)
                   /\ binding' = [binding EXCEPT !.elb = elbID, !.phase = "Provisioning"]
          BY <1>a, <4>2 DEF TypeOK, Bindings
        <4> QED
          BY <3>2, <4>1, <4>2 DEF PersistELBID
      <3>3. CASE AdoptPatch
        <4> DEFINE e == IF svcRead.ann # None THEN svcRead.ann ELSE bindCache.elb
                   ph == IF bindCache.phase = "" THEN "Ready" ELSE bindCache.phase
        <4>1. e \in ELBIDs \cup {None} /\ ph \in Phases
          BY <1>a, FieldTypes DEF Phases
        <4>2. PatchBindingStatus(e, ph)
          BY <3>3 DEF AdoptPatch
        <4>3. bindCache = binding /\ e \in {binding.elb, svcRead.ann}
          BY <1>b, <3>3 DEF AdoptPatch
        <4> HIDE DEF e, ph
        <4> QED
          BY <1>a, <4>1, <4>2, <4>3, FreshPatch
      <3> QED
        BY <1>5, <3>1, <3>2, <3>3
    <2> QED
      BY <2>1, <2>2
  <1>6. CASE MarkReady
    <2>1. /\ bindCache = binding /\ PatchBindingStatus(bindCache.elb, "Ready")
          /\ UNCHANGED <<svc, elbs, svcCache>>
          /\ pc' = "idle" /\ elbID' = None /\ svcRead' = NoService
      BY <1>6, <1>b DEF MarkReady
    <2>2. /\ binding'.elb = binding.elb /\ binding'.fin = binding.fin
          /\ binding'.deleting = binding.deleting
      BY <1>a, <2>1, FreshPatch, FieldTypes DEF Phases
    <2> QED
      BY <2>1, <2>2
  <1>7. CASE CreateELB \/ CreateELBAnswerLost
    <2>1. PICK e \in ELBIDs : /\ elbs[e].st = "free" /\ NewELB(e, svcRead)
                              /\ elbID' \in {e, None}
      BY <1>7 DEF CreateELB, CreateELBAnswerLost, Free
    <2>2. \A x \in ELBIDs : elbs'[x].st = IF x = e THEN "pending" ELSE elbs[x].st
      BY <1>a, <2>1 DEF NewELB, TypeOK
    <2>3. /\ UNCHANGED <<svc, binding, svcCache>> /\ svcRead' \in {svcRead, NoService}
          /\ pc = "createELB" /\ pc' \in {"waitActive", "idle"}
      BY <1>7 DEF CreateELB, CreateELBAnswerLost
    <2>4. /\ binding.elb \in ELBIDs \cup {None} /\ svc.ann \in ELBIDs \cup {None}
          /\ svcCache.ann \in ELBIDs \cup {None} /\ svcRead.ann \in ELBIDs \cup {None}
      BY <1>a DEF TypeOK, Services, Bindings
    <2> QED
      BY <2>1, <2>2, <2>3, <2>4
  <1>8. CASE WaitForELBActive \/ CreateStacks \/ UpdateSync \/ PersistParams
    <2>1. /\ UNCHANGED <<svc, binding, elbs, svcCache>>
          /\ elbID' \in {elbID, None} /\ svcRead' \in {svcRead, NoService}
          /\ pc' \in {"ensureBinding", "createStatus", "persistParams", "updateStatus", "idle"}
      BY <1>8 DEF WaitForELBActive, CreateStacks, UpdateSync, PersistParams
    <2> QED
      BY <2>1, <1>a, HoldSober DEF Sober
  <1>9. CASE CreateStatus \/ UpdateStatus \/ ClearStatus
    <2>1. svc'.ann = svc.ann
      BY <1>a, <1>9, AnnotationKept DEF CreateStatus, UpdateStatus, ClearStatus
    <2>2. /\ UNCHANGED <<binding, elbs, svcCache>>
          /\ elbID' \in {elbID, None} /\ svcRead' \in {svcRead, NoService}
          /\ pc' \in {"ready", "idle"} \/ (pc = "clearStatus" /\ pc' = "finalizer")
      BY <1>9 DEF CreateStatus, UpdateStatus, ClearStatus
    <2> QED
      BY <2>1, <2>2, <1>a, HoldSober DEF Sober
  <1>10. CASE UpdateEntry
    BY <1>10, <1>b DEF UpdateEntry
  <1>11. CASE StripAnnotations
    BY <1>a, <1>11 DEF StripAnnotations, TypeOK, Services
  <1>12. CASE HealFinalizer
    <2>1. binding'.elb = binding.elb /\ (binding.fin => binding'.fin)
          /\ binding'.deleting = binding.deleting
      BY <1>a, <1>12 DEF HealFinalizer, WithFinalizer, TypeOK, Bindings
    <2> QED
      BY <1>12, <2>1 DEF HealFinalizer
  <1>13. CASE DeleteELB
    <2>1. binding.elb = None \/ elbs'[binding.elb].st \notin {"pending", "active"}
      <3>1. pc = "deleteELB" /\ elbs' = [elbs EXCEPT ![elbID].st = IF Live(elbID) THEN "gone" ELSE @]
        BY <1>13 DEF DeleteELB
      <3>2. ASSUME binding.elb # None
            PROVE  binding.elb = elbID /\ elbID \in ELBIDs
        BY <1>a, <3>1, <3>2 DEF TypeOK
      <3>3. CASE Live(elbID)
        BY <1>a, <3>1, <3>2, <3>3 DEF TypeOK
      <3>4. CASE ~ Live(elbID)
        BY <1>a, <3>1, <3>2, <3>4 DEF TypeOK, LoadBalancers
      <3> QED
        BY <3>3, <3>4
    <2>2. \A x \in ELBIDs : elbs'[x].st \in {elbs[x].st, "gone"}
      BY <1>a, <1>13 DEF DeleteELB, TypeOK
    <2> QED
      BY <1>a, <1>13, <2>1, <2>2 DEF DeleteELB, AfterDelete, TypeOK, Services, Bindings
  <1>14. CASE RemoveFinalizer
    <2>1. binding.elb = None \/ ~ Live(binding.elb)
      BY <1>14 DEF RemoveFinalizer
    <2>2. binding'.elb \in {binding.elb, None} /\ (binding'.deleting => binding'.fin)
      BY <1>a, <1>14 DEF RemoveFinalizer, TypeOK, Bindings
    <2> QED
      BY <1>14, <2>1, <2>2 DEF RemoveFinalizer
  <1>15. CASE CallFails
    <2>1. /\ UNCHANGED <<svc, binding, elbs, svcCache>>
          /\ elbID' \in {elbID, None} /\ svcRead' \in {svcRead, NoService}
          /\ pc \in FaultPoints \cap Steps /\ pc' \in {"idle", AfterError[pc]}
      BY <1>15 DEF CallFails
    <2>2. pc # "recover"
      <3>1. budget[Kind(pc)] > 0 /\ budget' = [budget EXCEPT ![Kind(pc)] = @ - 1]
        BY <1>15 DEF CallFails, Spend
      <3>2. pc = "recover" => budget'["recover"] = budget["recover"] - 1
        BY <1>a, <3>1 DEF Kind, TypeOK, Disturbances
      <3>3. budget'["recover"] = budget["recover"] /\ budget["recover"] \in Nat
        BY <1>a DEF Regular, Spared, TypeOK, Disturbances
      <3> QED
        BY <3>2, <3>3
    <2>3. AfterError[pc] \notin {"recoverPatch", "persist", "adoptPatch", "findDelete",
                                 "deleteELB", "clearStatus"}
          /\ (AfterError[pc] = "finalizer" => pc = "clearStatus")
      BY <2>1, <2>2 DEF AfterError
    <2> QED
      BY <2>1, <2>3
  <1>16. CASE SyncService \/ SyncBinding \/ BindingLags \/ Crash \/ Restart
    <2>1. /\ UNCHANGED <<svc, binding, elbs>> /\ svcCache' \in {svcCache, svc, NoService}
          /\ svcRead' \in {svcRead, NoService}
          /\ UNCHANGED <<pc, elbID>> \/ (pc' = "idle" /\ elbID' = None)
      BY <1>16 DEF SyncService, SyncBinding, BindingLags, Crash, Restart, cluster, caches, local
    <2> QED
      BY <2>1, <1>a, HoldSober DEF Sober
  <1>17. CASE CreateService \/ DeleteService \/ ReleaseService
    <2>1. svc'.ann \in {svc.ann, None}
      <3>1. CASE CreateService
        BY <3>1, NewServiceFields
      <3>2. CASE DeleteService
        BY <1>a, <3>2 DEF DeleteService, TypeOK, Services
      <3>3. CASE ReleaseService
        BY <3>3 DEF ReleaseService
      <3> QED
        BY <1>17, <3>1, <3>2, <3>3
    <2>2. UNCHANGED <<binding, elbs, svcCache, svcRead, pc, elbID>>
      BY <1>17 DEF CreateService, DeleteService, ReleaseService, AllButService, caches, local
    <2> QED
      BY <2>1, <2>2, <1>a, HoldSober DEF Sober
  <1>18. CASE RenameService \/ ReclassifyService \/ OverwriteService
    <2>1. svc'.ann \in {svc.ann, None}
      BY <1>a, <1>18 DEF RenameService, ReclassifyService, OverwriteService, TypeOK, Services
    <2> QED
      BY <1>18, <2>1 DEF RenameService, ReclassifyService, OverwriteService,
         AllButService, caches, local
  <1>19. CASE GarbageCollect
    <2>1. binding'.elb \in {None, binding.elb} /\ (binding'.fin \/ binding' = NoBinding)
      BY <1>a, <1>19 DEF GarbageCollect, Deleted, TypeOK, Bindings
    <2>2. UNCHANGED <<svc, elbs, svcCache, svcRead, pc, elbID>>
      BY <1>19 DEF GarbageCollect, caches, local
    <2> QED
      BY <2>1, <2>2, <1>a, HoldSober DEF Sober
  <1>20. CASE \E e \in ELBIDs : ELBActivates(e)
    <2>1. PICK e \in ELBIDs : ELBActivates(e)
      BY <1>20
    <2>2. \A x \in ELBIDs : /\ Live(x)' = Live(x)
                            /\ elbs[x].st # "free" => elbs'[x].st # "free"
      BY <1>a, <2>1 DEF ELBActivates, TypeOK, LoadBalancers
    <2> QED
      BY <1>a, <2>1, <2>2 DEF ELBActivates, cluster, caches, local, TypeOK, Services, Bindings
  <1>21. CASE UNCHANGED vars
    BY <1>21 DEF vars
  <1> QED
    BY <1>1, <1>2, <1>3, <1>4, <1>5, <1>6, <1>7, <1>8, <1>9, <1>10, <1>11, <1>12, <1>13,
       <1>14, <1>15, <1>16, <1>17, <1>18, <1>19, <1>20, <1>21, NextCases DEF QuietAction

\* Every step keeps Hold as long as the history is regular.
Held == WithinBudget /\ (Regular => Hold)

\* It is inductive.
LEMMA HeldNext ==
    ASSUME Inv, Held, [Next]_vars
    PROVE  Held'
  <1>1. WithinBudget' /\ (Regular' => Regular)
    BY SparedBefore DEF Inv, Held, Regular, Disturbances
  <1>2. CASE Regular'
    BY <1>1, <1>2, HoldNext DEF Held
  <1> QED
    BY <1>1, <1>2 DEF Held

\* It holds in every initial situation without a half-upgraded binding.
LEMMA HeldInit == "unheld" \notin Starts /\ Init => Held
  <1> SUFFICES ASSUME "unheld" \notin Starts, Init PROVE Held
    OBVIOUS
  <1>1. WithinBudget
    BY BudgetAssumption DEF Init, WithinBudget
  <1> QED
    BY <1>1, HoldInit DEF Held

\* A binding that records a live load balancer carries the finalizer: for any number of
\* incarnations, through crashes, lost answers and every failure but one, until a
\* reconcile reads a binding copy that is behind, unless an earlier version left a
\* binding without a finalizer.
THEOREM FinalizerHolds ==
    ASSUME "unheld" \notin Starts
    PROVE  Spec => []FinalizerHoldsELB
  <1>1. Init => Inv /\ Held
    BY InvInit, HeldInit
  <1>2. Inv /\ Held /\ [Next]_vars => (Inv /\ Held)'
    BY InvNext, HeldNext
  <1>3. Inv /\ Held => FinalizerHoldsELB
    BY DEF Held, Hold, RecordHeld, Regular, FinalizerHoldsELB
  <1> QED
    BY <1>1, <1>2, <1>3, PTL DEF Spec

=============================================================================
