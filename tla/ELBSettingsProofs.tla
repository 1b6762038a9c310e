-------------------------- MODULE ELBSettingsProofs --------------------------
(***************************************************************************)
(* Theorems about ELBSettings, for any ports, ranges, IP groups, wishes,   *)
(* bandwidths and numbers of edits and disturbances.                       *)
(*                                                                         *)
(* InOrder says what the call a reconcile has come to relies on; it makes  *)
(* OneGroup and BoundGroupExists inductive. Traced says how the group, the *)
(* binding and the copy the reconcile works on hang together as long as no *)
(* cached binding was late; NoGroupLeftBehind needs it.                    *)
(***************************************************************************)
EXTENDS ELBSettings, TLAPS

NoGroup == \A g \in Groups : ~ Live(g)

\* The calls that work on an IP group have one.
GroupSet == pc \in {"update", "bind", "unbind", "deleteGroup", "reclaim"} => group \in Groups

Ended == st \in {"deleting", "gone"}

Syncing == {"sync", "params"} \cup ACLCalls \cup {"persist"}

\* When the id is always written, a binding with a group also has the load balancer,
\* and a cleanup deletes it before the group.
Identified ==
    /\ pc \in Syncing => bind.id
    /\ \A b \in {bind, bindCache, recorded} : b.acl # None => b.id
    /\ pc \in {"findLeft", "reclaim"} => Listeners = {}

InOrder ==
    /\ OneGroup
    /\ BoundGroupExists
    /\ GroupSet
    /\ pc = "create" => NoGroup
    /\ pc \in {"bind", "persist"} /\ group # None => Live(group)
    /\ pc = "deleteGroup" => \A p \in Listeners : acl[p] = None
    /\ pc \in CleanupCalls => Ended
    /\ elb # "active" => Listeners = {}
    /\ elb = "none" => bind.acl = None /\ bind.size = 0 /\ ~ bind.id
    /\ elb = "gone" => Ended
    /\ pc \in SyncCalls => IF pc = "createELB" THEN elb = "none" ELSE elb = "active"
    /\ bindCache.id \/ recorded.id => bind.id
    /\ bind.id => bind.fin \/ Ended
    /\ pc \in {"recordELB", "restoreID"} \cup Syncing => bind.fin
    /\ Spared({"id"}) => Identified

Traced ==
    Spared({"lag"}) =>
        /\ pc # "idle" => recorded.acl = bind.acl
        /\ bind.acl # None => \A g \in Groups : Live(g) => g = bind.acl
        /\ pc \in {"find", "create"} => bind.acl = None
        /\ pc \in {"createELB", "ensure", "recordELB", "sync"} /\ ~ recorded.id => bind.acl = None
        /\ bind.acl # None => bind.fin \/ Ended
        /\ pc = "reclaim" /\ IsLoadBalancer(read) => \A g \in Groups : Live(g) => g = group
        /\ pc = "release" /\ IsLoadBalancer(read) => NoGroup

\* What a reconcile that is over works on is well formed.
LEMMA EmptyType == Untyped \in Specs /\ NoBinding \in Bindings
  BY SizeAssumption DEF Specs, Types, Untyped, Bindings, NoBinding

\* A fresh instance is well formed.
LEMMA TypeInit == Init => TypeOK
  BY EmptyType, WishAssumption, EditAssumption, FaultAssumption
  DEF Init, AdmissionInit, TypeOK, AdmissionTypeOK, Unused

\* What the binding is given is of its fields.
LEMMA RecordType ==
    ASSUME TypeOK
    PROVE  /\ bind.acl \in Groups \cup {None} /\ bind.size \in Sizes
           /\ bind.id \in BOOLEAN /\ bind.fin \in BOOLEAN
           /\ recorded.acl \in Groups \cup {None} /\ recorded.size \in Sizes
           /\ read.size \in Sizes
  BY DEF TypeOK, Bindings, Specs

\* A disturbance is one of the few, and of a kind.
LEMMA StrikeType ==
    ASSUME TypeOK, NEW k \in Kinds, Strikes(k)
    PROVE  faults' \in 0..Faults /\ hit' \subseteq Kinds
  BY FaultAssumption DEF TypeOK, Strikes

\* Reading the binding is undisturbed or such a disturbance.
LEMMA ReadType ==
    ASSUME TypeOK, BindingRead
    PROVE  faults' \in 0..Faults /\ hit' \subseteq Kinds
  <1>1. CASE UNCHANGED luck
    BY <1>1 DEF luck, TypeOK
  <1>2. CASE Strikes("lag")
    BY <1>2, StrikeType DEF Kinds
  <1> QED
    BY <1>1, <1>2 DEF BindingRead

\* What a step spares was spared before it.
LEMMA SparedKept ==
    ASSUME [Next]_vars, NEW K, Spared(K)'
    PROVE  Spared(K)
  <1>1. hit' = hit \/ \E k : Strikes(k)
    <2>1. CASE StartReconcile \/ PersistSettings \/ StartCleanup \/ RestoreID
      BY <2>1 DEF StartReconcile, PersistSettings, StartCleanup, RestoreID, BindingRead, luck
    <2>2. CASE CallFails \/ RecordFails \/ NodesUnreadable
      BY <2>2 DEF CallFails, RecordFails, NodesUnreadable
    <2>3. CASE hit' = hit
      BY <2>3
    <2> QED
      BY <2>1, <2>2, <2>3 DEF Next, ControllerStep, CreateELB, EnsureBinding, RecordELB,
         RestoreBinding, SyncListeners, UpdateELB, FindIPGroup, UpdateIPGroup, CreateIPGroup,
         BindACL, UnbindACL, SetACL, DeleteIPGroup, DeleteELB, FindLeftGroup, ReclaimIPGroup,
         ReleaseBinding, SyncBinding, Undisturbed, luck, settingsVars, vars
  <1> QED
    BY <1>1 DEF Spared, Strikes

\* A load balancer is created with a bandwidth.
LEMMA CreationType ==
    ASSUME TypeOK
    PROVE  CreationSize(read) \in Nat
  <1>1. read.size \in Nat
    BY RecordType, SizeAssumption
  <1>2. DefaultSize \in Nat /\ MaxSize \in Nat
    BY BandwidthAssumption
  <1> QED
    BY <1>1, <1>2 DEF CreationSize

\* Every step keeps every variable well formed.
LEMMA TypeNext == TypeOK /\ [Next]_vars => TypeOK'
  <1> SUFFICES ASSUME TypeOK, [Next]_vars
               PROVE  TypeOK'
    OBVIOUS
  <1> USE EmptyType DEF AdmissionTypeOK, Undisturbed, admissionVars, cloud, local, luck,
      settingsVars, Calls, SyncCalls, CleanupCalls, ACLCalls, Kinds
  <1>1. CASE StartReconcile
    BY <1>1, ReadType DEF StartReconcile, TypeOK
  <1>2. CASE CreateELB
    BY <1>2, CreationType DEF CreateELB, TypeOK, Goto
  <1>3. CASE RecordELB
    <2>1. bind' \in Bindings
      BY <1>3, RecordType DEF RecordELB, Bindings, TypeOK
    <2> QED
      BY <1>3, <2>1 DEF RecordELB, TypeOK, Goto
  <1>4. CASE RestoreBinding
    <2>1. bind' \in Bindings
      BY <1>4, RecordType DEF RestoreBinding, Bindings, TypeOK
    <2> QED
      BY <1>4, <2>1 DEF RestoreBinding, TypeOK, Goto
  <1>23. CASE EnsureBinding
    <2>1. bind' \in Bindings
      BY <1>23, RecordType DEF EnsureBinding, Bindings, TypeOK
    <2> QED
      BY <1>23, <2>1 DEF EnsureBinding, TypeOK, Goto
  <1>24. CASE RecordFails
    BY <1>24, StrikeType DEF RecordFails, TypeOK, Goto
  <1>25. CASE RestoreID
    <2>1. bind' \in Bindings
      BY <1>25, RecordType DEF RestoreID, Bindings, TypeOK
    <2> QED
      BY <1>25, <2>1, ReadType DEF RestoreID, TypeOK, Return
  <1>26. CASE NodesUnreadable
    BY <1>26, StrikeType DEF NodesUnreadable, TypeOK, Goto
  <1>5. CASE SyncListeners
    BY <1>5 DEF SyncListeners, Goto, EnterACL, TypeOK
  <1>6. CASE UpdateELB
    <2>1. NewSize \in Nat
      BY RecordType, SizeAssumption DEF NewSize
    <2>2. bandwidth' \in Nat
      BY <1>6, <2>1 DEF UpdateELB, TypeOK
    <2>3. CASE EnterACL(recorded.acl)
      BY <1>6, <2>2, <2>3, RecordType DEF UpdateELB, TypeOK, EnterACL
    <2>4. CASE Return
      BY <1>6, <2>2, <2>4 DEF UpdateELB, TypeOK, Return
    <2> QED
      BY <1>6, <2>3, <2>4 DEF UpdateELB
  <1>7. CASE FindIPGroup
    BY <1>7 DEF FindIPGroup, TypeOK
  <1>8. CASE UpdateIPGroup
    BY <1>8 DEF UpdateIPGroup, Goto, Return, Valid, TypeOK
  <1>9. CASE CreateIPGroup
    BY <1>9 DEF CreateIPGroup, Valid, TypeOK
  <1>10. CASE BindACL
    BY <1>10 DEF BindACL, SetACL, Goto, TypeOK
  <1>11. CASE UnbindACL
    BY <1>11 DEF UnbindACL, SetACL, Goto, TypeOK
  <1>12. CASE DeleteIPGroup
    BY <1>12 DEF DeleteIPGroup, TypeOK
  <1>13. CASE PersistSettings
    <2>1. group \in Groups \cup {None}
      BY DEF TypeOK
    <2>2. bind' \in Bindings
      BY <1>13, <2>1, RecordType DEF PersistSettings, Bindings, TypeOK
    <2> QED
      BY <1>13, <2>2, ReadType DEF PersistSettings, TypeOK, Return
  <1>14. CASE StartCleanup
    <2>1. bindCache.acl \in Groups \cup {None}
      BY DEF TypeOK, Bindings
    <2> QED
      BY <1>14, <2>1, ReadType DEF StartCleanup, ReclaimGroup, TypeOK
  <1>15. CASE DeleteELB
    BY <1>15, RecordType DEF DeleteELB, ReclaimGroup, TypeOK
  <1>16. CASE FindLeftGroup
    BY <1>16 DEF FindLeftGroup, TypeOK
  <1>17. CASE ReclaimIPGroup
    BY <1>17 DEF ReclaimIPGroup, Goto, Return, TypeOK
  <1>18. CASE ReleaseBinding
    <2>1. bind' \in Bindings
      BY <1>18, RecordType DEF ReleaseBinding, Bindings, TypeOK
    <2> QED
      BY <1>18, <2>1 DEF ReleaseBinding, TypeOK, Return
  <1>19. CASE CallFails
    <2>1. faults' \in 0..Faults /\ hit' \subseteq Kinds
      BY <1>19, StrikeType DEF CallFails, Kind
    <2> QED
      BY <1>19, <2>1 DEF CallFails, TypeOK, Return
  <1>20. CASE SyncBinding
    BY <1>20 DEF SyncBinding, TypeOK
  <1>21. CASE AdmissionNext /\ UNCHANGED settingsVars
    <2>1. CASE CreateService
      BY <1>21, <2>1 DEF CreateService, Stored, HandleCreate, TypeOK
    <2>2. CASE UpdateService
      BY <1>21, <2>2 DEF UpdateService, Stored, HandleUpdate, Submitted, TypeOK
    <2>3. CASE EditWish
      BY <1>21, <2>3, WishAssumption, EditAssumption DEF EditWish, TypeOK
    <2>4. CASE DeleteService
      BY <1>21, <2>4 DEF DeleteService, TypeOK
    <2>5. CASE ReleaseService
      BY <1>21, <2>5 DEF ReleaseService, TypeOK
    <2> QED
      BY <1>21, <2>1, <2>2, <2>3, <2>4, <2>5 DEF AdmissionNext, Operator
  <1>22. CASE UNCHANGED vars
    BY <1>22 DEF vars, TypeOK
  <1> QED
    BY <1>1, <1>2, <1>3, <1>4, <1>5, <1>6, <1>7, <1>8, <1>9, <1>10, <1>11, <1>12, <1>13, <1>14, <1>15, <1>16, <1>17, <1>18, <1>19, <1>20, <1>21, <1>22,
       <1>23, <1>24, <1>25, <1>26 DEF Next, ControllerStep

\* Every variable always holds what its declaration says.
THEOREM TypeCorrect == Spec => []TypeOK
  BY TypeInit, TypeNext, PTL DEF Spec

\* At the start no reconcile runs and no IP group exists.
LEMMA OrderInit == Init => InOrder
  BY GroupAssumption DEF Init, InOrder, OneGroup, BoundGroupExists, GroupSet, NoGroup,
     Live, Unused, Listeners, SyncCalls, CleanupCalls, ACLCalls, Syncing, Identified,
     NoBinding

\* Every step leaves the next call what it relies on.
LEMMA OrderNext == TypeOK /\ InOrder /\ [Next]_vars => InOrder'
  <1> SUFFICES ASSUME TypeOK, InOrder, [Next]_vars
               PROVE  InOrder'
    OBVIOUS
  <1>0. Spared({"id"})' => Spared({"id"})
    BY SparedKept
  <1> USE GroupAssumption DEF InOrder, OneGroup, BoundGroupExists, GroupSet, NoGroup, Live,
      Listeners, SyncCalls, CleanupCalls, ACLCalls, Syncing, Identified, Ended, Undisturbed, admissionVars, cloud, local, settingsVars
  <1>1. CASE StartReconcile
    BY <1>0, <1>1 DEF StartReconcile, ShouldReconcile, NoBinding, TypeOK, Bindings
  <1>2. CASE CreateELB
    BY <1>0, <1>2 DEF CreateELB, Goto, TypeOK
  <1>3. CASE RecordELB
    BY <1>0, <1>3 DEF RecordELB, Goto, TypeOK, Bindings
  <1>4. CASE RestoreBinding
    BY <1>0, <1>4 DEF RestoreBinding, Goto, TypeOK, Bindings
  <1>23. CASE EnsureBinding
    BY <1>0, <1>23 DEF EnsureBinding, Goto, TypeOK, Bindings
  <1>24. CASE RecordFails
    BY <1>0, <1>24 DEF RecordFails, Strikes, Spared, Goto, TypeOK
  <1>25. CASE RestoreID
    BY <1>0, <1>25 DEF RestoreID, Return, NoBinding, TypeOK, Bindings
  <1>26. CASE NodesUnreadable
    BY <1>0, <1>26 DEF NodesUnreadable, Goto, TypeOK
  <1>5. CASE SyncListeners
    BY <1>0, <1>5 DEF SyncListeners, Goto, EnterACL, TypeOK
  <1>6. CASE UpdateELB
    BY <1>0, <1>6, RecordType DEF UpdateELB, EnterACL, Return, NoBinding, TypeOK
  <1>7. CASE FindIPGroup
    BY <1>0, <1>7 DEF FindIPGroup, TypeOK
  <1>8. CASE UpdateIPGroup
    BY <1>0, <1>8 DEF UpdateIPGroup, Goto, Return, NoBinding, TypeOK
  <1>9. CASE CreateIPGroup
    BY <1>0, <1>9 DEF CreateIPGroup, TypeOK
  <1>10. CASE BindACL
    BY <1>0, <1>10 DEF BindACL, SetACL, Goto, TypeOK
  <1>11. CASE UnbindACL
    BY <1>0, <1>11 DEF UnbindACL, SetACL, Goto, TypeOK
  <1>12. CASE DeleteIPGroup
    BY <1>0, <1>12 DEF DeleteIPGroup, TypeOK
  <1>13. CASE PersistSettings
    BY <1>0, <1>13 DEF PersistSettings, Return, NoBinding, TypeOK, Bindings
  <1>14. CASE StartCleanup
    <2>1. bindCache.acl \in Groups \cup {None}
      BY DEF TypeOK, Bindings
    <2> QED
      BY <1>0, <1>14, <2>1 DEF StartCleanup, ReclaimGroup, IsLoadBalancer, Untyped, TypeOK
  <1>15. CASE DeleteELB
    BY <1>0, <1>15, RecordType DEF DeleteELB, ReclaimGroup, TypeOK
  <1>16. CASE FindLeftGroup
    BY <1>0, <1>16 DEF FindLeftGroup, TypeOK
  <1>17. CASE ReclaimIPGroup
    BY <1>0, <1>17 DEF ReclaimIPGroup, Goto, Return, NoBinding, TypeOK
  <1>18. CASE ReleaseBinding
    <2>1. bind'.acl = bind.acl /\ bind'.size = bind.size /\ bind'.id = bind.id
      BY <1>18 DEF ReleaseBinding, TypeOK, Bindings
    <2>2. /\ pc' = "idle" /\ recorded' = NoBinding
          /\ UNCHANGED <<elb, acl, groups, bindCache, st, hit>> /\ Ended
      BY <1>18 DEF ReleaseBinding, Return, luck
    <2>3. NoBinding.acl = None /\ ~ NoBinding.id
      BY DEF NoBinding
    <2> QED
      BY <1>0, <2>1, <2>2, <2>3
  <1>19. CASE CallFails
    BY <1>0, <1>19 DEF CallFails, Return, NoBinding, TypeOK
  <1>20. CASE SyncBinding
    BY <1>0, <1>20 DEF SyncBinding, TypeOK
  <1>21. CASE AdmissionNext /\ UNCHANGED settingsVars
    <2>1. Ended => Ended'
      BY <1>21 DEF AdmissionNext, Operator, CreateService, UpdateService, EditWish,
         DeleteService, ReleaseService
    <2> QED
      BY <1>0, <1>21, <2>1
  <1>22. CASE UNCHANGED vars
    BY <1>0, <1>22 DEF vars
  <1> QED
    BY <1>1, <1>2, <1>3, <1>4, <1>5, <1>6, <1>7, <1>8, <1>9, <1>10, <1>11, <1>12, <1>13, <1>14, <1>15, <1>16, <1>17, <1>18, <1>19, <1>20, <1>21, <1>22,
       <1>23, <1>24, <1>25, <1>26 DEF Next, ControllerStep

\* At the start nothing is recorded.
LEMMA TracedInit == Init => Traced
  BY DEF Init, Traced, NoBinding

\* As long as no cached binding was late, every step keeps the record traced.
LEMMA TracedNext == TypeOK /\ InOrder /\ Traced /\ [Next]_vars => Traced'
  <1> SUFFICES ASSUME TypeOK, InOrder, Traced, [Next]_vars
               PROVE  Traced'
    OBVIOUS
  <1> USE DEF Traced, Spared, Ended, NoGroup, Live, IsLoadBalancer, Undisturbed,
      admissionVars, cloud, local, luck, settingsVars
  <1>1. CASE StartReconcile
    BY <1>1 DEF StartReconcile, BindingRead, Strikes, ShouldReconcile, InOrder, NoBinding, TypeOK
  <1>2. CASE CreateELB
    BY <1>2 DEF CreateELB, Goto, TypeOK
  <1>3. CASE RecordELB
    BY <1>3, RecordType DEF RecordELB, Goto, TypeOK
  <1>4. CASE RestoreBinding
    BY <1>4, RecordType DEF RestoreBinding, Goto, TypeOK
  <1>23. CASE EnsureBinding
    BY <1>23, RecordType DEF EnsureBinding, Goto, TypeOK
  <1>24. CASE RecordFails
    BY <1>24 DEF RecordFails, Strikes, Goto, TypeOK
  <1>25. CASE RestoreID
    BY <1>25, RecordType DEF RestoreID, BindingRead, Strikes, Return, TypeOK
  <1>26. CASE NodesUnreadable
    BY <1>26 DEF NodesUnreadable, Strikes, Goto, TypeOK
  <1>5. CASE SyncListeners
    BY <1>5 DEF SyncListeners, Goto, EnterACL, TypeOK
  <1>6. CASE UpdateELB
    BY <1>6, RecordType DEF UpdateELB, EnterACL, Return, TypeOK
  <1>7. CASE FindIPGroup
    BY <1>7 DEF FindIPGroup, TypeOK, InOrder
  <1>8. CASE UpdateIPGroup
    BY <1>8 DEF UpdateIPGroup, Goto, Return, TypeOK
  <1>9. CASE CreateIPGroup
    BY <1>9 DEF CreateIPGroup, TypeOK, InOrder, OneGroup
  <1>10. CASE BindACL
    BY <1>10 DEF BindACL, SetACL, Goto, TypeOK
  <1>11. CASE UnbindACL
    BY <1>11 DEF UnbindACL, SetACL, Goto, TypeOK
  <1>12. CASE DeleteIPGroup
    BY <1>12 DEF DeleteIPGroup, TypeOK
  <1>13. CASE PersistSettings
    BY <1>13, RecordType DEF PersistSettings, BindingRead, Strikes, Return, TypeOK, InOrder, OneGroup
  <1>14. CASE StartCleanup
    BY <1>14 DEF StartCleanup, ReclaimGroup, BindingRead, Strikes, Untyped, TypeOK
  <1>15. CASE DeleteELB
    BY <1>15, RecordType DEF DeleteELB, ReclaimGroup, TypeOK
  <1>16. CASE FindLeftGroup
    BY <1>16 DEF FindLeftGroup, TypeOK, InOrder, OneGroup
  <1>17. CASE ReclaimIPGroup
    BY <1>17 DEF ReclaimIPGroup, Goto, Return, TypeOK
  <1>18. CASE ReleaseBinding
    BY <1>18, RecordType DEF ReleaseBinding, Return, TypeOK, InOrder, CleanupCalls
  <1>19. CASE CallFails
    BY <1>19 DEF CallFails, Return, Strikes, TypeOK
  <1>20. CASE SyncBinding
    BY <1>20 DEF SyncBinding, TypeOK
  <1>21. CASE AdmissionNext /\ UNCHANGED settingsVars
    <2>1. CASE CreateService
      BY <1>21, <2>1 DEF CreateService
    <2>2. CASE UpdateService
      BY <1>21, <2>2 DEF UpdateService
    <2>3. CASE EditWish
      BY <1>21, <2>3 DEF EditWish
    <2>4. CASE DeleteService
      BY <1>21, <2>4 DEF DeleteService
    <2>5. CASE ReleaseService
      BY <1>21, <2>5 DEF ReleaseService
    <2> QED
      BY <1>21, <2>1, <2>2, <2>3, <2>4, <2>5 DEF AdmissionNext, Operator
  <1>22. CASE UNCHANGED vars
    BY <1>22 DEF vars
  <1> QED
    BY <1>1, <1>2, <1>3, <1>4, <1>5, <1>6, <1>7, <1>8, <1>9, <1>10, <1>11, <1>12, <1>13, <1>14, <1>15, <1>16, <1>17, <1>18, <1>19, <1>20, <1>21, <1>22,
       <1>23, <1>24, <1>25, <1>26 DEF Next, ControllerStep

\* The three invariants hold together, always.
LEMMA AlwaysTraced == Spec => [](TypeOK /\ InOrder /\ Traced)
  <1>1. Init => TypeOK /\ InOrder /\ Traced
    BY TypeInit, OrderInit, TracedInit
  <1>2. TypeOK /\ InOrder /\ Traced /\ [Next]_vars => (TypeOK /\ InOrder /\ Traced)'
    BY TypeNext, OrderNext, TracedNext
  <1> QED
    BY <1>1, <1>2, PTL DEF Spec

\* ensureACL never makes a second IP group for a Service, whatever fails and whatever
\* cached bindings are late.
THEOREM NeverTwoGroups == Spec => []OneGroup
  <1>1. InOrder => OneGroup
    BY DEF InOrder
  <1> QED
    BY <1>1, AlwaysTraced, PTL

\* A listener never refers to an IP group that has been deleted, whatever fails and
\* whatever is late, as long as no write of the load balancer's id has failed.
THEOREM NoDanglingGroup == Spec => []BoundGroupExists
  <1>1. InOrder => BoundGroupExists
    BY DEF InOrder
  <1> QED
    BY <1>1, AlwaysTraced, PTL

\* A cleanup that can ask the Service releases the binding without leaving a group.
THEOREM ReleasedWithoutGroup == Spec => NoGroupLeftBehind
  <1> DEFINE Clean == /\ bind.fin /\ ~ bind'.fin /\ IsLoadBalancer(read) /\ Spared({"lag"})
                      => NoGroup
  <1>1. TypeOK /\ Traced /\ [Next]_vars => [Clean]_vars
    <2> SUFFICES ASSUME TypeOK, Traced, [Next]_vars, bind.fin, ~ bind'.fin,
                        IsLoadBalancer(read), Spared({"lag"})
                 PROVE  NoGroup
      OBVIOUS
    <2>1. bind' # bind
      OBVIOUS
    <2>2. /\ ~ EnsureBinding /\ ~ RecordELB /\ ~ RestoreBinding /\ ~ RestoreID
          /\ ~ PersistSettings
      BY DEF EnsureBinding, RecordELB, RestoreBinding, RestoreID, PersistSettings, TypeOK,
         Bindings
    <2>3. CASE ReleaseBinding
      BY <2>3 DEF ReleaseBinding, Traced
    <2>4. CASE ControllerStep /\ ~ ReleaseBinding
      BY <2>1, <2>2, <2>4 DEF ControllerStep, StartReconcile, CreateELB, RecordFails,
         SyncListeners, NodesUnreadable,
         UpdateELB, FindIPGroup, UpdateIPGroup, CreateIPGroup, BindACL, UnbindACL, SetACL,
         DeleteIPGroup, StartCleanup, DeleteELB, FindLeftGroup, ReclaimIPGroup, CallFails,
         cloud
    <2>5. CASE SyncBinding \/ (AdmissionNext /\ UNCHANGED settingsVars) \/ UNCHANGED vars
      BY <2>1, <2>5 DEF SyncBinding, settingsVars, vars
    <2> QED
      BY <2>3, <2>4, <2>5 DEF Next
  <1> QED
    BY <1>1, AlwaysTraced, PTL DEF Spec, NoGroupLeftBehind, NoGroup

\* The API server accepts whatever update an operator sends: the webhook gives it the
\* class the Service has.
THEOREM NeverRejected == Spec => []OperatorAccepted
  <1>1. TypeOK => OperatorAccepted
    <2> SUFFICES ASSUME TypeOK, NEW c \in Submitted, IsLoadBalancer(wish)
                 PROVE  HandleUpdate(wish, c, class) = class
      BY DEF OperatorAccepted, Accepts
    <2>1. class = None \/ class = "direct-api"
      BY DEF TypeOK, AdmissionTypeOK
    <2> QED
      BY <2>1, ClassAssumption DEF Submitted, HandleUpdate
  <1> QED
    BY <1>1, TypeCorrect, PTL

\* A Service the controller serves is left alone by the CCM, unless an update has made
\* it a LoadBalancer.
THEOREM ServedByOneUnlessExposed == Spec => BothOnlyByExposing
  <1> DEFINE Exposed == CCMServes' /\ ShouldReconcile' =>
                           \/ CCMServes /\ ShouldReconcile
                           \/ st = "live" /\ ~ IsLoadBalancer(spec)
  <1>1. ASSUME [Next]_vars PROVE [Exposed]_vars
    <2> SUFFICES ASSUME [Next]_vars, CCMServes', ShouldReconcile',
                        ~ (st = "live" /\ ~ IsLoadBalancer(spec))
                 PROVE  CCMServes /\ ShouldReconcile
      BY <1>1
    <2>1. CASE UNCHANGED admissionVars
      BY <2>1 DEF admissionVars, CCMServes, ShouldReconcile
    <2>2. CASE CreateService
      <3>1. IsLoadBalancer(wish) /\ ~ ccm /\ class' = HandleCreate(wish, None)
        BY <2>2 DEF CreateService, CCMServes, ShouldReconcile, Stored
      <3>2. class' = "direct-api"
        BY <3>1 DEF HandleCreate
      <3> QED
        BY <3>2, ClassAssumption DEF CCMServes
    <2>3. CASE UpdateService
      <3>1. IsLoadBalancer(spec) /\ IsLoadBalancer(wish)
        BY <2>3 DEF UpdateService, CCMServes
      <3>2. class' = class
        BY <2>3, <3>1 DEF UpdateService, Accepts, Stored
      <3> QED
        BY <2>3, <3>1, <3>2 DEF UpdateService, CCMServes, ShouldReconcile
    <2>4. CASE EditWish \/ DeleteService \/ ReleaseService
      BY <2>4 DEF EditWish, DeleteService, ReleaseService, CCMServes, ShouldReconcile
    <2>5. CASE ControllerStep
      <3>1. UNCHANGED admissionVars
        BY <2>5 DEF ControllerStep, StartReconcile, CreateELB, EnsureBinding, RecordELB,
           RecordFails, RestoreBinding, RestoreID, SyncListeners, NodesUnreadable, UpdateELB, FindIPGroup, UpdateIPGroup, CreateIPGroup, BindACL,
           UnbindACL, SetACL, DeleteIPGroup, PersistSettings, StartCleanup, DeleteELB,
           FindLeftGroup, ReclaimIPGroup, ReleaseBinding, CallFails, Undisturbed
      <3> QED
        BY <3>1, <2>1
    <2>6. CASE SyncBinding \/ UNCHANGED vars
      BY <2>1, <2>6 DEF SyncBinding, vars, admissionVars
    <2> QED
      BY <2>2, <2>3, <2>4, <2>5, <2>6 DEF Next, AdmissionNext, Operator
  <1> QED
    BY <1>1, PTL DEF Spec, BothOnlyByExposing

(***************************************************************************)
(* What ensureACL has done when it is through: the listeners are those of  *)
(* the ports read, the group in force on them has the ranges read.         *)
(***************************************************************************)
Enforcing ==
    /\ pc \in ACLCalls \cup {"params", "persist"} /\ Spared({"nodes"}) =>
          Listeners = read.ports
    /\ pc = "bind" => Live(group) /\ groups[group].ranges = Valid(read.ranges)
    /\ pc \in {"unbind", "deleteGroup"} => Valid(read.ranges) = {}
    /\ EnforcedWhenRecorded

\* Every step keeps it.
LEMMA EnforcingNext == TypeOK /\ InOrder /\ Enforcing /\ [Next]_vars => Enforcing'
  <1> SUFFICES ASSUME TypeOK, InOrder, Enforcing, [Next]_vars
               PROVE  Enforcing'
    OBVIOUS
  <1>0. Spared({"nodes"})' => Spared({"nodes"})
    BY SparedKept
  <1> USE DEF Enforcing, EnforcedWhenRecorded, Live, Listeners, ACLCalls, Undisturbed,
      cloud, local
  <1>1. CASE StartReconcile
    BY <1>0, <1>1 DEF StartReconcile
  <1>2. CASE CreateELB
    BY <1>2 DEF CreateELB, Goto
  <1>3. CASE RecordELB
    BY <1>3 DEF RecordELB, Goto
  <1>4. CASE RestoreBinding
    BY <1>4 DEF RestoreBinding, Goto
  <1>23. CASE EnsureBinding
    BY <1>23 DEF EnsureBinding, Goto
  <1>24. CASE RecordFails
    BY <1>24 DEF RecordFails, Goto
  <1>25. CASE RestoreID
    BY <1>25 DEF RestoreID, Return
  <1>26. CASE NodesUnreadable
    BY <1>26 DEF NodesUnreadable, Strikes, Spared, Goto
  <1>5. CASE SyncListeners
    <2>1. read.ports \subseteq Ports
      BY DEF TypeOK, Specs
    <2>2. Listeners' = read.ports
      BY <1>5, <2>1, GroupAssumption DEF SyncListeners
    <2> QED
      BY <1>5, <2>2 DEF SyncListeners, Goto, EnterACL
  <1>6. CASE UpdateELB
    BY <1>0, <1>6 DEF UpdateELB, EnterACL, Return
  <1>7. CASE FindIPGroup
    BY <1>0, <1>7 DEF FindIPGroup
  <1>8. CASE UpdateIPGroup
    <2>1. group \in Groups
      BY <1>8 DEF UpdateIPGroup, InOrder, GroupSet
    <2>2. CASE Return
      BY <1>8, <2>2 DEF UpdateIPGroup, Return
    <2>3. CASE Goto("bind")
      <3>1. /\ groups' = [groups EXCEPT ![group].ranges = Valid(read.ranges)]
            /\ Live(group) /\ pc' = "bind" /\ acl' = acl
            /\ UNCHANGED <<read, recorded, group>>
        BY <1>8, <2>3 DEF UpdateIPGroup, Goto, Return
      <3>2. groups'[group].st = "live" /\ groups'[group].ranges = Valid(read.ranges)
        BY <2>1, <3>1 DEF TypeOK
      <3> QED
        BY <1>0, <1>8, <3>1, <3>2 DEF UpdateIPGroup, Valid
    <2> QED
      BY <1>8, <2>2, <2>3 DEF UpdateIPGroup
  <1>9. CASE CreateIPGroup
    BY <1>0, <1>9 DEF CreateIPGroup, TypeOK
  <1>10. CASE BindACL
    BY <1>0, <1>10, GroupAssumption DEF BindACL, SetACL, Goto, TypeOK, InOrder, GroupSet
  <1>11. CASE UnbindACL
    BY <1>0, <1>11, GroupAssumption DEF UnbindACL, SetACL, Goto, TypeOK
  <1>12. CASE DeleteIPGroup
    BY <1>0, <1>12 DEF DeleteIPGroup
  <1>13. CASE PersistSettings
    BY <1>13 DEF PersistSettings, Return
  <1>14. CASE StartCleanup
    BY <1>14 DEF StartCleanup, ReclaimGroup
  <1>15. CASE DeleteELB
    BY <1>15 DEF DeleteELB, ReclaimGroup
  <1>16. CASE FindLeftGroup
    BY <1>16 DEF FindLeftGroup
  <1>17. CASE ReclaimIPGroup
    BY <1>17 DEF ReclaimIPGroup, Goto, Return
  <1>18. CASE ReleaseBinding
    BY <1>18 DEF ReleaseBinding, Return
  <1>19. CASE CallFails
    BY <1>19 DEF CallFails, Return
  <1>20. CASE SyncBinding
    BY <1>0, <1>20 DEF SyncBinding
  <1>21. CASE UNCHANGED <<cloud, local>>
    BY <1>0, <1>21
  <1> QED
    BY <1>1, <1>2, <1>3, <1>4, <1>5, <1>6, <1>7, <1>8, <1>9, <1>10, <1>11, <1>12, <1>13, <1>14, <1>15, <1>16, <1>17, <1>18, <1>19, <1>20, <1>21,
       <1>23, <1>24, <1>25, <1>26
       DEF Next, ControllerStep, settingsVars, vars

\* A reconcile that gets as far as recording what it did has the ranges in force.
THEOREM EnforcedOnRecord == Spec => []EnforcedWhenRecorded
  <1>1. Init => TypeOK /\ InOrder /\ Enforcing
    BY TypeInit, OrderInit DEF Init, Enforcing, EnforcedWhenRecorded, ACLCalls
  <1>2. TypeOK /\ InOrder /\ Enforcing /\ [Next]_vars => (TypeOK /\ InOrder /\ Enforcing)'
    BY TypeNext, OrderNext, EnforcingNext
  <1>3. Enforcing => EnforcedWhenRecorded
    BY DEF Enforcing
  <1> QED
    BY <1>1, <1>2, <1>3, PTL DEF Spec

(***************************************************************************)
(* What the record of the bandwidth is worth.  It is the bandwidth, except *)
(* between UpdateELB and the record of it; a reconcile that has called     *)
(* UpdateELB gets to the record unless it is disturbed, for which the IP   *)
(* group it updates has to be there.                                       *)
(***************************************************************************)
Quiet == Spared({"acl", "record", "lag"})

HasSize(n) == elb = "active" /\ ~ internal /\ n \in 1..MaxSize => bandwidth = n

Applying == recorded.id /\ pc \in ACLCalls \cup {"persist"}

Sized ==
    /\ ~ Applying => HasSize(bind.size)
    /\ Applying => HasSize(read.size)
    /\ recorded.id /\ pc \in SyncCalls => recorded.size = bind.size
    /\ pc \in {"params", "unbind", "deleteGroup"} => recorded.id
    /\ pc \in {"createELB", "ensure", "recordELB"} => ~ recorded.id
    /\ pc \in {"ensure", "recordELB"} => bind.size = 0 /\ HasSize(read.size)

GroupThere ==
    /\ bind.acl # None /\ ~ Live(bind.acl) =>
          Ended \/ (Applying /\ pc = "persist" /\ group = None)
    /\ pc \in SyncCalls \ {"persist"} /\ bind.acl # None => Live(bind.acl)
    /\ pc = "update" => Live(group)

Settled == Quiet => Sized /\ GroupThere

\* Nothing is recorded at the start.
LEMMA SettledInit == Init => Settled
  BY DEF Init, Settled, Sized, GroupThere, Applying, HasSize, NoBinding, ACLCalls

\* A reconcile that stays quiet has read the binding as it is.
LEMMA QuietRead ==
    ASSUME BindingRead, Quiet'
    PROVE  bindCache = bind
  BY DEF BindingRead, Quiet, Spared, Strikes

\* Every step keeps the record and the group of a quiet history in order.
LEMMA SettledNext == TypeOK /\ InOrder /\ Traced /\ Settled /\ [Next]_vars => Settled'
  <1> SUFFICES ASSUME TypeOK, InOrder, Traced, Sized, GroupThere, [Next]_vars, Quiet, Quiet'
               PROVE  Sized' /\ GroupThere'
    BY SparedKept DEF Settled, Quiet
  <1> USE DEF Sized, GroupThere, Applying, HasSize, Live, Ended, Undisturbed, ACLCalls,
      SyncCalls, CleanupCalls, admissionVars, cloud, local
  <1>1. CASE StartReconcile
    BY <1>1, QuietRead DEF StartReconcile, ShouldReconcile, InOrder
  <1>2. CASE CreateELB
    BY <1>2, RecordType, SizeAssumption, BandwidthAssumption DEF CreateELB, CreationSize, Goto, InOrder, NoBinding
  <1>3. CASE RecordELB
    <2>1. bind'.size = read.size /\ bind'.acl = bind.acl
      BY <1>3 DEF RecordELB, TypeOK, Bindings
    <2> QED
      BY <1>3, <2>1 DEF RecordELB, Goto
  <1>4. CASE RestoreBinding
    BY <1>4, RecordType DEF RestoreBinding, Goto, TypeOK
  <1>23. CASE EnsureBinding
    BY <1>23, RecordType DEF EnsureBinding, Goto, TypeOK
  <1>24. CASE RecordFails
    BY <1>24 DEF RecordFails, Goto
  <1>25. CASE RestoreID
    BY <1>25, RecordType DEF RestoreID, Return, NoBinding, TypeOK
  <1>26. CASE NodesUnreadable
    BY <1>26 DEF NodesUnreadable, Goto
  <1>5. CASE SyncListeners
    BY <1>5 DEF SyncListeners, Goto, EnterACL
  <1>6. CASE UpdateELB
    BY <1>6, RecordType, SizeAssumption DEF UpdateELB, NewSize, EnterACL, Return, NoBinding, Traced, Quiet, Spared
  <1>7. CASE FindIPGroup
    BY <1>7 DEF FindIPGroup
  <1>8. CASE UpdateIPGroup
    <2>1. group \in Groups /\ Live(group)
      BY <1>8 DEF UpdateIPGroup, InOrder, GroupSet
    <2>2. \A g \in Groups : groups'[g].st = groups[g].st
      BY <1>8, <2>1 DEF UpdateIPGroup, TypeOK
    <2>3. bind.acl \in Groups \cup {None}
      BY RecordType
    <2> QED
      BY <1>8, <2>1, <2>2, <2>3 DEF UpdateIPGroup, Goto
  <1>9. CASE CreateIPGroup
    BY <1>9 DEF CreateIPGroup, TypeOK
  <1>10. CASE BindACL
    BY <1>10 DEF BindACL, SetACL, Goto
  <1>11. CASE UnbindACL
    BY <1>11 DEF UnbindACL, SetACL, Goto
  <1>12. CASE DeleteIPGroup
    BY <1>12 DEF DeleteIPGroup, TypeOK
  <1>13. CASE PersistSettings
    <2>1. pc = "persist" /\ bindCache = bind /\ pc' = "idle"
      BY <1>13, QuietRead DEF PersistSettings, Return
    <2>2. group # None => Live(group)
      BY <2>1 DEF InOrder
    <2>3. CASE bind.fin
      <3>1. /\ bind'.acl = group
            /\ bind'.size = IF recorded.id THEN read.size ELSE bind.size
        BY <1>13, <2>1, <2>3 DEF PersistSettings, TypeOK, Bindings
      <3> QED
        BY <1>13, <2>1, <2>2, <3>1 DEF PersistSettings
    <2>4. bind.fin
      BY <2>1 DEF InOrder, Syncing
    <2> QED
      BY <2>3, <2>4
  <1>14. CASE StartCleanup
    BY <1>14, QuietRead DEF StartCleanup, ReclaimGroup
  <1>15. CASE DeleteELB
    BY <1>15 DEF DeleteELB, ReclaimGroup
  <1>16. CASE FindLeftGroup
    BY <1>16 DEF FindLeftGroup
  <1>17. CASE ReclaimIPGroup
    BY <1>17 DEF ReclaimIPGroup, Goto, Return, NoBinding, InOrder, CleanupCalls, TypeOK
  <1>18. CASE ReleaseBinding
    BY <1>18, RecordType DEF ReleaseBinding, Return, NoBinding, TypeOK
  <1>19. CASE CallFails
    BY <1>19 DEF CallFails, Return, NoBinding, Strikes, Kind, Quiet, Spared
  <1>20. CASE SyncBinding
    BY <1>20 DEF SyncBinding
  <1>21. CASE AdmissionNext /\ UNCHANGED settingsVars
    <2>1. Ended => Ended'
      BY <1>21 DEF AdmissionNext, Operator, CreateService, UpdateService, EditWish,
         DeleteService, ReleaseService
    <2> QED
      BY <1>21, <2>1 DEF settingsVars
  <1>22. CASE UNCHANGED vars
    BY <1>22 DEF vars
  <1> QED
    BY <1>1, <1>2, <1>3, <1>4, <1>5, <1>6, <1>7, <1>8, <1>9, <1>10, <1>11, <1>12, <1>13, <1>14, <1>15, <1>16, <1>17, <1>18, <1>19, <1>20, <1>21, <1>22,
       <1>23, <1>24, <1>25, <1>26
       DEF Next, ControllerStep

\* Between reconciles the record of the bandwidth is worth what it says.
THEOREM RecordedSize == Spec => []RecordedSizeApplied
  <1>1. Init => TypeOK /\ InOrder /\ Traced /\ Settled
    BY TypeInit, OrderInit, TracedInit, SettledInit
  <1>2. TypeOK /\ InOrder /\ Traced /\ Settled /\ [Next]_vars
           => (TypeOK /\ InOrder /\ Traced /\ Settled)'
    BY TypeNext, OrderNext, TracedNext, SettledNext
  <1>3. Settled => RecordedSizeApplied
    BY DEF Settled, Quiet, Sized, Applying, HasSize, RecordedSizeApplied, ACLCalls
  <1> QED
    BY <1>1, <1>2, <1>3, PTL DEF Spec
=============================================================================
