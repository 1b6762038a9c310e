--------------------------- MODULE ELBStackProofs ---------------------------
(***************************************************************************)
(* Theorems about ELBStack, for any ports, nodes, budgets and fault points.*)
(***************************************************************************)
EXTENDS ELBStack, TLAPS

\* The patterns the actions are made of keep the variables they assign well formed.
LEMMA ReturnType ==
    ASSUME TypeOK, Return
    PROVE  /\ pc' = "idle" /\ fresh' \in BOOLEAN /\ known' \in BOOLEAN
           /\ read' \in [Ports -> NodePorts \cup {None}]
           /\ nodes' \subseteq Nodes /\ cur' \in Ports \cup {None} /\ todo' \subseteq Ports
  BY DEF Return, TypeOK

\* Spending from the budget leaves a budget.
LEMMA SpendType ==
    ASSUME TypeOK, NEW c \in Changes, Spend(c)
    PROVE  budget' \in [Changes -> Nat]
  <1>1. budget[c] \in Nat /\ budget[c] > 0 /\ budget[c] - 1 \in Nat
    BY DEF Spend, TypeOK
  <1> QED
    BY <1>1 DEF Spend, TypeOK

\* Members are targets of a port with a node port.
LEMMA TargetType ==
    ASSUME TypeOK, NEW p \in Ports
    PROVE  Missing(p) \subseteq Ports \X Nodes \X (NodePorts \ {0})
  <1>1. CASE read[p] \in {0, None}
    BY <1>1 DEF Missing, Targets
  <1>2. CASE read[p] \notin {0, None}
    <2>1. read[p] \in NodePorts \ {0}
      BY <1>2 DEF TypeOK
    <2> QED
      BY <2>1 DEF Missing, Targets, TypeOK
  <1> QED
    BY <1>1, <1>2

\* The calls that work on one port have one.
CurSet == pc \in {"createPool", "createCheck"} => cur \in Ports

\* A freshly created load balancer is well formed.
LEMMA TypeInit == Init => TypeOK /\ CurSet
  BY BudgetAssumption DEF Init, TypeOK, CurSet, Calls

\* Every step keeps every variable well formed.
LEMMA TypeNext == TypeOK /\ CurSet /\ [Next]_vars => TypeOK' /\ CurSet'
  <1> SUFFICES ASSUME TypeOK, CurSet, [Next]_vars
               PROVE  TypeOK' /\ CurSet'
    OBVIOUS
  <1> USE DEF World, service, cluster, cloud, stack, local_, CurSet
  <1>1. CASE StartReconcile
    BY <1>1 DEF StartReconcile, TypeOK, Calls
  <1>2. CASE ListNodes
    BY <1>2 DEF ListNodes, TypeOK, Calls, Backends
  <1>3. CASE CreateListener
    BY <1>3 DEF CreateListener, TypeOK, Calls, Goto, Wanted
  <1>4. CASE CreatePool
    BY <1>4 DEF CreatePool, TypeOK, Calls, Goto
  <1>5. CASE CreateHealthCheck
    BY <1>5 DEF CreateHealthCheck, TypeOK, Calls, Goto
  <1>6. CASE StackCreated
    BY <1>6 DEF StackCreated, TypeOK, Calls, Goto
  <1>7. CASE AddMember
    <2>1. cur \in Ports
      BY <1>7 DEF AddMember, TypeOK
    <2>2. members' \subseteq Ports \X Nodes \X (NodePorts \ {0})
      BY <1>7, <2>1, TargetType DEF AddMember, TypeOK
    <2> QED
      BY <1>7, <2>2 DEF AddMember, TypeOK
  <1>8. CASE SyncDeleteListener
    <2>1. listeners' \subseteq Ports /\ pools' \subseteq Ports /\ checks' \subseteq Ports
          /\ members' \subseteq members
      BY <1>8 DEF SyncDeleteListener, TypeOK
    <2>2. CASE Return
      BY <1>8, <2>1, <2>2, ReturnType DEF SyncDeleteListener, TypeOK
    <2>3. CASE UNCHANGED local_
      BY <1>8, <2>1, <2>3 DEF SyncDeleteListener, TypeOK
    <2> QED
      BY <1>8, <2>2, <2>3 DEF SyncDeleteListener
  <1>9. CASE ListenersSynced
    <2>1. CASE Return
      BY <1>9, <2>1, ReturnType DEF ListenersSynced, TypeOK
    <2>2. CASE ~ Return
      BY <1>9, <2>2 DEF ListenersSynced, TypeOK, Goto, Calls
    <2> QED
      BY <2>1, <2>2
  <1>10. CASE ListPools
    BY <1>10 DEF ListPools, TypeOK, Calls, Backends
  <1>11. CASE SyncPool
    BY <1>11 DEF SyncPool, TypeOK, Calls
  <1>12. CASE RemoveMember
    BY <1>12 DEF RemoveMember, TypeOK
  <1>13. CASE PoolSynced
    BY <1>13 DEF PoolSynced, TypeOK, Calls
  <1>14. CASE MembersSynced
    BY <1>14, ReturnType DEF MembersSynced, TypeOK
  <1>15. CASE StartDelete
    BY <1>15 DEF StartDelete, TypeOK, Calls, Goto
  <1>16. CASE ClearPools
    BY <1>16 DEF ClearPools, TypeOK, Calls, Goto
  <1>17. CASE DeleteHealthCheck
    BY <1>17 DEF DeleteHealthCheck, TypeOK
  <1>18. CASE DeleteMember
    BY <1>18 DEF DeleteMember, TypeOK
  <1>19. CASE DeletePool
    BY <1>19 DEF DeletePool, TypeOK, Calls, Goto
  <1>20. CASE DeleteListener
    BY <1>20 DEF DeleteListener, TypeOK
  <1>21. CASE ListenersCleared
    BY <1>21 DEF ListenersCleared, TypeOK, Calls, Goto
  <1>22. CASE ShowELB
    BY <1>22 DEF ShowELB, TypeOK, Calls
  <1>23. CASE DeleteELB
    <2>1. CASE Return
      BY <1>23, <2>1, ReturnType DEF DeleteELB, TypeOK
    <2>2. CASE ~ Return
      BY <1>23, <2>2 DEF DeleteELB, TypeOK, Goto, Calls
    <2> QED
      BY <2>1, <2>2
  <1>24. CASE DeleteEIP
    BY <1>24, ReturnType DEF DeleteEIP, TypeOK
  <1>25. CASE CallFails
    <2>1. budget' \in [Changes -> Nat]
      BY <1>25, SpendType DEF CallFails, Changes
    <2>2. CASE Return
      BY <1>25, <2>1, <2>2, ReturnType DEF CallFails, TypeOK
    <2>3. CASE ~ Return
      BY <1>25, <2>1, <2>3 DEF CallFails, TypeOK, Goto, Calls
    <2> QED
      BY <2>2, <2>3
  <1>26. CASE EditPort
    <2>1. budget' \in [Changes -> Nat]
      BY <1>26, SpendType DEF EditPort, Changes
    <2> QED
      BY <1>26, <2>1 DEF EditPort, TypeOK
  <1>27. CASE NodeChanges
    <2>1. budget' \in [Changes -> Nat]
      BY <1>27, SpendType DEF NodeChanges, Changes
    <2> QED
      BY <1>27, <2>1 DEF NodeChanges, TypeOK
  <1>28. CASE EditPolicy
    <2>1. budget' \in [Changes -> Nat]
      BY <1>28, SpendType DEF EditPolicy, Changes
    <2> QED
      BY <1>28, <2>1 DEF EditPolicy, TypeOK
  <1>29. CASE DeleteService
    BY <1>29 DEF DeleteService, TypeOK
  <1>30. CASE UNCHANGED vars
    BY <1>30 DEF vars, TypeOK
  <1> QED
    BY <1>1, <1>2, <1>3, <1>4, <1>5, <1>6, <1>7, <1>8, <1>9, <1>10, <1>11, <1>12,
       <1>13, <1>14, <1>15, <1>16, <1>17, <1>18, <1>19, <1>20, <1>21, <1>22, <1>23,
       <1>24, <1>25, <1>26, <1>27, <1>28, <1>29, <1>30
       DEF Next, ControllerStep

\* Type correctness of what the reconciler builds on a load balancer.
THEOREM StackType == Spec => []TypeOK
  <1>1. Init => TypeOK /\ CurSet
    BY TypeInit
  <1>2. TypeOK /\ CurSet /\ [Next]_vars => (TypeOK /\ CurSet)'
    BY TypeNext
  <1> QED
    BY <1>1, <1>2, PTL DEF Spec

(***************************************************************************)
(* Why a stable member is never removed.  A reconcile that may still reach *)
(* SyncMembers works on the present node ports of the fixed ports, since   *)
(* nobody edits those; the nodes it compares with were read, not assumed:  *)
(* a list that fails never reaches SyncMembers.  The calls that tear down  *)
(* run only for a Service being deleted.                                   *)
(***************************************************************************)
Syncing == {"listNodes", "listeners", "createPool", "createCheck", "createMembers",
            "pools", "syncMembers"}
Clearing == {"clearPools", "clearPool", "clearListeners", "showELB", "deleteELB", "deleteEIP"}

StableInv ==
    /\ FixedNodes \subseteq ready \cap hosts
    /\ \A p \in FixedPorts : want[p] # None
    /\ pc \in Syncing => \A p \in FixedPorts : read[p] = want[p]
    /\ pc = "syncMembers" => FixedNodes \subseteq nodes
    /\ pc \in Clearing => doomed

\* The invariant holds when the load balancer has just been created.
LEMMA StableInit == Init => StableInv
  BY DEF Init, StableInv, Syncing, Clearing

\* Every step keeps the invariant.
LEMMA StableNext == TypeOK /\ StableInv /\ [Next]_vars => StableInv'
  <1> SUFFICES ASSUME TypeOK, StableInv, [Next]_vars
               PROVE  StableInv'
    OBVIOUS
  <1> USE DEF World, service, cluster, cloud, stack, local_, StableInv, Syncing, Clearing
  <1>1. CASE StartReconcile
    BY <1>1 DEF StartReconcile
  <1>2. CASE ListNodes
    BY <1>2 DEF ListNodes
  <1>3. CASE CreateListener
    BY <1>3 DEF CreateListener, Goto
  <1>4. CASE CreatePool
    BY <1>4 DEF CreatePool, Goto
  <1>5. CASE CreateHealthCheck
    BY <1>5 DEF CreateHealthCheck, Goto
  <1>6. CASE AddMember
    BY <1>6 DEF AddMember
  <1>7. CASE StackCreated
    BY <1>7 DEF StackCreated, Goto
  <1>8. CASE SyncDeleteListener
    BY <1>8 DEF SyncDeleteListener, Return
  <1>9. CASE ListenersSynced
    BY <1>9 DEF ListenersSynced, Goto, Return
  <1>10. CASE ListPools
    <2>1. FixedNodes \subseteq Backends
      BY DEF Backends
    <2> QED
      BY <1>10, <2>1 DEF ListPools
  <1>11. CASE SyncPool
    BY <1>11 DEF SyncPool
  <1>12. CASE RemoveMember
    BY <1>12 DEF RemoveMember
  <1>13. CASE PoolSynced
    BY <1>13 DEF PoolSynced
  <1>14. CASE MembersSynced
    BY <1>14 DEF MembersSynced, Return
  <1>15. CASE StartDelete
    BY <1>15 DEF StartDelete, Goto
  <1>16. CASE ClearPools
    BY <1>16 DEF ClearPools, Goto
  <1>17. CASE DeleteHealthCheck
    BY <1>17 DEF DeleteHealthCheck
  <1>18. CASE DeleteMember
    BY <1>18 DEF DeleteMember
  <1>19. CASE DeletePool
    BY <1>19 DEF DeletePool, Goto
  <1>20. CASE DeleteListener
    BY <1>20 DEF DeleteListener
  <1>21. CASE ListenersCleared
    BY <1>21 DEF ListenersCleared, Goto
  <1>22. CASE ShowELB
    BY <1>22 DEF ShowELB
  <1>23. CASE DeleteELB
    BY <1>23 DEF DeleteELB, Goto, Return
  <1>24. CASE DeleteEIP
    BY <1>24 DEF DeleteEIP, Return
  <1>25. CASE CallFails
    BY <1>25 DEF CallFails, Goto, Return
  <1>26. CASE EditPort
    <2>1. \A q \in FixedPorts : want'[q] = want[q]
      BY <1>26, FixedAssumption DEF EditPort, TypeOK
    <2> QED
      BY <1>26, <2>1 DEF EditPort
  <1>27. CASE NodeChanges
    BY <1>27 DEF NodeChanges
  <1>28. CASE EditPolicy
    BY <1>28 DEF EditPolicy
  <1>29. CASE DeleteService
    BY <1>29 DEF DeleteService
  <1>30. CASE UNCHANGED vars
    BY <1>30 DEF vars
  <1> QED
    BY <1>1, <1>2, <1>3, <1>4, <1>5, <1>6, <1>7, <1>8, <1>9, <1>10, <1>11, <1>12,
       <1>13, <1>14, <1>15, <1>16, <1>17, <1>18, <1>19, <1>20, <1>21, <1>22, <1>23,
       <1>24, <1>25, <1>26, <1>27, <1>28, <1>29, <1>30
       DEF Next, ControllerStep

\* A member of a fixed port and a fixed node is not surplus, and its port not stale.
LEMMA StableTarget ==
    ASSUME TypeOK, StableInv, NEW p \in FixedPorts, NEW n \in FixedNodes,
           <<p, n, want[p]>> \in members
    PROVE  /\ pc = "syncMembers" => <<p, n, want[p]>> \in Targets(p)
           /\ pc = "listeners" => p \notin StalePorts
  <1>1. p \in Ports /\ want[p] \notin {0, None}
    <2>1. want[p] # 0
      BY DEF TypeOK
    <2> QED
      BY <2>1, FixedAssumption DEF StableInv
  <1>2. ASSUME pc = "syncMembers" PROVE <<p, n, want[p]>> \in Targets(p)
    BY <1>1, <1>2 DEF StableInv, Syncing, Targets
  <1>3. ASSUME pc = "listeners" PROVE p \notin StalePorts
    BY <1>1, <1>3 DEF StableInv, Syncing, StalePorts, Wanted
  <1> QED
    BY <1>2, <1>3

\* No step takes such a member away.
LEMMA StableKept ==
    ASSUME TypeOK, StableInv, [Next]_vars, NEW p \in FixedPorts, NEW n \in FixedNodes,
           <<p, n, want[p]>> \in members, ~ doomed
    PROVE  <<p, n, want[p]>> \in members'
  <1> DEFINE t == <<p, n, want[p]>>
  <1>1. CASE AddMember
    BY <1>1 DEF AddMember
  <1>2. CASE RemoveMember
    <2>1. PICK s \in Surplus(cur) : members' = members \ {s}
      BY <1>2 DEF RemoveMember
    <2>2. s[1] = cur /\ s \notin Targets(cur)
      BY <2>1 DEF Surplus, Below
    <2>3. CASE cur = p
      BY <1>2, <2>1, <2>2, <2>3, StableTarget DEF RemoveMember
    <2>4. CASE cur # p
      <3>1. t[1] = p
        OBVIOUS
      <3> QED
        BY <2>1, <2>2, <2>4, <3>1
    <2> QED
      BY <2>3, <2>4
  <1>3. CASE SyncDeleteListener
    <2>1. PICK q \in StalePorts : members' \in {members, members \ Below(q)}
      BY <1>3 DEF SyncDeleteListener, stack
    <2>2. q # p
      BY <1>3, <2>1, StableTarget DEF SyncDeleteListener
    <2>3. t[1] = p
      OBVIOUS
    <2> QED
      BY <2>1, <2>2, <2>3 DEF Below
  <1>4. CASE DeleteMember
    BY <1>4 DEF DeleteMember, StableInv, Clearing
  <1>5. CASE UNCHANGED members
    BY <1>5
  <1> QED
    BY <1>1, <1>2, <1>3, <1>4, <1>5 DEF Next, ControllerStep, StartReconcile, ListNodes,
       CreateListener, CreatePool, CreateHealthCheck, StackCreated, ListenersSynced,
       ListPools, SyncPool, PoolSynced, MembersSynced, StartDelete, ClearPools,
       DeleteHealthCheck, DeletePool, DeleteListener, ListenersCleared, ShowELB,
       DeleteELB, DeleteEIP, CallFails, EditPort, NodeChanges, EditPolicy, DeleteService,
       cloud, stack, vars

\* The pool of a port that nobody edits never loses a node that stays ready, through
\* any failures and whatever happens to other ports and nodes.
THEOREM FixedKept == Spec => FixedMembersKept
  <1> DEFINE Kept == \A p \in FixedPorts, n \in FixedNodes :
                  <<p, n, want[p]>> \in members /\ ~ doomed => <<p, n, want[p]>> \in members'
  <1>1. Init => TypeOK /\ CurSet /\ StableInv
    BY TypeInit, StableInit
  <1>2. TypeOK /\ CurSet /\ StableInv /\ [Next]_vars => (TypeOK /\ CurSet /\ StableInv)'
    BY TypeNext, StableNext
  <1>3. TypeOK /\ StableInv /\ [Next]_vars => [Kept]_vars
    BY StableKept
  <1> QED
    BY <1>1, <1>2, <1>3, PTL DEF Spec, FixedMembersKept

(***************************************************************************)
(* Why the public address goes with its load balancer.  The reconcile that *)
(* deletes the load balancer is the only one that ever knows the address:  *)
(* it must have looked before, and it must finish.                         *)
(***************************************************************************)
AddressHeld ==
    /\ budget["address"] <= Budget["address"]
    /\ Spared("address") =>
          /\ pc = "deleteELB" /\ eip = "bound" => known
          /\ eip = "unbound" => pc = "deleteEIP"

\* What was spent once is spent for good.
LEMMA AddressSpent ==
    ASSUME TypeOK, AddressHeld, [Next]_vars
    PROVE  /\ budget'["address"] <= Budget["address"]
           /\ Spared("address")' => Spared("address")
           /\ CallFails /\ pc \in {"showELB", "deleteEIP"} => ~ Spared("address")'
  <1>1. /\ budget["address"] \in Nat /\ Budget["address"] \in Nat
        /\ budget \in [Changes -> Nat]
    BY BudgetAssumption DEF TypeOK, Changes
  <1>2. ASSUME NEW c \in Changes, Spend(c)
        PROVE  /\ budget'["address"] <= Budget["address"]
               /\ Spared("address")' => Spared("address")
               /\ c = "address" => ~ Spared("address")'
    BY <1>1, <1>2 DEF Spend, AddressHeld, Spared, Changes
  <1>3. CASE UNCHANGED budget
    BY <1>3 DEF AddressHeld, Spared, CallFails, Spend, Changes, TypeOK
  <1>4. CASE CallFails
    BY <1>2, <1>4 DEF CallFails, Changes
  <1>5. CASE EditPort \/ NodeChanges \/ EditPolicy
    BY <1>2, <1>5 DEF EditPort, NodeChanges, EditPolicy, Changes, CallFails, cloud, local_
  <1> QED
    BY <1>3, <1>4, <1>5 DEF Next, ControllerStep, StartReconcile,
       ListNodes, CreateListener, CreatePool, CreateHealthCheck, AddMember, StackCreated,
       SyncDeleteListener, ListenersSynced, ListPools, SyncPool, RemoveMember, PoolSynced,
       MembersSynced, StartDelete, ClearPools, DeleteHealthCheck, DeleteMember, DeletePool,
       DeleteListener, ListenersCleared, ShowELB, DeleteELB, DeleteEIP, DeleteService,
       World, vars

\* Every step keeps it.
LEMMA AddressNext ==
    ASSUME TypeOK, AddressHeld, [Next]_vars
    PROVE  AddressHeld'
  <1> SUFFICES ASSUME Spared("address")'
               PROVE  /\ pc' = "deleteELB" /\ eip' = "bound" => known'
                      /\ eip' = "unbound" => pc' = "deleteEIP"
    BY AddressSpent DEF AddressHeld
  <1>1. /\ pc = "deleteELB" /\ eip = "bound" => known
        /\ eip = "unbound" => pc = "deleteEIP"
        /\ CallFails => pc \notin {"showELB", "deleteEIP"}
    BY AddressSpent DEF AddressHeld
  <1>2. CASE ShowELB
    BY <1>1, <1>2 DEF ShowELB, cloud
  <1>3. CASE DeleteELB
    BY <1>1, <1>3 DEF DeleteELB, Goto, Return
  <1>4. CASE DeleteEIP
    BY <1>4 DEF DeleteEIP, Return
  <1>5. CASE CallFails
    <2>1. eip' = eip /\ pc' \in {"pools", "idle"}
      BY <1>1, <1>5 DEF CallFails, cloud, Goto, Return
    <2> QED
      BY <1>1, <1>5, <2>1
  <1>6. CASE UNCHANGED <<eip, pc, known>>
    BY <1>1, <1>6
  <1>7. CASE /\ eip' = eip /\ pc \notin {"deleteEIP"} /\ pc' # "deleteELB"
    BY <1>1, <1>7
  <1> QED
    BY <1>2, <1>3, <1>4, <1>5, <1>6, <1>7 DEF Next, ControllerStep, StartReconcile,
       ListNodes, CreateListener, CreatePool, CreateHealthCheck, AddMember, StackCreated,
       SyncDeleteListener, ListenersSynced, ListPools, SyncPool, RemoveMember, PoolSynced,
       MembersSynced, StartDelete, ClearPools, DeleteHealthCheck, DeleteMember, DeletePool,
       DeleteListener, ListenersCleared, EditPort, NodeChanges, EditPolicy, DeleteService,
       Goto, Return, cloud, stack, local_, vars

\* A load balancer that is gone has left its public address behind only if the call that
\* looks for it or the one that deletes it failed, or the tear-down stopped between the
\* deletions of the two.
THEOREM AddressReclaimed == Spec => []EIPReclaimed
  <1>1. Init => AddressHeld
    BY BudgetAssumption DEF Init, AddressHeld, Changes
  <1>2. TypeOK /\ AddressHeld /\ [Next]_vars => AddressHeld'
    BY AddressNext
  <1>3. AddressHeld => EIPReclaimed
    BY DEF AddressHeld, EIPReclaimed
  <1> QED
    BY <1>1, <1>2, <1>3, StackType, PTL DEF Spec

(***************************************************************************)
(* Why the resources always form a tree.  A reconcile that builds works on *)
(* a port whose parents it has just created; one that tears down has seen  *)
(* a level empty before it starts on the level above, and nobody builds on *)
(* a load balancer once its Service is being deleted and torn down.        *)
(***************************************************************************)
Closed ==
    /\ pools \subseteq listeners /\ checks \subseteq pools
    /\ \A t \in members : t[1] \in pools
    /\ elb = "gone" => listeners = {}

Parents ==
    /\ pc \in {"idle", "listNodes", "listeners", "pools"} => cur = None
    /\ pc = "createPool" => cur \in listeners
    /\ pc \in {"createCheck", "createMembers", "clearPool"} => cur \in pools
    /\ pc = "syncMembers" => cur \in pools \cup {None} /\ todo \subseteq pools

Emptied ==
    /\ pc \in {"clearListeners", "showELB", "deleteELB"} => pools = {}
    /\ pc \in {"showELB", "deleteELB"} => listeners = {}

InUse ==
    /\ elb = "gone" => doomed
    /\ pc \notin {"idle", "deleteEIP"} => elb = "active"

Ordered == Closed /\ Parents /\ Emptied /\ InUse

\* A load balancer that has just been created has nothing on it.
LEMMA OrderedInit == Init => Ordered
  BY DEF Init, Ordered, Closed, Parents, Emptied, InUse

\* Every step leaves a tree behind, and a reconcile at a place of it that is there.
LEMMA OrderedNext ==
    ASSUME TypeOK, StableInv, Ordered, [Next]_vars
    PROVE  Ordered'
  <1> USE DEF World, service, cluster, cloud, stack, local_, Ordered, Closed, Parents,
      Emptied, InUse
  <1>1. CASE StartReconcile
    BY <1>1 DEF StartReconcile, TypeOK
  <1>2. CASE ListNodes
    BY <1>2 DEF ListNodes
  <1>3. CASE CreateListener
    BY <1>3 DEF CreateListener, Goto
  <1>4. CASE CreatePool
    BY <1>4 DEF CreatePool, Goto
  <1>5. CASE CreateHealthCheck
    BY <1>5 DEF CreateHealthCheck, Goto
  <1>6. CASE AddMember
    <2>1. PICK t \in Missing(cur) : members' = members \cup {t}
      BY <1>6 DEF AddMember
    <2>2. t[1] = cur
      BY <2>1 DEF Missing, Targets
    <2>3. cur \in pools
      BY <1>6 DEF AddMember
    <2> QED
      BY <1>6, <2>1, <2>2, <2>3 DEF AddMember
  <1>7. CASE StackCreated
    BY <1>7 DEF StackCreated, Goto
  <1>8. CASE SyncDeleteListener
    <2>1. elb' = elb /\ doomed' = doomed /\ elb = "active"
          /\ (Return \/ UNCHANGED local_)
      BY <1>8 DEF SyncDeleteListener
    <2>2. pc' \in {"idle", "listeners"} /\ cur' = None
      BY <1>8, <2>1 DEF Return, SyncDeleteListener
    <2>3. Closed'
      BY <1>8, <2>1 DEF SyncDeleteListener, Below
    <2> QED
      BY <2>1, <2>2, <2>3
  <1>9. CASE ListenersSynced
    BY <1>9 DEF ListenersSynced, Goto, Return
  <1>10. CASE ListPools
    <2>1. todo' \subseteq pools
      BY <1>10 DEF ListPools
    <2>2. cur' \in pools \cup {None}
      BY <1>10 DEF ListPools
    <2> QED
      BY <1>10, <2>1, <2>2 DEF ListPools
  <1>11. CASE SyncPool
    BY <1>11 DEF SyncPool
  <1>12. CASE RemoveMember
    BY <1>12 DEF RemoveMember
  <1>13. CASE PoolSynced
    BY <1>13 DEF PoolSynced
  <1>14. CASE MembersSynced
    BY <1>14 DEF MembersSynced, Return
  <1>15. CASE StartDelete
    BY <1>15 DEF StartDelete, Goto
  <1>16. CASE ClearPools
    BY <1>16 DEF ClearPools, Goto
  <1>17. CASE DeleteHealthCheck
    BY <1>17 DEF DeleteHealthCheck
  <1>18. CASE DeleteMember
    BY <1>18 DEF DeleteMember
  <1>19. CASE DeletePool
    BY <1>19 DEF DeletePool, Goto, Below
  <1>20. CASE DeleteListener
    BY <1>20 DEF DeleteListener
  <1>21. CASE ListenersCleared
    BY <1>21 DEF ListenersCleared, Goto
  <1>22. CASE ShowELB
    BY <1>22 DEF ShowELB
  <1>23. CASE DeleteELB
    BY <1>23 DEF DeleteELB, Goto, Return, StableInv, Clearing
  <1>24. CASE DeleteEIP
    BY <1>24 DEF DeleteEIP, Return
  <1>25. CASE CallFails
    BY <1>25 DEF CallFails, Goto, Return
  <1>26. CASE EditPort
    BY <1>26 DEF EditPort
  <1>27. CASE NodeChanges
    BY <1>27 DEF NodeChanges
  <1>28. CASE EditPolicy
    BY <1>28 DEF EditPolicy
  <1>29. CASE DeleteService
    BY <1>29 DEF DeleteService
  <1>30. CASE UNCHANGED vars
    BY <1>30 DEF vars
  <1> QED
    BY <1>1, <1>2, <1>3, <1>4, <1>5, <1>6, <1>7, <1>8, <1>9, <1>10, <1>11, <1>12,
       <1>13, <1>14, <1>15, <1>16, <1>17, <1>18, <1>19, <1>20, <1>21, <1>22, <1>23,
       <1>24, <1>25, <1>26, <1>27, <1>28, <1>29, <1>30
       DEF Next, ControllerStep

\* What exists on the load balancer, kind by kind.
LEMMA ExistKinds ==
    /\ TheELB \in Exist <=> elb = "active"
    /\ \A p : <<"listener", p>> \in Exist <=> p \in listeners
    /\ \A p : <<"pool", p>> \in Exist <=> p \in pools
    /\ \A p : <<"check", p>> \in Exist <=> p \in checks
    /\ \A t : <<"member", t>> \in Exist <=> t \in members
    /\ \A x \in Exist :
          \/ x = TheELB
          \/ \E p \in listeners : x = <<"listener", p>>
          \/ \E p \in pools : x = <<"pool", p>>
          \/ \E p \in checks : x = <<"check", p>>
          \/ \E t \in members : x = <<"member", t>>
  BY DEF Exist, TheELB

\* What each kind hangs below.
LEMMA AboveKinds ==
    /\ Above(TheELB) = {}
    /\ \A p : /\ Above(<<"listener", p>>) = {TheELB}
              /\ Above(<<"pool", p>>) = {TheELB, <<"listener", p>>}
              /\ Above(<<"check", p>>) = {TheELB, <<"listener", p>>, <<"pool", p>>}
    /\ \A t : Above(<<"member", t>>) = {TheELB, <<"listener", t[1]>>, <<"pool", t[1]>>}
  <1>1. TheELB[1] = "elb"
    BY DEF TheELB
  <1> QED
    BY <1>1 DEF Above

\* A resource that comes below what is there is a step of the tree.
LEMMA Created ==
    ASSUME NEW x, x \notin Exist, Above(x) \subseteq Exist,
           Exist' = Exist \cup {x}, cascade' = cascade
    PROVE  Tree!Next
  <1>1. x \in Exist' \ Exist
    OBVIOUS
  <1> QED
    BY <1>1 DEF Tree!Next, Tree!Create

\* So is one that goes with all that hangs below it, where that is allowed.
LEMMA Deleted ==
    ASSUME NEW x, x \in Exist,
           (\A y \in Exist : x \notin Above(y)) \/ (cascade /\ x # TheELB),
           Exist' = Exist \ ({x} \cup {y \in Exist : x \in Above(y)}), cascade' = cascade
    PROVE  Tree!Next
  <1>1. x \in Exist \ Exist'
    OBVIOUS
  <1> QED
    BY <1>1 DEF Tree!Next, Tree!Delete, Tree!Below

\* Every step of the reconciler is a step of the tree, or none.
LEMMA TreeStep ==
    ASSUME TypeOK, Ordered, [Next]_vars
    PROVE  [Tree!Next]_Tree!vars
  <1> USE DEF World, service, cluster, cloud, stack, local_
  <1>1. ASSUME UNCHANGED cloud PROVE UNCHANGED Tree!vars
    BY <1>1 DEF Exist, Tree!vars
  <1>2. CASE CreateListener
    <2>1. PICK p \in Wanted(read) \ listeners : listeners' = listeners \cup {p}
      BY <1>2 DEF CreateListener
    <2>2. Exist' = Exist \cup {<<"listener", p>>} /\ cascade' = cascade
      BY <1>2, <2>1 DEF CreateListener, Exist
    <2>3. elb = "active"
      BY <1>2 DEF CreateListener, Ordered, InUse
    <2>4. <<"listener", p>> \notin Exist /\ TheELB \in Exist
      BY <2>1, <2>3, ExistKinds
    <2> QED
      BY <2>2, <2>4, AboveKinds, Created
  <1>3. CASE CreatePool
    <2>1. Exist' = Exist \cup {<<"pool", cur>>} /\ cascade' = cascade
      BY <1>3 DEF CreatePool, Exist
    <2>2. elb = "active" /\ cur \in listeners
      BY <1>3 DEF CreatePool, Ordered, InUse, Parents
    <2>3. TheELB \in Exist /\ <<"listener", cur>> \in Exist
      BY <2>2, ExistKinds
    <2>4. CASE cur \in pools
      BY <2>1, <2>4, ExistKinds DEF Tree!vars
    <2>5. CASE cur \notin pools
      <3>1. <<"pool", cur>> \notin Exist
        BY <2>5, ExistKinds
      <3>2. Above(<<"pool", cur>>) \subseteq Exist
        BY <2>3, AboveKinds
      <3> QED
        BY <2>1, <3>1, <3>2, Created
    <2> QED
      BY <2>4, <2>5
  <1>4. CASE CreateHealthCheck
    <2>1. Exist' = Exist \cup {<<"check", cur>>} /\ cascade' = cascade
      BY <1>4 DEF CreateHealthCheck, Exist
    <2>2. elb = "active" /\ cur \in pools /\ cur \in listeners
      BY <1>4 DEF CreateHealthCheck, Ordered, InUse, Parents, Closed
    <2>3. TheELB \in Exist /\ <<"listener", cur>> \in Exist /\ <<"pool", cur>> \in Exist
      BY <2>2, ExistKinds
    <2>4. CASE cur \in checks
      BY <2>1, <2>4, ExistKinds DEF Tree!vars
    <2>5. CASE cur \notin checks
      <3>1. <<"check", cur>> \notin Exist
        BY <2>5, ExistKinds
      <3>2. Above(<<"check", cur>>) \subseteq Exist
        BY <2>3, AboveKinds
      <3> QED
        BY <2>1, <3>1, <3>2, Created
    <2> QED
      BY <2>4, <2>5
  <1>5. CASE AddMember
    <2>1. PICK t \in Missing(cur) : members' = members \cup {t}
      BY <1>5 DEF AddMember
    <2>2. Exist' = Exist \cup {<<"member", t>>} /\ cascade' = cascade
      BY <1>5, <2>1 DEF AddMember, Exist
    <2>3. t[1] = cur /\ t \notin members
      BY <2>1 DEF Missing, Targets, Below
    <2>4. elb = "active" /\ cur \in pools /\ cur \in listeners
      BY <1>5 DEF AddMember, Ordered, InUse, Parents, Closed
    <2>5. TheELB \in Exist /\ <<"listener", t[1]>> \in Exist /\ <<"pool", t[1]>> \in Exist
      BY <2>3, <2>4, ExistKinds
    <2>6. <<"member", t>> \notin Exist
      BY <2>3, ExistKinds
    <2>7. Above(<<"member", t>>) \subseteq Exist
      BY <2>5, AboveKinds
    <2> QED
      BY <2>2, <2>6, <2>7, Created
  <1>6. CASE SyncDeleteListener
    <2>1. CASE UNCHANGED stack
      BY <1>1, <1>6, <2>1 DEF SyncDeleteListener
    <2>2. CASE ~ UNCHANGED stack
      <3>1. PICK p \in StalePorts :
               /\ cascade \/ p \notin pools
               /\ listeners' = listeners \ {p} /\ pools' = pools \ {p}
               /\ checks' = checks \ {p} /\ members' = members \ Below(p)
        BY <1>6, <2>2 DEF SyncDeleteListener
      <3>2. elb' = elb /\ cascade' = cascade /\ p \in listeners
        BY <1>6, <3>1 DEF SyncDeleteListener, StalePorts
      <3> DEFINE x == <<"listener", p>>
      <3>3. \A y \in Exist : x \in Above(y) <=>
               y = <<"pool", p>> \/ y = <<"check", p>> \/ \E t \in Below(p) : y = <<"member", t>>
        BY ExistKinds, AboveKinds DEF Below, TheELB
      <3>4. Exist' = Exist \ ({x} \cup {y \in Exist : x \in Above(y)})
        BY <3>1, <3>2, <3>3 DEF Exist, Below, TheELB
      <3>5. x \in Exist /\ x # TheELB
        BY <3>2, ExistKinds DEF TheELB
      <3>6. p \notin pools => \A y \in Exist : x \notin Above(y)
        BY <3>3, ExistKinds DEF Ordered, Closed, Below
      <3> QED
        BY <3>1, <3>2, <3>4, <3>5, <3>6, Deleted
    <2> QED
      BY <2>1, <2>2
  <1>7. CASE RemoveMember \/ DeleteMember
    <2>1. PICK t \in Below(cur) : members' = members \ {t}
      BY <1>7 DEF RemoveMember, DeleteMember, Surplus
    <2>2. Exist' = Exist \ {<<"member", t>>} /\ cascade' = cascade
      BY <1>7, <2>1 DEF RemoveMember, DeleteMember, Exist, TheELB
    <2>3. <<"member", t>> \in Exist /\ \A y \in Exist : <<"member", t>> \notin Above(y)
      BY <2>1, ExistKinds, AboveKinds DEF Below, TheELB
    <2> QED
      BY <2>2, <2>3, Deleted
  <1>8. CASE DeleteHealthCheck
    <2>1. Exist' = Exist \ {<<"check", cur>>} /\ cascade' = cascade
      BY <1>8 DEF DeleteHealthCheck, Exist, TheELB
    <2>2. <<"check", cur>> \in Exist /\ \A y \in Exist : <<"check", cur>> \notin Above(y)
      BY <1>8, ExistKinds, AboveKinds DEF DeleteHealthCheck, TheELB
    <2> QED
      BY <2>1, <2>2, Deleted
  <1>9. CASE DeletePool
    <2>1. Exist' = Exist \ {<<"pool", cur>>} /\ cascade' = cascade
      BY <1>9 DEF DeletePool, Exist, TheELB
    <2>2. cur \in pools
      BY <1>9 DEF DeletePool, Ordered, Parents
    <2>3. <<"pool", cur>> \in Exist /\ \A y \in Exist : <<"pool", cur>> \notin Above(y)
      BY <1>9, <2>2, ExistKinds, AboveKinds DEF DeletePool, Below, TheELB
    <2> QED
      BY <2>1, <2>3, Deleted
  <1>10. CASE DeleteListener
    <2>1. PICK p \in listeners : listeners' = listeners \ {p}
      BY <1>10 DEF DeleteListener
    <2>2. Exist' = Exist \ {<<"listener", p>>} /\ cascade' = cascade
      BY <1>10, <2>1 DEF DeleteListener, Exist, TheELB
    <2>3. pools = {} /\ checks = {} /\ members = {}
      BY <1>10 DEF DeleteListener, Ordered, Emptied, Closed
    <2>4. <<"listener", p>> \in Exist /\ \A y \in Exist : <<"listener", p>> \notin Above(y)
      BY <2>1, <2>3, ExistKinds, AboveKinds DEF TheELB
    <2> QED
      BY <2>2, <2>4, Deleted
  <1>11. CASE DeleteELB
    <2>1. elb = "active" /\ listeners = {} /\ pools = {} /\ checks = {} /\ members = {}
      BY <1>11 DEF DeleteELB, Ordered, Emptied, Closed, InUse
    <2>2. Exist' = Exist \ {TheELB} /\ cascade' = cascade
      BY <1>11, <2>1 DEF DeleteELB, Exist
    <2>3. TheELB \in Exist /\ \A y \in Exist : TheELB \notin Above(y)
      BY <2>1, ExistKinds, AboveKinds
    <2> QED
      BY <2>2, <2>3, Deleted
  <1>12. CASE DeleteEIP
    BY <1>12 DEF DeleteEIP, Exist, Tree!vars
  <1> QED
    BY <1>1, <1>2, <1>3, <1>4, <1>5, <1>6, <1>7, <1>8, <1>9, <1>10, <1>11, <1>12
       DEF Next, ControllerStep, StartReconcile, ListNodes, StackCreated, ListenersSynced,
       ListPools, SyncPool, PoolSynced, MembersSynced, StartDelete, ClearPools,
       ListenersCleared, ShowELB, CallFails, EditPort, NodeChanges, EditPolicy,
       DeleteService, vars

\* The reconciler keeps to the tree: what it does on a load balancer implements
\* ResourceTree, through any failures and any edits meanwhile.
THEOREM OrderRefinement == Spec => OrderKept
  <1>1. Init => Tree!Init
    BY DEF Init, Tree!Init, Exist, TheELB
  <1>2. Init => TypeOK /\ CurSet /\ StableInv /\ Ordered
    BY TypeInit, StableInit, OrderedInit
  <1>3. TypeOK /\ CurSet /\ StableInv /\ Ordered /\ [Next]_vars
           => (TypeOK /\ CurSet /\ StableInv /\ Ordered)'
    BY TypeNext, StableNext, OrderedNext
  <1>4. TypeOK /\ Ordered /\ [Next]_vars => [Tree!Next]_Tree!vars
    BY TreeStep
  <1> QED
    BY <1>1, <1>2, <1>3, <1>4, PTL DEF Spec, OrderKept, Tree!Spec

(***************************************************************************)
(* What a synchronisation that comes to its end has done.  A pool is still *)
(* to do, or worked on, or as it should be: nobody else touches it.        *)
(***************************************************************************)
Progress ==
    pc = "syncMembers" =>
        /\ \A p \in todo \cup ({cur} \ {None}) : read[p] \notin {0, None}
        /\ \A p \in pools : read[p] \notin {0, None} =>
               p \in todo \/ p = cur \/ Below(p) = Targets(p)

\* Every step keeps it.
LEMMA ProgressNext ==
    ASSUME TypeOK, Progress, Ordered, [Next]_vars
    PROVE  Progress'
  <1> USE DEF Progress, World, service, cluster, cloud, stack, local_
  <1>1. CASE ListPools
    <2>1. cur' = None
      BY <1>1 DEF ListPools, Ordered, Parents
    <2> QED
      BY <1>1, <2>1 DEF ListPools
  <1>2. CASE SyncPool
    <2>1. \A p \in pools : p # cur
      BY <1>2, PortAssumption DEF SyncPool, TypeOK
    <2>2. \A p : Below(p)' = Below(p) /\ Targets(p)' = Targets(p)
      BY <1>2 DEF SyncPool, Below, Targets
    <2> QED
      BY <1>2, <2>1, <2>2 DEF SyncPool
  <1>3. CASE AddMember \/ RemoveMember
    <2> SUFFICES ASSUME pc = "syncMembers", NEW p \in pools, p # cur
                 PROVE  Below(p)' = Below(p) /\ Targets(p)' = Targets(p)
      BY <1>3 DEF AddMember, RemoveMember
    <2>1. PICK t : t[1] = cur /\ members' \in {members \cup {t}, members \ {t}}
      BY <1>3 DEF AddMember, RemoveMember, Missing, Surplus, Targets, Below
    <2>2. Below(p)' = Below(p)
      BY <2>1 DEF Below
    <2>3. Targets(p)' = Targets(p)
      BY <1>3 DEF AddMember, RemoveMember, Targets
    <2> QED
      BY <2>2, <2>3
  <1>4. CASE PoolSynced
    BY <1>4 DEF PoolSynced, Below, Targets
  <1>5. CASE pc' # "syncMembers"
    BY <1>5
  <1>6. CASE UNCHANGED <<pc, pools, members, read, nodes, todo, cur>>
    BY <1>6 DEF Below, Targets
  <1> QED
    BY <1>1, <1>2, <1>3, <1>4, <1>5, <1>6 DEF Next, ControllerStep, StartReconcile,
       ListNodes, CreateListener, CreatePool, CreateHealthCheck, StackCreated,
       SyncDeleteListener, ListenersSynced, MembersSynced, StartDelete, ClearPools,
       DeleteHealthCheck, DeleteMember, DeletePool, DeleteListener, ListenersCleared,
       ShowELB, DeleteELB, DeleteEIP, CallFails, EditPort, NodeChanges, EditPolicy,
       DeleteService, Goto, Return, vars

Steady == TypeOK /\ CurSet /\ StableInv /\ Ordered /\ Progress

\* It all holds when the load balancer has just been created,
LEMMA SteadyInit == Init => Steady
  BY TypeInit, StableInit, OrderedInit DEF Init, Steady, Progress

\* and every step keeps it.
LEMMA SteadyNext == Steady /\ [Next]_vars => Steady'
  BY TypeNext, StableNext, OrderedNext, ProgressNext DEF Steady

\* A synchronisation that ends has brought every pool in line with what it read.
THEOREM SyncExact == Spec => []SyncedExactly
  <1>1. Init => Steady
    BY SteadyInit
  <1>2. Steady /\ [Next]_vars => Steady'
    BY SteadyNext
  <1>3. Steady => SyncedExactly
    BY PortAssumption DEF Steady, Progress, SyncedExactly, Targets, TypeOK
  <1> QED
    BY <1>1, <1>2, <1>3, PTL DEF Spec

\* Nothing is done to a load balancer that is complete.
LEMMA LeftAlone ==
    ASSUME Steady, [Next]_vars, Complete, Current, ~ doomed
    PROVE  UNCHANGED stack
  <1> USE DEF Steady, cloud, stack
  <1>1. pc \notin Clearing
    BY DEF StableInv
  <1>2. listeners = Wanted(read) /\ pools = listeners /\ checks = listeners
    BY DEF Complete, Current
  <1>3. ASSUME pc \in {"createMembers", "syncMembers"}, cur # None
        PROVE  Missing(cur) = {} /\ (pc = "syncMembers" => Surplus(cur) = {})
    <2>1. cur \in pools /\ cur \in Ports /\ read[cur] # None
      BY <1>2, <1>3 DEF Ordered, Parents, Wanted
    <2>2. CASE read[cur] = 0
      BY <1>3, <2>2 DEF Progress, Missing, Targets
    <2>3. CASE read[cur] # 0
      <3>1. Below(cur) = Targets(cur)
        BY <1>3, <2>1, <2>3 DEF Complete, Current, Wanted, Targets
      <3> QED
        BY <3>1 DEF Missing, Surplus
    <2> QED
      BY <2>2, <2>3
  <1>4. CASE CreateListener
    BY <1>2, <1>4 DEF CreateListener
  <1>5. CASE CreatePool
    BY <1>2, <1>5 DEF CreatePool, Ordered, Parents
  <1>6. CASE CreateHealthCheck
    BY <1>2, <1>6 DEF CreateHealthCheck, Ordered, Parents
  <1>7. CASE AddMember \/ RemoveMember
    BY <1>3, <1>7 DEF AddMember, RemoveMember
  <1>8. CASE SyncDeleteListener
    BY <1>2, <1>8 DEF SyncDeleteListener, StalePorts
  <1>9. CASE UNCHANGED stack
    BY <1>9
  <1> QED
    BY <1>1, <1>4, <1>5, <1>6, <1>7, <1>8, <1>9 DEF Next, ControllerStep, Clearing,
       StartReconcile, ListNodes, StackCreated, ListenersSynced, ListPools, SyncPool,
       PoolSynced, MembersSynced, StartDelete, ClearPools, DeleteHealthCheck, DeleteMember,
       DeletePool, DeleteListener, ListenersCleared, ShowELB, DeleteELB, DeleteEIP,
       CallFails, EditPort, NodeChanges, EditPolicy, DeleteService, vars

\* A reconcile that finds everything as it should be changes nothing.
THEOREM NothingRedone == Spec => CompleteLeftAlone
  <1>1. Init => Steady
    BY SteadyInit
  <1>2. Steady /\ [Next]_vars => Steady'
    BY SteadyNext
  <1>3. Steady /\ [Next]_vars
           => [~ doomed /\ Current /\ Complete => UNCHANGED stack]_vars
    BY LeftAlone
  <1> QED
    BY <1>1, <1>2, <1>3, PTL DEF Spec, CompleteLeftAlone
=============================================================================
