------------------------------ MODULE ELBStack ------------------------------
(***************************************************************************)
(* What the reconciler builds on one load balancer: for every port of the  *)
(* Service a listener, its pool, the pool's health check and one member    *)
(* per backend node; how it keeps them in line with the Service and the    *)
(* nodes, and how it takes everything down again.                          *)
(*                                                                         *)
(* Every cloud call is a step.  The workqueue runs one reconcile of a      *)
(* Service at a time, so nobody else writes to the load balancer: a list   *)
(* call returns the state of the cloud and what is done with it is decided *)
(* against that state.  The Service and the nodes change at any time; a    *)
(* reconcile works on the copies it read.  A call whose answer is lost     *)
(* leaves the same state as the failure of the call after it, and so does  *)
(* a crash.                                                                *)
(***************************************************************************)
EXTENDS Naturals, FiniteSets

CONSTANTS
    Ports,         \* ports a Service may have
    Nodes,         \* nodes of the cluster
    NodePorts,     \* node ports; 0: none allocated
    None,          \* the Service does not have the port
    FixedPorts,    \* ports that nobody ever edits
    FixedNodes,    \* nodes that stay ready and host an endpoint throughout
    FaultPoints,   \* the calls that may fail in this instance
    Budget         \* how many of each change and how many faults there may be

\* Failures of the calls that find and delete the public address are counted apart.
Changes == {"fault", "address", "ports", "backends"}
Calls == {"listNodes", "listeners", "createPool", "createCheck", "createMembers",
          "pools", "syncMembers", "clearPools", "clearPool", "clearListeners", "showELB",
          "deleteELB", "deleteEIP"}

ASSUME PortAssumption == NodePorts \subseteq Nat /\ None \notin NodePorts \cup Ports
ASSUME FixedAssumption == FixedPorts \subseteq Ports /\ FixedNodes \subseteq Nodes
ASSUME FaultAssumption == FaultPoints \subseteq Calls
ASSUME BudgetAssumption == Budget \in [Changes -> Nat]

VARIABLES
    want,       \* spec.ports: port -> node port, None for a port it does not have
    ready,      \* the nodes that are Ready
    hosts,      \* the nodes in the Endpoints of the Service
    local,      \* externalTrafficPolicy is Local
    doomed,     \* the Service is being deleted
    elb, eip,   \* the load balancer and its public address
    listeners, pools, checks,   \* the ports that have one
    members,    \* <<port, node, node port>>
    cascade,    \* the cloud deletes what hangs below a listener or a pool with it
    pc,         \* the next call, "idle" between reconciles
    fresh,      \* reconcileCreate has not run yet
    read,       \* the reconcile's copy of want
    nodes,      \* the backends it read
    cur,        \* the port it works on
    todo,       \* the pools it has still to synchronise
    known,      \* it knows the load balancer's EIP
    budget

service == <<want, local, doomed>>
cluster == <<ready, hosts>>
stack   == <<listeners, pools, checks, members>>
cloud   == <<elb, eip, cascade, stack>>
local_  == <<pc, fresh, read, nodes, cur, todo, known>>
vars == <<want, ready, hosts, local, doomed, elb, eip, listeners, pools, checks, members,
          cascade, pc, fresh, read, nodes, cur, todo, known, budget>>

Wanted(w) == {p \in Ports : w[p] # None}

\* getNodeBackends.
Backends == IF local THEN ready \cap hosts ELSE ready

Below(p) == {t \in members : t[1] = p}

\* Mutant: memberKey leaves the node port out.
TargetsByAddress(p) ==
    IF read[p] \in {0, None} THEN {}
    ELSE {t \in Below(p) : t[2] \in nodes}
           \cup {<<p, n, read[p]>> : n \in {x \in nodes : \A t \in Below(p) : t[2] # x}}

\* Mutant: nobody asks whether the port has a node port.
TargetsUnchecked(p) == {<<p, n, read[p]>> : n \in nodes}

\* The members the pool of a port should have; no member without a node port.
Targets(p) == IF read[p] \in {0, None} THEN {} ELSE {<<p, n, read[p]>> : n \in nodes}

\* Mutant: the members are replaced, not compared.
EveryMember(p) == Below(p)

Surplus(p) == Below(p) \ Targets(p)
Missing(p) == Targets(p) \ Below(p)

TypeOK ==
    /\ want \in [Ports -> NodePorts \cup {None}]
    /\ ready \subseteq Nodes /\ hosts \subseteq Nodes
    /\ local \in BOOLEAN /\ doomed \in BOOLEAN
    /\ elb \in {"active", "gone"} /\ eip \in {"none", "bound", "unbound", "deleted"}
    /\ listeners \subseteq Ports /\ pools \subseteq Ports /\ checks \subseteq Ports
    /\ members \subseteq Ports \X Nodes \X (NodePorts \ {0})
    /\ cascade \in BOOLEAN
    /\ pc \in Calls \cup {"idle"} /\ fresh \in BOOLEAN
    /\ read \in [Ports -> NodePorts \cup {None}]
    /\ nodes \subseteq Nodes /\ cur \in Ports \cup {None} /\ todo \subseteq Ports
    /\ known \in BOOLEAN
    /\ budget \in [Changes -> Nat]

\* The load balancer has just been created; nothing is on it yet.
Init ==
    /\ want \in [Ports -> NodePorts \cup {None}]
    /\ \A p \in FixedPorts : want[p] # None
    /\ ready \in SUBSET Nodes /\ hosts \in SUBSET Nodes
    /\ FixedNodes \subseteq ready \cap hosts
    /\ local \in BOOLEAN /\ doomed = FALSE
    /\ elb = "active" /\ eip \in {"none", "bound"}
    /\ listeners = {} /\ pools = {} /\ checks = {} /\ members = {}
    /\ cascade \in BOOLEAN
    /\ pc = "idle" /\ fresh = TRUE
    /\ read = [p \in Ports |-> None] /\ nodes = {} /\ cur = None /\ todo = {}
    /\ known = FALSE
    /\ budget = Budget

\* Nothing of this kind has happened.
Spared(c) == budget[c] = Budget[c]

Spend(c) == budget[c] > 0 /\ budget' = [budget EXCEPT ![c] = @ - 1]

\* Between reconciles nothing is remembered.
Return ==
    /\ pc' = "idle" /\ fresh' = FALSE
    /\ read' = [p \in Ports |-> None] /\ nodes' = {} /\ cur' = None /\ todo' = {}
    /\ known' = FALSE

Goto(c) == pc' = c /\ UNCHANGED <<fresh, read, nodes, todo, known>>

World == UNCHANGED <<service, cluster, budget>>

(***************************************************************************)
(* The first reconcile is reconcileCreate, every later one reconcileUpdate;*)
(* another one always follows, at the latest after serviceRequeue.         *)
(***************************************************************************)
StartReconcile ==
    /\ pc = "idle" /\ ~ doomed
    /\ pc' = "listNodes" /\ read' = want
    /\ UNCHANGED <<cloud, fresh, nodes, cur, todo, known>> /\ World

ListNodes ==
    /\ pc = "listNodes"
    /\ pc' = "listeners" /\ nodes' = Backends
    /\ UNCHANGED <<cloud, fresh, read, cur, todo, known>> /\ World

(***************************************************************************)
(* createListenerStack, for every port that has no listener.               *)
(***************************************************************************)
CreateListener ==
    /\ pc = "listeners"
    /\ \E p \in Wanted(read) \ listeners : listeners' = listeners \cup {p} /\ cur' = p
    /\ Goto("createPool")
    /\ UNCHANGED <<elb, eip, cascade, pools, checks, members>> /\ World

CreatePool ==
    /\ pc = "createPool"
    /\ pools' = pools \cup {cur}
    /\ Goto("createCheck") /\ UNCHANGED cur
    /\ UNCHANGED <<elb, eip, cascade, listeners, checks, members>> /\ World

CreateHealthCheck ==
    /\ pc = "createCheck"
    /\ checks' = checks \cup {cur}
    /\ Goto("createMembers") /\ UNCHANGED cur
    /\ UNCHANGED <<elb, eip, cascade, listeners, pools, members>> /\ World

\* AddMember, from createListenerStack or from SyncMembers.
AddMember ==
    /\ pc \in {"createMembers", "syncMembers"} /\ cur # None /\ Surplus(cur) = {}
    /\ \E t \in Missing(cur) : members' = members \cup {t}
    /\ UNCHANGED <<elb, eip, cascade, listeners, pools, checks, local_>> /\ World

StackCreated ==
    /\ pc = "createMembers" /\ Missing(cur) = {}
    /\ Goto("listeners") /\ cur' = None
    /\ UNCHANGED cloud /\ World

(***************************************************************************)
(* syncListenerStacks then removes the listeners of ports that are gone:   *)
(* one DeleteListener each, pool and all.  A cloud that does not cascade   *)
(* refuses.                                                                *)
(***************************************************************************)
StalePorts == IF fresh THEN {} ELSE listeners \ Wanted(read)

SyncDeleteListener ==
    /\ pc = "listeners" /\ Wanted(read) \subseteq listeners
    /\ \E p \in StalePorts :
          \/ /\ cascade \/ p \notin pools
             /\ listeners' = listeners \ {p} /\ pools' = pools \ {p}
             /\ checks' = checks \ {p} /\ members' = members \ Below(p)
             /\ UNCHANGED local_
          \/ /\ ~ cascade /\ p \in pools
             /\ Return /\ UNCHANGED stack
    /\ UNCHANGED <<elb, eip, cascade>> /\ World

ListenersSynced ==
    /\ pc = "listeners" /\ Wanted(read) \subseteq listeners /\ StalePorts = {}
    /\ IF fresh THEN Return ELSE Goto("pools") /\ UNCHANGED cur
    /\ UNCHANGED cloud /\ World

(***************************************************************************)
(* syncAllPoolMembers: the nodes are read again, then SyncMembers for each *)
(* pool whose port has a node port; first it removes, then it adds.        *)
(***************************************************************************)
ListPools ==
    /\ pc = "pools"
    /\ pc' = "syncMembers" /\ nodes' = Backends
    /\ todo' = {p \in pools : read[p] \notin {0, None}}
    /\ UNCHANGED <<cloud, fresh, read, cur, known>> /\ World

SyncPool ==
    /\ pc = "syncMembers" /\ cur = None
    /\ \E p \in todo : cur' = p /\ todo' = todo \ {p}
    /\ UNCHANGED <<cloud, pc, fresh, read, nodes, known>> /\ World

RemoveMember ==
    /\ pc = "syncMembers" /\ cur # None
    /\ \E t \in Surplus(cur) : members' = members \ {t}
    /\ UNCHANGED <<elb, eip, cascade, listeners, pools, checks, local_>> /\ World

PoolSynced ==
    /\ pc = "syncMembers" /\ cur # None /\ Below(cur) = Targets(cur)
    /\ cur' = None
    /\ UNCHANGED <<cloud, pc, fresh, read, nodes, todo, known>> /\ World

MembersSynced ==
    /\ pc = "syncMembers" /\ cur = None /\ todo = {}
    /\ Return
    /\ UNCHANGED cloud /\ World

(***************************************************************************)
(* deleteELBStack.                                                         *)
(***************************************************************************)
\* Mutant: the listeners are expected to take the pools with them.
StartWithListeners ==
    /\ pc = "idle" /\ doomed /\ elb = "active"
    /\ Goto("clearListeners") /\ UNCHANGED cur
    /\ UNCHANGED cloud /\ World

StartDelete ==
    /\ pc = "idle" /\ doomed /\ elb = "active"
    /\ Goto("clearPools") /\ UNCHANGED cur
    /\ UNCHANGED cloud /\ World

ClearPools ==
    /\ pc = "clearPools"
    /\ \/ \E p \in pools : cur' = p /\ Goto("clearPool")
       \/ pools = {} /\ cur' = None /\ Goto("clearListeners")
    /\ UNCHANGED cloud /\ World

DeleteHealthCheck ==
    /\ pc = "clearPool" /\ cur \in checks
    /\ checks' = checks \ {cur}
    /\ UNCHANGED <<elb, eip, cascade, listeners, pools, members, local_>> /\ World

DeleteMember ==
    /\ pc = "clearPool" /\ cur \notin checks
    /\ \E t \in Below(cur) : members' = members \ {t}
    /\ UNCHANGED <<elb, eip, cascade, listeners, pools, checks, local_>> /\ World

\* Mutant: the pool goes first, and takes what it has with it if the cloud cascades.
DeletePoolFirst ==
    /\ pc = "clearPool"
    /\ IF cascade
       THEN /\ pools' = pools \ {cur} /\ checks' = checks \ {cur}
            /\ members' = members \ Below(cur)
            /\ Goto("clearPools") /\ cur' = None
       ELSE Return /\ UNCHANGED <<pools, checks, members>>
    /\ UNCHANGED <<elb, eip, cascade, listeners>> /\ World

DeletePool ==
    /\ pc = "clearPool" /\ cur \notin checks /\ Below(cur) = {}
    /\ pools' = pools \ {cur}
    /\ Goto("clearPools") /\ cur' = None
    /\ UNCHANGED <<elb, eip, cascade, listeners, checks, members>> /\ World

DeleteListener ==
    /\ pc = "clearListeners"
    /\ \E p \in listeners : listeners' = listeners \ {p}
    /\ UNCHANGED <<elb, eip, cascade, pools, checks, members, local_>> /\ World

ListenersCleared ==
    /\ pc = "clearListeners" /\ listeners = {}
    /\ Goto("showELB") /\ UNCHANGED cur
    /\ UNCHANGED cloud /\ World

\* Mutant: the EIP is not looked up.
ShowNothing ==
    /\ pc = "showELB"
    /\ pc' = "deleteELB"
    /\ UNCHANGED <<cloud, fresh, read, nodes, cur, todo, known>> /\ World

\* The EIP must be known before the load balancer is gone.
ShowELB ==
    /\ pc = "showELB"
    /\ known' = (eip = "bound")
    /\ pc' = "deleteELB"
    /\ UNCHANGED <<cloud, fresh, read, nodes, cur, todo>> /\ World

DeleteELB ==
    /\ pc = "deleteELB"
    /\ elb' = "gone" /\ eip' = IF eip = "bound" THEN "unbound" ELSE eip
    /\ IF known THEN Goto("deleteEIP") /\ UNCHANGED cur ELSE Return
    /\ UNCHANGED <<cascade, stack>> /\ World

DeleteEIP ==
    /\ pc = "deleteEIP"
    /\ eip' = "deleted"
    /\ Return
    /\ UNCHANGED <<elb, cascade, stack>> /\ World

(***************************************************************************)
(* A call fails.  The reconcile ends and is retried, except that           *)
(* syncListenerStacks goes on to the pools when it cannot list the nodes,  *)
(* that ShowELB is not needed to delete the load balancer, and that        *)
(* nothing brings a reconcile back to an EIP it could not delete.          *)
(***************************************************************************)
\* Mutant: nodes that cannot be listed count as no nodes.
UnreadableIsEmpty ==
    /\ pc \in FaultPoints /\ Spend("fault")
    /\ IF pc = "pools"
       THEN /\ pc' = "syncMembers" /\ nodes' = {}
            /\ todo' = {p \in pools : read[p] \notin {0, None}}
            /\ UNCHANGED <<fresh, read, cur, known>>
       ELSE Return
    /\ UNCHANGED <<cloud, service, cluster>>

CallFails ==
    /\ pc \in FaultPoints
    /\ Spend(IF pc \in {"showELB", "deleteEIP"} THEN "address" ELSE "fault")
    /\ CASE pc = "listNodes" /\ ~ fresh -> Goto("pools") /\ UNCHANGED cur
         [] pc = "showELB" -> Goto("deleteELB") /\ UNCHANGED cur
         [] OTHER -> Return
    /\ UNCHANGED <<cloud, service, cluster>>

ControllerStep ==
    \/ StartReconcile \/ ListNodes
    \/ CreateListener \/ CreatePool \/ CreateHealthCheck \/ AddMember \/ StackCreated
    \/ SyncDeleteListener \/ ListenersSynced
    \/ ListPools \/ SyncPool \/ RemoveMember \/ PoolSynced \/ MembersSynced
    \/ StartDelete \/ ClearPools \/ DeleteHealthCheck \/ DeleteMember \/ DeletePool
    \/ DeleteListener \/ ListenersCleared \/ ShowELB \/ DeleteELB \/ DeleteEIP
    \/ CallFails

(***************************************************************************)
(* The Service and the cluster change.  No change is missed for good: the  *)
(* next periodic reconcile reads everything again.                         *)
(***************************************************************************)
EditPort ==
    /\ ~ doomed /\ Spend("ports")
    /\ \E p \in Ports \ FixedPorts, np \in NodePorts \cup {None} :
          np # want[p] /\ want' = [want EXCEPT ![p] = np]
    /\ UNCHANGED <<local, doomed, cluster, cloud, local_>>

NodeChanges ==
    /\ Spend("backends")
    /\ \E n \in Nodes \ FixedNodes :
          \/ ready' = (ready \ {n}) \cup ({n} \ ready) /\ UNCHANGED hosts
          \/ hosts' = (hosts \ {n}) \cup ({n} \ hosts) /\ UNCHANGED ready
    /\ UNCHANGED <<service, cloud, local_>>

EditPolicy ==
    /\ ~ doomed /\ Spend("backends")
    /\ local' = ~ local
    /\ UNCHANGED <<want, doomed, cluster, cloud, local_>>

DeleteService ==
    /\ ~ doomed /\ doomed' = TRUE
    /\ UNCHANGED <<want, local, cluster, cloud, local_, budget>>

Next == ControllerStep \/ EditPort \/ NodeChanges \/ EditPolicy \/ DeleteService

Spec == Init /\ [][Next]_vars

FairSpec == Spec /\ WF_vars(ControllerStep)

(***************************************************************************)
(* Properties.                                                             *)
(***************************************************************************)
\* Whatever fails, and whatever is edited elsewhere: a member that belongs to a port
\* and a node that stay as they are is never taken out of its pool while the Service
\* lives.
FixedMembersKept ==
    [][\A p \in FixedPorts, n \in FixedNodes :
          <<p, n, want[p]>> \in members /\ ~ doomed => <<p, n, want[p]>> \in members']_vars

\* A synchronisation that comes to its end has left no pool out: each whose port has
\* a node port holds the nodes that were read, at the node port that was read, and
\* nothing else.
SyncedExactly ==
    pc = "syncMembers" /\ cur = None /\ todo = {} =>
        \A p \in pools : read[p] \notin {0, None} =>
            Below(p) = {<<p, n, read[p]>> : n \in nodes}

\* Every port is complete and nothing is left of the others.
Complete ==
    /\ listeners = Wanted(want) /\ pools = listeners /\ checks = listeners
    /\ \A p \in Wanted(want) :
          want[p] # 0 => Below(p) = {<<p, n, want[p]>> : n \in Backends}

\* The copies the reconcile works on are those of the present.
Current ==
    /\ read = want
    /\ pc \in {"createMembers", "syncMembers"} => nodes = Backends

\* A reconcile that finds everything as it should be changes nothing: no member is taken
\* out to be put back, no listener made again.
CompleteLeftAlone == [][~ doomed /\ Current /\ Complete => UNCHANGED stack]_vars

\* Once the Service and the nodes settle, the load balancer matches them and stays so,
\* whatever calls have failed on the way (if the cloud cascades).
StackConverges == cascade => <>[](doomed \/ Complete)

\* The load balancer of a deleted Service is taken down, whether the cloud cascades
\* or insists that children go first.
TornDown == doomed ~> elb = "gone"

\* A load balancer leaves its public address behind only if ShowELB failed before it went,
\* or DeleteEIP did after it, or the manager stopped or the answer of DeleteELB was lost in
\* between: no other failure, wherever it leaves the tear-down, has that effect.
EIPReclaimed == elb = "gone" /\ pc = "idle" /\ eip = "unbound" => ~ Spared("address")

(***************************************************************************)
(* The resources on the load balancer as a tree.                           *)
(***************************************************************************)
TheELB == <<"elb", None>>

Above(x) ==
    CASE x[1] = "elb"      -> {}
      [] x[1] = "listener" -> {TheELB}
      [] x[1] = "pool"     -> {TheELB, <<"listener", x[2]>>}
      [] x[1] = "check"    -> {TheELB, <<"listener", x[2]>>, <<"pool", x[2]>>}
      [] x[1] = "member"   -> {TheELB, <<"listener", x[2][1]>>, <<"pool", x[2][1]>>}

Exist ==
    {x \in {TheELB} : elb = "active"}
        \cup ({"listener"} \X listeners) \cup ({"pool"} \X pools)
        \cup ({"check"} \X checks) \cup ({"member"} \X members)

Tree == INSTANCE ResourceTree WITH Root <- TheELB, exist <- Exist

\* Nothing is created below a resource that is not there, and no resource is deleted
\* from under another one, at any point of a build-up, a synchronisation or a tear-down
\* that stopped half-way and was taken up again.
OrderKept == Tree!Spec
=============================================================================
