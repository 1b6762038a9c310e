------------------------- MODULE LBCLifecycleProofs -------------------------
(***************************************************************************)
(* Theorems about LBCLifecycle, for any LBCs, names, load balancers, fault *)
(* points and budgets.                                                     *)
(*                                                                         *)
(* LookupHolds makes UniqueELBName inductive: the lookup by name and the   *)
(* creation are two calls. InHand says what the worker may rely on between *)
(* two calls, Recorded what the LBCs record: that the finalizer is there   *)
(* before an id is, and that the id is of a load balancer of that name.    *)
(***************************************************************************)
EXTENDS LBCLifecycle, TLAPS

LookupHolds == pc = "create" => \A e \in ELBIDs : Live(e) => elbs[e].name # elbNameForLBC(key)

\* Load balancer e has been made for LBC k.
MadeFor(e, k) == e \in ELBIDs /\ elbs[e].st # "free" /\ elbs[e].name = elbNameForLBC(k)

Recorded ==
    \A k \in LBCs : crs[k].elb # None =>
        crs[k].exists /\ crs[k].fin /\ MadeFor(crs[k].elb, k)

InHand ==
    /\ pc \in {"find", "create", "record"} => crs[key].exists /\ crs[key].fin
    /\ pc \in {"record", "delete"} => MadeFor(elbID, key)
    /\ pc \in {"delete", "release"} => crs[key].exists /\ crs[key].deleting /\ crs[key].fin
    /\ pc = "delete" => crs[key].elb \in {elbID, None}
    /\ pc = "release" => crs[key].elb = None \/ ~ Live(crs[key].elb)

Inv == UniqueELBName /\ LookupHolds /\ Recorded /\ InHand

\* At the start there is nothing.
LEMMA TypeInit == Init => TypeOK
  BY NameAssumption, BudgetAssumption
  DEF Init, TypeOK, Records, Contents, LoadBalancers, NoLBC

\* What has been spent leaves a budget.
LEMMA SpendType ==
    ASSUME TypeOK, NEW d \in Disturbances, Spend(d)
    PROVE  budget' \in [Disturbances -> Nat]
  <1>1. budget[d] \in Nat /\ budget[d] > 0 /\ budget[d] - 1 \in Nat
    BY DEF Spend, TypeOK
  <1> QED
    BY <1>1 DEF Spend, TypeOK

\* An LBC is put back with the form of an LBC.
LEMMA StoreType ==
    ASSUME TypeOK, NEW k \in LBCs, NEW c \in Records, Store(k, c)
    PROVE  crs' \in [LBCs -> Records]
  BY DEF Store, TypeOK

\* A new load balancer has the form of one.
LEMMA NewELBType ==
    ASSUME TypeOK, pc # "idle", NEW e \in ELBIDs, NewELB(e)
    PROVE  elbs' \in [ELBIDs -> LoadBalancers]
  <1>1. key \in LBCs
    BY DEF TypeOK
  <1> QED
    BY <1>1 DEF NewELB, TypeOK, LoadBalancers

\* The fields of an LBC, and that other values of them make an LBC.
LEMMA RecordType ==
    ASSUME TypeOK, NEW k \in LBCs
    PROVE  /\ crs[k] \in Records /\ NoLBC \in Records
           /\ crs[k].elb \in ELBIDs \cup {None}
           /\ [crs[k] EXCEPT !.detected = TRUE, !.fin = TRUE] \in Records
           /\ [crs[k] EXCEPT !.deleting = TRUE] \in Records
           /\ \A e \in ELBIDs \cup {None} :
                 /\ [crs[k] EXCEPT !.elb = e] \in Records
                 /\ \A t \in Contents :
                       [crs[k] EXCEPT !.content = t, !.elb = e] \in Records
           /\ \A t \in Contents : [NoLBC EXCEPT !.exists = TRUE, !.content = t] \in Records
  <1>1. crs[k] \in Records
    BY DEF TypeOK
  <1>2. NoLBC \in Records
    BY DEF NoLBC, Records, Contents
  <1> QED
    BY <1>1, <1>2 DEF Records

\* A worker between reconciles is well formed.
LEMMA RestType ==
    ASSUME TypeOK, Rest
    PROVE  /\ pc' = "idle" /\ key' = None
           /\ read' \in Records /\ elbID' \in ELBIDs \cup {None}
  BY DEF Rest, NoLBC, Records, Contents

\* So is one between two calls.
LEMMA GotoType ==
    ASSUME TypeOK, pc # "idle", NEW p \in Calls, Goto(p)
    PROVE  /\ pc' \in Calls \cup {"idle"} /\ (pc' = "idle" <=> key' = None)
           /\ key' \in LBCs \cup {None} /\ read' \in Records
  BY DEF Goto, TypeOK, Calls

\* A key that comes back is a key.
LEMMA RequeueType ==
    ASSUME TypeOK, pc # "idle", Requeue
    PROVE  key \in LBCs /\ pending' \subseteq LBCs /\ Rest
  BY DEF Requeue, TypeOK

\* What is queued are keys.
LEMMA ChangeType ==
    ASSUME TypeOK, NEW k \in LBCs, NEW c \in Records, Change(k, c)
    PROVE  /\ crs' \in [LBCs -> Records] /\ pending' \subseteq LBCs
           /\ UNCHANGED <<elbs, up, pc, key, read, elbID>>
  BY StoreType DEF Change, Queued, TypeOK, worker

\* Every step keeps every variable well formed.
LEMMA TypeNext == TypeOK /\ [Next]_vars => TypeOK'
  <1> SUFFICES ASSUME TypeOK, [Next]_vars
               PROVE  TypeOK'
    OBVIOUS
  <1>1. CASE Skip
    BY <1>1 DEF Skip, worker, TypeOK
  <1>2. CASE Reconcile
    <2>1. PICK k \in pending : /\ Route(crs[k]) \notin {"skip", "later"}
                               /\ pc' = Route(crs[k]) /\ key' = k /\ read' = crs[k]
                               /\ elbID' = crs[k].elb /\ pending' = pending \ {k}
      BY <1>2 DEF Reconcile
    <2>2. k \in LBCs /\ k # None
      BY NoneAssumption DEF TypeOK
    <2>3. pc' \in Calls /\ pc' # "idle"
      BY <2>1 DEF Route, Calls
    <2> QED
      BY <1>2, <2>1, <2>2, <2>3, RecordType DEF Reconcile, TypeOK
  <1>3. CASE Hold
    <2>1. pc # "idle"
      BY <1>3 DEF Hold, At
    <2>2. key \in LBCs /\ pending' \subseteq LBCs /\ Rest
      BY <1>3, <2>1, RequeueType DEF Hold
    <2>3. crs' \in [LBCs -> Records]
      BY <1>3, <2>2, RecordType, StoreType DEF Hold, TypeOK
    <2> QED
      BY <1>3, <2>2, <2>3, RestType DEF Hold, TypeOK
  <1>4. CASE FindExisting
    BY <1>4, GotoType DEF FindExisting, FindELBByName, At, TypeOK, Calls
  <1>5. CASE CreateELB
    <2>1. pc # "idle"
      BY <1>5 DEF CreateELB, At
    <2>2. elbs' \in [ELBIDs -> LoadBalancers]
      BY <1>5, <2>1, NewELBType DEF CreateELB
    <2> QED
      BY <1>5, <2>1, <2>2, GotoType DEF CreateELB, TypeOK, Calls
  <1>6. CASE CreateELBAnswerLost
    <2>1. pc # "idle"
      BY <1>6 DEF CreateELBAnswerLost, At
    <2>2. elbs' \in [ELBIDs -> LoadBalancers]
      BY <1>6, <2>1, NewELBType DEF CreateELBAnswerLost
    <2>3. budget' \in [Disturbances -> Nat]
      BY <1>6, SpendType DEF CreateELBAnswerLost, Disturbances
    <2>4. pending' \subseteq LBCs /\ Rest
      BY <1>6, <2>1, RequeueType DEF CreateELBAnswerLost
    <2> QED
      BY <1>6, <2>2, <2>3, <2>4, RestType DEF CreateELBAnswerLost, TypeOK
  <1>7. CASE RecordELB
    <2>1. pc # "idle"
      BY <1>7 DEF RecordELB, At
    <2>2. key \in LBCs /\ pending' \subseteq LBCs /\ Rest
      BY <1>7, <2>1, RequeueType DEF RecordELB
    <2>3. crs' \in [LBCs -> Records]
      BY <1>7, <2>2, RecordType, StoreType DEF RecordELB, TypeOK
    <2> QED
      BY <1>7, <2>2, <2>3, RestType DEF RecordELB, TypeOK
  <1>8. CASE DeleteELB
    <2>1. pc # "idle"
      BY <1>8 DEF DeleteELB, At
    <2>2. elbs' \in [ELBIDs -> LoadBalancers]
      BY <1>8 DEF DeleteELB, TypeOK, LoadBalancers
    <2> QED
      BY <1>8, <2>1, <2>2, GotoType DEF DeleteELB, TypeOK, Calls
  <1>9. CASE ReleaseLBC
    <2>1. key \in LBCs
      BY <1>9 DEF ReleaseLBC, At, TypeOK
    <2>2. crs' \in [LBCs -> Records]
      BY <1>9, <2>1, RecordType, StoreType DEF ReleaseLBC
    <2> QED
      BY <1>9, <2>1, <2>2, RestType DEF ReleaseLBC, TypeOK
  <1>10. CASE CallFails
    <2>1. pc # "idle"
      BY <1>10, FaultAssumption DEF CallFails, Calls
    <2>2. budget' \in [Disturbances -> Nat]
      BY <1>10, SpendType DEF CallFails, Disturbances
    <2>3. pending' \subseteq LBCs /\ Rest
      BY <1>10, <2>1, RequeueType DEF CallFails
    <2> QED
      BY <1>10, <2>2, <2>3, RestType DEF CallFails, TypeOK
  <1>11. CASE Crash
    <2>1. budget' \in [Disturbances -> Nat]
      BY <1>11, SpendType DEF Crash, Disturbances
    <2> QED
      BY <1>11, <2>1, RestType DEF Crash, TypeOK
  <1>12. CASE Restart
    BY <1>12 DEF Restart, worker, TypeOK
  <1>13. ASSUME NEW k \in LBCs, CreateLBC(k) PROVE TypeOK'
    <2>1. budget' \in [Disturbances -> Nat]
      BY <1>13, SpendType DEF CreateLBC, Disturbances
    <2>2. PICK t \in Contents : Change(k, [NoLBC EXCEPT !.exists = TRUE, !.content = t])
      BY <1>13 DEF CreateLBC
    <2> QED
      BY <2>1, <2>2, RecordType, ChangeType DEF TypeOK
  <1>14. ASSUME NEW k \in LBCs, EditLBC(k) PROVE TypeOK'
    <2>1. budget' \in [Disturbances -> Nat]
      BY <1>14, SpendType DEF EditLBC, Disturbances
    <2>2. PICK t \in Contents, e \in {crs[k].elb, None} :
                   Change(k, [crs[k] EXCEPT !.content = t, !.elb = e])
      BY <1>14 DEF EditLBC
    <2>3. e \in ELBIDs \cup {None}
      BY RecordType
    <2> QED
      BY <2>1, <2>2, <2>3, RecordType, ChangeType DEF TypeOK
  <1>15. ASSUME NEW k \in LBCs, DeleteLBC(k) PROVE TypeOK'
    <2>1. PICK c \in Records : Change(k, c)
      BY <1>15, RecordType DEF DeleteLBC
    <2> QED
      BY <1>15, <2>1, ChangeType DEF DeleteLBC, TypeOK
  <1>16. ASSUME NEW e \in ELBIDs, ELBActivates(e) PROVE TypeOK'
    <2>1. elbs' \in [ELBIDs -> LoadBalancers]
      BY <1>16 DEF ELBActivates, TypeOK, LoadBalancers
    <2> QED
      BY <1>16, <2>1 DEF ELBActivates, TypeOK, worker
  <1>17. CASE UNCHANGED vars
    BY <1>17 DEF vars, TypeOK
  <1> QED
    BY <1>1, <1>2, <1>3, <1>4, <1>5, <1>6, <1>7, <1>8, <1>9, <1>10, <1>11, <1>12, <1>13, <1>14, <1>15, <1>16, <1>17
    DEF Next, ControllerStep, Environment

\* Every variable always has the form it is declared with.
THEOREM TypeCorrect == Spec => []TypeOK
  BY TypeInit, TypeNext, PTL DEF Spec

\* A load balancer that has been made keeps its name and is never made again.
LEMMA ELBStep ==
    ASSUME TypeOK, [Next]_vars, NEW e \in ELBIDs, elbs[e].st # "free"
    PROVE  /\ elbs'[e].st # "free" /\ elbs'[e].name = elbs[e].name
           /\ ~ Live(e) => elbs'[e].st \notin {"pending", "active"}
  <1> DEFINE Goal == /\ elbs'[e].st # "free" /\ elbs'[e].name = elbs[e].name
                     /\ ~ Live(e) => elbs'[e].st \notin {"pending", "active"}
  <1> USE DEF Live
  <1>1. CASE CreateELB \/ CreateELBAnswerLost
    BY <1>1 DEF CreateELB, CreateELBAnswerLost, NewELB, TypeOK
  <1>2. CASE DeleteELB
    BY <1>2 DEF DeleteELB, TypeOK
  <1>3. ASSUME NEW f \in ELBIDs, ELBActivates(f) PROVE Goal
    BY <1>3 DEF ELBActivates, TypeOK
  <1>4. CASE UNCHANGED elbs
    BY <1>4
  <1>5. \A k \in LBCs : CreateLBC(k) \/ EditLBC(k) \/ DeleteLBC(k) => UNCHANGED elbs
    BY DEF CreateLBC, EditLBC, DeleteLBC, Change
  <1> QED
    BY <1>1, <1>2, <1>3, <1>4, <1>5
    DEF Next, ControllerStep, Environment, Skip, Reconcile, Hold, FindExisting, RecordELB,
        ReleaseLBC, CallFails, Crash, Restart, vars

\* The lookup by name keeps names unique.
LEMMA UniqueNext ==
    ASSUME TypeOK, UniqueELBName, LookupHolds, [Next]_vars
    PROVE  UniqueELBName' /\ LookupHolds'
  <1> USE DEF UniqueELBName, LookupHolds, Live
  <1>1. CASE CreateELB
    <2>1. PICK e \in ELBIDs : NewELB(e)
      BY <1>1 DEF CreateELB
    <2> QED
      BY <1>1, <2>1 DEF CreateELB, NewELB, At, Goto, TypeOK
  <1>2. CASE CreateELBAnswerLost
    <2>1. PICK e \in ELBIDs : NewELB(e)
      BY <1>2 DEF CreateELBAnswerLost
    <2> QED
      BY <1>2, <2>1 DEF CreateELBAnswerLost, NewELB, At, Requeue, Rest, TypeOK
  <1>3. CASE FindExisting
    BY <1>3 DEF FindExisting, FindELBByName, Goto
  <1>4. CASE DeleteELB
    BY <1>4 DEF DeleteELB, Goto, TypeOK
  <1>5. ASSUME NEW f \in ELBIDs, ELBActivates(f) PROVE UniqueELBName' /\ LookupHolds'
    BY <1>5 DEF ELBActivates, worker, TypeOK
  <1>6. CASE UNCHANGED elbs /\ (pc' # "create" \/ UNCHANGED <<pc, key>>)
    BY <1>6
  <1>7. \A k \in LBCs :
          CreateLBC(k) \/ EditLBC(k) \/ DeleteLBC(k) => UNCHANGED <<elbs, pc, key>>
    BY DEF CreateLBC, EditLBC, DeleteLBC, Change, worker
  <1>8. CASE Reconcile
    BY <1>6, <1>8 DEF Reconcile, Route
  <1> QED
    BY <1>1, <1>2, <1>3, <1>4, <1>5, <1>6, <1>7, <1>8
    DEF Next, ControllerStep, Environment, Skip, Hold, RecordELB, Requeue, Rest, worker,
        ReleaseLBC, CallFails, Crash, Restart, vars


\* What a step can make of an LBC: nothing, it goes away, it is new, or it is kept with
\* what it records, with nothing recorded, or with what the worker has found or created.
LEMMA LBCStep ==
    ASSUME TypeOK, InHand, [Next]_vars, NEW k \in LBCs
    PROVE  \/ crs'[k] = crs[k]
           \/ /\ crs'[k] = NoLBC /\ crs[k].exists
              /\ ~ crs[k].fin \/ (ReleaseLBC /\ k = key)
           \/ ~ crs[k].exists /\ crs'[k].elb = None
           \/ /\ crs[k].exists /\ crs'[k].exists
              /\ crs[k].fin => crs'[k].fin
              /\ crs[k].deleting => crs'[k].deleting
              /\ \/ crs'[k].elb \in {crs[k].elb, None}
                 \/ RecordELB /\ k = key /\ crs'[k].elb = elbID
  <1> DEFINE Goal == \/ crs'[k] = crs[k]
                     \/ /\ crs'[k] = NoLBC /\ crs[k].exists
                        /\ ~ crs[k].fin \/ (ReleaseLBC /\ k = key)
                     \/ ~ crs[k].exists /\ crs'[k].elb = None
                     \/ /\ crs[k].exists /\ crs'[k].exists
                        /\ crs[k].fin => crs'[k].fin
                        /\ crs[k].deleting => crs'[k].deleting
                        /\ \/ crs'[k].elb \in {crs[k].elb, None}
                           \/ RecordELB /\ k = key /\ crs'[k].elb = elbID
  <1>1. crs[k] \in Records
    BY DEF TypeOK
  <1>2. CASE UNCHANGED crs
    BY <1>2
  <1>3. CASE Hold
    <2>1. CASE k = key /\ crs[k].exists
      <3>1. crs'[k] = [crs[k] EXCEPT !.detected = TRUE, !.fin = TRUE]
        BY <1>3, <2>1 DEF Hold, Store, TypeOK
      <3> QED
        BY <1>1, <2>1, <3>1 DEF Records
    <2>2. CASE ~ (k = key /\ crs[k].exists)
      BY <1>3, <2>2 DEF Hold, Store, TypeOK
    <2> QED
      BY <2>1, <2>2
  <1>4. CASE RecordELB
    <2>1. CASE k = key
      <3>1. crs'[k] = [crs[k] EXCEPT !.elb = elbID]
        BY <1>4, <2>1 DEF RecordELB, Store, TypeOK
      <3> QED
        BY <1>1, <1>4, <2>1, <3>1 DEF RecordELB, At, InHand, Records
    <2>2. CASE k # key
      BY <1>4, <2>2 DEF RecordELB, Store, TypeOK
    <2> QED
      BY <2>1, <2>2
  <1>5. CASE ReleaseLBC
    <2>1. CASE k = key
      BY <1>5, <2>1 DEF ReleaseLBC, At, InHand, Store, TypeOK
    <2>2. CASE k # key
      BY <1>5, <2>2 DEF ReleaseLBC, Store, TypeOK
    <2> QED
      BY <2>1, <2>2
  <1>6. ASSUME NEW j \in LBCs, NEW c, Change(j, c), j # k PROVE Goal
    BY <1>6 DEF Change, Store, TypeOK
  <1>7. ASSUME NEW c, Change(k, c) PROVE crs'[k] = c
    BY <1>7 DEF Change, Store, TypeOK
  <1>8. ASSUME NEW j \in LBCs, CreateLBC(j) PROVE Goal
    <2>1. PICK t \in Contents : Change(j, [NoLBC EXCEPT !.exists = TRUE, !.content = t])
      BY <1>8 DEF CreateLBC
    <2>2. CASE j = k
      <3>1. crs'[k] = [NoLBC EXCEPT !.exists = TRUE, !.content = t]
        BY <1>7, <2>1, <2>2
      <3> QED
        BY <1>8, <2>2, <3>1 DEF CreateLBC, NoLBC
    <2> QED
      BY <1>6, <2>1, <2>2
  <1>9. ASSUME NEW j \in LBCs, EditLBC(j) PROVE Goal
    <2>1. PICK t \in Contents, e \in {crs[j].elb, None} :
                   Change(j, [crs[j] EXCEPT !.content = t, !.elb = e])
      BY <1>9 DEF EditLBC
    <2>2. CASE j = k
      <3>1. crs'[k] = [crs[k] EXCEPT !.content = t, !.elb = e]
        BY <1>7, <2>1, <2>2
      <3> QED
        BY <1>1, <1>9, <2>1, <2>2, <3>1 DEF EditLBC, Records
    <2> QED
      BY <1>6, <2>1, <2>2
  <1>10. ASSUME NEW j \in LBCs, DeleteLBC(j) PROVE Goal
    <2>1. CASE j = k /\ crs[k].fin
      <3>1. crs'[k] = [crs[k] EXCEPT !.deleting = TRUE]
        BY <1>7, <1>10, <2>1 DEF DeleteLBC
      <3> QED
        BY <1>1, <1>10, <2>1, <3>1 DEF DeleteLBC, Records
    <2>2. CASE j = k /\ ~ crs[k].fin
      BY <1>7, <1>10, <2>2 DEF DeleteLBC
    <2>3. CASE j # k
      BY <1>6, <1>10, <2>3 DEF DeleteLBC
    <2> QED
      BY <2>1, <2>2, <2>3
  <1>11. \A e \in ELBIDs : ELBActivates(e) => UNCHANGED crs
    BY DEF ELBActivates
  <1> QED
    BY <1>2, <1>3, <1>4, <1>5, <1>8, <1>9, <1>10, <1>11
    DEF Next, ControllerStep, Environment, Skip, Reconcile, FindExisting, CreateELB,
        CreateELBAnswerLost, DeleteELB, CallFails, Crash, Restart, vars

\* What an LBC records is its own, and the finalizer is there before it.
LEMMA RecordedNext ==
    ASSUME TypeOK, Recorded, InHand, [Next]_vars
    PROVE  Recorded'
  <1> SUFFICES ASSUME NEW k \in LBCs, crs'[k].elb # None
               PROVE  /\ crs'[k].exists /\ crs'[k].fin
                      /\ crs'[k].elb \in ELBIDs /\ elbs'[crs'[k].elb].st # "free"
                      /\ elbs'[crs'[k].elb].name = elbNameForLBC(k)
    BY DEF Recorded, MadeFor
  <1>1. CASE crs'[k].elb = crs[k].elb /\ (crs'[k] = crs[k] \/ (crs'[k].exists
                                                        /\ (crs[k].fin => crs'[k].fin)))
    BY <1>1, ELBStep DEF Recorded, MadeFor
  <1>2. CASE RecordELB /\ k = key /\ crs'[k].elb = elbID /\ crs'[k].exists
             /\ (crs[k].fin => crs'[k].fin)
    BY <1>2, ELBStep DEF InHand, MadeFor, RecordELB, At
  <1>3. crs'[k] # NoLBC
    BY DEF NoLBC
  <1> QED
    BY <1>1, <1>2, <1>3, LBCStep

\* What the worker relies on between two calls nobody takes away.
LEMMA InHandKept ==
    ASSUME TypeOK, Recorded, InHand, [Next]_vars, UNCHANGED <<pc, key, elbID>>,
           pc \in Calls
    PROVE  InHand'
  <1>1. key \in LBCs
    BY DEF TypeOK, Calls
  <1>2. ~ ReleaseLBC /\ ~ RecordELB
    BY DEF ReleaseLBC, RecordELB, Requeue, Rest, Calls
  <1>3. pc \in {"record", "delete"} =>
           elbID \in ELBIDs /\ elbs'[elbID].st # "free" /\ elbs'[elbID].name = elbNameForLBC(key)
    BY ELBStep DEF InHand, MadeFor
  <1>4. pc \in {"find", "create", "record", "delete", "release"} =>
           /\ crs'[key].exists /\ crs'[key].fin
           /\ crs[key].deleting => crs'[key].deleting
           /\ crs'[key].elb \in {crs[key].elb, None}
    BY <1>1, <1>2, LBCStep DEF InHand
  <1>5. pc = "release" /\ crs'[key].elb # None =>
           elbs'[crs'[key].elb].st \notin {"pending", "active"}
    <2> SUFFICES ASSUME pc = "release", crs'[key].elb # None
                 PROVE  elbs'[crs'[key].elb].st \notin {"pending", "active"}
      OBVIOUS
    <2>1. crs'[key].elb = crs[key].elb
      BY <1>4
    <2> QED
      BY <1>1, <2>1, ELBStep DEF InHand, Recorded, MadeFor
  <1> QED
    BY <1>3, <1>4, <1>5 DEF InHand, MadeFor, Live

\* Every step leaves the next call what it relies on.
LEMMA InHandNext ==
    ASSUME TypeOK, Recorded, InHand, [Next]_vars
    PROVE  InHand'
  <1>1. CASE pc' = "idle" \/ pc' = "hold"
    BY <1>1 DEF InHand
  <1>2. CASE Reconcile
    <2>1. PICK k \in pending : /\ Route(crs[k]) \notin {"skip", "later"}
                               /\ pc' = Route(crs[k]) /\ key' = k /\ elbID' = crs[k].elb
      BY <1>2 DEF Reconcile
    <2>2. k \in LBCs /\ UNCHANGED <<crs, elbs>>
      BY <1>2 DEF Reconcile, TypeOK
    <2>3. CASE pc' = "find"
      BY <2>1, <2>2, <2>3 DEF Route, InHand
    <2>4. CASE pc' = "delete"
      BY <2>1, <2>2, <2>4 DEF Route, InHand, Recorded, MadeFor
    <2>5. CASE pc' = "release"
      BY <2>1, <2>2, <2>5 DEF Route, InHand
    <2> QED
      BY <1>1, <2>1, <2>3, <2>4, <2>5 DEF Route
  <1>3. CASE FindExisting
    BY <1>3 DEF FindExisting, FindELBByName, Goto, At, InHand, MadeFor, Live
  <1>4. CASE CreateELB
    <2>1. PICK e \in ELBIDs : NewELB(e) /\ elbID' = e
      BY <1>4 DEF CreateELB
    <2>2. elbs'[e].st # "free" /\ elbs'[e].name = elbNameForLBC(key)
      BY <2>1 DEF NewELB, TypeOK
    <2> QED
      BY <1>4, <2>1, <2>2 DEF CreateELB, Goto, At, InHand, MadeFor
  <1>5. CASE DeleteELB
    <2>1. elbID \in ELBIDs
      BY <1>5 DEF DeleteELB, At, InHand, MadeFor
    <2>2. elbs'[elbID].st \notin {"pending", "active"}
      BY <1>5, <2>1 DEF DeleteELB, Live, TypeOK
    <2> QED
      BY <1>5, <2>2 DEF DeleteELB, Goto, At, InHand, Live
  <1>6. CASE UNCHANGED <<pc, key, elbID>>
    <2>1. CASE pc = "idle"
      BY <1>1, <1>6, <2>1
    <2> QED
      BY <1>6, <2>1, InHandKept DEF TypeOK
  <1>7. Environment => UNCHANGED <<pc, key, elbID>>
    BY DEF Environment, CreateLBC, EditLBC, DeleteLBC, ELBActivates, Change, worker
  <1> QED
    BY <1>1, <1>2, <1>3, <1>4, <1>5, <1>6, <1>7
    DEF Next, ControllerStep, Skip, Hold, CreateELBAnswerLost, RecordELB, ReleaseLBC,
        CallFails, Crash, Restart, Requeue, Rest, worker, vars

\* The invariants together are inductive.
LEMMA Invariance == Spec => [](TypeOK /\ Inv)
  <1>1. Init => TypeOK /\ Inv
    <2> SUFFICES ASSUME Init PROVE Inv
      BY TypeInit
    <2>1. UniqueELBName
      BY DEF Init, UniqueELBName, Live
    <2> QED
      BY <2>1 DEF Init, Inv, LookupHolds, Recorded, InHand, NoLBC
  <1>2. TypeOK /\ Inv /\ [Next]_vars => (TypeOK /\ Inv)'
    BY TypeNext, UniqueNext, RecordedNext, InHandNext DEF Inv
  <1> QED
    BY <1>1, <1>2, PTL DEF Spec

\* Whatever answers are lost and wherever the manager stops, no two live load balancers
\* get the same name.
THEOREM UniqueName == Spec => []UniqueELBName
  <1>1. Inv => UniqueELBName
    BY DEF Inv
  <1> QED
    BY <1>1, Invariance, PTL

\* An LBC is released only when the load balancer it records is gone.
THEOREM ReleasedLast == Spec => ReleasedReclaimed
  <1> DEFINE Clean == \A k \in LBCs :
                         crs[k].exists /\ ~ crs'[k].exists /\ crs[k].elb # None
                         => ~ Live(crs[k].elb)
  <1>1. TypeOK /\ Inv /\ [Next]_vars => [Clean]_vars
    <2> SUFFICES ASSUME TypeOK, Recorded, InHand, [Next]_vars, NEW k \in LBCs,
                        crs[k].exists, ~ crs'[k].exists, crs[k].elb # None
                 PROVE  ~ Live(crs[k].elb)
      BY DEF Inv
    <2>1. ReleaseLBC /\ k = key
      BY LBCStep DEF Recorded
    <2> QED
      BY <2>1 DEF ReleaseLBC, At, InHand
  <1> QED
    BY <1>1, Invariance, PTL DEF Spec, ReleasedReclaimed

\* A reconcile takes down the load balancer an LBC records and keeps only when it handles
\* the deletion of another LBC of the same load balancer name.
THEOREM OnlyNamesake == Spec => OnlyNamesakeTakes
  <1> DEFINE Took == \A k \in LBCs :
                 /\ crs[k].exists /\ ~ crs[k].deleting /\ crs[k].elb # None
                 /\ Live(crs[k].elb) /\ elbs'[crs[k].elb].st = "gone"
                 => \E j \in LBCs \ {k} :
                       crs[j].deleting /\ elbNameForLBC(j) = elbNameForLBC(k)
  <1>1. TypeOK /\ Inv /\ [Next]_vars => [Took]_vars
    <2> SUFFICES ASSUME TypeOK, Recorded, InHand, [Next]_vars, NEW k \in LBCs,
                        ~ crs[k].deleting, crs[k].elb # None, Live(crs[k].elb),
                        elbs'[crs[k].elb].st = "gone"
                 PROVE  \E j \in LBCs \ {k} :
                           crs[j].deleting /\ elbNameForLBC(j) = elbNameForLBC(k)
      BY DEF Inv
    <2>1. crs[k].elb \in ELBIDs /\ elbs[crs[k].elb].name = elbNameForLBC(k)
      BY DEF Recorded, MadeFor
    <2>2. CASE DeleteELB
      <3>1. crs[k].elb = elbID
        BY <2>1, <2>2 DEF DeleteELB, Live, TypeOK
      <3>2. key \in LBCs /\ elbNameForLBC(key) = elbNameForLBC(k) /\ crs[key].deleting
        BY <2>1, <2>2, <3>1 DEF DeleteELB, At, InHand, MadeFor, TypeOK
      <3> QED
        BY <3>2
    <2>3. CASE CreateELB \/ CreateELBAnswerLost
      BY <2>1, <2>3 DEF CreateELB, CreateELBAnswerLost, NewELB, Live, TypeOK
    <2>4. ASSUME NEW e \in ELBIDs, ELBActivates(e) PROVE FALSE
      BY <2>1, <2>4 DEF ELBActivates, Live, TypeOK
    <2>5. ~ UNCHANGED elbs
      BY DEF Live
    <2>6. \A j \in LBCs : CreateLBC(j) \/ EditLBC(j) \/ DeleteLBC(j) => UNCHANGED elbs
      BY DEF CreateLBC, EditLBC, DeleteLBC, Change
    <2> QED
      BY <2>2, <2>3, <2>4, <2>5, <2>6
      DEF Next, ControllerStep, Environment, Skip, Reconcile, Hold, FindExisting, RecordELB,
          ReleaseLBC, CallFails, Crash, Restart, vars
  <1> QED
    BY <1>1, Invariance, PTL DEF Spec, OnlyNamesakeTakes

\* What the worker is about to record is there: nobody else deletes.
LiveInHand == pc = "record" => Live(elbID)

\* Every step keeps it.
LEMMA LiveInHandNext ==
    ASSUME TypeOK, InHand, LiveInHand, [Next]_vars
    PROVE  LiveInHand'
  <1> USE DEF LiveInHand, Live
  <1>1. CASE FindExisting
    BY <1>1 DEF FindExisting, FindELBByName, Goto
  <1>2. CASE CreateELB
    BY <1>2 DEF CreateELB, NewELB, Goto, TypeOK
  <1>3. CASE Reconcile
    BY <1>3 DEF Reconcile, Route
  <1>4. ASSUME NEW e \in ELBIDs, ELBActivates(e) PROVE LiveInHand'
    <2>1. pc = "record" => elbID \in ELBIDs
      BY DEF InHand, MadeFor
    <2> QED
      BY <1>4, <2>1 DEF ELBActivates, worker, TypeOK
  <1>5. CASE pc' # "record"
    BY <1>5
  <1>6. CASE UNCHANGED <<elbs, pc, elbID>>
    BY <1>6
  <1>7. \A k \in LBCs :
           CreateLBC(k) \/ EditLBC(k) \/ DeleteLBC(k) => UNCHANGED <<elbs, pc, elbID>>
    BY DEF CreateLBC, EditLBC, DeleteLBC, Change, worker
  <1> QED
    BY <1>1, <1>2, <1>3, <1>4, <1>5, <1>6, <1>7
    DEF Next, ControllerStep, Environment, Skip, Hold, CreateELBAnswerLost, RecordELB,
        DeleteELB, ReleaseLBC, CallFails, Crash, Restart, Requeue, Rest, Goto, worker, vars

\* Only two steps of the controller change an LBC that is looked up or recorded: the
\* finalizer is written, or an id; it goes only after the load balancer it records.
LEMMA ControllerChange ==
    ASSUME TypeOK, InHand, [Next]_vars, NEW k \in LBCs, crs[k].exists,
           ~ EditLBC(k), ~ DeleteLBC(k)
    PROVE  \/ crs'[k] = crs[k]
           \/ crs'[k] = [crs[k] EXCEPT !.detected = TRUE, !.fin = TRUE]
           \/ RecordELB /\ k = key /\ crs'[k] = [crs[k] EXCEPT !.elb = elbID]
           \/ ReleaseLBC /\ k = key
  <1>1. CASE Hold \/ RecordELB \/ ReleaseLBC
    BY <1>1 DEF Hold, RecordELB, ReleaseLBC, Store, TypeOK
  <1>2. \A j \in LBCs : j # k /\ (CreateLBC(j) \/ EditLBC(j) \/ DeleteLBC(j))
           => crs'[k] = crs[k]
    BY DEF CreateLBC, EditLBC, DeleteLBC, Change, Store, TypeOK
  <1>3. ~ CreateLBC(k)
    BY DEF CreateLBC
  <1>4. \A e \in ELBIDs : ELBActivates(e) => UNCHANGED crs
    BY DEF ELBActivates
  <1> QED
    BY <1>1, <1>2, <1>3, <1>4
    DEF Next, ControllerStep, Environment, Skip, Reconcile, FindExisting, CreateELB,
        CreateELBAnswerLost, DeleteELB, CallFails, Crash, Restart, vars

\* A step after which an LBC no longer has a load balancer it had is a user's.
LEMMA Abandoned ==
    ASSUME TypeOK, UniqueELBName, Recorded, InHand, LiveInHand, [Next]_vars,
           NEW e \in ELBIDs, Live(e), Live(e)', NEW k \in LBCs, Claims(k, e),
           ~ Claims(k, e)'
    PROVE  /\ EditLBC(k) \/ DeleteLBC(k)
           /\ crs'[k].elb = None /\ ~ Seeks(crs'[k])
  <1>1. /\ crs[k] \in Records /\ crs[k].exists /\ elbNameForLBC(k) = elbs[e].name
        /\ crs[k].elb = e \/ (crs[k].elb = None /\ Seeks(crs[k]))
    BY DEF Claims, TypeOK
  <1>2. elbs'[e].name = elbs[e].name
    BY ELBStep DEF Live
  <1>3. /\ crs'[k].exists => crs'[k].elb # e
        /\ crs'[k].exists /\ crs'[k].elb = None => ~ Seeks(crs'[k])
    BY <1>1, <1>2 DEF Claims, Seeks
  <1>4. EditLBC(k) \/ DeleteLBC(k)
    <2> SUFFICES ASSUME ~ EditLBC(k), ~ DeleteLBC(k) PROVE FALSE
      OBVIOUS
    <2>1. CASE crs'[k] = crs[k]
      BY <1>1, <1>3, <2>1
    <2>2. CASE crs'[k] = [crs[k] EXCEPT !.detected = TRUE, !.fin = TRUE]
      <3>1. /\ crs'[k].exists /\ crs'[k].elb = crs[k].elb /\ crs'[k].detected /\ crs'[k].fin
            /\ crs'[k].content = crs[k].content /\ crs'[k].deleting = crs[k].deleting
        BY <1>1, <2>2 DEF Records
      <3>2. crs[k].elb = None /\ Seeks(crs[k])
        BY <1>1, <1>3, <3>1
      <3>3. Seeks(crs'[k])
        BY <3>1, <3>2, <1>1 DEF Seeks, Route, ShouldReconcile, HasPlan2Annotations, Records
      <3> QED
        BY <1>3, <3>1, <3>2, <3>3
    <2>3. CASE RecordELB /\ k = key /\ crs'[k] = [crs[k] EXCEPT !.elb = elbID]
      <3>1. MadeFor(elbID, k) /\ Live(elbID)
        BY <2>3 DEF RecordELB, At, InHand, LiveInHand
      <3>2. elbID = e
        BY <1>1, <3>1 DEF MadeFor, UniqueELBName
      <3> QED
        BY <1>1, <1>3, <2>3, <3>2 DEF Records
    <2>4. CASE ReleaseLBC /\ k = key
      <3>1. crs[k].deleting /\ crs[k].fin /\ (crs[k].elb = None \/ ~ Live(crs[k].elb))
        BY <2>4 DEF ReleaseLBC, At, InHand
      <3>2. crs[k].elb = None /\ Seeks(crs[k])
        BY <1>1, <3>1, NoneAssumption
      <3> QED
        BY <1>1, <3>1, <3>2 DEF Seeks, Route
    <2> QED
      BY <1>1, <2>1, <2>2, <2>3, <2>4, ControllerChange
  <1>5. ASSUME NEW c, Change(k, c) PROVE crs'[k] = c
    BY <1>5 DEF Change, Store, TypeOK
  <1>6. CASE EditLBC(k)
    <2>1. PICK t \in Contents, f \in {crs[k].elb, None} :
                   Change(k, [crs[k] EXCEPT !.content = t, !.elb = f])
      BY <1>6 DEF EditLBC
    <2>2. crs'[k] = [crs[k] EXCEPT !.content = t, !.elb = f]
      BY <1>5, <2>1
    <2>3. crs'[k].exists /\ crs'[k].elb = f
      BY <1>1, <2>2 DEF Records
    <2> QED
      BY <1>1, <1>3, <1>6, <2>3
  <1>7. CASE DeleteLBC(k)
    <2>1. CASE crs[k].fin
      <3>1. crs'[k] = [crs[k] EXCEPT !.deleting = TRUE]
        BY <1>5, <1>7, <2>1 DEF DeleteLBC
      <3>2. crs'[k].exists /\ crs'[k].elb = crs[k].elb
        BY <1>1, <3>1 DEF Records
      <3> QED
        BY <1>1, <1>3, <1>7, <3>2
    <2>2. CASE ~ crs[k].fin
      <3>1. crs'[k] = NoLBC
        BY <1>5, <1>7, <2>2 DEF DeleteLBC
      <3> QED
        BY <1>7, <3>1 DEF NoLBC, Seeks, Route
    <2> QED
      BY <2>1, <2>2
  <1> QED
    BY <1>4, <1>6, <1>7

\* A load balancer is left to nobody only by what users do.
THEOREM AbandonedLast == Spec => AbandonedOnlyByUsers
  <1> DEFINE Left == \A e \in ELBIDs :
                 /\ Live(e) /\ Live(e)'
                 /\ \E k \in LBCs : Claims(k, e)
                 /\ ~ \E k \in LBCs : Claims(k, e)'
                 => \E k \in LBCs :
                       /\ Claims(k, e)
                       /\ EditLBC(k) \/ DeleteLBC(k)
                       /\ crs'[k].elb = None /\ ~ Seeks(crs'[k])
  <1>1. Init => LiveInHand
    BY DEF Init, LiveInHand
  <1>2. TypeOK /\ Inv /\ LiveInHand /\ [Next]_vars => LiveInHand'
    BY LiveInHandNext DEF Inv
  <1>3. TypeOK /\ Inv /\ LiveInHand /\ [Next]_vars => [Left]_vars
    BY Abandoned DEF Inv
  <1> QED
    BY <1>1, <1>2, <1>3, Invariance, PTL DEF Spec, AbandonedOnlyByUsers
=============================================================================
