---------------------------- MODULE LBCLifecycle ----------------------------
(***************************************************************************)
(* The LoadBalancerConfigReconciler: LoadBalancerConfigs (LBCs) and the    *)
(* load balancers (ELBs) it creates for them.                              *)
(*                                                                         *)
(* One worker serves all LBCs; pc names its next call.  LBCs are read as   *)
(* unstructured objects, which the client fetches from the API server and  *)
(* not from a cache, and updateWithRetry repeats Get, modify, Update until *)
(* there is no conflict: an update is one step on the stored object.  What *)
(* is decided on is the object Reconcile read when it started.  An event   *)
(* that arrives late is a key that stays queued, so events are delivered   *)
(* with the change that causes them.                                       *)
(*                                                                         *)
(* Left out: delays, the annotations that are only shown to users (error,  *)
(* elb-status, public-ip, ready), and the case of reconcileEnsure that     *)
(* verifies a recorded load balancer and sets ready.  No step leads there: *)
(* Reconcile turns an LBC away as soon as huawei-elb.io/elb-id is set.     *)
(***************************************************************************)
EXTENDS Naturals, FiniteSets, Sequences

CONSTANTS
    LBCs,              \* the LBCs: records of a namespace and a name, each a sequence
                       \* of the parts between its hyphens
    ELBIDs,            \* ids the cloud hands out, never reused
    None,              \* an empty field
    MaxParts,          \* where a name is cut, in parts for the 64 characters of the code
    FaultPoints,       \* the calls that may fail in this instance
    Budget             \* how many of each disturbance there may be

Disturbances == {"fault", "crash", "create", "edit"}
Calls == {"hold", "find", "create", "record", "delete", "release"}

\* What spec.annotations say: nothing yet, something of the user's own, parameters of
\* Service load balancers (huawei-elb.io/*), the autocreate annotation of CCE CCM, or
\* annotations of another cloud.
Contents == {"empty", "plain", "template", "autocreate", "otherCloud"}

\* The namespace and the name with a hyphen between them, cut.  x-y/z and x/y-z get the
\* same name, and so do LBCs that differ only behind the cut.
elbNameForLBC(k) ==
    LET parts == k.namespace \o k.name
    IN  IF Len(parts) > MaxParts THEN SubSeq(parts, 1, MaxParts) ELSE parts

ASSUME NoneAssumption == None \notin ELBIDs \cup LBCs
ASSUME NameAssumption == \A k \in LBCs : elbNameForLBC(k) # None
ASSUME FaultAssumption == FaultPoints \subseteq Calls \cup {"createLost"}
ASSUME BudgetAssumption == Budget \in [Disturbances -> Nat]

VARIABLES
    crs,        \* the LBCs in the API server
    elbs,       \* the load balancers in the cloud
    pending,    \* the keys in the workqueue, immediately or after a delay
    up,         \* the manager is running
    pc,         \* the worker's next call, "idle" between reconciles
    key, read,  \* the LBC it works on, and the object it read
    elbID,      \* the load balancer it found, created or is to delete
    budget      \* disturbances left

worker == <<pc, key, read, elbID>>
vars == <<crs, elbs, pending, up, pc, key, read, elbID, budget>>

(***************************************************************************)
(* elb is spec.annotations[huawei-elb.io/elb-id]; detected says that the   *)
(* auto-detected vpc-id is in metadata.annotations.                        *)
(***************************************************************************)
NoLBC == [exists |-> FALSE, content |-> "empty", elb |-> None, detected |-> FALSE,
          fin |-> FALSE, deleting |-> FALSE]

Records == [exists : BOOLEAN, content : Contents, elb : ELBIDs \cup {None},
            detected : BOOLEAN, fin : BOOLEAN, deleting : BOOLEAN]
LoadBalancers == [st : {"free", "pending", "active", "gone"},
                  name : {elbNameForLBC(k) : k \in LBCs} \cup {None}]

Live(e) == elbs[e].st \in {"pending", "active"}

\* Mutant: only finished load balancers are looked at.
FindActiveELBByName(n) == {e \in ELBIDs : elbs[e].st = "active" /\ elbs[e].name = n}

\* Mutant: the list is not filtered by name.
FindAnyELB(n) == {e \in ELBIDs : Live(e)}

FindELBByName(n) == {e \in ELBIDs : Live(e) /\ elbs[e].name = n}

\* Every key that starts with huawei-elb.io/ counts, elb-id too.
HasPlan2Annotations(c) == c.content = "template" \/ c.elb # None

ShouldReconcile(c) == ~ HasPlan2Annotations(c) /\ c.content # "autocreate"

TypeOK ==
    /\ crs \in [LBCs -> Records]
    /\ elbs \in [ELBIDs -> LoadBalancers]
    /\ pending \subseteq LBCs /\ up \in BOOLEAN
    /\ pc \in Calls \cup {"idle"} /\ (pc = "idle" <=> key = None)
    /\ key \in LBCs \cup {None} /\ read \in Records /\ elbID \in ELBIDs \cup {None}
    /\ budget \in [Disturbances -> Nat]

Init ==
    /\ crs = [k \in LBCs |-> NoLBC]
    /\ elbs = [e \in ELBIDs |-> [st |-> "free", name |-> None]]
    /\ pending = {} /\ up = TRUE
    /\ pc = "idle" /\ key = None /\ read = NoLBC /\ elbID = None
    /\ budget = Budget

Spend(d) == budget[d] > 0 /\ budget' = [budget EXCEPT ![d] = @ - 1]

\* The stored object of k becomes c; whether the event queues it is decided by
\* controlledPredicate, deletions always do.
Store(k, c) == crs' = [crs EXCEPT ![k] = c]
Queued(k, c) ==
    IF up /\ (~ c.exists \/ ShouldReconcile(crs[k]) \/ ShouldReconcile(c)) THEN {k} ELSE {}

At(p) == up /\ pc = p
Goto(p) == pc' = p /\ UNCHANGED <<key, read>>
Rest == pc' = "idle" /\ key' = None /\ read' = NoLBC /\ elbID' = None

\* The reconcile ends and the key comes back after an error or a delay.
Requeue == Rest /\ pending' = pending \cup {key}

(***************************************************************************)
(* Reconcile.                                                              *)
(***************************************************************************)
\* What Reconcile makes of an object, by its early returns.  An LBC that is empty or
\* younger than five seconds comes back later.
Route(c) ==
    IF ~ c.exists \/ (c.deleting /\ ~ c.fin) THEN "skip"
    ELSE IF c.deleting THEN IF c.elb # None THEN "delete" ELSE "release"
    ELSE IF HasPlan2Annotations(c) THEN "skip"
    ELSE IF ~ c.detected /\ c.content \in {"autocreate", "otherCloud"} THEN "skip"
    ELSE IF ~ c.detected /\ c.content = "empty" THEN "later"
    ELSE IF ~ c.detected \/ ~ c.fin THEN "hold" ELSE "find"

Skip ==
    /\ At("idle")
    /\ \E k \in pending : Route(crs[k]) = "skip" /\ pending' = pending \ {k}
    /\ UNCHANGED <<crs, elbs, up, budget, worker>>

Reconcile ==
    /\ At("idle")
    /\ \E k \in pending :
          /\ Route(crs[k]) \notin {"skip", "later"}
          /\ pc' = Route(crs[k]) /\ key' = k /\ read' = crs[k] /\ elbID' = crs[k].elb
          /\ pending' = pending \ {k}
    /\ UNCHANGED <<crs, elbs, up, budget>>

\* The auto-detected parameters and the finalizer are written together.
Hold ==
    /\ At("hold")
    /\ IF crs[key].exists
       THEN Store(key, [crs[key] EXCEPT !.detected = TRUE, !.fin = TRUE])
       ELSE UNCHANGED crs
    /\ Requeue
    /\ UNCHANGED <<elbs, up, budget>>

(***************************************************************************)
(* reconcileEnsure.                                                        *)
(***************************************************************************)
FindExisting ==
    /\ At("find")
    /\ \/ \E e \in FindELBByName(elbNameForLBC(key)) : elbID' = e /\ Goto("record")
       \/ FindELBByName(elbNameForLBC(key)) = {} /\ Goto("create") /\ UNCHANGED elbID
    /\ UNCHANGED <<crs, elbs, pending, up, budget>>

NewELB(e) == elbs[e].st = "free"
             /\ elbs' = [elbs EXCEPT ![e] = [st |-> "pending", name |-> elbNameForLBC(key)]]

CreateELB ==
    /\ At("create")
    /\ \E e \in ELBIDs : NewELB(e) /\ elbID' = e
    /\ Goto("record")
    /\ UNCHANGED <<crs, pending, up, budget>>

\* The cloud created the load balancer, the answer was lost.
CreateELBAnswerLost ==
    /\ At("create") /\ "createLost" \in FaultPoints /\ Spend("fault")
    /\ \E e \in ELBIDs : NewELB(e)
    /\ Requeue
    /\ UNCHANGED <<crs, up>>

\* Mutant: the id is not taken from the answer.
RecordNothing ==
    /\ At("record")
    /\ Store(key, [crs[key] EXCEPT !.elb = ""])
    /\ Requeue
    /\ UNCHANGED <<elbs, up, budget>>

RecordELB ==
    /\ At("record")
    /\ Store(key, [crs[key] EXCEPT !.elb = elbID])
    /\ Requeue
    /\ UNCHANGED <<elbs, up, budget>>

(***************************************************************************)
(* reconcileDelete.                                                        *)
(***************************************************************************)
\* That the load balancer is already gone is not an error.
DeleteELB ==
    /\ At("delete")
    /\ elbs' = [elbs EXCEPT ![elbID].st = IF Live(elbID) THEN "gone" ELSE @]
    /\ Goto("release")
    /\ UNCHANGED <<crs, elbID, pending, up, budget>>

ReleaseLBC ==
    /\ At("release")
    /\ Store(key, NoLBC) /\ pending' = pending \cup {key}
    /\ Rest
    /\ UNCHANGED <<elbs, up, budget>>

\* Mutant: whatever goes wrong with the load balancer, the LBC is released.
DeleteFailsOpen ==
    /\ At(pc) /\ pc \in FaultPoints /\ Spend("fault")
    /\ IF pc = "delete" THEN Goto("release") /\ UNCHANGED <<elbID, pending>> ELSE Requeue
    /\ UNCHANGED <<crs, elbs, up>>

\* Mutant: errors are not retried.
CallGivesUp ==
    /\ At(pc) /\ pc \in FaultPoints /\ Spend("fault")
    /\ Rest
    /\ UNCHANGED <<crs, elbs, pending, up>>

\* A call fails without effect.
CallFails ==
    /\ At(pc) /\ pc \in FaultPoints /\ Spend("fault")
    /\ Requeue
    /\ UNCHANGED <<crs, elbs, up>>

ControllerStep ==
    \/ Skip \/ Reconcile \/ Hold
    \/ FindExisting \/ CreateELB \/ CreateELBAnswerLost \/ RecordELB
    \/ DeleteELB \/ ReleaseLBC \/ CallFails

(***************************************************************************)
(* The manager stops between two calls and starts again: every LBC is a    *)
(* create event.                                                           *)
(***************************************************************************)
Crash ==
    /\ up /\ Spend("crash")
    /\ up' = FALSE /\ pending' = {} /\ Rest
    /\ UNCHANGED <<crs, elbs>>

Restart ==
    /\ ~ up /\ up' = TRUE
    /\ pending' = {k \in LBCs : crs[k].exists /\ ShouldReconcile(crs[k])}
    /\ UNCHANGED <<crs, elbs, worker, budget>>

(***************************************************************************)
(* Users, the OpenEverest UI and the cloud.                                *)
(***************************************************************************)
\* A change of an LBC by somebody else.
Change(k, c) ==
    /\ Store(k, c) /\ pending' = pending \cup Queued(k, c)
    /\ UNCHANGED <<elbs, up, worker>>

CreateLBC(k) ==
    /\ ~ crs[k].exists /\ Spend("create")
    /\ \E t \in Contents : Change(k, [NoLBC EXCEPT !.exists = TRUE, !.content = t])

\* The UI writes the whole of spec.annotations, with or without the elb-id.
EditLBC(k) ==
    /\ crs[k].exists /\ Spend("edit")
    /\ \E t \in Contents \ {"empty"}, e \in {crs[k].elb, None} :
          Change(k, [crs[k] EXCEPT !.content = t, !.elb = e])

DeleteLBC(k) ==
    /\ crs[k].exists /\ ~ crs[k].deleting
    /\ Change(k, IF crs[k].fin THEN [crs[k] EXCEPT !.deleting = TRUE] ELSE NoLBC)
    /\ UNCHANGED budget

ELBActivates(e) ==
    /\ elbs[e].st = "pending"
    /\ elbs' = [elbs EXCEPT ![e].st = "active"]
    /\ UNCHANGED <<crs, pending, up, worker, budget>>

Environment ==
    \/ \E k \in LBCs : CreateLBC(k) \/ EditLBC(k) \/ DeleteLBC(k)
    \/ \E e \in ELBIDs : ELBActivates(e)

Next == ControllerStep \/ Crash \/ Restart \/ Environment

Spec == Init /\ [][Next]_vars

FairSpec == Spec /\ WF_vars(ControllerStep) /\ WF_vars(Restart)

(***************************************************************************)
(* Properties.                                                             *)
(***************************************************************************)
\* No name is ever given to two live load balancers: FindELBByName finds what a lost
\* answer or a crash kept from being recorded.
UniqueELBName ==
    \A e, f \in ELBIDs :
        Live(e) /\ Live(f) /\ elbs[e].name = elbs[f].name => e = f

\* The load balancer an LBC records and keeps is taken down only for the deletion of
\* another LBC that the code gives the same load balancer name.
OnlyNamesakeTakes ==
    [][\A k \in LBCs :
          /\ crs[k].exists /\ ~ crs[k].deleting /\ crs[k].elb # None
          /\ Live(crs[k].elb) /\ elbs'[crs[k].elb].st = "gone"
          => \E j \in LBCs \ {k} :
                crs[j].deleting /\ elbNameForLBC(j) = elbNameForLBC(k)]_vars

\* "elbNameForLBC builds a unique ELB name": no reconcile of another LBC takes down the
\* load balancer an LBC records and keeps.
RecordedELBKept ==
    [][\A k \in LBCs :
          LET c == crs[k] IN
          c.exists /\ ~ c.deleting /\ c.elb # None /\ Live(c.elb)
              => elbs'[c.elb].st # "gone"]_vars

\* An LBC is released only after the load balancer it records is gone, whatever the
\* cloud answers and wherever the manager stops.
ReleasedReclaimed ==
    [][\A k \in LBCs :
          LET c == crs[k] IN
          c.exists /\ ~ crs'[k].exists /\ c.elb # None => ~ Live(c.elb)]_vars

\* An LBC that neither Reconcile nor the event filter turns away before it looks for its
\* load balancer by name.
Seeks(c) == Route(c) \in {"hold", "find"} /\ ShouldReconcile(c)

\* The LBCs load balancer e belongs to: those that record it, and those that record none
\* and look it up by its name.
Claims(k, e) ==
    /\ crs[k].exists /\ elbNameForLBC(k) = elbs[e].name
    /\ crs[k].elb = e \/ (crs[k].elb = None /\ Seeks(crs[k]))

\* A load balancer is left to nobody only by what users do: they delete the LBC before it
\* records the load balancer, or an edit takes the id away and leaves the LBC one that is
\* turned away.  Crashes, lost answers and failures never do it, and an edit that only
\* drops the id does not: the lookup by name makes up for them.
AbandonedOnlyByUsers ==
    [][\A e \in ELBIDs :
          /\ Live(e) /\ Live(e)'
          /\ \E k \in LBCs : Claims(k, e)
          /\ ~ \E k \in LBCs : Claims(k, e)'
          => \E k \in LBCs :
                /\ Claims(k, e)
                /\ EditLBC(k) \/ DeleteLBC(k)
                /\ crs'[k].elb = None /\ ~ Seeks(crs'[k])]_vars

\* An LBC that stays and asks for a load balancer in the end records one that exists,
\* where it shares its load balancer's name with no other LBC.
ELBProvided ==
    \A k \in LBCs :
        (\A j \in LBCs \ {k} : elbNameForLBC(j) # elbNameForLBC(k))
        => (<>[](crs[k].exists /\ ~ crs[k].deleting /\ crs[k].content = "plain")
               => <>[](crs[k].elb # None /\ Live(crs[k].elb)))

\* An LBC that is deleted is released, its load balancer taken down before.
DeletedLBCReleased ==
    \A k \in LBCs : crs[k].deleting ~> ~ crs[k].deleting
=============================================================================
