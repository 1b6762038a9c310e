# huawei-elb-controller in TLA+

A verification development of the controller in `src/`: TLA+ modules that model its
reconcilers, TLC configurations that check them on small instances, and TLAPS proofs of
what holds for every instance. File names below are relative to `src/`; `SC` is
`internal/controller/service_controller.go`, `LBC` is
`internal/controller/loadbalancerconfig_controller.go`.

## 1. Inventory

The controller gives every database Service of type LoadBalancer a Huawei Cloud load
balancer (ELB) of its own. It is one process with two reconcilers and an admission webhook;
everything it must remember lives in the API server or in the cloud.

| Component | State | Operations | Talks to |
|---|---|---|---|
| Service reconciler, life cycle (`SC` 93-462, 503-657, 758-869) | none of its own; `ELBBinding` status and finalizer, Service status, legacy annotations | `Reconcile`, `reconcileCreate`, `reconcileUpdate`, `reconcileDelete`, `reconcileOrphanedBinding`, `ensureBinding`, `adoptLegacyAnnotations`, status and finalizer patches | informer caches (reads), API server (writes), ELB API |
| Listener stacks and members (`SC` 464-501, 660-756, 871-955, 1050-1146; `internal/huaweicloud/{listener,pool,member,healthcheck}.go`) | listeners, pools, health checks, members, EIP of one ELB | `createListenerStack`, `syncListenerStacks`, `syncAllPoolMembers`, `SyncMembers`, `getNodeBackends`, `deleteELBStack` | ELB, EIP APIs; Node and Endpoints caches |
| Service filters (`internal/controller/service_utils.go`) | none | `shouldReconcileService` and its tests | - |
| Event routing (`SC` 1148-1255) | workqueue | `svcPredicate`, node and endpoint handlers, `Owns(ELBBinding)` | informers |
| ACL IP groups (`SC` 823-848, 957-1048; `elb.go` 380-459) | one IP group per Service, its binding to listeners | `ensureACL`, bind, unbind, cleanup | ELB API |
| ELB parameters (`params.go`, `SC` 564-589, 1257-1294, `elb.go` 172-211, 266-375) | `status.lastKnownParams` | defaults, names, comparison, `UpdateELB` | ELB and EIP APIs |
| LoadBalancerConfig reconciler (`LBC`) | annotations and finalizer of the LBC | `Reconcile`, `reconcileEnsure`, `reconcileDelete`, `updateWithRetry` | API server directly, ELB API |
| Network detection (`detector.go`, `vpc.go`) | a cache for one hour under a mutex | `Detect`, `GetNeutronSubnet` | ECS and VPC APIs |
| Webhook (`internal/webhook/service_mutator.go`) | none | `Handle`: injects or restores `loadBalancerClass` | API server |
| Manager (`cmd/main.go`) | caches, workqueues | start, stop | everything |
| `cmd/list-vpcs`, generated code, charts, manifests | - | - | - |

Behaviours that are hard, and that tests with a fake client do not reach:

* every call is a point where the process may die, the call may fail, or its answer be lost;
* reads come from caches that lag behind the writes of the same reconcile, and merge patches
  write only what differs from the cached copy;
* a name is used again: what was recorded for a deleted Service meets its successor;
* the garbage collector, CCE CCM, OpenEverest and users act between any two calls;
* the ELB is created in one call and recorded in another, deleted in one and forgotten in
  another;
* events are filtered, so something that changes need not queue a key.

What makes the parts correct:

* life cycle: at most one ELB per Service and name; no ELB of a living Service deleted; no ELB
  left when everything is quiet; a Service that stays is served in the end;
* stacks: what is on the ELB matches ports and nodes in the end; a stable member is never taken
  out; teardown finishes whether or not the cloud cascades, and takes the EIP along;
* LBCs: one ELB per name; only the deletion of its own LBC, or of one the code gives the same
  name, takes an ELB down; an LBC that stays gets an ELB and a deleted one is released;
* ACL: at most one group per Service, no listener refers to a deleted one, the listeners carry
  the group of the Service's ranges in the end and no group is left over;
* parameters: the bandwidth asked for in the end is the one the ELB has;
* webhook: no operator is locked out by the class it leaves out, and CCM and the controller
  both serve one Service only where the code gives it no class.

`PROJECT.json` lists the hazards of the code, each at its line, and the properties that watch it.

## 2. Modules

| Module | Contents |
|---|---|
| `ELBOwnership` | abstract specification: an owner of a name and the load balancers made for it. They are made for the present owner or one that had been there, one per owner and name, and taken back only from an owner that is gone. |
| `ServiceLifecycle` | the Service reconciler for one Service key; implements `ELBOwnership` |
| `MCServiceLifecycle` | instances of it |
| `ServiceLifecycleProofs`, `ServiceReclaimProofs` | theorems about it; the second extends the first by what is proved of the records and of the end of a Service |
| `ResourceTree` | abstract specification: what the cloud asks of whoever works on one ELB. Its resources form a tree; one is created below resources that exist, and deleted when nothing is below it, or, if the cloud cascades, with all that is. The ELB itself never cascades. |
| `ELBStack`, `MCELBStack`, `ELBStackProofs` | what is built on one ELB; implements `ResourceTree`; instances, theorems |
| `ServiceAdmission` | the way of a Service into the API server: operator, webhook, the rule on `loadBalancerClass`, CCM |
| `ELBSettings`, `MCELBSettings`, `ELBSettingsProofs` | extends `ServiceAdmission` by the settings of the ELB: IP group and bandwidth from the Service to the cloud; instances, theorems |
| `LBCLifecycle`, `MCLBCLifecycle`, `LBCLifecycleProofs` | the LoadBalancerConfig reconciler, instances, theorems |

### ServiceLifecycle

One namespaced name. `svc` and `binding` are the objects in the API server, `svcCache` and
`bindCache` the manager's copies, `elbs` the cloud, `pending` the workqueue entry. `pc` names
the call the reconcile makes next; `svcRead`, `bindRead` and `elbID` are its local variables.
Each call is an action named after it (`PROJECT.json` maps each to its lines), so anything of
the environment may come between any two. The routing at the start of `Reconcile` reads only
caches and is one action per route. What the library does is modelled by what it does:

* A status or finalizer `Update` carries the resourceVersion of the copy it was made from. It
  succeeds if the copy equals the stored object. Versions
  that differ only in fields left out are not told apart; the conflicts they would cause are
  among the failures of the call.
* A merge patch is computed against the cached copy and writes only differing fields
  (`PatchBindingStatus`, `PatchIngress`). It carries no resourceVersion and no uid, so it reaches
  whatever object has the name.
* Deleting an object with a finalizer marks it; the API server adds no finalizer afterwards.
* One reconcile of a key at a time and one queue entry per key, immediate or delayed. Delays
  (10 s, 5 min, backoff) are not timed: a queued key may be taken at any moment.
* The informers show an object's latest state in one step and may skip states between; the
  event is decided on the two states the cache shows. A Service deleted and created again in
  between is a create and a delete event.
* A lost answer is separate only for `CreateELB` (`CreateELBAnswerLost`): the other writes are
  idempotent or guarded by versions, so their lost answer leaves the state of a crash right
  after them, or of the failure of the next call.

The manager's copies of Service and binding may lag behind at any time. That a reconcile reads
the binding while its copy is behind is counted, as are the other things that get in the way
(`Disturbances`), so that a property can name those it does not survive (`Spared`): a failed call
(`fault`), one that loses the trace of an ELB between its creation and its record (`lost`), the one
in whose place the code goes on to record an id although the binding may lack the finalizer
(`recover`, `SC` 326-328), a binding copy that is behind when read (`lag`; `BindingLags`), a stop
of the manager (`crash`), a start that no longer finds the Service (`unseen`), a renaming, a time
out of our class (`reclass`), an overwrite. The budget of each kind is a constant, and the proofs
are for any.

`Changes` says which changes of class an instance allows, in either direction: a Service may also
start as somebody else's and become ours. `Enqueues` is the filter's view of it: only a change of
the spec, such as one of type, queues the key, an edit of labels or annotations does not (`SC` 1183).

Abstracted: which labels and annotations make a Service ours (`Classes`); listener stacks
(`CreateStacks`, `UpdateSync`: they succeed while the ELB exists; see `ELBStack`);
`lastKnownParams`, the ACL fields and the IP group (see `ELBSettings`); `ingressIP`; a deletion
of the ELB behind the controller's back; network detection, which is one more call that fails
before `lookup`.

### ELBStack

One ELB from its creation on. `want` is `spec.ports` (port to node port, 0 while none is allocated),
`ready`, `hosts` and `local` are what `getNodeBackends` depends on; `listeners`,
`pools`, `checks`, `members` are the cloud. The reconcile's copies are `read` and `nodes`: the
nodes are read once before the listeners and again before the members, as in the code. A list
call returns the present state, since nobody else writes to this ELB and one reconcile runs
at a time. Whether the cloud deletes children along with their parent (`cascade`) is chosen at
the start: `listener.go:52` says it does, `SC` 871-873 says children must go first.
In `AddMember` and `RemoveMember` the order of the members is left open, the order of the two
phases is not. A crash, or a lost answer, is the same as the failure of the call that comes next.
Failures of `ShowELB` and `DeleteEIP` have a budget of their own (`address`): only they, or what is
the same as they, can cost the EIP.

`Exist` maps the cloud's part of the state to the resources of `ResourceTree`, `Above` says what each
hangs below: a listener below the ELB, a pool below its listener, a health check and the members below
their pool. Each cloud call is then one resource coming or going, and everything else a stutter.

### ServiceAdmission and ELBSettings

Together the way from a user's wish to the cloud, for one Service. In `ServiceAdmission` the user
edits `wish`, the operator writes it (`CreateService`, `UpdateService`, with or without the class
it finds, as PXC and PSMDB or PostgreSQL do), `HandleCreate` and `HandleUpdate` are the two
branches of the webhook, `Stored` and `Accepts` the API server's rule that only a LoadBalancer has
a class and that it may not change. `ccm` says that the template carries the CCM's annotations,
for which the webhook and the controller step aside. While the webhook does not answer, requests
are refused (`failurePolicy: Fail`), which is the same as sending them later.

`ELBSettings` adds the reconciler's view of it: `acl` (the IP group each listener refers to),
`groups` (the IP groups named after the Service), `bandwidth`, and in `bind` what the ELBBinding
remembers: the group's id, the bandwidth of `lastKnownParams`, whether the ELB's id is there
(`id`), and the finalizer (`fin`). The last two are apart, because the code goes on when the id
cannot be written (`RecordFails`, `SC` 374-395): it creates listeners, binds a group and records it,
and when the Service is deleted then, `StartCleanup` has a binding with a finalizer and a group and
no ELB. Likewise `NodesUnreadable` is the reconcile that goes on without having synchronised the
listeners (`SC` 677-682). A reconcile works on `read` and
`recorded`, its copies of spec and binding, and on `group`. Each cloud call is a step:
`FindIPGroup`, `UpdateIPGroup`, `CreateIPGroup`, one `UpdateListenerACL` per listener (`BindACL`,
`UnbindACL`), `DeleteIPGroup`, `UpdateELB`; so are the writes of the binding (`EnsureBinding`,
`RecordELB`, `RestoreBinding`, `RestoreID`, `PersistSettings`) and the calls of the cleanup. `EnterACL` carries what the
callers differ in: `reconcileCreate` has no id, `reconcileUpdate` the recorded one. A failure, or a
crash, ends the reconcile before the call; a lost answer leaves what the failure of the next call
leaves. `hit` remembers the kinds of disturbance there were: what call failed, a cached binding read
late, the id not written, the nodes not listed.

Abstracted: listeners come and go in one step (`SyncListeners`; the calls are `ELBStack`'s), there
is one ELB and its id is recorded or not (which one is `ServiceLifecycle`'s), source ranges are
parsed or not (`Valid`), the charge mode goes the way of the bandwidth and is left out, and so is the IP group id in the annotations of earlier versions, whose adoption is in
`ServiceLifecycle`.

### LBCLifecycle

All LBCs, one worker. LBCs are unstructured objects, which the client reads from the API server
and not from a cache; `updateWithRetry` repeats Get, modify, Update until there is no conflict, so
an update is one step on the stored object, while the decisions are taken on `read`, the object
as it was when `Reconcile` began. An LBC is its namespace and its name, each the sequence of the
parts between its hyphens; `elbNameForLBC` puts them together and cuts, as the code does at 64
characters (`MaxParts`, in parts), so `team-a/db` and `team/a-db` get one name. What
`AbandonedOnlyByUsers` says belongs to an ELB's name are the LBCs that record it and those that
`Reconcile` and the event filter let through to the lookup (`Seeks`). `reconcileEnsure`'s second case (verification of a recorded ELB) is left
out: the id is stored under a `huawei-elb.io/` key, for which `Reconcile` returns early.

## 3. Runs

Every passing run is exhaustive for its constants.

| Run | Instance | Checks |
|---|---|---|
| `lifecycle_hostile` | two incarnations of the name, two ELB ids, lagging caches, any one failed call, one lost create answer or failed wait or record, one crash, one overwrite, from nothing or from an annotated Service of an earlier version | `TypeOK`, `UniqueELBName`, `FinalizerHoldsELB`, `RecordedReclaimed`, `LiveELBKept`, refinement `OwnershipKept` |
| `lifecycle_reclaim` | two incarnations, two ELB names, a renaming, one failed call that loses no trace of an ELB | `NoSilentLeak`, `RecordedIDKept`, `DeletedServiceReclaimed` |
| `lifecycle_served` | one incarnation, lagging caches, three failures (one of each kind), crash, overwrite, a time out of our class and back by a change of type, from nothing or from a binding without finalizer | `LiveServiceServed` |
| `stack_sync` | two ports (one fixed), two nodes (one fixed), node ports none, 0, 1, 2; one failure, one of `ShowELB` or `DeleteEIP`, one edit of a port, one change of a node or the policy, cascading or not | `TypeOK`, `EIPReclaimed`, `SyncedExactly`, `FixedMembersKept`, `CompleteLeftAlone`, refinement `OrderKept`, `StackConverges`, `TornDown` |
| `settings_sync` | two ports, two readable source ranges and an unreadable one, two ids of IP groups, sizes none, two allowed and one too large, with and without EIP, six wishes among them a Service that is not exposed; two edits, one disturbance anywhere: a failure or crash, a late cached binding, an id that is not written, nodes that are not listed | `TypeOK`, `OperatorAccepted`, `OneGroup`, `BoundGroupExists`, `EnforcedWhenRecorded`, `RecordedSizeApplied`, `BothOnlyByExposing`, `NoGroupLeftBehind`, `RangesEnforced`, `RangesLifted`, `SizeApplied`, `GroupReclaimed` |
| `lbc_rough` | three LBCs, two of which get one name (by the hyphens and by the cut), two creations, three ELB ids, one failure or lost answer, one crash, one edit | `TypeOK`, `UniqueELBName`, `OnlyNamesakeTakes`, `ReleasedReclaimed`, `AbandonedOnlyByUsers`, `ELBProvided` |

Six runs show a place where the program does not do what its documentation or comments say
(each is quoted under "findings" in `PROJECT.json`):

| Run | Shows |
|---|---|
| `orphan_missed` | A Service deleted around a stop of the manager: its terminating ELBBinding, with the id and the finalizer, is seen after the restart, but the event filter drops its events and nothing queues the key; ELB and binding stay (README 38). |
| `name_reused` | `serviceUID` is stored and never compared: a Service that takes a name while the old binding exists works on its predecessor's ELB, and never gets one of its own. |
| `partial_stack` | A port whose pool or health check could not be created is never completed (`SC` 407 says it is). |
| `both_serve` | A Service that becomes a LoadBalancer by an update gets no class (`service_mutator.go:105`): CCM and the controller both serve it, which README 14 says is eliminated permanently. |
| `lbc_stuck` | The id the LBC reconciler records makes its own filters take the LBC for a template: its deletion is never seen, and `ready` never becomes true. |
| `lbc_shared_name` | `elbNameForLBC` "builds a unique ELB name" (`LBC` 448), but `team-a/db` and `team/a-db` share one: the second records the ELB of the first, and the deletion of either takes it from the other. |

Four more are in the models and stated under "hazards", without a run of their own:

* the status of a binding made for a legacy Service is written through the cache, once; if the cache
  is behind, the id is never recorded (`SC` 533);
* "immediately after ELB creation" (`SC` 359) comes after a wait of up to two minutes that may end
  the reconcile (`SC` 348);
* when the id of an ELB cannot be written and the Service is deleted before the next reconcile, the
  finalizer is removed and the ELB stays (`SC` 374, 798);
* a Service that becomes ours by an edit of its labels or annotations is not noticed until a restart
  (`SC` 1183).

### Bounds

Two uids are the deleted Service and the one that takes its name; what a third could meet, the
second meets. Two ELB ids are one for each, and a place for a duplicate: `UniqueELBName` is
about two. A failure anywhere, one more that loses a trace and a crash anywhere cover every pair of
interrupted steps; `lifecycle_served` allows three failures. Counts are spent from `Budget`, and what
may fail is in `FaultPoints`; both are constants, the proofs hold for all their values. The runs with
two incarnations give every Service a foreign finalizer (`Held`): one that is released before any
informer shows the deletion is a Service without.

Two creations of LBCs are two LBCs, namesakes or not, or one that comes again; three ids leave a place
for a duplicate. A cut after three parts makes `team/a-db-2` a namesake of `team-a/db`.

Two edits are a change and a change back, or a change that meets the one before half done. Two
ids of groups are one more than a Service should ever have at a time, and `OneGroup` is about two;
of a third the second says all there is, since ids are never reused and a deleted group is not
looked at again. One disturbance before any of the 18 calls, in any of the reconciles with
the edits between them, is every pair of interrupted steps. Two bandwidths within the limit are
needed for the record and the cloud to differ while both are allowed.

These limits are part of what a run says, not of its size:

* The properties of the life cycle name the disturbances they do not survive, and the conditions are
  where the code gives out:
  * `FinalizerHoldsELB` and `RecordedIDKept` hold until a reconcile reads a binding copy that is
    behind (`lag`), or writes the id after the failed `ensureBinding` whose error is only logged
    (`recover`). With a copy that is behind and a renaming, a second ELB is made and its id replaces
    the first; a finalizer seen in such a copy is not put on a binding that lacks it.
  * `RecordedReclaimed` needs besides that no start of the manager finds the Service gone (`unseen`;
    `orphan_missed` shows why) and that the Service was ours all the time. It survives crashes before
    and after the deletion, lost answers, and every other failure.
  * `NoSilentLeak` and `DeletedServiceReclaimed` speak of every ELB, not only of recorded ones. They
    need that nothing was lost between creation and record: the orphan path has no name to look up.
  * `HeldOrphanCleaned` is the same for a binding the controller sees; it is what `orphan_missed`
    refutes.
* `lifecycle_served` has one incarnation: with two, `name_reused` shows what happens, and a status
  patch without a uid can publish the predecessor's ELB for a time (hazard at `SC` 438). It has the
  changes of class that are changes of the spec, or lead away.
* `stack_sync` does not let `CreatePool` and `CreateHealthCheck` fail (`partial_stack` does). When
  `ShowELB` or `DeleteEIP` fails, or the manager stops between the deletions of ELB and EIP, the EIP is
  left to "manual cleanup" (`SC` 949): `EIPReclaimed` says that nothing else leaves it.
  `StackConverges` is claimed only if the cloud cascades: if not, a removed port blocks every
  later update, by the code's own order. `CompleteLeftAlone` speaks of a reconcile whose copies are
  those of the present; one with older copies does change a complete stack, and back.
* `settings_sync` states on what each property rests, and the conditions are where the code gives
  out:
  * `RangesEnforced` needs the binding to be writable. A group that was deleted while its id could
    not be cleared (`SC` 993) is updated for ever when ranges come back, and never found.
  * `RangesLifted` and `SizeApplied` need `ensureACL` and the record to succeed besides, and no late
    binding: a group that was bound but not recorded is not unbound when the ranges are removed
    (`SC` 966: no id, nothing to do), and a bandwidth that was applied but not recorded, then
    changed back, is taken for applied (`SC` 581). `RecordedSizeApplied` is the same at every moment
    instead of in the end, and needs each of the three conditions.
  * `EnforcedWhenRecorded`: a reconcile that gets as far as the record has the ranges in force on the
    listeners there are, whatever went wrong before. They are those of its ports unless the nodes
    could not be listed (kind `nodes`).
  * `GroupReclaimed` needs the same as `RangesLifted`, and that the ELB's id was written (kind `id`):
    without a Service there is no name to look the group or the ELB up by (`SC` 831, 798). With one
    there is, and `NoGroupLeftBehind` needs only that the binding is not late.
  * `BoundGroupExists` needs the id for the same reason: an orphan path that finds the group and not
    the ELB deletes the group under its listeners.
  * None of them speaks of a Service whose bandwidth `UpdateELB` refuses (`Unsettable`: no EIP, or
    beyond the bound that only creation enforces). There every reconcile ends at `SC` 583, and
    neither the ranges nor the address nor the phase `Ready` are reached.
  * `BothOnlyByExposing` is as far as the webhook goes; `both_serve` shows the rest.

### Fairness

* `WF(ControllerStep)`: the workqueue hands out a queued key and the worker makes its next call.
  Every error path requeues (10 s, 5 min or the rate limiter), and failures are bounded, as in
  an outage that ends.
* `WF(SyncService)`, `WF(SyncBinding)`: the informers catch up. `WF(Restart)`: the Deployment
  starts the process again. `WF(GarbageCollect)`, `WF(ReleaseService)`: Kubernetes collects
  dependents; whoever holds a finalizer releases it. `WF(ELBActivates)`: the cloud finishes a creation.
* `WF(Operator)`: a database operator repeats what the API server has not taken.
* Users are never obliged to act. That is why deadlock is not checked: a system where nobody
  wants anything may rest.

## 4. Theorems

Checked by TLAPS for all values of the constants, under the assumptions named in the modules
(`None` is not a uid, id or name; budgets are natural numbers; fault points are calls).

`ServiceLifecycleProofs`:

* `TypeCorrect`: `Spec => []TypeOK`.
* `Invariance`: the strengthening `Inv` is inductive. `UniqueELBName` alone is not, because the
  lookup and the creation are two calls: `LookupHolds` says that the result of the lookup still
  holds at `createELB`, and `UidsUsed` that a new incarnation's uid is on no load balancer yet.
  `LiveELBKept` needs `CleanupHasNoOwner` (while a cleanup runs, a Service that nobody deleted has no
  load balancer), which rests on `CacheKnows`: what exists for the present incarnation was made
  after the cache had seen it, so a cache that shows no Service, or an older one, cannot hide a
  load balancer of the present one. The mutant in which the workers do not wait for the cache after a
  restart breaks exactly this.
* `UniqueName`: `Spec => []UniqueELBName`.
* `LiveKept`: `Spec => LiveELBKept`.
* `Refinement`: `Spec => OwnershipKept`: initial states map to initial states of `ELBOwnership`,
  every step to one of its steps or to a stutter.

* `FinalizerHolds`: `Spec => []FinalizerHoldsELB`, from every start but a binding without a
  finalizer, with any number of crashes, lost answers, failures and lagging copies: the history has
  nothing to do with the constants, it is in the property. The invariant `Hold` says that the binding
  an id is about to be written to has the finalizer, and that a cleanup which comes to remove the
  finalizer has worked on the recorded ELB. It is inductive as long as the history is `Regular` (no
  `lag`, no `recover`), and `SparedBefore` (budgets only shrink) makes of that an invariant of the whole
  specification, `Held`. Both exceptions are needed: with a failure at `recover` a third disturbance
  suffices for an id on a predecessor's binding whose finalizer is already off.

`ServiceReclaimProofs`:

* `RecordKept`: `Spec => RecordedIDKept`, from the same starts. Added to `Hold` is `Unrecorded`: from
  the lookup until the id is written, the binding has none. So the three merge patches of an id,
  which carry no version, find nothing to overwrite.
* `RecordReclaimed`: `Spec => []RecordedReclaimed`, from the same starts: the two disturbances above,
  and those two that lose the event the deletion rests on, are all that can leave a recorded ELB
  behind. `Awake` says that a reconciler at rest which sees no Service leaves none: it needs `Hold`
  at the two steps that may rest, skipping a missing Service and the end of a cleanup, and `Steady`
  (every Service and every copy is ours) so that the event of a deletion queues the key.

`ELBStackProofs`:

* `StackType`: `Spec => []TypeOK`, from the induction with `CurSet` (the calls that work on
  one port have one).
* `FixedKept`: `Spec => FixedMembersKept`. The invariant `StableInv` says that a reconcile which may
  still reach `SyncMembers` has the present node ports of the ports nobody edits, that the nodes
  it compares with include those that stay, and that the tearing calls run only for a Service
  being deleted.
* `AddressReclaimed`: `Spec => []EIPReclaimed`, without an assumption. `AddressHeld` ties, as long
  as the budget `address` is untouched, what the reconcile knows of the address to the one call after
  which nobody can ask for it.
* `OrderRefinement`: `Spec => OrderKept`, so `ELBStack` implements `ResourceTree`, for all ports and
  nodes and whether or not the cloud cascades. `Ordered` says that the resources form a tree
  (`Closed`), that a reconcile that builds works below a port that is there (`Parents`), that one that
  tears down has seen the lower level empty (`Emptied`), and that nobody works on an ELB that is
  gone (`InUse`). It is inductive only with `StableInv`: tearing down starts only for a Service that
  is being deleted, so nothing is built in between.
* `SyncExact`: `Spec => []SyncedExactly`. `Progress` is the invariant of the loop over the pools: each
  is still to do, in hand, or holds exactly what was read.
* `NothingRedone`: `Spec => CompleteLeftAlone`, from the same invariants: with present copies, no
  call finds anything missing or left over. It is the part of `StackConverges` ("and stays so") that
  needs no fairness.

`ELBSettingsProofs`:

* `TypeCorrect`, `NeverTwoGroups` (`OneGroup`), `NoDanglingGroup` (`BoundGroupExists`). The invariant
  `InOrder` says what the call a reconcile has come to relies on: that the lookup still holds at
  the creation, that the group in hand is live where it is bound and recorded, that no listener
  refers to a group about to be deleted, that a cleanup runs only for a Service that has ended.
  `Identified` adds, where the id was always written, that a binding with a group has the ELB too.
* `ReleasedWithoutGroup` (`NoGroupLeftBehind`): `Traced` adds, for as long as no cached binding was
  late, that a recorded group is the only one and that a cleanup which has the Service finds
  whatever is left.
* `NeverRejected` (`OperatorAccepted`) and `ServedByOneUnlessExposed` (`BothOnlyByExposing`).
* `EnforcedOnRecord` (`EnforcedWhenRecorded`), unconditional. `Enforcing` follows a
  reconcile from `UpdateELB` on: the listeners are those of the ports it read, the group it binds is
  live and has the ranges it read, and it unbinds only if it read none.
* `RecordedSize` (`RecordedSizeApplied`). `Settled` says, as long as nothing spoiled it, that the record
  is what the ELB has except between `UpdateELB` and the record, where it is what was read
  (`Sized`), and that the recorded group is there to be updated (`GroupThere`): otherwise
  `ensureACL` would fail after `UpdateELB` and the record would not be reached. What the IP group
  has to do with the bandwidth is that they share one record at the end.

`LBCLifecycleProofs`:

* `TypeCorrect`, `UniqueName` (`UniqueELBName`: the lookup by name holds until the creation,
  `LookupHolds`), `ReleasedLast` (`ReleasedReclaimed`) and `OnlyNamesake` (`OnlyNamesakeTakes`).
  `Recorded` and `InHand` say that what an LBC records, or the worker holds, was made under that LBC's
  name; so an ELB that goes was made under the name of the LBC being deleted.
* `AbandonedLast`: `Spec => AbandonedOnlyByUsers`. To `Inv` it adds `LiveInHand`: what the worker is
  about to record is live. All four hold with or without shared names.

Only model-checked: everything under fairness (`LiveServiceServed`, `DeletedServiceReclaimed`,
`StackConverges`, `TornDown`, `RangesEnforced`, `RangesLifted`, `SizeApplied`, `GroupReclaimed`,
`ELBProvided`), which is out of the proof system's reach, and `NoSilentLeak`. Every other property of
a passing run is stated by a theorem, and for most of those under fairness the part that needs none
is among them: `RecordReclaimed` for `DeletedServiceReclaimed`, `SyncExact` and `NothingRedone` for `StackConverges`,
`OrderRefinement` for `TornDown`, `EnforcedOnRecord` for `RangesEnforced`, `RecordedSize` for
`SizeApplied`, `ReleasedWithoutGroup` for `GroupReclaimed`. Each
property has a mutant of a modelled definition (kept beside it, marked "Mutant") that TLC finds to
violate it.

## 5. Plan

Done, in this order: `ELBOwnership` and `ServiceLifecycle` (the state that must never be lost), their
proofs, `ELBStack` with proofs, `LBCLifecycle` with proofs, `ServiceAdmission` and `ELBSettings` with
proofs, `ResourceTree` with the refinement, the proofs of `RecordedIDKept` and `RecordedReclaimed` and
those of what a synchronisation and a record are worth.

Next:

1. Two managers at once (no leader election at `cmd/main.go` 64, rolling update) in
   `ServiceLifecycle`: the reconcile's variables per manager, with what then still holds of
   `UniqueELBName` and `LiveELBKept`.
2. A composition: `ServiceLifecycle`'s `CreateStacks` and `UpdateSync` as the stuttering view of
   `ELBStack`, and `ELBSettings`' `SyncListeners` likewise.
3. Two incarnations in `ELBSettings`: IP groups are named without the uid (`acl-<namespace>-<name>`),
   so a successor may take up the group its predecessor's cleanup is about to delete.
4. A proof of `NoSilentLeak` as it is stated now: `Awake` for ELBs that are on their way to a record.

Not modelled, and why:

* Network detection: a cache with a time limit before read-only queries. It keeps nothing that
  another step relies on; its failure is one of the failures before `lookup`.
* The SDK clients and credentials, and `list-vpcs`: construction and read-only calls, no state.
* Generated code, charts and manifests; logging, metrics and health endpoints: no behaviour.
* A deletion of the ELB behind the controller's back: every later call fails (`SC` 553), nothing
  is there to be promised. `ListMembers` reads one page; pools here are smaller than one.
* The wording of names and tags. That the name of a Service's ELB identifies (uid, name), and which
  LBCs share one, is what the models use of it.
